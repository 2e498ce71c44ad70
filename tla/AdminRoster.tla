------------------------------ MODULE AdminRoster ------------------------------
(***************************************************************************)
(* Who may sign in as an administrator, and who of them is a SUPER_ADMIN   *)
(* (admin-user.service.ts). Every write of a colleague's account runs in a *)
(* transaction that first locks the SUPER_ADMIN role, counts the holders   *)
(* that would remain, and writes. The actor's own privilege was read       *)
(* before the lock. Accepting an invitation takes no lock.                 *)
(***************************************************************************)
EXTENDS FiniteSets

CONSTANTS
    Accounts,     \* administrators' accounts
    Founder,      \* the SUPER_ADMIN the seed creates
    Managers      \* requests in progress

NoOne == "no request"

ASSUME RosterAssumption == Founder \in Accounts /\ NoOne \notin Managers

VARIABLES
    account,   \* AdminUser rows: status, soft delete, the SUPER_ADMIN role
    manager,   \* what each request is about to do, to whom, and as whom
    roleLock   \* the request that holds the role's row lock

rosterVars == <<account, manager, roleLock>>

AccountStatuses == {"ABSENT", "INVITED", "ACTIVE", "SUSPENDED", "DISABLED"}
Account == [status: AccountStatuses, deleted: BOOLEAN, super: BOOLEAN]
Changes == {"none", "create", "activate", "suspend", "disable", "remove", "promote", "demote",
            "setPassword", "accept"}

RosterTypeOK ==
    /\ account \in [Accounts -> Account]
    /\ manager \in [Managers -> [at: {"idle", "wait", "judge", "write", "accept"}, change: Changes,
                                 target: Accounts, privileged: BOOLEAN]]
    /\ roleLock \in Managers \cup {NoOne}

AtEase == [at |-> "idle", change |-> "none", target |-> Founder, privileged |-> FALSE]

RosterInit ==
    /\ account = [a \in Accounts |->
                    IF a = Founder THEN [status |-> "ACTIVE", deleted |-> FALSE, super |-> TRUE]
                    ELSE [status |-> "ABSENT", deleted |-> FALSE, super |-> FALSE]]
    /\ manager = [m \in Managers |-> AtEase]
    /\ roleLock = NoOne

OnRoster(a) == account[a].status # "ABSENT" /\ ~account[a].deleted
CanSignIn(a) == account[a].status = "ACTIVE" /\ ~account[a].deleted
\* isActiveSuperAdmin, countActiveHolders
ActiveSuper(a) == CanSignIn(a) /\ account[a].super

\* What the change makes of a row it finds.
Changed(row, change) ==
    CASE change = "create"      -> [status |-> "ACTIVE", deleted |-> FALSE, super |-> FALSE]
      [] change = "activate"    -> [row EXCEPT !.status = "ACTIVE"]
      [] change = "suspend"     -> [row EXCEPT !.status = "SUSPENDED"]
      [] change = "disable"     -> [row EXCEPT !.status = "DISABLED"]
      [] change = "remove"      -> [row EXCEPT !.status = "DISABLED", !.deleted = TRUE]
      [] change = "promote"     -> [row EXCEPT !.super = TRUE]
      [] change = "demote"      -> [row EXCEPT !.super = FALSE]
      [] change = "setPassword" -> [row EXCEPT !.status = IF @ = "INVITED" THEN "ACTIVE" ELSE @]
      [] OTHER                  -> row

\* The request starts: the actor signs in, and its privilege is read. A role may be
\* granted only by somebody who holds all it confers (assertGrantable).
Begin(m, actor, change, target) ==
    /\ manager[m].at = "idle"
    /\ CanSignIn(actor)
    /\ change \in Changes \ {"none", "accept"}
    /\ change \in {"remove", "setPassword"} => actor # target
    /\ change = "promote" => account[actor].super
    /\ change = "create" => account[target].status = "ABSENT"
    /\ manager' = [manager EXCEPT ![m] = [at |-> "wait", change |-> change, target |-> target,
                                          privileged |-> account[actor].super]]
    /\ UNCHANGED <<account, roleLock>>

\* A faulty transaction that does not wait for the role's row.
EnterUnlocked(m) ==
    /\ manager[m].at = "wait"
    /\ roleLock' = m
    /\ manager' = [manager EXCEPT ![m].at = "judge"]
    /\ UNCHANGED account
\* withRoleLock
Enter(m) ==
    /\ manager[m].at = "wait" /\ roleLock = NoOne
    /\ roleLock' = m
    /\ manager' = [manager EXCEPT ![m].at = "judge"]
    /\ UNCHANGED account

\* The changes that end a SUPER_ADMIN's power.
Lowers(change) == change \in {"suspend", "disable", "remove", "demote"}
AnotherSuperAdmin(target) == \E a \in Accounts \ {target} : ActiveSuper(a)

\* assertManageable: a target that confers more than the actor holds is out of reach.
MayManage(m) ==
    LET target == manager[m].target IN
    \/ manager[m].change = "create" /\ account[target].status = "ABSENT"
    \/ /\ manager[m].change # "create" /\ OnRoster(target)
       /\ account[target].super => manager[m].privileged
\* assertAnotherSuperAdmin, asked of a target that is one.
LeavesOne(m) ==
    LET target == manager[m].target IN
    Lowers(manager[m].change) /\ ActiveSuper(target) => AnotherSuperAdmin(target)

Judge(m) ==
    /\ manager[m].at = "judge"
    /\ IF MayManage(m) /\ LeavesOne(m)
       THEN manager' = [manager EXCEPT ![m].at = "write"] /\ UNCHANGED roleLock
       ELSE manager' = [manager EXCEPT ![m] = AtEase] /\ roleLock' = NoOne
    /\ UNCHANGED account

\* The write and the commit, which gives the lock back. A new account is INVITED when
\* its creator chose no password.
Commit(m) ==
    LET target == manager[m].target  row == Changed(account[target], manager[m].change) IN
    /\ manager[m].at = "write"
    /\ \/ account' = [account EXCEPT ![target] = row]
       \/ /\ manager[m].change = "create"
          /\ account' = [account EXCEPT ![target] = [row EXCEPT !.status = "INVITED"]]
    /\ manager' = [manager EXCEPT ![m] = AtEase]
    /\ roleLock' = NoOne

\* The transaction fails or its worker dies: it rolls back.
RollBack(m) ==
    /\ manager[m].at # "idle"
    /\ manager' = [manager EXCEPT ![m] = AtEase]
    /\ roleLock' = IF roleLock = m THEN NoOne ELSE roleLock
    /\ UNCHANGED account

\* completePasswordReset of an invitation: read, then write by id, outside the lock.
ReadInvite(m, target) ==
    /\ manager[m].at = "idle"
    /\ account[target].status = "INVITED" /\ ~account[target].deleted
    /\ manager' = [manager EXCEPT ![m] = [AtEase EXCEPT !.at = "accept", !.change = "accept",
                                                        !.target = target]]
    /\ UNCHANGED <<account, roleLock>>
AcceptInvite(m) ==
    /\ manager[m].at = "accept"
    /\ account' = [account EXCEPT ![manager[m].target].status = "ACTIVE"]
    /\ manager' = [manager EXCEPT ![m] = AtEase]
    /\ UNCHANGED roleLock

RosterNext ==
    \/ \E m \in Managers, actor, target \in Accounts, change \in Changes : Begin(m, actor, change, target)
    \/ \E m \in Managers :
          Enter(m) \/ Judge(m) \/ Commit(m) \/ RollBack(m) \/ AcceptInvite(m)
    \/ \E m \in Managers, target \in Accounts : ReadInvite(m, target)

RosterSpec == RosterInit /\ [][RosterNext]_rosterVars

-------------------------------------------------------------------------------
\* "Nobody - the SUPER_ADMIN themselves included - may leave the platform without one":
\* two administrators who disable, remove or demote each other at once cannot both
\* succeed, because a SUPER_ADMIN who can sign in is left after every step.
SuperAdminRemains == \E a \in Accounts : ActiveSuper(a)

===============================================================================
