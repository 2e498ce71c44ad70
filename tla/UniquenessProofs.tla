--------------------------- MODULE UniquenessProofs ---------------------------
(***************************************************************************)
(* What there is one of: a session's live refresh token, the request that  *)
(* an idempotency key records, the effect of a webhook event and of each   *)
(* replay, every number of a document series; and that there is always one *)
(* SUPER_ADMIN who can sign in.  For every number of requests, tokens,     *)
(* accounts, series, keys, expiries, events and workers that die.          *)
(***************************************************************************)
EXTENDS TokenRotation, AdminRoster, DocumentNumbers, Idempotency, WebhookInbox,
        FiniteSetTheorems, TLAPS

-------------------------------------------------------------------------------
(* TokenRotation *)

\* A claimed token is used up before its child exists: a request that is about to
\* issue one is alone, and no token is live meanwhile.
IssuerIsAlone ==
    /\ \A w \in Rotations, t \in Tokens : RotationAt(w, "issue") => ~Live(t)
    /\ \A v, w \in Rotations : RotationAt(v, "issue") /\ RotationAt(w, "issue") => v = w

\* What requests hold: a token that was delivered, and the child that was inserted.
HeldTokens ==
    /\ Root \in delivered
    /\ \A t \in delivered : Exists(t)
    /\ \A w \in Rotations :
          /\ rotation[w].presented \in delivered
          /\ RotationAt(w, "recheck") => Exists(rotation[w].issued)

\* A revocation reaches every token that was delivered before it, and none is after.
DeliveredAreRevoked == ended => \A t \in delivered : token[t].revoked

TokenInv == TokensTypeOK /\ OneLiveToken /\ IssuerIsAlone /\ HeldTokens /\ DeliveredAreRevoked

LEMMA TokensStart == TokensInit => TokenInv
<1> SUFFICES ASSUME TokensInit PROVE TokenInv
  OBVIOUS
<1>1. TokensTypeOK
  BY TokenAssumption DEF TokensInit, TokensTypeOK, NoRotation, TokenStates, RotationSteps
<1>2. OneLiveToken /\ IssuerIsAlone
  BY TokenAssumption DEF TokensInit, OneLiveToken, IssuerIsAlone, Live, RotationAt, NoRotation
<1>3. HeldTokens /\ DeliveredAreRevoked
  BY TokenAssumption DEF TokensInit, HeldTokens, DeliveredAreRevoked, Exists, RotationAt, NoRotation
<1> QED
  BY <1>1, <1>2, <1>3 DEF TokenInv

\* revokeFamily ends every live token, and changes no state.
LEMMA RevocationReachesAll ==
    ASSUME TokensTypeOK, RevokeRows
    PROVE  /\ token' \in [Tokens -> [state: TokenStates, revoked: BOOLEAN]]
           /\ \A t \in Tokens : token'[t].state = token[t].state
           /\ \A t \in Tokens : token'[t].state # "none" => token'[t].revoked
BY DEF TokensTypeOK, RevokeRows

\* A request goes on to any step but those that issue or look back.
LEMMA TokenMovingOn ==
    ASSUME TokenInv, NEW w \in Rotations, NEW step \in RotationSteps \ {"issue", "recheck"},
           Rotate(w, step), UNCHANGED <<token, delivered, ended>>
    PROVE  TokenInv'
<1>1. TokensTypeOK'
  BY DEF TokenInv, TokensTypeOK, Rotate
<1>2. \A v \in Rotations : /\ rotation'[v].presented = rotation[v].presented
                           /\ rotation'[v].issued = rotation[v].issued
                           /\ rotation'[v].step \in {rotation[v].step, step}
  BY DEF TokenInv, TokensTypeOK, Rotate
<1>3. OneLiveToken' /\ IssuerIsAlone'
  BY <1>2 DEF TokenInv, OneLiveToken, IssuerIsAlone, RotationAt, Live
<1>4. HeldTokens' /\ DeliveredAreRevoked'
  BY <1>2 DEF TokenInv, HeldTokens, DeliveredAreRevoked, RotationAt, Exists
<1> QED
  BY <1>1, <1>3, <1>4 DEF TokenInv

\* The steps that judge a row, and the end of a worker.
LEMMA RequestMovesOn ==
    ASSUME TokenInv, NEW w \in Rotations,
           JudgeToken(w) \/ JudgeLost(w) \/ RotationDies(w)
    PROVE  TokenInv'
<1>1. PICK step \in RotationSteps \ {"issue", "recheck"} :
        Rotate(w, step) /\ UNCHANGED <<token, delivered, ended>>
  BY DEF JudgeToken, JudgeLost, RotationDies, RotationSteps
<1> QED
  BY <1>1, TokenMovingOn

LEMMA PresentKeeps ==
    ASSUME TokenInv, NEW w \in Rotations, NEW t \in Tokens, Present(w, t)
    PROVE  TokenInv'
BY DEF TokenInv, TokensTypeOK, OneLiveToken, IssuerIsAlone, HeldTokens, DeliveredAreRevoked,
       Present, RotationAt, Live, Exists, RotationSteps

\* The claim: the one live token is used up, and nobody else is about to issue.
LEMMA ClaimKeeps ==
    ASSUME TokenInv, NEW w \in Rotations, ClaimToken(w)
    PROVE  TokenInv'
<1> DEFINE t == rotation[w].presented
<1> t \in Tokens
  BY DEF TokenInv, TokensTypeOK
<1>1. CASE TokenClaimable(t)
  <2>1. token' = [token EXCEPT ![t].state = "used"] /\ Rotate(w, "issue")
        /\ UNCHANGED <<delivered, ended>>
    BY <1>1 DEF ClaimToken
  <2>2. Live(t) /\ \A v \in Rotations : ~RotationAt(v, "issue")
    BY <1>1 DEF TokenClaimable, TokenInv, IssuerIsAlone
  <2>3. TokensTypeOK'
    BY <2>1 DEF TokenInv, TokensTypeOK, Rotate, TokenStates, RotationSteps
  <2>4. \A u \in Tokens : ~Live(u)'
    BY <2>1, <2>2 DEF TokenInv, TokensTypeOK, OneLiveToken, Live
  <2>5. OneLiveToken' /\ IssuerIsAlone'
    BY <2>1, <2>2, <2>4 DEF TokenInv, TokensTypeOK, OneLiveToken, IssuerIsAlone, Rotate, RotationAt
  <2>6. HeldTokens' /\ DeliveredAreRevoked'
    BY <2>1 DEF TokenInv, TokensTypeOK, HeldTokens, DeliveredAreRevoked, Rotate, RotationAt, Exists
  <2> QED
    BY <2>3, <2>5, <2>6 DEF TokenInv
<1>2. CASE ~TokenClaimable(t)
  <2>1. Rotate(w, "lost") /\ UNCHANGED <<token, delivered, ended>>
    BY <1>2 DEF ClaimToken
  <2> QED
    BY <2>1, TokenMovingOn DEF RotationSteps
<1> QED
  BY <1>1, <1>2

\* The child is the only live token, and its issuer was the only one.
LEMMA IssueKeeps ==
    ASSUME TokenInv, NEW w \in Rotations, NEW t \in Tokens, IssueChild(w, t)
    PROVE  TokenInv'
<1>1. /\ token' = [token EXCEPT ![t] = [state |-> "unused", revoked |-> FALSE]]
      /\ rotation' = [rotation EXCEPT ![w].step = "recheck", ![w].issued = t]
      /\ UNCHANGED <<delivered, ended>>
      /\ RotationAt(w, "issue") /\ ~Exists(t)
  BY DEF IssueChild
<1>2. TokensTypeOK'
  BY <1>1 DEF TokenInv, TokensTypeOK, TokenStates, RotationSteps
<1>3. \A u \in Tokens : Live(u)' => u = t
  BY <1>1 DEF TokenInv, TokensTypeOK, IssuerIsAlone, Live
<1>4. \A v \in Rotations : ~RotationAt(v, "issue")'
  BY <1>1 DEF TokenInv, TokensTypeOK, IssuerIsAlone, RotationAt
<1>5. HeldTokens'
  BY <1>1 DEF TokenInv, TokensTypeOK, HeldTokens, RotationAt, Exists
<1>6. DeliveredAreRevoked'
  BY <1>1 DEF TokenInv, TokensTypeOK, HeldTokens, DeliveredAreRevoked, Exists
<1> QED
  BY <1>2, <1>3, <1>4, <1>5, <1>6 DEF TokenInv, OneLiveToken, IssuerIsAlone

\* A child is delivered only while its parent is not revoked; after a revocation every
\* parent is.
LEMMA LookBackKeeps ==
    ASSUME TokenInv, NEW w \in Rotations, LookBack(w)
    PROVE  TokenInv'
<1>1. CASE token[rotation[w].presented].revoked
  <2>1. Rotate(w, "revoke") /\ UNCHANGED <<token, delivered, ended>>
    BY <1>1 DEF LookBack
  <2> QED
    BY <2>1, TokenMovingOn DEF RotationSteps
<1>2. CASE ~token[rotation[w].presented].revoked
  <2>1. ~ended
    BY <1>2 DEF TokenInv, HeldTokens, DeliveredAreRevoked
  <2>2. /\ Rotate(w, "idle") /\ delivered' = delivered \cup {rotation[w].issued}
        /\ UNCHANGED <<token, ended>> /\ RotationAt(w, "recheck")
    BY <1>2 DEF LookBack
  <2>3. TokensTypeOK'
    BY <2>2 DEF TokenInv, TokensTypeOK, Rotate, RotationSteps
  <2>4. \A v \in Rotations : /\ rotation'[v].presented = rotation[v].presented
                             /\ rotation'[v].issued = rotation[v].issued
                             /\ rotation'[v].step \in {rotation[v].step, "idle"}
    BY <2>2 DEF TokenInv, TokensTypeOK, Rotate
  <2>5. OneLiveToken' /\ IssuerIsAlone'
    BY <2>2, <2>4 DEF TokenInv, OneLiveToken, IssuerIsAlone, RotationAt, Live
  <2>6. HeldTokens' /\ DeliveredAreRevoked'
    BY <2>1, <2>2, <2>4 DEF TokenInv, HeldTokens, DeliveredAreRevoked, RotationAt, Exists
  <2> QED
    BY <2>3, <2>5, <2>6 DEF TokenInv
<1> QED
  BY <1>1, <1>2

\* Whoever revokes the family.
LEMMA RevocationKeeps ==
    ASSUME TokenInv, RevokeRows, ended' = TRUE, UNCHANGED delivered,
           \/ UNCHANGED rotation
           \/ \E w \in Rotations : Rotate(w, "idle")
    PROVE  TokenInv'
<1>1. /\ token' \in [Tokens -> [state: TokenStates, revoked: BOOLEAN]]
      /\ \A t \in Tokens : token'[t].state = token[t].state
      /\ \A t \in Tokens : token'[t].state # "none" => token'[t].revoked
  BY RevocationReachesAll DEF TokenInv
<1>2. \A t \in Tokens : ~Live(t)' /\ Exists(t)' = Exists(t)
  BY <1>1 DEF Live, Exists
<1>3. rotation' \in [Rotations -> [step: RotationSteps, presented: Tokens, issued: Tokens]]
  BY DEF TokenInv, TokensTypeOK, Rotate, RotationSteps
<1>4. \A v \in Rotations : /\ rotation'[v].presented = rotation[v].presented
                           /\ rotation'[v].issued = rotation[v].issued
                           /\ rotation'[v].step \in {rotation[v].step, "idle"}
  BY DEF TokenInv, TokensTypeOK, Rotate
<1>5. TokensTypeOK' /\ OneLiveToken'
  BY <1>1, <1>2, <1>3 DEF TokenInv, TokensTypeOK, OneLiveToken
<1>6. IssuerIsAlone'
  BY <1>2, <1>4 DEF TokenInv, IssuerIsAlone, RotationAt
<1>7. HeldTokens'
  BY <1>2, <1>4 DEF TokenInv, TokensTypeOK, HeldTokens, RotationAt
<1>8. DeliveredAreRevoked'
  BY <1>1, <1>2 DEF TokenInv, TokensTypeOK, HeldTokens, DeliveredAreRevoked, Exists
<1> QED
  BY <1>5, <1>6, <1>7, <1>8 DEF TokenInv

LEMMA TokenStepKeeps == TokenInv /\ [TokensNext]_tokenVars => TokenInv'
<1> SUFFICES ASSUME TokenInv, [TokensNext]_tokenVars PROVE TokenInv'
  OBVIOUS
<1>1. ASSUME NEW w \in Rotations, NEW t \in Tokens, Present(w, t) \/ IssueChild(w, t)
      PROVE  TokenInv'
  BY <1>1, PresentKeeps, IssueKeeps
<1>2. ASSUME NEW w \in Rotations, JudgeToken(w) \/ JudgeLost(w) \/ RotationDies(w)
      PROVE  TokenInv'
  BY <1>2, RequestMovesOn
<1>3. ASSUME NEW w \in Rotations, ClaimToken(w) \/ LookBack(w)
      PROVE  TokenInv'
  BY <1>3, ClaimKeeps, LookBackKeeps
<1>4. ASSUME NEW w \in Rotations, RevokeForReuse(w) \/ RevokeChild(w)
      PROVE  TokenInv'
  BY <1>4, RevocationKeeps DEF RevokeForReuse, RevokeChild
<1>5. ASSUME EndSession PROVE TokenInv'
  BY <1>5, RevocationKeeps DEF EndSession
<1>6. CASE UNCHANGED tokenVars
  BY <1>6 DEF tokenVars, TokenInv, TokensTypeOK, OneLiveToken, IssuerIsAlone, HeldTokens,
       DeliveredAreRevoked, Live, Exists, RotationAt
<1> QED
  BY <1>1, <1>2, <1>3, <1>4, <1>5, <1>6 DEF TokensNext

THEOREM TokenInvariant == TokensSpec => []TokenInv
BY TokensStart, TokenStepKeeps, PTL DEF TokensSpec

\* The rows, the requests in progress and what was delivered keep their types.
THEOREM TokensTypeCorrect == TokensSpec => []TokensTypeOK
<1>1. TokenInv => TokensTypeOK
  BY DEF TokenInv
<1> QED
  BY <1>1, TokenInvariant, PTL

\* Two concurrent refreshes cannot fork one session into two live ones.
THEOREM NeverForked == TokensSpec => []OneLiveToken
<1>1. TokenInv => OneLiveToken
  BY DEF TokenInv
<1> QED
  BY <1>1, TokenInvariant, PTL

\* No live token survives a revocation that raced its rotation.
THEOREM NoTokenSurvives == TokensSpec => []RevokedStaysDead
<1>1. TokenInv => RevokedStaysDead
  BY DEF TokenInv, DeliveredAreRevoked, RevokedStaysDead, Live
<1> QED
  BY <1>1, TokenInvariant, PTL

-------------------------------------------------------------------------------
(* AdminRoster *)

ManagerAt(m, step) == manager[m].at = step

\* A request judges and writes with the role locked, so it is alone in doing so.
LockIsHeld == \A m \in Managers : ManagerAt(m, "judge") \/ ManagerAt(m, "write") => roleLock = m

\* What was judged still holds at the write: the one who loses power is not the last, and
\* an account about to be created does not exist.
JudgedHolds ==
    \A m \in Managers : ManagerAt(m, "write") =>
        /\ Lowers(manager[m].change) => AnotherSuperAdmin(manager[m].target)
        /\ manager[m].change = "create" => account[manager[m].target].status = "ABSENT"

\* An invitation about to be accepted is an account's.
InviteesExist == \A m \in Managers : ManagerAt(m, "accept") => account[manager[m].target].status # "ABSENT"

RosterInv == RosterTypeOK /\ SuperAdminRemains /\ LockIsHeld /\ JudgedHolds /\ InviteesExist

LEMMA RosterStarts == RosterInit => RosterInv
<1> SUFFICES ASSUME RosterInit PROVE RosterInv
  OBVIOUS
<1>1. RosterTypeOK
  BY RosterAssumption DEF RosterInit, RosterTypeOK, AtEase, Account, AccountStatuses, Changes
<1>2. SuperAdminRemains
  BY RosterAssumption DEF RosterInit, SuperAdminRemains, ActiveSuper, CanSignIn
<1>3. LockIsHeld /\ JudgedHolds /\ InviteesExist
  BY DEF RosterInit, LockIsHeld, JudgedHolds, InviteesExist, ManagerAt, AtEase
<1> QED
  BY <1>1, <1>2, <1>3 DEF RosterInv

\* A row is one of the code's rows after any change.
LEMMA ChangedIsAccount ==
    ASSUME NEW row \in Account, NEW change \in Changes
    PROVE  Changed(row, change) \in Account
BY DEF Account, AccountStatuses, Changes, Changed

\* Only the four changes that are judged take power from a row that exists.
LEMMA OthersKeepPower ==
    ASSUME NEW row \in Account, NEW change \in Changes, change # "create", ~Lowers(change),
           row.status = "ACTIVE", ~row.deleted, row.super
    PROVE  LET new == Changed(row, change) IN new.status = "ACTIVE" /\ ~new.deleted /\ new.super
BY DEF Account, AccountStatuses, Changes, Changed, Lowers

\* No change makes an account disappear.
LEMMA RowsRemain ==
    ASSUME NEW row \in Account, NEW change \in Changes, row.status # "ABSENT"
    PROVE  Changed(row, change).status # "ABSENT"
BY DEF Account, AccountStatuses, Changes, Changed

\* A request that starts, enters, is refused, rolls back or reads leaves the accounts alone.
LEMMA ManagerMovesOn ==
    ASSUME RosterInv, NEW m \in Managers, UNCHANGED account, RosterTypeOK',
           \A v \in Managers \ {m} : manager'[v] = manager[v],
           \A v \in Managers \ {m} : roleLock = v => roleLock' = v,
           ManagerAt(m, "judge")' => roleLock' = m,
           ~ManagerAt(m, "write")',
           ManagerAt(m, "accept")' => account[manager'[m].target].status # "ABSENT"
    PROVE  RosterInv'
<1>1. SuperAdminRemains'
  BY DEF RosterInv, SuperAdminRemains, ActiveSuper, CanSignIn
<1>2. LockIsHeld'
  BY DEF RosterInv, LockIsHeld, ManagerAt
<1>3. JudgedHolds'
  BY DEF RosterInv, JudgedHolds, ManagerAt, AnotherSuperAdmin, ActiveSuper, CanSignIn
<1>4. InviteesExist'
  BY DEF RosterInv, InviteesExist, ManagerAt
<1> QED
  BY <1>1, <1>2, <1>3, <1>4 DEF RosterInv

LEMMA BeginKeeps ==
    ASSUME RosterInv, NEW m \in Managers, NEW actor \in Accounts, NEW target \in Accounts,
           NEW change \in Changes, Begin(m, actor, change, target)
    PROVE  RosterInv'
<1>1. RosterTypeOK'
  BY DEF RosterInv, RosterTypeOK, Begin, Account
<1>2. manager'[m].at = "wait" /\ \A v \in Managers \ {m} : manager'[v] = manager[v]
  BY DEF RosterInv, RosterTypeOK, Begin
<1> QED
  BY <1>1, <1>2, ManagerMovesOn DEF Begin, ManagerAt

LEMMA EnterKeeps ==
    ASSUME RosterInv, NEW m \in Managers, Enter(m)
    PROVE  RosterInv'
<1>1. RosterTypeOK'
  BY DEF RosterInv, RosterTypeOK, Enter
<1>2. manager'[m].at = "judge" /\ \A v \in Managers \ {m} : manager'[v] = manager[v]
  BY DEF RosterInv, RosterTypeOK, Enter
<1>3. \A v \in Managers : roleLock # v
  BY RosterAssumption DEF Enter
<1> QED
  BY <1>1, <1>2, <1>3, ManagerMovesOn DEF Enter, ManagerAt

LEMMA JudgeKeeps ==
    ASSUME RosterInv, NEW m \in Managers, Judge(m)
    PROVE  RosterInv'
<1> DEFINE target == manager[m].target
           change == manager[m].change
<1>1. roleLock = m
  BY DEF RosterInv, LockIsHeld, ManagerAt, Judge
<1>2. CASE MayManage(m) /\ LeavesOne(m)
  <2>1. manager' = [manager EXCEPT ![m].at = "write"] /\ UNCHANGED <<account, roleLock>>
    BY <1>2 DEF Judge
  <2>2. RosterTypeOK'
    BY <2>1 DEF RosterInv, RosterTypeOK
  <2>3. /\ manager'[m].at = "write" /\ manager'[m].target = target /\ manager'[m].change = change
        /\ \A v \in Managers \ {m} : manager'[v] = manager[v]
    BY <2>1 DEF RosterInv, RosterTypeOK
  <2>4. SuperAdminRemains'
    BY <2>1 DEF RosterInv, SuperAdminRemains, ActiveSuper, CanSignIn
  <2>5. LockIsHeld' /\ InviteesExist'
    BY <1>1, <2>1, <2>3 DEF RosterInv, LockIsHeld, InviteesExist, ManagerAt
  <2>6. Lowers(change) => AnotherSuperAdmin(target)
    BY <1>2 DEF RosterInv, SuperAdminRemains, LeavesOne, AnotherSuperAdmin
  <2>7. change = "create" => account[target].status = "ABSENT"
    BY <1>2 DEF MayManage
  <2>8. AnotherSuperAdmin(target) => AnotherSuperAdmin(target)'
    BY <2>1 DEF AnotherSuperAdmin, ActiveSuper, CanSignIn
  <2>9. JudgedHolds'
    <3> SUFFICES ASSUME NEW v \in Managers, ManagerAt(v, "write")'
                 PROVE  (/\ Lowers(manager[v].change) => AnotherSuperAdmin(manager[v].target)
                         /\ manager[v].change = "create" =>
                              account[manager[v].target].status = "ABSENT")'
      BY DEF JudgedHolds
    <3>1. v = m
      BY <1>1, <2>1, <2>3 DEF RosterInv, LockIsHeld, ManagerAt
    <3>2. Lowers(manager'[m].change) => AnotherSuperAdmin(target)'
      BY <2>3, <2>6, <2>8 DEF Lowers
    <3>3. manager'[m].change = "create" => account'[manager'[m].target].status = "ABSENT"
      BY <2>1, <2>3, <2>7
    <3> QED
      BY <3>1, <3>2, <3>3
  <2> QED
    BY <2>2, <2>4, <2>5, <2>9 DEF RosterInv
<1>3. CASE ~(MayManage(m) /\ LeavesOne(m))
  <2>1. manager' = [manager EXCEPT ![m] = AtEase] /\ roleLock' = NoOne /\ UNCHANGED account
    BY <1>3 DEF Judge
  <2>2. RosterTypeOK'
    BY <2>1, RosterAssumption DEF RosterInv, RosterTypeOK, AtEase, Changes
  <2>3. manager'[m].at = "idle" /\ \A v \in Managers \ {m} : manager'[v] = manager[v]
    BY <2>1 DEF RosterInv, RosterTypeOK, AtEase
  <2> QED
    BY <1>1, <2>1, <2>2, <2>3, ManagerMovesOn DEF ManagerAt
<1> QED
  BY <1>2, <1>3

LEMMA RollBackKeeps ==
    ASSUME RosterInv, NEW m \in Managers, RollBack(m)
    PROVE  RosterInv'
<1>1. RosterTypeOK'
  BY RosterAssumption DEF RosterInv, RosterTypeOK, RollBack, AtEase, Changes
<1>2. manager'[m].at = "idle" /\ \A v \in Managers \ {m} : manager'[v] = manager[v]
  BY DEF RosterInv, RosterTypeOK, RollBack, AtEase
<1> QED
  BY <1>1, <1>2, ManagerMovesOn DEF RollBack, ManagerAt

LEMMA ReadInviteKeeps ==
    ASSUME RosterInv, NEW m \in Managers, NEW target \in Accounts, ReadInvite(m, target)
    PROVE  RosterInv'
<1>1. RosterTypeOK'
  BY RosterAssumption DEF RosterInv, RosterTypeOK, ReadInvite, AtEase, Changes
<1>2. /\ manager'[m].at = "accept" /\ manager'[m].target = target
      /\ \A v \in Managers \ {m} : manager'[v] = manager[v]
  BY DEF RosterInv, RosterTypeOK, ReadInvite, AtEase
<1> QED
  BY <1>1, <1>2, ManagerMovesOn DEF ReadInvite, ManagerAt

\* Accepting outside the lock gives power and takes none.
LEMMA AcceptKeeps ==
    ASSUME RosterInv, NEW m \in Managers, AcceptInvite(m)
    PROVE  RosterInv'
<1> DEFINE target == manager[m].target
<1>1. /\ account' = [account EXCEPT ![target].status = "ACTIVE"]
      /\ manager' = [manager EXCEPT ![m] = AtEase] /\ UNCHANGED roleLock
      /\ target \in Accounts /\ account[target].status # "ABSENT"
  BY DEF RosterInv, RosterTypeOK, InviteesExist, ManagerAt, AcceptInvite
<1>2. RosterTypeOK'
  BY <1>1, RosterAssumption DEF RosterInv, RosterTypeOK, AtEase, Changes, Account, AccountStatuses
<1>3. manager'[m].at = "idle" /\ \A v \in Managers \ {m} : manager'[v] = manager[v]
  BY <1>1 DEF RosterInv, RosterTypeOK, AtEase
<1>4. \A a \in Accounts : /\ ActiveSuper(a) => ActiveSuper(a)'
                          /\ account'[a].status = "ABSENT" <=> account[a].status = "ABSENT"
  BY <1>1 DEF RosterInv, RosterTypeOK, Account, ActiveSuper, CanSignIn
<1>5. SuperAdminRemains' /\ LockIsHeld'
  BY <1>1, <1>3, <1>4 DEF RosterInv, SuperAdminRemains, LockIsHeld, ManagerAt
<1>6. JudgedHolds' /\ InviteesExist'
  BY <1>3, <1>4 DEF RosterInv, RosterTypeOK, JudgedHolds, InviteesExist, ManagerAt, AnotherSuperAdmin
<1> QED
  BY <1>2, <1>5, <1>6 DEF RosterInv

\* The lock makes the writer alone, so what it judged is what it finds.
LEMMA CommitKeeps ==
    ASSUME RosterInv, NEW m \in Managers, Commit(m)
    PROVE  RosterInv'
<1> DEFINE target == manager[m].target
           change == manager[m].change
           row == Changed(account[target], change)
<1>1. PICK new \in {row, [row EXCEPT !.status = "INVITED"]} :
        /\ account' = [account EXCEPT ![target] = new]
        /\ new = row \/ change = "create"
  BY DEF Commit
<1>2. /\ manager' = [manager EXCEPT ![m] = AtEase] /\ roleLock' = NoOne /\ ManagerAt(m, "write")
      /\ target \in Accounts /\ change \in Changes /\ account[target] \in Account
  BY DEF RosterInv, RosterTypeOK, Commit, ManagerAt
<1>3. new \in Account
  BY <1>1, <1>2, ChangedIsAccount DEF Account, AccountStatuses
<1>4. /\ account'[target] = new
      /\ \A a \in Accounts \ {target} : account'[a] = account[a]
  BY <1>1, <1>2 DEF RosterInv, RosterTypeOK
<1>5. manager'[m].at = "idle" /\ \A v \in Managers \ {m} : manager'[v] = manager[v]
  BY <1>2 DEF RosterInv, RosterTypeOK, AtEase
<1>6. RosterTypeOK'
  BY <1>1, <1>2, <1>3, RosterAssumption DEF RosterInv, RosterTypeOK, AtEase, Changes
<1>7. \A v \in Managers : ~ManagerAt(v, "judge")' /\ ~ManagerAt(v, "write")'
  BY <1>2, <1>5 DEF RosterInv, LockIsHeld, ManagerAt
<1>8. SuperAdminRemains'
  <2>1. CASE Lowers(change)
    <3>1. PICK a \in Accounts \ {target} : ActiveSuper(a)
      BY <1>2, <2>1 DEF RosterInv, JudgedHolds, AnotherSuperAdmin
    <3> QED
      BY <1>4, <3>1 DEF SuperAdminRemains, ActiveSuper, CanSignIn
  <2>2. CASE change = "create"
    <3>1. account[target].status = "ABSENT"
      BY <1>2, <2>2 DEF RosterInv, JudgedHolds
    <3> QED
      BY <1>4, <3>1 DEF RosterInv, SuperAdminRemains, ActiveSuper, CanSignIn
  <2>3. CASE ~Lowers(change) /\ change # "create"
    <3>1. PICK a \in Accounts : ActiveSuper(a)
      BY DEF RosterInv, SuperAdminRemains
    <3>2. CASE a = target
      <4>1. account[target].status = "ACTIVE" /\ ~account[target].deleted /\ account[target].super
        BY <3>1, <3>2 DEF ActiveSuper, CanSignIn
      <4>2. row.status = "ACTIVE" /\ ~row.deleted /\ row.super
        BY <1>2, <2>3, <4>1, OthersKeepPower
      <4> QED
        BY <1>1, <1>2, <1>4, <2>3, <4>2 DEF SuperAdminRemains, ActiveSuper, CanSignIn
    <3>3. CASE a # target
      BY <1>4, <3>1, <3>3 DEF SuperAdminRemains, ActiveSuper, CanSignIn
    <3> QED
      BY <3>2, <3>3
  <2> QED
    BY <2>1, <2>2, <2>3
<1>9. LockIsHeld' /\ JudgedHolds'
  BY <1>7 DEF LockIsHeld, JudgedHolds
<1>10. InviteesExist'
  <2>1. account[target].status # "ABSENT" => new.status # "ABSENT"
    <3>1. account[target].status # "ABSENT" => row.status # "ABSENT"
      BY <1>2, RowsRemain
    <3>2. change = "create" => account[target].status = "ABSENT"
      BY <1>2 DEF RosterInv, JudgedHolds
    <3> QED
      BY <1>1, <3>1, <3>2
  <2> QED
    BY <1>4, <1>5, <2>1 DEF RosterInv, RosterTypeOK, InviteesExist, ManagerAt
<1> QED
  BY <1>6, <1>8, <1>9, <1>10 DEF RosterInv

LEMMA RosterStepKeeps == RosterInv /\ [RosterNext]_rosterVars => RosterInv'
<1> SUFFICES ASSUME RosterInv, [RosterNext]_rosterVars PROVE RosterInv'
  OBVIOUS
<1>1. ASSUME NEW m \in Managers, NEW actor \in Accounts, NEW target \in Accounts,
             NEW change \in Changes, Begin(m, actor, change, target)
      PROVE  RosterInv'
  BY <1>1, BeginKeeps
<1>2. ASSUME NEW m \in Managers,
             Enter(m) \/ Judge(m) \/ Commit(m) \/ RollBack(m) \/ AcceptInvite(m)
      PROVE  RosterInv'
  BY <1>2, EnterKeeps, JudgeKeeps, CommitKeeps, RollBackKeeps, AcceptKeeps
<1>3. ASSUME NEW m \in Managers, NEW target \in Accounts, ReadInvite(m, target)
      PROVE  RosterInv'
  BY <1>3, ReadInviteKeeps
<1>4. CASE UNCHANGED rosterVars
  BY <1>4 DEF rosterVars, RosterInv, RosterTypeOK, SuperAdminRemains, LockIsHeld, JudgedHolds,
       InviteesExist, ManagerAt, AnotherSuperAdmin, ActiveSuper, CanSignIn
<1> QED
  BY <1>1, <1>2, <1>3, <1>4 DEF RosterNext

THEOREM RosterInvariant == RosterSpec => []RosterInv
BY RosterStarts, RosterStepKeeps, PTL DEF RosterSpec

\* Accounts and requests keep their types.
THEOREM RosterTypeCorrect == RosterSpec => []RosterTypeOK
<1>1. RosterInv => RosterTypeOK
  BY DEF RosterInv
<1> QED
  BY <1>1, RosterInvariant, PTL

\* However many administrators disable, remove or demote each other at once, a
\* SUPER_ADMIN who can sign in is left.
THEOREM NeverLockedOut == RosterSpec => []SuperAdminRemains
<1>1. RosterInv => SuperAdminRemains
  BY DEF RosterInv
<1> QED
  BY <1>1, RosterInvariant, PTL

-------------------------------------------------------------------------------
(* DocumentNumbers *)

\* Number n of series s is in the hands of request t.
Holds(t, s, n) == t \in Served(s) /\ taker[t].got = n

\* No number was handed out beyond the counter, none twice, and none was left out.
Drawn == \A s \in Series : \A t \in Served(s) : taker[t].got \in 1..lastNumber[s]
Distinct == \A s \in Series : \A t, u \in Served(s) : taker[t].got = taker[u].got => t = u
Complete == \A s \in Series : \A n \in 1..lastNumber[s] : \E t \in Takers : Holds(t, s, n)

NumbersInv == NumbersTypeOK /\ Drawn /\ Distinct /\ Complete

LEMMA NumbersStart == NumbersInit => NumbersInv
BY NumbersAssumption DEF NumbersInit, NumbersInv, NumbersTypeOK, Drawn, Distinct, Complete, Served

\* A step that leaves the counters and the requests that are served alone.
LEMMA ServedStay ==
    ASSUME NumbersInv, NumbersTypeOK', UNCHANGED lastNumber,
           \A t \in Takers : /\ taker'[t].got = taker[t].got
                             /\ taker'[t].at = "done" <=> taker[t].at = "done"
    PROVE  NumbersInv'
<1>1. \A s \in Series : Served(s)' = Served(s)
  BY DEF Served
<1>2. \A s \in Series, n \in Nat, t \in Takers : Holds(t, s, n)' <=> Holds(t, s, n)
  BY <1>1 DEF Holds
<1>3. Drawn' /\ Distinct'
  BY <1>1 DEF NumbersInv, Drawn, Distinct, Served
<1>4. Complete'
  BY <1>2 DEF NumbersInv, Complete
<1> QED
  BY <1>3, <1>4 DEF NumbersInv

LEMMA ReadKeeps ==
    ASSUME NumbersInv, NEW t \in Takers, ReadLast(t)
    PROVE  NumbersInv'
<1>1. NumbersTypeOK'
  BY NumbersAssumption DEF NumbersInv, NumbersTypeOK, ReadLast
<1>2. \A u \in Takers : /\ taker'[u].got = taker[u].got
                        /\ taker'[u].at = "done" <=> taker[u].at = "done"
  BY DEF NumbersInv, NumbersTypeOK, ReadLast
<1> QED
  BY <1>1, <1>2, ServedStay DEF ReadLast

\* The winner takes the number after the counter, which nobody has; the loser nothing.
LEMMA WriteKeeps ==
    ASSUME NumbersInv, NEW t \in Takers, WriteNext(t)
    PROVE  NumbersInv'
<1> DEFINE s == SeriesOf[t]
           n == lastNumber[s] + 1
<1> s \in Series
  BY NumbersAssumption
<1>1. CASE Wins(t)
  <2>1. /\ lastNumber' = [lastNumber EXCEPT ![s] = n]
        /\ taker' = [taker EXCEPT ![t].at = "done", ![t].got = n]
        /\ taker[t].at = "write"
    BY <1>1 DEF WriteNext, Wins
  <2>2. NumbersTypeOK'
    <3>1. n \in Nat /\ lastNumber' \in [Series -> Nat]
      BY <2>1 DEF NumbersInv, NumbersTypeOK
    <3> HIDE DEF n
    <3> QED
      BY <2>1, <3>1 DEF NumbersInv, NumbersTypeOK
  <2>3. /\ lastNumber'[s] = n
        /\ \A r \in Series \ {s} : lastNumber'[r] = lastNumber[r]
    BY <2>1 DEF NumbersInv, NumbersTypeOK
  <2>4. /\ taker'[t].got = n
        /\ \A u \in Takers \ {t} : taker'[u] = taker[u]
    BY <2>1 DEF NumbersInv, NumbersTypeOK
  <2>5. /\ Served(s)' = Served(s) \cup {t}
        /\ t \notin Served(s)
        /\ \A r \in Series \ {s} : Served(r)' = Served(r) /\ t \notin Served(r)
    BY <2>1 DEF NumbersInv, NumbersTypeOK, Served
  <2>6. \A r \in Series : lastNumber[r] \in Nat
    BY DEF NumbersInv, NumbersTypeOK
  <2>7. \A r \in Series : \A u \in Served(r) : taker[u].got \in 1..lastNumber[r] /\ u \in Takers
    BY DEF NumbersInv, Drawn, Served
  <2>8. Drawn'
    BY <2>3, <2>4, <2>5, <2>6, <2>7 DEF Drawn
  <2>9. Distinct'
    <3> SUFFICES ASSUME NEW r \in Series, NEW u \in Served(r)', NEW v \in Served(r)',
                        taker'[u].got = taker'[v].got
                 PROVE  u = v
      BY DEF Distinct
    <3>1. CASE u \in Served(r) /\ v \in Served(r)
      BY <2>4, <2>5, <2>7, <3>1 DEF NumbersInv, Distinct
    <3>2. CASE r = s /\ u = t /\ v # t
      BY <2>4, <2>5, <2>6, <2>7, <3>2
    <3>3. CASE r = s /\ v = t /\ u # t
      BY <2>4, <2>5, <2>6, <2>7, <3>3
    <3> QED
      BY <2>5, <3>1, <3>2, <3>3
  <2>10. Complete'
    <3> SUFFICES ASSUME NEW r \in Series, NEW k \in 1..lastNumber'[r]
                 PROVE  \E u \in Takers : Holds(u, r, k)'
      BY DEF Complete
    <3>1. CASE r = s /\ k = n
      BY <2>4, <2>5, <3>1 DEF Holds
    <3>2. CASE ~(r = s /\ k = n)
      <4>1. k \in 1..lastNumber[r]
        BY <2>3, <2>6, <3>2
      <4>2. PICK u \in Takers : Holds(u, r, k)
        BY <4>1 DEF NumbersInv, Complete
      <4>3. u # t /\ u \in Served(r)'
        BY <2>5, <4>2 DEF Holds
      <4> QED
        BY <2>4, <4>2, <4>3 DEF Holds
    <3> QED
      BY <3>1, <3>2
  <2> QED
    BY <2>2, <2>8, <2>9, <2>10 DEF NumbersInv
<1>2. CASE ~Wins(t)
  <2>1. taker' = [taker EXCEPT ![t].at = "read"] /\ UNCHANGED lastNumber /\ taker[t].at = "write"
    BY <1>2 DEF WriteNext
  <2>2. NumbersTypeOK'
    BY <2>1 DEF NumbersInv, NumbersTypeOK
  <2>3. \A u \in Takers : /\ taker'[u].got = taker[u].got
                          /\ taker'[u].at = "done" <=> taker[u].at = "done"
    BY <2>1 DEF NumbersInv, NumbersTypeOK
  <2> QED
    BY <2>1, <2>2, <2>3, ServedStay
<1> QED
  BY <1>1, <1>2

LEMMA NumberStepKeeps == NumbersInv /\ [NumbersNext]_numberVars => NumbersInv'
<1> SUFFICES ASSUME NumbersInv, [NumbersNext]_numberVars PROVE NumbersInv'
  OBVIOUS
<1>1. ASSUME NEW t \in Takers, ReadLast(t) \/ WriteNext(t) PROVE NumbersInv'
  BY <1>1, ReadKeeps, WriteKeeps
<1>2. CASE UNCHANGED numberVars
  BY <1>2, ServedStay DEF numberVars, NumbersInv, NumbersTypeOK
<1> QED
  BY <1>1, <1>2 DEF NumbersNext

THEOREM NumbersInvariant == NumbersSpec => []NumbersInv
BY NumbersStart, NumberStepKeeps, PTL DEF NumbersSpec

\* The counters and the requests keep their types.
THEOREM NumbersTypeCorrect == NumbersSpec => []NumbersTypeOK
<1>1. NumbersInv => NumbersTypeOK
  BY DEF NumbersInv
<1> QED
  BY <1>1, NumbersInvariant, PTL

\* However many requests race for a number, every series is handed out without a
\* duplicate and without a gap.
THEOREM NumbersGapless == NumbersSpec => []GaplessSeries
<1>1. NumbersInv => GaplessSeries
  <2> SUFFICES ASSUME NumbersInv, NEW s \in Series
               PROVE  /\ {taker[t].got : t \in Served(s)} = 1..lastNumber[s]
                      /\ \A t, u \in Served(s) : taker[t].got = taker[u].got => t = u
    BY DEF GaplessSeries
  <2>1. \A t \in Served(s) : taker[t].got \in 1..lastNumber[s]
    BY DEF NumbersInv, Drawn
  <2>2. \A n \in 1..lastNumber[s] : \E t \in Served(s) : taker[t].got = n
    BY DEF NumbersInv, Complete, Holds
  <2>3. {taker[t].got : t \in Served(s)} = 1..lastNumber[s]
    BY <2>1, <2>2
  <2> QED
    BY <2>3 DEF NumbersInv, Distinct
<1> QED
  BY <1>1, NumbersInvariant, PTL

-------------------------------------------------------------------------------
(* Idempotency *)

RequestAt(q, step) == request[q].step = step
Working(q) == request[q].step \in {"run", "settle"}
\* A request that is past the lookup never creates a row (again).
BeyondCreating(q) == request[q].step \notin {"new", "wait", "drop", "create"}

\* A request at work finds the key still its own, and not expired.
WorkersOwnTheKey ==
    \A q \in Requests : Working(q) => keyRow.state = "IN_PROGRESS" /\ keyRow.by = q /\ ~keyRow.expired

\* Nobody else settles a row, so one in progress is being worked on, unless its creator died.
SomebodyWorks == keyRow.state = "IN_PROGRESS" /\ requestCrashes = 0 => Working(keyRow.by)

\* A row was created by a request that creates no other one.
CreatedOnce == keyRow.state # "none" => BeyondCreating(keyRow.by)

\* The row a request is about to drop is the expired one it read, or is gone.
DropsExpired ==
    \A q \in Requests : RequestAt(q, "drop") =>
        /\ BeyondCreating(request[q].read)
        /\ keyRow.state # "none" /\ keyRow.by = request[q].read => keyRow.expired

KeyInv == IdempotencyTypeOK /\ WorkersOwnTheKey /\ SomebodyWorks /\ CreatedOnce /\ DropsExpired

LEMMA KeyStarts == IdempotencyInit => KeyInv
<1> SUFFICES ASSUME IdempotencyInit PROVE KeyInv
  OBVIOUS
<1>1. (CHOOSE q \in Requests : TRUE) \in Requests
  BY IdempotencyAssumption
<1>2. IdempotencyTypeOK
  BY <1>1, IdempotencyAssumption DEF IdempotencyInit, IdempotencyTypeOK, NoKey, KeyRow, RequestSteps
<1>3. WorkersOwnTheKey /\ SomebodyWorks /\ CreatedOnce /\ DropsExpired
  BY DEF IdempotencyInit, NoKey, WorkersOwnTheKey, SomebodyWorks, CreatedOnce, DropsExpired, Working, RequestAt
<1> QED
  BY <1>2, <1>3 DEF KeyInv

\* A request that does not hold the key's row goes on to a step that does not either.
LEMMA RequestMovingOn ==
    ASSUME KeyInv, NEW q \in Requests, NEW step \in RequestSteps \ {"run", "settle", "drop"},
           NEW read \in Requests,
           request' = [request EXCEPT ![q] = [step |-> step, read |-> read]],
           ~Working(q), BeyondCreating(q) => step \in {"bare", "done"},
           UNCHANGED <<keyRow, requestCrashes>>, IdempotencyTypeOK'
    PROVE  KeyInv'
<1>1. \A p \in Requests : \/ p # q /\ request'[p] = request[p]
                          \/ p = q /\ request'[p].step = step
  BY DEF KeyInv, IdempotencyTypeOK
<1>2. WorkersOwnTheKey'
  BY <1>1 DEF KeyInv, WorkersOwnTheKey, Working
<1>3. keyRow.by \in Requests
  BY DEF KeyInv, IdempotencyTypeOK, KeyRow
<1>4. SomebodyWorks'
  BY <1>1, <1>3 DEF KeyInv, SomebodyWorks, Working
<1>5. \A p \in Requests : BeyondCreating(p) => BeyondCreating(p)'
  BY <1>1 DEF BeyondCreating
<1>6. CreatedOnce'
  BY <1>3, <1>5 DEF KeyInv, CreatedOnce
<1>7. \A p \in Requests : request[p].read \in Requests
  BY DEF KeyInv, IdempotencyTypeOK
<1>8. DropsExpired'
  BY <1>1, <1>5, <1>7 DEF KeyInv, DropsExpired, RequestAt
<1> QED
  BY <1>2, <1>4, <1>6, <1>8 DEF KeyInv

LEMMA AdvanceWrites ==
    ASSUME IdempotencyTypeOK, NEW q \in Requests, NEW step \in RequestSteps, Advance(q, step)
    PROVE  /\ request' \in [Requests -> [step: RequestSteps, read: Requests]]
           /\ request' = [request EXCEPT ![q] = [step |-> step, read |-> request[q].read]]
           /\ request[q].read \in Requests
           /\ \A p \in Requests : /\ request'[p].read = request[p].read
                                  /\ request'[p].step = IF p = q THEN step ELSE request[p].step
<1>1. request \in [Requests -> [step: RequestSteps, read: Requests]]
  BY DEF IdempotencyTypeOK
<1>2. request[q] \in [step: RequestSteps, read: Requests]
  BY <1>1
<1>3. [request[q] EXCEPT !.step = step] = [step |-> step, read |-> request[q].read]
  BY <1>2
<1>4. request' = [request EXCEPT ![q] = [step |-> step, read |-> request[q].read]]
  BY <1>3 DEF Advance
<1>5. request[q].read \in Requests
  BY <1>2
<1>6. \A p \in Requests : /\ request'[p].read = request[p].read
                          /\ request'[p].step = IF p = q THEN step ELSE request[p].step
  BY <1>1, <1>4
<1>7. request' \in [Requests -> [step: RequestSteps, read: Requests]]
  BY <1>1, <1>4, <1>5
<1> QED
  BY <1>4, <1>5, <1>6, <1>7

LEMMA NoKeyIsRow == NoKey \in KeyRow /\ NoKey.state = "none"
<1>1. (CHOOSE q \in Requests : TRUE) \in Requests
  BY IdempotencyAssumption
<1> QED
  BY <1>1 DEF NoKey, KeyRow

LEMMA FindKeeps ==
    ASSUME KeyInv, NEW q \in Requests, FindKey(q)
    PROVE  KeyInv'
<1>1. /\ RequestAt(q, "new") /\ ~Working(q) /\ ~BeyondCreating(q)
      /\ keyRow.by \in Requests
      /\ UNCHANGED <<keyRow, runs, expiries, requestCrashes>>
  BY DEF FindKey, KeyInv, IdempotencyTypeOK, KeyRow, RequestAt, Working, BeyondCreating
<1>2. CASE \E what \in {"reused", "replayed"} : AnswerWith(q, what)
  <2>1. IdempotencyTypeOK'
    BY <1>1, <1>2 DEF KeyInv, IdempotencyTypeOK, AnswerWith, RequestSteps
  <2> QED
    BY <1>1, <1>2, <2>1, RequestMovingOn DEF AnswerWith, RequestSteps
<1>3. CASE \E step \in {"create", "wait"} : Advance(q, step) /\ UNCHANGED answer
  <2>1. PICK step \in {"create", "wait"} : Advance(q, step) /\ UNCHANGED answer
    BY <1>3
  <2>2. step \in RequestSteps \ {"run", "settle", "drop"}
    BY DEF RequestSteps
  <2>3. IdempotencyTypeOK'
    BY <1>1, <2>1, <2>2, AdvanceWrites DEF KeyInv, IdempotencyTypeOK
  <2> QED
    BY <1>1, <2>1, <2>2, <2>3, AdvanceWrites, RequestMovingOn DEF KeyInv
<1>4. CASE /\ keyRow.state # "none" /\ keyRow.expired
           /\ request' = [request EXCEPT ![q] = [step |-> "drop", read |-> keyRow.by]]
           /\ UNCHANGED answer
  <2>1. IdempotencyTypeOK'
    BY <1>1, <1>4 DEF KeyInv, IdempotencyTypeOK, RequestSteps
  <2>2. \A p \in Requests : \/ p # q /\ request'[p] = request[p]
                            \/ p = q /\ request'[p].step = "drop" /\ request'[p].read = keyRow.by
    BY <1>4 DEF KeyInv, IdempotencyTypeOK
  <2>3. \A p \in Requests : /\ Working(p)' <=> Working(p)
                            /\ BeyondCreating(p) => BeyondCreating(p)'
    BY <1>1, <2>2 DEF Working, BeyondCreating
  <2>4. WorkersOwnTheKey' /\ SomebodyWorks' /\ CreatedOnce'
    BY <1>1, <2>3 DEF KeyInv, WorkersOwnTheKey, SomebodyWorks, CreatedOnce
  <2>5. \A p \in Requests : request[p].read \in Requests
    BY DEF KeyInv, IdempotencyTypeOK
  <2>6. DropsExpired'
    BY <1>1, <1>4, <2>2, <2>3, <2>5 DEF KeyInv, DropsExpired, CreatedOnce, RequestAt
  <2> QED
    BY <2>1, <2>4, <2>6 DEF KeyInv
<1> QED
  BY <1>2, <1>3, <1>4 DEF FindKey

LEMMA WaitKeeps ==
    ASSUME KeyInv, NEW q \in Requests, WaitForOutcome(q)
    PROVE  KeyInv'
<1>1. PICK what \in {"replayed", "busy"} : AnswerWith(q, what)
  BY DEF WaitForOutcome
<1>2. /\ ~Working(q) /\ ~BeyondCreating(q) /\ keyRow.by \in Requests
      /\ UNCHANGED <<keyRow, runs, expiries, requestCrashes>>
  BY DEF WaitForOutcome, KeyInv, IdempotencyTypeOK, KeyRow, Working, BeyondCreating
<1>3. IdempotencyTypeOK'
  BY <1>1, <1>2 DEF KeyInv, IdempotencyTypeOK, AnswerWith, RequestSteps
<1> QED
  BY <1>1, <1>2, <1>3, RequestMovingOn DEF AnswerWith, RequestSteps

\* The row vanishes while nobody works on it, and some request may go on.
LEMMA GoneKeeps ==
    ASSUME KeyInv, keyRow' = NoKey, UNCHANGED requestCrashes, IdempotencyTypeOK',
           \A p \in Requests : ~Working(p)',
           \A p \in Requests : /\ request'[p].read = request[p].read
                               /\ BeyondCreating(p) => BeyondCreating(p)'
                               /\ RequestAt(p, "drop")' => RequestAt(p, "drop")
    PROVE  KeyInv'
<1>1. keyRow'.state = "none"
  BY NoKeyIsRow
<1>2. WorkersOwnTheKey' /\ SomebodyWorks' /\ CreatedOnce'
  BY <1>1 DEF WorkersOwnTheKey, SomebodyWorks, CreatedOnce
<1>3. \A p \in Requests : request[p].read \in Requests
  BY DEF KeyInv, IdempotencyTypeOK
<1>4. DropsExpired'
  BY <1>1, <1>3 DEF KeyInv, DropsExpired
<1> QED
  BY <1>2, <1>4 DEF KeyInv

LEMMA DropKeeps ==
    ASSUME KeyInv, NEW q \in Requests, DropExpired(q)
    PROVE  KeyInv'
<1>1. RequestAt(q, "drop") /\ ~Working(q) /\ ~BeyondCreating(q)
      /\ UNCHANGED <<answer, runs, expiries, requestCrashes>>
  BY DEF DropExpired, RequestAt, Working, BeyondCreating
<1>2. CASE keyRow.state # "none" /\ keyRow.by = request[q].read
  <2>1. keyRow' = NoKey /\ Advance(q, "create")
    BY <1>2 DEF DropExpired
  <2>2. IdempotencyTypeOK'
    BY <1>1, <2>1, AdvanceWrites, NoKeyIsRow DEF KeyInv, IdempotencyTypeOK, RequestSteps
  <2>3. keyRow.expired
    BY <1>1, <1>2 DEF KeyInv, DropsExpired
  <2>4. \A p \in Requests : ~Working(p)
    BY <2>3 DEF KeyInv, WorkersOwnTheKey
  <2>5. \A p \in Requests : /\ request'[p].read = request[p].read
                            /\ request'[p].step = IF p = q THEN "create" ELSE request[p].step
    BY <2>1, AdvanceWrites DEF KeyInv, RequestSteps
  <2> QED
    BY <1>1, <2>1, <2>2, <2>4, <2>5, GoneKeeps DEF Working, BeyondCreating, RequestAt
<1>3. CASE ~(keyRow.state # "none" /\ keyRow.by = request[q].read)
  <2>1. Advance(q, "bare") /\ UNCHANGED keyRow
    BY <1>3 DEF DropExpired
  <2>2. "bare" \in RequestSteps \ {"run", "settle", "drop"}
    BY DEF RequestSteps
  <2>3. IdempotencyTypeOK'
    BY <1>1, <2>1, <2>2, AdvanceWrites DEF KeyInv, IdempotencyTypeOK
  <2> QED
    BY <1>1, <2>1, <2>2, <2>3, AdvanceWrites, RequestMovingOn DEF KeyInv
<1> QED
  BY <1>2, <1>3

\* The unique key: the row is created where there is none, so nobody was at work on it.
LEMMA CreateKeeps ==
    ASSUME KeyInv, NEW q \in Requests, CreateKey(q)
    PROVE  KeyInv'
<1>1. RequestAt(q, "create") /\ ~Working(q) /\ ~BeyondCreating(q)
      /\ UNCHANGED <<answer, runs, expiries, requestCrashes>>
  BY DEF CreateKey, RequestAt, Working, BeyondCreating
<1>2. CASE keyRow.state = "none"
  <2>1. keyRow' = [state |-> "IN_PROGRESS", by |-> q, expired |-> FALSE] /\ Advance(q, "run")
    BY <1>2 DEF CreateKey
  <2>2. keyRow' \in KeyRow
    BY <2>1 DEF KeyRow
  <2>3. IdempotencyTypeOK'
    BY <1>1, <2>1, <2>2, AdvanceWrites DEF KeyInv, IdempotencyTypeOK, RequestSteps
  <2>4. \A p \in Requests : /\ request'[p].read = request[p].read
                            /\ request'[p].step = IF p = q THEN "run" ELSE request[p].step
    BY <2>1, AdvanceWrites DEF KeyInv, RequestSteps
  <2>5. \A p \in Requests : ~Working(p)
    BY <1>2 DEF KeyInv, WorkersOwnTheKey
  <2>6. /\ keyRow'.state = "IN_PROGRESS" /\ keyRow'.by = q /\ ~keyRow'.expired
    BY <2>1
  <2>7. WorkersOwnTheKey' /\ SomebodyWorks' /\ CreatedOnce'
    BY <2>4, <2>5, <2>6 DEF WorkersOwnTheKey, SomebodyWorks, CreatedOnce, Working, BeyondCreating
  <2>8. \A p \in Requests : RequestAt(p, "drop")' => request[p].read # q /\ BeyondCreating(request[p].read)
    BY <1>1, <2>4 DEF KeyInv, DropsExpired, RequestAt
  <2>9. \A p \in Requests : request[p].read \in Requests
    BY DEF KeyInv, IdempotencyTypeOK
  <2>10. DropsExpired'
    BY <2>4, <2>6, <2>8, <2>9 DEF DropsExpired, BeyondCreating
  <2> QED
    BY <2>3, <2>7, <2>10 DEF KeyInv
<1>3. CASE keyRow.state # "none"
  <2>1. Advance(q, "bare") /\ UNCHANGED keyRow
    BY <1>3 DEF CreateKey
  <2>2. "bare" \in RequestSteps \ {"run", "settle", "drop"}
    BY DEF RequestSteps
  <2>3. IdempotencyTypeOK'
    BY <1>1, <2>1, <2>2, AdvanceWrites DEF KeyInv, IdempotencyTypeOK
  <2> QED
    BY <1>1, <2>1, <2>2, <2>3, AdvanceWrites, RequestMovingOn DEF KeyInv
<1> QED
  BY <1>2, <1>3

LEMMA RunKeeps ==
    ASSUME KeyInv, NEW q \in Requests, RunHandler(q)
    PROVE  KeyInv'
<1>1. /\ UNCHANGED <<keyRow, expiries, requestCrashes>>
      /\ runs' \in [Requests -> {"none", "ok", "failed"}]
      /\ answer' \in [Requests -> {"none", "own", "replayed", "reused", "busy", "failed"}]
  BY DEF KeyInv, IdempotencyTypeOK, RunHandler
<1>2. CASE RequestAt(q, "run")
  <2>1. Advance(q, "settle") /\ "settle" \in RequestSteps
    BY <1>2 DEF RunHandler, RequestAt, RequestSteps
  <2>2. IdempotencyTypeOK'
    BY <1>1, <2>1, AdvanceWrites DEF KeyInv, IdempotencyTypeOK
  <2>3. \A p \in Requests : /\ request'[p].read = request[p].read
                            /\ request'[p].step = IF p = q THEN "settle" ELSE request[p].step
    BY <2>1, AdvanceWrites DEF KeyInv
  <2>4. \A p \in Requests : /\ Working(p)' <=> Working(p)
                            /\ BeyondCreating(p)' <=> BeyondCreating(p)
                            /\ RequestAt(p, "drop")' <=> RequestAt(p, "drop")
    BY <1>2, <2>3 DEF Working, BeyondCreating, RequestAt
  <2>5. keyRow.by \in Requests /\ \A p \in Requests : request[p].read \in Requests
    BY DEF KeyInv, IdempotencyTypeOK, KeyRow
  <2>6. WorkersOwnTheKey' /\ SomebodyWorks' /\ CreatedOnce' /\ DropsExpired'
    BY <1>1, <2>3, <2>4, <2>5
       DEF KeyInv, WorkersOwnTheKey, SomebodyWorks, CreatedOnce, DropsExpired
  <2> QED
    BY <2>2, <2>6 DEF KeyInv
<1>3. CASE RequestAt(q, "bare")
  <2>1. /\ Advance(q, "done") /\ ~Working(q)
        /\ "done" \in RequestSteps \ {"run", "settle", "drop"}
    BY <1>3 DEF RunHandler, RequestAt, Working, RequestSteps
  <2>2. IdempotencyTypeOK'
    BY <1>1, <2>1, AdvanceWrites DEF KeyInv, IdempotencyTypeOK
  <2> QED
    BY <1>1, <2>1, <2>2, AdvanceWrites, RequestMovingOn DEF KeyInv
<1> QED
  BY <1>2, <1>3 DEF RunHandler, RequestAt

\* Settling is by scope and key, and reaches the row of the request that settles.
LEMMA SettleKeeps ==
    ASSUME KeyInv, NEW q \in Requests, SettleKey(q)
    PROVE  KeyInv'
<1>1. /\ RequestAt(q, "settle") /\ Advance(q, "done") /\ "done" \in RequestSteps
      /\ UNCHANGED <<answer, runs, expiries, requestCrashes>>
  BY DEF SettleKey, RequestAt, RequestSteps
<1>2. keyRow.by = q /\ keyRow.state = "IN_PROGRESS"
  BY <1>1 DEF KeyInv, WorkersOwnTheKey, Working, RequestAt
<1>3. \A p \in Requests : /\ request'[p].read = request[p].read
                          /\ request'[p].step = IF p = q THEN "done" ELSE request[p].step
  BY <1>1, AdvanceWrites DEF KeyInv
<1>4. \A p \in Requests : ~Working(p)'
  BY <1>2, <1>3 DEF KeyInv, WorkersOwnTheKey, Working
<1>5. \A p \in Requests : /\ BeyondCreating(p) => BeyondCreating(p)'
                          /\ RequestAt(p, "drop")' => RequestAt(p, "drop")
  BY <1>3 DEF BeyondCreating, RequestAt
<1>6. CASE keyRow' = NoKey
  <2>1. IdempotencyTypeOK'
    BY <1>1, <1>6, AdvanceWrites, NoKeyIsRow DEF KeyInv, IdempotencyTypeOK
  <2> QED
    BY <1>1, <1>3, <1>4, <1>5, <1>6, <2>1, GoneKeeps
<1>7. CASE keyRow' = [keyRow EXCEPT !.state = "COMPLETED"]
  <2>1. keyRow' \in KeyRow /\ keyRow'.state = "COMPLETED" /\ keyRow'.by = q /\ keyRow'.expired = keyRow.expired
    BY <1>2, <1>7 DEF KeyInv, IdempotencyTypeOK, KeyRow
  <2>2. IdempotencyTypeOK'
    BY <1>1, <2>1, AdvanceWrites DEF KeyInv, IdempotencyTypeOK
  <2>3. WorkersOwnTheKey' /\ SomebodyWorks'
    BY <1>4, <2>1 DEF WorkersOwnTheKey, SomebodyWorks
  <2>4. CreatedOnce'
    BY <1>3, <2>1 DEF CreatedOnce, BeyondCreating
  <2>5. \A p \in Requests : request[p].read \in Requests
    BY DEF KeyInv, IdempotencyTypeOK
  <2>6. DropsExpired'
    BY <1>2, <1>3, <1>5, <2>1, <2>5 DEF KeyInv, DropsExpired
  <2> QED
    BY <2>2, <2>3, <2>4, <2>6 DEF KeyInv
<1> QED
  BY <1>6, <1>7 DEF SettleKey

\* A key does not expire under a request at work.
LEMMA ExpireKeeps ==
    ASSUME KeyInv, KeyExpires
    PROVE  KeyInv'
<1>1. /\ keyRow' \in KeyRow /\ keyRow'.state = keyRow.state /\ keyRow'.by = keyRow.by /\ keyRow'.expired
      /\ keyRow.state # "none" /\ ~Working(keyRow.by)
      /\ UNCHANGED <<request, answer, runs, requestCrashes>>
  BY DEF KeyInv, IdempotencyTypeOK, KeyRow, KeyExpires, Working
<1>2. IdempotencyTypeOK'
  BY <1>1, IdempotencyAssumption DEF KeyInv, IdempotencyTypeOK, KeyExpires
<1>3. WorkersOwnTheKey' /\ SomebodyWorks' /\ CreatedOnce' /\ DropsExpired'
  BY <1>1 DEF KeyInv, WorkersOwnTheKey, SomebodyWorks, CreatedOnce, DropsExpired, Working,
       BeyondCreating, RequestAt
<1> QED
  BY <1>2, <1>3 DEF KeyInv

LEMMA PurgeKeeps ==
    ASSUME KeyInv, PurgeExpired
    PROVE  KeyInv'
<1>1. keyRow' = NoKey /\ keyRow.expired /\ UNCHANGED <<request, answer, runs, expiries, requestCrashes>>
  BY DEF PurgeExpired
<1>2. IdempotencyTypeOK'
  BY <1>1, NoKeyIsRow DEF KeyInv, IdempotencyTypeOK
<1>3. \A p \in Requests : ~Working(p)'
  BY <1>1 DEF KeyInv, WorkersOwnTheKey, Working
<1> QED
  BY <1>1, <1>2, <1>3, GoneKeeps DEF BeyondCreating, RequestAt

\* A dead request leaves its row in progress: the crash count says so.
LEMMA DieKeeps ==
    ASSUME KeyInv, NEW q \in Requests, RequestDies(q)
    PROVE  KeyInv'
<1>1. /\ Advance(q, "done") /\ "done" \in RequestSteps
      /\ UNCHANGED <<keyRow, answer, runs, expiries>>
      /\ requestCrashes' \in 1..MaxRequestCrashes
  BY IdempotencyAssumption DEF KeyInv, IdempotencyTypeOK, RequestDies, RequestSteps
<1>2. IdempotencyTypeOK'
  BY <1>1, AdvanceWrites DEF KeyInv, IdempotencyTypeOK
<1>3. \A p \in Requests : /\ request'[p].read = request[p].read
                          /\ request'[p].step = IF p = q THEN "done" ELSE request[p].step
  BY <1>1, AdvanceWrites DEF KeyInv
<1>4. \A p \in Requests : /\ Working(p)' => Working(p)
                          /\ BeyondCreating(p) => BeyondCreating(p)'
                          /\ RequestAt(p, "drop")' => RequestAt(p, "drop")
  BY <1>3 DEF Working, BeyondCreating, RequestAt
<1>5. keyRow.by \in Requests /\ \A p \in Requests : request[p].read \in Requests
  BY DEF KeyInv, IdempotencyTypeOK, KeyRow
<1>6. WorkersOwnTheKey' /\ CreatedOnce' /\ DropsExpired'
  BY <1>1, <1>3, <1>4, <1>5 DEF KeyInv, WorkersOwnTheKey, CreatedOnce, DropsExpired
<1>7. SomebodyWorks'
  BY <1>1 DEF SomebodyWorks
<1> QED
  BY <1>2, <1>6, <1>7 DEF KeyInv

LEMMA KeyStepKeeps == KeyInv /\ [IdempotencyNext]_keyVars => KeyInv'
<1> SUFFICES ASSUME KeyInv, [IdempotencyNext]_keyVars PROVE KeyInv'
  OBVIOUS
<1>1. ASSUME NEW q \in Requests, Serve(q) PROVE KeyInv'
  BY <1>1, FindKeeps, WaitKeeps, DropKeeps, CreateKeeps, RunKeeps, SettleKeeps DEF Serve
<1>2. ASSUME NEW q \in Requests, RequestDies(q) PROVE KeyInv'
  BY <1>2, DieKeeps
<1>3. CASE KeyExpires \/ PurgeExpired
  BY <1>3, ExpireKeeps, PurgeKeeps
<1>4. CASE UNCHANGED keyVars
  BY <1>4 DEF keyVars, KeyInv, IdempotencyTypeOK, WorkersOwnTheKey, SomebodyWorks, CreatedOnce,
       DropsExpired, Working, BeyondCreating, RequestAt
<1> QED
  BY <1>1, <1>2, <1>3, <1>4 DEF IdempotencyNext

THEOREM KeyInvariant == IdempotencySpec => []KeyInv
BY KeyStarts, KeyStepKeeps, PTL DEF IdempotencySpec

\* The row, the requests and what they were answered keep their types.
THEOREM IdempotencyTypeCorrect == IdempotencySpec => []IdempotencyTypeOK
<1>1. KeyInv => IdempotencyTypeOK
  BY DEF KeyInv
<1> QED
  BY <1>1, KeyInvariant, PTL

\* However many requests carry the key, expire it or die, it records one success per
\* lifetime, and is in progress only while its own request works or has died.
THEOREM KeyTellsTheTruth == IdempotencySpec => []OneRequestPerKey
<1>1. KeyInv => OneRequestPerKey
  <2> SUFFICES ASSUME KeyInv PROVE OneRequestPerKey
    OBVIOUS
  <2> DEFINE recorded == {q \in Requests : Recorded(q)}
  <2>1. recorded \subseteq {keyRow.by}
    BY DEF KeyInv, WorkersOwnTheKey, Working, Recorded
  <2>2. Cardinality(recorded) <= 1
    <3>1. IsFiniteSet({keyRow.by}) /\ Cardinality({keyRow.by}) = 1
      BY FS_Singleton
    <3> QED
      BY <2>1, <3>1, FS_Subset
  <2>3. \A q \in Requests : request[q].step \in {"run", "settle"}
                            => keyRow.by = q /\ keyRow.state = "IN_PROGRESS"
    BY DEF KeyInv, WorkersOwnTheKey, Working
  <2>4. keyRow.state = "IN_PROGRESS" /\ requestCrashes = 0 => request[keyRow.by].step \in {"run", "settle"}
    BY DEF KeyInv, SomebodyWorks, Working
  <2> QED
    BY <2>2, <2>3, <2>4 DEF OneRequestPerKey
<1> QED
  BY <1>1, KeyInvariant, PTL

-------------------------------------------------------------------------------
(* WebhookInbox. The argument counts permissions: an event that exists gives one, a
   replay gives one more; an open event, a claim that has not had its effect and an
   effect each hold one. *)

One(condition) == IF condition THEN 1 ELSE 0

\* A worker that has the claim of e and has not had its effect; a failed one is about
\* to open the event again.
Claims(w, e) == delivery[w].of = e /\ delivery[w].step \in {"dispatch", "failed"}
Claimants(e) == {w \in InboxWorkers : Claims(w, e)}
Open(e) == event[e] \in {"RECEIVED", "FAILED"}

PermissionsCover ==
    \A e \in InboxEvents :
        effects[e] + Cardinality(Claimants(e)) + One(Open(e)) <= One(event[e] # "none") + replays[e]

InboxInv == InboxTypeOK /\ PermissionsCover

LEMMA ClaimantsFinite ==
    \A e : IsFiniteSet(Claimants(e)) /\ Cardinality(Claimants(e)) \in Nat
BY InboxAssumption, FS_Subset, FS_CardinalityType DEF Claimants

\* When one worker moves, an event's claimants change by that worker only.
LEMMA OneWorkerMoves ==
    ASSUME NEW w \in InboxWorkers, NEW e,
           \A v \in InboxWorkers \ {w} : delivery'[v] = delivery[v]
    PROVE  Cardinality(Claimants(e)') = Cardinality(Claimants(e)) - One(Claims(w, e)) + One(Claims(w, e)')
<1>1. IsFiniteSet(Claimants(e)) /\ Cardinality(Claimants(e)) \in Nat
  BY ClaimantsFinite
<1>2. CASE Claims(w, e)
  <2>1. CASE Claims(w, e)'
    <3>1. Claimants(e)' = Claimants(e)
      BY <1>2, <2>1 DEF Claimants, Claims
    <3> QED
      BY <1>1, <1>2, <2>1, <3>1 DEF One
  <2>2. CASE ~Claims(w, e)'
    <3>1. Claimants(e)' = Claimants(e) \ {w} /\ w \in Claimants(e)
      BY <1>2, <2>2 DEF Claimants, Claims
    <3> QED
      BY <1>1, <1>2, <2>2, <3>1, FS_RemoveElement DEF One
  <2> QED
    BY <2>1, <2>2
<1>3. CASE ~Claims(w, e)
  <2>1. CASE Claims(w, e)'
    <3>1. Claimants(e)' = Claimants(e) \cup {w} /\ w \notin Claimants(e)
      BY <1>3, <2>1 DEF Claimants, Claims
    <3> QED
      BY <1>1, <1>3, <2>1, <3>1, FS_AddElement DEF One
  <2>2. CASE ~Claims(w, e)'
    <3>1. Claimants(e)' = Claimants(e)
      BY <1>3, <2>2 DEF Claimants, Claims
    <3> QED
      BY <1>1, <1>3, <2>2, <3>1 DEF One
  <2> QED
    BY <2>1, <2>2
<1> QED
  BY <1>2, <1>3

LEMMA InitPermits == InboxInit => InboxInv
<1> SUFFICES ASSUME InboxInit PROVE InboxInv
  OBVIOUS
<1>1. InboxTypeOK
  <2>1. Waiting \in [step: InboxSteps, of: InboxEvents]
    BY InboxAssumption DEF Waiting, InboxSteps
  <2> QED
    BY <2>1 DEF InboxInit, InboxTypeOK, EventStatuses
<1>2. \A e \in InboxEvents : Claimants(e) = {}
  BY DEF InboxInit, Waiting, Claimants, Claims
<1>3. PermissionsCover
  BY <1>2, FS_EmptySet DEF InboxInit, PermissionsCover, One, Open
<1> QED
  BY <1>1, <1>3 DEF InboxInv

\* Every step keeps the types.
LEMMA StepKeepsTypes == InboxTypeOK /\ [InboxNext]_inboxVars => InboxTypeOK'
<1> SUFFICES ASSUME InboxTypeOK, [InboxNext]_inboxVars PROVE InboxTypeOK'
  OBVIOUS
<1> USE DEF InboxTypeOK, DeliveryAt, Proceed, Answer, ReleaseEvent
<1>1. ASSUME NEW w \in InboxWorkers, NEW e \in InboxEvents, Deliver(w, e) PROVE InboxTypeOK'
  BY <1>1 DEF Deliver, InboxSteps
<1>2. ASSUME NEW w \in InboxWorkers, NEW e \in InboxEvents, ReplayEvent(w, e) PROVE InboxTypeOK'
  BY <1>2 DEF ReplayEvent, InboxSteps, EventStatuses
<1>3. ASSUME NEW w \in InboxWorkers, LookUpEvent(w) PROVE InboxTypeOK'
  BY <1>3 DEF LookUpEvent, InboxSteps
<1>4. ASSUME NEW w \in InboxWorkers, InsertEvent(w) PROVE InboxTypeOK'
  BY <1>4 DEF InsertEvent, InboxSteps, EventStatuses
<1>5. ASSUME NEW w \in InboxWorkers, ProcessEvent(w) PROVE InboxTypeOK'
  <2> DEFINE e == delivery[w].of
  <2>0. e \in InboxEvents /\ UNCHANGED <<effects, replays, inboxCrashes>>
    BY <1>5 DEF ProcessEvent
  <2>1. CASE e \notin HandledEvents
    <3>1. /\ event' = [event EXCEPT ![e] = "IGNORED"] /\ lock' = [lock EXCEPT ![e] = FALSE]
          /\ delivery' = [delivery EXCEPT ![w].step = "idle"]
      BY <1>5, <2>1 DEF ProcessEvent
    <3> QED
      BY <2>0, <3>1 DEF InboxSteps, EventStatuses
  <2>2. CASE e \in HandledEvents /\ ClaimableEvent(e)
    <3>1. /\ event' = [event EXCEPT ![e] = "PROCESSING"] /\ lock' = [lock EXCEPT ![e] = TRUE]
          /\ delivery' = [delivery EXCEPT ![w].step = "dispatch"]
      BY <1>5, <2>2 DEF ProcessEvent
    <3> QED
      BY <2>0, <3>1 DEF InboxSteps, EventStatuses
  <2>3. CASE e \in HandledEvents /\ ~ClaimableEvent(e)
    <3>1. UNCHANGED <<event, lock>> /\ delivery' = [delivery EXCEPT ![w].step = "idle"]
      BY <1>5, <2>3 DEF ProcessEvent
    <3> QED
      BY <2>0, <3>1 DEF InboxSteps
  <2> QED
    BY <2>1, <2>2, <2>3
<1>6. ASSUME NEW w \in InboxWorkers, Dispatch(w) PROVE InboxTypeOK'
  BY <1>6 DEF Dispatch, InboxSteps
<1>7. ASSUME NEW w \in InboxWorkers, SettleEvent(w) PROVE InboxTypeOK'
  BY <1>7 DEF SettleEvent, InboxSteps, EventStatuses, OutcomeOf
<1>8. ASSUME NEW w \in InboxWorkers, InboxWorkerDies(w) PROVE InboxTypeOK'
  BY <1>8 DEF InboxWorkerDies, InboxSteps
<1>9. CASE UNCHANGED inboxVars
  BY <1>9 DEF inboxVars
<1> QED
  BY <1>1, <1>2, <1>3, <1>4, <1>5, <1>6, <1>7, <1>8, <1>9 DEF InboxNext, Handling

\* What one event's permissions are before and after a step of one worker.
LEMMA PermissionsMove ==
    ASSUME InboxInv, InboxTypeOK', NEW w \in InboxWorkers, NEW e \in InboxEvents,
           \A v \in InboxWorkers \ {w} : delivery'[v] = delivery[v],
           (effects'[e] + One(Claims(w, e)') + One(Open(e)')) + (One(event[e] # "none") + replays[e])
              <= (effects[e] + One(Claims(w, e)) + One(Open(e))) + (One(event'[e] # "none") + replays'[e])
    PROVE  effects'[e] + Cardinality(Claimants(e)') + One(Open(e)')
              <= One(event'[e] # "none") + replays'[e]
<1>1. Cardinality(Claimants(e)') = Cardinality(Claimants(e)) - One(Claims(w, e)) + One(Claims(w, e)')
  BY OneWorkerMoves
<1>2. Cardinality(Claimants(e)) \in Nat
  BY ClaimantsFinite
<1>3. effects[e] + Cardinality(Claimants(e)) + One(Open(e)) <= One(event[e] # "none") + replays[e]
  BY DEF InboxInv, PermissionsCover
<1>4. /\ effects[e] \in Nat /\ effects'[e] \in Nat /\ replays[e] \in Nat /\ replays'[e] \in Nat
      /\ One(Claims(w, e)) \in {0, 1} /\ One(Claims(w, e)') \in {0, 1}
      /\ One(Open(e)) \in {0, 1} /\ One(Open(e)') \in {0, 1}
      /\ One(event[e] # "none") \in {0, 1} /\ One(event'[e] # "none") \in {0, 1}
  BY DEF InboxInv, InboxTypeOK, One
<1> QED
  BY <1>1, <1>2, <1>3, <1>4

LEMMA StepKeepsPermissions == InboxInv /\ [InboxNext]_inboxVars => PermissionsCover'
<1> SUFFICES ASSUME InboxInv, [InboxNext]_inboxVars PROVE PermissionsCover'
  OBVIOUS
<1>0. InboxTypeOK /\ InboxTypeOK'
  BY StepKeepsTypes DEF InboxInv
<1> DEFINE Rule(w, e) ==
      (effects'[e] + One(Claims(w, e)') + One(Open(e)')) + (One(event[e] # "none") + replays[e])
        <= (effects[e] + One(Claims(w, e)) + One(Open(e))) + (One(event'[e] # "none") + replays'[e])
<1>1. SUFFICES ASSUME NEW w \in InboxWorkers,
                      (\E x \in InboxEvents : Deliver(w, x) \/ ReplayEvent(w, x))
                        \/ Handling(w) \/ InboxWorkerDies(w)
               PROVE  /\ \A v \in InboxWorkers \ {w} : delivery'[v] = delivery[v]
                      /\ \A e \in InboxEvents : Rule(w, e)
  <2>1. CASE UNCHANGED inboxVars
    <3>1. \A e \in InboxEvents : Claimants(e)' = Claimants(e) /\ Open(e)' = Open(e)
      BY <2>1 DEF inboxVars, Claimants, Claims, Open
    <3> QED
      BY <2>1, <3>1 DEF inboxVars, InboxInv, PermissionsCover
  <2>2. CASE InboxNext
    <3>1. PICK w \in InboxWorkers :
             (\E x \in InboxEvents : Deliver(w, x) \/ ReplayEvent(w, x))
               \/ Handling(w) \/ InboxWorkerDies(w)
      BY <2>2 DEF InboxNext
    <3>2. /\ \A v \in InboxWorkers \ {w} : delivery'[v] = delivery[v]
          /\ \A e \in InboxEvents : Rule(w, e)
      BY <3>1, <1>1
    <3>3. \A e \in InboxEvents : effects'[e] + Cardinality(Claimants(e)') + One(Open(e)')
                                   <= One(event'[e] # "none") + replays'[e]
      BY <1>0, <3>2, PermissionsMove
    <3> QED
      BY <3>3 DEF PermissionsCover
  <2> QED
    BY <2>1, <2>2
<1> USE <1>0 DEF InboxTypeOK, DeliveryAt, Proceed, Answer, ReleaseEvent, One, Open, Claims
<1>2. ASSUME NEW x \in InboxEvents, Deliver(w, x)
      PROVE  (\A v \in InboxWorkers \ {w} : delivery'[v] = delivery[v]) /\ \A e \in InboxEvents : Rule(w, e)
  BY <1>2 DEF Deliver
<1>3. ASSUME NEW x \in InboxEvents, ReplayEvent(w, x)
      PROVE  (\A v \in InboxWorkers \ {w} : delivery'[v] = delivery[v]) /\ \A e \in InboxEvents : Rule(w, e)
  BY <1>3 DEF ReplayEvent
<1>4. ASSUME LookUpEvent(w) \/ InboxWorkerDies(w)
      PROVE  (\A v \in InboxWorkers \ {w} : delivery'[v] = delivery[v]) /\ \A e \in InboxEvents : Rule(w, e)
  BY <1>4 DEF LookUpEvent, InboxWorkerDies
<1>5. ASSUME InsertEvent(w)
      PROVE  (\A v \in InboxWorkers \ {w} : delivery'[v] = delivery[v]) /\ \A e \in InboxEvents : Rule(w, e)
  BY <1>5 DEF InsertEvent
<1>6. ASSUME ProcessEvent(w)
      PROVE  (\A v \in InboxWorkers \ {w} : delivery'[v] = delivery[v]) /\ \A e \in InboxEvents : Rule(w, e)
  BY <1>6 DEF ProcessEvent, ClaimableEvent
<1>7. ASSUME Dispatch(w)
      PROVE  (\A v \in InboxWorkers \ {w} : delivery'[v] = delivery[v]) /\ \A e \in InboxEvents : Rule(w, e)
  BY <1>7 DEF Dispatch
<1>8. ASSUME SettleEvent(w)
      PROVE  (\A v \in InboxWorkers \ {w} : delivery'[v] = delivery[v]) /\ \A e \in InboxEvents : Rule(w, e)
  BY <1>8 DEF SettleEvent, OutcomeOf
<1> QED
  BY <1>1, <1>2, <1>3, <1>4, <1>5, <1>6, <1>7, <1>8 DEF Handling

LEMMA InboxInvariant == InboxSpec => []InboxInv
<1>1. InboxInv /\ [InboxNext]_inboxVars => InboxInv'
  BY StepKeepsTypes, StepKeepsPermissions DEF InboxInv
<1> QED
  BY <1>1, InitPermits, PTL DEF InboxSpec

\* The inbox keeps its types.
THEOREM InboxTypeCorrect == InboxSpec => []InboxTypeOK
<1>1. InboxInv => InboxTypeOK
  BY DEF InboxInv
<1> QED
  BY <1>1, InboxInvariant, PTL

\* An event's handler takes effect once, and once more for every deliberate replay.
THEOREM HandledOnce == InboxSpec => []HandledOncePerReplay
<1>1. InboxInv => HandledOncePerReplay
  <2> SUFFICES ASSUME InboxInv, NEW e \in InboxEvents
               PROVE  effects[e] + Cardinality(Dispatching(e)) <= 1 + replays[e]
    BY DEF HandledOncePerReplay
  <2>1. Dispatching(e) \subseteq Claimants(e)
    BY DEF Dispatching, Claimants, Claims, DeliveryAt
  <2>2. /\ Cardinality(Dispatching(e)) <= Cardinality(Claimants(e))
        /\ Cardinality(Dispatching(e)) \in Nat /\ Cardinality(Claimants(e)) \in Nat
    BY <2>1, ClaimantsFinite, FS_Subset, FS_CardinalityType
  <2>3. effects[e] + Cardinality(Claimants(e)) + One(Open(e)) <= One(event[e] # "none") + replays[e]
    BY DEF InboxInv, PermissionsCover
  <2>4. effects[e] \in Nat /\ replays[e] \in Nat
    BY DEF InboxInv, InboxTypeOK
  <2> QED
    BY <2>2, <2>3, <2>4 DEF One
<1> QED
  BY <1>1, InboxInvariant, PTL
===============================================================================
