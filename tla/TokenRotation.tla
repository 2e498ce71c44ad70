----------------------------- MODULE TokenRotation -----------------------------
(***************************************************************************)
(* One session: the family of refresh tokens that rotation chains together *)
(* (token.service.ts rotateRefreshToken, refreshToken.repository.ts). A    *)
(* request presents a token, claims it with a compare-and-set, issues its  *)
(* child and looks back whether the family was revoked meanwhile. A logout,*)
(* a password change or a disabled account revokes the family at any       *)
(* moment; a token presented again after its use revokes it too.           *)
(***************************************************************************)
EXTENDS FiniteSets

CONSTANTS
    Tokens,      \* refresh tokens of the family
    Root,        \* the token the login issued
    Rotations    \* requests that refresh the session

ASSUME TokenAssumption == Root \in Tokens

VARIABLES
    token,       \* RefreshToken rows: usedAt, revokedAt
    rotation,    \* where each request stands, the token it presented and the one it issued
    delivered,   \* tokens that reached a browser; only those can be presented
    ended        \* the family has been revoked

tokenVars == <<token, rotation, delivered, ended>>

TokenStates == {"none", "unused", "used"}
RotationSteps == {"idle", "read", "claim", "lost", "reuse", "issue", "recheck", "revoke"}
NoRotation == [step |-> "idle", presented |-> Root, issued |-> Root]

TokensTypeOK ==
    /\ token \in [Tokens -> [state: TokenStates, revoked: BOOLEAN]]
    /\ rotation \in [Rotations -> [step: RotationSteps, presented: Tokens, issued: Tokens]]
    /\ delivered \subseteq Tokens
    /\ ended \in BOOLEAN

TokensInit ==
    /\ token = [t \in Tokens |-> [state |-> IF t = Root THEN "unused" ELSE "none", revoked |-> FALSE]]
    /\ rotation = [w \in Rotations |-> NoRotation]
    /\ delivered = {Root}
    /\ ended = FALSE

Exists(t) == token[t].state # "none"
Live(t) == token[t].state = "unused" /\ ~token[t].revoked
RotationAt(w, step) == rotation[w].step = step
Rotate(w, step) == rotation' = [rotation EXCEPT ![w].step = step]

\* revokeFamily: every row of the family that is not revoked yet.
RevokeRows == token' = [t \in Tokens |-> [token[t] EXCEPT !.revoked = @ \/ token[t].state # "none"]]

\* Any token the family ever delivered may be presented, again and at once.
Present(w, t) ==
    /\ RotationAt(w, "idle")
    /\ t \in delivered
    /\ rotation' = [rotation EXCEPT ![w] = [step |-> "read", presented |-> t, issued |-> t]]
    /\ UNCHANGED <<token, delivered, ended>>

JudgeToken(w) ==
    LET t == rotation[w].presented IN
    /\ RotationAt(w, "read")
    /\ Rotate(w, IF token[t].state = "used" THEN "reuse"
                 ELSE IF token[t].revoked THEN "idle" ELSE "claim")
    /\ UNCHANGED <<token, delivered, ended>>

\* A faulty claim that trusts the row it read before.
ClaimAnyway(t) == TRUE
\* refreshTokenRepository.claim
TokenClaimable(t) == Live(t)

ClaimToken(w) ==
    LET t == rotation[w].presented IN
    /\ RotationAt(w, "claim")
    /\ IF TokenClaimable(t)
       THEN token' = [token EXCEPT ![t].state = "used"] /\ Rotate(w, "issue")
       ELSE UNCHANGED token /\ Rotate(w, "lost")
    /\ UNCHANGED <<delivered, ended>>

\* The loser re-reads the row: rotated by another request, or revoked.
JudgeLost(w) ==
    /\ RotationAt(w, "lost")
    /\ Rotate(w, IF token[rotation[w].presented].state = "used" THEN "reuse" ELSE "idle")
    /\ UNCHANGED <<token, delivered, ended>>

RevokeForReuse(w) ==
    /\ RotationAt(w, "reuse")
    /\ RevokeRows /\ ended' = TRUE
    /\ Rotate(w, "idle")
    /\ UNCHANGED delivered

IssueChild(w, t) ==
    /\ RotationAt(w, "issue")
    /\ ~Exists(t)
    /\ token' = [token EXCEPT ![t] = [state |-> "unused", revoked |-> FALSE]]
    /\ rotation' = [rotation EXCEPT ![w].step = "recheck", ![w].issued = t]
    /\ UNCHANGED <<delivered, ended>>

\* A faulty rotation that does not look back at the parent.
DeliverAtOnce(w) ==
    /\ RotationAt(w, "recheck")
    /\ delivered' = delivered \cup {rotation[w].issued}
    /\ Rotate(w, "idle")
    /\ UNCHANGED <<token, ended>>

\* A revocation between the claim and the insert could not see the new row.
LookBack(w) ==
    /\ RotationAt(w, "recheck")
    /\ IF token[rotation[w].presented].revoked
       THEN Rotate(w, "revoke") /\ UNCHANGED delivered
       ELSE Rotate(w, "idle") /\ delivered' = delivered \cup {rotation[w].issued}
    /\ UNCHANGED <<token, ended>>

RevokeChild(w) ==
    /\ RotationAt(w, "revoke")
    /\ RevokeRows /\ ended' = TRUE
    /\ Rotate(w, "idle")
    /\ UNCHANGED delivered

\* logout, revokeAllForPrincipal
EndSession ==
    /\ RevokeRows /\ ended' = TRUE
    /\ UNCHANGED <<rotation, delivered>>

\* A worker that dies leaves its token used; a child it inserted reaches nobody.
RotationDies(w) ==
    /\ ~RotationAt(w, "idle")
    /\ Rotate(w, "idle")
    /\ UNCHANGED <<token, delivered, ended>>

TokensNext ==
    \/ \E w \in Rotations, t \in Tokens : Present(w, t) \/ IssueChild(w, t)
    \/ \E w \in Rotations :
          \/ JudgeToken(w) \/ ClaimToken(w) \/ JudgeLost(w) \/ RevokeForReuse(w)
          \/ LookBack(w) \/ RevokeChild(w) \/ RotationDies(w)
    \/ EndSession

TokensSpec == TokensInit /\ [][TokensNext]_tokenVars

-------------------------------------------------------------------------------
\* "Two concurrent refreshes cannot fork one session into two live ones"
\* (refreshToken.repository.ts:24): a session has at most one token that can still be
\* rotated, however many requests present its tokens at once.
OneLiveToken == \A t, u \in Tokens : Live(t) /\ Live(u) => t = u

\* "No live token can survive a revocation that raced it" (token.service.ts:177): once
\* the family is revoked, no token that ever reaches a browser can be rotated.
RevokedStaysDead == ended => \A t \in delivered : ~Live(t)
===============================================================================
