----------------------------- MODULE AccountRow -----------------------------
(* What the Worker stores of an account and of a session, and what its       *)
(* statements do to one row of each.  A password hash is never set twice, so *)
(* a counter stands for it; the refresh tokens of a session are numbered in  *)
(* the order they were issued and `live' are those neither rotated nor       *)
(* revoked.                                                                  *)
EXTENDS Naturals

Roles == {"OPERATOR", "MANAGER"}
Kinds == {"FULL", "MUST"}

NoAccount == [exists |-> FALSE, role |-> "MANAGER", active |-> FALSE,
              version |-> 0, password |-> 0, must |-> FALSE]

\* A new row of users with its credential, the temporary password to be changed.
NewAccount(role, must) == [exists |-> TRUE, role |-> role, active |-> TRUE,
                           version |-> 1, password |-> 1, must |-> must]

\* session_version + 1: what every change that touches security does.
Bumped(a) == [a EXCEPT !.version = @ + 1]

\* As below, forgetting the version: only in mutants.
PasswordSetQuietly(a, must) == [a EXCEPT !.password = @ + 1, !.must = must]

\* The credential replaced, to be changed at the next login or not.
PasswordSet(a, must) == [Bumped(a) EXCEPT !.password = @ + 1, !.must = must]

\* As below, a change of the role taken for a change of the profile: only in
\* mutants.
UpdatedLightly(a, role, active) ==
    [a EXCEPT !.role = role, !.active = active,
              !.version = IF active # a.active THEN @ + 1 ELSE @]

\* updateUser: the version moves only if the role or the activity does.
Updated(a, role, active) ==
    [a EXCEPT !.role = role, !.active = active,
              !.version = IF role # a.role \/ active # a.active THEN @ + 1 ELSE @]

Deactivated(a) == IF a.active THEN [Bumped(a) EXCEPT !.active = FALSE] ELSE a

\* As below, the tokens numbered from 0: only in mutants.
OpenedAtZero(u, a) == [user |-> u, version |-> a.version, password |-> a.password,
                       kind |-> IF a.must THEN "MUST" ELSE "FULL",
                       issued |-> 0, live |-> {0}, revoked |-> FALSE, expired |-> FALSE]

\* The row issueAuthSuccess inserts, from the account as the login read it.
Opened(u, a) == [user |-> u, version |-> a.version, password |-> a.password,
                 kind |-> IF a.must THEN "MUST" ELSE "FULL",
                 issued |-> 1, live |-> {1}, revoked |-> FALSE, expired |-> FALSE]

\* As below, without rotated_at on the old token: only in mutants.
RotatedBeside(x, n) == [x EXCEPT !.issued = @ + 1,
                                 !.live = @ \union {x.issued + 1}]

\* Token n replaced by the next one.
Rotated(x, n) == [x EXCEPT !.issued = @ + 1,
                           !.live = (@ \ {n}) \union {x.issued + 1}]

RevokedSession(x) == [x EXCEPT !.revoked = TRUE, !.live = {}]

\* Every session of the accounts U revoked, with its tokens.
RevokedOf(session, U) ==
    [s \in DOMAIN session |->
        IF session[s].user \in U THEN RevokedSession(session[s]) ELSE session[s]]

\* What requireActor asks of a session x and its account a.
Standing(x, a) == /\ ~x.revoked /\ ~x.expired
                  /\ a.active
                  /\ x.version = a.version

\* isReusable of refreshAuthentication, for token n.
Reusable(x, a, n) == n \in x.live /\ Standing(x, a)

\* The guard of the rotation: of the account it asks nothing.  The expiry is
\* compared with the time read at the start, so Reusable has decided it.
MayRotate(x, n) == n \in x.live /\ ~x.revoked

\* The guard every administrative change starts with.
OperatorGuard(x, a) == /\ ~x.revoked
                       /\ a.active
                       /\ a.role = "OPERATOR"
                       /\ x.kind = "FULL"
                       /\ x.version = a.version
=============================================================================
