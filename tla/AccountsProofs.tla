---------------------------- MODULE AccountsProofs ----------------------------
(* Proofs about Accounts, for every value of its constants.                   *)
EXTENDS Accounts, TLAPS

AccountRows == [exists : BOOLEAN, role : Roles, active : BOOLEAN,
                version : Versions, password : Nat, must : BOOLEAN]

SessionRows == [user : User \union {None}, version : Versions, password : Nat,
                kind : Kinds, issued : 0..MaxTokens, live : SUBSET (1..MaxTokens),
                revoked : BOOLEAN, expired : BOOLEAN]

Requests == [does : {"idle", "login", "rotate", "revoke", "change", "recover",
                     "update", "reset", "first"},
             by : Session \union {None}, token : 0..MaxTokens,
             of : User \union {None}, seen : AccountRows,
             role : Roles, active : BOOLEAN]

\* What handlers hold is there: accounts and sessions never go away.
Linked ==
  /\ \A s \in Session :
       IsOpen(s) => session[s].user \in User /\ Known(session[s].user) /\ session[s].issued > 0
  /\ \A k \in Request :
       LET r == request[k] IN
       /\ r.does \in {"login", "change", "recover", "update", "reset"} =>
            r.of \in User /\ Known(r.of)
       /\ r.does = "first" => r.of \in User \ {Boot}
       /\ r.does \in {"rotate", "revoke", "change", "update", "reset", "first"} =>
            r.by \in Session /\ IsOpen(r.by)

-----------------------------------------------------------------------------
(* What the statements write.                                                 *)

\* The rows that are inserted are rows.
LEMMA InsertedRows ==
  /\ NoAccount \in AccountRows
  /\ \A role \in Roles, must \in BOOLEAN : NewAccount(role, must) \in AccountRows
  /\ Closed \in SessionRows
  /\ Idle \in Requests
<1>1. 0 \in Versions /\ 1 \in Versions /\ 0 \in 0..MaxTokens
  BY AccountAssumption DEF Versions
<1>2. NoAccount \in AccountRows
  BY <1>1 DEF NoAccount, AccountRows, Roles
<1>3. \A role \in Roles, must \in BOOLEAN : NewAccount(role, must) \in AccountRows
  BY <1>1 DEF NewAccount, AccountRows
<1>4. Closed \in SessionRows
  BY <1>1 DEF Closed, SessionRows, Kinds
<1>5. Idle \in Requests
  BY <1>1, <1>2 DEF Idle, Requests, Roles
<1>. QED
  BY <1>2, <1>3, <1>4, <1>5

\* What a change makes of a row whose version has room is a row, and the account
\* exists if it did.
LEMMA ChangedRows ==
  ASSUME NEW a \in AccountRows, a.version < MaxVersion
  PROVE  /\ Bumped(a) \in AccountRows
         /\ Deactivated(a) \in AccountRows
         /\ \A must \in BOOLEAN : PasswordSet(a, must) \in AccountRows
         /\ \A role \in Roles, active \in BOOLEAN : Updated(a, role, active) \in AccountRows
<1>1. a.version + 1 \in Versions /\ a.version \in Versions
  BY AccountAssumption DEF AccountRows, Versions
<1>2. Bumped(a) \in AccountRows
  BY <1>1 DEF Bumped, AccountRows
<1>3. Deactivated(a) \in AccountRows
  BY <1>2 DEF Deactivated, AccountRows
<1>4. ASSUME NEW must \in BOOLEAN
      PROVE  PasswordSet(a, must) \in AccountRows
  <2>. DEFINE b == Bumped(a)
              n == b.password + 1
  <2>1. b \in AccountRows
    BY <1>2
  <2>2. n \in Nat
    BY <2>1 DEF AccountRows
  <2>3. PasswordSet(a, must) = [b EXCEPT !.password = n, !.must = must]
    BY DEF PasswordSet
  <2>. HIDE DEF b, n
  <2>. QED
    BY <2>1, <2>2, <2>3 DEF AccountRows
<1>5. ASSUME NEW role \in Roles, NEW active \in BOOLEAN
      PROVE  Updated(a, role, active) \in AccountRows
  <2>. DEFINE v == IF role # a.role \/ active # a.active THEN a.version + 1 ELSE a.version
  <2>1. v \in Versions
    BY <1>1
  <2>2. Updated(a, role, active) = [a EXCEPT !.role = role, !.active = active, !.version = v]
    BY DEF Updated
  <2>. HIDE DEF v
  <2>. QED
    BY <2>1, <2>2 DEF AccountRows
<1>. QED
  BY <1>2, <1>3, <1>4, <1>5

\* What a change leaves of the row: the version grows whenever anything that a
\* session depends on does not stay, and an account never ceases to exist.
LEMMA ChangedFields ==
  ASSUME NEW a \in AccountRows
  PROVE  /\ Bumped(a).version = a.version + 1 /\ Bumped(a).exists = a.exists
         /\ Bumped(a).active = a.active /\ Bumped(a).role = a.role
         /\ Bumped(a).must = a.must
         /\ \A must \in BOOLEAN :
              LET b == PasswordSet(a, must)
              IN /\ b.version = a.version + 1 /\ b.exists = a.exists
                 /\ b.active = a.active /\ b.role = a.role /\ b.must = must
         /\ \A role \in Roles, active \in BOOLEAN :
              LET b == Updated(a, role, active)
              IN /\ b.version = a.version + 1 \/ b = a
                 /\ b.exists = a.exists /\ b.role = role /\ b.must = a.must
         /\ LET b == Deactivated(a)
            IN /\ b.version = a.version + 1 \/ b = a
               /\ b.exists = a.exists /\ ~b.active /\ b.role = a.role /\ b.must = a.must
<1>1. /\ Bumped(a) \in [exists : BOOLEAN, role : Roles, active : BOOLEAN,
                        version : Nat, password : Nat, must : BOOLEAN]
      /\ Bumped(a).version = a.version + 1 /\ Bumped(a).exists = a.exists
      /\ Bumped(a).active = a.active /\ Bumped(a).role = a.role
      /\ Bumped(a).must = a.must
  BY DEF Bumped, AccountRows, Versions
<1>2. ASSUME NEW must \in BOOLEAN
      PROVE  LET b == PasswordSet(a, must)
             IN /\ b.version = a.version + 1 /\ b.exists = a.exists
                /\ b.active = a.active /\ b.role = a.role /\ b.must = must
  BY <1>1 DEF PasswordSet
<1>3. ASSUME NEW role \in Roles, NEW active \in BOOLEAN
      PROVE  LET b == Updated(a, role, active)
             IN /\ b.version = a.version + 1 \/ b = a
                /\ b.exists = a.exists /\ b.role = role /\ b.must = a.must
  <2>. DEFINE v == IF role # a.role \/ active # a.active THEN a.version + 1 ELSE a.version
              b == [a EXCEPT !.role = role, !.active = active, !.version = v]
  <2>1. v = a.version + 1 \/ (v = a.version /\ role = a.role /\ active = a.active)
    OBVIOUS
  <2>2. Updated(a, role, active) = b
    BY DEF Updated
  <2>3. b.version = a.version + 1 \/ b = a
    <3>. HIDE DEF v
    <3>. QED
      BY <2>1 DEF AccountRows
  <2>4. b.exists = a.exists /\ b.role = role /\ b.must = a.must
    <3>. HIDE DEF v
    <3>. QED
      BY DEF AccountRows
  <2>. QED
    BY <2>2, <2>3, <2>4
<1>4. LET b == Deactivated(a)
      IN /\ b.version = a.version + 1 \/ b = a
         /\ b.exists = a.exists /\ ~b.active /\ b.role = a.role /\ b.must = a.must
  BY <1>1 DEF Deactivated, AccountRows
<1>. QED
  BY <1>1, <1>2, <1>3, <1>4

\* Revoking keeps a session what it is, but for its tokens.
LEMMA RevokedRows ==
  ASSUME NEW x \in SessionRows
  PROVE  /\ RevokedSession(x) \in SessionRows
         /\ RevokedSession(x).user = x.user /\ RevokedSession(x).version = x.version
         /\ RevokedSession(x).password = x.password /\ RevokedSession(x).kind = x.kind
         /\ RevokedSession(x).issued = x.issued /\ RevokedSession(x).live = {}
         /\ RevokedSession(x).revoked
BY DEF RevokedSession, SessionRows

-----------------------------------------------------------------------------
(* Types.                                                                     *)

\* TypeOK by the sets above.
LEMMA TypeRows ==
  TypeOK <=> /\ user \in [User -> AccountRows]
             /\ session \in [Session -> SessionRows]
             /\ code \in [User -> {"none", "issued", "used"}]
             /\ lock \in {"none", "open", "consumed"}
             /\ request \in [Request -> Requests]
BY DEF TypeOK, AccountRows, SessionRows, Requests

\* Sessions stay rows when some of them are revoked.
LEMMA RevokedOfRows ==
  ASSUME session \in [Session -> SessionRows], NEW U
  PROVE  RevokedOf(session, U) \in [Session -> SessionRows]
BY RevokedRows DEF RevokedOf

\* A password set, with whatever ends with it, keeps the types.
LEMMA SetPasswordTypes ==
  ASSUME TypeOK, NEW u \in User, NEW seen, Room(u), Room(Boot),
         SetPassword(u, PasswordSet(user[u], FALSE), seen)
  PROVE  /\ user' \in [User -> AccountRows]
         /\ session' \in [Session -> SessionRows]
         /\ lock' \in {"none", "open", "consumed"}
<1>1. user[u] \in AccountRows /\ user[Boot] \in AccountRows
  BY TypeRows, AccountAssumption
<1>2. PasswordSet(user[u], FALSE) \in AccountRows /\ Deactivated(user[Boot]) \in AccountRows
  BY <1>1, ChangedRows DEF Room
<1>3. session \in [Session -> SessionRows] /\ user \in [User -> AccountRows]
  BY TypeRows
<1>4. CASE u # Boot /\ seen.role = "OPERATOR" /\ seen.must
  BY <1>2, <1>3, <1>4, RevokedOfRows DEF SetPassword
<1>5. CASE ~(u # Boot /\ seen.role = "OPERATOR" /\ seen.must)
  BY <1>2, <1>3, <1>5, RevokedOfRows, TypeRows DEF SetPassword, Secure
<1>. QED
  BY <1>4, <1>5

\* A request that is taken up or given up keeps the requests' types.
LEMMA RequestTypes ==
  ASSUME TypeOK, NEW k \in Request
  PROVE  /\ Finish(k) => request' \in [Request -> Requests]
         /\ \A r \in Requests : Hold(k, r) => request' \in [Request -> Requests]
BY TypeRows, InsertedRows DEF Finish, Hold

\* What handlers hold is of the requests' type.
LEMMA HeldRows ==
  /\ \A u \in User, seen \in AccountRows :
       /\ [Idle EXCEPT !.does = "login", !.of = u, !.seen = seen] \in Requests
       /\ [Idle EXCEPT !.does = "recover", !.of = u, !.seen = seen] \in Requests
  /\ \A s \in Session, u \in User, seen \in AccountRows :
       /\ [Idle EXCEPT !.does = "change", !.by = s, !.of = u, !.seen = seen] \in Requests
       /\ [Idle EXCEPT !.does = "reset", !.by = s, !.of = u, !.seen = seen] \in Requests
       /\ \A role \in Roles, active \in BOOLEAN :
            [Idle EXCEPT !.does = "update", !.by = s, !.of = u, !.seen = seen,
                         !.role = role, !.active = active] \in Requests
  /\ \A s \in Session, u \in User :
       [Idle EXCEPT !.does = "first", !.by = s, !.of = u] \in Requests
  /\ \A s \in Session, n \in 0..MaxTokens :
       [Idle EXCEPT !.does = "rotate", !.by = s, !.token = n] \in Requests
  /\ \A s \in Session : [Idle EXCEPT !.does = "revoke", !.by = s] \in Requests
<1>. USE InsertedRows DEF Requests
<1>1. ASSUME NEW u \in User, NEW seen \in AccountRows
      PROVE  /\ [Idle EXCEPT !.does = "login", !.of = u, !.seen = seen] \in Requests
             /\ [Idle EXCEPT !.does = "recover", !.of = u, !.seen = seen] \in Requests
  OBVIOUS
<1>2. ASSUME NEW s \in Session, NEW u \in User, NEW seen \in AccountRows
      PROVE  /\ [Idle EXCEPT !.does = "change", !.by = s, !.of = u, !.seen = seen] \in Requests
             /\ [Idle EXCEPT !.does = "reset", !.by = s, !.of = u, !.seen = seen] \in Requests
  OBVIOUS
<1>3. ASSUME NEW s \in Session, NEW u \in User, NEW seen \in AccountRows,
             NEW role \in Roles, NEW active \in BOOLEAN
      PROVE  [Idle EXCEPT !.does = "update", !.by = s, !.of = u, !.seen = seen,
                          !.role = role, !.active = active] \in Requests
  OBVIOUS
<1>4. ASSUME NEW s \in Session, NEW u \in User
      PROVE  [Idle EXCEPT !.does = "first", !.by = s, !.of = u] \in Requests
  OBVIOUS
<1>5. ASSUME NEW s \in Session, NEW n \in 0..MaxTokens
      PROVE  [Idle EXCEPT !.does = "rotate", !.by = s, !.token = n] \in Requests
  OBVIOUS
<1>6. ASSUME NEW s \in Session
      PROVE  [Idle EXCEPT !.does = "revoke", !.by = s] \in Requests
  OBVIOUS
<1>. HIDE DEF Requests
<1>. QED
  BY <1>1, <1>2, <1>3, <1>4, <1>5, <1>6

\* Every step keeps the types.
LEMMA TypeStep == TypeOK /\ Linked /\ [Next]_vars => TypeOK'
<1>. DEFINE Users == user' \in [User -> AccountRows]
            Sessions == session' \in [Session -> SessionRows]
            Codes == code' \in [User -> {"none", "issued", "used"}]
            Locks == lock' \in {"none", "open", "consumed"}
            Asks == request' \in [Request -> Requests]
            Goal == Users /\ Sessions /\ Codes /\ Locks /\ Asks
<1>. SUFFICES ASSUME TypeOK, Linked, [Next]_vars
              PROVE  Goal
  BY DEF TypeOK, AccountRows, SessionRows, Requests
<1>t. /\ user \in [User -> AccountRows]
      /\ session \in [Session -> SessionRows]
      /\ code \in [User -> {"none", "issued", "used"}]
      /\ lock \in {"none", "open", "consumed"}
      /\ request \in [Request -> Requests]
  BY TypeRows
<1>f. ASSUME NEW k \in Request
      PROVE  /\ Finish(k) => Asks
             /\ \A r \in Requests : Hold(k, r) => Asks
  BY RequestTypes
<1>c. ASSUME NEW u \in User, NEW row \in AccountRows, Secure(u, row)
      PROVE  Users /\ Sessions
  BY <1>t, <1>c, RevokedOfRows DEF Secure
<1>0. CASE UNCHANGED vars
  BY <1>t, <1>0 DEF vars
<1>1. ASSUME NEW k \in Request, IssueAuthSuccess(k)
      PROVE  Goal
  <2>1. PICK s \in Session :
          session' = [session EXCEPT ![s] = Opened(request[k].of, request[k].seen)]
    BY <1>1 DEF IssueAuthSuccess
  <2>2. /\ request[k].of \in User \union {None}
        /\ request[k].seen \in AccountRows
    BY <1>t DEF Requests
  <2>3. 1 \in 1..MaxTokens /\ 1 \in 0..MaxTokens
    BY AccountAssumption
  <2>4. Opened(request[k].of, request[k].seen) \in SessionRows
    BY <2>2, <2>3 DEF Opened, SessionRows, AccountRows, Kinds
  <2>. QED
    BY <1>t, <1>f, <1>1, <2>1, <2>4 DEF IssueAuthSuccess
<1>2. ASSUME NEW k \in Request, Rotate(k)
      PROVE  Goal
  <2>. DEFINE s == request[k].by
              n == request[k].token
  <2>1. CASE MayRotate(session[s], n) /\ session[s].issued < MaxTokens
             /\ session' = [session EXCEPT ![s] = Rotated(@, n)] /\ Finish(k)
    <3>1. ASSUME s \in Session
          PROVE  Rotated(session[s], n) \in SessionRows
      <4>. DEFINE m == session[s].issued + 1
                  l == (session[s].live \ {n}) \union {m}
      <4>1. session[s] \in SessionRows
        BY <1>t, <3>1
      <4>2. m \in 0..MaxTokens /\ m \in 1..MaxTokens
        BY <2>1, <4>1, AccountAssumption DEF SessionRows
      <4>3. l \in SUBSET (1..MaxTokens)
        BY <4>1, <4>2 DEF SessionRows
      <4>4. Rotated(session[s], n) = [session[s] EXCEPT !.issued = m, !.live = l]
        BY DEF Rotated
      <4>. HIDE DEF m, l
      <4>. QED
        BY <4>1, <4>2, <4>3, <4>4 DEF SessionRows
    <3>. QED
      BY <1>t, <1>f, <1>2, <2>1, <3>1 DEF Rotate
  <2>2. CASE request' = [request EXCEPT ![k].does = "revoke", ![k].token = 0]
             /\ session' = session
    <3>1. 0 \in 0..MaxTokens
      BY AccountAssumption
    <3>2. [request[k] EXCEPT !.does = "revoke", !.token = 0] \in Requests
      BY <1>t, <3>1 DEF Requests
    <3>3. request' = [request EXCEPT ![k] = [request[k] EXCEPT !.does = "revoke", !.token = 0]]
      BY <2>2, <1>t
    <3>. QED
      BY <1>t, <1>2, <2>2, <3>2, <3>3 DEF Rotate
  <2>. QED
    BY <1>2, <2>1, <2>2 DEF Rotate
<1>3. ASSUME NEW k \in Request, RevokeSessionFamily(k)
      PROVE  Goal
  BY <1>t, <1>f, <1>3, RevokedRows DEF RevokeSessionFamily
<1>4. ASSUME NEW k \in Request, CommitChange(k) \/ CommitRecovery(k)
      PROVE  Goal
  <2>1. request[k].of \in User
    BY <1>4 DEF Linked, CommitChange, CommitRecovery
  <2>2. Users /\ Sessions /\ Locks
    BY <1>4, <2>1, SetPasswordTypes DEF CommitChange, CommitRecovery
  <2>. QED
    BY <1>t, <1>f, <1>4, <2>2 DEF CommitChange, CommitRecovery
<1>5. ASSUME NEW k \in Request, CommitUpdate(k) \/ CommitReset(k)
      PROVE  Goal
  <2>. DEFINE u == request[k].of
  <2>1. u \in User /\ request[k].role \in Roles /\ request[k].active \in BOOLEAN
    BY <1>t, <1>5 DEF Linked, CommitUpdate, CommitReset, Requests
  <2>2. user[u] \in AccountRows /\ user[u].version < MaxVersion
    BY <1>t, <1>5, <2>1 DEF Room, CommitUpdate, CommitReset
  <2>3. /\ Updated(user[u], request[k].role, request[k].active) \in AccountRows
        /\ PasswordSet(user[u], TRUE) \in AccountRows
    BY <2>1, <2>2, ChangedRows
  <2>4. Users /\ Sessions
    BY <1>c, <1>5, <2>1, <2>3 DEF CommitUpdate, CommitReset
  <2>. QED
    BY <1>t, <1>f, <1>5, <2>4 DEF CommitUpdate, CommitReset
<1>6. ASSUME NEW k \in Request, CommitFirstOperator(k)
      PROVE  Goal
  <2>1. NewAccount("OPERATOR", TRUE) \in AccountRows
    BY InsertedRows DEF Roles
  <2>. QED
    BY <1>t, <1>f, <1>6, <2>1 DEF CommitFirstOperator
<1>7. ASSUME NEW k \in Request, Abandon(k)
      PROVE  Goal
  BY <1>t, <1>f, <1>7 DEF Abandon
<1>8. ASSUME NEW k \in Request, NEW u \in User, Login(k, u) \/ Recover(k, u)
      PROVE  Goal
  BY <1>t, <1>f, <1>8, HeldRows DEF Login, Recover
<1>9. ASSUME NEW k \in Request, NEW s \in Session, ChangePassword(k, s)
      PROVE  Goal
  <2>1. session[s].user \in User
    BY <1>9 DEF ChangePassword, Stands, Linked
  <2>. QED
    BY <1>t, <1>f, <1>9, <2>1, HeldRows DEF ChangePassword, Account
<1>10. ASSUME NEW k \in Request, NEW s \in Session, NEW n \in 1..MaxTokens, Refresh(k, s, n)
       PROVE  Goal
  <2>1. n \in 0..MaxTokens
    OBVIOUS
  <2>2. /\ [Idle EXCEPT !.does = "rotate", !.by = s, !.token = n] \in Requests
        /\ [Idle EXCEPT !.does = "revoke", !.by = s] \in Requests
    BY <2>1, HeldRows
  <2>. QED
    BY <1>t, <1>f, <1>10, <2>2 DEF Refresh
<1>11. ASSUME NEW k \in Request, NEW s \in Session, NEW u \in User,
              ResetUserPassword(k, s, u) \/ CreateFirstOperator(k, s, u)
       PROVE  Goal
  <2>1. user[u] \in AccountRows
    BY <1>t
  <2>2. /\ [Idle EXCEPT !.does = "reset", !.by = s, !.of = u, !.seen = user[u]] \in Requests
        /\ [Idle EXCEPT !.does = "first", !.by = s, !.of = u] \in Requests
    BY <2>1, HeldRows
  <2>. QED
    BY <1>t, <1>f, <1>11, <2>2 DEF ResetUserPassword, CreateFirstOperator
<1>12. ASSUME NEW k \in Request, NEW s \in Session, NEW u \in User,
              NEW role \in Roles, NEW active \in BOOLEAN, UpdateUser(k, s, u, role, active)
       PROVE  Goal
  <2>1. user[u] \in AccountRows
    BY <1>t
  <2>2. [Idle EXCEPT !.does = "update", !.by = s, !.of = u, !.seen = user[u],
                     !.role = role, !.active = active] \in Requests
    BY <2>1, HeldRows
  <2>. QED
    BY <1>t, <1>f, <1>12, <2>2 DEF UpdateUser
<1>13. ASSUME NEW s \in Session, Logout(s)
       PROVE  Goal
  BY <1>t, <1>13, RevokedRows DEF Logout
<1>14. ASSUME NEW s \in Session, Expire(s)
       PROVE  Goal
  <2>1. [session[s] EXCEPT !.expired = TRUE] \in SessionRows
    BY <1>t DEF SessionRows
  <2>. QED
    BY <1>t, <1>14, <2>1 DEF Expire
<1>15. ASSUME NEW s \in Session, NEW u \in User, NEW role \in Roles, CreateUser(s, u, role)
       PROVE  Goal
  BY <1>t, <1>15, InsertedRows DEF CreateUser
<1>16. ASSUME NEW u \in User, OrganizationsChange(u)
       PROVE  Goal
  <2>1. Bumped(user[u]) \in AccountRows
    BY <1>t, <1>16, ChangedRows DEF OrganizationsChange, Room
  <2>. QED
    BY <1>t, <1>c, <1>16, <2>1 DEF OrganizationsChange
<1>17. CASE CreateBootstrapAccount
  <2>1. NewAccount("OPERATOR", FALSE) \in AccountRows
    BY InsertedRows DEF Roles
  <2>. QED
    BY <1>t, <1>17, <2>1 DEF CreateBootstrapAccount
<1>. HIDE DEF Goal
<1>. QED
  BY <1>0, <1>1, <1>2, <1>3, <1>4, <1>5, <1>6, <1>7, <1>8, <1>9, <1>10, <1>11, <1>12,
     <1>13, <1>14, <1>15, <1>16, <1>17 DEF Next

-----------------------------------------------------------------------------
(* Effects.                                                                   *)

\* What a step does, row by row.  An account that is changed goes on to a later
\* version and loses its sessions.
AccountStep(u) ==
  \/ user'[u] = user[u]
  \/ ~Known(u)
  \/ /\ user'[u].version > user[u].version /\ user'[u].exists
     /\ \A s \in Session : session[s].user = u => session'[s].revoked

\* A session stays what it was opened as; of its tokens the last may be replaced
\* or all may end.
Stays(x, y) ==
  /\ y.user = x.user /\ y.version = x.version /\ y.password = x.password
  /\ y.kind = x.kind /\ y.issued = x.issued
  /\ y.live \in {x.live, {}}
  /\ x.revoked => y.revoked

RotatesBy(k, s) ==
  /\ request[k].does = "rotate" /\ request[k].by = s
  /\ MayRotate(session[s], request[k].token)
  /\ session'[s] = Rotated(session[s], request[k].token)
  /\ user' = user

OpensBy(k, s) ==
  /\ request[k].does = "login"
  /\ session[s] = Closed
  /\ session'[s] = Opened(request[k].of, request[k].seen)
  /\ user' = user

SessionStep(s) ==
  \/ session'[s] = session[s]
  \/ IsOpen(s) /\ Stays(session[s], session'[s])
  \/ \E k \in Request : RotatesBy(k, s) \/ OpensBy(k, s)

\* What a handler holds once it has read.
Read(r) ==
  /\ r.does \in {"login", "recover", "change", "update", "reset"} =>
       r.of \in User /\ Known(r.of) /\ r.seen = user[r.of]
  /\ r.does = "first" => r.of \in User \ {Boot}
  /\ r.does \in {"rotate", "revoke", "change", "update", "reset", "first"} =>
       r.by \in Session /\ IsOpen(r.by)
  /\ r.does = "rotate" => Stands(r.by)

RequestStep(k) ==
  \/ request'[k] = request[k]
  \/ request'[k] = Idle
  \/ /\ request'[k].does = "revoke" /\ request'[k].by = request[k].by
     /\ request[k].does = "rotate"
     /\ UNCHANGED <<user, session>>
  \/ Read(request'[k]) /\ UNCHANGED <<user, session>>

\* Revoking the sessions of some accounts leaves the others alone.
LEMMA RevokedOfEffect ==
  ASSUME session \in [Session -> SessionRows], NEW U \in SUBSET User,
         session' = RevokedOf(session, U), NEW s \in Session
  PROVE  /\ SessionStep(s)
         /\ session[s].user \in U => session'[s].revoked
<1>1. session[s] \in SessionRows
  OBVIOUS
<1>2. session[s] = Closed => session[s].user \notin U
  BY AccountAssumption DEF Closed, None
<1>3. session'[s] = IF session[s].user \in U THEN RevokedSession(session[s]) ELSE session[s]
  BY DEF RevokedOf
<1>4. CASE session[s].user \in U
  BY <1>1, <1>2, <1>3, <1>4, RevokedRows DEF SessionStep, Stays, IsOpen
<1>5. CASE session[s].user \notin U
  BY <1>3, <1>5 DEF SessionStep
<1>. QED
  BY <1>4, <1>5

\* An account that is replaced by a later version of itself, with its sessions
\* revoked.
LEMMA SecureEffect ==
  ASSUME TypeOK, NEW u \in User, NEW row, Secure(u, row),
         row.exists, row.version > user[u].version \/ row = user[u]
  PROVE  /\ \A v \in User : AccountStep(v)
         /\ \A s \in Session : SessionStep(s)
<1>1. user \in [User -> AccountRows] /\ session \in [Session -> SessionRows]
  BY TypeRows
<1>2. user' = [user EXCEPT ![u] = row] /\ session' = RevokedOf(session, {u})
  BY DEF Secure
<1>3. \A s \in Session :
        SessionStep(s) /\ (session[s].user \in {u} => session'[s].revoked)
  BY <1>1, <1>2, RevokedOfEffect
<1>. QED
  BY <1>1, <1>2, <1>3 DEF AccountStep

\* The same for a password that is set, and for the bootstrap account it ends.
LEMMA SetPasswordEffect ==
  ASSUME TypeOK, NEW u \in User, Known(u), NEW seen, Room(u), Room(Boot),
         SetPassword(u, PasswordSet(user[u], FALSE), seen)
  PROVE  /\ \A v \in User : AccountStep(v)
         /\ \A s \in Session : SessionStep(s)
<1>1. user \in [User -> AccountRows] /\ session \in [Session -> SessionRows]
  BY TypeRows
<1>2. user[u] \in AccountRows /\ user[Boot] \in AccountRows
  BY <1>1, AccountAssumption
<1>. DEFINE a == PasswordSet(user[u], FALSE)
            b == Deactivated(user[Boot])
<1>3. a.version = user[u].version + 1 /\ a.exists
  BY <1>2, ChangedFields DEF Known
<1>4. (b.version = user[Boot].version + 1 \/ b = user[Boot]) /\ b.exists = user[Boot].exists
  BY <1>2, ChangedFields
<1>5. user[u].version \in Nat /\ user[Boot].version \in Nat
  BY <1>2, AccountAssumption DEF AccountRows, Versions
<1>6. CASE u # Boot /\ seen.role = "OPERATOR" /\ seen.must
  <2>1. /\ user' = [user EXCEPT ![u] = a, ![Boot] = b]
        /\ session' = RevokedOf(session, {u, Boot})
    BY <1>6 DEF SetPassword
  <2>2. \A s \in Session :
          SessionStep(s) /\ (session[s].user \in {u, Boot} => session'[s].revoked)
    BY <1>1, <2>1, RevokedOfEffect, AccountAssumption
  <2>3. user'[u] = a /\ user'[Boot] = b /\ \A v \in User \ {u, Boot} : user'[v] = user[v]
    BY <1>1, <1>6, <2>1, AccountAssumption
  <2>. HIDE DEF a, b
  <2>4. AccountStep(u)
    BY <1>3, <1>5, <2>2, <2>3 DEF AccountStep
  <2>5. AccountStep(Boot)
    BY <1>4, <1>5, <2>2, <2>3 DEF AccountStep, Known
  <2>. QED
    BY <2>2, <2>3, <2>4, <2>5 DEF AccountStep
<1>7. CASE ~(u # Boot /\ seen.role = "OPERATOR" /\ seen.must)
  <2>1. Secure(u, a)
    BY <1>7 DEF SetPassword
  <2>. HIDE DEF a
  <2>. QED
    BY <1>3, <1>5, <2>1, SecureEffect
<1>. QED
  BY <1>6, <1>7

\* Every step is, row by row, one of these.
LEMMA StepEffects ==
  ASSUME TypeOK, Linked, [Next]_vars
  PROVE  /\ \A u \in User : AccountStep(u)
         /\ \A s \in Session : SessionStep(s)
         /\ \A k \in Request : RequestStep(k)
<1>. DEFINE Rows == /\ \A u \in User : AccountStep(u)
                    /\ \A s \in Session : SessionStep(s)
            Asks == \A k \in Request : RequestStep(k)
            Goal == Rows /\ Asks
<1>t. /\ user \in [User -> AccountRows]
      /\ session \in [Session -> SessionRows]
      /\ request \in [Request -> Requests]
  BY TypeRows
<1>f. ASSUME NEW k \in Request, Finish(k)
      PROVE  Asks
  BY <1>t, <1>f DEF Finish, RequestStep
<1>h. ASSUME NEW k \in Request, NEW r, Hold(k, r), Read(r), UNCHANGED <<user, session>>
      PROVE  Asks
  BY <1>t, <1>h DEF Hold, RequestStep
<1>u. ASSUME UNCHANGED <<user, session>>
      PROVE  Rows
  BY <1>u DEF AccountStep, SessionStep
<1>0. ASSUME UNCHANGED vars
      PROVE  Goal
  BY <1>u, <1>0 DEF vars, RequestStep
<1>1. ASSUME NEW k \in Request, IssueAuthSuccess(k)
      PROVE  Goal
  <2>1. PICK s \in Session :
          /\ session[s] = Closed
          /\ session' = [session EXCEPT ![s] = Opened(request[k].of, request[k].seen)]
    BY <1>1 DEF IssueAuthSuccess, IsOpen
  <2>2. OpensBy(k, s) /\ \A x \in Session \ {s} : session'[x] = session[x]
    BY <1>t, <1>1, <2>1 DEF OpensBy, IssueAuthSuccess
  <2>. QED
    BY <1>f, <1>1, <2>2 DEF IssueAuthSuccess, AccountStep, SessionStep
<1>2. ASSUME NEW k \in Request, Rotate(k)
      PROVE  Goal
  <2>. DEFINE s == request[k].by
              n == request[k].token
  <2>0. request[k].does = "rotate" /\ s \in Session
    BY <1>2 DEF Rotate, Linked
  <2>1. CASE MayRotate(session[s], n)
             /\ session' = [session EXCEPT ![s] = Rotated(@, n)] /\ Finish(k)
    <3>1. RotatesBy(k, s) /\ \A x \in Session \ {s} : session'[x] = session[x]
      BY <1>t, <1>2, <2>0, <2>1 DEF RotatesBy, Rotate
    <3>. QED
      BY <1>f, <1>2, <2>0, <2>1, <3>1 DEF Rotate, AccountStep, SessionStep
  <2>2. CASE request' = [request EXCEPT ![k].does = "revoke", ![k].token = 0]
             /\ session' = session
    <3>1. /\ request'[k].does = "revoke" /\ request'[k].by = s
          /\ \A j \in Request \ {k} : request'[j] = request[j]
      BY <1>t, <2>2 DEF Requests
    <3>. QED
      BY <1>2, <1>u, <2>0, <2>2, <3>1 DEF Rotate, RequestStep
  <2>. QED
    BY <1>2, <2>1, <2>2 DEF Rotate
<1>3. ASSUME NEW k \in Request, RevokeSessionFamily(k)
      PROVE  Goal
  <2>1. request[k].by \in Session /\ IsOpen(request[k].by)
    BY <1>3 DEF RevokeSessionFamily, Linked
  <2>2. \A s \in Session : SessionStep(s)
    BY <1>t, <1>3, <2>1, RevokedRows DEF RevokeSessionFamily, SessionStep, Stays
  <2>. QED
    BY <1>f, <1>3, <2>2 DEF RevokeSessionFamily, AccountStep
<1>4. ASSUME NEW k \in Request, CommitChange(k) \/ CommitRecovery(k)
      PROVE  Goal
  <2>1. request[k].of \in User /\ Known(request[k].of)
    BY <1>4 DEF Linked, CommitChange, CommitRecovery
  <2>2. Rows
    BY <1>4, <2>1, SetPasswordEffect DEF CommitChange, CommitRecovery
  <2>. QED
    BY <1>f, <1>4, <2>2 DEF CommitChange, CommitRecovery
<1>5. ASSUME NEW k \in Request, CommitUpdate(k) \/ CommitReset(k)
      PROVE  Goal
  <2>. DEFINE u == request[k].of
              a == Updated(user[u], request[k].role, request[k].active)
              b == PasswordSet(user[u], TRUE)
  <2>1. u \in User /\ user[u].exists
    BY <1>5 DEF Linked, CommitUpdate, CommitReset, Known
  <2>2. user[u] \in AccountRows /\ user[u].version \in Nat
    BY <1>t, <2>1 DEF AccountRows, Versions
  <2>3. request[k].role \in Roles /\ request[k].active \in BOOLEAN
    BY <1>t DEF Requests
  <2>4. (a.version = user[u].version + 1 \/ a = user[u]) /\ a.exists
    <3>1. /\ a.version = user[u].version + 1 \/ a = user[u]
          /\ a.exists = user[u].exists
      BY <2>2, <2>3, ChangedFields
    <3>. QED
      BY <2>1, <3>1
  <2>5. b.version = user[u].version + 1 /\ b.exists
    <3>1. b.version = user[u].version + 1 /\ b.exists = user[u].exists
      BY <2>2, ChangedFields
    <3>. QED
      BY <2>1, <3>1
  <2>6. Secure(u, a) \/ Secure(u, b)
    BY <1>5 DEF CommitUpdate, CommitReset
  <2>7. Rows
    <3>. HIDE DEF a, b
    <3>. QED
      BY <2>1, <2>2, <2>4, <2>5, <2>6, SecureEffect
  <2>. QED
    BY <1>f, <1>5, <2>7 DEF CommitUpdate, CommitReset
<1>6. ASSUME NEW k \in Request, CommitFirstOperator(k)
      PROVE  Goal
  <2>1. request[k].of \in User \ {Boot} /\ ~Known(request[k].of)
    BY <1>6 DEF Linked, CommitFirstOperator
  <2>. QED
    BY <1>t, <1>f, <1>6, <2>1 DEF CommitFirstOperator, AccountStep, SessionStep
<1>7. ASSUME NEW k \in Request, Abandon(k)
      PROVE  Goal
  BY <1>f, <1>u, <1>7 DEF Abandon
<1>8. ASSUME NEW k \in Request, NEW u \in User, Login(k, u) \/ Recover(k, u)
      PROVE  Goal
  <2>. DEFINE l == [Idle EXCEPT !.does = "login", !.of = u, !.seen = user[u]]
              c == [Idle EXCEPT !.does = "recover", !.of = u, !.seen = user[u]]
  <2>1. Read(l) /\ Read(c)
    BY <1>8 DEF Login, Recover, Idle, Read
  <2>2. Hold(k, l) \/ Hold(k, c)
    BY <1>8 DEF Login, Recover
  <2>. HIDE DEF l, c
  <2>. QED
    BY <1>h, <1>u, <1>8, <2>1, <2>2 DEF Login, Recover
<1>9. ASSUME NEW k \in Request, NEW s \in Session, ChangePassword(k, s)
      PROVE  Goal
  <2>. DEFINE r == [Idle EXCEPT !.does = "change", !.by = s, !.of = session[s].user,
                                !.seen = Account(s)]
  <2>1. session[s].user \in User /\ Known(session[s].user) /\ IsOpen(s)
    BY <1>9 DEF ChangePassword, Stands, Linked
  <2>2. Read(r)
    BY <2>1 DEF Idle, Read, Account
  <2>3. Hold(k, r)
    BY <1>9 DEF ChangePassword
  <2>. HIDE DEF r
  <2>. QED
    BY <1>h, <1>u, <1>9, <2>2, <2>3 DEF ChangePassword
<1>10. ASSUME NEW k \in Request, NEW s \in Session, NEW n \in 1..MaxTokens, Refresh(k, s, n)
       PROVE  Goal
  <2>. DEFINE q == [Idle EXCEPT !.does = "rotate", !.by = s, !.token = n]
              r == [Idle EXCEPT !.does = "revoke", !.by = s]
  <2>1. IsOpen(s)
    BY <1>t, <1>10 DEF Refresh, IsOpen, Closed
  <2>2. Read(r)
    BY <2>1 DEF Idle, Read
  <2>3. Reusable(session[s], Account(s), n) => Read(q)
    BY <2>1 DEF Idle, Read, Reusable, Stands
  <2>4. Hold(k, r) \/ (Reusable(session[s], Account(s), n) /\ Hold(k, q))
    BY <1>10 DEF Refresh
  <2>. HIDE DEF q, r
  <2>. QED
    BY <1>h, <1>u, <1>10, <2>2, <2>3, <2>4 DEF Refresh
<1>11. ASSUME NEW k \in Request, NEW s \in Session, NEW u \in User,
              ResetUserPassword(k, s, u) \/ CreateFirstOperator(k, s, u)
       PROVE  Goal
  <2>. DEFINE q == [Idle EXCEPT !.does = "reset", !.by = s, !.of = u, !.seen = user[u]]
              r == [Idle EXCEPT !.does = "first", !.by = s, !.of = u]
  <2>1. IsOpen(s)
    BY <1>11 DEF ResetUserPassword, CreateFirstOperator, Operates, Stands
  <2>2. Known(u) => Read(q)
    BY <2>1 DEF Idle, Read
  <2>3. u # Boot => Read(r)
    BY <2>1 DEF Idle, Read
  <2>4. (Hold(k, q) /\ Known(u)) \/ (Hold(k, r) /\ u # Boot)
    BY <1>11 DEF ResetUserPassword, CreateFirstOperator
  <2>. HIDE DEF q, r
  <2>. QED
    BY <1>h, <1>u, <1>11, <2>2, <2>3, <2>4 DEF ResetUserPassword, CreateFirstOperator
<1>12. ASSUME NEW k \in Request, NEW s \in Session, NEW u \in User,
              NEW role \in Roles, NEW active \in BOOLEAN, UpdateUser(k, s, u, role, active)
       PROVE  Goal
  <2>. DEFINE r == [Idle EXCEPT !.does = "update", !.by = s, !.of = u, !.seen = user[u],
                                !.role = role, !.active = active]
  <2>1. IsOpen(s) /\ Known(u)
    BY <1>12 DEF UpdateUser, Operates, Stands
  <2>2. Read(r)
    BY <2>1 DEF Idle, Read
  <2>3. Hold(k, r)
    BY <1>12 DEF UpdateUser
  <2>. HIDE DEF r
  <2>. QED
    BY <1>h, <1>u, <1>12, <2>2, <2>3 DEF UpdateUser
<1>13. ASSUME NEW s \in Session, Logout(s)
       PROVE  Goal
  <2>1. \A x \in Session : SessionStep(x)
    BY <1>t, <1>13, RevokedRows DEF Logout, SessionStep, Stays
  <2>. QED
    BY <1>13, <2>1 DEF Logout, AccountStep, RequestStep
<1>14. ASSUME NEW s \in Session, Expire(s)
       PROVE  Goal
  <2>1. Stays(session[s], [session[s] EXCEPT !.expired = TRUE])
    BY <1>t DEF Stays, SessionRows
  <2>2. \A x \in Session : SessionStep(x)
    BY <1>t, <1>14, <2>1 DEF Expire, SessionStep
  <2>. QED
    BY <1>14, <2>2 DEF Expire, AccountStep, RequestStep
<1>15. ASSUME NEW s \in Session, NEW u \in User, NEW role \in Roles, CreateUser(s, u, role)
       PROVE  Goal
  BY <1>t, <1>15 DEF CreateUser, AccountStep, SessionStep, RequestStep
<1>16. ASSUME NEW u \in User, OrganizationsChange(u)
       PROVE  Goal
  <2>1. user[u] \in AccountRows /\ user[u].version \in Nat
    BY <1>t DEF AccountRows, Versions
  <2>2. Bumped(user[u]).version = user[u].version + 1 /\ Bumped(user[u]).exists
    BY <1>16, <2>1, ChangedFields DEF OrganizationsChange, Known
  <2>3. Secure(u, Bumped(user[u])) /\ request' = request
    BY <1>16 DEF OrganizationsChange
  <2>. QED
    BY <2>1, <2>2, <2>3, SecureEffect DEF RequestStep
<1>17. ASSUME CreateBootstrapAccount
       PROVE  Goal
  BY <1>t, <1>17 DEF CreateBootstrapAccount, AccountStep, SessionStep, RequestStep
<1>. HIDE DEF Goal
<1>18. Goal
  BY <1>0, <1>1, <1>2, <1>3, <1>4, <1>5, <1>6, <1>7, <1>8, <1>9, <1>10, <1>11, <1>12,
     <1>13, <1>14, <1>15, <1>16, <1>17 DEF Next
<1>. QED
  BY <1>18 DEF Goal

-----------------------------------------------------------------------------
(* The invariant.                                                             *)

\* A handler has read the account as it is, or an earlier version of it.
SeenPinned ==
  \A k \in Request :
    LET r == request[k] IN
    r.does \in {"login", "change", "recover", "update", "reset"} =>
      /\ r.seen.version <= user[r.of].version
      /\ r.seen.version = user[r.of].version => r.seen = user[r.of]

\* A session was opened for the account as it is, or for an earlier version of it.
SessionsPinned ==
  \A s \in Session :
    IsOpen(s) =>
      /\ session[s].version <= Account(s).version
      /\ session[s].version = Account(s).version =>
           /\ session[s].password = Account(s).password
           /\ session[s].kind = IF Account(s).must THEN "MUST" ELSE "FULL"

\* A rotation that is under way is of a session that still stands, or is revoked.
Rotating ==
  \A k \in Request :
    request[k].does = "rotate" /\ ~session[request[k].by].revoked =>
      /\ Account(request[k].by).active
      /\ session[request[k].by].version = Account(request[k].by).version

\* Of the tokens of a session the last alone can be live.
LastLive ==
  \A s \in Session : session[s].live \in {{}, {session[s].issued}}

\* An account that exists goes on existing, unchanged or in a later version.
LEMMA KnownStays ==
  ASSUME TypeOK, NEW u \in User, Known(u), AccountStep(u)
  PROVE  /\ Known(u)'
         /\ user'[u] = user[u] \/ user'[u].version > user[u].version
BY DEF AccountStep, Known

\* A session that is open stays the one it was.
LEMMA OpenStays ==
  ASSUME TypeOK, NEW s \in Session, IsOpen(s), Linked, SessionStep(s)
  PROVE  /\ IsOpen(s)'
         /\ session'[s].user = session[s].user /\ session'[s].version = session[s].version
         /\ session'[s].password = session[s].password /\ session'[s].kind = session[s].kind
         /\ session'[s].issued >= session[s].issued
         /\ session[s].revoked => session'[s].revoked
<1>1. session[s] \in SessionRows /\ session[s].issued > 0
  BY TypeRows DEF Linked
<1>2. CASE session'[s] = session[s]
  BY <1>1, <1>2 DEF IsOpen, SessionRows
<1>3. CASE Stays(session[s], session'[s])
  BY <1>1, <1>3 DEF Stays, IsOpen, Closed, SessionRows
<1>4. ASSUME NEW k \in Request, RotatesBy(k, s)
      PROVE  /\ session'[s].user = session[s].user /\ session'[s].version = session[s].version
             /\ session'[s].password = session[s].password
             /\ session'[s].kind = session[s].kind
             /\ session'[s].issued = session[s].issued + 1
             /\ ~session[s].revoked
  BY <1>1, <1>4 DEF RotatesBy, Rotated, MayRotate, SessionRows
<1>5. ASSUME NEW k \in Request, RotatesBy(k, s)
      PROVE  session'[s].issued > 0 /\ session'[s].issued >= session[s].issued
  BY <1>1, <1>4, <1>5 DEF SessionRows
<1>6. session'[s].issued > 0 => IsOpen(s)'
  BY DEF IsOpen, Closed
<1>. QED
  BY <1>2, <1>3, <1>4, <1>5, <1>6 DEF SessionStep, OpensBy, IsOpen

\* A session that comes to be open is the one a login asked for.
LEMMA OpenedByLogin ==
  ASSUME TypeOK, NEW s \in Session, ~IsOpen(s), IsOpen(s)', SessionStep(s)
  PROVE  \E k \in Request : OpensBy(k, s)
<1>1. session[s] = Closed
  BY DEF IsOpen
<1>2. \A k \in Request : ~RotatesBy(k, s)
  BY <1>1 DEF RotatesBy, MayRotate, Closed
<1>. QED
  BY <1>1, <1>2 DEF SessionStep, IsOpen

\* Every step keeps what handlers hold.
LEMMA LinkedStep == TypeOK /\ Linked /\ [Next]_vars => Linked'
<1>. SUFFICES ASSUME TypeOK, Linked, [Next]_vars
              PROVE  Linked'
  OBVIOUS
<1>e. /\ \A u \in User : AccountStep(u)
      /\ \A s \in Session : SessionStep(s)
      /\ \A k \in Request : RequestStep(k)
  BY StepEffects
<1>1. \A u \in User : Known(u) => Known(u)'
  BY <1>e, KnownStays
<1>2. \A s \in Session : IsOpen(s) => IsOpen(s)'
  BY <1>e, OpenStays
<1>3. ASSUME NEW s \in Session, IsOpen(s)'
      PROVE  (session[s].user \in User /\ Known(session[s].user) /\ session[s].issued > 0)'
  <2>1. CASE IsOpen(s)
    <3>1. session[s].user \in User /\ Known(session[s].user) /\ session[s].issued > 0
      BY <2>1 DEF Linked
    <3>2. session[s].issued \in Nat /\ session'[s].issued \in Nat
      <4>1. TypeOK'
        BY TypeStep
      <4>. QED
        BY <4>1 DEF TypeOK
    <3>3. session'[s].user = session[s].user /\ session'[s].issued >= session[s].issued
      BY <1>e, <2>1, OpenStays
    <3>4. session'[s].issued > 0
      BY <3>1, <3>2, <3>3
    <3>. QED
      BY <1>1, <3>1, <3>3, <3>4
  <2>2. CASE ~IsOpen(s)
    <3>1. PICK k \in Request : OpensBy(k, s)
      BY <1>e, <1>3, <2>2, OpenedByLogin
    <3>2. request[k].of \in User /\ Known(request[k].of)
      BY <3>1 DEF OpensBy, Linked
    <3>3. session'[s].user = request[k].of /\ session'[s].issued = 1
      BY <3>1 DEF OpensBy, Opened
    <3>. QED
      BY <1>1, <3>2, <3>3
  <2>. QED
    BY <2>1, <2>2
<1>4. ASSUME NEW k \in Request
      PROVE  (LET r == request[k] IN
              /\ r.does \in {"login", "change", "recover", "update", "reset"} =>
                   r.of \in User /\ Known(r.of)
              /\ r.does = "first" => r.of \in User \ {Boot}
              /\ r.does \in {"rotate", "revoke", "change", "update", "reset", "first"} =>
                   r.by \in Session /\ IsOpen(r.by))'
  <2>1. CASE request'[k] = request[k]
    BY <1>1, <1>2, <2>1 DEF Linked
  <2>2. CASE request'[k] = Idle
    BY <2>2 DEF Idle
  <2>3. CASE request'[k].does = "revoke" /\ request'[k].by = request[k].by
             /\ request[k].does = "rotate"
    BY <1>2, <2>3 DEF Linked
  <2>4. CASE Read(request'[k])
    BY <1>1, <1>2, <2>4 DEF Read
  <2>. QED
    BY <1>e, <2>1, <2>2, <2>3, <2>4 DEF RequestStep
<1>. QED
  BY <1>3, <1>4 DEF Linked

\* A read account is pinned until the handler ends.
LEMMA SeenStep == TypeOK /\ Linked /\ SeenPinned /\ [Next]_vars => SeenPinned'
<1>. SUFFICES ASSUME TypeOK, Linked, SeenPinned, [Next]_vars, NEW k \in Request
              PROVE  (LET r == request[k] IN
                      r.does \in {"login", "change", "recover", "update", "reset"} =>
                        /\ r.seen.version <= user[r.of].version
                        /\ r.seen.version = user[r.of].version => r.seen = user[r.of])'
  BY DEF SeenPinned
<1>1. /\ \A u \in User : AccountStep(u)
      /\ RequestStep(k)
  BY StepEffects
<1>2. CASE request'[k] = request[k]
  <2>. DEFINE r == request[k]
  <2>1. SUFFICES ASSUME r.does \in {"login", "change", "recover", "update", "reset"}
                 PROVE  /\ r.seen.version <= user'[r.of].version
                        /\ r.seen.version = user'[r.of].version => r.seen = user'[r.of]
    BY <1>2
  <2>2. r.of \in User /\ Known(r.of)
    BY <2>1 DEF Linked
  <2>3. user'[r.of] = user[r.of] \/ user'[r.of].version > user[r.of].version
    BY <1>1, <2>2, KnownStays
  <2>4. /\ r.seen.version \in Nat /\ user[r.of].version \in Nat /\ user'[r.of].version \in Nat
    <3>1. TypeOK'
      BY TypeStep
    <3>. QED
      BY <2>2, <3>1 DEF TypeOK, Versions
  <2>5. /\ r.seen.version <= user[r.of].version
        /\ r.seen.version = user[r.of].version => r.seen = user[r.of]
    BY <2>1 DEF SeenPinned
  <2>. HIDE DEF r
  <2>. QED
    BY <2>3, <2>4, <2>5
<1>3. CASE request'[k] = Idle
  BY <1>3 DEF Idle
<1>4. CASE request'[k].does = "revoke"
  BY <1>4
<1>5. CASE Read(request'[k]) /\ UNCHANGED <<user, session>>
  <2>. DEFINE r == request'[k]
  <2>1. SUFFICES ASSUME r.does \in {"login", "change", "recover", "update", "reset"}
                 PROVE  /\ r.seen.version <= user[r.of].version
                        /\ r.seen.version = user[r.of].version => r.seen = user[r.of]
    BY <1>5
  <2>2. r.seen = user[r.of] /\ r.of \in User
    BY <1>5, <2>1 DEF Read
  <2>3. user[r.of].version \in Nat
    BY <2>2 DEF TypeOK, Versions
  <2>. QED
    BY <2>2, <2>3
<1>. QED
  BY <1>1, <1>2, <1>3, <1>4, <1>5 DEF RequestStep

\* A session is pinned to the version it was opened at.
LEMMA SessionsPinnedStep ==
  TypeOK /\ Linked /\ SeenPinned /\ SessionsPinned /\ [Next]_vars => SessionsPinned'
<1>. SUFFICES ASSUME TypeOK, Linked, SeenPinned, SessionsPinned, [Next]_vars,
                     NEW s \in Session, IsOpen(s)'
              PROVE  (/\ session[s].version <= Account(s).version
                      /\ session[s].version = Account(s).version =>
                           /\ session[s].password = Account(s).password
                           /\ session[s].kind = IF Account(s).must THEN "MUST" ELSE "FULL")'
  BY DEF SessionsPinned
<1>1. /\ \A u \in User : AccountStep(u)
      /\ SessionStep(s)
      /\ TypeOK' /\ Linked'
  BY StepEffects, TypeStep, LinkedStep
<1>2. CASE IsOpen(s)
  <2>. DEFINE u == session[s].user
  <2>1. u \in User /\ Known(u)
    BY <1>2 DEF Linked
  <2>2. /\ session'[s].user = u /\ session'[s].version = session[s].version
        /\ session'[s].password = session[s].password /\ session'[s].kind = session[s].kind
    BY <1>1, <1>2, OpenStays
  <2>3. user'[u] = user[u] \/ user'[u].version > user[u].version
    BY <1>1, <2>1, KnownStays
  <2>4. user[u].version \in Nat /\ user'[u].version \in Nat /\ session[s].version \in Nat
    BY <1>1, <2>1 DEF TypeOK, Versions
  <2>5. /\ session[s].version <= user[u].version
        /\ session[s].version = user[u].version =>
             /\ session[s].password = user[u].password
             /\ session[s].kind = IF user[u].must THEN "MUST" ELSE "FULL"
    BY <1>2 DEF SessionsPinned, Account
  <2>6. Account(s)' = user'[u]
    BY <2>2 DEF Account
  <2>. HIDE DEF u
  <2>. QED
    BY <2>2, <2>3, <2>4, <2>5, <2>6
<1>3. CASE ~IsOpen(s)
  <2>1. PICK k \in Request : OpensBy(k, s)
    BY <1>1, <1>3, OpenedByLogin
  <2>. DEFINE u == request[k].of
              a == request[k].seen
  <2>2. u \in User /\ a.version <= user[u].version /\ (a.version = user[u].version => a = user[u])
    BY <2>1 DEF OpensBy, Linked, SeenPinned
  <2>3. /\ session'[s].user = u /\ session'[s].version = a.version
        /\ session'[s].password = a.password
        /\ session'[s].kind = IF a.must THEN "MUST" ELSE "FULL"
        /\ user' = user
    BY <2>1 DEF OpensBy, Opened
  <2>4. Account(s)' = user[u]
    BY <2>3 DEF Account
  <2>. HIDE DEF u, a
  <2>. QED
    BY <2>2, <2>3, <2>4
<1>. QED
  BY <1>2, <1>3

\* A rotation under way stays that of a session that stands or is revoked.
LEMMA RotatingStep == TypeOK /\ Linked /\ Rotating /\ [Next]_vars => Rotating'
<1>. SUFFICES ASSUME TypeOK, Linked, Rotating, [Next]_vars, NEW k \in Request,
                     request'[k].does = "rotate", ~session'[request'[k].by].revoked
              PROVE  (/\ Account(request[k].by).active
                      /\ session[request[k].by].version = Account(request[k].by).version)'
  BY DEF Rotating
<1>. DEFINE s == request'[k].by
<1>1. /\ \A u \in User : AccountStep(u)
      /\ \A x \in Session : SessionStep(x)
      /\ RequestStep(k)
  BY StepEffects
<1>2. CASE request'[k] = request[k]
  <2>1. s \in Session /\ IsOpen(s)
    BY <1>2 DEF Linked
  <2>2. session'[s].user = session[s].user /\ session'[s].version = session[s].version
        /\ ~session[s].revoked
    BY <1>1, <2>1, OpenStays
  <2>3. session[s].user \in User /\ Known(session[s].user)
    BY <2>1 DEF Linked
  <2>4. user'[session[s].user] = user[session[s].user]
    BY <1>1, <2>1, <2>3 DEF AccountStep
  <2>5. Account(s).active /\ session[s].version = Account(s).version
    BY <1>2, <2>2 DEF Rotating
  <2>. QED
    BY <2>2, <2>4, <2>5 DEF Account
<1>3. CASE request'[k] = Idle
  BY <1>3 DEF Idle
<1>4. CASE Read(request'[k]) /\ UNCHANGED <<user, session>>
  BY <1>4 DEF Read, Stands, Standing, Account
<1>. QED
  BY <1>1, <1>2, <1>3, <1>4 DEF RequestStep

\* The last token alone stays live.
LEMMA LastLiveStep == TypeOK /\ Linked /\ LastLive /\ [Next]_vars => LastLive'
<1>. SUFFICES ASSUME TypeOK, Linked, LastLive, [Next]_vars, NEW s \in Session
              PROVE  session'[s].live \in {{}, {session'[s].issued}}
  BY DEF LastLive
<1>1. SessionStep(s) /\ session[s] \in SessionRows
  BY StepEffects, TypeRows
<1>2. CASE session'[s] = session[s] \/ Stays(session[s], session'[s])
  BY <1>2 DEF LastLive, Stays
<1>3. ASSUME NEW k \in Request, RotatesBy(k, s)
      PROVE  session'[s].live = {session'[s].issued}
  <2>1. request[k].token \in session[s].live /\ session'[s] = Rotated(session[s], request[k].token)
    BY <1>3 DEF RotatesBy, MayRotate
  <2>2. session[s].live = {request[k].token}
    BY <2>1 DEF LastLive
  <2>3. session'[s].issued = session[s].issued + 1
        /\ session'[s].live = (session[s].live \ {request[k].token}) \union {session[s].issued + 1}
    BY <1>1, <2>1 DEF Rotated, SessionRows
  <2>. QED
    BY <2>2, <2>3
<1>4. ASSUME NEW k \in Request, OpensBy(k, s)
      PROVE  session'[s].live = {session'[s].issued}
  BY <1>4 DEF OpensBy, Opened
<1>. QED
  BY <1>1, <1>2, <1>3, <1>4 DEF SessionStep

-----------------------------------------------------------------------------
(* The bootstrap.                                                             *)

\* Until the lock is consumed there are only operators with a temporary password,
\* and who sets one has read that; then the bootstrap account is switched off.
Bootstrapping ==
  /\ lock # "consumed" =>
       /\ \A u \in User \ {Boot} : Known(u) => user[u].role = "OPERATOR" /\ user[u].must
       /\ \A k \in Request :
            request[k].does \in {"change", "recover"} /\ request[k].of # Boot =>
              request[k].seen.role = "OPERATOR" /\ request[k].seen.must
  /\ lock = "consumed" => ~user[Boot].active

\* Whoever administers accounts has ended the bootstrap.
LEMMA OperatorConsumed ==
  ASSUME TypeOK, Linked, SessionsPinned, Bootstrapping,
         NEW s \in Session, IsOpen(s), StillOperates(s)
  PROVE  lock = "consumed"
<1>1. session[s].user \in User \ {Boot} /\ Known(session[s].user)
  BY DEF Linked, StillOperates
<1>2. session[s].kind = "FULL" /\ session[s].version = Account(s).version
  BY DEF StillOperates, OperatorGuard
<1>3. ~Account(s).must
  BY <1>2 DEF SessionsPinned
<1>. QED
  BY <1>1, <1>3 DEF Bootstrapping, Account

\* What a step makes of the accounts and of the lock.
LEMMA BootstrapRows ==
  ASSUME TypeOK, Linked, SessionsPinned, Bootstrapping, [Next]_vars
  PROVE  /\ lock' # "consumed" =>
              /\ lock # "consumed"
              /\ \A u \in User \ {Boot} :
                   Known(u)' => user'[u].role = "OPERATOR" /\ user'[u].must
         /\ lock' = "consumed" => ~user'[Boot].active
<1>. DEFINE Off == lock' = "consumed" => ~user'[Boot].active
            On == lock' # "consumed" =>
                    /\ lock # "consumed"
                    /\ \A u \in User \ {Boot} :
                         Known(u)' => user'[u].role = "OPERATOR" /\ user'[u].must
            Goal == On /\ Off
<1>t. /\ user \in [User -> AccountRows]
      /\ session \in [Session -> SessionRows]
      /\ request \in [Request -> Requests]
      /\ Boot \in User
  BY TypeRows, AccountAssumption
<1>u. ASSUME UNCHANGED <<user, lock>>
      PROVE  Goal
  BY <1>u DEF Bootstrapping, Known
<1>c. ASSUME lock = "consumed", lock' = lock, user'[Boot].active = user[Boot].active
      PROVE  Goal
  BY <1>c DEF Bootstrapping
<1>1. ASSUME NEW k \in Request, CommitChange(k) \/ CommitRecovery(k)
      PROVE  Goal
  <2>. DEFINE u == request[k].of
              seen == request[k].seen
              a == PasswordSet(user[u], FALSE)
              b == Deactivated(user[Boot])
  <2>1. u \in User /\ Known(u) /\ request[k].does \in {"change", "recover"}
    BY <1>1 DEF Linked, CommitChange, CommitRecovery
  <2>2. SetPassword(u, a, seen)
    <3>1. CASE CommitChange(k)
      BY <3>1 DEF CommitChange
    <3>2. CASE CommitRecovery(k)
      BY <3>2 DEF CommitRecovery
    <3>. QED
      BY <1>1, <3>1, <3>2
  <2>3. a.active = user[u].active /\ ~b.active
    <3>1. user[u] \in AccountRows /\ user[Boot] \in AccountRows /\ FALSE \in BOOLEAN
      BY <1>t, <2>1
    <3>2. PasswordSet(user[u], FALSE).active = user[u].active
      BY ONLY <3>1, ChangedFields
    <3>3. ~Deactivated(user[Boot]).active
      BY ONLY <3>1, ChangedFields
    <3>. QED
      BY <3>2, <3>3
  <2>4. CASE u # Boot /\ seen.role = "OPERATOR" /\ seen.must
    <3>1. user' = [user EXCEPT ![u] = a, ![Boot] = b] /\ lock' = "consumed"
      BY <2>2, <2>4 DEF SetPassword
    <3>2. user'[Boot] = b
      BY <1>t, <3>1
    <3>. QED
      BY <2>3, <3>1, <3>2
  <2>5. CASE u = Boot
    <3>1. user' = [user EXCEPT ![u] = a] /\ lock' = lock
      BY <2>2, <2>5 DEF SetPassword, Secure
    <3>2. user'[Boot] = a /\ \A v \in User \ {Boot} : user'[v] = user[v]
      BY <1>t, <2>5, <3>1
    <3>. QED
      BY <2>3, <2>5, <3>1, <3>2 DEF Bootstrapping, Known
  <2>6. CASE u # Boot /\ ~(seen.role = "OPERATOR" /\ seen.must)
    <3>1. lock = "consumed"
      BY <2>1, <2>6 DEF Bootstrapping
    <3>2. user' = [user EXCEPT ![u] = a] /\ lock' = lock
      BY <2>2, <2>6 DEF SetPassword, Secure
    <3>. QED
      BY <1>c, <1>t, <2>6, <3>1, <3>2
  <2>. QED
    BY <2>4, <2>5, <2>6
<1>2. ASSUME NEW k \in Request, CommitUpdate(k) \/ CommitReset(k)
      PROVE  Goal
  <2>1. /\ request[k].by \in Session /\ IsOpen(request[k].by)
        /\ StillOperates(request[k].by) /\ request[k].of # Boot
    BY <1>2 DEF Linked, CommitUpdate, CommitReset, UpdateGuard, ResetGuard
  <2>2. lock = "consumed"
    BY <2>1, OperatorConsumed
  <2>3. lock' = lock /\ user'[Boot] = user[Boot]
    BY <1>t, <1>2, <2>1 DEF CommitUpdate, CommitReset, Secure
  <2>. QED
    BY <1>c, <2>2, <2>3
<1>3. ASSUME NEW k \in Request, CommitFirstOperator(k)
      PROVE  Goal
  <2>1. request[k].of \in User \ {Boot} /\ lock = "open" /\ lock' = lock
    BY <1>3 DEF Linked, CommitFirstOperator
  <2>2. /\ user'[request[k].of] = NewAccount("OPERATOR", TRUE)
        /\ \A u \in User \ {request[k].of} : user'[u] = user[u]
    BY <1>t, <1>3, <2>1 DEF CommitFirstOperator
  <2>. QED
    BY <2>1, <2>2 DEF NewAccount, Bootstrapping, Known
<1>4. ASSUME NEW s \in Session, NEW u \in User, NEW role \in Roles, CreateUser(s, u, role)
       PROVE  Goal
  <2>1. lock = "consumed"
    BY <1>4, OperatorConsumed DEF CreateUser
  <2>2. lock' = lock /\ user'[Boot] = user[Boot]
    BY <1>t, <1>4 DEF CreateUser
  <2>. QED
    BY <1>c, <2>1, <2>2
<1>5. ASSUME NEW u \in User, OrganizationsChange(u)
       PROVE  Goal
  <2>1. /\ Bumped(user[u]).active = user[u].active /\ Bumped(user[u]).role = user[u].role
        /\ Bumped(user[u]).must = user[u].must
    BY <1>t, ChangedFields
  <2>2. /\ user'[u] = Bumped(user[u]) /\ \A v \in User \ {u} : user'[v] = user[v]
        /\ lock' = lock /\ Known(u)
    BY <1>t, <1>5 DEF OrganizationsChange, Secure
  <2>. QED
    BY <1>t, <2>1, <2>2 DEF Bootstrapping, Known
<1>6. ASSUME CreateBootstrapAccount
       PROVE  Goal
  BY <1>t, <1>6 DEF CreateBootstrapAccount, Bootstrapping, Known
<1>7. ASSUME NEW k \in Request,
              IssueAuthSuccess(k) \/ Rotate(k) \/ RevokeSessionFamily(k) \/ Abandon(k)
       PROVE  Goal
  BY <1>u, <1>7 DEF IssueAuthSuccess, Rotate, RevokeSessionFamily, Abandon
<1>8. ASSUME NEW k \in Request, NEW u \in User, Login(k, u) \/ Recover(k, u)
       PROVE  Goal
  BY <1>u, <1>8 DEF Login, Recover
<1>9. ASSUME NEW k \in Request, NEW s \in Session, ChangePassword(k, s)
       PROVE  Goal
  BY <1>u, <1>9 DEF ChangePassword
<1>10. ASSUME NEW k \in Request, NEW s \in Session, NEW n \in 1..MaxTokens, Refresh(k, s, n)
       PROVE  Goal
  BY <1>u, <1>10 DEF Refresh
<1>11. ASSUME NEW k \in Request, NEW s \in Session, NEW u \in User,
              ResetUserPassword(k, s, u) \/ CreateFirstOperator(k, s, u)
       PROVE  Goal
  BY <1>u, <1>11 DEF ResetUserPassword, CreateFirstOperator
<1>12. ASSUME NEW k \in Request, NEW s \in Session, NEW u \in User,
              NEW role \in Roles, NEW active \in BOOLEAN, UpdateUser(k, s, u, role, active)
       PROVE  Goal
  BY <1>u, <1>12 DEF UpdateUser
<1>13. ASSUME NEW s \in Session, Logout(s) \/ Expire(s)
       PROVE  Goal
  BY <1>u, <1>13 DEF Logout, Expire
<1>14. ASSUME UNCHANGED vars
       PROVE  Goal
  BY <1>u, <1>14 DEF vars
<1>. HIDE DEF Goal
<1>15. Goal
  BY <1>1, <1>2, <1>3, <1>4, <1>5, <1>6, <1>7, <1>8, <1>9, <1>10, <1>11, <1>12,
     <1>13, <1>14 DEF Next
<1>. QED
  BY <1>15 DEF Goal

\* Every step keeps the bootstrap's two phases.
LEMMA BootstrapStep ==
  TypeOK /\ Linked /\ SessionsPinned /\ Bootstrapping /\ [Next]_vars => Bootstrapping'
<1>. SUFFICES ASSUME TypeOK, Linked, SessionsPinned, Bootstrapping, [Next]_vars
              PROVE  Bootstrapping'
  OBVIOUS
<1>1. /\ lock' # "consumed" =>
           /\ lock # "consumed"
           /\ \A u \in User \ {Boot} :
                Known(u)' => user'[u].role = "OPERATOR" /\ user'[u].must
      /\ lock' = "consumed" => ~user'[Boot].active
  BY BootstrapRows
<1>2. ASSUME lock' # "consumed", NEW k \in Request,
             request'[k].does \in {"change", "recover"}, request'[k].of # Boot
      PROVE  request'[k].seen.role = "OPERATOR" /\ request'[k].seen.must
  <2>1. RequestStep(k)
    BY StepEffects
  <2>2. CASE request'[k] = request[k]
    BY <1>1, <1>2, <2>2 DEF Bootstrapping
  <2>3. CASE Read(request'[k])
    BY <1>1, <1>2, <2>3 DEF Bootstrapping, Read
  <2>. QED
    BY <1>2, <2>1, <2>2, <2>3 DEF RequestStep, Idle
<1>. QED
  BY <1>1, <1>2 DEF Bootstrapping

-----------------------------------------------------------------------------
(* Theorems.                                                                  *)

IInv ==
  /\ TypeOK
  /\ Linked
  /\ SeenPinned
  /\ SessionsPinned
  /\ Rotating
  /\ LastLive
  /\ Bootstrapping

\* The databases the Worker starts with satisfy the invariant.
LEMMA InitInv == Init => IInv
<1>. SUFFICES ASSUME Init
              PROVE  IInv
  OBVIOUS
<1>1. /\ session = [s \in Session |-> Closed]
      /\ code = [u \in User |-> "none"]
      /\ request = [k \in Request |-> Idle]
      /\ lock \in {"none", "consumed"}
  BY DEF Init
<1>2. \A s \in Session : ~IsOpen(s) /\ session[s].live = {}
  BY <1>1 DEF IsOpen, Closed
<1>3. \A k \in Request : request[k].does = "idle"
  BY <1>1 DEF Idle
<1>4. NewAccount("OPERATOR", FALSE) \in AccountRows /\ Retired \in AccountRows
  <2>1. NewAccount("OPERATOR", FALSE) \in AccountRows
    BY InsertedRows DEF Roles
  <2>. QED
    BY <2>1 DEF Retired, AccountRows
<1>5. user \in [User -> AccountRows]
  <2>1. CASE user = Fresh
    BY <2>1, InsertedRows DEF Fresh
  <2>2. CASE user = InUse
    BY <2>2, <1>4, InsertedRows DEF InUse
  <2>. QED
    BY <2>1, <2>2 DEF Init
<1>6. TypeOK
  BY <1>1, <1>5, InsertedRows, TypeRows
<1>7. Linked /\ SeenPinned /\ SessionsPinned /\ Rotating /\ LastLive
  BY <1>2, <1>3 DEF Linked, SeenPinned, SessionsPinned, Rotating, LastLive
<1>8. Bootstrapping
  <2>1. CASE user = Fresh /\ lock = "none"
    BY <1>3, <2>1, AccountAssumption DEF Bootstrapping, Fresh, Known, NoAccount
  <2>2. CASE user = InUse /\ lock = "consumed"
    <3>1. user[Boot] = Retired
      BY <2>2, AccountAssumption DEF InUse
    <3>2. ~Retired.active
      BY DEF Retired, NewAccount
    <3>. QED
      BY <2>2, <3>1, <3>2 DEF Bootstrapping
  <2>. QED
    BY <2>1, <2>2 DEF Init
<1>. QED
  BY <1>6, <1>7, <1>8 DEF IInv

\* Every step keeps the invariant.
LEMMA StepInv == IInv /\ [Next]_vars => IInv'
<1>. SUFFICES ASSUME IInv, [Next]_vars
              PROVE  IInv'
  OBVIOUS
<1>1. TypeOK' /\ Linked'
  BY TypeStep, LinkedStep DEF IInv
<1>2. SeenPinned' /\ SessionsPinned' /\ Rotating' /\ LastLive'
  BY SeenStep, SessionsPinnedStep, RotatingStep, LastLiveStep DEF IInv
<1>3. Bootstrapping'
  BY BootstrapStep DEF IInv
<1>. QED
  BY <1>1, <1>2, <1>3 DEF IInv

\* The invariant holds in every state of every behaviour.
LEMMA InductiveInvariant == Spec => []IInv
BY InitInv, StepInv, PTL DEF Spec

\* The rows and the requests stay of their types: no version, password or number
\* of a token leaves its range.
THEOREM AccountsTyped == Spec => []TypeOK
<1>1. IInv => TypeOK
  BY DEF IInv
<1>. QED
  BY <1>1, InductiveInvariant, PTL

\* A login that read the account before a change of its password opens a session
\* that is not accepted: whatever is accepted was opened with what is current.
THEOREM LoginsAreCurrent == Spec => []SessionsCurrent
<1>1. IInv => SessionsCurrent
  BY DEF IInv, SessionsPinned, SessionsCurrent
<1>. QED
  BY <1>1, InductiveInvariant, PTL

\* The first operator who sets a password ends the bootstrap for good, through
\* changePassword or recoverAccount and against every handler under way.
THEOREM BootstrapIsOver == Spec => []BootstrapEnds
<1>1. IInv => BootstrapEnds
  <2>. SUFFICES ASSUME IInv
                PROVE  BootstrapEnds
    OBVIOUS
  <2>1. (\E u \in User \ {Boot} :
            Known(u) /\ user[u].role = "OPERATOR" /\ ~user[u].must) => lock = "consumed"
    BY DEF IInv, Bootstrapping
  <2>2. ASSUME lock = "consumed"
        PROVE  /\ ~user[Boot].active
               /\ \A s \in Session : session[s].user = Boot => ~Stands(s)
    BY <2>2 DEF IInv, Bootstrapping, Stands, Standing, Account
  <2>. QED
    BY <2>1, <2>2 DEF BootstrapEnds
<1>. QED
  BY <1>1, InductiveInvariant, PTL

\* The rotation's own guard does not ask for the account, yet no token is ever
\* rotated for an account that was switched off or has moved to a later version.
THEOREM RotationsAreCurrent == Spec => RotationIsCurrent
<1>1. IInv /\ [Next]_vars =>
        [\A s \in Session :
           session'[s].issued > session[s].issued /\ IsOpen(s) =>
             Account(s).active /\ session[s].version = Account(s).version]_vars
  <2>. SUFFICES ASSUME IInv, [Next]_vars, NEW s \in Session,
                       session'[s].issued > session[s].issued, IsOpen(s)
                PROVE  Account(s).active /\ session[s].version = Account(s).version
    OBVIOUS
  <2>1. SessionStep(s) /\ session[s].issued \in Nat
    BY StepEffects DEF IInv, TypeOK
  <2>2. ~Stays(session[s], session'[s]) /\ session'[s] # session[s]
    BY <2>1 DEF Stays
  <2>3. PICK k \in Request : RotatesBy(k, s)
    BY <2>1, <2>2 DEF SessionStep, OpensBy, IsOpen
  <2>. QED
    BY <2>3 DEF RotatesBy, MayRotate, IInv, Rotating
<1>. QED
  BY <1>1, InductiveInvariant, PTL DEF Spec, RotationIsCurrent

\* What updateUser writes over is what it read, although it reads before its
\* guarded batch and the guard compares the version alone.
THEOREM UpdatesArePinned == Spec => UpdatePinned
<1>1. IInv /\ [Next]_vars =>
        [\A k \in Request :
           /\ request[k].does = "update" /\ request'[k] = Idle
           /\ user' # user
           => LET r == request[k] IN
              /\ user[r.of].role = r.seen.role /\ user[r.of].active = r.seen.active
              /\ Account(r.by).active /\ Account(r.by).role = "OPERATOR"]_vars
  <2>. SUFFICES ASSUME IInv, [Next]_vars, NEW k \in Request,
                       request[k].does = "update", request'[k] = Idle, user' # user
                PROVE  LET r == request[k] IN
                       /\ user[r.of].role = r.seen.role /\ user[r.of].active = r.seen.active
                       /\ Account(r.by).active /\ Account(r.by).role = "OPERATOR"
    OBVIOUS
  <2>1. request[k] # Idle /\ request \in [Request -> Requests]
    BY TypeRows DEF Idle, IInv
  <2>2. ASSUME NEW j \in Request, Finish(j)
        PROVE  j = k
    BY <2>1, <2>2 DEF Finish
  <2>3. CommitUpdate(k)
    <3>1. ASSUME NEW j \in Request,
                 CommitChange(j) \/ CommitRecovery(j) \/ CommitReset(j) \/ CommitFirstOperator(j)
          PROVE  FALSE
      BY <2>2, <3>1 DEF CommitChange, CommitRecovery, CommitReset, CommitFirstOperator
    <3>2. ASSUME NEW j \in Request, CommitUpdate(j)
          PROVE  CommitUpdate(k)
      BY <2>2, <3>2 DEF CommitUpdate
    <3>3. ASSUME NEW s \in Session, NEW u \in User, NEW role \in Roles, CreateUser(s, u, role)
          PROVE  FALSE
      BY <2>1, <3>3 DEF CreateUser
    <3>4. ASSUME NEW u \in User, OrganizationsChange(u)
          PROVE  FALSE
      BY <2>1, <3>4 DEF OrganizationsChange
    <3>5. ~CreateBootstrapAccount
      BY <2>1 DEF CreateBootstrapAccount
    <3>6. ASSUME NEW j \in Request,
                 \/ IssueAuthSuccess(j) \/ Rotate(j) \/ RevokeSessionFamily(j) \/ Abandon(j)
          PROVE  FALSE
      BY <3>6 DEF IssueAuthSuccess, Rotate, RevokeSessionFamily, Abandon
    <3>7. ASSUME NEW j \in Request, NEW u \in User, Login(j, u) \/ Recover(j, u)
          PROVE  FALSE
      BY <3>7 DEF Login, Recover
    <3>8. ASSUME NEW j \in Request, NEW s \in Session, ChangePassword(j, s)
          PROVE  FALSE
      BY <3>8 DEF ChangePassword
    <3>9. ASSUME NEW j \in Request, NEW s \in Session, NEW n \in 1..MaxTokens, Refresh(j, s, n)
          PROVE  FALSE
      BY <3>9 DEF Refresh
    <3>10. ASSUME NEW j \in Request, NEW s \in Session, NEW u \in User,
                  ResetUserPassword(j, s, u) \/ CreateFirstOperator(j, s, u)
           PROVE  FALSE
      BY <3>10 DEF ResetUserPassword, CreateFirstOperator
    <3>11. ASSUME NEW j \in Request, NEW s \in Session, NEW u \in User,
                  NEW role \in Roles, NEW active \in BOOLEAN, UpdateUser(j, s, u, role, active)
           PROVE  FALSE
      BY <3>11 DEF UpdateUser
    <3>12. ASSUME NEW s \in Session, Logout(s) \/ Expire(s)
           PROVE  FALSE
      BY <3>12 DEF Logout, Expire
    <3>13. ~UNCHANGED vars
      BY DEF vars
    <3>. QED
      BY <3>1, <3>2, <3>3, <3>4, <3>5, <3>6, <3>7, <3>8, <3>9, <3>10, <3>11, <3>12, <3>13
         DEF Next
  <2>4. request[k].seen = user[request[k].of]
    BY <2>3 DEF CommitUpdate, UpdateGuard, IInv, SeenPinned
  <2>. QED
    BY <2>3, <2>4 DEF CommitUpdate, UpdateGuard, StillOperates, OperatorGuard
<1>. QED
  BY <1>1, InductiveInvariant, PTL DEF Spec, UpdatePinned

-----------------------------------------------------------------------------
(* The refinement.                                                            *)

\* A step that revokes sessions issues no token.
LEMMA RevocationIssuesNone ==
  ASSUME session \in [Session -> SessionRows], NEW U, session' = RevokedOf(session, U),
         NEW s \in Session
  PROVE  session'[s].issued = session[s].issued
BY RevokedRows DEF RevokedOf, RevokedSession, SessionRows

\* A step issues a token of one session and then leaves the others alone.
LEMMA OneGrows ==
  ASSUME TypeOK, Linked, [Next]_vars, NEW s \in Session,
         session'[s].issued # session[s].issued
  PROVE  \A x \in Session \ {s} : session'[x] = session[x]
<1>. DEFINE Goal == \A x \in Session \ {s} : session'[x] = session[x]
<1>t. session \in [Session -> SessionRows]
  BY TypeRows
<1>0. session' # session
  OBVIOUS
<1>1. ASSUME NEW k \in Request, IssueAuthSuccess(k)
      PROVE  Goal
  BY <1>t, <1>1 DEF IssueAuthSuccess
<1>2. ASSUME NEW k \in Request, Rotate(k)
      PROVE  Goal
  BY <1>t, <1>2 DEF Rotate, Linked
<1>3. ASSUME NEW k \in Request, RevokeSessionFamily(k)
      PROVE  Goal
  BY <1>t, <1>3 DEF RevokeSessionFamily, RevokedSession, SessionRows
<1>4. ASSUME NEW u, NEW row, Secure(u, row)
      PROVE  Goal
  BY <1>t, <1>4, RevocationIssuesNone DEF Secure
<1>5. ASSUME NEW u, NEW row, NEW seen, SetPassword(u, row, seen)
      PROVE  Goal
  BY <1>t, <1>4, <1>5, RevocationIssuesNone DEF SetPassword
<1>6. ASSUME NEW x \in Session, Logout(x) \/ Expire(x)
      PROVE  Goal
  BY <1>t, <1>6 DEF Logout, Expire, RevokedSession, SessionRows
<1>7. ASSUME NEW k \in Request,
             CommitChange(k) \/ CommitRecovery(k) \/ CommitUpdate(k) \/ CommitReset(k)
      PROVE  Goal
  BY <1>4, <1>5, <1>7 DEF CommitChange, CommitRecovery, CommitUpdate, CommitReset
<1>8. ASSUME NEW u \in User, OrganizationsChange(u)
      PROVE  Goal
  BY <1>4, <1>8 DEF OrganizationsChange
<1>9. ASSUME NEW k \in Request, NEW x \in Session, NEW u \in User,
             \/ CommitFirstOperator(k) \/ Abandon(k) \/ Login(k, u) \/ Recover(k, u)
             \/ ChangePassword(k, x) \/ ResetUserPassword(k, x, u)
             \/ CreateFirstOperator(k, x, u) \/ CreateBootstrapAccount
      PROVE  FALSE
  BY <1>0, <1>9 DEF CommitFirstOperator, Abandon, Login, Recover, ChangePassword,
                    ResetUserPassword, CreateFirstOperator, CreateBootstrapAccount
<1>10. ASSUME NEW k \in Request, NEW x \in Session, NEW n \in 1..MaxTokens, Refresh(k, x, n)
       PROVE  FALSE
  BY <1>0, <1>10 DEF Refresh
<1>11. ASSUME NEW x \in Session, NEW u \in User, NEW role \in Roles,
              CreateUser(x, u, role) \/ \E k \in Request, active \in BOOLEAN :
                                           UpdateUser(k, x, u, role, active)
       PROVE  FALSE
  BY <1>0, <1>11 DEF CreateUser, UpdateUser
<1>12. CreateBootstrapAccount => FALSE
  BY <1>0 DEF CreateBootstrapAccount
<1>13. ~UNCHANGED vars
  BY <1>0 DEF vars
<1>. HIDE DEF Goal
<1>14. Goal
  BY <1>1, <1>2, <1>3, <1>6, <1>7, <1>8, <1>9, <1>10, <1>11, <1>12, <1>13, AccountAssumption
     DEF Next
<1>. QED
  BY <1>14 DEF Goal

\* The refresh tokens of every session are a chain whose last link alone can be
\* used, however rotations, revocations and logins overlap.
THEOREM TokensChain == Spec => ChainKept
<1>1. Init => Chain!Init
  BY DEF Init, Chain!Init, Chain!Unopened, Closed
<1>. DEFINE tokens == [s \in Session |-> [links |-> session[s].issued,
                                          usable |-> session[s].live]]
<1>2. IInv /\ [Next]_vars => [Chain!Next]_tokens
  <2>. SUFFICES ASSUME IInv, [Next]_vars
                PROVE  Chain!Next
    OBVIOUS
  <2>t. TypeOK /\ Linked /\ LastLive /\ session \in [Session -> SessionRows]
        /\ \A s \in Session : session[s].issued \in Nat
    BY TypeRows DEF IInv, TypeOK
  <2>1. ASSUME NEW s \in Session, session'[s].issued # session[s].issued
        PROVE  Chain!Next
    <3>1. \A x \in Session \ {s} : session'[x] = session[x]
      BY <2>t, <2>1, OneGrows
    <3>2. PICK k \in Request : RotatesBy(k, s) \/ OpensBy(k, s)
      BY <2>t, <2>1, StepEffects DEF SessionStep, Stays
    <3>3. CASE RotatesBy(k, s)
      <4>1. session[s].live = {session[s].issued} /\ request[k].token = session[s].issued
        BY <2>t, <3>3 DEF RotatesBy, MayRotate, LastLive
      <4>2. /\ session'[s].issued = session[s].issued + 1
            /\ session'[s].live = {session[s].issued + 1}
        BY <2>t, <3>3, <4>1 DEF RotatesBy, Rotated, SessionRows
      <4>3. Chain!Extend(s)
        BY <3>1, <4>1, <4>2 DEF Chain!Extend, Chain!UpTo
      <4>. QED
        BY <4>3 DEF Chain!Next
    <3>4. CASE OpensBy(k, s)
      <4>1. /\ session[s].issued = 0 /\ session[s].live = {}
            /\ session'[s].issued = 1 /\ session'[s].live = {1}
        BY <3>4 DEF OpensBy, Closed, Opened
      <4>2. Chain!Open(s)
        BY <3>1, <4>1 DEF Chain!Open, Chain!UpTo, Chain!Unopened
      <4>. QED
        BY <4>2 DEF Chain!Next
    <3>. QED
      BY <3>2, <3>3, <3>4
  <2>2. ASSUME \A s \in Session : session'[s].issued = session[s].issued
        PROVE  Chain!Next
    <3>. DEFINE Ended == {s \in Session : session'[s].live = {}}
    <3>1. ASSUME NEW s \in Session
          PROVE  session'[s].live \in {session[s].live, {}}
      <4>1. ASSUME NEW k \in Request, OpensBy(k, s)
            PROVE  FALSE
        BY <2>2, <4>1 DEF OpensBy, Opened, Closed
      <4>2. ASSUME NEW k \in Request, RotatesBy(k, s)
            PROVE  FALSE
        <5>1. session'[s].issued = session[s].issued + 1
          BY <2>t, <4>2 DEF RotatesBy, Rotated, SessionRows
        <5>. QED
          BY <2>t, <2>2, <5>1
      <4>. QED
        BY <2>t, <4>1, <4>2, StepEffects DEF SessionStep, Stays
    <3>2. PICK S \in SUBSET Session : S = Ended
      OBVIOUS
    <3>3. Chain!Close(S)
      BY <2>2, <3>1, <3>2 DEF Chain!Close
    <3>. QED
      BY <3>3 DEF Chain!Next
  <2>. QED
    BY <2>1, <2>2
<1>. QED
  BY <1>1, <1>2, InductiveInvariant, PTL DEF Spec, ChainKept, Chain!Spec

=============================================================================
