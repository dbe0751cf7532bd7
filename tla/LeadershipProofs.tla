--------------------------- MODULE LeadershipProofs ---------------------------
(* Proofs about OrganizationLeadership, for every value of its constants.      *)
EXTENDS OrganizationLeadership, TLAPS

\* What a handler holds names rows, and a replacement names two accounts.
Linked ==
  \A k \in Request :
    LET r == request[k] IN
    /\ r.does \in {"user", "login"} => r.of \in User
    /\ r.does \in {"organization", "replace"} => r.org \in Organization
    /\ r.does = "replace" => r.of # r.leader

\* An organization has one primary leader at most.
OneLeader ==
  \A o \in Organization : \A u, v \in User :
    assigned[u][o] = "PRIMARY" /\ assigned[v][o] = "PRIMARY" => u = v

\* A login that read the account at the version it still has, read the
\* assignments it still has.
LoginsSeen ==
  \A k \in Request :
    LET r == request[k]  a == account[r.of] IN
    r.does = "login" =>
      /\ a.exists
      /\ r.seen.version <= a.version
      /\ r.seen.version = a.version => r.with = assigned[r.of]

\* The same of a session that is not revoked.
SessionsSeen ==
  \A s \in Session :
    LET u == session[s].user IN
    ~session[s].revoked =>
      /\ u \in User /\ account[u].exists
      /\ session[s].version <= account[u].version
      /\ session[s].version = account[u].version => scope[s] = assigned[u]

IInv ==
  /\ TypeOK /\ Linked
  /\ OperatorsUnassigned
  /\ OneLeader
  /\ LoginsSeen /\ SessionsSeen

-----------------------------------------------------------------------------
(* What the statements write.                                                 *)

\* The row of a session opened by a login.
LEMMA OpenedRow ==
  ASSUME NEW u \in User \union {None}, NEW a \in AccountRows
  PROVE  /\ Opened(u, a) \in SessionRows
         /\ Opened(u, a).user = u /\ Opened(u, a).version = a.version
BY DEF Opened, SessionRows, AccountRows, Kinds

\* The rows that are inserted are rows.
LEMMA InsertedRows ==
  /\ NoAccount \in AccountRows
  /\ \A must \in BOOLEAN : NewAccount("MANAGER", must) \in AccountRows
  /\ Absent \in OrganizationRows
  /\ \A n \in Name : Created(n) \in OrganizationRows
  /\ Unassigned \in Scopes
  /\ Closed \in SessionRows /\ Closed.revoked
  /\ Idle \in Requests
<1>1. 0 \in 0..MaxVersion /\ 1 \in 0..MaxVersion
  BY LeadershipAssumption
<1>2. NoAccount \in AccountRows
  BY <1>1 DEF NoAccount, AccountRows, Roles
<1>3. \A must \in BOOLEAN : NewAccount("MANAGER", must) \in AccountRows
  BY <1>1 DEF NewAccount, AccountRows, Roles
<1>4. Absent \in OrganizationRows /\ \A n \in Name : Created(n) \in OrganizationRows
  BY DEF Absent, Created, OrganizationRows
<1>5. Unassigned \in Scopes
  BY DEF Unassigned, Scopes, Assignments
<1>6. Closed \in SessionRows /\ Closed.revoked
  <2>. DEFINE x == Opened(None, NoAccount)
  <2>1. x \in SessionRows
    BY <1>2, OpenedRow
  <2>2. Closed = [x EXCEPT !.revoked = TRUE]
    BY DEF Closed
  <2>. HIDE DEF x
  <2>. QED
    BY <2>1, <2>2 DEF SessionRows
<1>7. Idle \in Requests
  BY <1>2, <1>4, <1>5 DEF Idle, Requests, Roles
<1>. QED
  BY <1>2, <1>3, <1>4, <1>5, <1>6, <1>7

\* An account moved to the next version is the account otherwise.
LEMMA BumpedRow ==
  ASSUME NEW a \in AccountRows, a.version < MaxVersion
  PROVE  /\ Bumped(a) \in AccountRows
         /\ Bumped(a).version = a.version + 1
         /\ Bumped(a).exists = a.exists /\ Bumped(a).role = a.role
<1>1. a.version + 1 \in 0..MaxVersion
  BY LeadershipAssumption DEF AccountRows
<1>. QED
  BY <1>1 DEF Bumped, AccountRows

\* An account with another role or activity exists as before, at this version or
\* the next.
LEMMA UpdatedRow ==
  ASSUME NEW a \in AccountRows, a.version < MaxVersion,
         NEW role \in Roles, NEW active \in BOOLEAN
  PROVE  LET b == Updated(a, role, active)
         IN /\ b \in AccountRows
            /\ b.version >= a.version
            /\ b.exists = a.exists /\ b.role = role
<1>. DEFINE v == IF role # a.role \/ active # a.active THEN a.version + 1 ELSE a.version
<1>1. v \in 0..MaxVersion /\ v >= a.version
  BY LeadershipAssumption DEF AccountRows
<1>2. Updated(a, role, active) = [a EXCEPT !.role = role, !.active = active, !.version = v]
  BY DEF Updated
<1>. HIDE DEF v
<1>. QED
  BY <1>1, <1>2 DEF AccountRows

\* After a revocation each session is revoked or what it was.
LEMMA Revocation ==
  ASSUME TypeOK, NEW U, RevokeUserSessions(U)
  PROVE  /\ session' \in [Session -> SessionRows] /\ scope' \in [Session -> Scopes]
         /\ \A s \in Session : \/ session'[s].revoked
                               \/ session'[s] = session[s] /\ scope'[s] = scope[s]
BY InsertedRows DEF TypeOK, RevokeUserSessions

\* A change of assignments moves the version of the accounts it names.
LEMMA ScopesChange ==
  ASSUME TypeOK, NEW U \in SUBSET User, ChangeScopes(U)
  PROVE  /\ account' \in [User -> AccountRows]
         /\ RevokeUserSessions(U)
         /\ \A u \in User :
              /\ account'[u].exists = account[u].exists
              /\ account'[u].role = account[u].role
              /\ account'[u].version >= account[u].version
              /\ u \in U => account'[u].version > account[u].version
<1>1. ASSUME NEW u \in User
      PROVE  /\ account'[u] \in AccountRows
             /\ account'[u].exists = account[u].exists
             /\ account'[u].role = account[u].role
             /\ account'[u].version >= account[u].version
             /\ u \in U => account'[u].version > account[u].version
  <2>1. account[u] \in AccountRows /\ account[u].version \in Nat
    BY DEF TypeOK, AccountRows
  <2>2. CASE u \in U
    <3>1. account'[u] = Bumped(account[u]) /\ account[u].version < MaxVersion
      BY <2>2 DEF ChangeScopes, Room
    <3>. QED
      BY <2>1, <3>1, BumpedRow
  <2>3. CASE u \notin U
    <3>1. account'[u] = account[u]
      BY <2>3 DEF ChangeScopes
    <3>. QED
      BY <2>1, <2>3, <3>1
  <2>. QED
    BY <2>2, <2>3
<1>2. account' = [u \in User |-> account'[u]]
  BY DEF ChangeScopes
<1>. QED
  BY <1>1, <1>2 DEF ChangeScopes

-----------------------------------------------------------------------------
(* What a step does to one account, one session and one handler.              *)

AccountStep(u) ==
  account[u].exists =>
    /\ account'[u].exists
    /\ account'[u].version >= account[u].version
    /\ assigned'[u] # assigned[u] => account'[u].version > account[u].version

\* A session is opened from what the login holds, and nothing else moves then.
SessionStep(s) ==
  \/ session'[s].revoked
  \/ session'[s] = session[s] /\ scope'[s] = scope[s]
  \/ \E k \in Request :
       /\ request[k].does = "login"
       /\ session'[s] = Opened(request[k].of, request[k].seen)
       /\ scope'[s] = request[k].with
       /\ UNCHANGED <<account, assigned>>

\* A handler goes on with what it holds, ends, or has just read.
RequestStep(k) ==
  LET r == request'[k] IN
  \/ r = request[k]
  \/ r = Idle
  \/ /\ UNCHANGED <<account, assigned>>
     /\ r.does \in {"organization", "replace", "user", "login"}
     /\ r.does \in {"user", "login"} =>
          r.of \in User /\ account[r.of].exists
     /\ r.does \in {"organization", "replace"} => r.org \in Organization
     /\ r.does = "replace" => r.of # r.leader
     /\ r.does = "login" => r.seen = account[r.of] /\ r.with = assigned[r.of]

Reads(k) ==
  \/ \E o \in Organization :
       \/ RestoreOrganization(k, o)
       \/ \E n \in Name : DeleteOrganization(k, o, n)
       \/ \E n \in Name, active \in BOOLEAN : UpdateOrganization(k, o, n, active)
       \/ \E expected, target \in User \union {None}, keep \in BOOLEAN :
            ReplacePrimary(k, o, expected, target, keep)
  \/ \E u \in User, role \in Roles, active \in BOOLEAN : UpdateUser(k, u, role, active)
  \/ \E u \in User : Login(k, u)

\* A handler that reads changes nothing but what it holds, and holds what it read.
LEMMA ReadStep ==
  ASSUME TypeOK, NEW k \in Request, Reads(k)
  PROVE  /\ UNCHANGED <<account, organization, assigned, session, scope>>
         /\ request[k] = Idle
         /\ request' \in [Request -> Requests]
         /\ \A j \in Request : RequestStep(j)
<1>. DEFINE Read(r) ==
       /\ request[k] = Idle
       /\ request' = [request EXCEPT ![k] = r]
       /\ UNCHANGED <<account, organization, assigned, session, scope>>
       /\ r \in Requests
       /\ r.does \in {"organization", "replace", "user", "login"}
       /\ r.does \in {"user", "login"} => r.of \in User /\ account[r.of].exists
       /\ r.does \in {"organization", "replace"} => r.org \in Organization
       /\ r.does = "replace" => r.of # r.leader
       /\ r.does = "login" => r.seen = account[r.of] /\ r.with = assigned[r.of]
<1>1. ASSUME NEW o \in Organization, NEW to \in OrganizationRows,
             Hold(k, [Idle EXCEPT !.does = "organization", !.org = o,
                                  !.was = organization[o], !.to = to]),
             UNCHANGED <<account, organization, assigned, session, scope>>
      PROVE  \E r : Read(r)
  <2>. DEFINE q == [Idle EXCEPT !.does = "organization", !.org = o,
                                !.was = organization[o], !.to = to]
  <2>1. q \in Requests /\ q.does = "organization" /\ q.org = o
    BY <1>1, InsertedRows DEF TypeOK, Requests
  <2>2. request[k] = Idle /\ request' = [request EXCEPT ![k] = q]
    BY <1>1 DEF Hold
  <2>. HIDE DEF q
  <2>3. Read(q)
    BY <1>1, <2>1, <2>2
  <2>. QED
    BY <2>3
<1>2. ASSUME NEW o \in Organization, RestoreOrganization(k, o)
      PROVE  \E r : Read(r)
  <2>. DEFINE to == [organization[o] EXCEPT !.deleted = FALSE]
  <2>1. to \in OrganizationRows
    BY DEF TypeOK, OrganizationRows
  <2>2. /\ Hold(k, [Idle EXCEPT !.does = "organization", !.org = o,
                                !.was = organization[o], !.to = to])
        /\ UNCHANGED <<account, organization, assigned, session, scope>>
    BY <1>2 DEF RestoreOrganization
  <2>. HIDE DEF to
  <2>. QED
    BY <1>1, <2>1, <2>2
<1>3. ASSUME NEW o \in Organization, NEW n \in Name, DeleteOrganization(k, o, n)
      PROVE  \E r : Read(r)
  <2>. DEFINE to == [organization[o] EXCEPT !.active = FALSE, !.deleted = TRUE]
  <2>1. to \in OrganizationRows
    BY DEF TypeOK, OrganizationRows
  <2>2. /\ Hold(k, [Idle EXCEPT !.does = "organization", !.org = o,
                                !.was = organization[o], !.to = to])
        /\ UNCHANGED <<account, organization, assigned, session, scope>>
    BY <1>3 DEF DeleteOrganization
  <2>. HIDE DEF to
  <2>. QED
    BY <1>1, <2>1, <2>2
<1>4. ASSUME NEW o \in Organization, NEW n \in Name, NEW active \in BOOLEAN,
             UpdateOrganization(k, o, n, active)
      PROVE  \E r : Read(r)
  <2>. DEFINE to == [organization[o] EXCEPT !.name = n, !.active = active]
  <2>1. to \in OrganizationRows
    BY DEF TypeOK, OrganizationRows
  <2>2. /\ Hold(k, [Idle EXCEPT !.does = "organization", !.org = o,
                                !.was = organization[o], !.to = to])
        /\ UNCHANGED <<account, organization, assigned, session, scope>>
    BY <1>4 DEF UpdateOrganization
  <2>. HIDE DEF to
  <2>. QED
    BY <1>1, <2>1, <2>2
<1>5. ASSUME NEW o \in Organization, NEW expected \in User \union {None},
             NEW target \in User \union {None}, NEW keep \in BOOLEAN,
             ReplacePrimary(k, o, expected, target, keep)
      PROVE  \E r : Read(r)
  <2>. DEFINE q == [Idle EXCEPT !.does = "replace", !.org = o, !.leader = expected,
                                !.of = target, !.keep = keep]
  <2>1. /\ q \in Requests /\ q.does = "replace" /\ q.org = o
        /\ q.of = target /\ q.leader = expected
    BY InsertedRows DEF Requests
  <2>2. /\ request[k] = Idle /\ request' = [request EXCEPT ![k] = q]
        /\ UNCHANGED <<account, organization, assigned, session, scope>>
        /\ target # expected
    BY <1>5 DEF ReplacePrimary, Hold
  <2>. HIDE DEF q
  <2>3. Read(q)
    BY <2>1, <2>2
  <2>. QED
    BY <2>3
<1>6. ASSUME NEW u \in User, NEW role \in Roles, NEW active \in BOOLEAN,
             UpdateUser(k, u, role, active)
      PROVE  \E r : Read(r)
  <2>. DEFINE q == [Idle EXCEPT !.does = "user", !.of = u, !.seen = account[u],
                                !.role = role, !.active = active]
  <2>1. q \in Requests /\ q.does = "user" /\ q.of = u
    BY InsertedRows DEF TypeOK, Requests
  <2>2. /\ request[k] = Idle /\ request' = [request EXCEPT ![k] = q]
        /\ UNCHANGED <<account, organization, assigned, session, scope>>
        /\ account[u].exists
    BY <1>6 DEF UpdateUser, Hold
  <2>. HIDE DEF q
  <2>3. Read(q)
    BY <2>1, <2>2
  <2>. QED
    BY <2>3
<1>7. ASSUME NEW u \in User, Login(k, u)
      PROVE  \E r : Read(r)
  <2>. DEFINE q == [Idle EXCEPT !.does = "login", !.of = u, !.seen = account[u],
                                !.with = assigned[u]]
  <2>1. /\ q \in Requests /\ q.does = "login" /\ q.of = u
        /\ q.seen = account[u] /\ q.with = assigned[u]
    BY InsertedRows DEF TypeOK, Requests
  <2>2. /\ request[k] = Idle /\ request' = [request EXCEPT ![k] = q]
        /\ UNCHANGED <<account, organization, assigned, session, scope>>
        /\ account[u].exists
    BY <1>7 DEF Login, Hold
  <2>. HIDE DEF q
  <2>3. Read(q)
    BY <2>1, <2>2
  <2>. QED
    BY <2>3
<1>8. PICK r : Read(r)
  BY <1>2, <1>3, <1>4, <1>5, <1>6, <1>7 DEF Reads
<1>9. request' \in [Request -> Requests]
  BY <1>8 DEF TypeOK
<1>10. ASSUME NEW j \in Request
       PROVE  RequestStep(j)
  <2>1. CASE j = k
    <3>1. request'[j] = r
      BY <1>8, <2>1 DEF TypeOK
    <3>. QED
      BY <1>8, <3>1 DEF RequestStep
  <2>2. CASE j # k
    <3>1. request'[j] = request[j]
      BY <1>8, <2>2 DEF TypeOK
    <3>. QED
      BY <3>1 DEF RequestStep
  <2>. QED
    BY <2>1, <2>2
<1>. QED
  BY <1>8, <1>9, <1>10

\* What a step leaves: rows of their types, no operator with an assignment, one
\* leader, and accounts, sessions and handlers that have moved as above.
Kept ==
  /\ TypeOK'
  /\ OperatorsUnassigned'
  /\ OneLeader'
  /\ \A u \in User : AccountStep(u)
  /\ \A s \in Session : SessionStep(s)
  /\ \A k \in Request : RequestStep(k)

\* Nothing moves for who did not take part.
LEMMA Unmoved ==
  /\ TypeOK /\ UNCHANGED <<account, assigned>> => \A u \in User : AccountStep(u)
  /\ UNCHANGED <<session, scope>> => \A s \in Session : SessionStep(s)
  /\ UNCHANGED request => \A k \in Request : RequestStep(k)
<1>1. ASSUME TypeOK, UNCHANGED <<account, assigned>>, NEW u \in User
      PROVE  AccountStep(u)
  <2>1. account[u].version \in Nat
    BY <1>1 DEF TypeOK, AccountRows
  <2>. QED
    BY <1>1, <2>1 DEF AccountStep
<1>. QED
  BY <1>1 DEF SessionStep, RequestStep

\* A handler that ends.
LEMMA Finished ==
  ASSUME TypeOK, NEW k \in Request, Finish(k)
  PROVE  /\ request' \in [Request -> Requests]
         /\ \A j \in Request : RequestStep(j)
BY InsertedRows DEF TypeOK, Finish, RequestStep

\* One assignment set: what becomes of the two invariants of the assignments.
LEMMA OneAssignment ==
  ASSUME TypeOK, OperatorsUnassigned, OneLeader,
         NEW o \in Organization, NEW v \in User, NEW role \in Assignments,
         assigned' = [assigned EXCEPT ![v][o] = role],
         account'[v].role = "MANAGER",
         \A u \in User \ {v} : account'[u].role = account[u].role,
         role = "PRIMARY" => Leaders(o) = {}
  PROVE  /\ assigned' \in [User -> Scopes]
         /\ OperatorsUnassigned' /\ OneLeader'
         /\ \A u \in User : u # v => assigned'[u] = assigned[u]
<1>1. /\ assigned' \in [User -> Scopes]
      /\ \A u \in User : u # v => assigned'[u] = assigned[u]
      /\ \A p \in Organization : p # o => assigned'[v][p] = assigned[v][p]
      /\ assigned'[v][o] = role
  BY DEF TypeOK, Scopes
<1>2. OperatorsUnassigned'
  BY <1>1 DEF OperatorsUnassigned
<1>3. OneLeader'
  BY <1>1 DEF OneLeader, Leaders
<1>. QED
  BY <1>1, <1>2, <1>3

\* CreateOrganization and CommitOrganization: nothing of the accounts moves.
LEMMA OrganizationSteps ==
  ASSUME IInv
  PROVE  /\ \A o \in Organization, n \in Name : CreateOrganization(o, n) => Kept
         /\ \A k \in Request : CommitOrganization(k) => Kept
<1>1. ASSUME NEW o \in Organization, NEW n \in Name, CreateOrganization(o, n)
      PROVE  Kept
  <2>1. organization' \in [Organization -> OrganizationRows]
    BY <1>1, InsertedRows DEF CreateOrganization, IInv, TypeOK
  <2>2. UNCHANGED <<account, assigned, session, scope, request>>
    BY <1>1 DEF CreateOrganization
  <2>. QED
    BY <2>1, <2>2, Unmoved DEF IInv, Kept, TypeOK, OperatorsUnassigned, OneLeader
<1>2. ASSUME NEW k \in Request, CommitOrganization(k)
      PROVE  Kept
  <2>1. organization' \in [Organization -> OrganizationRows]
    BY <1>2 DEF CommitOrganization, IInv, TypeOK, Requests
  <2>2. UNCHANGED <<account, assigned, session, scope>> /\ Finish(k)
    BY <1>2 DEF CommitOrganization
  <2>3. /\ request' \in [Request -> Requests]
        /\ \A j \in Request : RequestStep(j)
    BY <2>2, Finished DEF IInv
  <2>. QED
    BY <2>1, <2>2, <2>3, Unmoved DEF IInv, Kept, TypeOK, OperatorsUnassigned, OneLeader
<1>. QED
  BY <1>1, <1>2

\* The account made with its assignment.
LEMMA AssignNewStep ==
  ASSUME IInv, NEW o \in Organization, NEW v \in User, NEW role \in {"PRIMARY", "MANAGER"},
         AssignNew(o, v, role)
  PROVE  Kept
<1>. USE DEF IInv
<1>1. account' = [account EXCEPT ![v] = NewAccount("MANAGER", TRUE)]
  BY DEF AssignNew
<1>2. /\ account' \in [User -> AccountRows]
      /\ account'[v].role = "MANAGER"
      /\ \A u \in User : u # v => account'[u] = account[u]
  BY <1>1, InsertedRows DEF TypeOK, NewAccount
<1>3. /\ assigned' = [assigned EXCEPT ![v][o] = role] /\ role \in Assignments
      /\ role = "PRIMARY" => Leaders(o) = {}
      /\ UNCHANGED <<organization, session, scope, request>>
      /\ ~account[v].exists
  BY DEF AssignNew, Assignments
<1>4. /\ assigned' \in [User -> Scopes]
      /\ OperatorsUnassigned' /\ OneLeader'
      /\ \A u \in User : u # v => assigned'[u] = assigned[u]
  BY <1>2, <1>3, OneAssignment
<1>5. ASSUME NEW u \in User
      PROVE  AccountStep(u)
  <2>1. account[u].version \in Nat
    BY DEF TypeOK, AccountRows
  <2>. QED
    BY <2>1, <1>2, <1>3, <1>4 DEF AccountStep
<1>6. TypeOK'
  BY <1>2, <1>3, <1>4 DEF TypeOK
<1>. QED
  BY <1>3, <1>4, <1>5, <1>6, Unmoved DEF Kept

\* An existing account assigned, or its assignment taken away.
LEMMA ReassignStep ==
  ASSUME IInv, NEW o \in Organization, NEW v \in User, NEW role \in Assignments,
         account[v].role = "MANAGER",
         role = "PRIMARY" => Leaders(o) = {},
         assigned' = [assigned EXCEPT ![v][o] = role],
         ChangeScopes({v}),
         UNCHANGED <<organization, request>>
  PROVE  Kept
<1>. USE DEF IInv
<1>1. /\ account' \in [User -> AccountRows]
      /\ RevokeUserSessions({v})
      /\ \A u \in User :
           /\ account'[u].exists = account[u].exists
           /\ account'[u].role = account[u].role
           /\ account'[u].version >= account[u].version
           /\ u = v => account'[u].version > account[u].version
  BY ScopesChange
<1>2. /\ session' \in [Session -> SessionRows] /\ scope' \in [Session -> Scopes]
      /\ \A s \in Session : SessionStep(s)
  BY <1>1, Revocation DEF SessionStep
<1>3. /\ assigned' \in [User -> Scopes]
      /\ OperatorsUnassigned' /\ OneLeader'
      /\ \A u \in User : u # v => assigned'[u] = assigned[u]
  BY <1>1, OneAssignment
<1>4. \A u \in User : AccountStep(u)
  BY <1>1, <1>3 DEF AccountStep
<1>5. TypeOK'
  BY <1>1, <1>2, <1>3 DEF TypeOK
<1>. QED
  BY <1>2, <1>3, <1>4, <1>5, Unmoved DEF Kept

\* A replacement moves the two accounts it names, and only their assignments.
LEMMA ReplaceStep ==
  ASSUME IInv, NEW k \in Request, CommitReplace(k)
  PROVE  /\ Kept
         /\ LET r == request[k] IN
            /\ Leaders(r.org) = {r.leader} \ {None}
            /\ {u \in User : assigned'[u][r.org] = "PRIMARY"} = {r.of} \ {None}
            /\ r.leader # None =>
                 assigned'[r.leader][r.org] = IF r.keep THEN "MANAGER" ELSE None
<1>. USE DEF IInv
<1>. DEFINE r == request[k]
            o == r.org
            U == {r.leader, r.of} \ {None}
<1>1. /\ r.does = "replace" /\ ReplaceGuard(r)
      /\ assigned' = Replaced(r)
      /\ ChangeScopes(U)
      /\ Finish(k)
      /\ UNCHANGED organization
  BY DEF CommitReplace
<1>2. /\ o \in Organization /\ r.of # r.leader
      /\ r.of \in User \union {None} /\ r.leader \in User \union {None}
      /\ r.keep \in BOOLEAN
  BY <1>1 DEF TypeOK, Requests, Linked
<1>3. U \in SUBSET User
  BY <1>2
<1>. HIDE DEF r
<1>4. /\ account' \in [User -> AccountRows]
      /\ RevokeUserSessions(U)
      /\ \A u \in User :
           /\ account'[u].exists = account[u].exists
           /\ account'[u].role = account[u].role
           /\ account'[u].version >= account[u].version
           /\ u \in U => account'[u].version > account[u].version
  BY <1>1, <1>3, ScopesChange
<1>5. /\ session' \in [Session -> SessionRows] /\ scope' \in [Session -> Scopes]
      /\ \A s \in Session : SessionStep(s)
  BY <1>4, Revocation DEF SessionStep
<1>6. /\ request' \in [Request -> Requests]
      /\ \A j \in Request : RequestStep(j)
  BY <1>1, Finished
<1>7. Leaders(o) = {r.leader} \ {None}
  <2>1. Leader(o) = r.leader
    BY <1>1 DEF ReplaceGuard
  <2>2. CASE Leaders(o) = {}
    <3>1. r.leader = None
      BY <2>1, <2>2 DEF Leader
    <3>. QED
      BY <2>2, <3>1
  <2>3. CASE Leaders(o) # {}
    <3>1. r.leader \in Leaders(o)
      BY <2>1, <2>3 DEF Leader
    <3>2. \A u \in Leaders(o) : u = r.leader
      BY <1>2, <3>1 DEF OneLeader, Leaders
    <3>3. r.leader # None
      BY <3>1, LeadershipAssumption DEF Leaders, None
    <3>. QED
      BY <3>1, <3>2, <3>3
  <2>. QED
    BY <2>2, <2>3
<1>8. r.of # None => assigned[r.of][o] = "MANAGER" /\ account[r.of].role = "MANAGER"
  BY <1>1 DEF ReplaceGuard, Assignable
<1>9. \A u \in User :
        assigned'[u] = IF u = r.leader /\ assigned[u][o] = "PRIMARY"
                       THEN [assigned[u] EXCEPT ![o] = IF r.keep THEN "MANAGER" ELSE None]
                       ELSE IF u = r.of /\ assigned[u][o] = "MANAGER"
                       THEN [assigned[u] EXCEPT ![o] = "PRIMARY"]
                       ELSE assigned[u]
  BY <1>1 DEF Replaced
<1>10. ASSUME NEW u \in User
       PROVE  /\ assigned[u] \in Scopes /\ assigned'[u] \in Scopes
              /\ u \notin U => assigned'[u] = assigned[u]
              /\ \A p \in Organization \ {o} : assigned'[u][p] = assigned[u][p]
              /\ assigned'[u][o] = "PRIMARY" <=> u = r.of
              /\ u = r.leader => assigned'[u][o] = IF r.keep THEN "MANAGER" ELSE None
              /\ u \in U => assigned[u] # Unassigned
  <2>1. assigned[u] \in Scopes /\ u # None
    BY LeadershipAssumption DEF TypeOK, None
  <2>2. assigned[u][o] = "PRIMARY" <=> u = r.leader
    BY <1>7, <2>1 DEF Leaders
  <2>3. CASE u = r.leader
    <3>1. assigned'[u] = [assigned[u] EXCEPT ![o] = IF r.keep THEN "MANAGER" ELSE None]
      BY <1>9, <2>2, <2>3
    <3>2. assigned[u] # Unassigned
      BY <1>2, <2>2, <2>3 DEF Unassigned, None
    <3>. QED
      BY <1>2, <2>1, <2>3, <3>1, <3>2 DEF Scopes, Assignments, None
  <2>4. CASE u = r.of
    <3>1. assigned'[u] = [assigned[u] EXCEPT ![o] = "PRIMARY"] /\ assigned[u][o] = "MANAGER"
      BY <1>2, <1>8, <1>9, <2>1, <2>4
    <3>2. assigned[u] # Unassigned
      BY <1>2, <3>1 DEF Unassigned, None
    <3>. QED
      BY <1>2, <2>1, <2>4, <3>1, <3>2 DEF Scopes, Assignments
  <2>5. CASE u # r.leader /\ u # r.of
    <3>1. assigned'[u] = assigned[u]
      BY <1>9, <2>5
    <3>. QED
      BY <2>1, <2>2, <2>5, <3>1
  <2>. QED
    BY <2>3, <2>4, <2>5
<1>11. assigned' \in [User -> Scopes]
  <2>1. assigned' = [u \in User |-> assigned'[u]]
    BY <1>1 DEF Replaced
  <2>. QED
    BY <1>10, <2>1
<1>12. OperatorsUnassigned'
  <2>. SUFFICES ASSUME NEW u \in User, account'[u].role = "OPERATOR"
                PROVE  assigned'[u] = Unassigned
    BY DEF OperatorsUnassigned
  <2>1. assigned[u] = Unassigned
    BY <1>4 DEF OperatorsUnassigned
  <2>. QED
    BY <1>10, <2>1
<1>13. OneLeader'
  <2>. SUFFICES ASSUME NEW p \in Organization, NEW u \in User, NEW v \in User,
                       assigned'[u][p] = "PRIMARY", assigned'[v][p] = "PRIMARY"
                PROVE  u = v
    BY DEF OneLeader
  <2>1. CASE p = o
    BY <1>10, <2>1
  <2>2. CASE p # o
    BY <1>10, <2>2 DEF OneLeader
  <2>. QED
    BY <2>1, <2>2
<1>14. \A u \in User : AccountStep(u)
  BY <1>4, <1>10 DEF AccountStep
<1>15. TypeOK'
  BY <1>1, <1>4, <1>5, <1>6, <1>11 DEF TypeOK
<1>16. Kept
  BY <1>5, <1>6, <1>12, <1>13, <1>14, <1>15 DEF Kept
<1>17. {u \in User : assigned'[u][o] = "PRIMARY"} = {r.of} \ {None}
  BY <1>2, <1>10, LeadershipAssumption DEF None
<1>18. r.leader # None => assigned'[r.leader][o] = IF r.keep THEN "MANAGER" ELSE None
  BY <1>2, <1>10
<1>. QED
  BY <1>7, <1>16, <1>17, <1>18 DEF r

\* A role or activity changed: whoever becomes an operator has no assignment.
LEMMA CommitUserStep ==
  ASSUME IInv, NEW k \in Request, CommitUser(k)
  PROVE  Kept
<1>. USE DEF IInv
<1>. DEFINE r == request[k]
<1>1. /\ r.of \in User /\ r.role \in Roles /\ r.active \in BOOLEAN
      /\ account[r.of] \in AccountRows /\ account[r.of].version < MaxVersion
      /\ r.role = "OPERATOR" => assigned[r.of] = Unassigned
      /\ account' = [account EXCEPT ![r.of] = Updated(@, r.role, r.active)]
      /\ RevokeUserSessions({r.of})
      /\ Finish(k)
      /\ UNCHANGED <<organization, assigned>>
  BY DEF CommitUser, TypeOK, Requests, Linked, Room
<1>. HIDE DEF r
<1>2. /\ account' \in [User -> AccountRows]
      /\ \A u \in User : u # r.of => account'[u] = account[u]
      /\ account'[r.of].exists = account[r.of].exists
      /\ account'[r.of].version >= account[r.of].version
      /\ account'[r.of].role = r.role
  <2>. DEFINE b == Updated(account[r.of], r.role, r.active)
  <2>1. /\ b \in AccountRows /\ b.version >= account[r.of].version
        /\ b.exists = account[r.of].exists /\ b.role = r.role
    BY <1>1, UpdatedRow
  <2>2. account' = [account EXCEPT ![r.of] = b]
    BY <1>1
  <2>. HIDE DEF b
  <2>. QED
    BY <1>1, <2>1, <2>2 DEF TypeOK
<1>3. /\ session' \in [Session -> SessionRows] /\ scope' \in [Session -> Scopes]
      /\ \A s \in Session : SessionStep(s)
  BY <1>1, Revocation DEF SessionStep
<1>4. /\ request' \in [Request -> Requests]
      /\ \A j \in Request : RequestStep(j)
  BY <1>1, Finished
<1>5. OperatorsUnassigned' /\ OneLeader'
  BY <1>1, <1>2 DEF OperatorsUnassigned, OneLeader
<1>6. ASSUME NEW u \in User
      PROVE  AccountStep(u)
  <2>1. account[u].version \in Nat
    BY DEF TypeOK, AccountRows
  <2>. QED
    BY <1>1, <1>2, <2>1 DEF AccountStep
<1>7. TypeOK'
  BY <1>1, <1>2, <1>3, <1>4 DEF TypeOK
<1>. QED
  BY <1>3, <1>4, <1>5, <1>6, <1>7 DEF Kept

\* The session inserted after a login.
LEMMA IssueStep ==
  ASSUME IInv, NEW k \in Request, NEW t \in Session, IssueAuthSuccess(k, t)
  PROVE  Kept
<1>. USE DEF IInv
<1>. DEFINE r == request[k]
            x == Opened(r.of, r.seen)
<1>1. /\ r.does = "login" /\ r.of \in User /\ r.seen \in AccountRows /\ r.with \in Scopes
      /\ session' = [session EXCEPT ![t] = x]
      /\ scope' = [scope EXCEPT ![t] = r.with]
      /\ Finish(k)
      /\ UNCHANGED <<account, organization, assigned>>
  BY DEF IssueAuthSuccess, TypeOK, Requests, Linked
<1>2. x \in SessionRows
  BY <1>1, OpenedRow
<1>. HIDE DEF x
<1>3. /\ session' \in [Session -> SessionRows] /\ scope' \in [Session -> Scopes]
      /\ session'[t] = x /\ scope'[t] = r.with
      /\ \A s \in Session : s # t => session'[s] = session[s] /\ scope'[s] = scope[s]
  BY <1>1, <1>2 DEF TypeOK
<1>4. \A s \in Session : SessionStep(s)
  BY <1>1, <1>3 DEF SessionStep, x
<1>5. /\ request' \in [Request -> Requests]
      /\ \A j \in Request : RequestStep(j)
  BY <1>1, Finished
<1>6. TypeOK' /\ OperatorsUnassigned' /\ OneLeader'
  BY <1>1, <1>3, <1>5 DEF TypeOK, OperatorsUnassigned, OneLeader
<1>. QED
  BY <1>1, <1>4, <1>5, <1>6, Unmoved DEF Kept

LEMMA NextStep ==
  ASSUME IInv, [Next]_vars
  PROVE  Kept
<1>. USE DEF IInv
<1>1. ASSUME NEW o \in Organization, NEW u \in User, RemoveManager(o, u)
      PROVE  Kept
  <2>1. account[u].role = "MANAGER"
    <3>1. assigned[u] # Unassigned
      BY <1>1 DEF RemoveManager, Unassigned, None
    <3>2. account[u].role \in Roles
      BY DEF TypeOK, AccountRows
    <3>. QED
      BY <3>1, <3>2 DEF OperatorsUnassigned, Roles
  <2>2. /\ assigned' = [assigned EXCEPT ![u][o] = None] /\ None \in Assignments
        /\ ChangeScopes({u}) /\ UNCHANGED <<organization, request>>
    BY <1>1 DEF RemoveManager, Assignments
  <2>. QED
    BY <2>1, <2>2, ReassignStep DEF None
<1>2. ASSUME NEW o \in Organization, NEW u \in User, NEW role \in {"PRIMARY", "MANAGER"},
             AssignExisting(o, u, role)
      PROVE  Kept
  <2>1. /\ assigned' = [assigned EXCEPT ![u][o] = role] /\ role \in Assignments
        /\ account[u].role = "MANAGER"
        /\ role = "PRIMARY" => Leaders(o) = {}
        /\ ChangeScopes({u}) /\ UNCHANGED <<organization, request>>
    BY <1>2 DEF AssignExisting, Assignable, Assignments
  <2>. QED
    BY <2>1, ReassignStep
<1>3. ASSUME NEW k \in Request, Abandon(k)
      PROVE  Kept
  <2>1. Finish(k) /\ UNCHANGED <<account, organization, assigned, session, scope>>
    BY <1>3 DEF Abandon
  <2>. QED
    BY <2>1, Finished, Unmoved DEF Kept, TypeOK, OperatorsUnassigned, OneLeader
<1>4. ASSUME NEW k \in Request, Reads(k)
      PROVE  Kept
  BY <1>4, ReadStep, Unmoved DEF Kept, TypeOK, OperatorsUnassigned, OneLeader
<1>5. CASE UNCHANGED vars
  BY <1>5, Unmoved DEF vars, Kept, TypeOK, OperatorsUnassigned, OneLeader
<1>. QED
  BY <1>1, <1>2, <1>3, <1>4, <1>5, OrganizationSteps, AssignNewStep, ReplaceStep,
     CommitUserStep, IssueStep
     DEF Next, Reads

-----------------------------------------------------------------------------
(* The invariant.                                                             *)

LEMMA InitInv == Init => IInv
<1>. SUFFICES ASSUME Init
              PROVE  IInv
  OBVIOUS
<1>1. \A u \in User : account[u].role = "MANAGER"
  BY DEF Init, NoAccount, NewAccount
<1>2. TypeOK
  BY InsertedRows DEF Init, TypeOK
<1>3. Linked /\ LoginsSeen
  BY DEF Init, Idle, Linked, LoginsSeen
<1>4. OperatorsUnassigned
  BY <1>1 DEF OperatorsUnassigned
<1>5. OneLeader
  BY DEF Init, Unassigned, OneLeader, None
<1>6. SessionsSeen
  BY InsertedRows DEF Init, SessionsSeen
<1>. QED
  BY <1>2, <1>3, <1>4, <1>5, <1>6 DEF IInv

LEMMA LinkedStep ==
  ASSUME IInv, Kept
  PROVE  Linked'
<1>. SUFFICES ASSUME NEW k \in Request
              PROVE  LET r == request'[k] IN
                     /\ r.does \in {"user", "login"} => r.of \in User
                     /\ r.does \in {"organization", "replace"} => r.org \in Organization
                     /\ r.does = "replace" => r.of # r.leader
  BY DEF Linked
<1>1. RequestStep(k)
  BY DEF Kept
<1>. QED
  BY <1>1 DEF IInv, Linked, RequestStep, Idle

\* A login stays true to what it read, or the version of the account has moved.
LEMMA LoginsStep ==
  ASSUME IInv, Kept
  PROVE  LoginsSeen'
<1>. USE DEF IInv
<1>. SUFFICES ASSUME NEW k \in Request, request'[k].does = "login"
              PROVE  LET r == request'[k]  a == account'[r.of] IN
                     /\ a.exists
                     /\ r.seen.version <= a.version
                     /\ r.seen.version = a.version => r.with = assigned'[r.of]
  BY DEF LoginsSeen
<1>. DEFINE r == request'[k]
<1>1. RequestStep(k) /\ r \in Requests
  BY DEF Kept, TypeOK
<1>2. CASE r = request[k]
  <2>1. /\ r.of \in User /\ r.seen.version \in Nat
        /\ account[r.of].version \in Nat /\ account'[r.of].version \in Nat
    BY <1>1, <1>2 DEF Linked, TypeOK, Requests, AccountRows, Kept
  <2>2. /\ account[r.of].exists
        /\ r.seen.version <= account[r.of].version
        /\ r.seen.version = account[r.of].version => r.with = assigned[r.of]
    BY <1>2 DEF LoginsSeen
  <2>3. /\ account'[r.of].exists
        /\ account'[r.of].version >= account[r.of].version
        /\ assigned'[r.of] # assigned[r.of] => account'[r.of].version > account[r.of].version
    BY <2>1, <2>2 DEF Kept, AccountStep
  <2>. HIDE DEF r
  <2>. QED
    BY <2>1, <2>2, <2>3 DEF r
<1>3. CASE /\ UNCHANGED <<account, assigned>>
           /\ r.of \in User /\ account[r.of].exists
           /\ r.seen = account[r.of] /\ r.with = assigned[r.of]
  <2>1. account[r.of].version \in Nat
    BY <1>3 DEF TypeOK, AccountRows
  <2>. QED
    BY <1>3, <2>1
<1>. QED
  BY <1>1, <1>2, <1>3 DEF RequestStep, Idle

\* A session that is not revoked keeps to its account as a login does.
LEMMA SessionsStep ==
  ASSUME IInv, Kept
  PROVE  SessionsSeen'
<1>. USE DEF IInv
<1>. SUFFICES ASSUME NEW s \in Session, ~session'[s].revoked
              PROVE  LET u == session'[s].user IN
                     /\ u \in User /\ account'[u].exists
                     /\ session'[s].version <= account'[u].version
                     /\ session'[s].version = account'[u].version => scope'[s] = assigned'[u]
  BY DEF SessionsSeen
<1>. DEFINE u == session'[s].user
            v == session'[s].version
<1>1. CASE session'[s] = session[s] /\ scope'[s] = scope[s]
  <2>1. /\ u \in User /\ account[u].exists
        /\ v <= account[u].version
        /\ v = account[u].version => scope[s] = assigned[u]
    BY <1>1 DEF SessionsSeen
  <2>2. v \in Nat /\ account[u].version \in Nat /\ account'[u].version \in Nat
    BY <1>1, <2>1 DEF TypeOK, SessionRows, AccountRows, Kept
  <2>3. /\ account'[u].exists
        /\ account'[u].version >= account[u].version
        /\ assigned'[u] # assigned[u] => account'[u].version > account[u].version
    BY <2>1 DEF Kept, AccountStep
  <2>. HIDE DEF u, v
  <2>4. /\ account'[u].exists /\ v <= account'[u].version
        /\ v = account'[u].version => scope'[s] = assigned'[u]
    BY <1>1, <2>1, <2>2, <2>3
  <2>. QED
    BY <2>1, <2>4 DEF u, v
<1>2. ASSUME NEW k \in Request, request[k].does = "login",
             session'[s] = Opened(request[k].of, request[k].seen),
             scope'[s] = request[k].with,
             UNCHANGED <<account, assigned>>
      PROVE  /\ u \in User /\ account'[u].exists
             /\ v <= account'[u].version
             /\ v = account'[u].version => scope'[s] = assigned'[u]
  <2>1. request[k].of \in User /\ request[k].seen \in AccountRows
    BY <1>2 DEF Linked, TypeOK, Requests
  <2>2. u = request[k].of /\ v = request[k].seen.version
    BY <1>2, <2>1, OpenedRow
  <2>. HIDE DEF u, v
  <2>. QED
    BY <1>2, <2>1, <2>2 DEF LoginsSeen
<1>3. SessionStep(s)
  BY DEF Kept
<1>. QED
  BY <1>1, <1>2, <1>3 DEF SessionStep

LEMMA StepInv == IInv /\ [Next]_vars => IInv'
<1>. SUFFICES ASSUME IInv, [Next]_vars
              PROVE  IInv'
  OBVIOUS
<1>1. Kept
  BY NextStep
<1>. QED
  BY <1>1, LinkedStep, LoginsStep, SessionsStep DEF IInv, Kept

\* The invariant holds in every reachable state.
THEOREM Invariance == Spec => []IInv
BY InitInv, StepInv, PTL DEF Spec

-----------------------------------------------------------------------------
(* What the runs check, for every value of the constants.                     *)

\* The rows keep their shape, whatever the handlers of organizations.ts do.
THEOREM TypeCorrect == Spec => []TypeOK
<1>1. IInv => TypeOK
  BY DEF IInv
<1>. QED
  BY <1>1, Invariance, PTL

\* No operator is assigned to an organization (OperatorsUnassigned).
THEOREM OperatorsHaveNone == Spec => []OperatorsUnassigned
<1>1. IInv => OperatorsUnassigned
  BY DEF IInv
<1>. QED
  BY <1>1, Invariance, PTL

\* An organization has one primary leader at most: it follows from the guards of
\* the statements alone, without the unique index of the table (OneLeader).
THEOREM OnePrimary == Spec => []OneLeader
<1>1. IInv => OneLeader
  BY DEF IInv
<1>. QED
  BY <1>1, Invariance, PTL

\* An accepted session has the assignments of its account (SessionScope).
THEOREM SessionsInScope == Spec => []SessionScope
<1>1. IInv => SessionScope
  BY DEF IInv, SessionsSeen, SessionScope
<1>. QED
  BY <1>1, Invariance, PTL

\* Only CommitReplace ends a replacement and changes assignments.
LEMMA OnlyReplace ==
  ASSUME IInv, Next, NEW k \in Request,
         request[k].does = "replace", request'[k] = Idle, assigned' # assigned
  PROVE  CommitReplace(k)
<1>1. /\ request \in [Request -> Requests] /\ request'[k] # request[k]
      /\ assigned' # assigned
  BY DEF IInv, TypeOK, Idle
<1>2. ASSUME NEW j \in Request, CommitReplace(j)
      PROVE  CommitReplace(k)
  <2>1. request' = [request EXCEPT ![j] = Idle]
    BY <1>2 DEF CommitReplace, Finish
  <2>2. j = k
    BY <1>1, <2>1
  <2>. QED
    BY <1>2, <2>2
<1>3. \A o \in Organization, u \in User :
        ~ \/ RemoveManager(o, u)
          \/ \E role \in {"PRIMARY", "MANAGER"} : AssignNew(o, u, role) \/ AssignExisting(o, u, role)
  BY <1>1 DEF RemoveManager, AssignNew, AssignExisting
<1>4. \A j \in Request :
        ~ \/ CommitOrganization(j) \/ CommitUser(j) \/ Abandon(j)
          \/ \E s \in Session : IssueAuthSuccess(j, s)
  BY <1>1 DEF CommitOrganization, CommitUser, Abandon, IssueAuthSuccess
<1>5. \A j \in Request : ~Reads(j)
  BY <1>1, ReadStep DEF IInv
<1>6. \A o \in Organization, n \in Name : ~CreateOrganization(o, n)
  BY <1>1 DEF CreateOrganization
<1>. QED
  BY <1>2, <1>3, <1>4, <1>5, <1>6 DEF Next, Reads

\* A replacement is the one the page asked for, of the leader it showed
\* (ReplacementApplied).
THEOREM ReplacementsApplied == Spec => ReplacementApplied
<1>1. ASSUME IInv, [Next]_vars, NEW k \in Request,
             request[k].does = "replace", request'[k] = Idle, assigned' # assigned
      PROVE  LET r == request[k] IN
             /\ Leaders(r.org) = {r.leader} \ {None}
             /\ {u \in User : assigned'[u][r.org] = "PRIMARY"} = {r.of} \ {None}
             /\ r.leader # None =>
                  assigned'[r.leader][r.org] = IF r.keep THEN "MANAGER" ELSE None
             /\ Active(r.org)
             /\ r.of # None => Assignable(r.of)
  <2>1. CommitReplace(k)
    BY <1>1, OnlyReplace DEF vars
  <2>2. /\ Active(request[k].org)
        /\ request[k].of # None => Assignable(request[k].of)
    BY <2>1 DEF CommitReplace, ReplaceGuard
  <2>. QED
    BY <1>1, <2>1, <2>2, ReplaceStep
<1>2. IInv /\ [Next]_vars =>
        [\A k \in Request :
           request[k].does = "replace" /\ request'[k] = Idle /\ assigned' # assigned =>
             LET r == request[k] IN
             /\ Leaders(r.org) = {r.leader} \ {None}
             /\ {u \in User : assigned'[u][r.org] = "PRIMARY"} = {r.of} \ {None}
             /\ r.leader # None =>
                  assigned'[r.leader][r.org] = IF r.keep THEN "MANAGER" ELSE None
             /\ Active(r.org)
             /\ r.of # None => Assignable(r.of)]_vars
  BY <1>1
<1>. QED
  BY <1>2, Invariance, PTL DEF Spec, ReplacementApplied
=============================================================================
