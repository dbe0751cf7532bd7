----------------------- MODULE OrganizationLeadership -----------------------
(* Organizations and the accounts that manage them: one primary leader and   *)
(* any number of managers each, assigned, replaced and removed by operators  *)
(* while others rename, delete and restore the organization, change the role *)
(* and activity of the accounts, and the managers log in.                    *)
(* The actor's own part of every guard is in Accounts.  A handler that keeps *)
(* nothing of what it read but a reason to refuse is one step: its guard     *)
(* asks for all of it again.                                                 *)
EXTENDS AccountRow

CONSTANTS
    User, Organization, Session, Request,
    Name,               \* canonical names of organizations
    MaxVersion          \* bound on session_version

ASSUME LeadershipAssumption == MaxVersion \in Nat \ {0} /\ "none" \notin User

VARIABLES
    account,            \* rows of users and password_credentials
    organization,
    assigned,           \* user_organizations: assignment_role, or "none"
    session,            \* rows of auth_sessions
    scope,              \* the assignments an account had when a login read it
    request             \* what running handlers have read

vars == <<account, organization, assigned, session, scope, request>>

None == "none"
Assignments == {"PRIMARY", "MANAGER", None}
NoName == "no name"
Absent == [exists |-> FALSE, name |-> NoName, active |-> FALSE, deleted |-> FALSE]
Created(n) == [exists |-> TRUE, name |-> n, active |-> TRUE, deleted |-> FALSE]
Unassigned == [o \in Organization |-> None]
Closed == [Opened(None, NoAccount) EXCEPT !.revoked = TRUE]

\* of: the account; org, was: the organization and its row as read; to: what the
\* row is to become; leader: the leader as read and as the page expected it.
Idle == [does |-> "idle", of |-> None, seen |-> NoAccount, with |-> Unassigned,
         role |-> "MANAGER", active |-> FALSE,
         org |-> None, was |-> Absent, to |-> Absent, leader |-> None, keep |-> FALSE]

\* Nobody has an account yet, or everybody is a manager with one; organizations
\* are still to be made.
Init ==
    /\ \E row \in {NoAccount, NewAccount("MANAGER", FALSE)} : account = [u \in User |-> row]
    /\ organization = [o \in Organization |-> Absent]
    /\ assigned = [u \in User |-> Unassigned]
    /\ session = [s \in Session |-> Closed]
    /\ scope = [s \in Session |-> Unassigned]
    /\ request = [k \in Request |-> Idle]

-----------------------------------------------------------------------------
(* Helpers *)

Leaders(o) == {u \in User : assigned[u][o] = "PRIMARY"}

\* findPrimaryUserId
Leader(o) == IF Leaders(o) = {} THEN None ELSE CHOOSE u \in Leaders(o) : TRUE

Mutable(o) == organization[o].exists /\ ~organization[o].deleted
Active(o) == Mutable(o) /\ organization[o].active
Assignable(u) == account[u].exists /\ account[u].role = "MANAGER" /\ account[u].active
Room(u) == account[u].version < MaxVersion
NameFree(o, n) == \A p \in Organization \ {o} : organization[p].name # n

Hold(k, r) == request[k] = Idle /\ request' = [request EXCEPT ![k] = r]
Finish(k) == request' = [request EXCEPT ![k] = Idle]

\* revokeUserSessionsStatements for every account whose assignment has changed.
\* A revoked row is never accepted again: what it held is forgotten.
RevokeUserSessions(U) ==
    LET ended == {s \in Session : session[s].user \in U} IN
    /\ session' = [s \in Session |-> IF s \in ended THEN Closed ELSE session[s]]
    /\ scope' = [s \in Session |-> IF s \in ended THEN Unassigned ELSE scope[s]]

\* The same, with the increment of session_version.
ChangeScopes(U) ==
    /\ \A u \in U : Room(u)
    /\ account' = [u \in User |-> IF u \in U THEN Bumped(account[u]) ELSE account[u]]
    /\ RevokeUserSessions(U)

-----------------------------------------------------------------------------
(* Organizations *)

\* A name is taken by deleted organizations too.
CreateOrganization(o, n) ==
    /\ ~organization[o].exists
    /\ NameFree(o, n)
    /\ organization' = [organization EXCEPT ![o] = Created(n)]
    /\ UNCHANGED <<account, assigned, session, scope, request>>

\* What the caller leaves out is taken from the row read.
UpdateOrganization(k, o, n, active) ==
    LET was == organization[o] IN
    /\ Mutable(o)
    /\ n # was.name \/ active # was.active
    /\ Hold(k, [Idle EXCEPT !.does = "organization", !.org = o, !.was = was,
                            !.to = [was EXCEPT !.name = n, !.active = active]])
    /\ UNCHANGED <<account, organization, assigned, session, scope>>

\* The name typed to confirm is the name the organization has.
DeleteOrganization(k, o, confirmation) ==
    LET was == organization[o] IN
    /\ Mutable(o) /\ was.name = confirmation
    /\ Hold(k, [Idle EXCEPT !.does = "organization", !.org = o, !.was = was,
                            !.to = [was EXCEPT !.active = FALSE, !.deleted = TRUE]])
    /\ UNCHANGED <<account, organization, assigned, session, scope>>

\* Restored, it is still inactive.
RestoreOrganization(k, o) ==
    LET was == organization[o] IN
    /\ was.deleted
    /\ Hold(k, [Idle EXCEPT !.does = "organization", !.org = o, !.was = was,
                            !.to = [was EXCEPT !.deleted = FALSE]])
    /\ UNCHANGED <<account, organization, assigned, session, scope>>

\* The guards of the three name the row as it was read.
CommitOrganization(k) ==
    LET r == request[k] IN
    /\ r.does = "organization"
    /\ organization[r.org] = r.was
    /\ NameFree(r.org, r.to.name)
    /\ organization' = [organization EXCEPT ![r.org] = r.to]
    /\ Finish(k)
    /\ UNCHANGED <<account, assigned, session, scope>>

-----------------------------------------------------------------------------
(* Assignments *)

\* assignOrganizationManager, kind NEW: the account is made with the assignment.
AssignNew(o, u, role) ==
    /\ Active(o)
    /\ ~account[u].exists
    /\ role = "PRIMARY" => Leaders(o) = {}
    /\ account' = [account EXCEPT ![u] = NewAccount("MANAGER", TRUE)]
    /\ assigned' = [assigned EXCEPT ![u][o] = role]
    /\ UNCHANGED <<organization, session, scope, request>>

\* As below, the account trusted as the candidate search showed it: only in
\* mutants.
AssignExistingAsListed(o, u, role) ==
    /\ Active(o)
    /\ account[u].exists /\ assigned[u][o] = None
    /\ role = "PRIMARY" => Leaders(o) = {}
    /\ assigned' = [assigned EXCEPT ![u][o] = role]
    /\ ChangeScopes({u})
    /\ UNCHANGED <<organization, request>>

AssignExisting(o, u, role) ==
    /\ Active(o)
    /\ Assignable(u) /\ assigned[u][o] = None
    /\ role = "PRIMARY" => Leaders(o) = {}
    /\ assigned' = [assigned EXCEPT ![u][o] = role]
    /\ ChangeScopes({u})
    /\ UNCHANGED <<organization, request>>

\* replaceOrganizationPrimary up to the comparison with expectedPrimaryUserId:
\* the request of a page that shows another leader is refused.
ReplacePrimary(k, o, expected, target, keep) ==
    /\ Mutable(o)
    /\ Leader(o) = expected
    /\ target # expected
    /\ keep => expected # None /\ target # None
    /\ Hold(k, [Idle EXCEPT !.does = "replace", !.org = o, !.leader = expected,
                            !.of = target, !.keep = keep])
    /\ UNCHANGED <<account, organization, assigned, session, scope>>

\* As below, the leader trusted as read: only in mutants.
ReplaceGuardAsRead(r) ==
    /\ Active(r.org)
    /\ r.of # None => assigned[r.of][r.org] = "MANAGER" /\ Assignable(r.of)

ReplaceGuard(r) ==
    /\ Active(r.org)
    /\ Leader(r.org) = r.leader
    /\ r.of # None => assigned[r.of][r.org] = "MANAGER" /\ Assignable(r.of)

\* Only a row that has the role named is changed.
Replaced(r) ==
    [u \in User |->
        IF u = r.leader /\ assigned[u][r.org] = "PRIMARY"
        THEN [assigned[u] EXCEPT ![r.org] = IF r.keep THEN "MANAGER" ELSE None]
        ELSE IF u = r.of /\ assigned[u][r.org] = "MANAGER"
        THEN [assigned[u] EXCEPT ![r.org] = "PRIMARY"]
        ELSE assigned[u]]

\* The unique index of the table is left out: it finds nothing to refuse (OneLeader,
\* in LeadershipProofs).
CommitReplace(k) ==
    LET r == request[k] IN
    /\ r.does = "replace"
    /\ ReplaceGuard(r)
    /\ assigned' = Replaced(r)
    /\ ChangeScopes({r.leader, r.of} \ {None})
    /\ Finish(k)
    /\ UNCHANGED organization

\* As below, the sessions left alone: only in mutants.
RemoveManagerQuietly(o, u) ==
    /\ Mutable(o)
    /\ assigned[u][o] = "MANAGER"
    /\ assigned' = [assigned EXCEPT ![u][o] = None]
    /\ UNCHANGED <<account, organization, session, scope, request>>

RemoveManager(o, u) ==
    /\ Mutable(o)
    /\ assigned[u][o] = "MANAGER"
    /\ assigned' = [assigned EXCEPT ![u][o] = None]
    /\ ChangeScopes({u})
    /\ UNCHANGED <<organization, request>>

-----------------------------------------------------------------------------
(* Accounts *)

UpdateUser(k, u, role, active) ==
    /\ account[u].exists
    /\ role # account[u].role \/ active # account[u].active
    /\ Hold(k, [Idle EXCEPT !.does = "user", !.of = u, !.seen = account[u],
                            !.role = role, !.active = active])
    /\ UNCHANGED <<account, organization, assigned, session, scope>>

\* An account with assignments, in whatever organization, is not made operator.
CommitUser(k) ==
    LET r == request[k] IN
    /\ r.does = "user"
    /\ account[r.of].version = r.seen.version
    /\ r.role = "OPERATOR" => assigned[r.of] = Unassigned
    /\ Room(r.of)
    /\ account' = [account EXCEPT ![r.of] = Updated(@, r.role, r.active)]
    /\ RevokeUserSessions({r.of})
    /\ Finish(k)
    /\ UNCHANGED <<organization, assigned>>

\* findUserByLoginId, with the assignments mapUser reads next.
Login(k, u) ==
    /\ account[u].exists /\ account[u].active
    /\ Hold(k, [Idle EXCEPT !.does = "login", !.of = u, !.seen = account[u],
                            !.with = assigned[u]])
    /\ UNCHANGED <<account, organization, assigned, session, scope>>

IssueAuthSuccess(k, s) ==
    LET r == request[k] IN
    /\ r.does = "login"
    /\ session[s].revoked
    /\ session' = [session EXCEPT ![s] = Opened(r.of, r.seen)]
    /\ scope' = [scope EXCEPT ![s] = r.with]
    /\ Finish(k)
    /\ UNCHANGED <<account, organization, assigned>>

\* The guard refuses, a database call fails or the Worker stops.
Abandon(k) ==
    /\ request[k] # Idle
    /\ Finish(k)
    /\ UNCHANGED <<account, organization, assigned, session, scope>>

Next ==
    \/ \E o \in Organization, n \in Name : CreateOrganization(o, n)
    \/ \E o \in Organization, u \in User :
        \/ RemoveManager(o, u)
        \/ \E role \in {"PRIMARY", "MANAGER"} : AssignNew(o, u, role) \/ AssignExisting(o, u, role)
    \/ \E k \in Request :
        \/ CommitOrganization(k) \/ CommitReplace(k) \/ CommitUser(k) \/ Abandon(k)
        \/ \E s \in Session : IssueAuthSuccess(k, s)
        \/ \E u \in User : Login(k, u)
        \/ \E u \in User, role \in Roles, active \in BOOLEAN : UpdateUser(k, u, role, active)
        \/ \E o \in Organization :
            \/ RestoreOrganization(k, o)
            \/ \E n \in Name : DeleteOrganization(k, o, n)
            \/ \E n \in Name, active \in BOOLEAN : UpdateOrganization(k, o, n, active)
            \/ \E expected, target \in User \union {None}, keep \in BOOLEAN :
                    ReplacePrimary(k, o, expected, target, keep)

Spec == Init /\ [][Next]_vars

-----------------------------------------------------------------------------
(* Properties *)

Scopes == [Organization -> Assignments]
AccountRows == [exists : BOOLEAN, role : Roles, active : BOOLEAN,
                version : 0..MaxVersion, password : Nat, must : BOOLEAN]
OrganizationRows == [exists : BOOLEAN, name : Name \union {NoName},
                     active : BOOLEAN, deleted : BOOLEAN]
SessionRows == [user : User \union {None}, version : 0..MaxVersion, password : Nat,
                kind : Kinds, issued : Nat, live : SUBSET Nat,
                revoked : BOOLEAN, expired : BOOLEAN]
Requests == [does : {"idle", "organization", "replace", "user", "login"},
             of : User \union {None}, seen : AccountRows, with : Scopes,
             role : Roles, active : BOOLEAN,
             org : Organization \union {None}, was : OrganizationRows, to : OrganizationRows,
             leader : User \union {None}, keep : BOOLEAN]

\* Rows are of the shape the schema gives them, and each handler holds what its
\* reads can have returned.
TypeOK ==
    /\ account \in [User -> AccountRows]
    /\ organization \in [Organization -> OrganizationRows]
    /\ assigned \in [User -> Scopes]
    /\ session \in [Session -> SessionRows]
    /\ scope \in [Session -> Scopes]
    /\ request \in [Request -> Requests]

\* No operator is assigned to an organization, although the role of an account
\* and its assignments are changed by different handlers at the same time, and
\* an account may become an operator while a page still lists it as a manager.
OperatorsUnassigned ==
    \A u \in User : account[u].role = "OPERATOR" => assigned[u] = Unassigned

\* A replacement takes the lead from exactly the account the operator's page
\* showed and the audit names, gives it to an active manager of an active
\* organization, and keeps the previous leader as a manager or not, as asked:
\* whatever others assigned, replaced, removed or deleted in between.
ReplacementApplied ==
    [][\A k \in Request :
        request[k].does = "replace" /\ request'[k] = Idle /\ assigned' # assigned =>
            LET r == request[k] IN
            /\ Leaders(r.org) = {r.leader} \ {None}
            /\ {u \in User : assigned'[u][r.org] = "PRIMARY"} = {r.of} \ {None}
            /\ r.leader # None =>
                    assigned'[r.leader][r.org] = IF r.keep THEN "MANAGER" ELSE None
            /\ Active(r.org)
            /\ r.of # None => Assignable(r.of)]_vars

\* A session that is still accepted was opened with the assignments its account
\* has now: a manager whose assignment changed has to log in again, even if he
\* logged in while it changed.
SessionScope ==
    \A s \in Session :
        LET u == session[s].user IN
        ~session[s].revoked /\ session[s].version = account[u].version
            => scope[s] = assigned[u]
=============================================================================
