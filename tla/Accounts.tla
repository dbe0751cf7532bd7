------------------------------ MODULE Accounts ------------------------------
(* Accounts and sessions of the Worker: login, rotation of the refresh token,*)
(* logout, change, reset and recovery of a password, administration of the   *)
(* accounts, and the bootstrap account that makes the first operator.        *)
(* A handler reads, computes a bcrypt hash and then sends one guarded batch; *)
(* `request' holds what it has read in between.                              *)
EXTENDS AccountRow

CONSTANTS
    User,               \* accounts that may come to exist
    Boot,               \* the bootstrap account, one of them
    Session,            \* identifiers of sessions
    Request,            \* handlers that may be running at a time
    Installed,          \* operators of a database that is already in use
    MaxVersion,         \* bound on session_version
    MaxTokens           \* bound on the refresh tokens of a session

ASSUME AccountAssumption ==
    /\ Boot \in User /\ "none" \notin User
    /\ Installed \subseteq User \ {Boot} /\ Installed # {}
    /\ MaxVersion \in Nat \ {0} /\ MaxTokens \in Nat \ {0}

VARIABLES
    user,               \* rows of users and password_credentials
    session,            \* rows of auth_sessions and refresh_tokens
    code,               \* the recovery code of an account
    lock,               \* the row of bootstrap_locks
    request

vars == <<user, session, code, lock, request>>

None == "none"
Closed == [user |-> None, version |-> 0, password |-> 0, kind |-> "FULL",
           issued |-> 0, live |-> {}, revoked |-> FALSE, expired |-> FALSE]

\* by: the session that acts or is refreshed; of: the account read and how.
Idle == [does |-> "idle", by |-> None, token |-> 0, of |-> None, seen |-> NoAccount,
         role |-> "MANAGER", active |-> FALSE]

Fresh == [u \in User |-> NoAccount]

\* The bootstrap is over and the operators there are have passwords of their own;
\* managers are those they create or make of one another.  Versions and passwords
\* are counted from here.
Retired == [NewAccount("OPERATOR", FALSE) EXCEPT !.active = FALSE]
InUse == [u \in User |-> IF u = Boot THEN Retired
                         ELSE IF u \in Installed THEN NewAccount("OPERATOR", FALSE)
                         ELSE NoAccount]

Init ==
    /\ \/ user = Fresh /\ lock = "none"
       \/ user = InUse /\ lock = "consumed"
    /\ session = [s \in Session |-> Closed]
    /\ code = [u \in User |-> "none"]
    /\ request = [k \in Request |-> Idle]

-----------------------------------------------------------------------------
(* Helpers *)

Account(s) == user[session[s].user]
IsOpen(s) == session[s] # Closed
Stands(s) == IsOpen(s) /\ Standing(session[s], Account(s))
Known(u) == user[u].exists
Free(k) == request[k] = Idle
Room(u) == user[u].version < MaxVersion

Finish(k) == request' = [request EXCEPT ![k] = Idle]
Hold(k, r) == Free(k) /\ request' = [request EXCEPT ![k] = r]

\* As below, sessions left to fail by their version: only in mutants.
SecureByVersion(u, row) ==
    /\ user' = [user EXCEPT ![u] = row]
    /\ UNCHANGED session

\* An account replaced and all its sessions revoked, in one batch.
Secure(u, row) ==
    /\ user' = [user EXCEPT ![u] = row]
    /\ session' = RevokedOf(session, {u})

\* The change that ends the bootstrap: an operator who still had the temporary
\* password has set his own; the bootstrap account is switched off with it.
SetPassword(u, row, seen) ==
    IF u # Boot /\ seen.role = "OPERATOR" /\ seen.must
    THEN /\ user' = [user EXCEPT ![u] = row, ![Boot] = Deactivated(@)]
         /\ session' = RevokedOf(session, {u, Boot})
         /\ lock' = "consumed"
    ELSE Secure(u, row) /\ UNCHANGED lock

-----------------------------------------------------------------------------
(* Sessions *)

\* loginWithCredentials up to the verified password.
Login(k, u) ==
    /\ Known(u) /\ user[u].active
    /\ Hold(k, [Idle EXCEPT !.does = "login", !.of = u, !.seen = user[u]])
    /\ UNCHANGED <<user, session, code, lock>>

\* issueAuthSuccess: nothing is asked again when the session is inserted.
IssueAuthSuccess(k) ==
    /\ request[k].does = "login"
    /\ \E s \in Session :
        /\ ~IsOpen(s)
        /\ session' = [session EXCEPT ![s] = Opened(request[k].of, request[k].seen)]
    /\ Finish(k)
    /\ UNCHANGED <<user, code, lock>>

\* refreshAuthentication up to isReusable, with any token ever handed out.
Refresh(k, s, n) ==
    /\ n \in 1..session[s].issued
    /\ \/ /\ Reusable(session[s], Account(s), n)
          /\ Hold(k, [Idle EXCEPT !.does = "rotate", !.by = s, !.token = n])
       \/ /\ ~Reusable(session[s], Account(s), n)
          /\ Hold(k, [Idle EXCEPT !.does = "revoke", !.by = s])
    /\ UNCHANGED <<user, session, code, lock>>

\* The guarded rotation; the loser of a race goes on to revoke the family.
Rotate(k) ==
    LET s == request[k].by  n == request[k].token IN
    /\ request[k].does = "rotate"
    /\ \/ /\ MayRotate(session[s], n)
          /\ session[s].issued < MaxTokens
          /\ session' = [session EXCEPT ![s] = Rotated(@, n)]
          /\ Finish(k)
       \/ /\ ~MayRotate(session[s], n)
          /\ request' = [request EXCEPT ![k].does = "revoke", ![k].token = 0]
          /\ UNCHANGED session
    /\ UNCHANGED <<user, code, lock>>

RevokeSessionFamily(k) ==
    /\ request[k].does = "revoke"
    /\ session' = [session EXCEPT ![request[k].by] = RevokedSession(@)]
    /\ Finish(k)
    /\ UNCHANGED <<user, code, lock>>

\* revokeByRefreshToken: whichever token of the session the cookie holds.
Logout(s) ==
    /\ IsOpen(s) /\ ~session[s].revoked
    /\ session' = [session EXCEPT ![s] = RevokedSession(@)]
    /\ UNCHANGED <<user, code, lock, request>>

Expire(s) ==
    /\ IsOpen(s) /\ ~session[s].revoked /\ ~session[s].expired
    /\ session' = [session EXCEPT ![s].expired = TRUE]
    /\ UNCHANGED <<user, code, lock, request>>

-----------------------------------------------------------------------------
(* Passwords *)

\* requireActor, then the current password verified against the row it read.
ChangePassword(k, s) ==
    /\ Stands(s)
    /\ Hold(k, [Idle EXCEPT !.does = "change", !.by = s, !.of = session[s].user,
                            !.seen = Account(s)])
    /\ UNCHANGED <<user, session, code, lock>>

CommitChange(k) ==
    LET r == request[k] IN
    /\ r.does = "change"
    /\ ~session[r.by].revoked
    /\ session[r.by].version = user[r.of].version
    /\ user[r.of].active
    /\ user[r.of].password = r.seen.password
    /\ Room(r.of) /\ Room(Boot)
    /\ SetPassword(r.of, PasswordSet(user[r.of], FALSE), r.seen)
    /\ Finish(k)
    /\ UNCHANGED code

\* recoverAccount up to the unused code.
Recover(k, u) ==
    /\ Known(u) /\ user[u].active
    /\ code[u] = "issued"
    /\ Hold(k, [Idle EXCEPT !.does = "recover", !.of = u, !.seen = user[u]])
    /\ UNCHANGED <<user, session, code, lock>>

\* The guard asks for the code again and for nothing else.
CommitRecovery(k) ==
    LET r == request[k] IN
    /\ r.does = "recover"
    /\ code[r.of] = "issued"
    /\ Room(r.of) /\ Room(Boot)
    /\ code' = [code EXCEPT ![r.of] = "used"]
    /\ SetPassword(r.of, PasswordSet(user[r.of], FALSE), r.seen)
    /\ Finish(k)

-----------------------------------------------------------------------------
(* Administration *)

Operates(s) ==
    /\ Stands(s)
    /\ session[s].user # Boot
    /\ OperatorGuard(session[s], Account(s))

StillOperates(s) == session[s].user # Boot /\ OperatorGuard(session[s], Account(s))

\* createUser: the login identifier is free; one guarded batch.
CreateUser(s, u, role) ==
    /\ IsOpen(s) /\ StillOperates(s)
    /\ u # Boot /\ ~Known(u)
    /\ user' = [user EXCEPT ![u] = NewAccount(role, TRUE)]
    /\ UNCHANGED <<session, code, lock, request>>

\* updateUser up to findAdminUserState; what the caller leaves out is taken
\* from the row read.  A change of the name alone moves nothing modelled here.
UpdateUser(k, s, u, role, active) ==
    /\ Operates(s) /\ Known(u)
    /\ role # user[u].role \/ active # user[u].active
    /\ Hold(k, [Idle EXCEPT !.does = "update", !.by = s, !.of = u, !.seen = user[u],
                            !.role = role, !.active = active])
    /\ UNCHANGED <<user, session, code, lock>>

\* As below, without is_bootstrap = 0: only in mutants.
UpdateGuardForAll(r) ==
    /\ StillOperates(r.by)
    /\ user[r.of].version = r.seen.version

UpdateGuard(r) ==
    /\ StillOperates(r.by)
    /\ r.of # Boot
    /\ user[r.of].version = r.seen.version

CommitUpdate(k) ==
    LET r == request[k] IN
    /\ r.does = "update"
    /\ UpdateGuard(r)
    /\ Room(r.of)
    /\ Secure(r.of, Updated(user[r.of], r.role, r.active))
    /\ Finish(k)
    /\ UNCHANGED <<code, lock>>

ResetUserPassword(k, s, u) ==
    /\ Operates(s) /\ Known(u)
    /\ Hold(k, [Idle EXCEPT !.does = "reset", !.by = s, !.of = u, !.seen = user[u]])
    /\ UNCHANGED <<user, session, code, lock>>

ResetGuard(r) ==
    /\ StillOperates(r.by)
    /\ r.of # Boot
    /\ user[r.of].version = r.seen.version
    /\ user[r.of].password = r.seen.password

CommitReset(k) ==
    LET r == request[k] IN
    /\ r.does = "reset"
    /\ ResetGuard(r)
    /\ Room(r.of)
    /\ Secure(r.of, PasswordSet(user[r.of], TRUE))
    /\ Finish(k)
    /\ UNCHANGED <<code, lock>>

\* A change of the manager's organizations (OrganizationLeadership) moves his
\* version and revokes his sessions.
OrganizationsChange(u) ==
    /\ Known(u) /\ user[u].role = "MANAGER"
    /\ Room(u)
    /\ Secure(u, Bumped(user[u]))
    /\ UNCHANGED <<code, lock, request>>

-----------------------------------------------------------------------------
(* Bootstrap *)

\* createBootstrapAccount: the primary key of the lock lets one batch through.
CreateBootstrapAccount ==
    /\ lock = "none" /\ ~Known(Boot)
    /\ user' = [user EXCEPT ![Boot] = NewAccount("OPERATOR", FALSE)]
    /\ lock' = "open"
    /\ UNCHANGED <<session, code, request>>

\* createFirstOperator up to the open lock.
CreateFirstOperator(k, s, u) ==
    /\ Stands(s) /\ session[s].user = Boot
    /\ lock = "open"
    /\ u # Boot /\ ~Known(u)
    /\ Hold(k, [Idle EXCEPT !.does = "first", !.by = s, !.of = u])
    /\ UNCHANGED <<user, session, code, lock>>

CommitFirstOperator(k) ==
    LET r == request[k] IN
    /\ r.does = "first"
    /\ lock = "open"
    /\ \A u \in User \ {Boot} : ~Known(u)
    /\ user' = [user EXCEPT ![r.of] = NewAccount("OPERATOR", TRUE)]
    /\ code' = [code EXCEPT ![r.of] = "issued"]
    /\ Finish(k)
    /\ UNCHANGED <<session, lock>>

-----------------------------------------------------------------------------

\* The guard refuses, a database call fails or the Worker stops: nothing of
\* the handler's batch is kept.
Abandon(k) ==
    /\ ~Free(k)
    /\ Finish(k)
    /\ UNCHANGED <<user, session, code, lock>>

Next ==
    \/ \E k \in Request :
        \/ IssueAuthSuccess(k) \/ Rotate(k) \/ RevokeSessionFamily(k)
        \/ CommitChange(k) \/ CommitRecovery(k)
        \/ CommitUpdate(k) \/ CommitReset(k) \/ CommitFirstOperator(k)
        \/ Abandon(k)
        \/ \E u \in User : Login(k, u) \/ Recover(k, u)
        \/ \E s \in Session :
            \/ ChangePassword(k, s)
            \/ \E n \in 1..MaxTokens : Refresh(k, s, n)
            \/ \E u \in User :
                \/ ResetUserPassword(k, s, u) \/ CreateFirstOperator(k, s, u)
                \/ \E role \in Roles, active \in BOOLEAN :
                        UpdateUser(k, s, u, role, active)
    \/ \E s \in Session :
        \/ Logout(s) \/ Expire(s)
        \/ \E u \in User, role \in Roles : CreateUser(s, u, role)
    \/ \E u \in User : OrganizationsChange(u)
    \/ CreateBootstrapAccount

Spec == Init /\ [][Next]_vars

-----------------------------------------------------------------------------
(* Properties *)

Versions == 0..MaxVersion

\* Every variable holds rows of the shape the schema gives them, and each
\* handler what its reads can have returned.
TypeOK ==
    /\ user \in [User -> [exists : BOOLEAN, role : Roles, active : BOOLEAN,
                          version : Versions, password : Nat, must : BOOLEAN]]
    /\ session \in [Session ->
                    [user : User \union {None}, version : Versions, password : Nat,
                     kind : Kinds, issued : 0..MaxTokens, live : SUBSET (1..MaxTokens),
                     revoked : BOOLEAN, expired : BOOLEAN]]
    /\ code \in [User -> {"none", "issued", "used"}]
    /\ lock \in {"none", "open", "consumed"}
    /\ request \in [Request ->
                    [does : {"idle", "login", "rotate", "revoke", "change", "recover",
                             "update", "reset", "first"},
                     by : Session \union {None}, token : 0..MaxTokens,
                     of : User \union {None},
                     seen : [exists : BOOLEAN, role : Roles, active : BOOLEAN,
                             version : Versions, password : Nat, must : BOOLEAN],
                     role : Roles, active : BOOLEAN]]

\* A session that is still accepted was opened with the password the account
\* has now, and is limited exactly if that password is still to be changed,
\* although issueAuthSuccess inserts the session without a guard, after a login
\* that read the account before a reset, a change or a recovery.
SessionsCurrent ==
    \A s \in Session :
        /\ IsOpen(s) /\ ~session[s].revoked
        /\ session[s].version = Account(s).version
        =>  /\ session[s].password = Account(s).password
            /\ session[s].kind = IF Account(s).must THEN "MUST" ELSE "FULL"

\* Once an operator has a password of his own the bootstrap is over: its lock is
\* consumed, its account stays inactive and none of its sessions is accepted,
\* whichever of changePassword and recoverAccount has ended it and whatever
\* updateUser is asked to do with the account.
BootstrapEnds ==
    /\ (\E u \in User \ {Boot} :
            Known(u) /\ user[u].role = "OPERATOR" /\ ~user[u].must) => lock = "consumed"
    /\ lock = "consumed" => /\ ~user[Boot].active
                            /\ \A s \in Session : session[s].user = Boot => ~Stands(s)

\* A token is rotated only for an active account at the version the session was
\* opened at, which the guard of refreshAuthentication does not ask: every
\* change of an account revokes its sessions in the same batch.
RotationIsCurrent ==
    [][\A s \in Session :
        session'[s].issued > session[s].issued /\ IsOpen(s) =>
            Account(s).active /\ session[s].version = Account(s).version]_vars

\* What updateUser writes, and says in the audit it changed, is a change of the
\* row it read: role and activity were the ones read, so that the value the
\* caller left out is not an older one, and the actor is still an operator.
UpdatePinned ==
    [][\A k \in Request :
        /\ request[k].does = "update" /\ request'[k] = Idle
        /\ user' # user
        => LET r == request[k] IN
           /\ user[r.of].role = r.seen.role /\ user[r.of].active = r.seen.active
           /\ Account(r.by).active /\ Account(r.by).role = "OPERATOR"]_vars

\* The refresh tokens of a session implement TokenChain: one is usable at most,
\* the last one, whichever handlers rotate and revoke at the same time.
Chain == INSTANCE TokenChain WITH
            chain <- [s \in Session |-> [links |-> session[s].issued,
                                         usable |-> session[s].live]]

ChainKept == Chain!Spec
=============================================================================
