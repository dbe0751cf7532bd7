---------------------------- MODULE SessionClient ----------------------------
(* The session of one browser tab: what AuthProvider and the API client hold *)
(* in memory, the refresh cookie, and the Worker's answers.  Requests of a   *)
(* page, the refresh they share, login, logout and the change of a password  *)
(* overlap on the network.  A microtask chain of the tab is one step: no     *)
(* answer and no click comes in between.                                     *)
(*                                                                           *)
(* A grant is what login and refresh return: access token, CSRF token and    *)
(* refresh token have its number, and a session the number of its login.     *)
EXTENDS Naturals, FiniteSets

CONSTANTS
    Call,               \* requests a page may have under way
    MaxGrant,           \* bound on grants
    MaxEpoch,           \* bound on authEpochRef
    Losses              \* TRUE if the network may lose an answer

ASSUME ClientAssumption ==
    MaxGrant \in Nat \ {0} /\ MaxEpoch \in Nat /\ Losses \in BOOLEAN

VARIABLES
    \* The Worker.
    granted,            \* grants so far
    owner,              \* session of a grant
    last,               \* grant whose refresh and CSRF token a session accepts
    revoked,            \* sessions revoked
    limited,            \* sessions opened with a temporary password
    expired,            \* access tokens up to this grant have expired
    must,               \* the password is temporary
    \* The tab.
    cookie,             \* refresh token in the cookie jar, 0 if none
    auth,               \* stateRef.current.auth, 0 if null
    shown,              \* the state React renders
    epoch,              \* authEpochRef
    refreshing,         \* the refresh of an epoch that is in flight
    login, leaving,     \* how far login() and the end of a session have come
    call,               \* requests under way
    \* What happened, for the properties.
    left,               \* sessions the user has logged out of
    crossed,            \* a page sent something while a logout was under way, or
                        \* a password change was when the logout began
    lost,               \* an answer to a refresh was lost
    misused             \* the tab presented a refresh token that was spent

server == <<granted, owner, last, revoked, limited, expired, must>>
history == <<left, crossed, lost, misused>>
vars == <<granted, owner, last, revoked, limited, expired, must,
          cookie, auth, shown, epoch, refreshing, login, leaving, call,
          left, crossed, lost, misused>>

Grants == 1..MaxGrant
Epochs == 0..MaxEpoch

Quiet == [step |-> "none", token |-> 0, answer |-> 0]
NoLogin == [step |-> "none", epoch |-> 0, answer |-> 0]
Done == [step |-> "none", kind |-> "data", epoch |-> 0, sent |-> 0,
         again |-> FALSE, answer |-> 0]

Restoring == [status |-> "RESTORING", auth |-> 0]
Anonymous == [status |-> "ANONYMOUS", auth |-> 0]
Authenticated(g) == [status |-> "AUTHENTICATED", auth |-> g]

Sent(token) == [step |-> "sent", token |-> token, answer |-> 0]
Answered(x, g) == [x EXCEPT !.step = "answered", !.answer = g]

\* A tab opens, with the cookie of an earlier visit or without one, and the
\* startup refresh is sent.
Init ==
    \E held \in {0, 1}, temporary \in BOOLEAN :
        /\ granted = held
        /\ owner = [g \in Grants |-> IF g = held THEN 1 ELSE 0]
        /\ last = [s \in Grants |-> IF s = held THEN 1 ELSE 0]
        /\ revoked = {} /\ expired = held /\ must = temporary
        /\ limited = IF temporary /\ held = 1 THEN {1} ELSE {}
        /\ cookie = held /\ auth = 0 /\ shown = Restoring /\ epoch = 0
        /\ refreshing = [e \in Epochs |-> IF e = 0 THEN Sent(held) ELSE Quiet]
        /\ login = NoLogin /\ leaving = Quiet
        /\ call = [c \in Call |-> Done]
        /\ left = {} /\ crossed = FALSE /\ lost = FALSE /\ misused = FALSE

-----------------------------------------------------------------------------
(* The Worker *)

\* requireActor for the access token of grant g.
Accepts(g) == g > expired /\ owner[g] \notin revoked

\* The CSRF token of g is the session's, and its refresh token is unspent.
IsLast(g) == last[owner[g]] = g

CanGrant == granted < MaxGrant

\* One more grant, of session s.
Grant(s) ==
    /\ granted' = granted + 1
    /\ owner' = [owner EXCEPT ![granted + 1] = s]
    /\ last' = [last EXCEPT ![s] = granted + 1]

ServeLogin ==
    /\ login.step = "sent"
    /\ \/ /\ CanGrant                                   \* the password fits
          /\ Grant(granted + 1)
          /\ limited' = IF must THEN limited \union {granted + 1} ELSE limited
          /\ login' = Answered(login, granted + 1)
       \/ /\ login' = Answered(login, 0)
          /\ UNCHANGED <<granted, owner, last, limited>>
    /\ UNCHANGED <<revoked, expired, must, cookie, auth, shown, epoch, refreshing,
                   leaving, call, history>>

Usable(g) == g # 0 /\ IsLast(g) /\ owner[g] \notin revoked

\* A token that is not the session's last one, or of a revoked session, revokes
\* the family.  A Worker that fails (or may grant no more) revokes nothing.
ServeRefresh(e) ==
    LET g == refreshing[e].token
        answer(h) == refreshing' = [refreshing EXCEPT ![e] = Answered(@, h)]
    IN
    /\ refreshing[e].step = "sent"
    /\ \/ /\ Usable(g) /\ CanGrant
          /\ Grant(owner[g])
          /\ answer(granted + 1)
          /\ UNCHANGED <<revoked, misused>>
       \/ /\ Usable(g) /\ ~CanGrant
          /\ answer(0)
          /\ UNCHANGED <<granted, owner, last, revoked, misused>>
       \/ /\ ~Usable(g)
          /\ revoked' = IF g = 0 THEN revoked ELSE revoked \union {owner[g]}
          /\ misused' = (misused \/ (g # 0 /\ ~IsLast(g)))
          /\ answer(0)
          /\ UNCHANGED <<granted, owner, last>>
    /\ UNCHANGED <<limited, expired, must, cookie, auth, shown, epoch, login, leaving,
                   call, left, crossed, lost>>

\* The logout is cookie-only and never refused.
ServeLogout ==
    /\ leaving.step = "sent"
    /\ revoked' = IF leaving.token = 0 THEN revoked
                  ELSE revoked \union {owner[leaving.token]}
    /\ leaving' = Answered(leaving, 0)
    /\ UNCHANGED <<granted, owner, last, limited, expired, must, cookie, auth, shown,
                   epoch, refreshing, login, call, history>>

\* 401 for a request without a session that is accepted, 403 for a CSRF token
\* that was replaced.  A wrong current password is answered 401 as well; the
\* right one ends every session of the account.
ServeCall(c) ==
    LET g == call[c].sent
        answer(status) == call' = [call EXCEPT ![c].step = "answered", ![c].answer = status]
    IN
    /\ call[c].step = "sent"
    /\ \/ /\ g = 0 \/ ~Accepts(g)
          /\ answer(401)
          /\ UNCHANGED <<revoked, must>>
       \/ /\ g # 0 /\ Accepts(g) /\ ~IsLast(g)
          /\ answer(403)
          /\ UNCHANGED <<revoked, must>>
       \/ /\ g # 0 /\ Accepts(g) /\ IsLast(g)
          /\ \/ /\ answer(200)
                /\ IF call[c].kind = "change"
                   THEN /\ revoked' = revoked \union {owner[h] : h \in 1..granted}
                        /\ must' = FALSE
                   ELSE UNCHANGED <<revoked, must>>
             \/ /\ call[c].kind = "change"
                /\ answer(401)
                /\ UNCHANGED <<revoked, must>>
    /\ UNCHANGED <<granted, owner, last, limited, expired, cookie, auth, shown, epoch,
                   refreshing, login, leaving, history>>

\* Access tokens expire in the order they were issued.
AccessExpires ==
    /\ expired < granted
    /\ expired' = expired + 1
    /\ UNCHANGED <<granted, owner, last, revoked, limited, must, cookie, auth, shown,
                   epoch, refreshing, login, leaving, call, history>>

\* The account is reset, deactivated or moved by an operator.
SessionRevoked ==
    /\ \E s \in Grants : last[s] # 0 /\ s \notin revoked /\ revoked' = revoked \union {s}
    /\ UNCHANGED <<granted, owner, last, limited, expired, must, cookie, auth, shown,
                   epoch, refreshing, login, leaving, call, history>>

-----------------------------------------------------------------------------
(* The API client *)

\* waitForRefresh that waits for the refresh of the new epoch only: only in
\* mutants.
SettledHere == refreshing[epoch] = Quiet

\* waitForRefresh has nothing to wait for.
Settled == \A e \in Epochs : refreshing[e] = Quiet
Shows(kind) ==
    /\ shown.status = "AUTHENTICATED"
    /\ (owner[shown.auth] \in limited) = (kind = "change")

\* send: the headers are taken from memory when it is called.
Resent(c) == [call[c] EXCEPT !.step = "sent", !.sent = auth, !.again = TRUE]

\* A page that is mounted sends a request.  It stays mounted during a logout.
Request(c) ==
    /\ Shows("data")
    /\ call[c] = Done
    /\ call' = [call EXCEPT ![c] = [Done EXCEPT !.step = "sent", !.epoch = epoch,
                                                !.sent = auth]]
    /\ crossed' = (crossed \/ leaving # Quiet)
    /\ UNCHANGED <<server, cookie, auth, shown, epoch, refreshing, login, leaving,
                   left, lost, misused>>

\* As below, without comparing the epochs: only in mutants.
EndsByAnswer(c) == call[c].answer # 401 \/ call[c].again

\* What a request does with 401: give up if the epoch moved on, send again if a
\* new token is there, otherwise wait for the refresh of its epoch.
Ends(c) == \/ call[c].answer # 401
           \/ call[c].again
           \/ call[c].epoch # epoch

Unauthorized(c) ==
    /\ call[c].step = "answered"
    /\ ~Ends(c)
    /\ \/ /\ auth # 0 /\ auth # call[c].sent
          /\ call' = [call EXCEPT ![c] = Resent(c)]
          /\ UNCHANGED refreshing
       \/ /\ auth = 0 \/ auth = call[c].sent
          /\ call' = [call EXCEPT ![c].step = "waits"]
          /\ refreshing' = IF refreshing[epoch] = Quiet
                           THEN [refreshing EXCEPT ![epoch] = Sent(cookie)]
                           ELSE refreshing
    /\ UNCHANGED <<server, cookie, auth, shown, epoch, login, leaving, history>>

\* A data request returns to its page, whatever it was answered.
CallEnds(c) ==
    /\ call[c].step = "answered" /\ call[c].kind = "data"
    /\ Ends(c)
    /\ call' = [call EXCEPT ![c] = Done]
    /\ UNCHANGED <<server, cookie, auth, shown, epoch, refreshing, login, leaving, history>>

\* refreshOnce: the refresh is over for all who share it.  ForgottenHere keeps the
\* one of an epoch that is over (only in mutants).
ForgottenHere(e) == IF epoch = e THEN [refreshing EXCEPT ![e] = Quiet] ELSE refreshing
Forgotten(e) == [refreshing EXCEPT ![e] = Quiet]

\* request, once more: send takes the headers from memory, where ResumedOld has the
\* old ones (only in mutants).
ResumedOld(c, g) == [call[c] EXCEPT !.step = "sent", !.again = TRUE]
Resumed(c, g) == [call[c] EXCEPT !.step = "sent", !.sent = g, !.again = TRUE]

\* What a refresh that failed commits; nothing only in mutants.
AfterFailureQuietly == shown
AfterFailure == Anonymous

\* refresh() of the provider, then the requests that waited for it.
RefreshReturns(e, g) ==
    LET same == epoch = e
        goesOn(c) == call[c].step = "waits" /\ call[c].epoch = e
    IN
    /\ auth' = IF same THEN g ELSE auth
    /\ shown' = IF ~same THEN shown
                ELSE IF g # 0 THEN Authenticated(g) ELSE AfterFailure
    /\ refreshing' = Forgotten(e)
    /\ call' = [c \in Call |->
                  IF ~goesOn(c) THEN call[c]
                  ELSE IF g # 0 /\ same THEN Resumed(c, g)
                  ELSE [call[c] EXCEPT !.step = "answered", !.again = TRUE]]

RefreshAnswered(e) ==
    /\ refreshing[e].step = "answered"
    /\ RefreshReturns(e, refreshing[e].answer)
    /\ cookie' = IF refreshing[e].answer # 0 THEN refreshing[e].answer ELSE cookie
    /\ UNCHANGED <<server, epoch, login, leaving, history>>

\* The network fails, before or after the Worker has rotated the token.
RefreshLost(e) ==
    /\ Losses /\ refreshing[e] # Quiet
    /\ RefreshReturns(e, 0)
    /\ lost' = (lost \/ refreshing[e].answer # 0)
    /\ UNCHANGED <<server, cookie, epoch, login, leaving, left, crossed, misused>>

CallLost(c) ==
    /\ Losses /\ call[c].step \in {"sent", "answered"}
    /\ call' = [call EXCEPT ![c] = Done]
    /\ UNCHANGED <<server, cookie, auth, shown, epoch, refreshing, login, leaving, history>>

-----------------------------------------------------------------------------
(* AuthProvider *)

CanEpoch == epoch < MaxEpoch

Login ==
    /\ shown = Anonymous /\ login = NoLogin /\ CanEpoch
    /\ epoch' = epoch + 1
    /\ login' = [NoLogin EXCEPT !.step = "waits", !.epoch = epoch + 1]
    /\ UNCHANGED <<server, cookie, auth, shown, refreshing, leaving, call, history>>

\* waitForRefresh, then the request itself.
LoginSent ==
    /\ login.step = "waits" /\ Settled
    /\ login' = [login EXCEPT !.step = "sent"]
    /\ UNCHANGED <<server, cookie, auth, shown, epoch, refreshing, leaving, call, history>>

LoginReturns ==
    /\ login.step = "answered"
    /\ cookie' = IF login.answer # 0 THEN login.answer ELSE cookie
    /\ IF login.answer # 0 /\ epoch = login.epoch
       THEN auth' = login.answer /\ shown' = Authenticated(login.answer)
       ELSE UNCHANGED <<auth, shown>>
    /\ login' = NoLogin
    /\ UNCHANGED <<server, epoch, refreshing, leaving, call, history>>

LoginLost ==
    /\ Losses /\ login.step \in {"sent", "answered"}
    /\ login' = NoLogin
    /\ UNCHANGED <<server, cookie, auth, shown, epoch, refreshing, leaving, call, history>>

\* The memory is cleared at once, the page is taken away only at the end.  A second
\* click before that, which only AppShell.tsx prevents, is left out.
Logout ==
    /\ shown.status = "AUTHENTICATED" /\ leaving = Quiet /\ CanEpoch
    /\ epoch' = epoch + 1
    /\ auth' = 0
    /\ leaving' = [Quiet EXCEPT !.step = "waits"]
    /\ left' = left \union {owner[shown.auth]}
    /\ crossed' = (crossed \/ \E c \in Call : call[c].kind = "change")
    /\ UNCHANGED <<server, cookie, shown, refreshing, login, call, lost, misused>>

LogoutSent ==
    /\ leaving.step = "waits" /\ Settled
    /\ leaving' = Sent(cookie)
    /\ UNCHANGED <<server, cookie, auth, shown, epoch, refreshing, login, call, history>>

LogoutReturns ==
    /\ leaving.step = "answered"
    /\ cookie' = 0
    /\ auth' = 0 /\ shown' = Anonymous
    /\ leaving' = Quiet
    /\ UNCHANGED <<server, epoch, refreshing, login, call, history>>

\* finally: anonymous even when the network is unavailable.
LogoutLost ==
    /\ Losses /\ leaving.step \in {"sent", "answered"}
    /\ auth' = 0 /\ shown' = Anonymous
    /\ leaving' = Quiet
    /\ UNCHANGED <<server, cookie, epoch, refreshing, login, call, history>>

ChangePassword(c) ==
    /\ Shows("change") /\ CanEpoch
    /\ \A d \in Call : call[d] = Done
    /\ epoch' = epoch + 1
    /\ call' = [call EXCEPT ![c] = [Done EXCEPT !.step = "sent", !.kind = "change",
                                                !.epoch = epoch + 1, !.sent = auth]]
    /\ crossed' = (crossed \/ leaving # Quiet)
    /\ UNCHANGED <<server, cookie, auth, shown, refreshing, login, leaving, left, lost,
                   misused>>

\* The Worker has cleared the cookie; unless a logout came first, the tab ends
\* the session as a logout does.
ChangeReturns(c) ==
    /\ call[c].step = "answered" /\ call[c].kind = "change"
    /\ Ends(c)
    /\ call' = [call EXCEPT ![c] = Done]
    /\ cookie' = IF call[c].answer = 200 THEN 0 ELSE cookie
    /\ IF call[c].answer = 200 /\ call[c].epoch = epoch
       THEN /\ auth' = 0 /\ shown' = Restoring
            /\ leaving' = [Quiet EXCEPT !.step = "waits"]
       ELSE UNCHANGED <<auth, shown, leaving>>
    /\ UNCHANGED <<server, epoch, refreshing, login, history>>

Network ==
    \/ ServeLogin \/ ServeLogout
    \/ LoginSent \/ LoginReturns \/ LogoutSent \/ LogoutReturns
    \/ \E e \in Epochs : ServeRefresh(e) \/ RefreshAnswered(e)
    \/ \E c \in Call : ServeCall(c) \/ Unauthorized(c) \/ CallEnds(c) \/ ChangeReturns(c)

Next ==
    \/ Network
    \/ AccessExpires \/ SessionRevoked
    \/ Login \/ LoginLost \/ Logout \/ LogoutLost
    \/ \E e \in Epochs : RefreshLost(e)
    \/ \E c \in Call : Request(c) \/ CallLost(c) \/ ChangePassword(c)

Spec == Init /\ [][Next]_vars

\* Every request is answered or lost, and the tab goes on with what it gets;
\* nobody has to click.
FairSpec ==
    /\ Spec
    /\ WF_vars(ServeLogin) /\ WF_vars(ServeLogout)
    /\ WF_vars(LoginSent) /\ WF_vars(LoginReturns)
    /\ WF_vars(LogoutSent) /\ WF_vars(LogoutReturns)
    /\ \A e \in Epochs : WF_vars(ServeRefresh(e)) /\ WF_vars(RefreshAnswered(e))
    /\ \A c \in Call : WF_vars(ServeCall(c)) /\ WF_vars(Unauthorized(c))
                       /\ WF_vars(CallEnds(c)) /\ WF_vars(ChangeReturns(c))

-----------------------------------------------------------------------------
(* Properties *)

\* A logout takes the page away only at its end, so that a page may still send
\* requests with a memory already cleared; what follows then is left out of the
\* first properties and shown by LogoutSticks.

\* When no call of the provider is under way, what a signed-in tab holds is of
\* one grant: the page, the memory and the cookie.  A late answer to an older
\* refresh, login or logout has not replaced one without the others.
OneGrant ==
    /\ shown.status = "AUTHENTICATED" /\ ~crossed
    /\ \A e \in Epochs : refreshing[e].step = "none"
    /\ login = NoLogin /\ leaving = Quiet
    => cookie = auth /\ shown.auth = auth

\* No request of the tab is refused for its CSRF token: while a refresh replaces
\* it, a request under way with the old one has an access token that expired.
\* Nor does the tab present a refresh token it has spent, and so revoke its own
\* session, unless the answer with the new one was lost (refreshOnce, send).
OwnTokens ==
    /\ crossed \/ \A c \in Call : call[c].answer # 403
    /\ misused => lost \/ crossed

LoggedOut == shown.status = "AUTHENTICATED" /\ leaving = Quiet => owner[shown.auth] \notin left

\* After a logout the tab does not show that session again.
LogoutSticks == LoggedOut

\* Nor does any answer that was under way when the logout began bring it back:
\* only a page that sent a request during the logout could.
OldAnswersDropped == crossed \/ LoggedOut

\* A logout ends although refreshes, requests and lost answers overlap with it.
LogoutEnds == leaving # Quiet ~> leaving = Quiet

\* The tab does not stay on the page that restores the session.
RestoreEnds == shown = Restoring ~> shown # Restoring
=============================================================================
