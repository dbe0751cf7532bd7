-------------------------- MODULE SessionClientProofs --------------------------
(* Proofs about SessionClient, for every number of calls, grants and epochs.   *)
EXTENDS SessionClient, TLAPS

\* What the variables hold when n grants are issued.
ShownRow(n) ==
  [status: {"RESTORING", "ANONYMOUS", "AUTHENTICATED"}, auth: 0..n]
RefreshRow(n) ==
  [step: {"none", "sent", "answered"}, token: 0..n, answer: 0..n]
LoginRow(n) ==
  [step: {"none", "waits", "sent", "answered"}, epoch: Epochs, answer: 0..n]
LeavingRow(n) ==
  [step: {"none", "waits", "sent", "answered"}, token: 0..n, answer: {0}]
CallRow(n) ==
  [step: {"none", "waits", "sent", "answered"}, kind: {"data", "change"}, epoch: Epochs,
   sent: 0..n, again: BOOLEAN, answer: {0, 200, 401, 403}]

\* Every grant the tab holds was issued, for a session opened by then.
TypeOK ==
  /\ granted \in 0..MaxGrant
  /\ owner \in [Grants -> 0..MaxGrant] /\ \A g \in 1..granted : owner[g] \in 1..granted
  /\ last \in [Grants -> 0..granted]
  /\ revoked \subseteq Grants /\ limited \subseteq Grants /\ expired \in 0..granted
  /\ must \in BOOLEAN
  /\ cookie \in 0..granted /\ auth \in 0..granted
  /\ shown \in ShownRow(granted) /\ (shown.status = "AUTHENTICATED" <=> shown.auth # 0)
  /\ epoch \in Epochs
  /\ refreshing \in [Epochs -> RefreshRow(granted)]
  /\ login \in LoginRow(granted) /\ leaving \in LeavingRow(granted)
  /\ call \in [Call -> CallRow(granted)]
  /\ left \subseteq 1..granted
  /\ crossed \in BOOLEAN /\ lost \in BOOLEAN /\ misused \in BOOLEAN

\* A request of the epoch that is now.
Here(c)  == call[c] # Done /\ call[c].epoch = epoch
Going(e) == refreshing[e] # Quiet
SignedIn == shown.status = "AUTHENTICATED" /\ leaving = Quiet
Waits(c, e) == call[c].step = "waits" /\ call[c].epoch = e

\* No request with this access token passes any more.
Refused(g) == g = 0 \/ ~Accepts(g)

\* Neither requests nor refreshes are of epochs to come, a request answered 401
\* held a token that is refused for good, and only that makes it wait.
Grown ==
  /\ \A e \in Epochs : Going(e) => e <= epoch
  /\ \A c \in Call :
       /\ call[c] # Done => call[c].epoch <= epoch
       /\ call[c].step = "none" => call[c] = Done
       /\ call[c].step = "waits" => call[c].answer = 401 /\ ~call[c].again
       /\ call[c].step \in {"waits", "answered"} /\ call[c].answer = 401
            /\ call[c].kind = "data" => Refused(call[c].sent)

\* How far the calls of the provider have come.
Phases ==
  /\ login # NoLogin =>
       /\ shown = Anonymous /\ leaving = Quiet /\ login.epoch = epoch
       /\ ~Going(epoch) /\ \A c \in Call : ~Here(c)
  /\ login.step \in {"sent", "answered"} => Settled
  /\ leaving # Quiet =>
       shown # Anonymous /\ ~Going(epoch) /\ \A c \in Call : ~Here(c)
  /\ leaving.step \in {"sent", "answered"} => Settled
  /\ shown = Restoring /\ leaving = Quiet =>
       epoch = 0 /\ left = {} /\ \A c \in Call : call[c] = Done
  /\ IF SignedIn THEN shown.auth = auth /\ cookie = auth ELSE auth = 0

\* One refresh at a time: of the epoch that is now, unless login or logout wait for
\* it; with the cookie there is; for a request that waits, or to restore the tab.
Refreshes ==
  /\ \A e, f \in Epochs : Going(e) /\ Going(f) => e = f
  /\ \A e \in Epochs : Going(e) =>
       /\ leaving = Quiet /\ login = NoLogin => e = epoch
       /\ refreshing[e].token = cookie
       /\ (shown = Restoring /\ leaving = Quiet) \/ \E c \in Call : Waits(c, e)
       /\ \/ Refused(cookie)
          \/ \E c \in Call : Waits(c, e) /\ call[c].kind = "change"
       /\ refreshing[e].answer # 0 =>
            /\ refreshing[e].step = "answered"
            /\ cookie # 0 /\ IsLast(refreshing[e].answer)
            /\ owner[refreshing[e].answer] = owner[cookie]

\* Who holds a session's last tokens.
Lasts ==
  /\ \A c \in Call :
       /\ call[c].step = "sent" /\ ~Refused(call[c].sent) => IsLast(call[c].sent)
       /\ call[c].answer # 403
  /\ SignedIn => IsLast(auth) \/ refreshing[epoch].answer # 0
  /\ login.answer # 0 =>
       login.step = "answered" /\ owner[login.answer] \notin left /\ IsLast(login.answer)
  /\ ~lost => \/ cookie = 0 \/ IsLast(cookie)
              \/ \E e \in Epochs : refreshing[e].answer # 0
  /\ misused => lost

\* What the tab may come back with: a session it has not left; and a password is
\* changed by a signed-in tab that does nothing else.
Stale(c) == call[c].step = "answered" /\ call[c].again /\ call[c].answer = 401
Sessions ==
  /\ SignedIn => owner[shown.auth] \notin left
  /\ shown = Anonymous =>
       \A c \in Call : Here(c) /\ ~call[c].again =>
         Refused(cookie) /\ (cookie # 0 => owner[cookie] \notin left)
  /\ \A c \in Call : call[c].kind = "change" /\ ~Stale(c) =>
       /\ SignedIn /\ call[c].epoch = epoch /\ owner[shown.auth] \in limited
       /\ \A d \in Call : d # c => call[d] = Done

Uncrossed == Phases /\ Refreshes /\ Lasts /\ Sessions

IInv == TypeOK /\ Grown /\ (crossed \/ Uncrossed)

\* What every step does with it.
Kept == TypeOK' /\ Grown' /\ (Uncrossed /\ ~crossed' => Uncrossed')

LEMMA Bounds ==
  /\ MaxGrant \in Nat \ {0} /\ MaxEpoch \in Nat /\ 0 \in Epochs
  /\ \A e \in Epochs : e \in Nat
BY ClientAssumption DEF Epochs

LEMMA Fields ==
  /\ Done.step = "none" /\ Done.kind = "data" /\ Done.epoch = 0 /\ Done.sent = 0
  /\ Done.again = FALSE /\ Done.answer = 0
  /\ Quiet.step = "none" /\ Quiet.token = 0 /\ Quiet.answer = 0
  /\ NoLogin.step = "none" /\ NoLogin.epoch = 0 /\ NoLogin.answer = 0
  /\ Restoring.status = "RESTORING" /\ Restoring.auth = 0
  /\ Anonymous.status = "ANONYMOUS" /\ Anonymous.auth = 0
BY DEF Done, Quiet, NoLogin, Restoring, Anonymous

LEMMA Rows ==
  ASSUME NEW n \in Nat
  PROVE  /\ Restoring \in ShownRow(n) /\ Anonymous \in ShownRow(n)
         /\ \A g \in 0..n : Authenticated(g) \in ShownRow(n)
         /\ Quiet \in RefreshRow(n) /\ Quiet \in LeavingRow(n)
         /\ \A t \in 0..n : Sent(t) \in RefreshRow(n) /\ Sent(t) \in LeavingRow(n)
         /\ NoLogin \in LoginRow(n) /\ Done \in CallRow(n)
BY Bounds DEF ShownRow, RefreshRow, LoginRow, LeavingRow, CallRow, Restoring, Anonymous,
   Authenticated, Quiet, Sent, NoLogin, Done

LEMMA RowsGrow ==
  ASSUME NEW n \in Nat, NEW m \in Nat, n <= m
  PROVE  /\ ShownRow(n) \subseteq ShownRow(m) /\ RefreshRow(n) \subseteq RefreshRow(m)
         /\ LoginRow(n) \subseteq LoginRow(m) /\ LeavingRow(n) \subseteq LeavingRow(m)
         /\ CallRow(n) \subseteq CallRow(m)
BY DEF ShownRow, RefreshRow, LoginRow, LeavingRow, CallRow

-----------------------------------------------------------------------------
(* The start.                                                                  *)

LEMMA InitInv == Init => IInv
<1>. SUFFICES ASSUME Init
              PROVE  IInv
  OBVIOUS
<1>1. PICK held \in {0, 1}, temporary \in BOOLEAN :
        /\ granted = held
        /\ owner = [g \in Grants |-> IF g = held THEN 1 ELSE 0]
        /\ last = [s \in Grants |-> IF s = held THEN 1 ELSE 0]
        /\ revoked = {} /\ expired = held /\ must = temporary
        /\ limited = IF temporary /\ held = 1 THEN {1} ELSE {}
        /\ cookie = held /\ auth = 0 /\ shown = Restoring /\ epoch = 0
        /\ refreshing = [e \in Epochs |-> IF e = 0 THEN Sent(held) ELSE Quiet]
        /\ login = NoLogin /\ leaving = Quiet
        /\ call = [c \in Call |-> Done]
        /\ left = {} /\ crossed = FALSE /\ lost = FALSE /\ misused = FALSE
  BY DEF Init
<1>2. granted \in Nat /\ held \in 0..granted /\ granted \in 0..MaxGrant
  BY <1>1, Bounds
<1>3. TypeOK
  <2>1. /\ shown \in ShownRow(granted) /\ refreshing \in [Epochs -> RefreshRow(granted)]
        /\ login \in LoginRow(granted) /\ leaving \in LeavingRow(granted)
        /\ call \in [Call -> CallRow(granted)]
    BY <1>1, <1>2, Rows
  <2>2. owner \in [Grants -> 0..MaxGrant] /\ \A g \in 1..granted : owner[g] \in 1..granted
    BY <1>1, <1>2, Bounds DEF Grants
  <2>3. last \in [Grants -> 0..granted] /\ limited \subseteq Grants
    BY <1>1, <1>2, Bounds DEF Grants
  <2>4. shown.status = "AUTHENTICATED" <=> shown.auth # 0
    BY <1>1, Fields
  <2>5. /\ revoked \subseteq Grants /\ left \subseteq 1..granted /\ epoch \in Epochs
        /\ must \in BOOLEAN /\ crossed \in BOOLEAN /\ lost \in BOOLEAN /\ misused \in BOOLEAN
    BY <1>1, Bounds
  <2>6. /\ granted \in 0..MaxGrant /\ expired \in 0..granted
        /\ cookie \in 0..granted /\ auth \in 0..granted
    BY <1>1, <1>2
  <2>. QED
    BY <2>1, <2>2, <2>3, <2>4, <2>5, <2>6 DEF TypeOK
<1>4. \A e \in Epochs : Going(e) => e = 0 /\ refreshing[e] = Sent(cookie)
  BY <1>1 DEF Going
<1>5. Sent(cookie).token = cookie /\ Sent(cookie).answer = 0
  BY DEF Sent
<1>6. refreshing[epoch].answer = 0
  BY <1>1, <1>5, Bounds
<1>7. \A c \in Call : call[c] = Done
  BY <1>1
<1>8. SignedIn = FALSE
  BY <1>1, Fields DEF SignedIn
<1>9. Refused(cookie)
  BY <1>1 DEF Refused, Accepts
<1>10. Grown
  BY <1>1, <1>4, <1>7, Bounds, Fields DEF Grown
<1>11. Phases
  BY <1>1, <1>7, <1>8, Fields DEF Phases
<1>12. Refreshes
  BY <1>1, <1>4, <1>5, <1>9 DEF Refreshes
<1>13. Lasts
  BY <1>1, <1>7, <1>8, Fields, Bounds DEF Lasts, IsLast, Grants
<1>14. Sessions
  BY <1>1, <1>7, <1>8, Fields DEF Sessions
<1>. QED
  BY <1>3, <1>10, <1>11, <1>12, <1>13, <1>14 DEF IInv, Uncrossed

-----------------------------------------------------------------------------
(* The Worker.                                                                 *)

\* It issues grants, revokes sessions and lets tokens expire, and takes nothing back.
Onward ==
  /\ granted <= granted' /\ granted' \in Nat
  /\ \A g \in 1..granted : owner'[g] = owner[g]
  /\ revoked \subseteq revoked' /\ expired <= expired' /\ expired' \in Nat

LEMMA RefusedForGood ==
  ASSUME TypeOK, Onward
  PROVE  \A g \in 0..granted : Refused(g) => Refused(g)'
BY Bounds DEF TypeOK, Onward, Refused, Accepts

LEMMA FieldTypes ==
  ASSUME TypeOK
  PROVE  /\ \A c \in Call : /\ call[c].sent \in 0..granted /\ call[c].epoch \in Epochs
                            /\ call[c].again \in BOOLEAN
                            /\ call[c].step \in {"none", "waits", "sent", "answered"}
                            /\ call[c].kind \in {"data", "change"}
                            /\ call[c].answer \in {0, 200, 401, 403}
         /\ \A e \in Epochs : /\ refreshing[e].token \in 0..granted
                              /\ refreshing[e].answer \in 0..granted
                              /\ refreshing[e].step \in {"none", "sent", "answered"}
         /\ login.epoch \in Epochs /\ login.answer \in 0..granted
         /\ login.step \in {"none", "waits", "sent", "answered"}
         /\ leaving.token \in 0..granted
         /\ leaving.step \in {"none", "waits", "sent", "answered"}
         /\ shown.auth \in 0..granted
BY DEF TypeOK, CallRow, RefreshRow, LoginRow, LeavingRow, ShownRow

LEMMA Owners ==
  ASSUME TypeOK
  PROVE  /\ granted \in Nat /\ 1..granted \subseteq Grants
         /\ \A g \in 0..granted : g # 0 => owner[g] \in Grants /\ owner[g] \in 1..granted
<1>1. granted \in 0..MaxGrant /\ \A g \in 1..granted : owner[g] \in 1..granted
  BY DEF TypeOK
<1>2. granted \in Nat /\ 1..granted \subseteq Grants
  BY <1>1, Bounds DEF Grants
<1>3. \A g \in 0..granted : g # 0 => g \in 1..granted
  BY <1>2
<1>. QED
  BY <1>1, <1>2, <1>3

\* A step of the Worker that only revokes or lets expire.
LEMMA RevokingKeeps ==
  ASSUME TypeOK, Grown, revoked \subseteq revoked', revoked' \subseteq Grants,
         expired <= expired', expired' \in 0..granted,
         UNCHANGED <<granted, owner, last, limited, must>>,
         UNCHANGED <<cookie, auth, shown, epoch, refreshing, login, leaving, call>>,
         UNCHANGED history
  PROVE  Kept
<1>1. /\ granted' = granted /\ owner' = owner /\ last' = last /\ limited' = limited
      /\ must' = must /\ cookie' = cookie /\ auth' = auth /\ shown' = shown
      /\ epoch' = epoch /\ refreshing' = refreshing /\ login' = login
      /\ leaving' = leaving /\ call' = call /\ left' = left /\ crossed' = crossed
      /\ lost' = lost /\ misused' = misused
  BY DEF history
<1>2. Onward
  BY <1>1, Bounds DEF Onward, TypeOK
<1>3. \A g \in 0..granted : Refused(g) => Refused(g)'
  BY <1>2, RefusedForGood
<1>4. TypeOK'
  BY <1>1 DEF TypeOK
<1>5. Grown'
  BY <1>1, <1>3, FieldTypes DEF Grown, Going
<1>6. ASSUME Uncrossed PROVE Uncrossed'
  <2>1. Phases'
    BY <1>1, <1>6 DEF Uncrossed, Phases, Going, Here, Settled, SignedIn
  <2>2. cookie \in 0..granted
    BY DEF TypeOK
  <2>3. Refreshes'
    BY <1>1, <1>3, <1>6, <2>2 DEF Uncrossed, Refreshes, Going, Waits, IsLast
  <2>4. Lasts'
    BY <1>1, <1>3, <1>6, FieldTypes DEF Uncrossed, Lasts, SignedIn, IsLast
  <2>5. Sessions'
    BY <1>1, <1>3, <1>6, <2>2 DEF Uncrossed, Sessions, SignedIn, Stale, Here
  <2>. QED
    BY <2>1, <2>3, <2>4, <2>5 DEF Uncrossed
<1>. QED
  BY <1>1, <1>4, <1>5, <1>6 DEF Kept

LEMMA AccessExpiresKeeps == TypeOK /\ Grown /\ AccessExpires => Kept
<1>. SUFFICES ASSUME TypeOK, Grown, AccessExpires PROVE Kept
  OBVIOUS
<1>1. /\ UNCHANGED <<granted, owner, last, limited, must>>
      /\ UNCHANGED <<cookie, auth, shown, epoch, refreshing, login, leaving, call>>
      /\ UNCHANGED history /\ revoked' = revoked /\ expired < granted
      /\ expired' = expired + 1
  BY DEF AccessExpires
<1>2. revoked \subseteq revoked' /\ revoked' \subseteq Grants
      /\ expired <= expired' /\ expired' \in 0..granted
  BY <1>1 DEF TypeOK
<1>. QED
  BY <1>1, <1>2, RevokingKeeps

LEMMA SessionRevokedKeeps == TypeOK /\ Grown /\ SessionRevoked => Kept
<1>. SUFFICES ASSUME TypeOK, Grown, SessionRevoked PROVE Kept
  OBVIOUS
<1>1. /\ UNCHANGED <<granted, owner, last, limited, must>>
      /\ UNCHANGED <<cookie, auth, shown, epoch, refreshing, login, leaving, call>>
      /\ UNCHANGED history /\ expired' = expired
      /\ \E s \in Grants : revoked' = revoked \union {s}
  BY DEF SessionRevoked
<1>2. revoked \subseteq revoked' /\ revoked' \subseteq Grants
      /\ expired <= expired' /\ expired' \in 0..granted
  BY <1>1 DEF TypeOK
<1>. QED
  BY <1>1, <1>2, RevokingKeeps

LEMMA ServeLogoutKeeps == TypeOK /\ Grown /\ ServeLogout => Kept
<1>. SUFFICES ASSUME TypeOK, Grown, ServeLogout PROVE Kept
  OBVIOUS
<1>1. /\ granted' = granted /\ owner' = owner /\ last' = last /\ limited' = limited
      /\ must' = must /\ expired' = expired
      /\ cookie' = cookie /\ auth' = auth /\ shown' = shown
      /\ epoch' = epoch /\ refreshing' = refreshing /\ login' = login
      /\ call' = call /\ left' = left /\ crossed' = crossed
      /\ lost' = lost /\ misused' = misused
      /\ leaving.step = "sent" /\ leaving' = Answered(leaving, 0)
      /\ revoked' = IF leaving.token = 0 THEN revoked
                    ELSE revoked \union {owner[leaving.token]}
  BY DEF ServeLogout, history
<1>2. revoked \subseteq revoked' /\ revoked' \subseteq Grants
  BY <1>1, Owners, FieldTypes DEF TypeOK
<1>3. \A g \in 0..granted : Refused(g) => Refused(g)'
  <2>1. granted \in Nat /\ expired \in Nat
    BY Bounds DEF TypeOK
  <2>2. Onward
    BY <1>1, <1>2, <2>1 DEF Onward
  <2>. QED
    BY <2>2, RefusedForGood
<1>4. leaving # Quiet /\ leaving' # Quiet /\ leaving'.step = "answered"
      /\ leaving' \in LeavingRow(granted)
  BY <1>1, Fields DEF TypeOK, LeavingRow, Answered
<1>5. TypeOK'
  BY <1>1, <1>2, <1>4 DEF TypeOK
<1>6. Grown'
  BY <1>1, <1>3, FieldTypes DEF Grown, Going
<1>7. ASSUME Uncrossed PROVE Uncrossed'
  <2>1. Phases'
    BY <1>1, <1>4, <1>7 DEF Uncrossed, Phases, Going, Here, Settled, SignedIn
  <2>2. cookie \in 0..granted
    BY DEF TypeOK
  <2>3. Refreshes'
    BY <1>1, <1>3, <1>4, <1>7, <2>2 DEF Uncrossed, Refreshes, Going, Waits, IsLast
  <2>4. Lasts'
    BY <1>1, <1>3, <1>4, <1>7, FieldTypes DEF Uncrossed, Lasts, SignedIn, IsLast
  <2>5. Sessions'
    BY <1>1, <1>3, <1>4, <1>7, <2>2 DEF Uncrossed, Sessions, SignedIn, Stale, Here
  <2>. QED
    BY <2>1, <2>3, <2>4, <2>5 DEF Uncrossed
<1>. QED
  BY <1>1, <1>5, <1>6, <1>7 DEF Kept

\* A grant takes the next number and leaves the older ones to their sessions.
LEMMA Granting ==
  ASSUME TypeOK, CanGrant, NEW s \in 1..(granted + 1), Grant(s)
  PROVE  /\ granted' = granted + 1 /\ granted' \in 0..MaxGrant /\ granted' \in Nat
         /\ granted \in Nat /\ granted <= granted' /\ 0..granted \subseteq 0..granted'
         /\ owner' \in [Grants -> 0..MaxGrant]
         /\ \A g \in 1..granted' : owner'[g] \in 1..granted'
         /\ last' \in [Grants -> 0..granted']
         /\ \A g \in 1..granted : owner'[g] = owner[g]
         /\ owner'[granted'] = s
         /\ last'[s] = granted'
         /\ \A t \in Grants : t # s => last'[t] = last[t]
<1>1. /\ granted' = granted + 1 /\ granted \in Nat /\ granted < MaxGrant /\ MaxGrant \in Nat
      /\ owner' = [owner EXCEPT ![granted + 1] = s]
      /\ last' = [last EXCEPT ![s] = granted + 1]
  BY Bounds DEF Grant, CanGrant, TypeOK
<1>2. granted + 1 \in Grants /\ s \in Grants
  BY <1>1 DEF Grants
<1>3. /\ owner \in [Grants -> 0..MaxGrant] /\ \A g \in 1..granted : owner[g] \in 1..granted
      /\ last \in [Grants -> 0..granted]
  BY DEF TypeOK
<1>4. /\ owner' \in [Grants -> 0..MaxGrant] /\ owner'[granted + 1] = s
      /\ \A g \in 1..granted : owner'[g] = owner[g]
  BY <1>1, <1>2, <1>3 DEF Grants
<1>5. last' \in [Grants -> 0..granted'] /\ last'[s] = granted'
      /\ \A t \in Grants : t # s => last'[t] = last[t]
  BY <1>1, <1>2, <1>3
<1>6. \A g \in 1..granted' : owner'[g] \in 1..granted'
  BY <1>1, <1>3, <1>4
<1>. QED
  BY <1>1, <1>4, <1>5, <1>6

\* The variables that no grant takes out of their types.
LEMMA GrantedTypes ==
  ASSUME TypeOK, granted' \in Nat, granted <= granted'
  PROVE  /\ shown \in ShownRow(granted') /\ login \in LoginRow(granted')
         /\ leaving \in LeavingRow(granted') /\ call \in [Call -> CallRow(granted')]
         /\ refreshing \in [Epochs -> RefreshRow(granted')]
         /\ cookie \in 0..granted' /\ auth \in 0..granted' /\ expired \in 0..granted'
         /\ left \subseteq 1..granted' /\ left \subseteq 1..granted
<1>1. granted \in Nat
  BY Bounds DEF TypeOK
<1>2. /\ ShownRow(granted) \subseteq ShownRow(granted')
      /\ RefreshRow(granted) \subseteq RefreshRow(granted')
      /\ LoginRow(granted) \subseteq LoginRow(granted')
      /\ LeavingRow(granted) \subseteq LeavingRow(granted')
      /\ CallRow(granted) \subseteq CallRow(granted')
  BY <1>1, RowsGrow
<1>3. 0..granted \subseteq 0..granted' /\ 1..granted \subseteq 1..granted'
  BY <1>1
<1>. QED
  BY <1>2, <1>3 DEF TypeOK

\* An answer of a login.
LEMMA LoginAnswer ==
  ASSUME TypeOK, NEW n \in Nat, granted <= n, NEW h \in 0..n
  PROVE  /\ Answered(login, h) \in LoginRow(n)
         /\ Answered(login, h).step = "answered"
         /\ Answered(login, h).epoch = login.epoch /\ Answered(login, h).answer = h
BY DEF TypeOK, LoginRow, Answered

LEMMA ServeLoginKeeps == TypeOK /\ Grown /\ ServeLogin => Kept
<1>. SUFFICES ASSUME TypeOK, Grown, ServeLogin PROVE Kept
  OBVIOUS
<1>1. /\ revoked' = revoked /\ must' = must /\ expired' = expired
      /\ cookie' = cookie /\ auth' = auth /\ shown' = shown
      /\ epoch' = epoch /\ refreshing' = refreshing /\ leaving' = leaving
      /\ call' = call /\ left' = left /\ crossed' = crossed
      /\ lost' = lost /\ misused' = misused /\ login.step = "sent"
  BY DEF ServeLogin, history
<1>2. login # NoLogin
  BY <1>1, Fields
<1>3. CASE /\ login' = Answered(login, 0)
           /\ UNCHANGED <<granted, owner, last, limited>>
  <2>1. granted' = granted /\ owner' = owner /\ last' = last /\ limited' = limited
    BY <1>3
  <2>2. /\ login' \in LoginRow(granted) /\ login'.step = "answered"
        /\ login'.epoch = login.epoch /\ login'.answer = 0
    BY <1>3, LoginAnswer, Owners
  <2>3. login' # NoLogin
    BY <2>2, Fields
  <2>4. TypeOK'
    BY <1>1, <2>1, <2>2 DEF TypeOK
  <2>5. Grown'
    BY <1>1, <2>1 DEF Grown, Going, Refused, Accepts
  <2>6. ASSUME Uncrossed PROVE Uncrossed'
    <3>1. Phases'
      BY <1>1, <1>2, <2>1, <2>2, <2>3, <2>6
      DEF Uncrossed, Phases, Going, Here, Settled, SignedIn
    <3>2. Refreshes'
      BY <1>1, <1>2, <2>1, <2>2, <2>3, <2>6
      DEF Uncrossed, Refreshes, Going, Waits, IsLast, Refused, Accepts
    <3>3. Lasts'
      BY <1>1, <1>2, <2>1, <2>2, <2>3, <2>6
      DEF Uncrossed, Lasts, SignedIn, IsLast, Refused, Accepts
    <3>4. Sessions'
      BY <1>1, <1>2, <2>1, <2>2, <2>3, <2>6
      DEF Uncrossed, Sessions, SignedIn, Stale, Here, Refused, Accepts
    <3>. QED
      BY <3>1, <3>2, <3>3, <3>4 DEF Uncrossed
  <2>. QED
    BY <1>1, <2>4, <2>5, <2>6 DEF Kept
<1>4. CASE /\ CanGrant
           /\ Grant(granted + 1)
           /\ limited' = IF must THEN limited \union {granted + 1} ELSE limited
           /\ login' = Answered(login, granted + 1)
  <2>1. granted \in Nat /\ granted + 1 \in 1..(granted + 1)
    BY Owners
  <2>2. /\ granted' = granted + 1 /\ granted' \in 0..MaxGrant /\ granted' \in Nat
        /\ granted <= granted' /\ 0..granted \subseteq 0..granted'
        /\ owner' \in [Grants -> 0..MaxGrant]
        /\ \A g \in 1..granted' : owner'[g] \in 1..granted'
        /\ last' \in [Grants -> 0..granted']
        /\ \A g \in 1..granted : owner'[g] = owner[g]
        /\ owner'[granted'] = granted'
        /\ last'[granted'] = granted'
        /\ \A t \in Grants : t # granted + 1 => last'[t] = last[t]
    BY <1>4, <2>1, Granting
  <2>3. /\ login' \in LoginRow(granted') /\ login'.step = "answered"
        /\ login'.epoch = login.epoch /\ login'.answer = granted'
    BY <1>4, <2>2, LoginAnswer
  <2>4. login' # NoLogin
    BY <2>3, Fields
  <2>5. limited \subseteq limited' /\ limited' \subseteq Grants
    <3>1. granted + 1 \in Grants
      BY <2>1, <2>2 DEF Grants
    <3>. QED
      BY <1>4, <3>1 DEF TypeOK
  <2>6. \A g \in 1..granted : IsLast(g) => IsLast(g)'
    <3>1. \A g \in 1..granted : owner[g] \in Grants /\ owner[g] # granted + 1
      BY <2>1, Owners
    <3>. QED
      BY <2>2, <3>1 DEF IsLast
  <2>7. \A g \in 0..granted : Refused(g) => Refused(g)'
    <3>1. Onward
      BY <1>1, <2>2, Owners DEF Onward, TypeOK
    <3>. QED
      BY <3>1, RefusedForGood
  <2>8. TypeOK'
    BY <1>1, <2>2, <2>3, <2>5, GrantedTypes DEF TypeOK
  <2>9. Grown'
    BY <1>1, <2>7, FieldTypes DEF Grown, Going
  <2>10. ASSUME Uncrossed PROVE Uncrossed'
    <3>1. Phases'
      BY <1>1, <1>2, <2>3, <2>4, <2>10
      DEF Uncrossed, Phases, Going, Here, Settled, SignedIn
    <3>2. Refreshes'
      BY <1>1, <1>2, <2>3, <2>4, <2>10 DEF Uncrossed, Refreshes, Phases, Settled, Going
    <3>3. Lasts'
      <4>1. auth \in 0..granted /\ cookie \in 0..granted /\ left \subseteq 1..granted
        BY GrantedTypes, <2>2 DEF TypeOK
      <4>2. \A c \in Call : ~Refused(call[c].sent)' =>
              ~Refused(call[c].sent) /\ call[c].sent \in 1..granted
        BY <1>1, <2>1, <2>7, FieldTypes DEF Refused
      <4>3. shown = Anonymous
        BY <1>2, <2>10 DEF Uncrossed, Phases
      <4>4. ~SignedIn /\ ~SignedIn'
        BY <1>1, <4>3, Fields DEF SignedIn
      <4>5. \A c \in Call : /\ call'[c].step = "sent" /\ ~Refused(call[c].sent)'
                               => IsLast(call[c].sent)'
                            /\ call'[c].answer # 403
        BY <1>1, <2>6, <4>2, <2>10 DEF Uncrossed, Lasts
      <4>6. login'.answer # 0 => login'.step = "answered" /\ owner'[login'.answer] \notin left'
                                 /\ IsLast(login.answer)'
        <5>1. granted' # 0 /\ granted' \notin left
          BY <2>1, <2>2, <4>1
        <5>. QED
          BY <1>1, <2>2, <2>3, <5>1 DEF IsLast
      <4>7. ~lost' => \/ cookie' = 0 \/ IsLast(cookie)'
                      \/ \E e \in Epochs : refreshing'[e].answer # 0
        BY <1>1, <2>1, <2>6, <4>1, <2>10 DEF Uncrossed, Lasts
      <4>. QED
        BY <1>1, <4>4, <4>5, <4>6, <4>7, <2>10 DEF Uncrossed, Lasts
    <3>4. Sessions'
      <4>1. cookie \in 0..granted /\ shown = Anonymous
        BY <1>2, <2>10 DEF TypeOK, Uncrossed, Phases
      <4>2. cookie # 0 => owner'[cookie] = owner[cookie]
        BY <2>1, <2>2, <4>1
      <4>3. ~SignedIn /\ ~SignedIn'
        BY <1>1, <4>1, Fields DEF SignedIn
      <4>. QED
        BY <1>1, <4>1, <4>2, <4>3, <2>7, <2>10 DEF Uncrossed, Sessions, Stale, Here
    <3>. QED
      BY <3>1, <3>2, <3>3, <3>4 DEF Uncrossed
  <2>. QED
    BY <1>1, <2>8, <2>9, <2>10 DEF Kept
<1>. QED
  BY <1>3, <1>4 DEF ServeLogin

\* The answer to a request: 401 for a token that is refused or a wrong password,
\* 403 for a CSRF token that was replaced.
Serves(c, status) ==
  /\ call[c].step = "sent" /\ status \in {200, 401, 403}
  /\ call' = [call EXCEPT ![c].step = "answered", ![c].answer = status]
  /\ status = 401 => Refused(call[c].sent) \/ call[c].kind = "change"
  /\ status = 403 => ~Refused(call[c].sent) /\ ~IsLast(call[c].sent)

LEMMA ServedRow ==
  ASSUME TypeOK, NEW c \in Call, NEW status, Serves(c, status)
  PROVE  /\ call'[c].step = "answered" /\ call'[c].answer = status
         /\ call'[c].kind = call[c].kind /\ call'[c].epoch = call[c].epoch
         /\ call'[c].sent = call[c].sent /\ call'[c].again = call[c].again
         /\ \A d \in Call : d # c => call'[d] = call[d]
         /\ call' \in [Call -> CallRow(granted)]
<1>. DEFINE first == [call EXCEPT ![c].step = "answered"]
<1>1. call \in [Call -> CallRow(granted)] /\ status \in {0, 200, 401, 403}
  BY DEF TypeOK, Serves
<1>2. /\ first[c].step = "answered" /\ first[c].kind = call[c].kind
      /\ first[c].epoch = call[c].epoch /\ first[c].sent = call[c].sent
      /\ first[c].again = call[c].again
      /\ \A d \in Call : d # c => first[d] = call[d]
      /\ first \in [Call -> CallRow(granted)]
  BY <1>1 DEF CallRow
<1>3. call' = [first EXCEPT ![c].answer = status]
  BY DEF Serves
<1>. HIDE DEF first
<1>. QED
  BY <1>1, <1>2, <1>3 DEF CallRow

LEMMA ServedKeeps ==
  ASSUME TypeOK, Grown, NEW c \in Call, NEW status, Serves(c, status),
         revoked \subseteq revoked', revoked' \subseteq Grants, must' \in BOOLEAN,
         UNCHANGED <<granted, owner, last, limited, expired, cookie, auth, shown, epoch,
                     refreshing, login, leaving, history>>
  PROVE  Kept
<1>1. /\ granted' = granted /\ owner' = owner /\ last' = last /\ limited' = limited
      /\ expired' = expired
      /\ cookie' = cookie /\ auth' = auth /\ shown' = shown
      /\ epoch' = epoch /\ refreshing' = refreshing /\ login' = login
      /\ leaving' = leaving /\ left' = left /\ crossed' = crossed
      /\ lost' = lost /\ misused' = misused
  BY DEF history
<1>2. /\ call'[c].step = "answered" /\ call'[c].answer = status
      /\ call'[c].kind = call[c].kind /\ call'[c].epoch = call[c].epoch
      /\ call'[c].sent = call[c].sent /\ call'[c].again = call[c].again
      /\ \A d \in Call : d # c => call'[d] = call[d]
      /\ call' \in [Call -> CallRow(granted)]
      /\ call[c].step = "sent"
      /\ status = 401 => Refused(call[c].sent) \/ call[c].kind = "change"
      /\ status = 403 => ~Refused(call[c].sent) /\ ~IsLast(call[c].sent)
  <2>1. /\ call[c].step = "sent"
        /\ status = 401 => Refused(call[c].sent) \/ call[c].kind = "change"
        /\ status = 403 => ~Refused(call[c].sent) /\ ~IsLast(call[c].sent)
    BY DEF Serves
  <2>. QED
    BY <2>1, ServedRow
<1>3. call[c] # Done /\ call'[c] # Done
  BY <1>2, Fields
<1>4. \A g \in 0..granted : Refused(g) => Refused(g)'
  <2>1. granted \in Nat /\ expired \in Nat
    BY Bounds DEF TypeOK
  <2>2. Onward
    BY <1>1, <2>1 DEF Onward
  <2>. QED
    BY <2>2, RefusedForGood
<1>5. TypeOK'
  BY <1>1, <1>2 DEF TypeOK
<1>6. Grown'
  <2>1. \A e \in Epochs : Going(e)' => e <= epoch
    BY <1>1 DEF Grown, Going
  <2>2. \A d \in Call :
       /\ call'[d] # Done => call'[d].epoch <= epoch
       /\ call'[d].step = "none" => call'[d] = Done
       /\ call'[d].step = "waits" => call'[d].answer = 401 /\ ~call'[d].again
    BY <1>2, <1>3 DEF Grown
  <2>3. \A d \in Call :
       call'[d].step \in {"waits", "answered"} /\ call'[d].answer = 401
          /\ call'[d].kind = "data" => Refused(call[d].sent) /\ call'[d].sent = call[d].sent
    BY <1>2 DEF Grown
  <2>4. \A d \in Call : call'[d].sent = call[d].sent /\ call[d].sent \in 0..granted
    BY <1>2, FieldTypes
  <2>. QED
    BY <1>1, <2>1, <2>2, <2>3, <2>4, <1>4 DEF Grown
<1>7. ASSUME Uncrossed PROVE Uncrossed'
  <2>1. Phases'
    BY <1>1, <1>2, <1>3, <1>7 DEF Uncrossed, Phases, Going, Here, Settled, SignedIn
  <2>2. cookie \in 0..granted
    BY DEF TypeOK
  <2>3. \A d \in Call, e \in Epochs : Waits(d, e)' <=> Waits(d, e)
    BY <1>2 DEF Waits
  <2>4. Refreshes'
    BY <1>1, <1>2, <1>4, <1>7, <2>2, <2>3 DEF Uncrossed, Refreshes, Going, IsLast
  <2>5. Lasts'
    <3>1. status # 403
      BY <1>2, <1>7 DEF Uncrossed, Lasts
    <3>2. \A d \in Call :
             /\ call'[d].step = "sent" => call'[d] = call[d] /\ call[d].step = "sent"
             /\ call'[d].answer # 403
      BY <1>2, <1>7, <3>1 DEF Uncrossed, Lasts
    <3>. QED
      BY <1>1, <1>4, <1>7, <3>2, FieldTypes DEF Uncrossed, Lasts, SignedIn, IsLast
  <2>6. Sessions'
    <3>1. \A d \in Call : Here(d)' <=> Here(d)
      BY <1>1, <1>2, <1>3 DEF Here
    <3>2. \A d \in Call : call'[d].again = call[d].again /\ call'[d].kind = call[d].kind
                          /\ call'[d].epoch = call[d].epoch
      BY <1>2
    <3>3. \A d \in Call : ~Stale(d)' => ~Stale(d)
      BY <1>2 DEF Stale
    <3>4. \A d \in Call : call[d].kind = "change" /\ ~Stale(d) => d = c
      BY <1>3, <1>7 DEF Uncrossed, Sessions
    <3>5. \A d \in Call : call'[d].kind = "change" /\ ~Stale(d)' =>
             /\ SignedIn' /\ call'[d].epoch = epoch' /\ owner'[shown'.auth] \in limited'
             /\ \A f \in Call : f # d => call'[f] = Done
      BY <1>1, <1>2, <1>7, <3>2, <3>3, <3>4 DEF Uncrossed, Sessions, SignedIn
    <3>. QED
      BY <1>1, <1>4, <1>7, <2>2, <3>1, <3>2, <3>5 DEF Uncrossed, Sessions, SignedIn
  <2>. QED
    BY <2>1, <2>4, <2>5, <2>6 DEF Uncrossed
<1>. QED
  BY <1>1, <1>5, <1>6, <1>7 DEF Kept

LEMMA ServeCallKeeps ==
  ASSUME TypeOK, Grown, NEW c \in Call, ServeCall(c)
  PROVE  Kept
<1>1. /\ call[c].step = "sent"
      /\ UNCHANGED <<granted, owner, last, limited, expired, cookie, auth, shown, epoch,
                     refreshing, login, leaving, history>>
  BY DEF ServeCall
<1>2. revoked \subseteq Grants /\ must \in BOOLEAN
      /\ revoked \union {owner[h] : h \in 1..granted} \subseteq Grants
  BY Owners DEF TypeOK
<1>3. CASE /\ call[c].sent = 0 \/ ~Accepts(call[c].sent)
           /\ call' = [call EXCEPT ![c].step = "answered", ![c].answer = 401]
           /\ revoked' = revoked /\ must' = must
  <2>1. Serves(c, 401)
    BY <1>1, <1>3 DEF Refused, Serves
  <2>. QED
    BY <1>1, <1>2, <1>3, <2>1, ServedKeeps
<1>4. CASE /\ call[c].sent # 0 /\ Accepts(call[c].sent) /\ ~IsLast(call[c].sent)
           /\ call' = [call EXCEPT ![c].step = "answered", ![c].answer = 403]
           /\ revoked' = revoked /\ must' = must
  <2>1. Serves(c, 403)
    BY <1>1, <1>4 DEF Refused, Serves
  <2>. QED
    BY <1>1, <1>2, <1>4, <2>1, ServedKeeps
<1>5. CASE /\ call' = [call EXCEPT ![c].step = "answered", ![c].answer = 200]
           /\ revoked' \in {revoked, revoked \union {owner[h] : h \in 1..granted}}
           /\ must' \in {must, FALSE}
  <2>1. Serves(c, 200)
    BY <1>1, <1>5 DEF Serves
  <2>2. revoked \subseteq revoked' /\ revoked' \subseteq Grants /\ must' \in BOOLEAN
    BY <1>2, <1>5
  <2>. QED
    BY <1>1, <2>1, <2>2, ServedKeeps
<1>6. CASE /\ call[c].kind = "change"
           /\ call' = [call EXCEPT ![c].step = "answered", ![c].answer = 401]
           /\ revoked' = revoked /\ must' = must
  <2>1. Serves(c, 401)
    BY <1>1, <1>6 DEF Serves
  <2>. QED
    BY <1>1, <1>2, <1>6, <2>1, ServedKeeps
<1>. QED
  BY <1>3, <1>4, <1>5, <1>6 DEF ServeCall

\* The answer to a refresh.
RefreshAnswers(e, h) ==
  refreshing[e].step = "sent" /\ refreshing' = [refreshing EXCEPT ![e] = Answered(@, h)]

LEMMA RefreshedRow ==
  ASSUME TypeOK, NEW e \in Epochs, NEW n \in Nat, granted <= n, NEW h \in 0..n,
         RefreshAnswers(e, h)
  PROVE  /\ refreshing' \in [Epochs -> RefreshRow(n)]
         /\ refreshing'[e].step = "answered" /\ refreshing'[e].answer = h
         /\ refreshing'[e].token = refreshing[e].token
         /\ \A f \in Epochs : f # e => refreshing'[f] = refreshing[f]
         /\ refreshing[e] # Quiet /\ refreshing'[e] # Quiet
<1>. DEFINE row == Answered(refreshing[e], h)
<1>1. refreshing \in [Epochs -> RefreshRow(n)] /\ refreshing[e] \in RefreshRow(n)
  BY GrantedTypes, Owners, RowsGrow DEF TypeOK
<1>2. /\ row \in RefreshRow(n) /\ row.step = "answered" /\ row.answer = h
      /\ row.token = refreshing[e].token
  BY <1>1 DEF RefreshRow, Answered
<1>3. refreshing' = [refreshing EXCEPT ![e] = row] /\ refreshing[e].step = "sent"
  BY DEF RefreshAnswers
<1>. HIDE DEF row
<1>4. refreshing'[e] = row
  BY <1>1, <1>3
<1>. QED
  BY <1>1, <1>2, <1>3, <1>4, Fields

\* A refresh that is refused, or that the Worker fails to grant.
RefreshFails(e) ==
  /\ RefreshAnswers(e, 0)
  /\ revoked \subseteq revoked' /\ revoked' \subseteq Grants
  /\ \/ misused' = misused
     \/ refreshing[e].token # 0 /\ ~IsLast(refreshing[e].token) /\ misused' = TRUE
  /\ UNCHANGED <<granted, owner, last, limited, expired, must, cookie, auth, shown, epoch,
                 login, leaving, call, left, crossed, lost>>

LEMMA RefreshFailsKeeps ==
  ASSUME TypeOK, Grown, NEW e \in Epochs, RefreshFails(e)
  PROVE  Kept
<1>1. /\ granted' = granted /\ owner' = owner /\ last' = last /\ limited' = limited
      /\ expired' = expired /\ must' = must
      /\ cookie' = cookie /\ auth' = auth /\ shown' = shown
      /\ epoch' = epoch /\ login' = login /\ call' = call
      /\ leaving' = leaving /\ left' = left /\ crossed' = crossed /\ lost' = lost
      /\ revoked \subseteq revoked' /\ revoked' \subseteq Grants
  BY DEF RefreshFails
<1>2. /\ refreshing' \in [Epochs -> RefreshRow(granted)]
      /\ refreshing'[e].step = "answered" /\ refreshing'[e].answer = 0
      /\ refreshing'[e].token = refreshing[e].token
      /\ \A f \in Epochs : f # e => refreshing'[f] = refreshing[f]
      /\ refreshing[e] # Quiet /\ refreshing'[e] # Quiet
  BY RefreshedRow, Owners DEF RefreshFails
<1>3. /\ refreshing[e].step = "sent"
      /\ \/ misused' = misused
         \/ refreshing[e].token # 0 /\ ~IsLast(refreshing[e].token) /\ misused' = TRUE
  BY DEF RefreshFails, RefreshAnswers
<1>4. \A g \in 0..granted : Refused(g) => Refused(g)'
  <2>1. granted \in Nat /\ expired \in Nat
    BY Bounds DEF TypeOK
  <2>2. Onward
    BY <1>1, <2>1 DEF Onward
  <2>. QED
    BY <2>2, RefusedForGood
<1>5. \A f \in Epochs : Going(f)' <=> Going(f)
  BY <1>2 DEF Going
<1>6. TypeOK'
  BY <1>1, <1>2, <1>3 DEF TypeOK
<1>7. Grown'
  BY <1>1, <1>4, <1>5, FieldTypes DEF Grown
<1>8. ASSUME Uncrossed PROVE Uncrossed'
  <2>0. cookie \in 0..granted
    BY DEF TypeOK
  <2>1. Going(e) /\ refreshing[e].answer = 0 /\ refreshing[e].token = cookie
    BY <1>2, <1>3, <1>8 DEF Uncrossed, Refreshes, Going
  <2>2. \A f \in Epochs : refreshing'[f].answer = refreshing[f].answer
                          /\ refreshing'[f].token = refreshing[f].token
    BY <1>2, <2>1
  <2>3. \A f \in Epochs : refreshing[f].answer # 0 => FALSE
    <3>1. \A f \in Epochs : refreshing[f].answer # 0 => Going(f)
      BY Fields DEF Going
    <3>. QED
      BY <2>1, <3>1, <1>8 DEF Uncrossed, Refreshes
  <2>4. Phases'
    <3>1. Settled' <=> Settled
      BY <1>5 DEF Settled, Going
    <3>. QED
      BY <1>1, <1>5, <1>8, <3>1, Bounds DEF Uncrossed, Phases, Here, SignedIn, TypeOK
  <2>5. Refreshes'
    BY <1>1, <1>4, <1>5, <1>8, <2>0, <2>2, <2>3 DEF Uncrossed, Refreshes, Waits
  <2>6. Lasts'
    <3>1. misused' => lost
      BY <1>3, <1>8, <2>1, <2>3 DEF Uncrossed, Lasts
    <3>2. epoch \in Epochs
      BY DEF TypeOK
    <3>. QED
      BY <1>1, <1>4, <1>8, <2>2, <3>1, <3>2, FieldTypes DEF Uncrossed, Lasts, SignedIn, IsLast
  <2>7. Sessions'
    BY <1>1, <1>4, <1>8, <2>0 DEF Uncrossed, Sessions, SignedIn, Stale, Here
  <2>. QED
    BY <2>4, <2>5, <2>6, <2>7 DEF Uncrossed
<1>. QED
  BY <1>1, <1>6, <1>7, <1>8 DEF Kept

RefreshGranted(e) ==
  /\ Usable(refreshing[e].token) /\ CanGrant
  /\ Grant(owner[refreshing[e].token])
  /\ RefreshAnswers(e, granted + 1)
  /\ UNCHANGED <<revoked, misused, limited, expired, must, cookie, auth, shown, epoch,
                 login, leaving, call, left, crossed, lost>>

\* No request is under way with the CSRF token that is replaced: its access token
\* is refused, or a change of the password waits and is alone.
LEMMA RefreshGrantedKeeps ==
  ASSUME TypeOK, Grown, NEW e \in Epochs, RefreshGranted(e)
  PROVE  Kept
<1>. DEFINE s == owner[refreshing[e].token]
<1>1. /\ limited' = limited /\ revoked' = revoked
      /\ expired' = expired /\ must' = must
      /\ cookie' = cookie /\ auth' = auth /\ shown' = shown
      /\ epoch' = epoch /\ login' = login /\ call' = call
      /\ leaving' = leaving /\ left' = left /\ crossed' = crossed /\ lost' = lost
      /\ misused' = misused
  BY DEF RefreshGranted
<1>2. /\ refreshing[e].token \in 1..granted /\ IsLast(refreshing[e].token)
      /\ refreshing[e].step = "sent" /\ s \in 1..granted /\ s \in Grants
  <2>1. /\ refreshing[e].token # 0 /\ IsLast(refreshing[e].token)
        /\ refreshing[e].step = "sent"
    BY DEF RefreshGranted, Usable, RefreshAnswers
  <2>2. refreshing[e].token \in 0..granted /\ granted \in Nat
    BY Owners, FieldTypes
  <2>. QED
    BY <2>1, <2>2, Owners
<1>3. /\ granted' = granted + 1 /\ granted' \in 0..MaxGrant /\ granted' \in Nat
      /\ granted \in Nat /\ granted <= granted' /\ 0..granted \subseteq 0..granted'
      /\ owner' \in [Grants -> 0..MaxGrant]
      /\ \A g \in 1..granted' : owner'[g] \in 1..granted'
      /\ last' \in [Grants -> 0..granted']
      /\ \A g \in 1..granted : owner'[g] = owner[g]
      /\ owner'[granted'] = s
      /\ last'[s] = granted'
      /\ \A t \in Grants : t # s => last'[t] = last[t]
  <2>1. granted \in Nat
    BY Owners
  <2>2. s \in 1..(granted + 1)
    BY <1>2, <2>1
  <2>3. CanGrant /\ Grant(s)
    BY DEF RefreshGranted
  <2>. HIDE DEF s
  <2>. QED
    BY <2>2, <2>3, Granting
<1>4. /\ refreshing' \in [Epochs -> RefreshRow(granted')]
      /\ refreshing'[e].step = "answered" /\ refreshing'[e].answer = granted'
      /\ refreshing'[e].token = refreshing[e].token
      /\ \A f \in Epochs : f # e => refreshing'[f] = refreshing[f]
      /\ refreshing[e] # Quiet /\ refreshing'[e] # Quiet
  <2>1. granted' \in 0..granted' /\ RefreshAnswers(e, granted')
    BY <1>3 DEF RefreshGranted
  <2>. QED
    BY <1>3, <2>1, RefreshedRow
<1>. HIDE DEF s
<1>5. \A g \in 0..granted : Refused(g) => Refused(g)'
  <2>1. expired \in Nat
    BY <1>3 DEF TypeOK
  <2>2. Onward
    BY <1>1, <1>3, <2>1 DEF Onward
  <2>. QED
    BY <2>2, RefusedForGood
<1>6. \A f \in Epochs : Going(f)' <=> Going(f)
  BY <1>4 DEF Going
<1>7. \A g \in 1..granted : owner[g] # s /\ IsLast(g) => IsLast(g)'
  BY <1>3, Owners DEF IsLast
<1>9. TypeOK'
  BY <1>1, <1>3, <1>4, GrantedTypes DEF TypeOK
<1>10. Grown'
  BY <1>1, <1>5, <1>6, FieldTypes DEF Grown
<1>11. ASSUME Uncrossed PROVE Uncrossed'
  <2>1. /\ Going(e) /\ refreshing[e].answer = 0 /\ refreshing[e].token = cookie
        /\ cookie \in 1..granted /\ owner[cookie] = s /\ last[s] = cookie
    <3>1. Going(e) /\ refreshing[e].answer = 0 /\ refreshing[e].token = cookie
      BY <1>2, <1>4, <1>11 DEF Uncrossed, Refreshes, Going
    <3>. QED
      BY <1>2, <3>1 DEF s, IsLast
  <2>2. \A f \in Epochs : f # e => ~Going(f) /\ refreshing[f].answer = 0
                                   /\ refreshing'[f].answer = 0
    <3>1. \A f \in Epochs : f # e => ~Going(f)
      BY <2>1, <1>11 DEF Uncrossed, Refreshes
    <3>. QED
      BY <3>1, <1>4, Fields DEF Going
  <2>3. Phases'
    <3>1. Settled' <=> Settled
      BY <1>6 DEF Settled, Going
    <3>. QED
      BY <1>1, <1>6, <1>11, <3>1, Bounds DEF Uncrossed, Phases, Here, SignedIn, TypeOK
  <2>4. Refreshes'
    <3>1. \A f \in Epochs : Going(f) => f = e
      BY <2>2
    <3>2. owner'[granted'] = owner'[cookie] /\ cookie # 0
      BY <1>3, <2>1
    <3>3. last'[owner'[refreshing'[e].answer]] = refreshing'[e].answer
      BY <1>3, <1>4
    <3>4. Refused(cookie) => Refused(cookie)'
      BY <1>1, <1>3, <1>5, <2>1
    <3>. QED
      BY <1>1, <1>4, <1>6, <1>11, <2>1, <3>1, <3>2, <3>3, <3>4
      DEF Uncrossed, Refreshes, Waits, IsLast
  <2>5. Lasts'
    <3>1. \A c \in Call : call[c].step = "sent" /\ ~Refused(call[c].sent)
                            => call[c].sent \in 1..granted /\ owner[call[c].sent] # s
                               /\ IsLast(call[c].sent)
      <4>. SUFFICES ASSUME NEW c \in Call, call[c].step = "sent", ~Refused(call[c].sent)
                    PROVE  call[c].sent \in 1..granted /\ owner[call[c].sent] # s
                           /\ IsLast(call[c].sent)
        OBVIOUS
      <4>1. call[c].sent \in 1..granted
        BY FieldTypes, <1>3 DEF Refused
      <4>2. IsLast(call[c].sent)
        BY <1>11 DEF Uncrossed, Lasts
      <4>3. CASE Refused(cookie)
        BY <4>1, <4>2, <4>3, <2>1 DEF IsLast
      <4>4. CASE \E d \in Call : Waits(d, e) /\ call[d].kind = "change"
        <5>1. PICK d \in Call : Waits(d, e) /\ call[d].kind = "change"
          BY <4>4
        <5>2. d # c /\ ~Stale(d)
          BY <5>1 DEF Waits, Stale
        <5>3. call[c] = Done
          BY <5>1, <5>2, <1>11 DEF Uncrossed, Sessions
        <5>. QED
          BY <5>3, Fields
      <4>. QED
        BY <4>3, <4>4, <2>1, <1>11 DEF Uncrossed, Refreshes
    <3>2. \A c \in Call : /\ call'[c].step = "sent" /\ ~Refused(call[c].sent)'
                               => IsLast(call[c].sent)'
                          /\ call'[c].answer # 403
      BY <1>1, <1>5, <1>7, <1>11, <3>1, FieldTypes DEF Uncrossed, Lasts
    <3>3. SignedIn' => refreshing'[epoch'].answer # 0
      BY <1>1, <1>3, <1>4, <1>11, <2>1, Fields
      DEF Uncrossed, Refreshes, Phases, SignedIn
    <3>4. login'.answer # 0 => FALSE
      BY <1>1, <2>1, <1>11 DEF Uncrossed, Lasts, Phases, Settled, Going
    <3>5. \E f \in Epochs : refreshing'[f].answer # 0
      BY <1>3, <1>4
    <3>6. misused' => lost'
      BY <1>1, <1>11 DEF Uncrossed, Lasts
    <3>. QED
      BY <1>1, <3>2, <3>3, <3>4, <3>5, <3>6 DEF Lasts
  <2>6. Sessions'
    <3>1. shown.auth \in 0..granted /\ (SignedIn => shown.auth # 0)
      BY FieldTypes DEF TypeOK, SignedIn
    <3>2. SignedIn => owner'[shown.auth] = owner[shown.auth]
      BY <1>3, <3>1
    <3>3. owner'[cookie] = owner[cookie]
      BY <1>3, <2>1
    <3>4. Refused(cookie) => Refused(cookie)'
      BY <1>1, <1>3, <1>5, <2>1
    <3>. QED
      BY <1>1, <1>11, <3>2, <3>3, <3>4 DEF Uncrossed, Sessions, SignedIn, Stale, Here
  <2>. QED
    BY <2>3, <2>4, <2>5, <2>6 DEF Uncrossed
<1>. QED
  BY <1>1, <1>9, <1>10, <1>11 DEF Kept

LEMMA ServeRefreshKeeps ==
  ASSUME TypeOK, Grown, NEW e \in Epochs, ServeRefresh(e)
  PROVE  Kept
<1>1. revoked \subseteq Grants
      /\ (refreshing[e].token # 0 => owner[refreshing[e].token] \in Grants)
  BY Owners, FieldTypes DEF TypeOK
<1>2. misused \in BOOLEAN
  BY DEF TypeOK
<1>3. RefreshGranted(e) \/ RefreshFails(e)
  <2>1. CASE /\ Usable(refreshing[e].token) /\ CanGrant
             /\ Grant(owner[refreshing[e].token])
             /\ refreshing' = [refreshing EXCEPT ![e] = Answered(@, granted + 1)]
             /\ UNCHANGED <<revoked, misused>>
    BY <2>1 DEF ServeRefresh, RefreshGranted, RefreshAnswers
  <2>2. CASE /\ refreshing' = [refreshing EXCEPT ![e] = Answered(@, 0)]
             /\ UNCHANGED <<granted, owner, last, revoked, misused>>
    BY <1>1, <2>2 DEF ServeRefresh, RefreshFails, RefreshAnswers
  <2>3. CASE /\ ~Usable(refreshing[e].token)
             /\ revoked' = IF refreshing[e].token = 0 THEN revoked
                           ELSE revoked \union {owner[refreshing[e].token]}
             /\ misused' = (misused \/ (refreshing[e].token # 0
                                        /\ ~IsLast(refreshing[e].token)))
             /\ refreshing' = [refreshing EXCEPT ![e] = Answered(@, 0)]
             /\ UNCHANGED <<granted, owner, last>>
    <3>1. revoked \subseteq revoked' /\ revoked' \subseteq Grants
      BY <1>1, <2>3
    <3>2. \/ misused' = misused
          \/ refreshing[e].token # 0 /\ ~IsLast(refreshing[e].token) /\ misused' = TRUE
      BY <1>2, <2>3
    <3>. QED
      BY <2>3, <3>1, <3>2 DEF ServeRefresh, RefreshFails, RefreshAnswers
  <2>. QED
    BY <2>1, <2>2, <2>3 DEF ServeRefresh
<1>. QED
  BY <1>3, RefreshGrantedKeeps, RefreshFailsKeeps

-----------------------------------------------------------------------------
(* Login and the end of a session.                                             *)

LEMMA EpochGrows ==
  ASSUME TypeOK, CanEpoch
  PROVE  epoch + 1 \in Epochs /\ epoch \in Nat /\ epoch < epoch + 1
BY Bounds DEF TypeOK, CanEpoch, Epochs

LEMMA LoginKeeps == TypeOK /\ Grown /\ Login => Kept
<1>. SUFFICES ASSUME TypeOK, Grown, Login PROVE Kept
  OBVIOUS
<1>1. /\ granted' = granted /\ owner' = owner /\ last' = last /\ revoked' = revoked
      /\ limited' = limited /\ expired' = expired /\ must' = must
      /\ cookie' = cookie /\ auth' = auth /\ shown' = shown
      /\ refreshing' = refreshing /\ leaving' = leaving /\ call' = call
      /\ left' = left /\ crossed' = crossed /\ lost' = lost /\ misused' = misused
      /\ shown = Anonymous /\ login = NoLogin /\ epoch' = epoch + 1
      /\ login' = [NoLogin EXCEPT !.step = "waits", !.epoch = epoch + 1]
  BY DEF Login, server, history
<1>2. epoch + 1 \in Epochs /\ epoch \in Nat /\ epoch < epoch + 1
  BY EpochGrows DEF Login
<1>3. /\ login' \in LoginRow(granted) /\ login'.step = "waits" /\ login'.epoch = epoch'
      /\ login'.answer = 0
  <2>1. /\ login'.step = "waits" /\ login'.epoch = epoch + 1 /\ login'.answer = 0
        /\ login' = [step |-> "waits", epoch |-> epoch + 1, answer |-> 0]
    BY <1>1 DEF NoLogin
  <2>2. 0 \in 0..granted
    BY Owners
  <2>. QED
    BY <1>1, <1>2, <2>1, <2>2 DEF LoginRow
<1>4. login' # NoLogin
  BY <1>3, Fields
<1>5. /\ \A e \in Epochs : Going(e) => e \in Nat /\ e <= epoch
      /\ \A c \in Call : call[c] # Done => call[c].epoch \in Nat /\ call[c].epoch <= epoch
  BY Bounds, FieldTypes DEF Grown
<1>6. TypeOK'
  BY <1>1, <1>2, <1>3 DEF TypeOK
<1>7. Grown'
  <2>1. /\ \A e \in Epochs : Going(e)' => e <= epoch'
        /\ \A c \in Call : call[c] # Done => call[c].epoch <= epoch'
    BY <1>1, <1>2, <1>5 DEF Going
  <2>. QED
    BY <1>1, <2>1 DEF Grown, Refused, Accepts
<1>8. ~SignedIn /\ ~SignedIn'
  BY <1>1, Fields DEF SignedIn
<1>9. ASSUME Uncrossed PROVE Uncrossed'
  <2>1. ~Going(epoch)' /\ \A c \in Call : ~Here(c)'
    BY <1>1, <1>2, <1>5 DEF Going, Here
  <2>2. Phases'
    BY <1>1, <1>3, <1>4, <1>8, <1>9, <2>1, Fields DEF Uncrossed, Phases
  <2>3. Refreshes'
    BY <1>1, <1>4, <1>9 DEF Uncrossed, Refreshes, Going, Waits, Refused, Accepts, IsLast
  <2>4. Lasts'
    BY <1>1, <1>3, <1>8, <1>9 DEF Uncrossed, Lasts, Refused, Accepts, IsLast
  <2>5. Sessions'
    BY <1>1, <1>8, <1>9, <2>1 DEF Uncrossed, Sessions, Stale
  <2>. QED
    BY <2>2, <2>3, <2>4, <2>5 DEF Uncrossed
<1>. QED
  BY <1>1, <1>6, <1>7, <1>9 DEF Kept

LEMMA LoginSentKeeps == TypeOK /\ Grown /\ LoginSent => Kept
<1>. SUFFICES ASSUME TypeOK, Grown, LoginSent PROVE Kept
  OBVIOUS
<1>1. /\ granted' = granted /\ owner' = owner /\ last' = last /\ revoked' = revoked
      /\ limited' = limited /\ expired' = expired /\ must' = must
      /\ cookie' = cookie /\ auth' = auth /\ shown' = shown /\ epoch' = epoch
      /\ refreshing' = refreshing /\ leaving' = leaving /\ call' = call
      /\ left' = left /\ crossed' = crossed /\ lost' = lost /\ misused' = misused
      /\ login.step = "waits" /\ Settled /\ login' = [login EXCEPT !.step = "sent"]
  BY DEF LoginSent, server, history
<1>2. /\ login' \in LoginRow(granted) /\ login'.step = "sent"
      /\ login'.epoch = login.epoch /\ login'.answer = login.answer
  BY <1>1 DEF TypeOK, LoginRow
<1>3. login # NoLogin /\ login' # NoLogin
  BY <1>1, <1>2, Fields
<1>4. TypeOK'
  BY <1>1, <1>2 DEF TypeOK
<1>5. Grown'
  BY <1>1 DEF Grown, Going, Refused, Accepts
<1>6. ASSUME Uncrossed PROVE Uncrossed'
  <2>1. Phases'
    BY <1>1, <1>2, <1>3, <1>6 DEF Uncrossed, Phases, Going, Here, Settled, SignedIn
  <2>2. Refreshes'
    BY <1>1, <1>3, <1>6 DEF Uncrossed, Refreshes, Going, Settled
  <2>3. Lasts'
    BY <1>1, <1>2, <1>6 DEF Uncrossed, Lasts, SignedIn, Refused, Accepts, IsLast
  <2>4. Sessions'
    BY <1>1, <1>6 DEF Uncrossed, Sessions, SignedIn, Stale, Here, Refused, Accepts
  <2>. QED
    BY <2>1, <2>2, <2>3, <2>4 DEF Uncrossed
<1>. QED
  BY <1>1, <1>4, <1>5, <1>6 DEF Kept

LEMMA LoginReturnsKeeps == TypeOK /\ Grown /\ LoginReturns => Kept
<1>. SUFFICES ASSUME TypeOK, Grown, LoginReturns PROVE Kept
  OBVIOUS
<1>1. /\ granted' = granted /\ owner' = owner /\ last' = last /\ revoked' = revoked
      /\ limited' = limited /\ expired' = expired /\ must' = must /\ epoch' = epoch
      /\ refreshing' = refreshing /\ leaving' = leaving /\ call' = call
      /\ left' = left /\ crossed' = crossed /\ lost' = lost /\ misused' = misused
      /\ login.step = "answered" /\ login' = NoLogin
      /\ cookie' = IF login.answer # 0 THEN login.answer ELSE cookie
  BY DEF LoginReturns, server, history
<1>2. \/ /\ login.answer # 0 /\ epoch = login.epoch
         /\ auth' = login.answer /\ shown' = Authenticated(login.answer)
      \/ ~(login.answer # 0 /\ epoch = login.epoch) /\ auth' = auth /\ shown' = shown
  BY DEF LoginReturns
<1>3. login # NoLogin /\ login.answer \in 0..granted /\ granted \in Nat
  BY <1>1, Fields, FieldTypes, Owners
<1>4. /\ Authenticated(login.answer).status = "AUTHENTICATED"
      /\ Authenticated(login.answer).auth = login.answer
      /\ Authenticated(login.answer) # Anonymous /\ Authenticated(login.answer) # Restoring
  BY Fields DEF Authenticated
<1>5. TypeOK'
  <2>1. /\ shown' \in ShownRow(granted) /\ (shown'.status = "AUTHENTICATED" <=> shown'.auth # 0)
        /\ auth' \in 0..granted
    BY <1>2, <1>3, <1>4, Rows DEF TypeOK
  <2>2. login' \in LoginRow(granted) /\ cookie' \in 0..granted
    BY <1>1, <1>3, Rows DEF TypeOK
  <2>. QED
    BY <1>1, <2>1, <2>2 DEF TypeOK
<1>6. Grown'
  BY <1>1 DEF Grown, Going, Refused, Accepts
<1>7. ASSUME Uncrossed PROVE Uncrossed'
  <2>1. /\ shown = Anonymous /\ leaving = Quiet /\ login.epoch = epoch /\ Settled
        /\ \A c \in Call : ~Here(c)
    BY <1>1, <1>3, <1>7 DEF Uncrossed, Phases
  <2>2. /\ \A e \in Epochs : ~Going(e)
        /\ login.answer # 0 => owner[login.answer] \notin left /\ IsLast(login.answer)
        /\ ~SignedIn /\ auth = 0 /\ epoch \in Epochs
    BY <1>7, <2>1, Fields DEF Settled, Going, Uncrossed, Lasts, Phases, SignedIn, TypeOK
  <2>3. /\ \A e \in Epochs : ~Going(e)'
        /\ \A c \in Call : ~Here(c)'
    BY <1>1, <2>1, <2>2 DEF Going, Here
  <2>4. Refreshes'
    BY <2>3 DEF Refreshes
  <2>5. \A c \in Call : ~(call[c].kind = "change" /\ ~Stale(c))
    BY <1>7, <2>2 DEF Uncrossed, Sessions
  <2>6. CASE login.answer # 0
    <3>1. /\ cookie' = login.answer /\ auth' = login.answer
          /\ shown' = Authenticated(login.answer)
      BY <1>1, <1>2, <2>1, <2>6
    <3>2. shown'.status = "AUTHENTICATED" /\ shown'.auth = login.answer
          /\ shown' # Anonymous /\ shown' # Restoring /\ SignedIn'
      BY <1>1, <1>4, <2>1, <3>1 DEF SignedIn
    <3>3. Phases'
      BY <1>1, <2>1, <3>1, <3>2, Fields DEF Phases
    <3>4. Lasts'
      BY <1>1, <1>7, <2>2, <2>6, <3>1, Fields DEF Uncrossed, Lasts, Refused, Accepts, IsLast
    <3>5. Sessions'
      BY <1>1, <2>2, <2>5, <2>6, <3>2 DEF Sessions, Stale
    <3>. QED
      BY <2>4, <3>3, <3>4, <3>5 DEF Uncrossed
  <2>7. CASE login.answer = 0
    <3>1. cookie' = cookie /\ auth' = auth /\ shown' = shown
      BY <1>1, <1>2, <2>7
    <3>2. Phases'
      BY <1>1, <2>1, <2>2, <3>1, Fields DEF Phases, SignedIn
    <3>3. Lasts'
      BY <1>1, <1>7, <2>2, <3>1, Fields DEF Uncrossed, Lasts, SignedIn, Refused, Accepts, IsLast
    <3>4. Sessions'
      BY <1>1, <1>7, <2>2, <2>3, <3>1 DEF Uncrossed, Sessions, SignedIn, Stale
    <3>. QED
      BY <2>4, <3>2, <3>3, <3>4 DEF Uncrossed
  <2>. QED
    BY <2>6, <2>7
<1>. QED
  BY <1>1, <1>5, <1>6, <1>7 DEF Kept

LEMMA LoginLostKeeps == TypeOK /\ Grown /\ LoginLost => Kept
<1>. SUFFICES ASSUME TypeOK, Grown, LoginLost PROVE Kept
  OBVIOUS
<1>1. /\ granted' = granted /\ owner' = owner /\ last' = last /\ revoked' = revoked
      /\ limited' = limited /\ expired' = expired /\ must' = must
      /\ cookie' = cookie /\ auth' = auth /\ shown' = shown /\ epoch' = epoch
      /\ refreshing' = refreshing /\ leaving' = leaving /\ call' = call
      /\ left' = left /\ crossed' = crossed /\ lost' = lost /\ misused' = misused
      /\ login.step \in {"sent", "answered"} /\ login' = NoLogin
  BY DEF LoginLost, server, history
<1>2. login # NoLogin /\ login' \in LoginRow(granted)
  BY <1>1, Fields, Rows, Owners
<1>3. TypeOK'
  BY <1>1, <1>2 DEF TypeOK
<1>4. Grown'
  BY <1>1 DEF Grown, Going, Refused, Accepts
<1>5. ASSUME Uncrossed PROVE Uncrossed'
  <2>1. Phases'
    BY <1>1, <1>2, <1>5, Fields DEF Uncrossed, Phases, Going, Here, Settled, SignedIn
  <2>2. \A e \in Epochs : ~Going(e)'
    BY <1>1, <1>5 DEF Uncrossed, Phases, Settled, Going
  <2>3. Refreshes'
    BY <2>2 DEF Refreshes
  <2>4. Lasts'
    BY <1>1, <1>5, Fields DEF Uncrossed, Lasts, SignedIn, Refused, Accepts, IsLast
  <2>5. Sessions'
    BY <1>1, <1>5 DEF Uncrossed, Sessions, SignedIn, Stale, Here, Refused, Accepts
  <2>. QED
    BY <2>1, <2>3, <2>4, <2>5 DEF Uncrossed
<1>. QED
  BY <1>1, <1>3, <1>4, <1>5 DEF Kept

LEMMA LogoutKeeps == TypeOK /\ Grown /\ Logout => Kept
<1>. SUFFICES ASSUME TypeOK, Grown, Logout PROVE Kept
  OBVIOUS
<1>1. /\ granted' = granted /\ owner' = owner /\ last' = last /\ revoked' = revoked
      /\ limited' = limited /\ expired' = expired /\ must' = must
      /\ cookie' = cookie /\ shown' = shown /\ login' = login
      /\ refreshing' = refreshing /\ call' = call /\ lost' = lost /\ misused' = misused
      /\ shown.status = "AUTHENTICATED" /\ leaving = Quiet /\ epoch' = epoch + 1
      /\ auth' = 0 /\ leaving' = [Quiet EXCEPT !.step = "waits"]
      /\ left' = left \union {owner[shown.auth]}
      /\ crossed' = (crossed \/ \E c \in Call : call[c].kind = "change")
  BY DEF Logout, server, history
<1>2. epoch + 1 \in Epochs /\ epoch \in Nat /\ epoch < epoch + 1
  BY EpochGrows DEF Logout
<1>3. leaving'.step = "waits" /\ leaving' # Quiet /\ leaving' \in LeavingRow(granted)
  BY <1>1, Owners DEF LeavingRow, Quiet
<1>4. shown # Anonymous /\ shown # Restoring
  BY <1>1, Fields
<1>5. /\ \A e \in Epochs : Going(e) => e \in Nat /\ e <= epoch
      /\ \A c \in Call : call[c] # Done => call[c].epoch \in Nat /\ call[c].epoch <= epoch
  BY Bounds, FieldTypes DEF Grown
<1>6. TypeOK'
  <2>1. shown.auth # 0 /\ owner[shown.auth] \in 1..granted
    BY <1>1, FieldTypes, Owners DEF TypeOK
  <2>2. left' \subseteq 1..granted /\ auth' \in 0..granted /\ crossed' \in BOOLEAN
    BY <1>1, <2>1, Owners DEF TypeOK
  <2>. QED
    BY <1>1, <1>2, <1>3, <2>2 DEF TypeOK
<1>7. Grown'
  <2>1. /\ \A e \in Epochs : Going(e)' => e <= epoch'
        /\ \A c \in Call : call[c] # Done => call[c].epoch <= epoch'
    BY <1>1, <1>2, <1>5 DEF Going
  <2>. QED
    BY <1>1, <2>1 DEF Grown, Refused, Accepts
<1>8. ~SignedIn'
  BY <1>3 DEF SignedIn
<1>9. ASSUME Uncrossed, ~crossed' PROVE Uncrossed'
  <2>1. ~Going(epoch)' /\ \A c \in Call : ~Here(c)'
    BY <1>1, <1>2, <1>5 DEF Going, Here
  <2>2. login = NoLogin
    BY <1>4, <1>9 DEF Uncrossed, Phases
  <2>3. Phases'
    BY <1>1, <1>3, <1>4, <1>8, <2>1, <2>2, Fields DEF Phases
  <2>4. Refreshes'
    BY <1>1, <1>3, <1>4, <1>9 DEF Uncrossed, Refreshes, Going, Waits, Refused, Accepts, IsLast
  <2>5. Lasts'
    BY <1>1, <1>8, <1>9, <2>2, Fields DEF Uncrossed, Lasts, Refused, Accepts, IsLast
  <2>6. Sessions'
    BY <1>1, <1>4, <1>8, <1>9 DEF Sessions
  <2>. QED
    BY <2>3, <2>4, <2>5, <2>6 DEF Uncrossed
<1>. QED
  BY <1>6, <1>7, <1>9 DEF Kept

LEMMA LogoutSentKeeps == TypeOK /\ Grown /\ LogoutSent => Kept
<1>. SUFFICES ASSUME TypeOK, Grown, LogoutSent PROVE Kept
  OBVIOUS
<1>1. /\ granted' = granted /\ owner' = owner /\ last' = last /\ revoked' = revoked
      /\ limited' = limited /\ expired' = expired /\ must' = must
      /\ cookie' = cookie /\ auth' = auth /\ shown' = shown /\ epoch' = epoch
      /\ refreshing' = refreshing /\ login' = login /\ call' = call
      /\ left' = left /\ crossed' = crossed /\ lost' = lost /\ misused' = misused
      /\ leaving.step = "waits" /\ Settled /\ leaving' = Sent(cookie)
  BY DEF LogoutSent, server, history
<1>2. leaving # Quiet /\ leaving' # Quiet /\ leaving' \in LeavingRow(granted)
  BY <1>1, Fields, Rows, Owners DEF TypeOK, Sent
<1>3. TypeOK'
  BY <1>1, <1>2 DEF TypeOK
<1>4. Grown'
  BY <1>1 DEF Grown, Going, Refused, Accepts
<1>5. ASSUME Uncrossed PROVE Uncrossed'
  <2>1. Phases'
    BY <1>1, <1>2, <1>5 DEF Uncrossed, Phases, Going, Here, Settled, SignedIn
  <2>2. \A e \in Epochs : ~Going(e)'
    BY <1>1 DEF Settled, Going
  <2>3. Refreshes'
    BY <2>2 DEF Refreshes
  <2>4. Lasts'
    BY <1>1, <1>2, <1>5 DEF Uncrossed, Lasts, SignedIn, Refused, Accepts, IsLast
  <2>5. Sessions'
    BY <1>1, <1>2, <1>5 DEF Uncrossed, Sessions, SignedIn, Stale, Here, Refused, Accepts
  <2>. QED
    BY <2>1, <2>3, <2>4, <2>5 DEF Uncrossed
<1>. QED
  BY <1>1, <1>3, <1>4, <1>5 DEF Kept

\* The end of a logout, with the answer that clears the cookie or without one.
LogoutOver ==
  /\ leaving.step \in {"sent", "answered"}
  /\ cookie' \in {cookie, 0}
  /\ auth' = 0 /\ shown' = Anonymous /\ leaving' = Quiet
  /\ UNCHANGED <<server, epoch, refreshing, login, call, history>>

LEMMA LogoutOverKeeps == TypeOK /\ Grown /\ LogoutOver => Kept
<1>. SUFFICES ASSUME TypeOK, Grown, LogoutOver PROVE Kept
  OBVIOUS
<1>1. /\ granted' = granted /\ owner' = owner /\ last' = last /\ revoked' = revoked
      /\ limited' = limited /\ expired' = expired /\ must' = must
      /\ epoch' = epoch /\ refreshing' = refreshing /\ login' = login /\ call' = call
      /\ left' = left /\ crossed' = crossed /\ lost' = lost /\ misused' = misused
      /\ leaving.step \in {"sent", "answered"} /\ cookie' \in {cookie, 0}
      /\ auth' = 0 /\ shown' = Anonymous /\ leaving' = Quiet
  BY DEF LogoutOver, server, history
<1>2. leaving # Quiet /\ shown' # Restoring /\ ~SignedIn'
  BY <1>1, Fields DEF SignedIn
<1>3. TypeOK'
  <2>1. granted \in Nat
    BY Owners
  <2>2. /\ shown' \in ShownRow(granted) /\ (shown'.status = "AUTHENTICATED" <=> shown'.auth # 0)
        /\ auth' \in 0..granted /\ cookie' \in 0..granted /\ leaving' \in LeavingRow(granted)
    BY <1>1, <2>1, Rows, Fields DEF TypeOK
  <2>. QED
    BY <1>1, <2>2 DEF TypeOK
<1>4. Grown'
  BY <1>1 DEF Grown, Going, Refused, Accepts
<1>5. ASSUME Uncrossed PROVE Uncrossed'
  <2>1. Settled /\ login = NoLogin /\ \A c \in Call : ~Here(c)
    BY <1>1, <1>2, <1>5 DEF Uncrossed, Phases
  <2>2. \A e \in Epochs : ~Going(e)'
    BY <1>1, <2>1 DEF Settled, Going
  <2>3. \A c \in Call : ~Here(c)'
    BY <1>1, <2>1 DEF Here
  <2>4. Phases'
    BY <1>1, <1>2, <2>1, Fields DEF Phases
  <2>5. Refreshes'
    BY <2>2 DEF Refreshes
  <2>6. Lasts'
    BY <1>1, <1>2, <1>5, <2>1, Fields DEF Uncrossed, Lasts, Refused, Accepts, IsLast
  <2>7. \A c \in Call : ~(call[c].kind = "change" /\ ~Stale(c))
    BY <1>2, <1>5 DEF Uncrossed, Sessions, SignedIn
  <2>8. Sessions'
    BY <1>1, <1>2, <2>3, <2>7 DEF Sessions, Stale
  <2>. QED
    BY <2>4, <2>5, <2>6, <2>8 DEF Uncrossed
<1>. QED
  BY <1>1, <1>3, <1>4, <1>5 DEF Kept

LEMMA LogoutReturnsKeeps == TypeOK /\ Grown /\ LogoutReturns => Kept
<1>1. LogoutReturns => LogoutOver
  BY DEF LogoutReturns, LogoutOver
<1>. QED
  BY <1>1, LogoutOverKeeps

LEMMA LogoutLostKeeps == TypeOK /\ Grown /\ LogoutLost => Kept
<1>1. LogoutLost => LogoutOver
  BY DEF LogoutLost, LogoutOver
<1>. QED
  BY <1>1, LogoutOverKeeps

-----------------------------------------------------------------------------
(* Requests.                                                                   *)

\* A data request that its page has done with, or one whose answer is lost.
CallDropped(c) ==
  /\ call[c].step \in {"sent", "answered"}
  /\ call' = [call EXCEPT ![c] = Done]
  /\ UNCHANGED <<server, cookie, auth, shown, epoch, refreshing, login, leaving, history>>

LEMMA CallDroppedKeeps ==
  ASSUME TypeOK, Grown, NEW c \in Call, CallDropped(c)
  PROVE  Kept
<1>1. /\ granted' = granted /\ owner' = owner /\ last' = last /\ revoked' = revoked
      /\ limited' = limited /\ expired' = expired /\ must' = must
      /\ cookie' = cookie /\ auth' = auth /\ shown' = shown /\ epoch' = epoch
      /\ refreshing' = refreshing /\ login' = login /\ leaving' = leaving
      /\ left' = left /\ crossed' = crossed /\ lost' = lost /\ misused' = misused
      /\ call[c].step \in {"sent", "answered"} /\ call' = [call EXCEPT ![c] = Done]
  BY DEF CallDropped, server, history
<1>2. call'[c] = Done /\ \A d \in Call : d # c => call'[d] = call[d]
  BY <1>1 DEF TypeOK
<1>3. TypeOK'
  <2>1. call' \in [Call -> CallRow(granted)]
    BY <1>1, Rows, Owners DEF TypeOK
  <2>. QED
    BY <1>1, <2>1 DEF TypeOK
<1>4. Grown'
  BY <1>1, <1>2, Fields DEF Grown, Going, Refused, Accepts
<1>5. ASSUME Uncrossed PROVE Uncrossed'
  <2>1. /\ \A d \in Call : Here(d)' => Here(d)
        /\ \A d \in Call, e \in Epochs : Waits(d, e)' <=> Waits(d, e)
    BY <1>1, <1>2, Fields DEF Here, Waits
  <2>2. \A d \in Call, e \in Epochs :
          Waits(d, e) /\ call[d].kind = "change" => Waits(d, e)' /\ call'[d].kind = "change"
    BY <1>1, <1>2, Fields DEF Waits
  <2>3. Phases'
    BY <1>1, <1>2, <1>5, <2>1 DEF Uncrossed, Phases, Going, Settled, SignedIn
  <2>4. Refreshes'
    BY <1>1, <1>5, <2>1, <2>2 DEF Uncrossed, Refreshes, Going, Refused, Accepts, IsLast
  <2>5. Lasts'
    BY <1>1, <1>2, <1>5, Fields DEF Uncrossed, Lasts, SignedIn, Refused, Accepts, IsLast
  <2>6. Sessions'
    <3>1. \A d \in Call : Here(d)' => Here(d) /\ call'[d] = call[d]
      BY <1>1, <1>2 DEF Here
    <3>2. \A d \in Call : call'[d].kind = "change" /\ ~Stale(d)' =>
             /\ SignedIn /\ call'[d].epoch = epoch /\ owner[shown.auth] \in limited
             /\ \A f \in Call : f # d => call'[f] = Done
      BY <1>1, <1>2, <1>5, Fields DEF Uncrossed, Sessions, Stale
    <3>. QED
      BY <1>1, <1>5, <3>1, <3>2 DEF Uncrossed, Sessions, SignedIn, Refused, Accepts
  <2>. QED
    BY <2>3, <2>4, <2>5, <2>6 DEF Uncrossed
<1>. QED
  BY <1>1, <1>3, <1>4, <1>5 DEF Kept

LEMMA CallEndsKeeps ==
  ASSUME TypeOK, Grown, NEW c \in Call, CallEnds(c)
  PROVE  Kept
<1>1. CallDropped(c)
  BY DEF CallEnds, CallDropped
<1>. QED
  BY <1>1, CallDroppedKeeps

LEMMA CallLostKeeps ==
  ASSUME TypeOK, Grown, NEW c \in Call, CallLost(c)
  PROVE  Kept
<1>1. CallDropped(c)
  BY DEF CallLost, CallDropped
<1>. QED
  BY <1>1, CallDroppedKeeps

\* The page shows a session whose user may work.
LEMMA RequestKeeps ==
  ASSUME TypeOK, Grown, NEW c \in Call, Request(c)
  PROVE  Kept
<1>. DEFINE row == [Done EXCEPT !.step = "sent", !.epoch = epoch, !.sent = auth]
<1>1. /\ granted' = granted /\ owner' = owner /\ last' = last /\ revoked' = revoked
      /\ limited' = limited /\ expired' = expired /\ must' = must
      /\ cookie' = cookie /\ auth' = auth /\ shown' = shown /\ epoch' = epoch
      /\ refreshing' = refreshing /\ login' = login /\ leaving' = leaving
      /\ left' = left /\ lost' = lost /\ misused' = misused
      /\ shown.status = "AUTHENTICATED" /\ owner[shown.auth] \notin limited
      /\ call[c] = Done /\ call' = [call EXCEPT ![c] = row]
      /\ crossed' = (crossed \/ leaving # Quiet)
  BY DEF Request, Shows, server
<1>2. /\ row.step = "sent" /\ row.kind = "data" /\ row.epoch = epoch /\ row.sent = auth
      /\ row.again = FALSE /\ row.answer = 0
  BY DEF Done
<1>3. row \in CallRow(granted)
  <2>. DEFINE first == [Done EXCEPT !.step = "sent"]
              half == [first EXCEPT !.epoch = epoch]
  <2>1. Done \in CallRow(granted) /\ epoch \in Epochs /\ auth \in 0..granted
    BY Rows, Owners DEF TypeOK
  <2>2. first \in CallRow(granted)
    BY <2>1 DEF CallRow
  <2>3. row = [half EXCEPT !.sent = auth]
    OBVIOUS
  <2>. HIDE DEF first, row
  <2>4. half \in CallRow(granted)
    BY <2>1, <2>2 DEF CallRow
  <2>. HIDE DEF half
  <2>5. [half EXCEPT !.sent = auth] \in CallRow(granted)
    BY <2>1, <2>4 DEF CallRow
  <2>. QED
    BY <2>3, <2>5
<1>. HIDE DEF row
<1>4. call'[c] = row /\ (\A d \in Call : d # c => call'[d] = call[d])
      /\ call' \in [Call -> CallRow(granted)]
  BY <1>1, <1>3 DEF TypeOK
<1>5. TypeOK'
  BY <1>1, <1>4 DEF TypeOK
<1>6. epoch \in Nat
  BY Bounds DEF TypeOK
<1>7. Grown'
  BY <1>1, <1>2, <1>4, <1>6 DEF Grown, Going, Refused, Accepts
<1>8. ASSUME Uncrossed, ~crossed' PROVE Uncrossed'
  <2>1. leaving = Quiet /\ SignedIn /\ shown # Anonymous /\ shown # Restoring
        /\ login = NoLogin
    BY <1>1, <1>8, Fields DEF SignedIn, Uncrossed, Phases
  <2>2. \A d \in Call : ~(call[d].kind = "change" /\ ~Stale(d))
    BY <1>1, <1>8 DEF Uncrossed, Sessions
  <2>3. \A d \in Call, e \in Epochs : Waits(d, e)' <=> Waits(d, e)
    BY <1>1, <1>2, <1>4, Fields DEF Waits
  <2>4. \A d \in Call, e \in Epochs : Waits(d, e) => call[d].kind # "change"
    BY <2>2 DEF Waits, Stale
  <2>5. Phases'
    BY <1>1, <1>8, <2>1, Fields DEF Uncrossed, Phases, SignedIn
  <2>6. Refreshes'
    BY <1>1, <1>8, <2>3, <2>4 DEF Uncrossed, Refreshes, Going, Refused, Accepts, IsLast
  <2>7. ~Refused(auth) => IsLast(auth)
    <3>1. epoch \in Epochs
      BY DEF TypeOK
    <3>2. refreshing[epoch].answer # 0 => Going(epoch)
      BY Fields DEF Going
    <3>3. refreshing[epoch].answer # 0 => Refused(cookie)
      BY <3>1, <3>2, <2>4, <1>8 DEF Uncrossed, Refreshes
    <3>4. cookie = auth
      BY <1>8, <2>1 DEF Uncrossed, Phases
    <3>. QED
      BY <3>3, <3>4, <2>1, <1>8 DEF Uncrossed, Lasts
  <2>8. Lasts'
    BY <1>1, <1>2, <1>4, <1>8, <2>7 DEF Uncrossed, Lasts, SignedIn, Refused, Accepts, IsLast
  <2>9. Sessions'
    BY <1>1, <1>2, <1>4, <1>8, <2>1, <2>2 DEF Uncrossed, Sessions, SignedIn, Stale
  <2>. QED
    BY <2>5, <2>6, <2>8, <2>9 DEF Uncrossed
<1>. QED
  BY <1>5, <1>7, <1>8 DEF Kept

LEMMA ChangePasswordKeeps ==
  ASSUME TypeOK, Grown, NEW c \in Call, ChangePassword(c)
  PROVE  Kept
<1>. DEFINE row == [Done EXCEPT !.step = "sent", !.kind = "change", !.epoch = epoch + 1,
                                !.sent = auth]
<1>1. /\ granted' = granted /\ owner' = owner /\ last' = last /\ revoked' = revoked
      /\ limited' = limited /\ expired' = expired /\ must' = must
      /\ cookie' = cookie /\ auth' = auth /\ shown' = shown /\ epoch' = epoch + 1
      /\ refreshing' = refreshing /\ login' = login /\ leaving' = leaving
      /\ left' = left /\ lost' = lost /\ misused' = misused
      /\ shown.status = "AUTHENTICATED" /\ owner[shown.auth] \in limited
      /\ (\A d \in Call : call[d] = Done) /\ call' = [call EXCEPT ![c] = row]
      /\ crossed' = (crossed \/ leaving # Quiet)
  BY DEF ChangePassword, Shows, server
<1>2. /\ row.step = "sent" /\ row.kind = "change" /\ row.epoch = epoch + 1
      /\ row.sent = auth /\ row.again = FALSE /\ row.answer = 0
  BY DEF Done
<1>3. epoch + 1 \in Epochs /\ epoch \in Nat /\ epoch < epoch + 1
  BY EpochGrows DEF ChangePassword
<1>4. row \in CallRow(granted)
  <2>1. PICK n \in Epochs : n = epoch + 1
    BY <1>3
  <2>2. Done \in CallRow(granted) /\ auth \in 0..granted
    BY Rows, Owners DEF TypeOK
  <2>3. row = [Done EXCEPT !.step = "sent", !.kind = "change", !.epoch = n, !.sent = auth]
    BY <2>1
  <2>. DEFINE first == [Done EXCEPT !.step = "sent"]
              half == [first EXCEPT !.kind = "change"]
              most == [half EXCEPT !.epoch = n]
  <2>4. first \in CallRow(granted)
    BY <2>2 DEF CallRow
  <2>5. row = [most EXCEPT !.sent = auth]
    BY <2>3
  <2>. HIDE DEF first, row
  <2>6. half \in CallRow(granted)
    BY <2>4 DEF CallRow
  <2>. HIDE DEF half
  <2>7. most \in CallRow(granted)
    BY <2>6 DEF CallRow
  <2>. HIDE DEF most
  <2>8. [most EXCEPT !.sent = auth] \in CallRow(granted)
    BY <2>2, <2>7 DEF CallRow
  <2>. QED
    BY <2>5, <2>8
<1>. HIDE DEF row
<1>5. call'[c] = row /\ (\A d \in Call : d # c => call'[d] = Done)
      /\ call' \in [Call -> CallRow(granted)]
  BY <1>1, <1>4 DEF TypeOK
<1>6. TypeOK'
  BY <1>1, <1>3, <1>5 DEF TypeOK
<1>7. Grown'
  <2>1. \A e \in Epochs : Going(e)' => e <= epoch'
    BY <1>1, <1>3, Bounds DEF Grown, Going
  <2>. QED
    BY <1>1, <1>2, <1>3, <1>5, <2>1, Fields DEF Grown
<1>8. ASSUME Uncrossed, ~crossed' PROVE Uncrossed'
  <2>1. leaving = Quiet /\ SignedIn /\ shown # Anonymous /\ shown # Restoring
        /\ login = NoLogin /\ cookie = auth /\ shown.auth = auth
    BY <1>1, <1>8, Fields DEF SignedIn, Uncrossed, Phases
  <2>2. \A e \in Epochs : ~Going(e) /\ ~Going(e)'
    <3>1. \A d \in Call, e \in Epochs : ~Waits(d, e)
      BY <1>1, Fields DEF Waits
    <3>. QED
      BY <1>1, <1>8, <2>1, <3>1 DEF Uncrossed, Refreshes, Going
  <2>3. \A e \in Epochs : refreshing[e].answer = 0
    BY <2>2, Fields DEF Going
  <2>4. Phases'
    BY <1>1, <2>1, Fields DEF Phases, SignedIn
  <2>5. Refreshes'
    BY <2>2 DEF Refreshes
  <2>6. IsLast(auth)
    BY <1>8, <2>1, <2>3 DEF Uncrossed, Lasts, TypeOK
  <2>7. Lasts'
    BY <1>1, <1>2, <1>5, <1>8, <2>3, <2>6, Fields DEF Uncrossed, Lasts, IsLast
  <2>8. Sessions'
    BY <1>1, <1>2, <1>5, <1>8, <2>1, Fields DEF Uncrossed, Sessions, SignedIn
  <2>. QED
    BY <2>4, <2>5, <2>7, <2>8 DEF Uncrossed
<1>. QED
  BY <1>6, <1>7, <1>8 DEF Kept

LEMMA ChangeReturnsKeeps ==
  ASSUME TypeOK, Grown, NEW c \in Call, ChangeReturns(c)
  PROVE  Kept
<1>1. /\ granted' = granted /\ owner' = owner /\ last' = last /\ revoked' = revoked
      /\ limited' = limited /\ expired' = expired /\ must' = must
      /\ epoch' = epoch /\ refreshing' = refreshing /\ login' = login
      /\ left' = left /\ crossed' = crossed /\ lost' = lost /\ misused' = misused
      /\ call[c].step = "answered" /\ call[c].kind = "change"
      /\ call' = [call EXCEPT ![c] = Done]
      /\ cookie' = IF call[c].answer = 200 THEN 0 ELSE cookie
  BY DEF ChangeReturns, server, history
<1>2. call'[c] = Done /\ \A d \in Call : d # c => call'[d] = call[d]
  BY <1>1 DEF TypeOK
<1>3. CASE ~(call[c].answer = 200 /\ call[c].epoch = epoch)
  <2>1. auth' = auth /\ shown' = shown /\ leaving' = leaving
    BY <1>3 DEF ChangeReturns
  <2>2. TypeOK'
    <3>1. granted \in Nat
      BY Owners
    <3>2. call' \in [Call -> CallRow(granted)] /\ cookie' \in 0..granted
      BY <1>1, <3>1, Rows DEF TypeOK
    <3>. QED
      BY <1>1, <2>1, <3>2 DEF TypeOK
  <2>3. Grown'
    BY <1>1, <1>2, Fields DEF Grown, Going, Refused, Accepts
  <2>4. ASSUME Uncrossed, ~crossed' PROVE Uncrossed'
    <3>1. call[c].answer # 200
      BY <1>1, <1>3, <2>4 DEF Uncrossed, Sessions, Stale
    <3>2. CallDropped(c)
      BY <1>1, <2>1, <3>1 DEF CallDropped, server, history
    <3>. QED
      BY <2>4, <3>2, CallDroppedKeeps DEF Kept
  <2>. QED
    BY <2>2, <2>3, <2>4 DEF Kept
<1>4. CASE call[c].answer = 200 /\ call[c].epoch = epoch
  <2>1. auth' = 0 /\ shown' = Restoring /\ leaving' = [Quiet EXCEPT !.step = "waits"]
        /\ cookie' = 0
    BY <1>1, <1>4 DEF ChangeReturns
  <2>2. leaving' # Quiet /\ leaving'.step = "waits" /\ leaving' \in LeavingRow(granted)
    BY <2>1, Owners DEF Quiet, LeavingRow
  <2>3. TypeOK'
    <3>1. granted \in Nat
      BY Owners
    <3>2. /\ call' \in [Call -> CallRow(granted)] /\ cookie' \in 0..granted
          /\ auth' \in 0..granted /\ shown' \in ShownRow(granted)
          /\ (shown'.status = "AUTHENTICATED" <=> shown'.auth # 0)
      BY <1>1, <2>1, <3>1, Rows, Fields DEF TypeOK
    <3>. QED
      BY <1>1, <2>2, <3>2 DEF TypeOK
  <2>4. Grown'
    BY <1>1, <1>2, Fields DEF Grown, Going, Refused, Accepts
  <2>5. ASSUME Uncrossed, ~crossed' PROVE Uncrossed'
    <3>1. SignedIn /\ \A d \in Call : call'[d] = Done
      BY <1>1, <1>2, <1>4, <2>5 DEF Uncrossed, Sessions, Stale
    <3>2. login = NoLogin /\ shown # Restoring /\ shown # Anonymous
      BY <2>5, <3>1, Fields DEF Uncrossed, Phases, SignedIn
    <3>3. \A d \in Call, e \in Epochs : ~Waits(d, e)
      BY <1>1, <1>2, <3>1, Fields DEF Waits
    <3>4. \A e \in Epochs : ~Going(e)'
      BY <1>1, <2>5, <3>2, <3>3 DEF Uncrossed, Refreshes, Going
    <3>5. Phases'
      BY <1>1, <2>1, <2>2, <3>1, <3>2, <3>4, Fields DEF Phases, SignedIn, Here, TypeOK
    <3>6. Refreshes'
      BY <3>4 DEF Refreshes
    <3>7. Lasts'
      BY <1>1, <2>1, <2>2, <2>5, <3>1, <3>2, Fields DEF Uncrossed, Lasts, SignedIn
    <3>8. Sessions'
      BY <2>1, <2>2, <3>1, Fields DEF Sessions, SignedIn
    <3>. QED
      BY <3>5, <3>6, <3>7, <3>8 DEF Uncrossed
  <2>. QED
    BY <2>3, <2>4, <2>5 DEF Kept
<1>. QED
  BY <1>3, <1>4

\* A call that waits in vain keeps what it is.
GivenUp(r) == [r EXCEPT !.step = "answered", !.again = TRUE]

LEMMA RowGivenUp ==
  ASSUME NEW n, NEW r \in CallRow(n)
  PROVE  LET a == GivenUp(r) IN
         /\ a \in CallRow(n) /\ a.step = "answered" /\ a.sent = r.sent /\ a.again = TRUE
         /\ a.kind = r.kind /\ a.epoch = r.epoch /\ a.answer = r.answer
<1>0. PICK yes \in BOOLEAN : yes = TRUE
  OBVIOUS
<1>. DEFINE vain == [r EXCEPT !.step = "answered"]
            gone == [vain EXCEPT !.again = yes]
<1>1. GivenUp(r) = gone
  BY <1>0 DEF GivenUp
<1>2. /\ vain \in CallRow(n) /\ vain.step = "answered" /\ vain.kind = r.kind
      /\ vain.epoch = r.epoch /\ vain.answer = r.answer /\ vain.sent = r.sent
  BY DEF CallRow
<1>. HIDE DEF vain
<1>3. gone \in CallRow(n)
  BY <1>2 DEF CallRow
<1>4. /\ gone.step = "answered" /\ gone.kind = r.kind
      /\ gone.epoch = r.epoch /\ gone.answer = r.answer /\ gone.sent = r.sent
  BY <1>2 DEF CallRow
<1>5. gone.again = yes
  BY <1>2 DEF CallRow
<1>. HIDE DEF gone
<1>. QED
  BY <1>0, <1>1, <1>3, <1>4, <1>5

\* A request answered 401 is sent again with the token there is.
ResendsCall(c) ==
  /\ call[c].step = "answered" /\ ~Ends(c)
  /\ auth # 0
  /\ call' = [call EXCEPT ![c] = Resent(c)]
  /\ UNCHANGED <<server, cookie, auth, shown, epoch, refreshing, login, leaving, history>>

LEMMA ResendsCallKeeps ==
  ASSUME TypeOK, Grown, NEW c \in Call, ResendsCall(c)
  PROVE  Kept
<1>1. /\ granted' = granted /\ owner' = owner /\ last' = last /\ revoked' = revoked
      /\ limited' = limited /\ expired' = expired /\ must' = must
      /\ cookie' = cookie /\ auth' = auth /\ shown' = shown /\ epoch' = epoch
      /\ refreshing' = refreshing /\ login' = login /\ leaving' = leaving
      /\ left' = left /\ crossed' = crossed /\ lost' = lost /\ misused' = misused
      /\ call[c].step = "answered" /\ call[c].answer = 401 /\ ~call[c].again
      /\ call[c].epoch = epoch /\ auth # 0 /\ call' = [call EXCEPT ![c] = Resent(c)]
  BY DEF ResendsCall, Ends, server, history
<1>2. /\ Resent(c).step = "sent" /\ Resent(c).kind = call[c].kind
      /\ Resent(c).epoch = call[c].epoch /\ Resent(c).sent = auth
      /\ Resent(c).again = TRUE /\ Resent(c).answer = call[c].answer
      /\ Resent(c) \in CallRow(granted)
  <2>0. PICK yes \in BOOLEAN : yes = TRUE
    OBVIOUS
  <2>. DEFINE first == [call[c] EXCEPT !.step = "sent"]
              half == [first EXCEPT !.sent = auth]
              whole == [half EXCEPT !.again = yes]
  <2>1. call[c] \in CallRow(granted) /\ auth \in 0..granted
    BY DEF TypeOK
  <2>2. Resent(c) = whole
    BY <2>0 DEF Resent
  <2>3. /\ first \in CallRow(granted) /\ first.step = "sent" /\ first.kind = call[c].kind
        /\ first.epoch = call[c].epoch /\ first.answer = call[c].answer
    BY <2>1 DEF CallRow
  <2>. HIDE DEF first
  <2>4. /\ half \in CallRow(granted) /\ half.step = "sent" /\ half.kind = call[c].kind
        /\ half.epoch = call[c].epoch /\ half.answer = call[c].answer /\ half.sent = auth
    BY <2>1, <2>3 DEF CallRow
  <2>. HIDE DEF half
  <2>5. whole \in CallRow(granted)
    BY <2>4 DEF CallRow
  <2>6. /\ whole.step = "sent" /\ whole.kind = call[c].kind
        /\ whole.epoch = call[c].epoch /\ whole.answer = call[c].answer /\ whole.sent = auth
    BY <2>4 DEF CallRow
  <2>7. whole.again = yes
    BY <2>4 DEF CallRow
  <2>. HIDE DEF whole
  <2>. QED
    BY <2>0, <2>2, <2>5, <2>6, <2>7
<1>3. call'[c] = Resent(c) /\ (\A d \in Call : d # c => call'[d] = call[d])
      /\ call' \in [Call -> CallRow(granted)] /\ call[c] # Done /\ call'[c] # Done
  BY <1>1, <1>2, Fields DEF TypeOK
<1>4. TypeOK'
  BY <1>1, <1>3 DEF TypeOK
<1>5. Grown'
  BY <1>1, <1>2, <1>3 DEF Grown, Going, Refused, Accepts
<1>6. ASSUME Uncrossed PROVE Uncrossed'
  <2>1. Here(c) /\ SignedIn /\ leaving = Quiet /\ login = NoLogin /\ cookie = auth
        /\ shown # Anonymous
    BY <1>1, <1>3, <1>6, Fields DEF Here, Uncrossed, Phases, SignedIn
  <2>2. \A d \in Call : d # c => ~(call[d].kind = "change" /\ ~Stale(d))
    BY <1>3, <1>6 DEF Uncrossed, Sessions
  <2>3. \A d \in Call, e \in Epochs :
          (Waits(d, e)' <=> Waits(d, e)) /\ (Waits(d, e) => call[d].kind # "change")
    BY <1>1, <1>2, <1>3, <2>2 DEF Waits, Stale
  <2>4. \A d \in Call : Here(d)' <=> Here(d)
    BY <1>1, <1>2, <1>3 DEF Here
  <2>5. Phases'
    BY <1>1, <1>3, <1>6, <2>1, <2>4 DEF Uncrossed, Phases, Going, Settled, SignedIn
  <2>6. Refreshes'
    BY <1>1, <1>6, <2>3 DEF Uncrossed, Refreshes, Going, Refused, Accepts, IsLast
  <2>7. ~Refused(auth) => IsLast(auth)
    <3>1. epoch \in Epochs
      BY DEF TypeOK
    <3>2. refreshing[epoch].answer # 0 => Going(epoch)
      BY Fields DEF Going
    <3>3. refreshing[epoch].answer # 0 => Refused(cookie)
      BY <3>1, <3>2, <2>3, <1>6 DEF Uncrossed, Refreshes
    <3>. QED
      BY <3>3, <2>1, <1>6 DEF Uncrossed, Lasts
  <2>8. Lasts'
    BY <1>1, <1>2, <1>3, <1>6, <2>7 DEF Uncrossed, Lasts, SignedIn, Refused, Accepts, IsLast
  <2>9. Sessions'
    <3>1. ~Stale(c)
      BY <1>1 DEF Stale
    <3>2. \A d \in Call : call'[d].kind = "change" /\ ~Stale(d)' => d = c
      BY <1>3, <2>2 DEF Stale
    <3>. QED
      BY <1>1, <1>2, <1>3, <1>6, <2>1, <3>1, <3>2 DEF Uncrossed, Sessions, SignedIn
  <2>. QED
    BY <2>5, <2>6, <2>8, <2>9 DEF Uncrossed
<1>. QED
  BY <1>1, <1>4, <1>5, <1>6 DEF Kept

\* A request answered 401 waits for the refresh of its epoch, and starts it if there
\* is none: then nobody else does, and no access token is in the way.
WaitsForRefresh(c) ==
  /\ call[c].step = "answered" /\ ~Ends(c)
  /\ auth = 0 \/ auth = call[c].sent
  /\ call' = [call EXCEPT ![c].step = "waits"]
  /\ refreshing' = IF refreshing[epoch] = Quiet
                   THEN [refreshing EXCEPT ![epoch] = Sent(cookie)]
                   ELSE refreshing
  /\ UNCHANGED <<server, cookie, auth, shown, epoch, login, leaving, history>>

LEMMA WaitsForRefreshKeeps ==
  ASSUME TypeOK, Grown, NEW c \in Call, WaitsForRefresh(c)
  PROVE  Kept
<1>1. /\ granted' = granted /\ owner' = owner /\ last' = last /\ revoked' = revoked
      /\ limited' = limited /\ expired' = expired /\ must' = must
      /\ cookie' = cookie /\ auth' = auth /\ shown' = shown /\ epoch' = epoch
      /\ login' = login /\ leaving' = leaving
      /\ left' = left /\ crossed' = crossed /\ lost' = lost /\ misused' = misused
      /\ call[c].step = "answered" /\ call[c].answer = 401 /\ ~call[c].again
      /\ call[c].epoch = epoch /\ (auth = 0 \/ auth = call[c].sent)
      /\ call' = [call EXCEPT ![c].step = "waits"]
  BY DEF WaitsForRefresh, Ends, server, history
<1>2. /\ call'[c].step = "waits" /\ call'[c].kind = call[c].kind
      /\ call'[c].epoch = call[c].epoch /\ call'[c].sent = call[c].sent
      /\ call'[c].again = call[c].again /\ call'[c].answer = call[c].answer
      /\ \A d \in Call : d # c => call'[d] = call[d]
      /\ call' \in [Call -> CallRow(granted)]
  <2>1. call \in [Call -> CallRow(granted)]
    BY DEF TypeOK
  <2>. QED
    BY <1>1, <2>1 DEF CallRow
<1>3. call[c] # Done /\ call'[c] # Done
  BY <1>1, <1>2, Fields
<1>4. /\ refreshing' \in [Epochs -> RefreshRow(granted)]
      /\ \A e \in Epochs : e # epoch => refreshing'[e] = refreshing[e]
      /\ refreshing'[epoch] = IF refreshing[epoch] = Quiet THEN Sent(cookie)
                              ELSE refreshing[epoch]
      /\ refreshing'[epoch] # Quiet
  <2>1. /\ refreshing \in [Epochs -> RefreshRow(granted)] /\ epoch \in Epochs
        /\ Sent(cookie) \in RefreshRow(granted) /\ Sent(cookie) # Quiet
    BY Rows, Owners, Fields DEF TypeOK, Sent
  <2>. QED
    BY <2>1 DEF WaitsForRefresh
<1>5. /\ \A e \in Epochs : refreshing'[e].answer = refreshing[e].answer
      /\ \A e \in Epochs : Going(e)' <=> (e = epoch \/ Going(e))
      /\ epoch \in Epochs
  BY <1>1, <1>4, Fields DEF Going, Sent, TypeOK
<1>6. TypeOK'
  BY <1>1, <1>2, <1>4 DEF TypeOK
<1>7. Grown'
  <2>1. epoch \in Nat
    BY Bounds, <1>5
  <2>2. \A e \in Epochs : Going(e)' => e <= epoch
    BY <2>1, <1>5 DEF Grown
  <2>. QED
    BY <1>1, <1>2, <1>3, <2>2 DEF Grown, Refused, Accepts
<1>8. ASSUME Uncrossed PROVE Uncrossed'
  <2>1. Here(c) /\ leaving = Quiet /\ login = NoLogin /\ shown # Restoring
    BY <1>1, <1>3, <1>8, Fields DEF Here, Uncrossed, Phases
  <2>2. \A d \in Call : Here(d)' <=> Here(d)
    BY <1>1, <1>2, <1>3 DEF Here
  <2>3. /\ \A d \in Call, e \in Epochs : Waits(d, e) => Waits(d, e)'
        /\ Waits(c, epoch)' /\ \A d \in Call : call'[d].kind = call[d].kind
    BY <1>1, <1>2 DEF Waits
  <2>4. call[c].kind = "data" => Refused(cookie)
    <3>. SUFFICES ASSUME call[c].kind = "data" PROVE Refused(cookie)
      OBVIOUS
    <3>1. Refused(call[c].sent)
      BY <1>1 DEF Grown
    <3>2. CASE SignedIn
      <4>1. auth # 0 /\ cookie = auth
        BY <1>8, <3>2 DEF Uncrossed, Phases, SignedIn, TypeOK
      <4>. QED
        BY <1>1, <3>1, <4>1
    <3>3. CASE ~SignedIn
      <4>1. shown.status # "AUTHENTICATED" /\ shown.auth = 0 /\ shown \in ShownRow(granted)
        BY <3>3, <2>1, FieldTypes DEF SignedIn, TypeOK
      <4>2. shown = Restoring \/ shown = Anonymous
        BY <4>1 DEF ShownRow, Restoring, Anonymous
      <4>. QED
        BY <1>1, <1>8, <2>1, <4>2 DEF Uncrossed, Sessions
    <3>. QED
      BY <3>2, <3>3
  <2>5. call[c].kind = "data" \/ call[c].kind = "change"
    BY FieldTypes
  <2>6. \A e \in Epochs : Going(e)' => e = epoch
    BY <1>5, <1>8, <2>1 DEF Uncrossed, Refreshes
  <2>7. refreshing'[epoch].token = cookie
    BY <1>4, <1>5, <1>8 DEF Uncrossed, Refreshes, Going, Sent
  <2>8. refreshing[epoch].answer # 0 => Going(epoch)
    BY Fields DEF Going
  <2>9. refreshing'[epoch].answer # 0 =>
           /\ refreshing'[epoch].step = "answered" /\ cookie # 0
           /\ IsLast(refreshing[epoch].answer)
           /\ owner[refreshing'[epoch].answer] = owner[cookie]
    BY <1>4, <1>5, <1>8, <2>8 DEF Uncrossed, Refreshes, Going
  <2>10. Phases'
    BY <1>1, <1>3, <1>8, <2>1, <2>2, Fields DEF Uncrossed, Phases, SignedIn
  <2>11. Refreshes'
    <3>1. \A e, f \in Epochs : Going(e)' /\ Going(f)' => e = f
      BY <2>6
    <3>2. \E d \in Call : Waits(d, epoch)'
      BY <2>3
    <3>3. Refused(cookie)' \/ \E d \in Call : Waits(d, epoch)' /\ call'[d].kind = "change"
      BY <1>1, <2>3, <2>4, <2>5 DEF Refused, Accepts
    <3>4. refreshing'[epoch].answer # 0 => IsLast(refreshing[epoch].answer)'
      BY <1>1, <1>5, <2>9 DEF IsLast
    <3>. QED
      BY <1>1, <2>6, <2>7, <2>9, <3>1, <3>2, <3>3, <3>4 DEF Refreshes
  <2>12. Lasts'
    BY <1>1, <1>2, <1>5, <1>8 DEF Uncrossed, Lasts, SignedIn, Refused, Accepts, IsLast
  <2>13. Sessions'
    <3>1. \A d \in Call : ~Stale(d)' /\ call'[d].kind = "change" => ~Stale(d)
      BY <1>1, <1>2 DEF Stale
    <3>2. \A d \in Call : call[d].kind = "change" /\ ~Stale(d) => d = c
      BY <1>3, <1>8 DEF Uncrossed, Sessions
    <3>3. \A d \in Call : call'[d].again = call[d].again /\ call'[d].kind = call[d].kind
                          /\ call'[d].epoch = call[d].epoch
      BY <1>2
    <3>4. \A d \in Call : call'[d].kind = "change" /\ ~Stale(d)' =>
             /\ SignedIn' /\ call'[d].epoch = epoch' /\ owner'[shown'.auth] \in limited'
             /\ \A f \in Call : f # d => call'[f] = Done
      BY <1>1, <1>2, <1>8, <3>1, <3>2, <3>3 DEF Uncrossed, Sessions, SignedIn
    <3>. QED
      BY <1>1, <1>8, <2>2, <3>3, <3>4 DEF Uncrossed, Sessions, SignedIn, Refused, Accepts
  <2>. QED
    BY <2>10, <2>11, <2>12, <2>13 DEF Uncrossed
<1>. QED
  BY <1>1, <1>6, <1>7, <1>8 DEF Kept

LEMMA UnauthorizedKeeps ==
  ASSUME TypeOK, Grown, NEW c \in Call, Unauthorized(c)
  PROVE  Kept
<1>1. ResendsCall(c) \/ WaitsForRefresh(c)
  BY DEF Unauthorized, ResendsCall, WaitsForRefresh
<1>. QED
  BY <1>1, ResendsCallKeeps, WaitsForRefreshKeeps

-----------------------------------------------------------------------------
(* The refresh returns to all who wait for it.                                 *)

\* With grant g, or without one because it failed or its answer was lost.
RefreshOver(e, g) ==
  /\ Going(e) /\ g \in {0, refreshing[e].answer}
  /\ RefreshReturns(e, g)
  /\ cookie' = IF g # 0 THEN g ELSE cookie
  /\ \/ lost' = lost /\ g = refreshing[e].answer
     \/ lost' = (lost \/ refreshing[e].answer # 0)
  /\ UNCHANGED <<server, epoch, login, leaving, left, crossed, misused>>

\* What those who waited do, when the tab has a new grant and when it has none.
LEMMA RefreshedCalls ==
  ASSUME TypeOK, NEW e \in Epochs, NEW g, RefreshOver(e, g)
  PROVE  /\ call' \in [Call -> CallRow(granted)]
         /\ \A d \in Call : ~Waits(d, e) => call'[d] = call[d]
         /\ \A d \in Call : Waits(d, e) =>
              /\ call'[d].kind = call[d].kind /\ call'[d].epoch = call[d].epoch
              /\ call'[d].answer = call[d].answer /\ call'[d].again = TRUE
              /\ IF g # 0 /\ e = epoch THEN call'[d].step = "sent" /\ call'[d].sent = g
                 ELSE call'[d].step = "answered" /\ call'[d].sent = call[d].sent
<1>. DEFINE answered(d) == [call[d] EXCEPT !.step = "answered", !.again = TRUE]
<1>1. g \in 0..granted /\ call \in [Call -> CallRow(granted)]
  BY FieldTypes, Owners DEF RefreshOver, TypeOK
<1>2. call' = [c \in Call |->
                 IF ~Waits(c, e) THEN call[c]
                 ELSE IF g # 0 /\ e = epoch THEN Resumed(c, g)
                 ELSE answered(c)]
  BY DEF RefreshOver, RefreshReturns, Waits
<1>3. ASSUME NEW d \in Call
      PROVE  /\ Resumed(d, g) \in CallRow(granted)
             /\ Resumed(d, g).step = "sent" /\ Resumed(d, g).sent = g
             /\ Resumed(d, g).kind = call[d].kind /\ Resumed(d, g).epoch = call[d].epoch
             /\ Resumed(d, g).answer = call[d].answer /\ Resumed(d, g).again = TRUE
  <2>0. PICK yes \in BOOLEAN : yes = TRUE
    OBVIOUS
  <2>. DEFINE first == [call[d] EXCEPT !.step = "sent"]
              half == [first EXCEPT !.sent = g]
              whole == [half EXCEPT !.again = yes]
  <2>1. call[d] \in CallRow(granted) /\ g \in 0..granted
    BY <1>1
  <2>2. Resumed(d, g) = whole
    BY <2>0 DEF Resumed
  <2>3. /\ first \in CallRow(granted) /\ first.step = "sent" /\ first.kind = call[d].kind
        /\ first.epoch = call[d].epoch /\ first.answer = call[d].answer
    BY <2>1 DEF CallRow
  <2>. HIDE DEF first
  <2>4. /\ half \in CallRow(granted) /\ half.step = "sent" /\ half.kind = call[d].kind
        /\ half.epoch = call[d].epoch /\ half.answer = call[d].answer /\ half.sent = g
    BY <2>1, <2>3 DEF CallRow
  <2>. HIDE DEF half
  <2>5. whole \in CallRow(granted)
    BY <2>4 DEF CallRow
  <2>6. /\ whole.step = "sent" /\ whole.kind = call[d].kind
        /\ whole.epoch = call[d].epoch /\ whole.answer = call[d].answer /\ whole.sent = g
    BY <2>4 DEF CallRow
  <2>7. whole.again = yes
    BY <2>4 DEF CallRow
  <2>. HIDE DEF whole
  <2>. QED
    BY <2>0, <2>2, <2>5, <2>6, <2>7
<1>4. ASSUME NEW d \in Call
      PROVE  /\ answered(d) \in CallRow(granted)
             /\ answered(d).step = "answered" /\ answered(d).sent = call[d].sent
             /\ answered(d).kind = call[d].kind /\ answered(d).epoch = call[d].epoch
             /\ answered(d).answer = call[d].answer /\ answered(d).again = TRUE
  <2>1. call[d] \in CallRow(granted)
    BY <1>1
  <2>2. GivenUp(call[d]) = answered(d)
    BY DEF GivenUp
  <2>. HIDE DEF answered
  <2>. QED
    BY <2>1, <2>2, RowGivenUp
<1>. HIDE DEF answered
<1>5. \A d \in Call :
        call'[d] = IF ~Waits(d, e) THEN call[d]
                   ELSE IF g # 0 /\ e = epoch THEN Resumed(d, g)
                   ELSE answered(d)
  BY <1>2
<1>6. call' \in [Call -> CallRow(granted)]
  BY <1>1, <1>2, <1>3, <1>4
<1>7. \A d \in Call : ~Waits(d, e) => call'[d] = call[d]
  BY <1>5
<1>8. ASSUME NEW d \in Call, Waits(d, e)
      PROVE  /\ call'[d].kind = call[d].kind /\ call'[d].epoch = call[d].epoch
             /\ call'[d].answer = call[d].answer /\ call'[d].again = TRUE
             /\ IF g # 0 /\ e = epoch THEN call'[d].step = "sent" /\ call'[d].sent = g
                ELSE call'[d].step = "answered" /\ call'[d].sent = call[d].sent
  <2>1. CASE g # 0 /\ e = epoch
    <3>1. call'[d] = Resumed(d, g)
      BY <1>5, <1>8, <2>1
    <3>. QED
      BY <1>3, <2>1, <3>1
  <2>2. CASE ~(g # 0 /\ e = epoch)
    <3>1. call'[d] = answered(d)
      BY <1>5, <1>8, <2>2
    <3>. QED
      BY <1>4, <2>2, <3>1
  <2>. QED
    BY <2>1, <2>2
<1>. QED
  BY <1>6, <1>7, <1>8

LEMMA RefreshOverKeeps ==
  ASSUME TypeOK, Grown, NEW e \in Epochs, NEW g, RefreshOver(e, g)
  PROVE  Kept
<1>1. /\ granted' = granted /\ owner' = owner /\ last' = last /\ revoked' = revoked
      /\ limited' = limited /\ expired' = expired /\ must' = must
      /\ epoch' = epoch /\ login' = login /\ leaving' = leaving
      /\ left' = left /\ crossed' = crossed /\ misused' = misused
      /\ Going(e) /\ g \in {0, refreshing[e].answer}
      /\ cookie' = IF g # 0 THEN g ELSE cookie
      /\ \/ lost' = lost /\ g = refreshing[e].answer
         \/ lost' = (lost \/ refreshing[e].answer # 0)
  BY DEF RefreshOver, server
<1>2. /\ auth' = IF e = epoch THEN g ELSE auth
      /\ shown' = IF e # epoch THEN shown
                  ELSE IF g # 0 THEN Authenticated(g) ELSE Anonymous
      /\ refreshing' = [refreshing EXCEPT ![e] = Quiet]
  BY DEF RefreshOver, RefreshReturns, Forgotten, AfterFailure
<1>3. /\ call' \in [Call -> CallRow(granted)]
      /\ \A d \in Call : ~Waits(d, e) => call'[d] = call[d]
      /\ \A d \in Call : Waits(d, e) =>
           /\ call'[d].kind = call[d].kind /\ call'[d].epoch = call[d].epoch
           /\ call'[d].answer = call[d].answer /\ call'[d].again = TRUE
           /\ IF g # 0 /\ e = epoch THEN call'[d].step = "sent" /\ call'[d].sent = g
              ELSE call'[d].step = "answered" /\ call'[d].sent = call[d].sent
  BY RefreshedCalls
<1>4. /\ refreshing'[e] = Quiet /\ \A f \in Epochs : f # e => refreshing'[f] = refreshing[f]
      /\ refreshing' \in [Epochs -> RefreshRow(granted)]
  BY <1>2, Rows, Owners DEF TypeOK
<1>5. g \in 0..granted /\ granted \in Nat /\ epoch \in Epochs
  BY <1>1, FieldTypes, Owners DEF TypeOK
<1>6. /\ Authenticated(g).status = "AUTHENTICATED" /\ Authenticated(g).auth = g
      /\ Authenticated(g) # Anonymous /\ Authenticated(g) # Restoring
      /\ Authenticated(g) \in ShownRow(granted)
  BY <1>5, Fields, Rows DEF Authenticated
<1>7. TypeOK'
  <2>1. /\ shown' \in ShownRow(granted) /\ (shown'.status = "AUTHENTICATED" <=> shown'.auth # 0)
    <3>1. CASE e = epoch /\ g # 0
      BY <1>2, <1>6, <3>1
    <3>2. CASE e = epoch /\ g = 0
      BY <1>2, <1>5, <3>2, Fields, Rows
    <3>3. CASE e # epoch
      BY <1>2, <3>3 DEF TypeOK
    <3>. QED
      BY <3>1, <3>2, <3>3
  <2>2. auth' \in 0..granted /\ cookie' \in 0..granted /\ lost' \in BOOLEAN
    BY <1>1, <1>2, <1>5 DEF TypeOK
  <2>. QED
    BY <1>1, <1>3, <1>4, <2>1, <2>2 DEF TypeOK
<1>8. /\ \A d \in Call : call[d] # Done <=> call'[d] # Done
      /\ \A d \in Call : call'[d].epoch = call[d].epoch /\ call'[d].kind = call[d].kind
                         /\ call'[d].answer = call[d].answer
      /\ \A d \in Call : Waits(d, e) => call[d].answer = 401 /\ ~call[d].again
  <2>1. \A d \in Call : Waits(d, e) => call[d] # Done /\ call'[d] # Done
    BY <1>3, Fields DEF Waits
  <2>. QED
    BY <1>3, <2>1 DEF Grown, Waits
<1>9. Grown'
  <2>1. \A f \in Epochs : Going(f)' => f <= epoch'
    BY <1>1, <1>4 DEF Grown, Going
  <2>2. \A d \in Call : call'[d] # Done => call'[d].epoch <= epoch'
    BY <1>1, <1>8 DEF Grown
  <2>3. \A d \in Call : /\ call'[d].step = "none" => call'[d] = Done
                        /\ call'[d].step = "waits" => call'[d].answer = 401 /\ ~call'[d].again
    BY <1>3 DEF Grown
  <2>4. \A d \in Call : call'[d].step \in {"waits", "answered"} /\ call'[d].answer = 401
            /\ call'[d].kind = "data" => Refused(call[d].sent) /\ call'[d].sent = call[d].sent
    BY <1>3, <1>8 DEF Grown, Waits
  <2>. QED
    BY <1>1, <2>1, <2>2, <2>3, <2>4 DEF Grown, Refused, Accepts
<1>10. ASSUME Uncrossed PROVE Uncrossed'
  <2>1. /\ \A f \in Epochs : Going(f) => f = e
        /\ \A f \in Epochs : f # e => refreshing[f].answer = 0
        /\ \A f \in Epochs : ~Going(f)' /\ refreshing'[f].answer = 0
    <3>1. \A f \in Epochs : Going(f) => f = e
      BY <1>1, <1>10 DEF Uncrossed, Refreshes
    <3>. QED
      BY <1>4, <3>1, Fields DEF Going
  <2>2. /\ refreshing[e].token = cookie
        /\ leaving = Quiet /\ login = NoLogin => e = epoch
        /\ (shown = Restoring /\ leaving = Quiet) \/ \E c \in Call : Waits(c, e)
        /\ Refused(cookie) \/ \E c \in Call : Waits(c, e) /\ call[c].kind = "change"
        /\ refreshing[e].answer # 0 => /\ cookie # 0 /\ IsLast(refreshing[e].answer)
                                       /\ owner[refreshing[e].answer] = owner[cookie]
    BY <1>1, <1>10 DEF Uncrossed, Refreshes
  <2>3. Refreshes'
    BY <2>1 DEF Refreshes
  <2>4. Settled'
    BY <2>1 DEF Settled, Going
  <2>5. \A d \in Call : Here(d)' <=> Here(d)
    BY <1>1, <1>8 DEF Here
  <2>6. g # 0 => /\ IsLast(g) /\ owner[g] = owner[cookie] /\ cookie # 0
    BY <1>1, <2>2
  <2>7. ~lost' => cookie' = 0 \/ last'[owner'[cookie']] = cookie'
    <3>1. CASE g # 0
      BY <1>1, <2>6, <3>1 DEF IsLast
    <3>2. CASE g = 0
      <4>1. ~lost' => ~lost /\ refreshing[e].answer = 0
        BY <1>1, <3>2
      <4>2. ~lost => \/ cookie = 0 \/ IsLast(cookie)
                     \/ \E f \in Epochs : refreshing[f].answer # 0
        BY <1>10 DEF Uncrossed, Lasts
      <4>3. ~lost' => cookie = 0 \/ IsLast(cookie)
        BY <2>1, <4>1, <4>2
      <4>4. cookie' = cookie
        BY <1>1, <3>2
      <4>. QED
        BY <1>1, <4>3, <4>4 DEF IsLast
    <3>. QED
      BY <3>1, <3>2
  <2>8. \A d \in Call : call'[d].answer # 403
    BY <1>8, <1>10 DEF Uncrossed, Lasts
  <2>9. \A d \in Call : call'[d].step = "sent" /\ ~Refused(call[d].sent)'
                          => last'[owner'[call'[d].sent]] = call'[d].sent
    <3>. SUFFICES ASSUME NEW d \in Call, call'[d].step = "sent", ~Refused(call[d].sent)'
                  PROVE  last'[owner'[call'[d].sent]] = call'[d].sent
      OBVIOUS
    <3>1. CASE Waits(d, e)
      BY <1>1, <1>3, <2>6, <3>1 DEF IsLast
    <3>2. CASE ~Waits(d, e)
      BY <1>1, <1>3, <1>10, <3>2 DEF Uncrossed, Lasts, Refused, Accepts, IsLast
    <3>. QED
      BY <3>1, <3>2
  <2>10. misused' => lost'
    BY <1>1, <1>10 DEF Uncrossed, Lasts
  <2>11. \A c, d \in Call : call[c].kind = "change" /\ ~Stale(c) /\ d # c => call[d] = Done
    BY <1>10 DEF Uncrossed, Sessions
  <2>12. CASE e = epoch
    <3>1. login = NoLogin /\ leaving = Quiet
      BY <1>1, <1>10, <2>12 DEF Uncrossed, Phases
    <3>2. (leaving = Quiet /\ shown.status # "AUTHENTICATED") =>
            shown = Restoring \/ shown = Anonymous
      <4>1. shown.status # "AUTHENTICATED" => shown.auth = 0 /\ shown \in ShownRow(granted)
        BY DEF TypeOK
      <4>. QED
        BY <4>1 DEF ShownRow, Restoring, Anonymous
    <3>3. CASE g # 0
      <4>1. /\ cookie' = g /\ auth' = g /\ shown' = Authenticated(g) /\ SignedIn'
            /\ shown'.auth = g
        BY <1>1, <1>2, <1>6, <2>12, <3>1, <3>3 DEF SignedIn
      <4>2. Phases'
        BY <1>1, <1>6, <3>1, <4>1, Fields DEF Phases
      <4>3. Lasts'
        BY <1>1, <1>8, <2>6, <2>7, <2>8, <2>9, <2>10, <3>1, <3>3, <4>1, Fields
        DEF Lasts, IsLast
      <4>4. owner[g] \notin left
        <5>1. CASE SignedIn
          BY <1>10, <2>6, <3>3, <5>1 DEF Uncrossed, Phases, Sessions
        <5>2. CASE shown = Restoring
          BY <1>10, <3>1, <5>2 DEF Uncrossed, Phases
        <5>3. CASE shown = Anonymous
          <6>1. PICK d \in Call : Waits(d, e)
            BY <2>2, <5>3, Fields
          <6>2. Here(d) /\ ~call[d].again
            BY <1>8, <6>1, <2>12, Fields DEF Here, Waits
          <6>. QED
            BY <1>10, <2>6, <3>3, <5>3, <6>2 DEF Uncrossed, Sessions
        <5>. QED
          BY <3>1, <3>2, <5>1, <5>2, <5>3 DEF SignedIn
      <4>5. Sessions'
        <5>1. ASSUME NEW d \in Call, call'[d].kind = "change", ~Stale(d)'
              PROVE  /\ SignedIn' /\ call'[d].epoch = epoch' /\ owner'[shown'.auth] \in limited'
                     /\ \A f \in Call : f # d => call'[f] = Done
          <6>1. call[d].kind = "change" /\ ~Stale(d)
            BY <1>3, <1>8, <5>1 DEF Stale, Waits
          <6>2. SignedIn /\ call[d].epoch = epoch /\ owner[shown.auth] \in limited
            BY <1>10, <6>1 DEF Uncrossed, Sessions
          <6>3. owner[g] = owner[shown.auth]
            BY <1>10, <2>6, <3>3, <6>2 DEF Uncrossed, Phases
          <6>. QED
            BY <1>1, <1>8, <2>11, <4>1, <6>1, <6>2, <6>3
        <5>. QED
          BY <1>1, <1>6, <4>1, <4>4, <5>1 DEF Sessions
      <4>. QED
        BY <2>3, <4>2, <4>3, <4>5 DEF Uncrossed
    <3>4. CASE g = 0
      <4>1. /\ cookie' = cookie /\ auth' = 0 /\ shown' = Anonymous /\ ~SignedIn'
        BY <1>1, <1>2, <2>12, <3>4, Fields DEF SignedIn
      <4>2. Phases'
        BY <1>1, <3>1, <4>1, Fields DEF Phases
      <4>3. Lasts'
        BY <1>1, <2>7, <2>8, <2>9, <2>10, <3>1, <4>1, Fields DEF Lasts, IsLast
      <4>4. \A d \in Call : Here(d)' /\ ~call'[d].again =>
               Refused(cookie)' /\ (cookie # 0 => owner[cookie] \notin left)
        <5>. SUFFICES ASSUME NEW d \in Call, Here(d)', ~call'[d].again
                      PROVE  Refused(cookie)' /\ (cookie # 0 => owner[cookie] \notin left)
          OBVIOUS
        <5>1. ~Waits(d, e) /\ call'[d] = call[d] /\ Here(d) /\ call[d] # Done
          BY <1>3, <2>5 DEF Here
        <5>2. \A c \in Call : Waits(c, e) => call[c].kind # "change"
          BY <2>11, <5>1 DEF Stale, Waits
        <5>3. Refused(cookie)'
          BY <1>1, <2>2, <4>1, <5>2 DEF Refused, Accepts
        <5>4. CASE SignedIn
          BY <1>10, <5>3, <5>4 DEF Uncrossed, Phases, Sessions
        <5>5. CASE shown = Restoring
          BY <1>10, <3>1, <5>3, <5>5 DEF Uncrossed, Phases
        <5>6. CASE shown = Anonymous
          BY <1>10, <5>1, <5>3, <5>6 DEF Uncrossed, Sessions
        <5>. QED
          BY <3>1, <3>2, <5>4, <5>5, <5>6 DEF SignedIn
      <4>5. \A d \in Call : ~(call'[d].kind = "change" /\ ~Stale(d)')
        <5>. SUFFICES ASSUME NEW d \in Call, call'[d].kind = "change", ~Stale(d)'
                      PROVE  FALSE
          OBVIOUS
        <5>1. ~Waits(d, e) /\ call'[d] = call[d]
          BY <1>3, <1>8, <3>4 DEF Stale
        <5>2. call[d].kind = "change" /\ ~Stale(d)
          BY <5>1 DEF Stale
        <5>3. SignedIn
          BY <1>10, <5>2 DEF Uncrossed, Sessions
        <5>4. PICK c \in Call : Waits(c, e)
          BY <2>2, <5>3, Fields DEF SignedIn
        <5>5. call[c] = Done
          BY <2>11, <5>1, <5>2, <5>4
        <5>. QED
          BY <5>4, <5>5, Fields DEF Waits
      <4>6. Sessions'
        BY <1>1, <4>1, <4>4, <4>5 DEF Sessions
      <4>. QED
        BY <2>3, <4>2, <4>3, <4>6 DEF Uncrossed
    <3>. QED
      BY <3>3, <3>4
  <2>13. CASE e # epoch
    <3>1. auth' = auth /\ shown' = shown
      BY <1>2, <2>13
    <3>2. leaving # Quiet \/ login # NoLogin
      BY <2>2, <2>13
    <3>3. ~SignedIn /\ ~SignedIn' /\ auth = 0 /\ \A d \in Call : ~Here(d)
      BY <1>1, <1>10, <3>1, <3>2, Fields DEF Uncrossed, Phases, SignedIn
    <3>4. Phases'
      <4>1. ~Going(epoch)'
        BY <1>1, <1>5, <2>1
      <4>2. \A d \in Call : ~Here(d)'
        BY <2>5, <3>3
      <4>3. ~(shown = Restoring /\ leaving = Quiet)
        BY <1>10, <3>2, Fields DEF Uncrossed, Phases
      <4>4. /\ login # NoLogin => shown = Anonymous /\ leaving = Quiet /\ login.epoch = epoch
            /\ leaving # Quiet => shown # Anonymous
        BY <1>10 DEF Uncrossed, Phases
      <4>. QED
        BY <1>1, <2>4, <3>1, <3>3, <4>1, <4>2, <4>3, <4>4 DEF Phases
    <3>5. Lasts'
      <4>1. login.answer # 0 => /\ login.step = "answered" /\ owner[login.answer] \notin left
                                /\ IsLast(login.answer)
        BY <1>10 DEF Uncrossed, Lasts
      <4>. QED
        BY <1>1, <2>7, <2>8, <2>9, <2>10, <3>3, <4>1 DEF Lasts, IsLast
    <3>6. Sessions'
      <4>1. \A d \in Call : ~(call[d].kind = "change" /\ ~Stale(d))
        BY <1>10, <3>3 DEF Uncrossed, Sessions
      <4>2. \A d \in Call : ~(call'[d].kind = "change" /\ ~Stale(d)')
        BY <1>3, <1>8, <4>1 DEF Stale, Waits
      <4>3. \A d \in Call : ~Here(d)'
        BY <2>5, <3>3
      <4>. QED
        BY <3>3, <4>2, <4>3 DEF Sessions
    <3>. QED
      BY <2>3, <3>4, <3>5, <3>6 DEF Uncrossed
  <2>. QED
    BY <2>12, <2>13
<1>. QED
  BY <1>1, <1>7, <1>9, <1>10 DEF Kept

LEMMA RefreshAnsweredKeeps ==
  ASSUME TypeOK, Grown, NEW e \in Epochs, RefreshAnswered(e)
  PROVE  Kept
<1>1. Going(e)
  BY Fields DEF RefreshAnswered, Going
<1>2. RefreshOver(e, refreshing[e].answer)
  BY <1>1 DEF RefreshAnswered, RefreshOver, history
<1>. QED
  BY <1>2, RefreshOverKeeps

LEMMA RefreshLostKeeps ==
  ASSUME TypeOK, Grown, NEW e \in Epochs, RefreshLost(e)
  PROVE  Kept
<1>1. RefreshOver(e, 0)
  BY DEF RefreshLost, RefreshOver, Going
<1>. QED
  BY <1>1, RefreshOverKeeps

-----------------------------------------------------------------------------
(* The theorems.                                                               *)

LEMMA CrossedStays == [Next]_vars => (crossed => crossed')
<1>. SUFFICES ASSUME [Next]_vars, crossed
              PROVE  crossed'
  OBVIOUS
<1>1. ASSUME UNCHANGED history PROVE crossed'
  BY <1>1 DEF history
<1>2. CASE UNCHANGED vars
  BY <1>2 DEF vars
<1>3. CASE \/ ServeLogin \/ ServeLogout \/ LoginSent \/ LoginReturns \/ LogoutSent
           \/ LogoutReturns
  BY <1>1, <1>3 DEF ServeLogin, ServeLogout, LoginSent, LoginReturns, LogoutSent, LogoutReturns
<1>4. CASE \E e \in Epochs : ServeRefresh(e) \/ RefreshAnswered(e) \/ RefreshLost(e)
  BY <1>1, <1>4 DEF ServeRefresh, RefreshAnswered, RefreshLost
<1>5. CASE \E c \in Call : ServeCall(c) \/ Unauthorized(c) \/ CallEnds(c) \/ ChangeReturns(c)
                           \/ CallLost(c)
  BY <1>1, <1>5 DEF ServeCall, Unauthorized, CallEnds, ChangeReturns, CallLost
<1>6. CASE AccessExpires \/ SessionRevoked \/ Login \/ LoginLost \/ LogoutLost
  BY <1>1, <1>6 DEF AccessExpires, SessionRevoked, Login, LoginLost, LogoutLost
<1>7. CASE Logout
  BY <1>7 DEF Logout
<1>8. CASE \E c \in Call : Request(c) \/ ChangePassword(c)
  BY <1>8 DEF Request, ChangePassword
<1>. QED
  BY <1>2, <1>3, <1>4, <1>5, <1>6, <1>7, <1>8 DEF Next, Network

LEMMA Unmoved == TypeOK /\ Grown /\ UNCHANGED vars => Kept
<1>. SUFFICES ASSUME TypeOK, Grown, UNCHANGED vars
              PROVE  Kept
  OBVIOUS
<1>1. /\ revoked \subseteq revoked' /\ revoked' \subseteq Grants
      /\ expired <= expired' /\ expired' \in 0..granted
      /\ UNCHANGED <<granted, owner, last, limited, must>>
      /\ UNCHANGED <<cookie, auth, shown, epoch, refreshing, login, leaving, call>>
      /\ UNCHANGED history
  BY Owners DEF TypeOK, vars, history
<1>. QED
  BY <1>1, RevokingKeeps

LEMMA NextKeeps == TypeOK /\ Grown /\ [Next]_vars => Kept
<1>. SUFFICES ASSUME TypeOK, Grown, [Next]_vars
              PROVE  Kept
  OBVIOUS
<1>1. CASE ServeLogin
  BY <1>1, ServeLoginKeeps
<1>2. CASE ServeLogout
  BY <1>2, ServeLogoutKeeps
<1>3. CASE LoginSent
  BY <1>3, LoginSentKeeps
<1>4. CASE LoginReturns
  BY <1>4, LoginReturnsKeeps
<1>5. CASE LogoutSent
  BY <1>5, LogoutSentKeeps
<1>6. CASE LogoutReturns
  BY <1>6, LogoutReturnsKeeps
<1>7. ASSUME NEW e \in Epochs, ServeRefresh(e) PROVE Kept
  BY <1>7, ServeRefreshKeeps
<1>8. ASSUME NEW e \in Epochs, RefreshAnswered(e) PROVE Kept
  BY <1>8, RefreshAnsweredKeeps
<1>9. ASSUME NEW c \in Call, ServeCall(c) PROVE Kept
  BY <1>9, ServeCallKeeps
<1>10. ASSUME NEW c \in Call, Unauthorized(c) PROVE Kept
  BY <1>10, UnauthorizedKeeps
<1>11. ASSUME NEW c \in Call, CallEnds(c) PROVE Kept
  BY <1>11, CallEndsKeeps
<1>12. ASSUME NEW c \in Call, ChangeReturns(c) PROVE Kept
  BY <1>12, ChangeReturnsKeeps
<1>13. CASE AccessExpires
  BY <1>13, AccessExpiresKeeps
<1>14. CASE SessionRevoked
  BY <1>14, SessionRevokedKeeps
<1>15. CASE Login
  BY <1>15, LoginKeeps
<1>16. CASE LoginLost
  BY <1>16, LoginLostKeeps
<1>17. CASE Logout
  BY <1>17, LogoutKeeps
<1>18. CASE LogoutLost
  BY <1>18, LogoutLostKeeps
<1>19. ASSUME NEW e \in Epochs, RefreshLost(e) PROVE Kept
  BY <1>19, RefreshLostKeeps
<1>20. ASSUME NEW c \in Call, Request(c) PROVE Kept
  BY <1>20, RequestKeeps
<1>21. ASSUME NEW c \in Call, CallLost(c) PROVE Kept
  BY <1>21, CallLostKeeps
<1>22. ASSUME NEW c \in Call, ChangePassword(c) PROVE Kept
  BY <1>22, ChangePasswordKeeps
<1>23. CASE UNCHANGED vars
  BY <1>23, Unmoved
<1>24. Network => Kept
  BY <1>1, <1>2, <1>3, <1>4, <1>5, <1>6, <1>7, <1>8, <1>9, <1>10, <1>11, <1>12 DEF Network
<1>. QED
  BY <1>13, <1>14, <1>15, <1>16, <1>17, <1>18, <1>19, <1>20, <1>21, <1>22, <1>23, <1>24
  DEF Next

LEMMA StepInv == IInv /\ [Next]_vars => IInv'
<1>. SUFFICES ASSUME IInv, [Next]_vars
              PROVE  IInv'
  OBVIOUS
<1>1. TypeOK /\ Grown /\ (crossed \/ Uncrossed)
  BY DEF IInv
<1>2. Kept
  BY <1>1, NextKeeps
<1>3. crossed => crossed'
  BY CrossedStays
<1>. QED
  BY <1>1, <1>2, <1>3 DEF Kept, IInv

\* In every state the tab reaches, nothing of it is of a grant or an epoch that is
\* still to come, and unless a page sent something across a logout, its refreshes,
\* its login and its logout are as far as IInv says (auth-provider, api.ts).
THEOREM InvariantHolds == Spec => []IInv
<1>. QED
  BY InitInv, StepInv, PTL DEF Spec

\* A signed-in tab at rest holds the page, the memory and the cookie of one grant,
\* however refreshes, logins and logouts overlapped and whichever answers were lost.
THEOREM HoldsOneGrant == Spec => []OneGrant
<1>1. IInv => OneGrant
  BY DEF IInv, Uncrossed, Phases, SignedIn, OneGrant
<1>. QED
  BY <1>1, InvariantHolds, PTL

\* No request of the tab is refused for its CSRF token, and the tab presents a spent
\* refresh token only after an answer with the new one was lost (refreshOnce, send).
THEOREM UsesOwnTokens == Spec => []OwnTokens
<1>1. IInv => OwnTokens
  BY DEF IInv, Uncrossed, Lasts, OwnTokens
<1>. QED
  BY <1>1, InvariantHolds, PTL

\* No answer that was under way when a logout began brings its session back.
THEOREM DropsOldAnswers == Spec => []OldAnswersDropped
<1>1. IInv => OldAnswersDropped
  BY DEF IInv, Uncrossed, Sessions, SignedIn, OldAnswersDropped, LoggedOut
<1>. QED
  BY <1>1, InvariantHolds, PTL
=============================================================================
