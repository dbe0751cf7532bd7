------------------------ MODULE ProjectLifecycleProofs ------------------------
(* Proofs about ProjectLifecycle, for every value of its constants, and that  *)
(* it implements ProjectPromise.                                              *)
EXTENDS ProjectLifecycle, TLAPS

-----------------------------------------------------------------------------
(* The values handlers store are of their types. *)

\* The row of a project that does not exist is a row.
LEMMA AbsentIsRow == Absent \in Row
<1>. (CHOOSE n \in Name : TRUE) \in Name
  BY RowConstants
<1>. QED
  BY DEF Absent, Row, Date, Status, Reason

\* A worker between two requests is in a well-typed state.
LEMMA IdleIsRequest == Idle \in Request
<1>1. (CHOOSE p \in Project : TRUE) \in Project
  BY RowConstants
<1>2. 0 \in Day /\ 0 \in 0 .. Attempts
  BY RowConstants DEF Day, Attempts
<1>. QED
  BY <1>1, <1>2, AbsentIsRow, SMTT(30) DEF Idle, Request, Phase, Op, Status

\* Merging a patch into a row gives a row.
LEMMA PatchedIsRow ==
  ASSUME NEW r \in Row, NEW q,
         q.name \in Name \cup {Keep},
         q.startDate \in StartDates \cup {Keep},
         q.endDate \in EndDates \cup {Keep}
  PROVE  Patched(r, q) \in Row
BY RowConstants DEF Patched, Row

\* Whatever a batch does to a row leaves a row.
LEMMA WritesAreRows ==
  ASSUME NEW r \in Row, NEW day \in Day, NEW reason \in Reason
  PROVE  /\ Bumped(r) \in Row
         /\ Closed(r, day, reason) \in Row
         /\ Opened(r) \in Row
         /\ Deleted(r) \in Row
         /\ Restored(r) \in Row
<1>1. Bumped(r) \in Row
  BY DEF Bumped, Row
<1>2. Closed(r, day, reason) \in Row
  BY <1>1 DEF Closed, Bumped, Row, Status, Date
<1>3. Opened(r) \in Row
  BY <1>1 DEF Opened, Bumped, Row, Status, Date, Reason
<1>4. Deleted(r) \in Row
  BY <1>1 DEF Deleted, Bumped, Row
<1>5. Restored(r) \in Row
  BY <1>1 DEF Restored, Bumped, Row, Status
<1>. QED
  BY <1>1, <1>2, <1>3, <1>4, <1>5

\* createProject inserts a row.
LEMMA CreatedIsRow ==
  ASSUME NEW n \in Name, NEW start \in StartDates, NEW end \in EndDates
  PROVE  Created(n, start, end) \in Row
BY AbsentIsRow, RowConstants DEF Created, Row, Status

\* A handler that comes back from closeExpiredProject is well typed.
LEMMA ResumedIsRequest ==
  ASSUME NEW q \in Request, NEW closedIt \in BOOLEAN
  PROVE  Resumed(q, closedIt) \in Request
<1>. DEFINE phase == IF q.op = "SCHEDULED" THEN "next" ELSE "load"
<1>1. 0 \in 0 .. Attempts /\ 0 \in Nat /\ phase \in Phase
  BY DEF Attempts, Phase
<1>2. [q EXCEPT !.phase = phase, !.seen = 0, !.attempt = 0] \in Request
  <2>. HIDE DEF phase
  <2>. QED
    BY <1>1 DEF Request
<1>. QED
  BY <1>2, IdleIsRequest DEF Resumed

\* closeExpiredProject changes neither the clock nor the project nor the
\* revision of the handler that calls it, and never takes it to its batch.
LEMMA ResumedKeeps ==
  ASSUME NEW q \in Request, NEW closedIt \in BOOLEAN
  PROVE  LET q2 == Resumed(q, closedIt) IN
         \/ q2 = Idle
         \/ /\ q2.today = q.today /\ q2.expected = q.expected
            /\ q2.project = q.project /\ q2.phase # "commit"
<1>. DEFINE phase == IF q.op = "SCHEDULED" THEN "next" ELSE "load"
            q2 == [q EXCEPT !.phase = phase, !.seen = 0, !.attempt = 0]
<1>1. phase # "commit"
  OBVIOUS
<1>2. /\ q2.today = q.today /\ q2.expected = q.expected
      /\ q2.project = q.project /\ q2.phase = phase
  <2>. HIDE DEF phase
  <2>. QED
    BY DEF Request
<1>3. Resumed(q, closedIt) \in {Idle, q2}
  BY DEF Resumed
<1>. HIDE DEF phase, q2
<1>. QED
  BY <1>1, <1>2, <1>3

\* The batch of a request whose guard holds writes a row.
LEMMA EffectIsRow ==
  ASSUME NEW r \in Row, NEW q \in Request, Guard(r, q)
  PROVE  Effect(r, q) \in Row
<1>. DEFINE new == Patched(q.read, q)
<1>1. CASE q.op = "UPDATE"
  <2>1. new \in Row
    BY PatchedIsRow DEF Request
  <2>2. Bumped(r) \in Row
    BY WritesAreRows DEF Reason, Request
  <2>. QED
    BY <1>1, <2>1, <2>2 DEF Effect, Row
<1>2. CASE q.op # "UPDATE"
  <2>1. q.op \in {"TRANSITION", "DELETE", "RESTORE", "CONTENT", "CORRECTION"}
    BY <1>2 DEF Guard, StateGuard
  <2>2. q.today \in Day /\ "MANUAL" \in Reason
    BY DEF Request, Reason
  <2>. QED
    BY <2>1, <2>2, WritesAreRows DEF Effect
<1>. QED
  BY <1>1, <1>2

-----------------------------------------------------------------------------
(* Types. *)

\* The arrival of a well-typed request keeps the types.
LEMMA ArriveType ==
  ASSUME TypeOK, NEW s \in Slot, NEW p \in Project, NEW arriving \in Request,
         Arrive(s, p, arriving)
  PROVE  TypeOK'
<1>1. PICK seen \in 0 .. row[p].revision :
        request' = [request EXCEPT ![s] =
          [arriving EXCEPT !.project = p, !.today = today, !.expected = seen]]
  BY DEF Arrive
<1>2. seen \in Nat
  BY DEF TypeOK, Row
<1>3. [arriving EXCEPT !.project = p, !.today = today, !.expected = seen] \in Request
  BY <1>2 DEF TypeOK, Request
<1>. QED
  BY <1>1, <1>3 DEF TypeOK, Arrive

\* The requests that arrive are well typed.
LEMMA ArrivingTypes ==
  /\ \A patch \in Patch :
       [Idle EXCEPT !.phase = "expire", !.op = "UPDATE", !.name = patch.name,
                    !.startDate = patch.startDate, !.endDate = patch.endDate] \in Request
  /\ \A t \in Status :
       [Idle EXCEPT !.phase = "expire", !.op = "TRANSITION", !.target = t] \in Request
  /\ \A n \in Name :
       [Idle EXCEPT !.phase = "load", !.op = "DELETE", !.name = n] \in Request
  /\ [Idle EXCEPT !.phase = "load", !.op = "RESTORE"] \in Request
  /\ [Idle EXCEPT !.phase = "expire", !.op = "CONTENT"] \in Request
  /\ [Idle EXCEPT !.phase = "load", !.op = "CORRECTION"] \in Request
BY IdleIsRequest DEF Request, Patch, Phase, Op

\* Every step keeps the types.
LEMMA TypeStep ==
  ASSUME TypeOK, [Next]_vars
  PROVE  TypeOK'
<1>1. CASE DayPasses
  BY <1>1, RowConstants DEF DayPasses, TypeOK, Day
<1>2. ASSUME NEW p \in Project, CreateProject(p) PROVE TypeOK'
  BY <1>2, CreatedIsRow DEF CreateProject, TypeOK
<1>3. ASSUME NEW s \in Slot, NEW p \in Project,
             ArriveUpdate(s, p) \/ ArriveTransition(s, p) \/ ArriveDelete(s, p)
             \/ ArriveRestore(s, p) \/ ArriveContent(s, p) \/ ArriveCorrection(s, p)
      PROVE  TypeOK'
  BY <1>3, ArriveType, ArrivingTypes
  DEF ArriveUpdate, ArriveTransition, ArriveDelete, ArriveRestore,
      ArriveContent, ArriveCorrection
<1>4. ASSUME NEW w \in Worker, FindExpired(w) PROVE TypeOK'
  <2>1. row[request[w].project].revision \in Nat /\ request[w] \in Request
    BY DEF TypeOK, Request, Row
  <2>2. Resumed(request[w], FALSE) \in Request
    BY <2>1, ResumedIsRequest
  <2>3. [request[w] EXCEPT !.phase = "close",
           !.seen = row[request[w].project].revision] \in Request
    BY <2>1 DEF Request, Phase
  <2>. QED
    BY <1>4, <2>2, <2>3 DEF FindExpired, TypeOK
<1>5. ASSUME NEW w \in Worker, CloseExpired(w) PROVE TypeOK'
  <2>1. request[w] \in Request /\ "SCHEDULED" \in Reason
    BY DEF TypeOK, Reason
  <2>2. Resumed(request[w], TRUE) \in Request
    BY <2>1, ResumedIsRequest
  <2>3. Closed(row[request[w].project], request[w].today, "SCHEDULED") \in Row
    BY <2>1, WritesAreRows DEF TypeOK, Request
  <2>. QED
    BY <1>5, <2>2, <2>3 DEF CloseExpired, TypeOK
<1>6. ASSUME NEW w \in Worker, LoseClose(w) PROVE TypeOK'
  <2>1. request[w] \in Request
    BY DEF TypeOK
  <2>2. Resumed(request[w], FALSE) \in Request
    BY <2>1, ResumedIsRequest
  <2>3. request[w].attempt + 1 < Attempts =>
          [request[w] EXCEPT !.phase = "expire", !.seen = 0, !.attempt = @ + 1] \in Request
    <3>. SUFFICES ASSUME request[w].attempt + 1 < Attempts
                  PROVE  [request[w] EXCEPT !.phase = "expire", !.seen = 0,
                                            !.attempt = @ + 1] \in Request
      OBVIOUS
    <3>1. request[w].attempt + 1 \in 0 .. Attempts
      BY <2>1 DEF Request, Attempts
    <3>. QED
      BY <2>1, <3>1 DEF Request, Phase
  <2>. QED
    BY <1>6, <2>2, <2>3 DEF LoseClose, TypeOK
<1>7. ASSUME NEW s \in Slot, Load(s) PROVE TypeOK'
  <2>1. request[s] \in Request /\ row[request[s].project] \in Row
    BY DEF TypeOK, Request, Worker
  <2>2. [request[s] EXCEPT !.phase = "commit", !.read = row[request[s].project]] \in Request
    BY <2>1 DEF Request, Phase
  <2>. QED
    BY <1>7, <2>2, IdleIsRequest DEF Load, TypeOK
<1>8. ASSUME NEW s \in Slot, Commit(s) PROVE TypeOK'
  <2>1. request[s] \in Request /\ row[request[s].project] \in Row
    BY DEF TypeOK, Request, Worker
  <2>2. Effect(row[request[s].project], request[s]) \in Row
    BY <1>8, <2>1, EffectIsRow DEF Commit
  <2>. QED
    BY <1>8, <2>2, IdleIsRequest DEF Commit, TypeOK
<1>9. ASSUME NEW s \in Slot, Fail(s) PROVE TypeOK'
  <2>1. request[s] \in Request
    BY DEF TypeOK, Worker
  <2>2. [Idle EXCEPT !.phase = "expire", !.project = request[s].project,
                     !.today = request[s].today] \in Request
    BY <2>1, IdleIsRequest DEF Request, Phase
  <2>. QED
    BY <1>9, <2>2, IdleIsRequest DEF Fail, TypeOK
<1>10. ASSUME NEW s \in Slot, Abort(s) PROVE TypeOK'
  BY <1>10, IdleIsRequest DEF Abort, TypeOK
<1>11. CASE ScheduledStart
  <2>1. [Idle EXCEPT !.phase = "next", !.op = "SCHEDULED", !.today = today] \in Request
    BY IdleIsRequest DEF TypeOK, Request, Phase, Op
  <2>2. due' \subseteq Project
    BY <1>11 DEF ScheduledStart
  <2>. QED
    BY <1>11, <2>1, <2>2 DEF ScheduledStart, TypeOK
<1>12. CASE ScheduledNext
  <2>1. CASE due = {} /\ request' = [request EXCEPT ![Cron] = Idle] /\ UNCHANGED due
    BY <1>12, <2>1, IdleIsRequest DEF ScheduledNext, TypeOK
  <2>2. ASSUME NEW p \in due, due' = due \ {p},
               request' = [request EXCEPT ![Cron].phase = "expire", ![Cron].project = p]
        PROVE  TypeOK'
    <3>1. request[Cron] \in Request /\ p \in Project
      BY DEF TypeOK, Worker
    <3>2. [[request[Cron] EXCEPT !.phase = "expire"] EXCEPT !.project = p] \in Request
      BY <3>1 DEF Request, Phase
    <3>. QED
      BY <1>12, <2>2, <3>2 DEF ScheduledNext, TypeOK, Worker
  <2>. QED
    BY <1>12, <2>1, <2>2 DEF ScheduledNext
<1>13. CASE ScheduledAbort
  BY <1>13, IdleIsRequest DEF ScheduledAbort, TypeOK
<1>14. CASE UNCHANGED vars
  BY <1>14 DEF vars, TypeOK
<1>. QED
  BY <1>1, <1>2, <1>3, <1>4, <1>5, <1>6, <1>7, <1>8, <1>9, <1>10, <1>11, <1>12, <1>13, <1>14
  DEF Next, RequestStep, ScheduledStep, ExpireStep, Worker

\* Every column of every row and every field of every running handler keeps
\* its type, for any number of projects, handlers and days.
THEOREM TypeCorrect == Spec => []TypeOK
<1>1. Init => TypeOK
  BY AbsentIsRow, IdleIsRequest, RowConstants DEF Init, TypeOK, Day
<1>2. TypeOK /\ [Next]_vars => TypeOK'
  BY TypeStep
<1>. QED
  BY <1>1, <1>2, PTL DEF Spec

-----------------------------------------------------------------------------
(* What one write makes of one row. *)

RowSound(r) ==
  /\ r.status = "ABSENT" => r.revision = 0 /\ ~r.deleted
  /\ (r.status = "CLOSED") <=> (r.closedAt # NoDate)
  /\ (r.status = "CLOSED") <=> (r.closeReason # "NONE")
  /\ r.deleted => r.status = "CLOSED" /\ r.deletedRevision = r.revision
  /\ InOrder(r.startDate, r.endDate)

\* The invariants about rows, gathered in one condition on a single row.
LEMMA RowsSound ==
  (UnwrittenRows /\ ClosureRecorded /\ DeletionOverlay /\ DatesInOrder)
    <=> \A p \in Project : RowSound(row[p])
BY DEF UnwrittenRows, ClosureRecorded, DeletionOverlay, DatesInOrder, RowSound

\* A row just inserted satisfies that condition.
LEMMA CreatedIsSound ==
  ASSUME NEW n \in Name, NEW start \in StartDates, NEW end \in EndDates,
         InOrder(start, end)
  PROVE  /\ RowSound(Created(n, start, end))
         /\ Created(n, start, end).status # "ABSENT"
         /\ Created(n, start, end).revision = 0
BY DEF Created, Absent, RowSound

\* The auto-close of an expired row keeps that condition.
LEMMA CloseIsSound ==
  ASSUME NEW r \in Row, RowSound(r), Visible(r), NEW day \in Day,
         NEW reason \in {"MANUAL", "SCHEDULED"}
  PROVE  /\ RowSound(Closed(r, day, reason))
         /\ Closed(r, day, reason).status = "CLOSED"
         /\ Closed(r, day, reason).revision = r.revision + 1
<1>1. day # NoDate
  BY RowConstants DEF Day
<1>. QED
  BY <1>1 DEF Closed, Bumped, RowSound, Row, Visible

\* A batch whose guard holds and that read the very row it finds.
LEMMA EffectIsSound ==
  ASSUME NEW r \in Row, NEW q \in Request, RowSound(r),
         Guard(r, q), q.read = r, Accepts(r, q)
  PROVE  /\ RowSound(Effect(r, q))
         /\ Effect(r, q).status # "ABSENT"
         /\ Effect(r, q).revision = r.revision + 1
<1>1. CASE q.op = "UPDATE"
  <2>1. Visible(r)
    BY <1>1 DEF Guard, StateGuard
  <2>2. InOrder(Patched(r, q).startDate, Patched(r, q).endDate)
    BY <1>1 DEF Accepts, MergedInOrder
  <2>3. Effect(r, q) = [Bumped(r) EXCEPT !.name = Patched(r, q).name,
                                         !.startDate = Patched(r, q).startDate,
                                         !.endDate = Patched(r, q).endDate]
    BY <1>1 DEF Effect
  <2>. QED
    BY <2>1, <2>2, <2>3 DEF RowSound, Bumped, Row, Visible
<1>2. CASE q.op = "TRANSITION"
  <2>1. Visible(r)
    BY <1>2 DEF Guard, StateGuard
  <2>2. CASE q.target = "CLOSED"
    <3>1. Effect(r, q) = Closed(r, q.today, "MANUAL") /\ q.today \in Day
      BY <1>2, <2>2 DEF Effect, Request
    <3>. QED
      BY <2>1, <3>1, CloseIsSound
  <2>3. CASE q.target # "CLOSED"
    <3>1. Effect(r, q) = Opened(r)
      BY <1>2, <2>3 DEF Effect
    <3>. QED
      BY <2>1, <3>1 DEF Opened, Bumped, RowSound, Row, Visible
  <2>. QED
    BY <2>2, <2>3
<1>3. CASE q.op = "DELETE"
  <2>1. Visible(r) /\ r.status = "CLOSED" /\ Effect(r, q) = Deleted(r)
    BY <1>3 DEF Guard, StateGuard, Effect
  <2>. QED
    BY <2>1 DEF Deleted, Bumped, RowSound, Row
<1>4. CASE q.op = "RESTORE"
  <2>1. r.deleted /\ Effect(r, q) = Restored(r)
    BY <1>4 DEF Guard, StateGuard, Effect
  <2>. QED
    BY <2>1 DEF Restored, Bumped, RowSound, Row
<1>5. CASE q.op \in {"CONTENT", "CORRECTION"}
  <2>1. Visible(r) /\ Effect(r, q) = Bumped(r)
    BY <1>5 DEF Guard, StateGuard, Effect
  <2>. QED
    BY <2>1 DEF Bumped, RowSound, Row, Visible
<1>. QED
  BY <1>1, <1>2, <1>3, <1>4, <1>5 DEF Accepts

-----------------------------------------------------------------------------
(* The guard pins the read. *)

\* The revision the client sent bounds the revision read from below, and the
\* guard makes it bound the row's revision from above.
LEMMA GuardPins ==
  ASSUME TypeOK, ReadsAge, NEW s \in Slot, request[s].phase = "commit",
         Guard(row[request[s].project], request[s])
  PROVE  row[request[s].project] = request[s].read
<1>. DEFINE q == request[s]
            r == row[q.project]
<1>1. q \in Request /\ r \in Row
  BY DEF TypeOK, Worker, Request
<1>2. q.expected \in Nat /\ q.read.revision \in Nat /\ r.revision \in Nat
  BY <1>1 DEF Request, Row
<1>3. r.revision = q.expected
  BY DEF Guard
<1>4. /\ q.expected <= q.read.revision /\ q.read.revision <= r.revision
      /\ q.read.revision = r.revision => q.read = r
  BY DEF ReadsAge
<1>5. q.read.revision = r.revision
  BY <1>2, <1>3, <1>4
<1>. QED
  BY <1>4, <1>5

\* One step of the system, seen from one row: nothing, a creation, or one
\* write that moves the revision by one.
RowMoves(p) ==
  \/ row'[p] = row[p]
  \/ row[p].status = "ABSENT" /\ row'[p].status # "ABSENT" /\ row'[p].revision = 0
  \/ row[p].status # "ABSENT" /\ row'[p].status # "ABSENT"
     /\ row'[p].revision = row[p].revision + 1

\* The batch of a request changes one row, and moves it soundly.
LEMMA CommitMoves ==
  ASSUME IInv, NEW s \in Slot, Commit(s)
  PROVE  \A p \in Project : RowSound(row'[p]) /\ RowMoves(p)
<1>. DEFINE q == request[s]
            r == row[q.project]
<1>1. q \in Request /\ q.project \in Project /\ r \in Row /\ \A p \in Project : RowSound(row[p])
  BY RowsSound DEF IInv, TypeOK, Worker, Request
<1>2. q.read = r /\ Accepts(q.read, q) /\ r.status # "ABSENT" /\ Guard(r, q)
  BY GuardPins DEF Commit, IInv, ReadsAge
<1>3. /\ RowSound(Effect(r, q))
      /\ Effect(r, q).status # "ABSENT"
      /\ Effect(r, q).revision = r.revision + 1
  BY <1>1, <1>2, EffectIsSound
<1>4. row' = [row EXCEPT ![q.project] = Effect(r, q)]
  BY DEF Commit
<1>. QED
  BY <1>1, <1>2, <1>3, <1>4 DEF RowMoves, IInv, TypeOK

\* The auto-close changes one row, and moves it soundly.
LEMMA CloseMoves ==
  ASSUME IInv, NEW w \in Worker, CloseExpired(w)
  PROVE  \A p \in Project : RowSound(row'[p]) /\ RowMoves(p)
<1>. DEFINE q == request[w]
            r == row[q.project]
<1>1. q \in Request /\ q.project \in Project /\ r \in Row /\ \A p \in Project : RowSound(row[p])
  BY RowsSound DEF IInv, TypeOK, Request
<1>2. Visible(r) /\ q.today \in Day
  BY <1>1 DEF CloseExpired, CloseGuard, Expired, Request
<1>3. /\ RowSound(Closed(r, q.today, "SCHEDULED"))
      /\ Closed(r, q.today, "SCHEDULED").status = "CLOSED"
      /\ Closed(r, q.today, "SCHEDULED").revision = r.revision + 1
  BY <1>1, <1>2, CloseIsSound
<1>4. row' = [row EXCEPT ![q.project] = Closed(r, q.today, "SCHEDULED")]
  BY DEF CloseExpired
<1>. QED
  BY <1>1, <1>2, <1>3, <1>4 DEF RowMoves, IInv, TypeOK, Visible

\* Only these four actions move the clock or a row.
LEMMA QuietSteps ==
  ASSUME [Next]_vars
  PROVE  \/ row' = row /\ today' = today
         \/ DayPasses
         \/ \E p \in Project : CreateProject(p)
         \/ \E w \in Worker : CloseExpired(w)
         \/ \E s \in Slot : Commit(s)
<1>1. ASSUME NEW s \in Slot, NEW p \in Project,
             ArriveUpdate(s, p) \/ ArriveTransition(s, p) \/ ArriveDelete(s, p)
             \/ ArriveRestore(s, p) \/ ArriveContent(s, p) \/ ArriveCorrection(s, p)
      PROVE  row' = row /\ today' = today
  BY <1>1 DEF ArriveUpdate, ArriveTransition, ArriveDelete, ArriveRestore,
              ArriveContent, ArriveCorrection, Arrive
<1>2. ASSUME NEW w \in Worker, FindExpired(w) \/ LoseClose(w)
      PROVE  row' = row /\ today' = today
  BY <1>2 DEF FindExpired, LoseClose
<1>3. ASSUME NEW s \in Slot, Load(s) \/ Fail(s) \/ Abort(s)
      PROVE  row' = row /\ today' = today
  BY <1>3 DEF Load, Fail, Abort
<1>4. ScheduledStart \/ ScheduledNext \/ ScheduledAbort \/ UNCHANGED vars
        => row' = row /\ today' = today
  BY DEF ScheduledStart, ScheduledNext, ScheduledAbort, vars
<1>. QED
  BY <1>1, <1>2, <1>3, <1>4
  DEF Next, RequestStep, ScheduledStep, ExpireStep, Worker

\* In every step each row is created, moves soundly, or stays.
LEMMA RowsMove ==
  ASSUME IInv, [Next]_vars
  PROVE  \A p \in Project : RowSound(row'[p]) /\ RowMoves(p)
<1>1. \A p \in Project : RowSound(row[p])
  BY RowsSound DEF IInv
<1>2. ASSUME NEW p \in Project, CreateProject(p)
      PROVE  \A x \in Project : RowSound(row'[x]) /\ RowMoves(x)
  BY <1>1, <1>2, CreatedIsSound DEF CreateProject, RowMoves, IInv, TypeOK
<1>3. CASE row' = row
  BY <1>1, <1>3 DEF RowMoves
<1>4. DayPasses => row' = row
  BY DEF DayPasses
<1>. QED
  BY <1>2, <1>3, <1>4, CloseMoves, CommitMoves, QuietSteps

-----------------------------------------------------------------------------
(* What one step makes of the running handlers. *)

\* Clocks are taken from today, and today only grows.
LEMMA ClocksLag ==
  ASSUME IInv, [Next]_vars
  PROVE  \A w \in Worker : request'[w].today <= today'
<1>. DEFINE Lagging == \A w \in Worker : request'[w].today <= today
<1>1. /\ \A w \in Worker : request[w] \in Request /\ request[w].today <= today
      /\ today \in Nat /\ today' \in Nat
      /\ \A w \in Worker : request'[w].today \in Nat
  BY TypeStep DEF IInv, TypeOK, HandlersLag, Day, Request
<1>2. Idle.today = 0
  BY DEF Idle
<1>3. CASE DayPasses
  BY <1>1, <1>3 DEF DayPasses
<1>4. ASSUME NEW s \in Slot, NEW p \in Project,
             ArriveUpdate(s, p) \/ ArriveTransition(s, p) \/ ArriveDelete(s, p)
             \/ ArriveRestore(s, p) \/ ArriveContent(s, p) \/ ArriveCorrection(s, p)
      PROVE  Lagging
  <2>1. ASSUME NEW arriving \in Request, Arrive(s, p, arriving)
        PROVE  Lagging
    BY <1>1, <2>1 DEF Arrive, IInv, TypeOK, Request, Worker
  <2>. QED
    BY <1>4, <2>1, ArrivingTypes
    DEF ArriveUpdate, ArriveTransition, ArriveDelete, ArriveRestore,
        ArriveContent, ArriveCorrection
<1>5. ASSUME NEW w \in Worker, FindExpired(w) \/ CloseExpired(w) \/ LoseClose(w)
      PROVE  Lagging
  <2>1. \A closedIt \in BOOLEAN : Resumed(request[w], closedIt).today <= today
    BY <1>1, <1>2, ResumedKeeps
  <2>2. CASE FindExpired(w)
    BY <1>1, <2>1, <2>2 DEF FindExpired, IInv, TypeOK, Request
  <2>3. CASE CloseExpired(w)
    BY <1>1, <2>1, <2>3 DEF CloseExpired, IInv, TypeOK, Request
  <2>4. CASE LoseClose(w)
    BY <1>1, <2>1, <2>4 DEF LoseClose, IInv, TypeOK, Request
  <2>. QED
    BY <1>5, <2>2, <2>3, <2>4
<1>6. ASSUME NEW s \in Slot, Load(s) \/ Commit(s) \/ Fail(s) \/ Abort(s)
      PROVE  Lagging
  <2>1. CASE Load(s)
    BY <1>1, <1>2, <2>1 DEF Load, IInv, TypeOK, Worker, Request
  <2>2. CASE Fail(s)
    <3>1. [Idle EXCEPT !.phase = "expire", !.project = request[s].project,
                       !.today = request[s].today].today = request[s].today
      BY IdleIsRequest DEF Request
    <3>. QED
      BY <1>1, <1>2, <2>2, <3>1 DEF Fail, IInv, TypeOK, Worker
  <2>3. CASE Commit(s) \/ Abort(s)
    BY <1>1, <1>2, <2>3 DEF Commit, Abort, IInv, TypeOK, Worker
  <2>. QED
    BY <1>6, <2>1, <2>2, <2>3
<1>7. CASE ScheduledStart
  BY <1>1, <1>7 DEF ScheduledStart, IInv, TypeOK, Worker, Request, Idle
<1>8. CASE ScheduledNext
  BY <1>1, <1>2, <1>8 DEF ScheduledNext, IInv, TypeOK, Worker, Request
<1>9. CASE ScheduledAbort \/ UNCHANGED vars
  BY <1>1, <1>9 DEF ScheduledAbort, IInv, TypeOK, Worker, Request, Idle, vars
<1>10. today' = today \/ DayPasses
  BY QuietSteps DEF CreateProject, CloseExpired, Commit
<1>11. ASSUME NEW p \in Project, CreateProject(p) PROVE Lagging
  BY <1>1, <1>11 DEF CreateProject
<1>. QED
  BY <1>3, <1>4, <1>5, <1>6, <1>7, <1>8, <1>9, <1>10, <1>11
  DEF Next, RequestStep, ScheduledStep, ExpireStep, Worker

\* One step of the system, seen from one request handler: nothing, a step
\* that leaves it without a batch to submit, or the read before its batch.
HandlerMoves(s) ==
  \/ request'[s] = request[s]
  \/ /\ request'[s].phase # "commit"
     /\ request'[s].expected <= row[request'[s].project].revision
  \/ /\ row' = row
     /\ Accepts(row[request[s].project], request[s])
     /\ request'[s] = [request[s] EXCEPT !.phase = "commit",
                                         !.read = row[request[s].project]]

\* Every step is one of these for every request handler.
LEMMA HandlersMove ==
  ASSUME IInv, [Next]_vars, NEW s \in Slot
  PROVE  HandlerMoves(s)
<1>1. /\ \A x \in Slot : request[x] \in Request
      /\ \A x \in Slot : request[x].expected <= row[request[x].project].revision
      /\ \A p \in Project : row[p].revision \in Nat
      /\ request \in [Worker -> Request] /\ row \in [Project -> Row]
      /\ \A x \in Slot : x \in Worker /\ x # Cron
  BY LifecycleConstants DEF IInv, TypeOK, HandlersLag, Worker, Row
<1>2. Idle.phase # "commit" /\ Idle.expected = 0 /\ Idle.project \in Project
  BY IdleIsRequest DEF Idle, Request
<1>3. request'[s] = Idle => HandlerMoves(s)
  BY <1>1, <1>2 DEF HandlerMoves
<1>4. ASSUME NEW x \in Slot, NEW p \in Project,
             ArriveUpdate(x, p) \/ ArriveTransition(x, p) \/ ArriveDelete(x, p)
             \/ ArriveRestore(x, p) \/ ArriveContent(x, p) \/ ArriveCorrection(x, p)
      PROVE  HandlerMoves(s)
  <2>1. ASSUME NEW arriving \in Request, Arrive(x, p, arriving),
               arriving.phase # "commit"
        PROVE  HandlerMoves(s)
    <3>1. PICK seen \in 0 .. row[p].revision :
            request' = [request EXCEPT ![x] =
              [arriving EXCEPT !.project = p, !.today = today, !.expected = seen]]
      BY <2>1 DEF Arrive
    <3>2. CASE x = s
      <4>1. /\ request'[s].phase = arriving.phase
            /\ request'[s].project = p /\ request'[s].expected = seen
        BY <1>1, <3>1, <3>2 DEF Request
      <4>. QED
        BY <1>1, <2>1, <4>1 DEF HandlerMoves
    <3>3. CASE x # s
      BY <1>1, <3>1, <3>3 DEF HandlerMoves
    <3>. QED
      BY <3>2, <3>3
  <2>2. /\ \A patch \in Patch :
             [Idle EXCEPT !.phase = "expire", !.op = "UPDATE", !.name = patch.name,
                          !.startDate = patch.startDate,
                          !.endDate = patch.endDate].phase = "expire"
        /\ \A t \in Status :
             [Idle EXCEPT !.phase = "expire", !.op = "TRANSITION", !.target = t].phase = "expire"
        /\ \A n \in Name :
             [Idle EXCEPT !.phase = "load", !.op = "DELETE", !.name = n].phase = "load"
        /\ [Idle EXCEPT !.phase = "load", !.op = "RESTORE"].phase = "load"
        /\ [Idle EXCEPT !.phase = "expire", !.op = "CONTENT"].phase = "expire"
        /\ [Idle EXCEPT !.phase = "load", !.op = "CORRECTION"].phase = "load"
    BY DEF Idle
  <2>. QED
    BY <1>4, <2>1, <2>2, ArrivingTypes
    DEF ArriveUpdate, ArriveTransition, ArriveDelete, ArriveRestore,
        ArriveContent, ArriveCorrection
<1>5. ASSUME NEW w \in Worker, FindExpired(w) \/ CloseExpired(w) \/ LoseClose(w)
      PROVE  HandlerMoves(s)
  <2>1. ASSUME w = s, NEW closedIt \in BOOLEAN,
               request'[s] = Resumed(request[s], closedIt)
        PROVE  HandlerMoves(s)
    BY <1>1, <1>2, <2>1, ResumedKeeps DEF HandlerMoves
  <2>2. CASE w # s
    BY <1>5, <1>1, <2>2 DEF HandlerMoves, FindExpired, CloseExpired, LoseClose
  <2>3. CASE w = s /\ FindExpired(w)
    <3>1. [request[s] EXCEPT !.phase = "close", !.seen = row[request[s].project].revision].phase = "close"
          /\ [request[s] EXCEPT !.phase = "close", !.seen = row[request[s].project].revision].expected = request[s].expected
          /\ [request[s] EXCEPT !.phase = "close", !.seen = row[request[s].project].revision].project = request[s].project
      BY <1>1 DEF Request
    <3>. QED
      BY <1>1, <2>1, <2>3, <3>1 DEF FindExpired, HandlerMoves
  <2>4. CASE w = s /\ CloseExpired(w)
    BY <1>1, <2>1, <2>4 DEF CloseExpired
  <2>5. CASE w = s /\ LoseClose(w)
    <3>1. [request[s] EXCEPT !.phase = "expire", !.seen = 0, !.attempt = @ + 1].phase = "expire"
          /\ [request[s] EXCEPT !.phase = "expire", !.seen = 0, !.attempt = @ + 1].expected = request[s].expected
          /\ [request[s] EXCEPT !.phase = "expire", !.seen = 0, !.attempt = @ + 1].project = request[s].project
      BY <1>1 DEF Request
    <3>. QED
      BY <1>1, <2>1, <2>5, <3>1 DEF LoseClose, HandlerMoves
  <2>. QED
    BY <1>5, <2>2, <2>3, <2>4, <2>5
<1>6. ASSUME NEW x \in Slot, Load(x) PROVE HandlerMoves(s)
  BY <1>1, <1>3, <1>6 DEF Load, HandlerMoves
<1>7. ASSUME NEW x \in Slot, Commit(x) \/ Abort(x) PROVE HandlerMoves(s)
  BY <1>1, <1>3, <1>7 DEF Commit, Abort, HandlerMoves
<1>8. ASSUME NEW x \in Slot, Fail(x) PROVE HandlerMoves(s)
  <2>. DEFINE q == [Idle EXCEPT !.phase = "expire", !.project = request[x].project,
                                !.today = request[x].today]
  <2>1. q.phase = "expire" /\ q.expected = 0 /\ q.project \in Project
    BY <1>1 DEF Idle, Request
  <2>2. request'[s] \in {request[s], Idle, q}
    BY <1>1, <1>8 DEF Fail
  <2>. HIDE DEF q
  <2>. QED
    BY <1>1, <1>3, <2>1, <2>2 DEF HandlerMoves
<1>9. CASE ScheduledStart \/ ScheduledNext \/ ScheduledAbort
  BY <1>1, <1>9 DEF ScheduledStart, ScheduledNext, ScheduledAbort, HandlerMoves
<1>10. CASE DayPasses \/ (\E p \in Project : CreateProject(p)) \/ UNCHANGED vars
  BY <1>10 DEF DayPasses, CreateProject, vars, HandlerMoves
<1>. QED
  BY <1>4, <1>5, <1>6, <1>7, <1>8, <1>9, <1>10
  DEF Next, RequestStep, ScheduledStep, ExpireStep, Worker

-----------------------------------------------------------------------------
(* The inductive invariant. *)

\* The inductive invariant holds of the empty database.
LEMMA InitIInv == Init => IInv
<1>. SUFFICES ASSUME Init PROVE IInv
  OBVIOUS
<1>1. TypeOK
  BY AbsentIsRow, IdleIsRequest, RowConstants DEF Init, TypeOK, Day
<1>2. \A p \in Project : RowSound(row[p])
  BY DEF Init, RowSound, Absent, InOrder
<1>3. Idle.project \in Project /\ Absent.revision = 0
  BY IdleIsRequest DEF Request, Absent
<1>4. HandlersLag /\ ReadsAge
  BY <1>3 DEF Init, HandlersLag, ReadsAge, Worker, Idle
<1>. QED
  BY <1>1, <1>2, <1>4, RowsSound DEF IInv

\* No step, of whatever handler, makes a read of another handler younger than
\* its revision says.
LEMMA AgeStep ==
  ASSUME IInv, [Next]_vars, NEW s \in Slot
  PROVE  LET q == request'[s]
             r == row'[q.project]
         IN  /\ q.expected <= r.revision
             /\ q.phase = "commit" =>
                  /\ r.status # "ABSENT"
                  /\ Accepts(q.read, q)
                  /\ q.expected <= q.read.revision /\ q.read.revision <= r.revision
                  /\ q.read.revision = r.revision => q.read = r
<1>. DEFINE q  == request[s]
            r  == row[q.project]
            q2 == request'[s]
            r2 == row'[q2.project]
<1>1. /\ TypeOK /\ TypeOK'
      /\ q \in Request /\ q2 \in Request /\ q.project \in Project /\ q2.project \in Project
  BY TypeStep DEF IInv, TypeOK, Worker, Request
<1>2. \A p \in Project : /\ RowMoves(p)
                         /\ row[p].revision \in Nat /\ row'[p].revision \in Nat
                         /\ row[p].status = "ABSENT" => row[p].revision = 0
  BY <1>1, RowsMove DEF TypeOK, Row, IInv, UnwrittenRows
<1>3. q.expected \in Nat /\ q2.expected \in Nat /\ q.expected <= r.revision
      /\ q.read.revision \in Nat /\ q2.read.revision \in Nat
  BY <1>1 DEF Request, Row, IInv, HandlersLag
<1>4. \A p \in Project : row[p].revision <= row'[p].revision
  BY <1>2 DEF RowMoves
<1>5. CASE q2 = q
  <2>1. q.expected <= r2.revision
    BY <1>1, <1>2, <1>3, <1>4, <1>5
  <2>2. ASSUME q.phase = "commit"
        PROVE  /\ r2.status # "ABSENT"
               /\ Accepts(q.read, q)
               /\ q.expected <= q.read.revision /\ q.read.revision <= r2.revision
               /\ q.read.revision = r2.revision => q.read = r2
    <3>1. /\ r.status # "ABSENT" /\ Accepts(q.read, q)
          /\ q.expected <= q.read.revision /\ q.read.revision <= r.revision
          /\ q.read.revision = r.revision => q.read = r
      BY <2>2 DEF IInv, ReadsAge
    <3>2. r2 = r \/ (r2.status # "ABSENT" /\ r2.revision = r.revision + 1)
      BY <1>1, <1>2, <1>5, <3>1 DEF RowMoves
    <3>. QED
      BY <1>1, <1>2, <1>3, <3>1, <3>2
  <2>. QED
    BY <1>5, <2>1, <2>2
<1>6. CASE q2.phase # "commit" /\ q2.expected <= row[q2.project].revision
  BY <1>1, <1>2, <1>3, <1>4, <1>6
<1>7. CASE /\ row' = row /\ Accepts(r, q)
           /\ q2 = [q EXCEPT !.phase = "commit", !.read = r]
  <2>1. /\ q2.project = q.project /\ q2.read = r /\ q2.expected = q.expected
        /\ q2.op = q.op /\ q2.name = q.name /\ q2.target = q.target
        /\ q2.startDate = q.startDate /\ q2.endDate = q.endDate /\ q2.today = q.today
    BY <1>1, <1>7 DEF Request
  <2>2. Accepts(r, q2)
    BY <1>7, <2>1 DEF Accepts, Reopenable, MergedInOrder, Patched
  <2>3. r.status # "ABSENT"
    BY <1>1, <1>7 DEF Accepts, Visible, IInv, UnwrittenRows
  <2>. QED
    BY <1>1, <1>2, <1>3, <1>7, <2>1, <2>2, <2>3
<1>. QED
  BY <1>5, <1>6, <1>7, HandlersMove DEF HandlerMoves

\* Every step keeps the inductive invariant.
LEMMA StepIInv == IInv /\ [Next]_vars => IInv'
<1>. SUFFICES ASSUME IInv, [Next]_vars PROVE IInv'
  OBVIOUS
<1>1. TypeOK'
  BY TypeStep DEF IInv
<1>2. (UnwrittenRows /\ ClosureRecorded /\ DeletionOverlay /\ DatesInOrder)'
  BY RowsMove DEF UnwrittenRows, ClosureRecorded, DeletionOverlay, DatesInOrder, RowSound
<1>3. HandlersLag' /\ ReadsAge'
  BY ClocksLag, AgeStep DEF HandlersLag, ReadsAge
<1>. QED
  BY <1>1, <1>2, <1>3 DEF IInv

\* The inductive invariant: the rows are sound, no handler is ahead of the
\* clock or of the row it works on, and what a handler has read is the row
\* itself unless the revision has moved since.
THEOREM InductiveInvariant == Spec => []IInv
BY InitIInv, StepIInv, PTL DEF Spec

-----------------------------------------------------------------------------
(* The properties. *)

\* A batch whose guard holds finds the very row its request read, for any
\* number of concurrent handlers, however far behind the client's revision is.
THEOREM ReadsPinned == Spec => []GuardPinsRead
<1>1. IInv => GuardPinsRead
  BY GuardPins DEF IInv, GuardPinsRead
<1>. QED
  BY <1>1, InductiveInvariant, PTL

\* No batch ever violates the CHECK constraints on the closure columns.
THEOREM ClosuresRecorded == Spec => []ClosureRecorded
BY InductiveInvariant, PTL DEF IInv

\* A soft-deleted project stays closed and unwritten until it is restored.
THEOREM DeletionsOverlay == Spec => []DeletionOverlay
BY InductiveInvariant, PTL DEF IInv

\* No interleaving of date patches stores a project that ends before it starts.
THEOREM DatesStayInOrder == Spec => []DatesInOrder
BY InductiveInvariant, PTL DEF IInv

\* Every write of an existing row moves its revision by exactly one.
THEOREM RevisionsCount == Spec => RevisionCountsChanges
<1>1. IInv /\ [Next]_vars =>
        [\A p \in Project :
           row'[p] # row[p] /\ row[p].status # "ABSENT" =>
             row'[p].revision = row[p].revision + 1]_vars
  BY RowsMove DEF RowMoves
<1>. QED
  BY <1>1, InductiveInvariant, PTL DEF Spec, RevisionCountsChanges

\* No step replaces the closure record of a project that is and stays closed.
THEOREM ClosuresKept == Spec => ClosureKept
<1>. DEFINE Kept == \A p \in Project :
                      row[p].status = "CLOSED" /\ row'[p].status = "CLOSED" =>
                        /\ row'[p].closedAt = row[p].closedAt
                        /\ row'[p].closeReason = row[p].closeReason
<1>1. ASSUME IInv, [Next]_vars PROVE Kept
  <2>1. ASSUME NEW w \in Worker, CloseExpired(w) PROVE Kept
    <3>1. row[request[w].project].status # "CLOSED"
      BY <2>1 DEF CloseExpired, CloseGuard, Expired
    <3>. QED
      BY <1>1, <2>1, <3>1 DEF CloseExpired, IInv, TypeOK
  <2>2. ASSUME NEW s \in Slot, Commit(s) PROVE Kept
    <3>. DEFINE q == request[s]
                r == row[q.project]
    <3>1. q \in Request /\ r \in Row
      BY <1>1 DEF IInv, TypeOK, Worker, Request
    <3>2. Guard(r, q) /\ q.read = r /\ Accepts(r, q)
      BY <1>1, <2>2, GuardPins DEF Commit, IInv, ReadsAge
    <3>3. r.status = "CLOSED" /\ Effect(r, q).status = "CLOSED" =>
            /\ Effect(r, q).closedAt = r.closedAt
            /\ Effect(r, q).closeReason = r.closeReason
      <4>1. CASE q.op = "UPDATE"
        BY <3>1, <4>1 DEF Effect, Bumped, Row
      <4>2. CASE q.op = "TRANSITION"
        <5>1. r.status = "CLOSED" => Effect(r, q) = Opened(r)
          BY <3>2, <4>2 DEF Accepts, Reopenable, Transitions, Effect
        <5>. QED
          BY <3>1, <5>1 DEF Opened, Bumped, Row
      <4>3. CASE q.op = "DELETE"
        BY <3>1, <4>3 DEF Effect, Deleted, Bumped, Row
      <4>4. CASE q.op = "RESTORE"
        BY <3>1, <4>4 DEF Effect, Restored, Bumped, Row
      <4>5. CASE q.op \in {"CONTENT", "CORRECTION"}
        BY <3>1, <4>5 DEF Effect, Bumped, Row
      <4>. QED
        BY <3>2, <4>1, <4>2, <4>3, <4>4, <4>5 DEF Accepts
    <3>4. row' = [row EXCEPT ![q.project] = Effect(r, q)]
      BY <2>2 DEF Commit
    <3>. QED
      BY <1>1, <3>3, <3>4 DEF IInv, TypeOK
  <2>3. ASSUME NEW p \in Project, CreateProject(p) PROVE Kept
    BY <1>1, <2>3 DEF CreateProject, IInv, TypeOK
  <2>4. CASE row' = row
    BY <2>4
  <2>. QED
    BY <1>1, <2>1, <2>2, <2>3, <2>4, QuietSteps DEF DayPasses
<1>. QED
  BY <1>1, InductiveInvariant, PTL DEF Spec, ClosureKept

\* Only a request on whose clock the end date has not passed reopens a
\* project, although its batch checks the revision and not the date.
THEOREM ReopenedInTime == Spec => ReopenedUnexpired
<1>. DEFINE InTime == \A s \in Slot :
                        LET p == request[s].project IN
                        row[p].status = "CLOSED" /\ row'[p].status = "IN_PROGRESS"
                          /\ request'[s] # request[s] =>
                            NotPast(row[p].endDate, request[s].today)
<1>1. ASSUME IInv, [Next]_vars PROVE InTime
  <2>0. \A s \in Slot : request[s].project \in Project
    BY <1>1 DEF IInv, TypeOK, Worker, Request
  <2>1. ASSUME NEW w \in Worker, CloseExpired(w) PROVE InTime
    <3>1. \A p \in Project : row'[p] = row[p] \/ row'[p].status = "CLOSED"
      <4>1. row[request[w].project] \in Row
        BY <1>1 DEF IInv, TypeOK, Request
      <4>2. Closed(row[request[w].project], request[w].today, "SCHEDULED").status = "CLOSED"
        BY <4>1 DEF Closed, Bumped, Row
      <4>. QED
        BY <1>1, <2>1, <4>2 DEF CloseExpired, IInv, TypeOK
    <3>. QED
      BY <2>0, <3>1
  <2>2. ASSUME NEW s \in Slot, Commit(s) PROVE InTime
    <3>. DEFINE q == request[s]
                r == row[q.project]
    <3>1. q \in Request /\ r \in Row
      BY <1>1 DEF IInv, TypeOK, Worker, Request
    <3>2. Guard(r, q) /\ q.read = r /\ Accepts(r, q)
      BY <1>1, <2>2, GuardPins DEF Commit, IInv, ReadsAge
    <3>3. r.status = "CLOSED" /\ Effect(r, q).status = "IN_PROGRESS" =>
            q.op = "TRANSITION"
      <4>1. CASE q.op = "UPDATE"
        BY <3>1, <4>1 DEF Effect, Bumped, Row
      <4>2. CASE q.op = "DELETE"
        BY <3>1, <4>2 DEF Effect, Deleted, Bumped, Row
      <4>3. CASE q.op = "RESTORE"
        BY <3>1, <4>3 DEF Effect, Restored, Bumped, Row
      <4>4. CASE q.op \in {"CONTENT", "CORRECTION"}
        BY <3>1, <4>4 DEF Effect, Bumped, Row
      <4>. QED
        BY <3>2, <4>1, <4>2, <4>3, <4>4 DEF Accepts
    <3>4. q.op = "TRANSITION" /\ r.status = "CLOSED" => NotPast(r.endDate, q.today)
      BY <3>2 DEF Accepts, Reopenable
    <3>5. /\ row' = [row EXCEPT ![q.project] = Effect(r, q)]
          /\ request' = [request EXCEPT ![s] = Idle]
      BY <2>2 DEF Commit
    <3>. QED
      BY <1>1, <2>0, <3>3, <3>4, <3>5 DEF IInv, TypeOK
  <2>3. ASSUME NEW p \in Project, CreateProject(p) PROVE InTime
    BY <1>1, <2>0, <2>3 DEF CreateProject, IInv, TypeOK
  <2>4. CASE row' = row
    BY <2>4
  <2>. QED
    BY <1>1, <2>1, <2>2, <2>3, <2>4, QuietSteps DEF DayPasses
<1>. QED
  BY <1>1, InductiveInvariant, PTL DEF Spec, ReopenedUnexpired

-----------------------------------------------------------------------------
(* The handlers implement ProjectPromise. *)

\* The instance shares its operators on rows with the handlers' module.
LEMMA PromiseOperators ==
  /\ \A r : Promise!Visible(r) <=> Visible(r)
  /\ \A r, day : Promise!Expired(r, day) <=> Expired(r, day)
  /\ \A date, day : Promise!NotPast(date, day) <=> NotPast(date, day)
  /\ \A start, end : Promise!InOrder(start, end) <=> InOrder(start, end)
  /\ \A r, q : Promise!Patched(r, q) = Patched(r, q)
  /\ \A n, start, end : Promise!Created(n, start, end) = Created(n, start, end)
  /\ \A r : Promise!Bumped(r) = Bumped(r)
  /\ \A r, day, reason : Promise!Closed(r, day, reason) = Closed(r, day, reason)
  /\ \A r : Promise!Opened(r) = Opened(r)
  /\ \A r : Promise!Deleted(r) = Deleted(r)
  /\ \A r : Promise!Restored(r) = Restored(r)
  /\ Promise!Absent = Absent
  /\ Promise!Patch = Patch
  /\ Promise!Day = Day
BY DEF Promise!Visible, Promise!Expired, Promise!NotPast, Promise!InOrder,
       Promise!Patched, Promise!Created, Promise!Bumped, Promise!Closed,
       Promise!Opened, Promise!Deleted, Promise!Restored, Promise!Absent,
       Promise!Patch, Promise!Day,
       Visible, Expired, NotPast, InOrder, Patched, Created, Bumped, Closed,
       Opened, Deleted, Restored, Absent, Patch, Day

\* The merge of a patch with the row that was read is the patch of the row
\* that is found, because the two are the same row.
LEMMA UpdateIsEdit ==
  ASSUME NEW r \in Row, NEW q \in Request, q.op = "UPDATE", q.read = r
  PROVE  Effect(r, q) = Bumped(Patched(r, q))
<1>1. Patched(r, q) \in Row
  BY PatchedIsRow DEF Request
<1>2. /\ Patched(r, q).status = r.status
      /\ Patched(r, q).revision = r.revision
      /\ Patched(r, q).closedAt = r.closedAt
      /\ Patched(r, q).closeReason = r.closeReason
      /\ Patched(r, q).deleted = r.deleted
      /\ Patched(r, q).deletedRevision = r.deletedRevision
  BY DEF Patched, Row
<1>. HIDE DEF Patched
<1>. QED
  BY <1>1, <1>2 DEF Effect, Bumped, Row

\* The batch of an accepted request is one step of the atomic specification.
LEMMA CommitSimulates ==
  ASSUME IInv, NEW s \in Slot, Commit(s)
  PROVE  Promise!Next
<1>. DEFINE q == request[s]
            p == q.project
            r == row[p]
<1>1. q \in Request /\ p \in Project /\ r \in Row
  BY DEF IInv, TypeOK, Worker, Request
<1>2. Guard(r, q) /\ q.read = r /\ Accepts(r, q)
  BY GuardPins DEF Commit, IInv, ReadsAge
<1>3. q.today \in 0 .. today
  BY <1>1 DEF IInv, HandlersLag, Worker, Request, Day, TypeOK
<1>4. row' = [row EXCEPT ![p] = Effect(r, q)] /\ today' = today
  BY DEF Commit
<1>5. CASE q.op = "UPDATE"
  <2>. DEFINE patch == [name |-> q.name, startDate |-> q.startDate, endDate |-> q.endDate]
  <2>1. patch \in Patch
    BY <1>1 DEF Request, Patch
  <2>2. Patched(r, patch) = Patched(r, q)
    BY DEF Patched
  <2>3. Visible(r) /\ InOrder(Patched(r, q).startDate, Patched(r, q).endDate)
    BY <1>2, <1>5 DEF Accepts, MergedInOrder
  <2>4. IF r.status = "CLOSED" THEN patch.name = Keep ELSE NotPast(r.endDate, q.today)
    BY <1>2, <1>5 DEF Accepts, Guard, StateGuard
  <2>5. Effect(r, q) = Bumped(Patched(r, patch))
    BY <1>1, <1>2, <1>5, <2>2, UpdateIsEdit
  <2>. HIDE DEF patch
  <2>6. Promise!Edit(p, q.today)
    BY <1>4, <2>1, <2>2, <2>3, <2>4, <2>5, PromiseOperators DEF Promise!Edit, Promise!Becomes
  <2>. QED
    BY <1>1, <1>3, <2>6 DEF Promise!Next
<1>6. CASE q.op = "TRANSITION"
  <2>1. /\ Visible(r) /\ NotPast(r.endDate, q.today)
        /\ <<r.status, q.target>> \in Transitions
    BY <1>2, <1>6 DEF Accepts, Reopenable, Guard, StateGuard
  <2>2. CASE r.status = "IN_PROGRESS"
    <3>1. Effect(r, q) = Closed(r, q.today, "MANUAL")
      BY <1>6, <2>1, <2>2 DEF Transitions, Effect
    <3>. QED
      BY <1>1, <1>3, <1>4, <2>1, <2>2, <3>1, PromiseOperators
      DEF Promise!Next, Promise!Advance, Promise!Becomes
  <2>3. CASE r.status # "IN_PROGRESS"
    <3>1. Effect(r, q) = Opened(r)
      BY <1>6, <2>1, <2>3 DEF Transitions, Effect
    <3>. QED
      BY <1>1, <1>3, <1>4, <2>1, <2>3, <3>1, PromiseOperators
      DEF Promise!Next, Promise!Advance, Promise!Becomes
  <2>. QED
    BY <2>2, <2>3
<1>7. CASE q.op = "DELETE"
  <2>1. Visible(r) /\ r.status = "CLOSED" /\ Effect(r, q) = Deleted(r)
    BY <1>2, <1>7 DEF Guard, StateGuard, Effect
  <2>. QED
    BY <1>1, <1>4, <2>1, PromiseOperators DEF Promise!Next, Promise!Delete, Promise!Becomes
<1>8. CASE q.op = "RESTORE"
  <2>1. r.deleted /\ Effect(r, q) = Restored(r)
    BY <1>2, <1>8 DEF Guard, StateGuard, Effect
  <2>. QED
    BY <1>1, <1>4, <2>1, PromiseOperators DEF Promise!Next, Promise!Restore, Promise!Becomes
<1>9. CASE q.op \in {"CONTENT", "CORRECTION"}
  <2>1. /\ Visible(r) /\ Effect(r, q) = Bumped(r)
        /\ r.status = "CLOSED" \/ NotPast(r.endDate, q.today)
    BY <1>2, <1>9 DEF Guard, StateGuard, Effect
  <2>2. Promise!ChangeContent(p, q.today)
    BY <1>4, <2>1, PromiseOperators DEF Promise!ChangeContent, Promise!Becomes
  <2>. QED
    BY <1>1, <1>3, <2>2 DEF Promise!Next
<1>. QED
  BY <1>2, <1>5, <1>6, <1>7, <1>8, <1>9 DEF Accepts

\* The auto-close is one step of the atomic specification.
LEMMA CloseSimulates ==
  ASSUME IInv, NEW w \in Worker, CloseExpired(w)
  PROVE  Promise!Next
<1>. DEFINE q == request[w]
            p == q.project
<1>1. q \in Request /\ p \in Project
  BY DEF IInv, TypeOK, Request
<1>2. q.today \in 0 .. today
  BY <1>1 DEF IInv, HandlersLag, Request, Day, TypeOK
<1>3. Expired(row[p], q.today)
  BY DEF CloseExpired, CloseGuard
<1>4. row' = [row EXCEPT ![p] = Closed(row[p], q.today, "SCHEDULED")] /\ today' = today
  BY DEF CloseExpired
<1>5. Promise!AutoClose(p, q.today)
  BY <1>3, <1>4, PromiseOperators DEF Promise!AutoClose, Promise!Becomes
<1>. QED
  BY <1>1, <1>2, <1>5 DEF Promise!Next

\* Every step of the handlers and the cron is one step of the atomic
\* specification or changes nothing a client can see: reads that go stale,
\* retries, lost guards and dropped requests never show.
THEOREM HandlersKeepPromise == Spec => PromiseKept
<1>1. Init => Promise!Init
  BY PromiseOperators DEF Init, Promise!Init
<1>2. IInv /\ [Next]_vars => [Promise!Next]_Promise!vars
  <2>. SUFFICES ASSUME IInv, [Next]_vars
                PROVE  Promise!Next \/ UNCHANGED <<today, row>>
    BY DEF Promise!vars
  <2>1. CASE DayPasses
    BY <2>1 DEF DayPasses, Promise!Next, Promise!DayPasses
  <2>2. ASSUME NEW p \in Project, CreateProject(p)
        PROVE  Promise!Next
    <3>1. Promise!Create(p)
      BY <2>2, PromiseOperators DEF CreateProject, Promise!Create, Promise!Becomes
    <3>. QED
      BY <3>1 DEF Promise!Next
  <2>. QED
    BY <2>1, <2>2, CommitSimulates, CloseSimulates, QuietSteps
<1>. QED
  BY <1>1, <1>2, InductiveInvariant, PTL DEF Spec, PromiseKept, Promise!Spec
=============================================================================
