--------------------------- MODULE ProjectLifecycle ---------------------------
(***************************************************************************)
(* The lifecycle of a project row in D1 under concurrent HTTP requests and *)
(* the scheduled (cron) handler of the Worker.                             *)
(*                                                                         *)
(* A request handler is not atomic: it captures its clock once, closes the *)
(* project if it has expired (closeExpiredProject), reads the row, checks  *)
(* what it read, and only then submits one guarded D1 batch.  Other        *)
(* requests and the cron run between any two of these steps.  The batch    *)
(* itself is atomic: its guard is evaluated on the row as it is then, and  *)
(* a false guard rolls everything back (db/atomic.ts).                     *)
(*                                                                         *)
(* The session and role half of the guard is outside this module: a        *)
(* request whose session dies before its batch is one that is dropped      *)
(* (Abort).                                                                *)
(***************************************************************************)
EXTENDS ProjectRow

CONSTANTS
  Slot,         \* concurrently running request handlers
  Cron,         \* the one scheduled handler
  MaxRevision,  \* bound: no request arrives at a project of this revision
  Staleness,    \* bound: how many revisions behind a client may be on arrival
  BatchLimit    \* projects closed by one scheduled run (50 in the code)

ASSUME LifecycleConstants ==
  /\ MaxRevision \in Nat /\ Staleness \in Nat
  /\ BatchLimit \in Nat \ {0}
  /\ Cron \notin Slot

Worker   == Slot \cup {Cron}
Op       == {"UPDATE", "TRANSITION", "DELETE", "RESTORE", "CONTENT",
             "CORRECTION", "RESPOND", "SCHEDULED"}
Phase    == {"idle", "next", "expire", "close", "load", "commit"}
Attempts == 3   \* tries of closeExpiredProject

\* What a running handler remembers between its steps.
Request == [phase: Phase, op: Op, project: Project, today: Day,
            expected: Nat, name: Name \cup {Keep},
            startDate: StartDates \cup {Keep}, endDate: EndDates \cup {Keep},
            target: Status, read: Row, seen: Nat, attempt: 0 .. Attempts]

VARIABLES
  today,    \* the Korean calendar date
  row,      \* table projects
  request,  \* the handler running in each worker
  due       \* rows the scheduled handler has still to close

vars == <<today, row, request, due>>

Idle ==
  [phase |-> "idle", op |-> "RESPOND", project |-> CHOOSE p \in Project : TRUE,
   today |-> 0, expected |-> 0, name |-> Keep, startDate |-> Keep,
   endDate |-> Keep, target |-> "CLOSED", read |-> Absent, seen |-> 0,
   attempt |-> 0]

TypeOK ==
  /\ today \in Day
  /\ row \in [Project -> Row]
  /\ request \in [Worker -> Request]
  /\ due \subseteq Project

Init ==
  /\ today = 0
  /\ row = [p \in Project |-> Absent]
  /\ request = [w \in Worker |-> Idle]
  /\ due = {}

-----------------------------------------------------------------------------
(* Clock, creation and arrival of a request. *)

DayPasses ==
  /\ today < MaxDay
  /\ today' = today + 1
  /\ UNCHANGED <<row, request, due>>

CreateProject(p) ==
  /\ row[p].status = "ABSENT"
  /\ \E n \in Name, s \in StartDates, e \in EndDates :
       /\ InOrder(s, e)
       /\ row' = [row EXCEPT ![p] = Created(n, s, e)]
  /\ UNCHANGED <<today, request, due>>

\* A handler whose clock is a day ahead (for the mutation runs).
ArriveAhead(s, p, arriving) ==
  /\ request[s].phase = "idle"
  /\ row[p].revision < MaxRevision
  /\ request' = [request EXCEPT ![s] =
       [arriving EXCEPT !.project = p, !.today = today + 1,
                        !.expected = row[p].revision]]
  /\ UNCHANGED <<today, row, due>>

\* A client sends the revision it last saw, which is never ahead of the row.
Arrive(s, p, arriving) ==
  /\ request[s].phase = "idle"
  /\ row[p].status # "ABSENT"
  /\ row[p].revision < MaxRevision
  /\ \E seen \in 0 .. row[p].revision :
       /\ seen + Staleness >= row[p].revision
       /\ request' = [request EXCEPT ![s] =
         [arriving EXCEPT !.project = p, !.today = today, !.expected = seen]]
  /\ UNCHANGED <<today, row, due>>

\* updateProject; UpdateProjectRequestSchema refuses an empty patch and a
\* patch whose own dates are out of order.
ArriveUpdate(s, p) ==
  \E patch \in Patch :
    /\ \E key \in DOMAIN patch : patch[key] # Keep
    /\ Keep \notin {patch.startDate, patch.endDate} =>
         InOrder(patch.startDate, patch.endDate)
    /\ Arrive(s, p, [Idle EXCEPT !.phase = "expire", !.op = "UPDATE",
                       !.name = patch.name, !.startDate = patch.startDate,
                       !.endDate = patch.endDate])

ArriveTransition(s, p) ==
  \E t \in Status :
    Arrive(s, p, [Idle EXCEPT !.phase = "expire", !.op = "TRANSITION", !.target = t])

ArriveDelete(s, p) ==
  \E n \in Name :
    Arrive(s, p, [Idle EXCEPT !.phase = "load", !.op = "DELETE", !.name = n])

ArriveRestore(s, p) ==
  Arrive(s, p, [Idle EXCEPT !.phase = "load", !.op = "RESTORE"])

\* Any ordinary change of the project's organizations, roster or imports.
ArriveContent(s, p) ==
  Arrive(s, p, [Idle EXCEPT !.phase = "expire", !.op = "CONTENT"])

\* Any correction of a closed project's history.
ArriveCorrection(s, p) ==
  Arrive(s, p, [Idle EXCEPT !.phase = "load", !.op = "CORRECTION"])

\* The handler never answers: the isolate is evicted, the connection to D1
\* is lost, or its session is revoked before the batch.
Abort(s) ==
  /\ request[s].phase # "idle"
  /\ request' = [request EXCEPT ![s] = Idle]
  /\ UNCHANGED <<today, row, due>>

-----------------------------------------------------------------------------
(* closeExpiredProject: a SELECT, then a guarded batch, at most three      *)
(* times.  Runs first in an UPDATE, TRANSITION or CONTENT handler, again   *)
(* when such a handler has lost its guard (RESPOND), and for every row of  *)
(* a scheduled run.                                                        *)

\* How the caller goes on.  An UPDATE or TRANSITION that closed the project
\* itself answers PROJECT_CLOSED; every other caller reads on.
Resumed(q, closedIt) ==
  IF q.op = "RESPOND" \/ (closedIt /\ q.op \in {"UPDATE", "TRANSITION"})
  THEN Idle
  ELSE [q EXCEPT !.phase = IF q.op = "SCHEDULED" THEN "next" ELSE "load",
                 !.seen = 0, !.attempt = 0]

FindExpired(w) ==
  LET q == request[w] IN
  /\ q.phase = "expire"
  /\ request' = [request EXCEPT ![w] =
       IF Expired(row[q.project], q.today)
       THEN [q EXCEPT !.phase = "close", !.seen = row[q.project].revision]
       ELSE Resumed(q, FALSE)]
  /\ UNCHANGED <<today, row, due>>

\* Two ways to get the guard of the auto-close wrong, for the mutation runs:
\* trusting the SELECT, and comparing with the revision about to be written.
TrustingCloseGuard(r, q) == Visible(r)
LateCloseGuard(r, q) == Expired(r, q.today) /\ r.revision = q.seen + 1

CloseGuard(r, q) == Expired(r, q.today) /\ r.revision = q.seen

CloseExpired(w) ==
  LET q == request[w] IN
  /\ q.phase = "close"
  /\ CloseGuard(row[q.project], q)
  /\ row' = [row EXCEPT ![q.project] = Closed(@, q.today, "SCHEDULED")]
  /\ request' = [request EXCEPT ![w] = Resumed(q, TRUE)]
  /\ UNCHANGED <<today, due>>

LoseClose(w) ==
  LET q == request[w] IN
  /\ q.phase = "close"
  /\ ~CloseGuard(row[q.project], q)
  /\ request' = [request EXCEPT ![w] =
       IF q.attempt + 1 < Attempts
       THEN [q EXCEPT !.phase = "expire", !.seen = 0, !.attempt = @ + 1]
       ELSE Resumed(q, FALSE)]
  /\ UNCHANGED <<today, row, due>>

-----------------------------------------------------------------------------
(* The read of the row, and the checks on what was read. *)

\* Checking only the dates the patch itself carries (for the mutation runs).
PatchInOrder(r, q) ==
  Keep \notin {q.startDate, q.endDate} => InOrder(q.startDate, q.endDate)

MergedInOrder(r, q) ==
  LET new == Patched(r, q) IN InOrder(new.startDate, new.endDate)

\* A project is reopened only before its end date has passed, whoever closed
\* it.  LeftToGuard forgets that the guard does not check this again (for the
\* mutation runs).
LeftToGuard(r, q) == TRUE
Reopenable(r, q) == r.status = "CLOSED" => NotPast(r.endDate, q.today)

Accepts(r, q) ==
  \/ /\ q.op = "UPDATE"
     /\ Visible(r)
     /\ r.status = "CLOSED" => q.name = Keep
     /\ MergedInOrder(r, q)
  \/ /\ q.op = "TRANSITION"
     /\ Visible(r)
     /\ <<r.status, q.target>> \in Transitions
     /\ r.revision = q.expected
     /\ Reopenable(r, q)
  \/ /\ q.op = "DELETE"
     /\ Visible(r) /\ r.status = "CLOSED"
     /\ r.name = q.name /\ r.revision = q.expected
  \/ /\ q.op = "RESTORE"
     /\ r.deleted /\ r.revision = q.expected
  \/ /\ q.op = "CONTENT"
     /\ Visible(r) /\ r.status # "CLOSED"
  \/ /\ q.op = "CORRECTION"
     /\ Visible(r) /\ r.status = "CLOSED"

Load(s) ==
  LET q == request[s] IN
  /\ q.phase = "load"
  /\ request' = [request EXCEPT ![s] =
       IF Accepts(row[q.project], q)
       THEN [q EXCEPT !.phase = "commit", !.read = row[q.project]]
       ELSE Idle]
  /\ UNCHANGED <<today, row, due>>

-----------------------------------------------------------------------------
(* The guarded batch. *)

\* The project half of the guard, on the row r as the batch finds it: what
\* each operation requires of the row besides the client's revision ...
StateGuard(r, q) ==
  \/ /\ q.op = "UPDATE" /\ q.read.status = "CLOSED"
     /\ Visible(r) /\ r.status = "CLOSED"
  \/ /\ q.op = "UPDATE" /\ q.read.status # "CLOSED"
     /\ Visible(r) /\ r.status # "CLOSED" /\ NotPast(r.endDate, q.today)
  \/ /\ q.op = "TRANSITION"
     /\ Visible(r) /\ r.status = q.read.status
     /\ r.status # "CLOSED" => NotPast(r.endDate, q.today)
  \/ /\ q.op = "DELETE"
     /\ Visible(r) /\ r.status = "CLOSED" /\ r.name = q.name
  \/ /\ q.op = "RESTORE"
     /\ r.deleted
  \/ /\ q.op = "CONTENT"
     /\ Visible(r) /\ r.status # "CLOSED" /\ NotPast(r.endDate, q.today)
  \/ /\ q.op = "CORRECTION"
     /\ Visible(r) /\ r.status = "CLOSED"

\* ... and that revision.
Guard(r, q) == r.revision = q.expected /\ StateGuard(r, q)

\* The row the batch writes.  UPDATE writes values computed from the row it
\* read, not from r.
Effect(r, q) ==
  CASE q.op = "UPDATE" ->
         LET new == Patched(q.read, q) IN
         [Bumped(r) EXCEPT !.name = new.name, !.startDate = new.startDate,
                           !.endDate = new.endDate]
    [] q.op = "TRANSITION" /\ q.target = "CLOSED" -> Closed(r, q.today, "MANUAL")
    [] q.op = "TRANSITION" /\ q.target # "CLOSED" -> Opened(r)
    [] q.op = "DELETE"  -> Deleted(r)
    [] q.op = "RESTORE" -> Restored(r)
    [] q.op \in {"CONTENT", "CORRECTION"} -> Bumped(r)

Commit(s) ==
  LET q == request[s] IN
  /\ q.phase = "commit"
  /\ Guard(row[q.project], q)
  /\ row' = [row EXCEPT ![q.project] = Effect(@, q)]
  /\ request' = [request EXCEPT ![s] = Idle]
  /\ UNCHANGED <<today, due>>

\* A failed guard rolls the batch back.  Except for changes of a closed
\* project, the handler then closes the project if that is why it failed.
Fail(s) ==
  LET q == request[s] IN
  /\ q.phase = "commit"
  /\ ~Guard(row[q.project], q)
  /\ request' = [request EXCEPT ![s] =
       IF q.op \in {"UPDATE", "TRANSITION", "CONTENT"} /\ q.read.status # "CLOSED"
       THEN [Idle EXCEPT !.phase = "expire", !.project = q.project, !.today = q.today]
       ELSE Idle]
  /\ UNCHANGED <<today, row, due>>

-----------------------------------------------------------------------------
(* closeExpiredProjects: the scheduled handler. *)

\* The SELECT takes the oldest BatchLimit expired rows; here any so many.
ScheduledStart ==
  /\ request[Cron].phase = "idle"
  /\ LET expired == {p \in Project : Expired(row[p], today)} IN
       \E batch \in SUBSET expired :
         /\ \/ batch = expired /\ Cardinality(batch) <= BatchLimit
            \/ Cardinality(batch) = BatchLimit
         /\ batch # {}
         /\ due' = batch
  /\ request' = [request EXCEPT ![Cron] =
       [Idle EXCEPT !.phase = "next", !.op = "SCHEDULED", !.today = today]]
  /\ UNCHANGED <<today, row>>

ScheduledNext ==
  /\ request[Cron].phase = "next"
  /\ \/ /\ due = {}
        /\ request' = [request EXCEPT ![Cron] = Idle]
        /\ UNCHANGED due
     \/ \E p \in due :
          /\ due' = due \ {p}
          /\ request' = [request EXCEPT ![Cron].phase = "expire",
                                        ![Cron].project = p]
  /\ UNCHANGED <<today, row>>

\* The scheduled handler dies between two of its steps: a D1 error ends the
\* loop over the rows, or the isolate is evicted.
ScheduledAbort ==
  /\ request[Cron].phase # "idle"
  /\ request' = [request EXCEPT ![Cron] = Idle]
  /\ due' = {}
  /\ UNCHANGED <<today, row>>

-----------------------------------------------------------------------------
ExpireStep(w) == FindExpired(w) \/ CloseExpired(w) \/ LoseClose(w)

ScheduledStep ==
  ScheduledStart \/ ScheduledNext \/ ExpireStep(Cron) \/ ScheduledAbort

RequestStep(s) ==
  \/ \E p \in Project :
       \/ ArriveUpdate(s, p) \/ ArriveTransition(s, p)
       \/ ArriveDelete(s, p) \/ ArriveRestore(s, p)
       \/ ArriveContent(s, p) \/ ArriveCorrection(s, p)
  \/ ExpireStep(s) \/ Load(s) \/ Commit(s) \/ Fail(s) \/ Abort(s)

Next ==
  \/ DayPasses
  \/ \E p \in Project : CreateProject(p)
  \/ \E s \in Slot : RequestStep(s)
  \/ ScheduledStep

Spec == Init /\ [][Next]_vars

\* The cron trigger fires every day, and a run may die but not every run at
\* the same step.
FairSpec ==
  /\ Spec
  /\ WF_vars(ScheduledStart)
  /\ SF_vars(ScheduledNext)
  /\ SF_vars(FindExpired(Cron))
  /\ SF_vars(CloseExpired(Cron))
  /\ SF_vars(LoseClose(Cron))

-----------------------------------------------------------------------------
(* Properties *)

\* Optimistic concurrency: whenever the guard of a request that has read the
\* project would let its batch through, the row is still, in every column,
\* the row the request read.  This is what makes it safe that updateProject
\* writes dates merged from a stale read and that changeProjectStatus does
\* not repeat the end-date check when it reopens.
GuardPinsRead ==
  \A s \in Slot :
    LET q == request[s] IN
    q.phase = "commit" /\ Guard(row[q.project], q) => row[q.project] = q.read

\* The closure record (closed_at, closed_by, close_reason) exists exactly
\* while the status is CLOSED: the CHECK constraints of migration 0002 never
\* have to abort a batch.
ClosureRecorded ==
  \A p \in Project :
    LET r == row[p] IN
    /\ (r.status = "CLOSED") <=> (r.closedAt # NoDate)
    /\ (r.status = "CLOSED") <=> (r.closeReason # "NONE")

\* A soft-deleted project is CLOSED and nothing has moved its revision since
\* the deletion: the trigger of migration 0006 never has to abort a batch,
\* and no handler writes to a deleted project behind the overlay.
DeletionOverlay ==
  \A p \in Project :
    row[p].deleted =>
      row[p].status = "CLOSED" /\ row[p].deletedRevision = row[p].revision

\* Two PATCHes, one moving the start and one the end, cannot together store a
\* project that ends before it starts: each is checked merged with the row it
\* read, and that merge is what its batch writes.
DatesInOrder ==
  \A p \in Project : InOrder(row[p].startDate, row[p].endDate)

\* Every change of a project row, whoever makes it, moves its revision by
\* exactly one, so that a client holding an older revision is refused.
RevisionCountsChanges ==
  [][\A p \in Project :
       row'[p] # row[p] /\ row[p].status # "ABSENT" =>
         row'[p].revision = row[p].revision + 1]_vars

\* The cron, a request that closes on arrival and a manual close race, but a
\* closure is recorded once: as long as the project stays CLOSED, through
\* edits, corrections, deletion and restoring, who closed it and when stays.
ClosureKept ==
  [][\A p \in Project :
       row[p].status = "CLOSED" /\ row'[p].status = "CLOSED" =>
         /\ row'[p].closedAt = row[p].closedAt
         /\ row'[p].closeReason = row[p].closeReason]_vars

\* A project is reopened only if its end date had not passed on the clock of
\* the request that reopens it, although the batch does not check this again.
ReopenedUnexpired ==
  [][\A s \in Slot :
       LET p == request[s].project IN
       row[p].status = "CLOSED" /\ row'[p].status = "IN_PROGRESS"
         /\ request'[s] # request[s] =>
           NotPast(row[p].endDate, request[s].today)]_vars

\* An open project whose end date has passed does not stay open: it is closed
\* by the cron at the latest, or its end date is moved first.
ExpiredIsClosed ==
  \A p \in Project : Expired(row[p], today) ~> ~Expired(row[p], today)

\* What the proofs of these properties rest on.  The clock and the revision a
\* handler carries are never ahead of the clock and the row, and the row it
\* read can have changed only by getting a higher revision.
UnwrittenRows ==
  \A p \in Project : row[p].status = "ABSENT" => row[p].revision = 0 /\ ~row[p].deleted

HandlersLag ==
  /\ \A w \in Worker : request[w].today <= today
  /\ \A s \in Slot : request[s].expected <= row[request[s].project].revision

ReadsAge ==
  \A s \in Slot :
    LET q == request[s]
        r == row[q.project]
    IN  q.phase = "commit" =>
          /\ r.status # "ABSENT"
          /\ Accepts(q.read, q)
          /\ q.expected <= q.read.revision /\ q.read.revision <= r.revision
          /\ q.read.revision = r.revision => q.read = r

IInv ==
  /\ TypeOK
  /\ UnwrittenRows /\ ClosureRecorded /\ DeletionOverlay /\ DatesInOrder
  /\ HandlersLag /\ ReadsAge

\* The handlers implement the atomic specification: each accepted request
\* has its whole effect at its batch, as computed from the row it finds.
Promise == INSTANCE ProjectPromise
PromiseKept == Promise!Spec
=============================================================================
