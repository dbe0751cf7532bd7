------------------------------ MODULE ProjectRow ------------------------------
(***************************************************************************)
(* A row of table projects and the rules about a single row that the       *)
(* handlers check on what they read and again in the guards of their       *)
(* batches.                                                                *)
(*                                                                         *)
(* A day is a number, the Korean calendar date of toKstDate.  Timestamps   *)
(* are rounded to their day.                                               *)
(***************************************************************************)
EXTENDS Naturals, FiniteSets

CONSTANTS
  Project,      \* ids of the projects that may ever be created
  Name,         \* project names
  StartDates,   \* start dates clients submit
  EndDates,     \* end dates clients submit
  NoDate,       \* SQL NULL in a date column
  Keep,         \* a key missing from a PATCH body
  MaxDay        \* bound: the last day the clock reaches

Day  == 0 .. MaxDay
Date == Day \cup {NoDate}

ASSUME RowConstants ==
  /\ MaxDay \in Nat
  /\ NoDate \notin Nat /\ Keep \notin Date /\ Keep \notin Name
  /\ StartDates \subseteq Date /\ EndDates \subseteq Date
  /\ Project # {} /\ Name # {}

Status == {"PRE_REGISTRATION", "IN_PROGRESS", "CLOSED"}
Reason == {"NONE", "MANUAL", "SCHEDULED"}

\* closedAt and closeReason stand for closed_at, closed_by and close_reason
\* (closed_by is NULL exactly for "SCHEDULED"), deleted for deleted_at and
\* deleted_by.
Row == [status: Status \cup {"ABSENT"}, name: Name, startDate: Date,
        endDate: Date, revision: Nat, closedAt: Date, closeReason: Reason,
        deleted: BOOLEAN, deletedRevision: Nat]

Absent ==
  [status |-> "ABSENT", name |-> CHOOSE n \in Name : TRUE,
   startDate |-> NoDate, endDate |-> NoDate, revision |-> 0,
   closedAt |-> NoDate, closeReason |-> "NONE",
   deleted |-> FALSE, deletedRevision |-> 0]

\* findProject without deleted_at IS NULL (for the mutation runs).
Exists(r) == r.status # "ABSENT"

\* findProject: the row exists and is not soft-deleted.
Visible(r) == r.status # "ABSENT" /\ ~r.deleted

\* A project may still be changed on the day of its end date.
NotPast(date, day) == date # NoDate => date >= day

\* The condition of the auto-close.
Expired(r, day) ==
  Visible(r) /\ r.status # "CLOSED" /\ ~NotPast(r.endDate, day)

InOrder(start, end) == NoDate \notin {start, end} => start <= end

\* transitionProject: forward one step, or reopening.
Transitions == {<<"PRE_REGISTRATION", "IN_PROGRESS">>,
                <<"IN_PROGRESS", "CLOSED">>, <<"CLOSED", "IN_PROGRESS">>}

\* A patch keeps the fields whose keys it does not carry.
Patch == [name: Name \cup {Keep}, startDate: StartDates \cup {Keep},
          endDate: EndDates \cup {Keep}]

Patched(r, q) ==
  [r EXCEPT !.name      = IF q.name = Keep THEN @ ELSE q.name,
            !.startDate = IF q.startDate = Keep THEN @ ELSE q.startDate,
            !.endDate   = IF q.endDate = Keep THEN @ ELSE q.endDate]

Created(n, start, end) ==
  [Absent EXCEPT !.status = "PRE_REGISTRATION", !.name = n,
                 !.startDate = start, !.endDate = end]

\* A batch that forgets the revision (for the mutation runs).
NotBumped(r) == r

Bumped(r) == [r EXCEPT !.revision = @ + 1]

Closed(r, day, reason) ==
  [Bumped(r) EXCEPT !.status = "CLOSED", !.closedAt = day, !.closeReason = reason]

\* Reopening that leaves closed_at and close_reason (for the mutation runs).
OpenedKeepingClosure(r) == [Bumped(r) EXCEPT !.status = "IN_PROGRESS"]

Opened(r) ==
  [Bumped(r) EXCEPT !.status = "IN_PROGRESS", !.closedAt = NoDate,
                    !.closeReason = "NONE"]

Deleted(r) ==
  [Bumped(r) EXCEPT !.deleted = TRUE, !.deletedRevision = r.revision + 1]

Restored(r) ==
  [Bumped(r) EXCEPT !.status = "CLOSED", !.deleted = FALSE, !.deletedRevision = 0]
=============================================================================
