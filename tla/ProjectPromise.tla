---------------------------- MODULE ProjectPromise ----------------------------
(***************************************************************************)
(* What the project API promises its clients: every accepted request takes *)
(* effect at one moment, on the row as it is at that moment, and only if   *)
(* that row allows it.  There are no handlers here, no reads that can go   *)
(* stale and no retries.  The one thing a request brings along is its      *)
(* clock, which may be behind today.                                       *)
(***************************************************************************)
EXTENDS ProjectRow

VARIABLES today, row

vars == <<today, row>>

TypeOK == today \in Day /\ row \in [Project -> Row]

Init == today = 0 /\ row = [p \in Project |-> Absent]

DayPasses ==
  /\ today < MaxDay
  /\ today' = today + 1
  /\ UNCHANGED row

Becomes(p, r) == row' = [row EXCEPT ![p] = r] /\ UNCHANGED today

Create(p) ==
  /\ row[p].status = "ABSENT"
  /\ \E n \in Name, s \in StartDates, e \in EndDates :
       InOrder(s, e) /\ Becomes(p, Created(n, s, e))

\* A closed project may get new dates, for reopening it, but no new name.
Edit(p, day) ==
  \E patch \in Patch :
    LET new == Patched(row[p], patch) IN
    /\ Visible(row[p])
    /\ IF row[p].status = "CLOSED" THEN patch.name = Keep
       ELSE NotPast(row[p].endDate, day)
    /\ InOrder(new.startDate, new.endDate)
    /\ Becomes(p, Bumped(new))

Advance(p, day) ==
  /\ Visible(row[p])
  /\ NotPast(row[p].endDate, day)
  /\ \/ row[p].status = "IN_PROGRESS" /\ Becomes(p, Closed(row[p], day, "MANUAL"))
     \/ row[p].status # "IN_PROGRESS" /\ Becomes(p, Opened(row[p]))

AutoClose(p, day) ==
  /\ Expired(row[p], day)
  /\ Becomes(p, Closed(row[p], day, "SCHEDULED"))

Delete(p) ==
  /\ Visible(row[p]) /\ row[p].status = "CLOSED"
  /\ Becomes(p, Deleted(row[p]))

Restore(p) ==
  /\ row[p].deleted
  /\ Becomes(p, Restored(row[p]))

\* A change of the project's organizations, roster or imports: ordinary
\* while it is open and its end date has not passed, a correction while it
\* is closed.
ChangeContent(p, day) ==
  /\ Visible(row[p])
  /\ row[p].status = "CLOSED" \/ NotPast(row[p].endDate, day)
  /\ Becomes(p, Bumped(row[p]))

Next ==
  \/ DayPasses
  \/ \E p \in Project :
       \/ Create(p) \/ Delete(p) \/ Restore(p)
       \/ \E day \in 0 .. today :
            \/ Edit(p, day) \/ Advance(p, day)
            \/ AutoClose(p, day) \/ ChangeContent(p, day)

Spec == Init /\ [][Next]_vars
=============================================================================
