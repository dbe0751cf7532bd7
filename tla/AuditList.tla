------------------------------ MODULE AuditList ------------------------------
(* The audit log on the page of a project: read page by page backwards from   *)
(* the newest event, reloaded after every change and dropped when the path    *)
(* moves to another project (ProjectDetailPage.tsx: loadResource with         *)
(* "audit", loadMoreAudit).  The page of an organization reads its log the    *)
(* same way with one counter for both (OrganizationDetailPage.tsx).           *)
(*                                                                            *)
(* As in ProjectPage a request carries what the comparison of its counters    *)
(* gives: "fresh" in its generation, "owner" while it is the latest of its    *)
(* kind.  A page of the log holds one event here.                             *)
EXTENDS Naturals, Sequences, FiniteSets

CONSTANTS
  Project,      \* projects the path may name
  MaxEvents,    \* bound: events of a project
  MaxReads      \* bound: requests under way

VARIABLES
  events,       \* the number of events each project has
  list          \* the list on the page and its requests

vars == <<events, list>>

Asked(p, kind, cursor) ==
  [project |-> p, kind |-> kind, cursor |-> cursor, fresh |-> TRUE, owner |-> TRUE,
   code |-> "NONE", newest |-> 0]

Outdated(reads) == {[r EXCEPT !.fresh = FALSE] : r \in reads}

Disowned(reads) == {[r EXCEPT !.owner = FALSE] : r \in reads}

\* The first page is asked for; what was asked before is of no use any more.
LoadAudit(l) ==
  [l EXCEPT !.loading = TRUE, !.failed = FALSE, !.cursor = 0, !.more = FALSE,
            !.reads = Disowned(@) \cup {Asked(l.project, "FIRST", 0)}]

\* The page reloads: a new generation.
Reloaded(l) == LoadAudit([l EXCEPT !.reads = Outdated(@)])

Shown(p, reads) ==
  [project |-> p, items |-> <<>>, cursor |-> 0, loading |-> FALSE, failed |-> FALSE,
   more |-> FALSE, reads |-> reads]

Init ==
  /\ events = [p \in Project |-> 2]
  /\ \E p \in Project : list = LoadAudit(Shown(p, {}))

Moves(l) ==
  /\ Cardinality(l.reads) <= MaxReads
  /\ list' = l
  /\ UNCHANGED events

\* The path moves to another project: the effect starts anew.
Navigate(p) ==
  /\ p # list.project
  /\ Moves(Reloaded(Shown(p, list.reads)))

\* A change was made on the page, which reloads.
Reload == Moves(Reloaded(list))

\* The retry of the failed list alone.
RetryResource ==
  /\ list.failed
  /\ Moves(LoadAudit(list))

LoadMoreAudit ==
  /\ list.cursor # 0
  /\ ~list.more
  /\ Moves([list EXCEPT !.more = TRUE,
                        !.reads = @ \cup {Asked(list.project, "MORE", list.cursor)}])

Answered(r, code, newest) ==
  list' = [list EXCEPT !.reads = (@ \ {r}) \cup {[r EXCEPT !.code = code, !.newest = newest]}]

\* The server answers from the log, to which events have come meanwhile.
Serve(r) ==
  /\ r.code = "NONE"
  /\ \E n \in events[r.project]..MaxEvents :
       /\ events' = [events EXCEPT ![r.project] = n]
       /\ Answered(r, "OK", IF r.kind = "FIRST" THEN n ELSE r.cursor - 1)

Lose(r) ==
  /\ r.code = "NONE"
  /\ Answered(r, "FAILED", 0)
  /\ UNCHANGED events

\* Only in mutation runs: the next page is added whatever happened meanwhile.
OwnsAlways(r) == TRUE

\* The answer counts while its generation is the current one and nothing has
\* replaced the request.
Owns(r) == r.fresh /\ r.owner

Event(p, n) == [project |-> p, number |-> n]

NextCursor(n) == IF n > 1 THEN n ELSE 0

FirstShown(l, r) ==
  IF ~Owns(r) THEN l
  ELSE IF r.code = "OK"
       THEN [l EXCEPT !.items = <<Event(r.project, r.newest)>>,
                      !.cursor = NextCursor(r.newest), !.loading = FALSE]
       ELSE [l EXCEPT !.failed = TRUE, !.loading = FALSE]

MoreShown(l, r) ==
  IF ~Owns(r) THEN l
  ELSE IF r.code = "OK"
       THEN [l EXCEPT !.items = Append(@, Event(r.project, r.newest)),
                      !.cursor = NextCursor(r.newest), !.more = FALSE]
       ELSE [l EXCEPT !.more = FALSE]

Receive(r) ==
  /\ r.code # "NONE"
  /\ LET rest == [list EXCEPT !.reads = @ \ {r}]
     IN list' = IF r.kind = "FIRST" THEN FirstShown(rest, r) ELSE MoreShown(rest, r)
  /\ UNCHANGED events

Next ==
  \/ \E p \in Project : Navigate(p)
  \/ Reload \/ RetryResource \/ LoadMoreAudit
  \/ \E r \in list.reads : Serve(r) \/ Lose(r) \/ Receive(r)

Spec == Init /\ [][Next]_vars

-----------------------------------------------------------------------------
(* Properties.                                                                *)

\* What the list shows is one gapless run of events of the project the path
\* names, and the next page is asked for below its last event
\* (ProjectDetailPage.tsx, the cursor, the tokens and the pagination request).
Contiguous ==
  /\ \A i \in 1..Len(list.items) :
       /\ list.items[i].project = list.project
       /\ list.items[i].number + i = list.items[1].number + 1
  /\ list.cursor # 0 => list.items[Len(list.items)].number = list.cursor

\* The list and its "more" button wait only for a request that will end the wait
\* (the finally blocks of loadResource and loadMoreAudit).
WaitsEnd ==
  /\ list.loading => \E r \in list.reads : r.kind = "FIRST" /\ Owns(r)
  /\ list.more => \E r \in list.reads : r.kind = "MORE" /\ Owns(r)
=============================================================================
