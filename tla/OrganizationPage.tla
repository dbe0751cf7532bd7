--------------------------- MODULE OrganizationPage ---------------------------
(* The page of an organization (OrganizationDetailPage.tsx) with the panel of *)
(* its managers (OrganizationManagersPanel.tsx).  Every path has an instance  *)
(* of its own.  The page has one lock for its changes, the panel another, and *)
(* both reload the same row, whose latest request alone counts.               *)
EXTENDS Naturals, FiniteSets

CONSTANTS
  Query,          \* what may be typed to search for managers
  Blank,          \* the empty text, which may be searched for too
  None,           \* nothing shown, no lock held, nothing searched
  MaxVersion,     \* bound: changes of the organization
  MaxCalls        \* bound: requests and searches under way once he has acted

VARIABLES
  server,         \* the organization: how often changed, deleted or not
  page            \* the page, the panel and their requests

vars == <<server, page>>

Kinds == {"RENAME", "STATUS", "DELETE", "RESTORE"}

Asked(kind, then) ==
  [kind |-> kind, then |-> then, owner |-> TRUE, code |-> "NONE", row |-> None]

\* The row and the audit log are read at once and "then" waits for both; what the
\* log shows is in AuditList, so only a read that is waited for is kept here.
LoadDetail(p, then) ==
  [p EXCEPT !.detail = "loading",
            !.calls = {IF c.kind = "DETAIL" THEN [c EXCEPT !.owner = FALSE] ELSE c : c \in @}
                        \cup {Asked("DETAIL", then)}]

LoadBoth(p, then) ==
  LET q == LoadDetail(p, then)
  IN IF then = "NONE" THEN q ELSE [q EXCEPT !.calls = @ \cup {Asked("AUDIT", then)}]

NoPanel == [busy |-> FALSE, query |-> Blank, found |-> None, searching |-> FALSE]

Init ==
  /\ server \in [version : {1}, deleted : BOOLEAN]
  /\ page = LoadBoth([shown |-> None, detail |-> "loading", error |-> FALSE,
                      lock |-> None, left |-> FALSE, acked |-> 0,
                      panel |-> NoPanel, calls |-> {}, searches |-> {}], "NONE")

Does(p) ==
  /\ Cardinality(p.calls) + Cardinality(p.searches) <= MaxCalls
  /\ page' = p
  /\ UNCHANGED server

Displayed == page.shown # None /\ ~page.left

-----------------------------------------------------------------------------
(* The user: the page.                                                        *)

RetryDetail ==
  /\ page.error /\ page.detail # "loading" /\ ~page.left
  /\ Does(LoadDetail(page, "NONE"))

\* acquireMutation, and the request of the change.
Mutate(kind) ==
  /\ Displayed /\ page.lock = None
  /\ page.shown.deleted <=> kind = "RESTORE"
  /\ Does([page EXCEPT !.lock = kind, !.calls = @ \cup {Asked(kind, "NONE")}])

(* The user: the panel.                                                       *)

ManagersShown == Displayed /\ ~page.shown.deleted

\* assignExisting, provision, replacePrimary and the two removals.
ChangeManagers ==
  /\ ManagersShown /\ ~page.panel.busy
  /\ Does([page EXCEPT !.panel.busy = TRUE, !.calls = @ \cup {Asked("MANAGERS", "NONE")}])

SearchCandidates ==
  /\ ManagersShown
  /\ ~page.panel.busy /\ ~page.panel.searching
  /\ Does([page EXCEPT
       !.panel.searching = TRUE,
       !.searches = {[s EXCEPT !.owner = FALSE] : s \in @}
                      \cup {[query |-> page.panel.query, owner |-> TRUE]}])

Forgotten(p) ==
  [p EXCEPT !.panel.searching = FALSE, !.searches = {[s EXCEPT !.owner = FALSE] : s \in @}]

\* Opening the dialog does the same with the empty text (openAssignment).
ChangeCandidateQuery(q) ==
  /\ ManagersShown /\ q # page.panel.query
  /\ LET p == Forgotten(page)
     IN Does([p EXCEPT !.panel.query = q, !.panel.found = None])

\* Closing the dialog leaves the field and the list, which are not seen till it opens.
ResetExistingAssignment ==
  /\ ManagersShown /\ ~page.panel.busy /\ page.panel.searching
  /\ Does(Forgotten(page))

SearchReturns(s) ==
  /\ LET rest == [page EXCEPT !.searches = @ \ {s}]
     IN page' = IF ~s.owner THEN rest
                ELSE [rest EXCEPT !.panel.searching = FALSE, !.panel.found = s.query]
  /\ UNCHANGED server

SearchFails(s) ==
  /\ LET rest == [page EXCEPT !.searches = @ \ {s}]
     IN page' = IF ~s.owner THEN rest ELSE [rest EXCEPT !.panel.searching = FALSE]
  /\ UNCHANGED server

-----------------------------------------------------------------------------
(* The server.  Others change the organization meanwhile; a change may also   *)
(* conflict with another organization's name or another guard.                *)

Answer(c, code, row) ==
  page' = [page EXCEPT !.calls = (@ \ {c}) \cup {[c EXCEPT !.code = code, !.row = row]}]

Applicable(c, row) == (c.kind = "RESTORE") <=> row.deleted

Changed(c, row) ==
  [version |-> row.version + 1,
   deleted |-> (c.kind = "DELETE") \/ (row.deleted /\ c.kind # "RESTORE")]

Later(row) ==
  {row} \cup [version : (row.version + 1)..MaxVersion, deleted : BOOLEAN]

Serve(c) ==
  /\ c.code = "NONE"
  /\ \E row \in Later(server) :
       IF c.kind \in {"DETAIL", "AUDIT"}
       THEN server' = row /\ Answer(c, "OK", row)
       ELSE \/ server' = row /\ Answer(c, "CONFLICT", None)
            \/ /\ Applicable(c, row) /\ row.version < MaxVersion
               /\ server' = Changed(c, row)
               /\ \/ Answer(c, "OK", Changed(c, row))
                  \/ Answer(c, "FAILED", None)

Lose(c) ==
  /\ c.code = "NONE"
  /\ Answer(c, "FAILED", None)
  /\ UNCHANGED server

-----------------------------------------------------------------------------
(* The answers.                                                               *)

\* A panel that is no longer there waits for nothing; its change goes on.
Unmounted(p) ==
  [Forgotten(p) EXCEPT
     !.panel = NoPanel,
     !.calls = {[c EXCEPT !.then = IF @ = "MANAGERS" THEN "NONE" ELSE @,
                          !.owner = IF c.kind = "MANAGERS" THEN FALSE ELSE @] : c \in @}]

\* The panel is on the page while the organization it shows is not deleted.
Shows(p, row) == [(IF row.deleted THEN Unmounted(p) ELSE p) EXCEPT !.shown = row]

\* Only in mutation runs: the answer of a reload that was replaced counts.
OwnsAnyDetail(c) == TRUE

OwnsDetail(c) == c.owner

DetailShown(p, c) ==
  IF ~OwnsDetail(c) THEN p
  ELSE IF c.code = "OK"
       THEN [Shows(p, c.row) EXCEPT !.detail = "idle", !.error = FALSE]
       ELSE [p EXCEPT !.detail = "idle", !.error = TRUE]

\* What waited for both reads goes on: the lock is released.
Released(p, then) ==
  IF \E c \in p.calls : c.then = then THEN p
  ELSE CASE then = "MANAGERS" -> [p EXCEPT !.panel.busy = FALSE]
         [] then \in Kinds -> [p EXCEPT !.lock = None]
         [] OTHER -> p

ReadReturns(c) ==
  LET rest == [page EXCEPT !.calls = @ \ {c}]
      p == IF c.kind = "DETAIL" THEN DetailShown(rest, c) ELSE rest
  IN /\ c.kind \in {"DETAIL", "AUDIT"} /\ c.code # "NONE"
     /\ page' = Released(p, c.then)
     /\ UNCHANGED server

\* What follows the answer to a change of the managers.
PanelFollows(p, c) ==
  IF c.code # "FAILED" THEN LoadBoth(p, IF c.owner THEN "MANAGERS" ELSE "NONE")
  ELSE IF c.owner THEN [p EXCEPT !.panel.busy = FALSE] ELSE p

\* What follows the answer to a change of the page, by its code and its kind.
PageFollows(p, c) ==
  CASE c.code = "FAILED" -> [p EXCEPT !.lock = None]
    [] c.code = "CONFLICT" ->
         IF c.kind = "RESTORE" THEN LoadBoth(p, c.kind) ELSE LoadDetail(p, c.kind)
    [] c.code = "OK" /\ c.kind = "DELETE" -> [p EXCEPT !.lock = None, !.left = TRUE]
    [] c.code = "OK" /\ c.kind = "RESTORE" ->
         LET q == Shows(p, c.row) IN [q EXCEPT !.calls = @ \cup {Asked("AUDIT", "RESTORE")}]
    [] OTHER -> LoadBoth(p, c.kind)

Followed(p, c) ==
  IF c.kind = "MANAGERS" THEN PanelFollows(p, c) ELSE PageFollows(p, c)

\* A restore shows the answer it got and does not reload the row.
Reloaded(c) == IF c.kind = "RESTORE" THEN 0 ELSE c.row.version

ChangeReturns(c) ==
  LET rest == [page EXCEPT !.calls = @ \ {c},
                           !.acked = IF c.code = "OK" THEN Reloaded(c) ELSE @]
  IN /\ c.kind \notin {"DETAIL", "AUDIT"} /\ c.code # "NONE"
     /\ page' = Followed(rest, c)
     /\ UNCHANGED server

Next ==
  \/ RetryDetail \/ ChangeManagers \/ SearchCandidates \/ ResetExistingAssignment
  \/ \E kind \in Kinds : Mutate(kind)
  \/ \E q \in Query : ChangeCandidateQuery(q)
  \/ \E s \in page.searches : SearchReturns(s) \/ SearchFails(s)
  \/ \E c \in page.calls : Serve(c) \/ Lose(c) \/ ReadReturns(c) \/ ChangeReturns(c)

Spec == Init /\ [][Next]_vars

-----------------------------------------------------------------------------
(* Properties.                                                                *)

\* A settled page shows at least the state its own last change left, restores apart:
\* the reload that follows a change replaces the one that was under way before it
\* (mutateOrganization, mutate of the panel, loadDetail).
OwnChangesShown ==
  (/\ Displayed /\ page.lock = None /\ ~page.panel.busy
   /\ page.detail = "idle" /\ ~page.error)
    => page.shown.version >= page.acked

\* The candidates listed are those of the query in the field (searchCandidates,
\* changeCandidateQuery).
CandidatesOfQuery ==
  page.panel.found \in {None, page.panel.query}

\* Locks, spinners and the search wait only for a request that will end the wait
\* (releaseMutation, the finally blocks of loadDetail, mutate, searchCandidates).
WaitsEnd ==
  ~page.left =>
    /\ page.lock # None => \E c \in page.calls : page.lock \in {c.kind, c.then}
    /\ page.panel.busy => \E c \in page.calls : "MANAGERS" \in {c.kind, c.then}
    /\ page.panel.searching => \E s \in page.searches : s.owner
    /\ page.detail = "loading" => \E c \in page.calls : c.kind = "DETAIL" /\ c.owner
=============================================================================
