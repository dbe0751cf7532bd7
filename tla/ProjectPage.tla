----------------------------- MODULE ProjectPage -----------------------------
(* The detail page of a project in the browser (ProjectDetailPage.tsx): one   *)
(* instance that stays mounted while the path moves from project to project,  *)
(* with many requests under way whose answers come in any order.              *)
(*                                                                            *)
(* The counters the page compares (loadGeneration and the request tokens)     *)
(* only grow, so a request under way carries two flags instead: "fresh" while *)
(* its generation is the current one, "owner" while its token is the latest.  *)
(* The lists the page loads beside the row are in AuditList.                  *)
EXTENDS Naturals, FiniteSets

CONSTANTS
  Project,        \* projects the path may name
  Widget,         \* rows and forms of the roster that send changes of theirs
  None,           \* no project shown
  MaxRevision,    \* bound: changes of a project
  MaxClicks,      \* bound: what the user does
  MaxCalls        \* bound: requests under way when he does something

VARIABLES
  server,         \* the rows of the projects at the server
  tab             \* the page and its requests

vars == <<server, tab>>

Row == [revision : 1..MaxRevision, closed : BOOLEAN, deleted : BOOLEAN]

\* A request: "arg" is the cursor or the revision it expects (or whether the lists
\* follow the row), "then" who awaits it; "here" while the path it left stays.
Asked(p, kind, arg, then) ==
  [project |-> p, kind |-> kind, arg |-> arg, then |-> then,
   fresh |-> TRUE, owner |-> TRUE, here |-> TRUE, code |-> "NONE", row |-> None]

RowReads == {"PROJECT", "OR_DELETED", "FALLBACK"}

Fields(p, withDeleted) ==
  [route |-> p, withDeleted |-> withDeleted, shown |-> None, project |-> "loading",
   correction |-> FALSE, candidates |-> "idle", dialog |-> "none",
   observed |-> None, transitioning |-> FALSE, restoring |-> "no", clicks |-> 0, calls |-> {}]

-----------------------------------------------------------------------------
(* What the handlers do to the page, each from a page to a page.              *)

Send(t, kind, arg, then) ==
  [t EXCEPT !.calls = @ \cup {Asked(t.route, kind, arg, then)}]

Disowned(calls, kinds) ==
  {IF c.kind \in kinds THEN [c EXCEPT !.owner = FALSE] ELSE c : c \in calls}

\* The panel of organizations takes the revision the page shows.
FreshPanel(t) ==
  [t EXCEPT !.observed = IF t.shown = None THEN None ELSE t.shown.revision]

\* What the page makes of the flag: only a row shown as closed is corrected.
CorrectionActive(t) == t.correction /\ t.shown.closed

\* The roster and the panel start anew when a correction becomes active or no longer
\* is and when their tab is opened: what the former ones sent goes on without them.
Remounted(t) ==
  [FreshPanel(t) EXCEPT
     !.calls = {IF c.then \in Widget \cup {"PANEL"} THEN [c EXCEPT !.then = "NONE"]
                                                   ELSE c : c \in @}]

StopCorrection(t) ==
  LET u == [t EXCEPT !.correction = FALSE, !.candidates = "idle",
                     !.calls = Disowned(@, {"CANDIDATES"})]
  IN IF CorrectionActive(t) THEN Remounted(u) ELSE u

\* A reload of the row; "then" names the handler that waits for it.
LoadProject(t, kind, then) ==
  Send([t EXCEPT !.project = "loading", !.calls = Disowned(@, RowReads)],
       kind, 0, then)

\* The flags of a restore and of the candidates are taken down only by an answer of
\* the generation they were set in: a reload of the same path leaves them set.
Abandoned(flag) == IF flag \in {"waits", "loading"} THEN "left" ELSE flag

NewGeneration(t) ==
  [t EXCEPT !.calls = {[c EXCEPT !.fresh = FALSE] : c \in @},
            !.restoring = Abandoned(@), !.candidates = Abandoned(@)]

Load(t, kind, then) == LoadProject(NewGeneration(t), kind, then)

LoadCandidates(t) ==
  Send([t EXCEPT !.candidates = "loading", !.calls = Disowned(@, {"CANDIDATES"})],
       "CANDIDATES", 0, "NONE")

AfterChild(t, w) ==
  LET u == Load(t, "PROJECT", w)
  IN IF t.correction THEN LoadCandidates(u) ELSE u

\* The panel takes over a revision that is another than the one it was shown.
Shows(t, c) ==
  LET u == [t EXCEPT !.shown =
              [project |-> c.project, revision |-> c.row.revision,
               closed |-> c.row.closed, deleted |-> c.row.deleted]]
  IN IF CorrectionActive(u) # CorrectionActive(t) THEN Remounted(u)
     ELSE IF t.shown # None /\ t.shown.revision = c.row.revision THEN u ELSE FreshPanel(u)

\* The path changes and the effect of the page resets everything and loads; the
\* path that is the current one renders nothing anew.
Navigate(t, p, withDeleted) ==
  IF t.route = p /\ t.withDeleted = withDeleted THEN t
  ELSE LET left == {[c EXCEPT !.fresh = FALSE, !.owner = FALSE, !.here = FALSE] :
                      c \in Remounted(t).calls}
       IN Load([Fields(p, withDeleted) EXCEPT !.calls = left, !.clicks = t.clicks], "PROJECT", "NONE")

Init ==
  /\ server = [p \in Project |-> [revision |-> 2, closed |-> TRUE, deleted |-> FALSE]]
  /\ \E p \in Project, withDeleted \in BOOLEAN :
       tab = Load(Fields(p, withDeleted), "PROJECT", "NONE")

-----------------------------------------------------------------------------
(* The user.                                                                  *)

Room(t) == Cardinality(t.calls) <= MaxCalls /\ t.clicks < MaxClicks

Does(t) == /\ Room(t)
           /\ tab' = [t EXCEPT !.clicks = tab.clicks + 1]
           /\ UNCHANGED server

Blocked == tab.project # "idle" \/ tab.transitioning

Displayed == tab.shown # None

Open(p, withDeleted) ==
  /\ <<p, withDeleted>> # <<tab.route, tab.withDeleted>>
  /\ Does(Navigate(tab, p, withDeleted))

RetryProject ==
  /\ tab.project = "failed"
  /\ Does(LoadProject(tab, "PROJECT", "NONE"))

StartHistoryCorrection ==
  /\ Displayed /\ ~Blocked /\ ~tab.correction
  /\ tab.shown.closed /\ ~tab.shown.deleted /\ tab.dialog \notin {"delete", "transition"}
  /\ Does(LoadCandidates(Remounted([tab EXCEPT !.correction = TRUE])))

RetryCorrectionCandidates ==
  /\ CorrectionActive(tab) /\ tab.candidates = "failed"
  /\ Does(LoadCandidates(tab))

LeaveHistoryCorrection ==
  /\ CorrectionActive(tab) /\ ~tab.transitioning
  /\ tab.dialog \notin {"delete", "transition"}
  /\ Does(StopCorrection(tab))

\* A dialog opens only on a settled page, but what reloads the page leaves it open.
OpenDialog(kind) ==
  /\ Displayed /\ ~Blocked /\ tab.dialog = "none"
  /\ ~tab.shown.deleted
  /\ kind = "delete" => tab.shown.closed
  /\ tab' = [tab EXCEPT !.dialog = kind] /\ UNCHANGED server

CloseDialog ==
  /\ tab.dialog # "none"
  /\ tab' = [tab EXCEPT !.dialog = "none"] /\ UNCHANGED server

\* An answer closes the dialog that asked, if it is still the one that is open.
Closes(t, kind) == [t EXCEPT !.dialog = IF @ = kind THEN "none" ELSE @]

UpdateProject ==
  /\ tab.dialog = "edit" /\ Displayed
  /\ Does(Send(tab, "EDIT", tab.shown.revision, "NONE"))

DeleteProject ==
  /\ tab.dialog = "delete" /\ Displayed
  /\ tab.shown.closed /\ ~tab.shown.deleted
  /\ Does(Send(tab, "DELETE", tab.shown.revision, "NONE"))

TransitionProject ==
  /\ tab.dialog = "transition" /\ Displayed /\ ~Blocked /\ ~tab.shown.deleted
  /\ Does(Send([tab EXCEPT !.transitioning = TRUE], "TRANSITION", tab.shown.revision, "NONE"))

RestoreProject ==
  /\ Displayed /\ tab.shown.deleted /\ tab.restoring = "no"
  /\ Does(Send([tab EXCEPT !.restoring = "waits"], "RESTORE", tab.shown.revision, "NONE"))

\* What the roster and the panel may be used for now.
ChildKind == IF tab.shown.closed THEN "CORRECTION" ELSE "CHILD"

Editable ==
  /\ Displayed /\ ~tab.shown.deleted
  /\ tab.shown.closed =>
       /\ tab.correction /\ tab.project # "failed"
       /\ ~tab.transitioning /\ tab.dialog \notin {"delete", "transition"}

\* Busy until the page has reloaded, unless the tab has been opened anew.
Children(w) ==
  {Remounted(tab)} \cup {t \in {tab} : ~\E c \in t.calls : c.then = w}

\* changeStatus, updateParticipant, add, createAndAdd: at the revision of the page.
ChangeRoster(w) ==
  /\ Editable
  /\ \E t \in Children(w) : Does(Send(t, ChildKind, t.shown.revision, w))

\* The panel sends the revision it observed, which its last answer may have told
\* it before the page knows.
ChangeOrganizations ==
  /\ Editable
  /\ \E t \in Children("PANEL") : Does(Send(t, ChildKind, t.observed, "PANEL"))

-----------------------------------------------------------------------------
(* The server, and everybody else who changes projects.                       *)

Changed(row, kind) ==
  [row EXCEPT !.revision = @ + 1,
              !.closed = IF kind = "TRANSITION" THEN ~@ ELSE @,
              !.deleted = (kind = "DELETE")]

Expecting(row, c) == IF row.revision = c.arg THEN "OK" ELSE "STALE"

\* The answers that ask for a project which is not deleted.
StateCode(row, c) ==
  CASE c.kind = "CANDIDATES" -> IF row.closed THEN "OK" ELSE "UNAVAILABLE"
    [] c.kind \in {"DELETE", "CORRECTION"} /\ ~row.closed -> "UNAVAILABLE"
    [] c.kind = "CHILD" /\ row.closed -> "PROJECT_CLOSED"
    [] OTHER -> Expecting(row, c)

Code(row, c) ==
  CASE c.kind = "FALLBACK" -> "OK"
    [] c.kind \in {"PROJECT", "OR_DELETED"} ->
         IF row.deleted /\ ~tab.withDeleted THEN "NOT_FOUND" ELSE "OK"
    [] c.kind = "RESTORE" -> IF row.deleted THEN Expecting(row, c) ELSE "NOT_FOUND"
    [] OTHER -> IF row.deleted THEN "NOT_FOUND" ELSE StateCode(row, c)

Reads == RowReads \cup {"CANDIDATES"}

\* What others may have made of a row since the page last asked about it.
ByOthers(row) ==
  {row} \cup {r \in Row : /\ r.revision > row.revision
                          /\ r.deleted => r.closed
                          /\ r.revision = row.revision + 1 =>
                               r.closed = row.closed \/ (r.deleted = row.deleted /\ ~r.deleted)}

Answer(c, code, row) ==
  [tab EXCEPT !.calls = (@ \ {c}) \cup {[c EXCEPT !.code = code, !.row = row]}]

\* The request reaches the server, which answers, and the answer may be lost.
Serve(c) ==
  \E row \in ByOthers(server[c.project]) :
    LET code == Code(row, c)
        applies == code = "OK" /\ c.kind \notin Reads
        after == IF applies THEN Changed(row, c.kind) ELSE row
    IN /\ after \in Row
       /\ server' = [server EXCEPT ![c.project] = after]
       /\ \/ tab' = Answer(c, code, IF code = "OK" THEN after ELSE None)
          \/ applies /\ tab' = Answer(c, "FAILED", None)

\* An edit or a transition of a project shown as open is refused as closed; so is one
\* whose end date has passed, which the server closes on the way (updateProject and
\* changeProjectStatus of the API).
RefuseClosed(c) ==
  /\ c.kind \in {"EDIT", "TRANSITION"}
  /\ \E row \in ByOthers(server[c.project]) :
       /\ row.closed /\ ~row.deleted /\ row.revision # c.arg
       /\ server' = [server EXCEPT ![c.project] = row]
  /\ tab' = Answer(c, "PROJECT_CLOSED", None)

\* The request never arrives.
Lose(c) ==
  /\ tab' = Answer(c, "FAILED", None)
  /\ UNCHANGED server

-----------------------------------------------------------------------------
(* The answers.                                                               *)

Fresh(c) == c.fresh

Owns(c) == c.fresh /\ c.owner

Settled(t, state) == [t EXCEPT !.project = state]

\* What waits for a reload of the row goes on, with a row or without.
Continued(t, c, loaded) ==
  CASE c.then = "TRANSITION" /\ c.here -> [t EXCEPT !.transitioning = FALSE]
    [] c.then = "RESTORE" /\ Fresh(c) -> [t EXCEPT !.restoring = "no"]
    [] c.then \in {"edit", "delete"} /\ loaded -> Closes(t, c.then)
    [] OTHER -> t

RowShown(t, c) ==
  LET u == Settled(Shows(t, c), "idle")
      stop == c.kind = "FALLBACK" \/ c.row.deleted \/ ~c.row.closed
  IN Continued(IF stop THEN StopCorrection(u) ELSE u, c, TRUE)

RowAnswer(t, c) ==
  IF ~Owns(c) THEN Continued(t, c, FALSE)
  ELSE CASE c.code = "OK" -> RowShown(t, c)
         [] /\ c.code = "NOT_FOUND" /\ ~t.withDeleted
            /\ c.kind = "OR_DELETED" \/ t.correction -> Send(t, "FALLBACK", 0, c.then)
         [] OTHER -> Continued(Settled(t, "failed"), c, FALSE)

CandidatesAnswer(t, c) ==
  IF ~(Owns(c) /\ t.correction) THEN t
  ELSE CASE c.code = "OK" -> [t EXCEPT !.candidates = "idle"]
         [] c.code = "FAILED" -> [t EXCEPT !.candidates = "failed"]
         [] OTHER -> Load(StopCorrection(t),
                          IF c.code = "NOT_FOUND" THEN "OR_DELETED" ELSE "PROJECT", "NONE")

\* Another change came first, or the project has been closed: both reload the row.
Overtaken == {"STALE", "PROJECT_CLOSED"}

\* Only in mutation runs: the answer counts on whatever page it finds.
EditShown(t, c) ==
  CASE c.code = "OK" -> Shows(Closes(t, "edit"), c)
    [] c.code \in Overtaken -> LoadProject(t, "PROJECT", "edit")
    [] OTHER -> t

EditAnswer(t, c) ==
  IF ~Fresh(c) THEN t
  ELSE CASE c.code = "OK" -> Shows(Closes(t, "edit"), c)
         [] c.code \in Overtaken -> LoadProject(t, "PROJECT", "edit")
         [] OTHER -> t

\* Only in mutation runs: an answer of an older generation leaves the wait alone.
TransitionDropped(t, c) ==
  IF ~Fresh(c) THEN t
  ELSE LET u == Closes(t, "transition")
       IN CASE c.code = "OK" -> Load(u, "PROJECT", "TRANSITION")
            [] c.code \in Overtaken -> LoadProject(u, "PROJECT", "TRANSITION")
            [] OTHER -> [u EXCEPT !.transitioning = FALSE]

\* The wait of a transition ends on this path even if the page has been reloaded.
TransitionAnswer(t, c) ==
  LET u == IF Fresh(c) THEN Closes(t, "transition") ELSE t
  IN CASE Fresh(c) /\ c.code = "OK" -> Load(u, "PROJECT", "TRANSITION")
       [] Fresh(c) /\ c.code \in Overtaken -> LoadProject(u, "PROJECT", "TRANSITION")
       [] OTHER -> IF c.here THEN [u EXCEPT !.transitioning = FALSE] ELSE u

DeleteAnswer(t, c) ==
  IF Fresh(c) /\ c.code = "STALE" THEN LoadProject(t, "PROJECT", "delete") ELSE t

RestoreAnswer(t, c) ==
  IF ~Fresh(c) THEN t
  ELSE CASE c.code = "OK" -> Navigate([t EXCEPT !.restoring = "no"], t.route, FALSE)
         [] c.code = "STALE" -> LoadProject(t, "PROJECT", "RESTORE")
         [] OTHER -> [t EXCEPT !.restoring = "no"]

\* The way back is that of the page as it was when the change was sent: it reloads
\* after every answer of the server but a refusal that no reload can explain.
ReloadsPage(t, c) ==
  Fresh(c) /\ c.code # "FAILED" /\ (c.code = "NOT_FOUND" => c.kind = "CORRECTION")

RosterAnswer(t, c) ==
  IF ReloadsPage(t, c) THEN AfterChild(t, c.then) ELSE t

OrganizationsAnswer(t, c) ==
  LET u == IF c.code = "OK" THEN [t EXCEPT !.observed = c.row.revision] ELSE t
  IN IF ReloadsPage(t, c) THEN AfterChild(u, "PANEL") ELSE u

Handled(t, c) ==
  CASE c.kind \in RowReads -> RowAnswer(t, c)
    [] c.kind = "CANDIDATES" -> CandidatesAnswer(t, c)
    [] c.kind = "EDIT" -> EditAnswer(t, c)
    [] c.kind = "TRANSITION" -> TransitionAnswer(t, c)
    [] c.kind = "DELETE" -> DeleteAnswer(t, c)
    [] c.kind = "RESTORE" -> RestoreAnswer(t, c)
    [] OTHER -> IF c.then = "PANEL" THEN OrganizationsAnswer(t, c) ELSE RosterAnswer(t, c)

Receive(c) ==
  /\ c.code # "NONE"
  /\ tab' = Handled([tab EXCEPT !.calls = @ \ {c}], c)
  /\ UNCHANGED server

Next ==
  \/ \E p \in Project, withDeleted \in BOOLEAN : Open(p, withDeleted)
  \/ RetryProject
  \/ StartHistoryCorrection \/ RetryCorrectionCandidates \/ LeaveHistoryCorrection
  \/ \E kind \in {"edit", "delete", "transition"} : OpenDialog(kind)
  \/ CloseDialog \/ UpdateProject \/ DeleteProject \/ TransitionProject \/ RestoreProject
  \/ \E w \in Widget : ChangeRoster(w)
  \/ ChangeOrganizations
  \/ \E c \in tab.calls : \/ c.code = "NONE" /\ (Serve(c) \/ RefuseClosed(c) \/ Lose(c))
                          \/ c.code # "NONE" /\ Receive(c)

Spec == Init /\ [][Next]_vars

-----------------------------------------------------------------------------
(* Properties.                                                                *)

\* The row and the button of a transition wait only for a request that will end the
\* wait, and so do the button of a restore and the candidates until a reload of the
\* same path leaves them set (loadProject, transitionProject, restoreProject and
\* loadCorrectionCandidates: which paths of the answers release).
WaitsEnd ==
  /\ tab.project = "loading" =>
       \E c \in tab.calls : c.kind \in RowReads /\ Owns(c)
  /\ tab.transitioning =>
       \E c \in tab.calls : c.here /\ "TRANSITION" \in {c.kind, c.then}
  /\ tab.restoring = "waits" =>
       \E c \in tab.calls : Fresh(c) /\ "RESTORE" \in {c.kind, c.then}
  /\ tab.candidates = "loading" =>
       \E c \in tab.calls : c.kind = "CANDIDATES" /\ Owns(c)

\* The page shows the project its path names, whatever answers come late
\* (isCurrent before every set), and corrects history only of a project it shows
\* and does not show as deleted (loadProject and stopHistoryCorrection).
RowInPlace ==
  /\ tab.shown # None => tab.shown.project = tab.route
  /\ tab.correction => Displayed /\ ~tab.shown.deleted
=============================================================================
