----------------------------- MODULE ImportWizard -----------------------------
(* The import of a workbook in the browser (ImportWizard.tsx): a file is read *)
(* in the browser, its rows are validated by the server at a revision of the  *)
(* project, namesakes are told apart, and the rows are committed at that      *)
(* revision.  The page stays mounted while the path moves to another project  *)
(* or from the ordinary import to the one that corrects a closed project.     *)
(*                                                                            *)
(* The counters the page compares only grow, so a request carries "fresh"     *)
(* while its generation is the current one (its owner, compared with          *)
(* requestOwner, changes with the generation).                                *)
EXTENDS Naturals, FiniteSets

CONSTANTS
  Project,        \* projects the path may name
  Source,         \* a file with one of its sheets and a choice of columns
  Pick,           \* which participant a namesake was resolved to
  None,           \* no file, no rows, no choice, no result
  MaxRevision,    \* bound: changes of a project
  MaxRequests     \* bound: requests under way

VARIABLES
  server,         \* the projects: revision, closed or not
  wizard          \* the page and its requests

vars == <<server, wizard>>

Mode == {"ORDINARY", "CLOSED_CORRECTION"}

\* A request; a commit also tells what the result is of that the page shows.
Request(w, kind, rows, revision) ==
  [project |-> w.project, mode |-> w.mode, kind |-> kind, rows |-> rows,
   revision |-> revision, fresh |-> TRUE, code |-> "NONE", clean |-> FALSE,
   result |-> IF kind = "COMMIT" THEN w.validation.of ELSE None]

Workflow == {"READ_FILE", "VALIDATE", "COMMIT"}

Superseded(requests, kinds) ==
  {IF r.kind \in kinds THEN [r EXCEPT !.fresh = FALSE] ELSE r : r \in requests}

\* Only in mutation runs: the counter is forgotten.
SameGeneration(w) == w

\* workflowGeneration moves on: no request of the workflow is the page's any more.
NextGeneration(w) == [w EXCEPT !.requests = Superseded(@, Workflow)]

\* What clearWorkbook resets, and the effect that runs when the path moves.
ClearWorkbook(w) ==
  [NextGeneration(w) EXCEPT
     !.busy = "NONE", !.source = None, !.rows = None, !.validation = None,
     !.dirty = FALSE, !.unavailable = FALSE]

\* discardClosedProject and discardCorrectionWorkflow.
Discard(w) == [ClearWorkbook(w) EXCEPT !.unavailable = TRUE]

LoadOrganizations(w) ==
  LET asked == Request(w, "LIST", None, 0)
  IN [w EXCEPT !.list.state = "loading",
               !.requests = Superseded(@, {"LIST"}) \cup {asked}]

NoFields(p, mode) ==
  [project |-> p, mode |-> mode, busy |-> "NONE", source |-> None, rows |-> None,
   validation |-> None, dirty |-> FALSE, unavailable |-> FALSE,
   list |-> [of |-> None, state |-> "idle"], requests |-> {}]

\* What a result is about.
Rowset(r, revision) ==
  [project |-> r.project, mode |-> r.mode, rows |-> r.rows, revision |-> revision]

Init ==
  /\ server = [p \in Project |-> [revision |-> 1, closed |-> FALSE]]
  /\ \E p \in Project, mode \in Mode : wizard = LoadOrganizations(NoFields(p, mode))

Does(w) ==
  /\ Cardinality(w.requests) <= MaxRequests
  /\ wizard' = w
  /\ UNCHANGED server

-----------------------------------------------------------------------------
(* The user.                                                                  *)

Idle == wizard.busy = "NONE"

InFlight == wizard.busy \in {"VALIDATE", "COMMIT"}

ShowWorkflow == wizard.mode = "ORDINARY" \/ ~wizard.unavailable

Navigate(p, mode) ==
  /\ <<p, mode>> # <<wizard.project, wizard.mode>>
  /\ LET w == [ClearWorkbook(wizard) EXCEPT !.project = p, !.mode = mode]
     IN Does(IF p = wizard.project THEN w
             ELSE LoadOrganizations([w EXCEPT !.list.of = None]))

RetryOrganizations ==
  /\ ShowWorkflow /\ wizard.list.state = "failed"
  /\ Does(LoadOrganizations(wizard))

ChooseFile(s) ==
  /\ ShowWorkflow /\ Idle
  /\ LET w == ClearWorkbook(wizard)
     IN Does([w EXCEPT !.busy = "READ_FILE",
                       !.requests = @ \cup {Request(w, "READ_FILE", s, 0)}])

\* Another sheet, or other columns.
ChangeSheet(s) ==
  /\ ShowWorkflow /\ Idle /\ wizard.source \notin {None, s}
  /\ Does([NextGeneration(wizard) EXCEPT
             !.source = s, !.rows = None, !.validation = None, !.dirty = FALSE])

Cancel ==
  /\ ShowWorkflow /\ Idle /\ wizard.source # None
  /\ Does(ClearWorkbook(wizard))

\* The rows are made from the sheet anew; the choices among namesakes stay.
Rows(w) ==
  [source |-> w.source, pick |-> IF w.rows = None THEN None ELSE w.rows.pick]

Validate ==
  /\ ShowWorkflow /\ wizard.source # None /\ ~InFlight
  /\ Does([wizard EXCEPT
       !.busy = "VALIDATE",
       !.requests = @ \cup {Request(wizard, "VALIDATE", Rows(wizard), 0)}])

ResolveCandidate(x) ==
  /\ ShowWorkflow /\ Idle /\ wizard.validation # None /\ wizard.rows.pick # x
  /\ Does([NextGeneration(wizard) EXCEPT !.rows.pick = x, !.dirty = TRUE])

CanCommit == wizard.validation # None /\ ~wizard.dirty /\ wizard.validation.clean

Commit ==
  /\ ShowWorkflow /\ ~InFlight
  /\ CanCommit
  /\ Does([wizard EXCEPT
       !.busy = "COMMIT",
       !.requests = @ \cup {Request(wizard, "COMMIT", wizard.rows, wizard.validation.revision)}])

-----------------------------------------------------------------------------
(* The file, and the server.  Others change the project meanwhile.            *)

Answer(r, answered) ==
  wizard' = [wizard EXCEPT !.requests = (@ \ {r}) \cup {answered}]

Later(row) == {row} \cup [revision : (row.revision + 1)..MaxRevision, closed : BOOLEAN]

Fits(row, mode) == row.closed <=> (mode = "CLOSED_CORRECTION")

Refusal(r) == IF r.mode = "ORDINARY" THEN "PROJECT_CLOSED" ELSE "UNAVAILABLE"

ReadFile(r) ==
  /\ r.kind = "READ_FILE"
  /\ \E code \in {"OK", "FAILED"} : Answer(r, [r EXCEPT !.code = code])
  /\ UNCHANGED server

ServeList(r) ==
  /\ r.kind = "LIST"
  /\ Answer(r, [r EXCEPT !.code = "OK"])
  /\ UNCHANGED server

ServeValidation(r) ==
  /\ r.kind = "VALIDATE"
  /\ \E row \in Later(server[r.project]), clean \in BOOLEAN :
       /\ server' = [server EXCEPT ![r.project] = row]
       /\ Answer(r, [r EXCEPT !.code = IF Fits(row, r.mode) THEN "OK" ELSE Refusal(r),
                              !.revision = row.revision, !.clean = clean])

\* The answer to a commit that was applied may be lost.
ServeCommit(r) ==
  /\ r.kind = "COMMIT"
  /\ \E row \in Later(server[r.project]) :
       LET applies == Fits(row, r.mode) /\ row.revision = r.revision
       IN /\ applies => row.revision < MaxRevision
          /\ server' = [server EXCEPT ![r.project] =
                          IF applies THEN [row EXCEPT !.revision = @ + 1] ELSE row]
          /\ \/ Answer(r, [r EXCEPT !.code = CASE applies -> "OK"
                                               [] ~Fits(row, r.mode) -> Refusal(r)
                                               [] OTHER -> "STALE_REVISION"])
             \/ applies /\ Answer(r, [r EXCEPT !.code = "FAILED"])

Lose(r) ==
  /\ r.kind # "READ_FILE"
  /\ Answer(r, [r EXCEPT !.code = "FAILED"])
  /\ UNCHANGED server

-----------------------------------------------------------------------------
(* The answers.                                                               *)

Released(w) == [w EXCEPT !.busy = "NONE"]

FileAnswer(w, r) ==
  IF r.code = "OK" THEN [Released(w) EXCEPT !.source = r.rows] ELSE Released(w)

ValidationAnswer(w, r) ==
  CASE r.code = "OK" ->
         [Released(w) EXCEPT !.rows = r.rows, !.dirty = FALSE,
                             !.validation = [revision |-> r.revision, clean |-> r.clean,
                                            of |-> Rowset(r, r.revision)]]
    [] r.code = "FAILED" -> Released(w)
    [] OTHER -> Discard(w)

CommitAnswer(w, r) ==
  CASE r.code = "OK" -> ClearWorkbook(w)
    [] r.code = "STALE_REVISION" -> [Released(w) EXCEPT !.validation = None]
    [] r.code = "FAILED" -> Released(w)
    [] OTHER -> Discard(w)

ListAnswer(w, r) ==
  IF r.code = "OK" THEN [w EXCEPT !.list = [of |-> r.project, state |-> "idle"]]
                   ELSE [w EXCEPT !.list.state = "failed"]

Handled(w, r) ==
  IF ~r.fresh THEN w
  ELSE CASE r.kind = "READ_FILE" -> FileAnswer(w, r)
         [] r.kind = "VALIDATE" -> ValidationAnswer(w, r)
         [] r.kind = "COMMIT" -> CommitAnswer(w, r)
         [] OTHER -> ListAnswer(w, r)

Receive(r) ==
  /\ wizard' = Handled([wizard EXCEPT !.requests = @ \ {r}], r)
  /\ UNCHANGED server

Next ==
  \/ \E p \in Project, mode \in Mode : Navigate(p, mode)
  \/ RetryOrganizations
  \/ \E s \in Source : ChooseFile(s) \/ ChangeSheet(s)
  \/ Cancel \/ Validate \/ Commit
  \/ \E x \in Pick \cup {None} : ResolveCandidate(x)
  \/ \E r \in wizard.requests :
       \/ r.code = "NONE" /\ \/ ReadFile(r) \/ ServeList(r)
                             \/ ServeValidation(r) \/ ServeCommit(r) \/ Lose(r)
       \/ r.code # "NONE" /\ Receive(r)

Spec == Init /\ [][Next]_vars

-----------------------------------------------------------------------------
(* Properties.                                                                *)

\* What is committed is what the result on the page is about: the same rows of the
\* same workbook with the same choices, validated for this project, this kind of
\* import and this revision (validate, resolveCandidate, commit and the resets).
CommittedAsValidated ==
  \A r \in wizard.requests : r.kind = "COMMIT" => r.result = Rowset(r, r.revision)

\* The page is busy, or loads the organizations, only while a request will end that.
WaitsEnd ==
  /\ wizard.busy # "NONE" => \E r \in wizard.requests : r.fresh /\ r.kind = wizard.busy
  /\ wizard.list.state = "loading" => \E r \in wizard.requests : r.fresh /\ r.kind = "LIST"

\* The organizations listed are those of the project the path names.
ListOfPath ==
  wizard.list.of \in {None, wizard.project}
=============================================================================
