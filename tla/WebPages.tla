------------------------------- MODULE WebPages -------------------------------
(* The pages of the web application that send changes: the path decides which *)
(* one is mounted (AppShell.tsx) and only its state moves.  Leaving a page    *)
(* unmounts it and nothing of it stays, so a tab is followed on the page it   *)
(* opened.                                                                    *)
EXTENDS Integers

CONSTANTS
  Project, Widget, Query, Blank, Source, Pick, None,
  MaxRevision, MaxClicks, MaxCalls,     \* bounds of ProjectPage
  MaxEvents, MaxReads,                  \* bounds of AuditList
  MaxVersion, MaxChanges,               \* bounds of OrganizationPage
  MaxImports, MaxRequests               \* bounds of ImportWizard

\* What stands for nothing is no kind of request and no row, a widget is none of the
\* names the pages use for themselves, and a field may be left empty.
ASSUME PagesConstants ==
  /\ None \notin {"RENAME", "STATUS", "DELETE", "RESTORE"}
  /\ None \notin [project : Project, revision : Int, closed : BOOLEAN, deleted : BOOLEAN]
  /\ Widget \cap {"NONE", "TRANSITION", "RESTORE", "edit", "delete", "PANEL"} = {}
  /\ Blank \in Query

VARIABLES
  route,                  \* the page that is mounted
  projects, tab,          \* ProjectPage
  events, list,           \* AuditList
  organization, page,     \* OrganizationPage
  imports, wizard         \* ImportWizard

Detail == INSTANCE ProjectPage WITH server <- projects

Audit == INSTANCE AuditList

Organization == INSTANCE OrganizationPage WITH
  server <- organization, MaxCalls <- MaxChanges

Wizard == INSTANCE ImportWizard WITH
  server <- imports, MaxRevision <- MaxImports

vars == <<route, projects, tab, events, list, organization, page, imports, wizard>>

Init ==
  \/ /\ route = "project" /\ Detail!Init
     /\ events = None /\ list = None /\ organization = None /\ page = None
     /\ imports = None /\ wizard = None
  \/ /\ route = "audit" /\ Audit!Init
     /\ projects = None /\ tab = None /\ organization = None /\ page = None
     /\ imports = None /\ wizard = None
  \/ /\ route = "organization" /\ Organization!Init
     /\ projects = None /\ tab = None /\ events = None /\ list = None
     /\ imports = None /\ wizard = None
  \/ /\ route = "import" /\ Wizard!Init
     /\ projects = None /\ tab = None /\ events = None /\ list = None
     /\ organization = None /\ page = None

Next ==
  \/ /\ route = "project" /\ Detail!Next
     /\ UNCHANGED <<route, events, list, organization, page, imports, wizard>>
  \/ /\ route = "audit" /\ Audit!Next
     /\ UNCHANGED <<route, projects, tab, organization, page, imports, wizard>>
  \/ /\ route = "organization" /\ Organization!Next
     /\ UNCHANGED <<route, projects, tab, events, list, imports, wizard>>
  \/ /\ route = "import" /\ Wizard!Next
     /\ UNCHANGED <<route, projects, tab, events, list, organization, page>>

Spec == Init /\ [][Next]_vars

-----------------------------------------------------------------------------
(* Properties: what each page promises, on the page that is mounted.          *)

\* What spins or is disabled waits for a request under way whose answer ends the wait,
\* whatever the order of the answers: the locks, the row, the lists, the searches and
\* the transition of every page; the restore of a project and the candidates of a
\* correction only until a reload of the same path, which leaves their flags set
\* (ProjectPage!Abandoned).
SpinnersEnd ==
  /\ route = "project" => Detail!WaitsEnd
  /\ route = "audit" => Audit!WaitsEnd
  /\ route = "organization" => Organization!WaitsEnd
  /\ route = "import" => Wizard!WaitsEnd

\* An answer that comes late never shows up on a page that has moved on: the row,
\* the candidates and the organizations are those of the path and of the field.
AnswersInPlace ==
  /\ route = "project" => Detail!RowInPlace
  /\ route = "organization" => Organization!CandidatesOfQuery
  /\ route = "import" => Wizard!ListOfPath

\* The audit log is shown without gaps, repetitions or events of another project,
\* however reloads and "more" cross (loadMoreAudit).
AuditContiguous == route = "audit" => Audit!Contiguous

\* A settled organization page shows the user's own last change, restores apart: they
\* show the answer they got (mutateOrganization, the panel's mutate, loadDetail).
OwnChangesShown == route = "organization" => Organization!OwnChangesShown

\* An import commits the rows that were validated, where they were validated
\* (ImportWizard.tsx commit).
CommittedAsValidated == route = "import" => Wizard!CommittedAsValidated
=============================================================================
