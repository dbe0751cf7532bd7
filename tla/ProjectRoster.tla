----------------------------- MODULE ProjectRoster -----------------------------
(***************************************************************************)
(* The organizations, the roster and the expected snapshot of projects,    *)
(* and the participants (master rows) that projects share.                 *)
(*                                                                         *)
(* A handler reads and checks (the action named after it) and later        *)
(* submits one guarded batch (Commit); any other request, the automatic    *)
(* close and the administration of organizations and managers run in       *)
(* between.  All that belongs to one project is guarded by that project's  *)
(* revision.  Participants are shared between projects and organizations   *)
(* and assignments are administered apart, so they are not.                *)
(*                                                                         *)
(* Names, roles and grades are left out, a clock too: AutoClose may        *)
(* happen at any time.  A request that is already behind what it reads is  *)
(* refused (ProjectLifecycle shows it), so only requests that are current  *)
(* when they read are here.                                                *)
(***************************************************************************)
EXTENDS Naturals, FiniteSetsExt

CONSTANTS
  Project, Org, Person,
  Operator,     \* stands for all operators
  Manager,      \* organization managers
  Slot,         \* concurrently running handlers
  None,         \* SQL NULL, a row that does not exist, an idle slot
  Keep,         \* a key missing from a PATCH body
  Ops,          \* the kinds of requests clients send
  Masters,      \* whether organizations and assignments change
  Elsewhere,    \* whether projects not in Project share the participants
  MaxRevision,  \* bound: no request reads a project of this revision
  MaxSession    \* bound: changes of a manager's assignments

Ordinary == {"TRANSITION", "ADD_ORGS", "EXCLUDE_ORG", "ADD_ENTRY", "SET_ENTRY",
             "CREATE_PARTICIPANT", "UPDATE_PARTICIPANT"}
Corrections == {"FIX_ADD", "FIX_CREATE", "FIX_PATCH", "FIX_LINK", "FIX_EXCLUDE"}

ASSUME RosterConstants ==
  /\ Ops \subseteq Ordinary \cup Corrections
  /\ Masters \in BOOLEAN /\ Elsewhere \in BOOLEAN
  /\ MaxRevision \in Nat /\ MaxSession \in Nat
  /\ IsFiniteSet(Person) /\ IsFiniteSet(Org)
  /\ Operator \notin Manager
  /\ None \notin Org \cup Person \cup Nat /\ Keep \notin Org

Actor   == Manager \cup {Operator}
Status  == {"PRE_REGISTRATION", "IN_PROGRESS", "CLOSED"}
Source  == {"PRE_REGISTRATION", "IN_PROGRESS"}
Link    == {"NONE", "ACTIVE", "INACTIVE"}

\* project_roster_entries; expected is was_expected_at_start.
Entry == [org: Org, source: Source, status: {"ACTIVE", "CANCELLED"},
          expected: BOOLEAN, revision: Nat]

\* A row of projects with its project_organizations (linked; "NONE" is no
\* row), project_expected_snapshots and project_roster_entries; corrected if
\* the audit log holds a correction of it.
ProjectRow == [status: Status, revision: Nat, corrected: BOOLEAN,
               linked: [Org -> Link],
               snapshot: [Org -> Nat \cup {None}],
               roster: [Person -> Entry \cup {None}]]

Participant == [org: Org, revision: Nat]

Request == [op: Ordinary \cup Corrections, actor: Actor, session: Nat,
            project: Project, expected: Nat, status: Status,
            person: Person \cup {None}, entry: Entry \cup {None},
            holder: Participant \cup {None}, org: Org \cup {None, Keep},
            orgs: SUBSET Org,
            target: Status \cup {"ACTIVE", "CANCELLED", None, Keep}]

\* A row is not the missing row.
ASSUME RowsExist == None \notin Participant \cup Entry \cup Request

VARIABLES
  project,       \* projects and all that belongs to them
  participant,   \* participants, None before creation
  organization,  \* organizations: "ACTIVE", "INACTIVE" or "DELETED"
  assignment,    \* per manager: user_organizations and session_version
  request        \* the request in each slot, between its reads and its batch

vars == <<project, participant, organization, assignment, request>>

TypeOK ==
  /\ project \in [Project -> ProjectRow]
  /\ participant \in [Person -> Participant \cup {None}]
  /\ organization \in [Org -> {"ACTIVE", "INACTIVE", "DELETED"}]
  /\ assignment \in [Manager -> [orgs: SUBSET Org, session: Nat]]
  /\ request \in [Slot -> Request \cup {None}]

Init ==
  /\ project = [p \in Project |->
       [status |-> "PRE_REGISTRATION", revision |-> 0, corrected |-> FALSE,
        linked |-> [o \in Org |-> "NONE"], snapshot |-> [o \in Org |-> None],
        roster |-> [x \in Person |-> None]]]
  /\ participant = [x \in Person |-> None]
  /\ organization = [o \in Org |-> "ACTIVE"]
  /\ assignment = [m \in Manager |-> [orgs |-> {}, session |-> 0]]
  /\ request = [s \in Slot |-> None]

-----------------------------------------------------------------------------
(* Organizations and managers.  These handlers guard on everything they    *)
(* read, so each is one step.                                              *)

SetOrganization(o) ==
  /\ Masters
  /\ \E next \in {"ACTIVE", "INACTIVE", "DELETED"} \ {organization[o]} :
       /\ organization[o] = "DELETED" => next = "INACTIVE"   \* restoreOrganization
       /\ organization' = [organization EXCEPT ![o] = next]
  /\ UNCHANGED <<project, participant, assignment, request>>

\* Changing a manager's assignments revokes the manager's sessions.
SetAssignment(m, o) ==
  /\ Masters
  /\ assignment[m].session < MaxSession
  /\ IF o \in assignment[m].orgs THEN organization[o] # "DELETED"
                                 ELSE organization[o] = "ACTIVE"
  /\ assignment' = [assignment EXCEPT
       ![m].orgs = IF o \in @ THEN @ \ {o} ELSE @ \cup {o}, ![m].session = @ + 1]
  /\ UNCHANGED <<project, participant, organization, request>>

\* An update of a participant moves its revision; adding an existing one to a
\* roster does so only if it changes the participant (here: moves it, as names
\* are left out).  MovedQuietly never does (for the mutation runs).
Updated(holder, o) == [org |-> o, revision |-> holder.revision + 1]
MovedQuietly(holder, o) == [holder EXCEPT !.org = o]
Moved(holder, o) == IF holder.org = o THEN holder ELSE Updated(holder, o)

\* updateProjectParticipant or addRosterEntry of another project.
MoveElsewhere(x) ==
  /\ Elsewhere
  /\ participant[x] # None
  /\ participant[x].revision < MaxRevision
  /\ \E o \in Org :
       /\ organization[o] = "ACTIVE" /\ organization[participant[x].org] = "ACTIVE"
       /\ \/ participant' = [participant EXCEPT ![x] = Updated(@, o)]
          \/ participant' = [participant EXCEPT ![x] = Moved(@, o)]
  /\ UNCHANGED <<project, organization, assignment, request>>

AutoClose(p) ==
  /\ project[p].status # "CLOSED"
  /\ project[p].revision < MaxRevision
  /\ project' = [project EXCEPT ![p].status = "CLOSED", ![p].revision = @ + 1]
  /\ UNCHANGED <<participant, organization, assignment, request>>

-----------------------------------------------------------------------------
(* The reads and checks of the handlers. *)

Begin(s, q) ==
  /\ request[s] = None
  /\ q.op \in Ops
  /\ q.expected < MaxRevision
  /\ request' = [request EXCEPT ![s] = q]
  /\ UNCHANGED <<project, participant, organization, assignment>>

Call(op, a, p) ==
  [op |-> op, actor |-> a, project |-> p,
   session |-> IF a = Operator THEN 0 ELSE assignment[a].session,
   expected |-> project[p].revision, status |-> project[p].status,
   person |-> None, entry |-> None, holder |-> None,
   org |-> None, orgs |-> {}, target |-> None]

Open(p) == project[p].status # "CLOSED"

Linked(p, o) == project[p].linked[o] = "ACTIVE"

ActiveIn(p, o) == Linked(p, o) /\ organization[o] = "ACTIVE"

\* assertActorScope and assertActiveManagerMembership.
InScope(a, p, o) ==
  a \in Manager =>
    /\ project[p].status = "PRE_REGISTRATION"
    /\ o \in assignment[a].orgs /\ ActiveIn(p, o)

\* A new participant gets an id of its own.
Fresh(x) ==
  /\ participant[x] = None
  /\ \A s \in Slot : request[s] # None => request[s].person # x

ChangeProjectStatus(s, p) ==
  \E to \in Status :
    /\ <<project[p].status, to>> \in {<<"PRE_REGISTRATION", "IN_PROGRESS">>,
         <<"IN_PROGRESS", "CLOSED">>, <<"CLOSED", "IN_PROGRESS">>}
    /\ Begin(s, [Call("TRANSITION", Operator, p) EXCEPT !.target = to])

\* One organization (which must not be linked already) or, in bulk, several.
AddProjectOrganizations(s, p) ==
  \E os \in SUBSET Org \ {{}} :
    /\ Open(p)
    /\ \A o \in os : os = {o} => ~Linked(p, o)
    /\ Begin(s, [Call("ADD_ORGS", Operator, p) EXCEPT !.orgs = os])

ExcludeProjectOrganization(s, p, o) ==
  /\ Open(p)
  /\ Linked(p, o) /\ organization[o] # "DELETED"
  /\ Begin(s, [Call("EXCLUDE_ORG", Operator, p) EXCEPT !.org = o])

AddRosterEntry(s, a, p, x, o) ==
  LET existing == project[p].roster[x]
      home     == IF existing = None THEN o ELSE existing.org
  IN
  /\ Open(p)
  /\ participant[x] # None
  /\ a \in Manager => participant[x].org = o
  /\ existing # None => existing.status = "CANCELLED"
  /\ InScope(a, p, home) /\ InScope(a, p, o)
  /\ existing = None => ActiveIn(p, home)
  /\ Begin(s, [Call("ADD_ENTRY", a, p) EXCEPT
       !.person = x, !.org = o, !.entry = existing, !.holder = participant[x]])

UpdateRosterEntry(s, a, p, x) ==
  LET entry == project[p].roster[x] IN
  /\ Open(p)
  /\ entry # None
  /\ InScope(a, p, entry.org)
  /\ organization[entry.org] = "ACTIVE"
  /\ \E to \in {"ACTIVE", "CANCELLED"} \ {entry.status} :
       Begin(s, [Call("SET_ENTRY", a, p) EXCEPT
         !.person = x, !.entry = entry, !.target = to])

CreateParticipant(s, a, p, x, o) ==
  /\ Open(p)
  /\ Fresh(x)
  /\ InScope(a, p, o) /\ ActiveIn(p, o)
  /\ Begin(s, [Call("CREATE_PARTICIPANT", a, p) EXCEPT !.person = x, !.org = o])

\* The organization a patch moves to: the one in the body, or the one read.
NextOrg(org, holder) == IF org = Keep THEN holder.org ELSE org

UpdateProjectParticipant(s, a, p, x) ==
  LET entry  == project[p].roster[x]
      holder == participant[x]
  IN
  /\ Open(p)
  /\ entry # None
  /\ organization[holder.org] = "ACTIVE"
  /\ InScope(a, p, entry.org)
  /\ a \in Manager => holder.org \in assignment[a].orgs
  /\ \E org \in Org \cup {Keep} :
       LET next == NextOrg(org, holder) IN
       /\ a \in Manager => next = holder.org
       /\ next # holder.org => ActiveIn(p, next)
       /\ Begin(s, [Call("UPDATE_PARTICIPANT", a, p) EXCEPT
            !.person = x, !.org = org, !.entry = entry, !.holder = holder])

-----------------------------------------------------------------------------
(* The reads and checks of the corrections of a closed project. *)

AddExistingParticipantToClosedProject(s, p, x, o) ==
  LET existing == project[p].roster[x] IN
  /\ ~Open(p)
  /\ participant[x] # None
  /\ Linked(p, o)
  /\ existing # None => existing.status = "CANCELLED"
  /\ Begin(s, [Call("FIX_ADD", Operator, p) EXCEPT
       !.person = x, !.org = o, !.entry = existing, !.holder = participant[x]])

CreateClosedProjectParticipantAndRoster(s, p, x, o) ==
  /\ ~Open(p)
  /\ Fresh(x)
  /\ Linked(p, o)
  /\ Begin(s, [Call("FIX_CREATE", Operator, p) EXCEPT !.person = x, !.org = o])

PatchClosedProjectRoster(s, p, x) ==
  LET entry == project[p].roster[x] IN
  /\ ~Open(p)
  /\ entry # None
  /\ \E org \in Org \cup {Keep}, to \in {"ACTIVE", "CANCELLED", Keep} :
       /\ Linked(p, NextOrg(org, entry))
       /\ Begin(s, [Call("FIX_PATCH", Operator, p) EXCEPT
            !.person = x, !.entry = entry, !.org = org, !.target = to])

CorrectClosedProjectOrganizations(s, p) ==
  \E os \in SUBSET Org \ {{}} :
    /\ ~Open(p)
    /\ \A o \in os : os = {o} => ~Linked(p, o)
    /\ Begin(s, [Call("FIX_LINK", Operator, p) EXCEPT !.orgs = os])

ExcludeClosedProjectOrganization(s, p, o) ==
  /\ ~Open(p)
  /\ Linked(p, o)
  /\ Begin(s, [Call("FIX_EXCLUDE", Operator, p) EXCEPT !.org = o])

-----------------------------------------------------------------------------
(* The guards, evaluated on the tables as the batch finds them. *)

\* rosterGuard, projectParticipantGuard: the session still holds its
\* session_version, which every change of assignments moves, and a manager
\* still has the organization in scope.  TrustedScope believes the checks
\* made on arrival (for the mutation runs).
TrustedScope(q, o) == TRUE
Scoped(q, o) ==
  /\ q.actor \in Manager => assignment[q.actor].session = q.session
  /\ InScope(q.actor, q.project, o)

\* The entry is still of the revision read, or still missing.
EntryUnmoved(q) ==
  LET entry == project[q.project].roster[q.person] IN
  IF q.entry = None THEN entry = None
                    ELSE entry # None /\ entry.revision = q.entry.revision

HolderUnmoved(q) == participant[q.person].revision = q.holder.revision

\* What each operation requires in the project r besides the revision.  An
\* entry that comes back stays in its organization, which the project may
\* have excluded.
AddEntryGuard(r, q) ==
  LET home == IF q.entry = None THEN q.org ELSE q.entry.org IN
  /\ EntryUnmoved(q) /\ HolderUnmoved(q)
  /\ q.entry # None => r.roster[q.person].status = "CANCELLED"
  /\ Scoped(q, home) /\ Scoped(q, q.org)
  /\ organization[home] = "ACTIVE"
  /\ q.entry = None => Linked(q.project, home)
  /\ q.actor \in Manager => participant[q.person].org = q.org

SetEntryGuard(r, q) ==
  /\ EntryUnmoved(q) /\ r.roster[q.person].status = q.entry.status
  /\ Scoped(q, q.entry.org) /\ organization[q.entry.org] = "ACTIVE"

CreateGuard(q) == Scoped(q, q.org) /\ ActiveIn(q.project, q.org)

\* membershipPredicate asks for a link only where the organization changes.
UpdateGuard(r, q) ==
  LET next == NextOrg(q.org, q.holder) IN
  /\ HolderUnmoved(q) /\ r.roster[q.person] # None
  /\ organization[q.holder.org] = "ACTIVE"
  /\ Scoped(q, q.entry.org)
  /\ Scoped(q, participant[q.person].org) /\ Scoped(q, r.roster[q.person].org)
  /\ next # q.holder.org => ActiveIn(q.project, next)

AddOrganizationsGuard(r, q) ==
  /\ r.status # "CLOSED"
  /\ \A o \in q.orgs : organization[o] = "ACTIVE" /\ ~Linked(q.project, o)

ExcludeGuard(r, q) ==
  r.status # "CLOSED" /\ Linked(q.project, q.org) /\ organization[q.org] # "DELETED"

OrdinaryGuard(r, q) ==
  \/ q.op = "TRANSITION"         /\ r.status = q.status
  \/ q.op = "ADD_ORGS"           /\ AddOrganizationsGuard(r, q)
  \/ q.op = "EXCLUDE_ORG"        /\ ExcludeGuard(r, q)
  \/ q.op = "ADD_ENTRY"          /\ r.status = q.status /\ AddEntryGuard(r, q)
  \/ q.op = "SET_ENTRY"          /\ r.status = q.status /\ SetEntryGuard(r, q)
  \/ q.op = "CREATE_PARTICIPANT" /\ r.status = q.status /\ CreateGuard(q)
  \/ q.op = "UPDATE_PARTICIPANT" /\ r.status = q.status /\ UpdateGuard(r, q)

\* The corrections ignore the state of the organizations.
CorrectAddGuard(r, q) ==
  /\ Linked(q.project, q.org)
  /\ HolderUnmoved(q) /\ EntryUnmoved(q)
  /\ q.entry # None => r.roster[q.person].status = "CANCELLED"

CorrectEntryGuard(q) ==
  EntryUnmoved(q) /\ Linked(q.project, NextOrg(q.org, q.entry))

\* createClosedCorrectionGuard.
CorrectionGuard(r, q) ==
  /\ r.status = "CLOSED"
  /\ \/ q.op = "FIX_ADD"   /\ CorrectAddGuard(r, q)
     \/ q.op = "FIX_PATCH" /\ CorrectEntryGuard(q)
     \/ q.op \in {"FIX_CREATE", "FIX_EXCLUDE"} /\ Linked(q.project, q.org)
     \/ q.op = "FIX_LINK"  /\ \A o \in q.orgs : ~Linked(q.project, o)

Guard(q) ==
  LET r == project[q.project] IN
  r.revision = q.expected /\ (OrdinaryGuard(r, q) \/ CorrectionGuard(r, q))

-----------------------------------------------------------------------------
(* What the batches write. *)

\* A pre-registered entry, counted as expected if the project starts now.
Expectable(entry) ==
  entry # None /\ entry.source = "PRE_REGISTRATION" /\ entry.status = "ACTIVE"

Count(r, o, Counted(_)) ==
  Cardinality({x \in Person :
    r.roster[x] # None /\ r.roster[x].org = o /\ Counted(r.roster[x])})

\* expectedSnapshotStatement: one count per linked organization and per
\* organization of an expectable entry.  SnapshotOfLinked leaves out the
\* second (for the mutation runs).
SnapshotOfLinked(r) ==
  [o \in Org |-> IF r.snapshot[o] = None /\ r.linked[o] = "ACTIVE"
                 THEN Count(r, o, Expectable) ELSE r.snapshot[o]]
Snapshot(r) ==
  [o \in Org |->
     IF r.snapshot[o] = None
        /\ (r.linked[o] = "ACTIVE" \/ Count(r, o, Expectable) > 0)
     THEN Count(r, o, Expectable) ELSE r.snapshot[o]]

\* Only the first start takes the snapshot.  StartsAgain takes it on
\* reopening too (for the mutation runs).
StartsAgain(q) == q.target = "IN_PROGRESS"
Starts(q) == q.status = "PRE_REGISTRATION" /\ q.target = "IN_PROGRESS"

Transitioned(r, q) ==
  IF Starts(q)
  THEN [r EXCEPT !.status = q.target, !.snapshot = Snapshot(r),
                 !.roster = [x \in Person |->
                   IF Expectable(@[x]) THEN [@[x] EXCEPT !.expected = TRUE] ELSE @[x]]]
  ELSE [r EXCEPT !.status = q.target]

Relinked(r, os) ==
  [r EXCEPT !.linked = [o \in Org |-> IF o \in os THEN "ACTIVE" ELSE @[o]]]

\* businessHistoryPredicate.  ActiveHistory overlooks cancelled entries (for
\* the mutation runs).
ActiveHistory(r, o) ==
  \/ \E x \in Person : r.roster[x] # None /\ r.roster[x].org = o
                                          /\ r.roster[x].status = "ACTIVE"
  \/ r.snapshot[o] # None
HasHistory(r, o) ==
  \/ \E x \in Person : r.roster[x] # None /\ r.roster[x].org = o
  \/ r.snapshot[o] # None

\* An entry that comes back after the start without having been expected
\* counts as added.  SameSource forgets that (for the mutation runs).
SameSource(entry, status) == entry.source
NextSource(entry, status) ==
  IF status = "IN_PROGRESS" /\ ~entry.expected THEN "IN_PROGRESS" ELSE entry.source

\* The source of a new entry.  StatusItself is not one of the two sources
\* after the close (for the mutation runs).
StatusItself(status) == status
SourceIn(status) ==
  IF status = "PRE_REGISTRATION" THEN "PRE_REGISTRATION" ELSE "IN_PROGRESS"

NewEntry(q) ==
  [org |-> q.org, status |-> "ACTIVE", expected |-> FALSE, revision |-> 0,
   source |-> SourceIn(q.status)]

\* A status change of an entry before the close; cancelling keeps the source.
Switched(q, to) ==
  [q.entry EXCEPT !.status = to, !.revision = @ + 1,
     !.source = IF to = "ACTIVE" THEN NextSource(q.entry, q.status) ELSE @]

\* The entry of q.person.
EntryWritten(q) ==
  CASE q.op \in {"ADD_ENTRY", "FIX_ADD"} /\ q.entry = None -> NewEntry(q)
    [] q.op \in {"CREATE_PARTICIPANT", "FIX_CREATE"} -> NewEntry(q)
    [] q.op = "ADD_ENTRY" /\ q.entry # None -> Switched(q, "ACTIVE")
    [] q.op = "SET_ENTRY" -> Switched(q, q.target)
    [] q.op = "UPDATE_PARTICIPANT" ->
         [project[q.project].roster[q.person] EXCEPT
            !.org = NextOrg(q.org, q.holder), !.revision = @ + 1]
    [] q.op = "FIX_ADD" /\ q.entry # None ->
         [q.entry EXCEPT !.org = q.org, !.status = "ACTIVE", !.revision = @ + 1]
    [] q.op = "FIX_PATCH" ->
         [q.entry EXCEPT !.org = NextOrg(q.org, q.entry), !.revision = @ + 1,
            !.status = IF q.target = Keep THEN @ ELSE q.target]

Effect(q) ==
  LET r == project[q.project] IN
  CASE q.op = "TRANSITION" -> Transitioned(r, q)
    [] q.op \in {"ADD_ORGS", "FIX_LINK"} -> Relinked(r, q.orgs)
    [] q.op = "EXCLUDE_ORG" ->
         [r EXCEPT !.linked[q.org] = IF HasHistory(r, q.org) THEN "INACTIVE" ELSE "NONE"]
    [] q.op = "FIX_EXCLUDE" -> [r EXCEPT !.linked[q.org] = "INACTIVE"]
    [] OTHER -> [r EXCEPT !.roster[q.person] = EntryWritten(q)]

ParticipantEffect(q) ==
  CASE q.op \in {"CREATE_PARTICIPANT", "FIX_CREATE"} ->
         [participant EXCEPT ![q.person] = [org |-> q.org, revision |-> 0]]
    [] q.op = "ADD_ENTRY" /\ q.entry = None ->
         [participant EXCEPT ![q.person] = Moved(@, q.org)]
    [] q.op = "UPDATE_PARTICIPANT" ->
         [participant EXCEPT ![q.person] = Updated(@, NextOrg(q.org, q.holder))]
    [] OTHER -> participant

Commit(s) ==
  LET q == request[s] IN
  /\ q # None
  /\ Guard(q)
  /\ project' = [project EXCEPT ![q.project] =
       [Effect(q) EXCEPT !.revision = @ + 1, !.corrected = @ \/ q.op \in Corrections]]
  /\ participant' = ParticipantEffect(q)
  /\ request' = [request EXCEPT ![s] = None]
  /\ UNCHANGED <<organization, assignment>>

\* A failed guard rolls the batch back.
Fail(s) ==
  /\ request[s] # None
  /\ ~Guard(request[s])
  /\ request' = [request EXCEPT ![s] = None]
  /\ UNCHANGED <<project, participant, organization, assignment>>

-----------------------------------------------------------------------------
ProjectRequest(s, p) ==
  \/ ChangeProjectStatus(s, p) \/ AddProjectOrganizations(s, p)
  \/ CorrectClosedProjectOrganizations(s, p)
  \/ \E o \in Org :
       ExcludeProjectOrganization(s, p, o) \/ ExcludeClosedProjectOrganization(s, p, o)

RosterRequest(s, p, x) ==
  \/ PatchClosedProjectRoster(s, p, x)
  \/ \E o \in Org :
       \/ AddExistingParticipantToClosedProject(s, p, x, o)
       \/ CreateClosedProjectParticipantAndRoster(s, p, x, o)
  \/ \E a \in Actor :
       \/ UpdateRosterEntry(s, a, p, x) \/ UpdateProjectParticipant(s, a, p, x)
       \/ \E o \in Org : AddRosterEntry(s, a, p, x, o) \/ CreateParticipant(s, a, p, x, o)

Next ==
  \/ \E o \in Org : SetOrganization(o) \/ \E m \in Manager : SetAssignment(m, o)
  \/ \E x \in Person : MoveElsewhere(x)
  \/ \E p \in Project : AutoClose(p)
  \/ \E s \in Slot :
       \/ Commit(s) \/ Fail(s)
       \/ \E p \in Project :
            ProjectRequest(s, p) \/ \E x \in Person : RosterRequest(s, p, x)

Spec == Init /\ [][Next]_vars

-----------------------------------------------------------------------------
(* getSummary and calculateProjectSummary *)

Added(e)       == e.source = "IN_PROGRESS" /\ e.status = "ACTIVE"
Cancelled(e)   == e.source = "PRE_REGISTRATION" /\ e.status = "CANCELLED" /\ e.expected
Attending(e)   == e.status = "ACTIVE"

Expected(r, o) ==
  IF r.status = "PRE_REGISTRATION" THEN Count(r, o, Expectable)
  ELSE IF r.snapshot[o] = None THEN 0 ELSE r.snapshot[o]

\* shouldIncludeProjectSummaryOrganization.
Shown(p, o) ==
  LET r == project[p] IN
  \/ ActiveIn(p, o)
  \/ Expected(r, o) # 0
  \/ Count(r, o, Added) # 0 \/ Count(r, o, Cancelled) # 0
  \/ Count(r, o, Attending) # 0

\* The query joins the organizations that have a link row.
SummaryRows(p) == {o \in Org : project[p].linked[o] # "NONE" /\ Shown(p, o)}

\* A figure per organization, summed over the organizations shown.
Total(p, figure) == SumFunctionOnSet(figure, SummaryRows(p))

ExpectedTotal(p)  == Total(p, [o \in Org |-> Expected(project[p], o)])
AddedTotal(p)     == Total(p, [o \in Org |-> Count(project[p], o, Added)])
CancelledTotal(p) == Total(p, [o \in Org |-> Count(project[p], o, Cancelled)])
FinalTotal(p)     == Total(p, [o \in Org |-> Count(project[p], o, Attending)])

-----------------------------------------------------------------------------
(* Properties *)

Entries(r) == {x \in Person : r.roster[x] # None}

\* Whenever the guard of a request would let its batch through, the entry
\* and the participant are still what the request read: values merged from
\* these reads overwrite nothing, although participants belong to no project
\* and other projects move them.
ReadsPinned ==
  \A s \in Slot :
    LET q == request[s] IN
    q # None /\ Guard(q) =>
      /\ project[q.project].status = q.status
      /\ q.person # None /\ q.op \notin {"CREATE_PARTICIPANT", "FIX_CREATE"} =>
           project[q.project].roster[q.person] = q.entry
      /\ q.holder # None => participant[q.person] = q.holder

\* A manager's request changes entries and participants only while the
\* project is in pre-registration, and only from and to organizations that
\* the manager is assigned to at that moment and that are active, there and
\* in the project, however the operators interfere.
ManagersInScope ==
  [][\A s \in Slot :
       LET q == request[s]
           x == q.person
           touched == {project[q.project].roster[x], project'[q.project].roster[x]}
             \cup IF participant' = participant THEN {}
                  ELSE {participant[x], participant'[x]}
       IN
       q # None /\ request'[s] = None /\ q.actor \in Manager
         /\ project'[q.project] # project[q.project] =>
           /\ project[q.project].status = "PRE_REGISTRATION"
           /\ \A row \in touched \ {None} :
                row.org \in assignment[q.actor].orgs /\ ActiveIn(q.project, row.org)]_vars

\* Everyone who attends is counted in the row of some organization, whatever
\* has been excluded, deactivated or deleted since.  Holds for a project
\* whose participants no other project and no correction has moved.
EveryoneCounted ==
  \A p \in Project :
    ~project[p].corrected =>
    FinalTotal(p) = Cardinality({x \in Entries(project[p]) :
                                   Attending(project[p].roster[x])})

\* Once the start has recorded who was expected, the totals add up, through
\* moves, cancellations and comebacks: attending = expected + added -
\* cancelled.  A project that the auto-close ends before its start and that
\* is reopened has no such record and no such sum.
SummaryAddsUp ==
  \A p \in Project :
    ~project[p].corrected /\ (\E o \in Org : project[p].snapshot[o] # None) =>
      FinalTotal(p) + CancelledTotal(p) = ExpectedTotal(p) + AddedTotal(p)

\* After the start neither the expected counts nor who was expected change
\* any more, whatever is linked, excluded, corrected, closed or reopened.
ExpectedFrozen ==
  [][\A p \in Project :
       project[p].status # "PRE_REGISTRATION" =>
         /\ project'[p].snapshot = project[p].snapshot
         /\ \A x \in Person :
              project'[p].roster[x] # None =>
                project'[p].roster[x].expected =
                  (project[p].roster[x] # None /\ project[p].roster[x].expected)]_vars

\* The counts of the snapshot and the flags on the entries, written by two
\* statements, agree for good: as many are expected as entries are flagged.
SnapshotCountsFlags ==
  \A p \in Project :
    SumFunction([o \in Org |-> IF project[p].snapshot[o] = None THEN 0
                               ELSE project[p].snapshot[o]])
      = Cardinality({x \in Entries(project[p]) : project[p].roster[x].expected})

\* "The participant's new organization must be an active organization of the
\* project": an entry is never in an organization the project has no row for.
RosterOrganizationLinked ==
  \A p \in Project : \A x \in Entries(project[p]) :
    project[p].linked[project[p].roster[x].org] # "NONE"
=============================================================================
