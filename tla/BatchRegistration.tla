--------------------------- MODULE BatchRegistration ---------------------------
(***************************************************************************)
(* Many participants at once: the bulk form and the Excel import, and      *)
(* their versions that correct a closed project.                           *)
(*                                                                         *)
(* Both decide from the names of an organization's participants: the bulk  *)
(* form asks for confirmation of a name that is there already, the import  *)
(* takes the participant of that name instead of creating one.  The        *)
(* participants belong to no project, so the revision of this project does *)
(* not protect that decision; the batch compares the participants of the   *)
(* organization with those the handler has read.                           *)
(*                                                                         *)
(* One project in detail; the handlers of the others appear by what they   *)
(* do to participants (UpdateParticipant, CreateElsewhere).  A name is a   *)
(* canonical name.  Managers, roles, grades and sources are left out.      *)
(***************************************************************************)
EXTENDS Naturals, FiniteSetsExt

CONSTANTS
  Person, Name, Org,
  Slot,         \* concurrently running handlers
  None,         \* a row that does not exist, an idle slot
  Modes,        \* the kinds of requests clients send
  Moves,        \* whether participants change their organization
  Masters,      \* whether organizations become unusable and usable again
  BatchSize,    \* bound: rows of a request (30 in the form, 130 in a file)
  MaxRevision,  \* bound: no change starts at a project of this revision
  MaxUpdates    \* bound: the highest revision of a participant

Ordinary    == {"BULK", "IMPORT"}
Corrections == {"FIX_BULK", "FIX_IMPORT"}

ASSUME BatchConstants ==
  /\ Modes \subseteq Ordinary \cup Corrections
  /\ Moves \in BOOLEAN /\ Masters \in BOOLEAN
  /\ BatchSize \in Nat \ {0} /\ MaxRevision \in Nat /\ MaxUpdates \in Nat
  /\ IsFiniteSet(Person)

Status      == {"PRE_REGISTRATION", "IN_PROGRESS", "CLOSED"}
Participant == [name: Name, org: Org, revision: Nat]
Entry       == [name: Name, org: Org, status: {"ACTIVE", "CANCELLED"}]

\* ResolvedImportRow.  A created row brings the id of its participant along.
Row == [person: Person, name: Name, org: Org, revision: Nat,
        created: BOOLEAN, before: Entry \cup {None}]

Request == [mode: Ordinary \cup Corrections, expected: Nat, status: Status,
            confirmed: BOOLEAN, rows: SUBSET Row,
            seen: [Person -> Participant \cup {None}]]

\* A row is not the missing row.
ASSUME RowsExist == None \notin Participant \cup Entry \cup Request

VARIABLES
  project,      \* status and revision of the project
  linked,       \* organizations with an active link to the project
  usable,       \* organizations that are active and not deleted
  roster,       \* entries of the project
  participant,  \* participants of all projects
  request       \* the request in each slot, between its reads and its batch

vars == <<project, linked, usable, roster, participant, request>>

TypeOK ==
  /\ project \in [status: Status, revision: Nat]
  /\ linked \subseteq Org /\ usable \subseteq Org
  /\ roster \in [Person -> Entry \cup {None}]
  /\ participant \in [Person -> Participant \cup {None}]
  /\ request \in [Slot -> Request \cup {None}]

\* A project to which all organizations have been linked in one request, in
\* the registration or by a correction after the close.
Init ==
  /\ project \in [status: {"PRE_REGISTRATION", "CLOSED"}, revision: {1}]
  /\ linked = Org /\ usable = Org
  /\ roster = [x \in Person |-> None]
  /\ participant = [x \in Person |-> None]
  /\ request = [s \in Slot |-> None]

\* A new participant gets an id of its own.
Fresh(x) ==
  /\ participant[x] = None
  /\ \A s \in Slot : request[s] # None => x \notin {row.person : row \in request[s].rows}

-----------------------------------------------------------------------------
(* What the other handlers do. *)

\* A batch that forgets the revision (for the mutation runs).
NotBumped(p) == p
Bumped(p) == [p EXCEPT !.revision = @ + 1]

Changes == project.revision < MaxRevision /\ project' = Bumped(project)

ChangeStatus ==
  /\ project.revision < MaxRevision
  /\ \E to \in Status :
       /\ <<project.status, to>> \in {<<"PRE_REGISTRATION", "IN_PROGRESS">>,
            <<"PRE_REGISTRATION", "CLOSED">>, <<"IN_PROGRESS", "CLOSED">>,
            <<"CLOSED", "IN_PROGRESS">>}
       /\ project' = Bumped([project EXCEPT !.status = to])
  /\ UNCHANGED <<linked, usable, roster, participant, request>>

\* Excluding an organization and adding it again; corrections ignore whether
\* it is usable.
ChangeLink(o) ==
  /\ Changes
  /\ o \notin linked => o \in usable \/ project.status = "CLOSED"
  /\ linked' = IF o \in linked THEN linked \ {o} ELSE linked \cup {o}
  /\ UNCHANGED <<usable, roster, participant, request>>

SetOrganization(o) ==
  /\ Masters
  /\ usable' = IF o \in usable THEN usable \ {o} ELSE usable \cup {o}
  /\ UNCHANGED <<project, linked, roster, participant, request>>

\* updateRosterEntry, and the status of patchClosedProjectRoster.
SwitchEntry(x) ==
  /\ Changes
  /\ roster[x] # None
  /\ project.status # "CLOSED" => roster[x].org \in usable
  /\ roster' = [roster EXCEPT ![x].status =
                  IF @ = "ACTIVE" THEN "CANCELLED" ELSE "ACTIVE"]
  /\ UNCHANGED <<linked, usable, participant, request>>

CreateElsewhere(x) ==
  /\ Fresh(x)
  /\ \E n \in Name, o \in usable :
       participant' = [participant EXCEPT ![x] = [name |-> n, org |-> o, revision |-> 0]]
  /\ UNCHANGED <<project, linked, usable, roster, request>>

\* updateProjectParticipant, here (then the entry moves along) or in another
\* project.
UpdateParticipant(x) ==
  /\ participant[x] # None
  /\ participant[x].revision < MaxUpdates
  /\ participant[x].org \in usable
  /\ \E n \in Name, o \in Org :
       /\ o # participant[x].org => Moves /\ o \in usable
       /\ participant' = [participant EXCEPT
            ![x] = [name |-> n, org |-> o, revision |-> @.revision + 1]]
       /\ \/ UNCHANGED <<project, roster>>
          \/ /\ Changes
             /\ project.status # "CLOSED"
             /\ roster[x] # None
             /\ o # participant[x].org => o \in linked
             /\ roster' = [roster EXCEPT ![x].name = n, ![x].org = o]
  /\ UNCHANGED <<linked, usable, request>>

-----------------------------------------------------------------------------
(* The reads, the checks and the preparation of a request. *)

Members(people, o)  == {x \in Person : people[x] # None /\ people[x].org = o}
Named(people, o, n) == {x \in Members(people, o) : people[x].name = n}

\* The status of the project a mode is for.
Admitted(mode, status) ==
  CASE mode = "BULK"   -> status # "CLOSED"
    [] mode = "IMPORT" -> status = "PRE_REGISTRATION"
    [] OTHER           -> status = "CLOSED"

\* Corrections take organizations that are inactive or deleted.
Open(mode, o) == o \in linked /\ (mode \in Ordinary => o \in usable)

Ready(s, mode) ==
  /\ request[s] = None
  /\ project.revision < MaxRevision
  /\ Admitted(mode, project.status)

Begin(s, mode, confirmed, rows) ==
  /\ \A row \in rows : Open(mode, row.org)
  /\ request' = [request EXCEPT ![s] =
       [mode |-> mode, expected |-> project.revision, status |-> project.status,
        confirmed |-> confirmed, rows |-> rows,
        seen |-> [x \in Person |->
          IF ~confirmed /\ \E row \in rows : x \in Members(participant, row.org)
          THEN participant[x] ELSE None]]]
  /\ UNCHANGED <<project, linked, usable, roster, participant>>

NewRow(x, n, o) ==
  [person |-> x, name |-> n, org |-> o, revision |-> 0, created |-> TRUE,
   before |-> None]

\* A row for the participant of that name.
MatchedRow(x) ==
  [person |-> x, name |-> participant[x].name, org |-> participant[x].org,
   revision |-> participant[x].revision, created |-> FALSE, before |-> roster[x]]

\* collectDuplicates: names of the request twice or in the organization.
Duplicates(rows) ==
  {row \in rows : \/ Named(participant, row.org, row.name) # {}
                  \/ \E other \in rows \ {row} : other.name = row.name}

BulkRequest(s, mode, o) ==
  /\ mode \in {"BULK", "FIX_BULK"}
  /\ Ready(s, mode)
  /\ \E xs \in SUBSET {x \in Person : Fresh(x)} \ {{}} :
    /\ Cardinality(xs) <= BatchSize
    /\ \E name \in [xs -> Name], confirmed \in BOOLEAN :
      LET rows == {NewRow(x, name[x], o) : x \in xs} IN
      /\ Duplicates(rows) # {} => confirmed
      /\ Begin(s, mode, confirmed, rows)

\* rosterUpsert of a row on the entry that is there: the two conflict
\* clauses.  Only a correction moves the entry.
Upserted(mode, entry, row) ==
  IF entry = None \/ mode = "FIX_IMPORT"
  THEN [name |-> row.name, org |-> row.org, status |-> "ACTIVE"]
  ELSE [entry EXCEPT !.status = "ACTIVE"]

\* shouldMutateRoster; AnyRow takes every row for a change (for the mutation
\* runs).
AnyRow(mode, row) == TRUE
Mutates(mode, row) == Upserted(mode, row.before, row) # row.before

\* A file has one row per name and organization.  resolvedParticipantId
\* chooses among several candidates.
ImportRequest(s, mode) ==
  /\ mode \in {"IMPORT", "FIX_IMPORT"}
  /\ Ready(s, mode)
  /\ \E lines \in SUBSET (Name \X Org) \ {{}} :
    /\ Cardinality(lines) <= BatchSize
    /\ \E pick \in [lines -> Person] :
      LET Candidates(l) == Named(participant, l[2], l[1])
          rows == {IF Candidates(l) = {} THEN NewRow(pick[l], l[1], l[2])
                                         ELSE MatchedRow(pick[l]) : l \in lines}
      IN
      /\ \A l \in lines : IF Candidates(l) = {} THEN Fresh(pick[l])
                                                ELSE pick[l] \in Candidates(l)
      /\ \A l, k \in lines : l # k => pick[l] # pick[k]
      /\ mode = "FIX_IMPORT" => \E row \in rows : Mutates(mode, row)
      /\ Begin(s, mode, FALSE, rows)

-----------------------------------------------------------------------------
(* The batch. *)

Revisions(people, o) == SumFunction([x \in Members(people, o) |-> people[x].revision])

\* How the ordinary batches recognise the participants they have read: as
\* many, and as much revised ...  SameNumber only counts (for the mutation
\* runs).
SameNumber(q, o) ==
  Cardinality(Members(participant, o)) = Cardinality(Members(q.seen, o))
SameCounts(q, o) ==
  /\ Cardinality(Members(participant, o)) = Cardinality(Members(q.seen, o))
  /\ Revisions(participant, o) = Revisions(q.seen, o)

\* ... and the corrections: the same ids, names and revisions.
SameFingerprint(q, o) ==
  /\ Members(participant, o) = Members(q.seen, o)
  /\ \A x \in Members(participant, o) : participant[x] = q.seen[x]

SameMembers(q, o) ==
  IF q.mode \in Ordinary THEN SameCounts(q, o) ELSE SameFingerprint(q, o)

\* What the batch requires of the participant of a row that creates none.
Unmoved(row) ==
  participant[row.person] =
    [name |-> row.name, org |-> row.org, revision |-> row.revision]

Guard(q) ==
  /\ project.revision = q.expected
  /\ project.status = q.status
  /\ \A row \in q.rows :
       /\ Open(q.mode, row.org)
       /\ q.confirmed \/ SameMembers(q, row.org)
       /\ row.created \/ Unmoved(row)

Commit(s) ==
  LET q == request[s]
      RowOf(x) == CHOOSE row \in q.rows : row.person = x
      people   == {row.person : row \in q.rows}
  IN
  /\ q # None
  /\ Guard(q)
  /\ project' = Bumped(project)
  /\ participant' = [x \in Person |->
       IF x \in people /\ RowOf(x).created
       THEN [name |-> RowOf(x).name, org |-> RowOf(x).org, revision |-> 0]
       ELSE participant[x]]
  /\ roster' = [x \in Person |->
       IF x \in people THEN Upserted(q.mode, roster[x], RowOf(x)) ELSE roster[x]]
  /\ request' = [request EXCEPT ![s] = None]
  /\ UNCHANGED <<linked, usable>>

\* A failed guard, or a NULL organization of an upserted row, rolls the whole
\* batch back.
Fail(s) ==
  /\ request[s] # None
  /\ ~Guard(request[s])
  /\ request' = [request EXCEPT ![s] = None]
  /\ UNCHANGED <<project, linked, usable, roster, participant>>

-----------------------------------------------------------------------------
Next ==
  \/ ChangeStatus
  \/ \E o \in Org : ChangeLink(o) \/ SetOrganization(o)
  \/ \E x \in Person : SwitchEntry(x) \/ CreateElsewhere(x) \/ UpdateParticipant(x)
  \/ \E s \in Slot :
       \/ \E mode \in Modes : ImportRequest(s, mode) \/ \E o \in Org : BulkRequest(s, mode, o)
       \/ Commit(s) \/ Fail(s)

Spec == Init /\ [][Next]_vars

-----------------------------------------------------------------------------
(* Properties *)

\* The batch of the request in slot s takes effect.
Committed(s) ==
  request[s] # None /\ request'[s] = None /\ project' # project

NewNameUnique(row) == Named(participant', row.org, row.name) = {row.person}

\* "If the set the duplicate check rests on has changed, the whole request is
\* cancelled": without confirmation no correction creates a participant under
\* a name that another participant of the organization has at that moment.
\* The ordinary form may, when participants have been exchanged.
CorrectionsUnique ==
  [][\A s \in Slot :
       Committed(s) /\ ~request[s].confirmed /\ request[s].mode \in Corrections =>
         \A row \in request[s].rows : row.created => NewNameUnique(row)]_vars

\* No request does while the participants read are still in the organization:
\* their number and the sum of their revisions, all that the ordinary batches
\* compare, give away whoever was renamed, revised or created meanwhile.
ChangesNoticed ==
  [][\A s \in Slot :
       LET q == request[s] IN
       Committed(s) /\ ~q.confirmed =>
         \A row \in q.rows :
           row.created /\ Members(q.seen, row.org) \subseteq Members(participant, row.org)
             => NewNameUnique(row)]_vars

\* "Nothing can be imported into an inactive organization": an import makes
\* entries active only in organizations with an active link to the project.
ImportIntoActive ==
  [][\A s \in Slot :
       Committed(s) =>
         \A row \in request[s].rows :
           roster'[row.person] # roster[row.person] => roster'[row.person].org \in linked]_vars

\* The entries as the handler has read them, which the audit log gets as what
\* was there before, are what the batch finds.
BeforeRecorded ==
  \A s \in Slot :
    LET q == request[s] IN
    q # None /\ Guard(q) => \A row \in q.rows : roster[row.person] = row.before

\* A correcting import without effect is refused: every one that commits
\* changes the roster, although that was decided before the batch.
CorrectionsChange ==
  [][\A s \in Slot :
       Committed(s) /\ request[s].mode = "FIX_IMPORT" => roster' # roster]_vars
=============================================================================
