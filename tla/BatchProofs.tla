------------------------------ MODULE BatchProofs ------------------------------
(* Proofs about BatchRegistration, for every value of its constants.          *)
EXTENDS BatchRegistration, FunctionSums

\* No row takes a name that was there at the reads or that another row takes.
NamesFree(q) ==
  \A row \in q.rows :
    row.created =>
      /\ Named(q.seen, row.org, row.name) = {}
      /\ \A other \in q.rows \ {row} :
           other.created /\ other.org = row.org => other.name # row.name

\* What a request holds of its own.
Formed(q) ==
  /\ \A row, other \in q.rows : row.person = other.person => row = other
  /\ q.mode = "FIX_IMPORT" => \E row \in q.rows : Mutates(q.mode, row)
  /\ ~q.confirmed => NamesFree(q)

\* What a request has read is what there is, or older; the participants it
\* creates are still missing.
Seen(q) ==
  /\ q.expected <= project.revision
  /\ q.expected = project.revision =>
       \A row \in q.rows : roster[row.person] = row.before
  /\ \A row \in q.rows : row.created => participant[row.person] = None
  /\ \A x \in Person :
       q.seen[x] # None =>
         /\ participant[x] # None
         /\ q.seen[x].revision <= participant[x].revision
         /\ q.seen[x].revision = participant[x].revision => participant[x] = q.seen[x]

Requests ==
  \A s \in Slot : request[s] # None => Formed(request[s]) /\ Seen(request[s])

\* Nobody else uses the id of a participant to be created.
Apart ==
  \A s, t \in Slot :
    s # t /\ request[s] # None /\ request[t] # None =>
      \A row \in request[s].rows, other \in request[t].rows :
        row.created => row.person # other.person

\* An entry has its participant.
Registered == \A x \in Person : roster[x] # None => participant[x] # None

IInv == TypeOK /\ Requests /\ Apart /\ Registered

-----------------------------------------------------------------------------
(* What a step leaves of what others have read.                               *)

\* The id is taken by a request that creates its participant.
CreatedBy(s, x) ==
  /\ request[s] # None /\ request'[s] = None
  /\ \E row \in request[s].rows : row.created /\ row.person = x

ProjectStep ==
  /\ \/ project' = project /\ roster' = roster
     \/ project'.revision > project.revision
  /\ \A x \in Person : roster'[x] # None => roster[x] # None \/ participant'[x] # None

PersonStep(x) ==
  \/ participant'[x] = participant[x]
  \/ /\ participant[x] # None /\ participant'[x] # None
     /\ participant'[x].revision > participant[x].revision
  \/ /\ participant[x] = None /\ participant'[x] # None
     /\ Fresh(x) \/ \E s \in Slot : CreatedBy(s, x)

\* A request that has just been read.
Read(s, q) ==
  /\ q \in Request /\ Formed(q)
  /\ request' = [request EXCEPT ![s] = q]
  /\ UNCHANGED <<project, linked, usable, roster, participant>>
  /\ q.expected = project.revision
  /\ \A row \in q.rows :
       /\ roster[row.person] = row.before
       /\ IF row.created THEN Fresh(row.person) ELSE participant[row.person] # None
  /\ \A x \in Person : q.seen[x] # None => q.seen[x] = participant[x]

SlotStep(s) ==
  request'[s] = request[s] \/ request'[s] = None \/ Read(s, request'[s])

Kept ==
  /\ TypeOK' /\ ProjectStep
  /\ \A x \in Person : PersonStep(x)
  /\ \A s \in Slot : SlotStep(s)

LEMMA BumpedProject ==
  ASSUME TypeOK, NEW to \in Status
  PROVE  /\ Bumped([project EXCEPT !.status = to]) \in [status: Status, revision: Nat]
         /\ Bumped([project EXCEPT !.status = to]).revision > project.revision
         /\ Bumped(project) \in [status: Status, revision: Nat]
         /\ Bumped(project).revision > project.revision
         /\ Bumped(project).status = project.status
<1>. DEFINE n == project.revision + 1
<1>1. n \in Nat /\ n > project.revision
  BY DEF TypeOK
<1>2. /\ Bumped(project) = [project EXCEPT !.revision = n]
      /\ Bumped([project EXCEPT !.status = to]) =
           [project EXCEPT !.status = to, !.revision = n]
  BY DEF Bumped, TypeOK
<1>. HIDE DEF n
<1>. QED
  BY <1>1, <1>2 DEF TypeOK

\* The steps in which no request takes part.
OthersStep ==
  \/ ChangeStatus
  \/ \E o \in Org : ChangeLink(o) \/ SetOrganization(o)
  \/ \E x \in Person : SwitchEntry(x) \/ CreateElsewhere(x) \/ UpdateParticipant(x)

\* No step of another handler changes the roster without moving the revision, or
\* a participant without moving that one's.
LEMMA OthersKeep ==
  ASSUME IInv, OthersStep
  PROVE  Kept
<1>. USE DEF IInv
<1>1. ASSUME request' = request, participant' = participant,
             \A x \in Person : roster'[x] # None => roster[x] # None,
             ProjectStep, TypeOK'
      PROVE  Kept
  BY <1>1 DEF Kept, PersonStep, SlotStep
<1>2. CASE ChangeStatus
  <2>1. PICK to \in Status : project' = Bumped([project EXCEPT !.status = to])
    BY <1>2 DEF ChangeStatus
  <2>2. TypeOK' /\ project'.revision > project.revision
    BY <1>2, <2>1, BumpedProject DEF ChangeStatus, TypeOK
  <2>. QED
    BY <1>1, <1>2, <2>2 DEF ChangeStatus, ProjectStep
<1>3. ASSUME NEW o \in Org, ChangeLink(o)
      PROVE  Kept
  <2>1. project' = Bumped(project)
    BY <1>3 DEF ChangeLink, Changes
  <2>2. TypeOK' /\ project'.revision > project.revision
    BY <1>3, <2>1, BumpedProject DEF ChangeLink, TypeOK
  <2>. QED
    BY <1>1, <1>3, <2>2 DEF ChangeLink, ProjectStep
<1>4. ASSUME NEW o \in Org, SetOrganization(o)
      PROVE  Kept
  BY <1>1, <1>4 DEF SetOrganization, ProjectStep, TypeOK
<1>5. ASSUME NEW x \in Person, SwitchEntry(x)
      PROVE  Kept
  <2>1. project' = Bumped(project)
    BY <1>5 DEF SwitchEntry, Changes
  <2>2. roster' \in [Person -> Entry \cup {None}]
    <3>1. roster[x] \in Entry
      BY <1>5 DEF SwitchEntry, TypeOK
    <3>. DEFINE e == [roster[x] EXCEPT !.status =
                        IF roster[x].status = "ACTIVE" THEN "CANCELLED" ELSE "ACTIVE"]
    <3>2. e \in Entry
      BY <3>1 DEF Entry
    <3>3. roster' = [roster EXCEPT ![x] = e]
      BY <1>5 DEF SwitchEntry
    <3>. HIDE DEF e
    <3>. QED
      BY <3>2, <3>3 DEF TypeOK
  <2>3. \A y \in Person : roster'[y] # None => roster[y] # None
    BY <1>5 DEF SwitchEntry, TypeOK
  <2>4. TypeOK' /\ project'.revision > project.revision
    BY <1>5, <2>1, <2>2, BumpedProject DEF SwitchEntry, TypeOK
  <2>. QED
    BY <1>1, <1>5, <2>3, <2>4 DEF SwitchEntry, ProjectStep
<1>6. ASSUME NEW x \in Person, CreateElsewhere(x)
      PROVE  Kept
  <2>1. PICK n \in Name, o \in usable :
          participant' = [participant EXCEPT ![x] = [name |-> n, org |-> o, revision |-> 0]]
    BY <1>6 DEF CreateElsewhere
  <2>2. [name |-> n, org |-> o, revision |-> 0] \in Participant
    BY DEF TypeOK, Participant
  <2>3. TypeOK'
    BY <1>6, <2>1, <2>2 DEF CreateElsewhere, TypeOK
  <2>4. \A y \in Person : PersonStep(y)
    BY <1>6, <2>1, <2>2, RowsExist DEF CreateElsewhere, PersonStep, TypeOK, Fresh
  <2>. QED
    BY <1>6, <2>3, <2>4 DEF CreateElsewhere, Kept, ProjectStep, SlotStep
<1>7. ASSUME NEW x \in Person, UpdateParticipant(x)
      PROVE  Kept
  <2>. DEFINE rev == participant[x].revision + 1
  <2>1. PICK n \in Name, o \in Org :
          /\ participant' = [participant EXCEPT ![x] = [name |-> n, org |-> o, revision |-> rev]]
          /\ \/ UNCHANGED <<project, roster>>
             \/ /\ Changes
                /\ roster[x] # None
                /\ roster' = [roster EXCEPT ![x].name = n, ![x].org = o]
    BY <1>7 DEF UpdateParticipant
  <2>2. rev \in Nat /\ rev > participant[x].revision
    BY <1>7 DEF UpdateParticipant, TypeOK, Participant
  <2>. HIDE DEF rev
  <2>. DEFINE holder == [name |-> n, org |-> o, revision |-> rev]
  <2>3. holder \in Participant /\ holder.revision = rev
    BY <2>2 DEF Participant
  <2>. HIDE DEF holder
  <2>4. participant' = [participant EXCEPT ![x] = holder]
    BY <2>1 DEF holder
  <2>5. /\ participant' \in [Person -> Participant \cup {None}]
        /\ \A y \in Person : PersonStep(y)
    BY <1>7, <2>2, <2>3, <2>4, RowsExist DEF UpdateParticipant, PersonStep, TypeOK
  <2>6. CASE UNCHANGED <<project, roster>>
    BY <1>7, <2>5, <2>6 DEF UpdateParticipant, Kept, ProjectStep, SlotStep, TypeOK
  <2>7. CASE /\ Changes
             /\ roster[x] # None
             /\ roster' = [roster EXCEPT ![x].name = n, ![x].org = o]
    <3>1. roster[x] \in Entry
      BY <2>7 DEF TypeOK
    <3>. DEFINE e == [roster[x] EXCEPT !.name = n, !.org = o]
    <3>2. e \in Entry
      BY <3>1 DEF Entry
    <3>3. roster' = [roster EXCEPT ![x] = e]
      BY <2>7 DEF TypeOK
    <3>. HIDE DEF e
    <3>4. roster' \in [Person -> Entry \cup {None}]
      BY <3>2, <3>3 DEF TypeOK
    <3>5. \A y \in Person : roster'[y] # None => roster[y] # None
      BY <2>7, <3>3 DEF TypeOK
    <3>6. project' \in [status: Status, revision: Nat] /\ project'.revision > project.revision
      BY <2>7, BumpedProject DEF Changes, TypeOK
    <3>. QED
      BY <1>7, <2>5, <3>4, <3>5, <3>6
         DEF UpdateParticipant, Kept, ProjectStep, SlotStep, TypeOK
  <2>. QED
    BY <2>1, <2>6, <2>7
<1>. QED
  BY <1>2, <1>3, <1>4, <1>5, <1>6, <1>7 DEF OthersStep

-----------------------------------------------------------------------------
(* The reads.                                                                 *)

LEMMA NewRowType ==
  ASSUME NEW x \in Person, NEW n \in Name, NEW o \in Org
  PROVE  LET row == NewRow(x, n, o) IN
         /\ row \in Row /\ row.created /\ row.person = x /\ row.name = n /\ row.org = o
         /\ row.before = None
BY DEF NewRow, Row

LEMMA MatchedRowType ==
  ASSUME TypeOK, NEW x \in Person, participant[x] # None
  PROVE  LET row == MatchedRow(x) IN
         /\ row \in Row /\ ~row.created /\ row.person = x /\ row.before = roster[x]
<1>1. participant[x] \in Participant /\ roster[x] \in Entry \cup {None}
  BY DEF TypeOK
<1>. QED
  BY <1>1 DEF MatchedRow, Row, Participant

\* What a handler begins with is what it has read.
LEMMA BeginReads ==
  ASSUME IInv, NEW s \in Slot, NEW mode \in Ordinary \cup Corrections,
         NEW confirmed \in BOOLEAN, NEW rows \in SUBSET Row,
         Begin(s, mode, confirmed, rows),
         \A row, other \in rows : row.person = other.person => row = other,
         mode = "FIX_IMPORT" => \E row \in rows : Mutates(mode, row),
         ~confirmed =>
           \A row \in rows : row.created =>
             /\ Named(participant, row.org, row.name) = {}
             /\ \A other \in rows \ {row} :
                  other.created /\ other.org = row.org => other.name # row.name,
         \A row \in rows :
           /\ roster[row.person] = row.before
           /\ IF row.created THEN Fresh(row.person) ELSE participant[row.person] # None
  PROVE  Read(s, request'[s])
<1>. DEFINE seen == [x \in Person |->
              IF ~confirmed /\ \E row \in rows : x \in Members(participant, row.org)
              THEN participant[x] ELSE None]
            q == [mode |-> mode, expected |-> project.revision, status |-> project.status,
                  confirmed |-> confirmed, rows |-> rows, seen |-> seen]
<1>1. request' = [request EXCEPT ![s] = q]
  BY DEF Begin
<1>2. seen \in [Person -> Participant \cup {None}]
  BY DEF IInv, TypeOK
<1>3. \A x \in Person : seen[x] # None => seen[x] = participant[x]
  OBVIOUS
<1>. HIDE DEF seen
<1>4. q \in Request
  BY <1>2 DEF Request, IInv, TypeOK
<1>5. \A o, n : Named(seen, o, n) \subseteq Named(participant, o, n)
  BY <1>3 DEF Named, Members
<1>6. Formed(q)
  <2>1. ~confirmed => NamesFree(q)
    BY <1>5 DEF NamesFree
  <2>2. q.mode = mode /\ q.rows = rows /\ q.confirmed = confirmed
    OBVIOUS
  <2>. HIDE DEF q
  <2>. QED
    BY <2>1, <2>2 DEF Formed
<1>7. request'[s] = q
  BY <1>1 DEF IInv, TypeOK
<1>8. q.rows = rows /\ q.seen = seen /\ q.expected = project.revision
  OBVIOUS
<1>9. UNCHANGED <<project, linked, usable, roster, participant>>
  BY DEF Begin
<1>. HIDE DEF q
<1>. QED
  BY <1>1, <1>3, <1>4, <1>6, <1>7, <1>8, <1>9 DEF Read

LEMMA BulkReads ==
  ASSUME IInv, NEW s \in Slot, NEW mode, NEW o \in Org, BulkRequest(s, mode, o)
  PROVE  Read(s, request'[s])
<1>1. PICK xs \in SUBSET {x \in Person : Fresh(x)} :
        \E name \in [xs -> Name], confirmed \in BOOLEAN :
          LET rows == {NewRow(x, name[x], o) : x \in xs} IN
          /\ Duplicates(rows) # {} => confirmed
          /\ Begin(s, mode, confirmed, rows)
  BY DEF BulkRequest
<1>2. PICK name \in [xs -> Name], confirmed \in BOOLEAN :
        LET rows == {NewRow(x, name[x], o) : x \in xs} IN
        /\ Duplicates(rows) # {} => confirmed
        /\ Begin(s, mode, confirmed, rows)
  BY <1>1
<1>. DEFINE rows == {NewRow(x, name[x], o) : x \in xs}
<1>3. \A row \in rows :
        /\ row \in Row /\ row.created /\ row.before = None /\ Fresh(row.person)
        /\ row = NewRow(row.person, name[row.person], o)
  BY NewRowType
<1>4. Duplicates(rows) # {} => confirmed
  BY <1>2
<1>5. Begin(s, mode, confirmed, rows)
  BY <1>2
<1>6. mode \in Ordinary \cup Corrections /\ mode # "FIX_IMPORT"
  BY DEF BulkRequest, Ordinary, Corrections
<1>. HIDE DEF rows
<1>7. \A row \in rows : roster[row.person] = row.before
  BY <1>3 DEF IInv, Registered, Fresh, Row
<1>8. ~confirmed =>
        \A row \in rows : row.created =>
          /\ Named(participant, row.org, row.name) = {}
          /\ \A other \in rows \ {row} :
               other.created /\ other.org = row.org => other.name # row.name
  BY <1>4 DEF Duplicates
<1>. QED
  BY <1>3, <1>5, <1>6, <1>7, <1>8, BeginReads

LEMMA ImportReads ==
  ASSUME IInv, NEW s \in Slot, NEW mode, ImportRequest(s, mode)
  PROVE  Read(s, request'[s])
<1>. DEFINE Candidates(l) == Named(participant, l[2], l[1])
            RowFor(pick, l) == IF Candidates(l) = {} THEN NewRow(pick[l], l[1], l[2])
                                                     ELSE MatchedRow(pick[l])
<1>. DEFINE Given(lines, pick) ==
              LET rows == {RowFor(pick, l) : l \in lines} IN
              /\ \A l \in lines : IF Candidates(l) = {} THEN Fresh(pick[l])
                                                        ELSE pick[l] \in Candidates(l)
              /\ \A l, k \in lines : l # k => pick[l] # pick[k]
              /\ mode = "FIX_IMPORT" => \E row \in rows : Mutates(mode, row)
              /\ Begin(s, mode, FALSE, rows)
<1>0. PICK lines \in SUBSET (Name \X Org) : \E pick \in [lines -> Person] : Given(lines, pick)
  BY DEF ImportRequest
<1>1. PICK pick \in [lines -> Person] : Given(lines, pick)
  BY <1>0
<1>. DEFINE rows == {RowFor(pick, l) : l \in lines}
<1>2. ASSUME NEW l \in lines
      PROVE  LET row == RowFor(pick, l) IN
             /\ row \in Row /\ row.person = pick[l] /\ roster[row.person] = row.before
             /\ IF row.created THEN Fresh(row.person) ELSE participant[row.person] # None
             /\ row.created =>
                  Candidates(l) = {} /\ row.name = l[1] /\ row.org = l[2]
  <2>. DEFINE row == RowFor(pick, l)
  <2>0. l[1] \in Name /\ l[2] \in Org /\ pick[l] \in Person
    OBVIOUS
  <2>1. CASE Candidates(l) = {}
    <3>1. row = NewRow(pick[l], l[1], l[2]) /\ Fresh(pick[l])
      BY <1>1, <2>1
    <3>2. roster[pick[l]] = None
      BY <2>0, <3>1 DEF IInv, Registered, Fresh
    <3>. QED
      BY <2>0, <2>1, <3>1, <3>2, NewRowType
  <2>2. CASE Candidates(l) # {}
    <3>1. row = MatchedRow(pick[l]) /\ pick[l] \in Candidates(l)
      BY <1>1, <2>2
    <3>2. participant[pick[l]] # None
      BY <3>1 DEF Named, Members
    <3>. QED
      BY <2>0, <3>1, <3>2, MatchedRowType DEF IInv
  <2>. QED
    BY <2>1, <2>2
<1>. HIDE DEF RowFor
<1>3. rows \in SUBSET Row
  BY <1>2
<1>4. \A row, other \in rows : row.person = other.person => row = other
  BY <1>1, <1>2
<1>5. \A row \in rows :
        /\ roster[row.person] = row.before
        /\ IF row.created THEN Fresh(row.person) ELSE participant[row.person] # None
  BY <1>2
<1>6. \A row \in rows : row.created =>
        /\ Named(participant, row.org, row.name) = {}
        /\ \A other \in rows \ {row} :
             other.created /\ other.org = row.org => other.name # row.name
  <2>. SUFFICES ASSUME NEW l \in lines, RowFor(pick, l).created
                PROVE  /\ Candidates(l) = {}
                       /\ \A k \in lines :
                            /\ RowFor(pick, k) # RowFor(pick, l) /\ RowFor(pick, k).created
                            /\ RowFor(pick, k).org = RowFor(pick, l).org
                            => RowFor(pick, k).name # RowFor(pick, l).name
    BY <1>2
  <2>1. Candidates(l) = {} /\ RowFor(pick, l).name = l[1] /\ RowFor(pick, l).org = l[2]
    BY <1>2
  <2>2. ASSUME NEW k \in lines, RowFor(pick, k) # RowFor(pick, l), RowFor(pick, k).created,
               RowFor(pick, k).org = RowFor(pick, l).org,
               RowFor(pick, k).name = RowFor(pick, l).name
        PROVE  FALSE
    <3>1. k[1] = l[1] /\ k[2] = l[2]
      BY <1>2, <2>1, <2>2
    <3>2. k = l
      BY <3>1
    <3>. QED
      BY <2>2, <3>2
  <2>. QED
    BY <2>1, <2>2
<1>7. /\ mode = "FIX_IMPORT" => \E row \in rows : Mutates(mode, row)
      /\ Begin(s, mode, FALSE, rows)
  BY <1>1
<1>8. mode \in Ordinary \cup Corrections
  BY DEF ImportRequest, Ordinary, Corrections
<1>. HIDE DEF rows
<1>. QED
  BY <1>3, <1>4, <1>5, <1>6, <1>7, <1>8, BeginReads

\* A request that has been read changes nothing else.
LEMMA ReadKeeps ==
  ASSUME IInv, NEW s \in Slot, Read(s, request'[s])
  PROVE  Kept
<1>1. TypeOK'
  BY DEF IInv, Read, TypeOK
<1>2. \A t \in Slot : SlotStep(t)
  <2>. SUFFICES ASSUME NEW t \in Slot, t # s
                PROVE  request'[t] = request[t]
    BY DEF SlotStep
  <2>. QED
    BY DEF Read, IInv, TypeOK
<1>. QED
  BY <1>1, <1>2 DEF Kept, Read, ProjectStep, PersonStep, IInv, Registered

-----------------------------------------------------------------------------
(* The batch.                                                                 *)

\* When its guard passes, the entries are those a request has read.
LEMMA GuardPins ==
  ASSUME IInv, NEW s \in Slot, request[s] # None, Guard(request[s])
  PROVE  /\ request[s] \in Request /\ Formed(request[s]) /\ Seen(request[s])
         /\ \A row \in request[s].rows : roster[row.person] = row.before
<1>1. request[s] \in Request /\ Formed(request[s]) /\ Seen(request[s])
  BY DEF IInv, TypeOK, Requests
<1>. QED
  BY <1>1 DEF Guard, Seen

LEMMA UpsertedType ==
  ASSUME NEW mode, NEW entry \in Entry \cup {None}, NEW row \in Row
  PROVE  Upserted(mode, entry, row) \in Entry
BY DEF Upserted, Entry, Row

\* What a batch does to the participant and the entry of each of its rows, and that
\* it leaves the others alone.
LEMMA CommitStep ==
  ASSUME IInv, NEW s \in Slot, Commit(s)
  PROVE  LET q == request[s] IN
         /\ q # None /\ q \in Request /\ Formed(q) /\ Seen(q) /\ Guard(q)
         /\ project' = Bumped(project)
         /\ request' = [request EXCEPT ![s] = None]
         /\ \A row \in q.rows :
              /\ row \in Row
              /\ roster[row.person] = row.before
              /\ roster'[row.person] = Upserted(q.mode, row.before, row)
              /\ roster'[row.person] \in Entry
              /\ participant'[row.person] \in Participant
              /\ row.created =>
                   /\ participant[row.person] = None
                   /\ participant'[row.person] = [name |-> row.name, org |-> row.org, revision |-> 0]
              /\ ~row.created =>
                   /\ participant'[row.person] = participant[row.person]
         /\ \A x \in Person :
              (\A row \in q.rows : row.person # x) =>
                participant'[x] = participant[x] /\ roster'[x] = roster[x]
         /\ TypeOK'
<1>. DEFINE q == request[s]
            RowOf(x) == CHOOSE row \in q.rows : row.person = x
            people == {row.person : row \in q.rows}
<1>1. /\ q # None /\ Guard(q)
      /\ project' = Bumped(project)
      /\ participant' = [x \in Person |->
           IF x \in people /\ RowOf(x).created
           THEN [name |-> RowOf(x).name, org |-> RowOf(x).org, revision |-> 0]
           ELSE participant[x]]
      /\ roster' = [x \in Person |->
           IF x \in people THEN Upserted(q.mode, roster[x], RowOf(x)) ELSE roster[x]]
      /\ request' = [request EXCEPT ![s] = None]
      /\ UNCHANGED <<linked, usable>>
  BY DEF Commit
<1>2. /\ q \in Request /\ Formed(q) /\ Seen(q)
      /\ \A row \in q.rows : roster[row.person] = row.before
  BY <1>1, GuardPins
<1>3. \A row \in q.rows : row \in Row /\ row.person \in Person
  BY <1>2 DEF Request, Row
<1>4. \A row \in q.rows : RowOf(row.person) = row
  BY <1>2 DEF Formed
<1>5. \A row \in q.rows : row.person \in people
  OBVIOUS
<1>. HIDE DEF people, RowOf
<1>6. ASSUME NEW row \in q.rows
      PROVE  /\ row \in Row
             /\ roster[row.person] = row.before
             /\ roster'[row.person] = Upserted(q.mode, row.before, row)
             /\ roster'[row.person] \in Entry
             /\ participant'[row.person] \in Participant
             /\ row.created =>
                  /\ participant[row.person] = None
                  /\ participant'[row.person] = [name |-> row.name, org |-> row.org, revision |-> 0]
             /\ ~row.created => participant'[row.person] = participant[row.person]
  <2>1. roster'[row.person] = Upserted(q.mode, row.before, row)
    BY <1>1, <1>2, <1>3, <1>4, <1>5
  <2>2. roster'[row.person] \in Entry
    BY <1>3, <2>1, UpsertedType DEF Row
  <2>3. row.created =>
          /\ participant[row.person] = None
          /\ participant'[row.person] = [name |-> row.name, org |-> row.org, revision |-> 0]
    BY <1>1, <1>2, <1>3, <1>4, <1>5 DEF Seen
  <2>4. ~row.created =>
          /\ participant'[row.person] = participant[row.person]
          /\ participant[row.person] = [name |-> row.name, org |-> row.org, revision |-> row.revision]
    BY <1>1, <1>3, <1>4, <1>5 DEF Guard, Unmoved
  <2>5. participant'[row.person] \in Participant
    BY <1>3, <2>3, <2>4 DEF Participant, Row
  <2>. QED
    BY <1>2, <1>3, <2>1, <2>2, <2>3, <2>4, <2>5
<1>7. ASSUME NEW x \in Person, \A row \in q.rows : row.person # x
      PROVE  participant'[x] = participant[x] /\ roster'[x] = roster[x]
  <2>1. x \notin people
    BY <1>7 DEF people
  <2>. QED
    BY <1>1, <2>1
<1>8. \A x \in Person : /\ participant'[x] \in Participant \cup {None}
                        /\ roster'[x] \in Entry \cup {None}
  BY <1>6, <1>7 DEF IInv, TypeOK
<1>9. TypeOK'
  <2>1. /\ participant' \in [Person -> Participant \cup {None}]
        /\ roster' \in [Person -> Entry \cup {None}]
    <3>1. /\ participant' = [x \in Person |-> participant'[x]]
          /\ roster' = [x \in Person |-> roster'[x]]
      BY <1>1
    <3>. QED
      BY <1>8, <3>1
  <2>2. project' \in [status: Status, revision: Nat]
    BY <1>1, BumpedProject DEF IInv, TypeOK
  <2>. QED
    BY <1>1, <2>1, <2>2 DEF IInv, TypeOK
<1>. QED
  BY <1>1, <1>2, <1>6, <1>7, <1>9

LEMMA CommitKeeps ==
  ASSUME IInv, NEW s \in Slot, Commit(s)
  PROVE  Kept
<1>. DEFINE q == request[s]
<1>1. /\ project' = Bumped(project) /\ request' = [request EXCEPT ![s] = None] /\ q # None
      /\ TypeOK'
  BY CommitStep
<1>2. ASSUME NEW row \in q.rows
      PROVE  /\ row.person \in Person
             /\ roster'[row.person] # None /\ participant'[row.person] # None
             /\ IF row.created THEN participant[row.person] = None
                               ELSE participant'[row.person] = participant[row.person]
  <2>1. /\ row \in Row
        /\ roster'[row.person] \in Entry /\ participant'[row.person] \in Participant
        /\ IF row.created THEN participant[row.person] = None
                          ELSE participant'[row.person] = participant[row.person]
    BY CommitStep
  <2>2. row.person \in Person
    BY <2>1 DEF Row
  <2>. QED
    BY <2>1, <2>2, RowsExist
<1>3. \A x \in Person :
        (\A row \in q.rows : row.person # x) =>
          participant'[x] = participant[x] /\ roster'[x] = roster[x]
  BY CommitStep
<1>4. ProjectStep
  <2>1. project'.revision > project.revision
    BY <1>1, BumpedProject DEF IInv, TypeOK
  <2>. QED
    BY <1>2, <1>3, <2>1 DEF ProjectStep
<1>5. ASSUME NEW x \in Person
      PROVE  PersonStep(x)
  <2>1. CASE \A row \in q.rows : row.person # x
    BY <1>3, <2>1 DEF PersonStep
  <2>2. ASSUME NEW row \in q.rows, row.person = x
        PROVE  PersonStep(x)
    <3>1. row.created => CreatedBy(s, x)
      BY <1>1, <2>2 DEF CreatedBy, IInv, TypeOK
    <3>. QED
      BY <1>2, <2>2, <3>1 DEF PersonStep
  <2>. QED
    BY <2>1, <2>2
<1>6. \A t \in Slot : SlotStep(t)
  BY <1>1 DEF SlotStep, IInv, TypeOK
<1>. QED
  BY <1>1, <1>4, <1>5, <1>6 DEF Kept

LEMMA NextStep ==
  ASSUME IInv, [Next]_vars
  PROVE  Kept
<1>1. CASE UNCHANGED vars
  BY <1>1 DEF vars, IInv, TypeOK, Kept, ProjectStep, PersonStep, SlotStep
<1>2. CASE OthersStep
  BY <1>2, OthersKeep
<1>3. ASSUME NEW s \in Slot, NEW mode \in Modes,
             ImportRequest(s, mode) \/ \E o \in Org : BulkRequest(s, mode, o)
      PROVE  Kept
  BY <1>3, ImportReads, BulkReads, ReadKeeps
<1>4. ASSUME NEW s \in Slot, Commit(s)
      PROVE  Kept
  BY <1>4, CommitKeeps
<1>5. ASSUME NEW s \in Slot, Fail(s)
      PROVE  Kept
  BY <1>5 DEF Fail, IInv, TypeOK, Kept, ProjectStep, PersonStep, SlotStep
<1>. QED
  BY <1>1, <1>2, <1>3, <1>4, <1>5 DEF Next, OthersStep

-----------------------------------------------------------------------------
(* The invariant.                                                             *)

LEMMA InitInv == Init => IInv
BY DEF Init, IInv, TypeOK, Requests, Apart, Registered, Status

\* What a waiting request has read stays what there is, or becomes older.
LEMMA SeenStays ==
  ASSUME IInv, Kept, NEW s \in Slot, request[s] # None, request'[s] = request[s]
  PROVE  Formed(request'[s]) /\ Seen(request[s])'
<1>. DEFINE q == request[s]
<1>1. q \in Request /\ Formed(q) /\ Seen(q)
  BY DEF IInv, TypeOK, Requests
<1>2. /\ project.revision \in Nat /\ project'.revision \in Nat /\ q.expected \in Nat
  BY <1>1 DEF IInv, Kept, TypeOK, Request
<1>3. q.expected <= project'.revision
  BY <1>1, <1>2 DEF Seen, Kept, ProjectStep
<1>4. q.expected = project'.revision =>
        project' = project /\ roster' = roster
  BY <1>1, <1>2 DEF Seen, Kept, ProjectStep
<1>5. q.expected = project'.revision =>
        \A row \in q.rows : roster'[row.person] = row.before
  BY <1>1, <1>4 DEF Seen
<1>6. ASSUME NEW row \in q.rows, row.created, participant'[row.person] # None
      PROVE  FALSE
  <2>1. participant[row.person] = None /\ row.person \in Person
    BY <1>1, <1>6 DEF Seen, Request, Row
  <2>2. PersonStep(row.person)
    BY <2>1 DEF Kept
  <2>3. Fresh(row.person) \/ \E t \in Slot : CreatedBy(t, row.person)
    BY <1>6, <2>1, <2>2 DEF PersonStep
  <2>4. ~Fresh(row.person)
    BY DEF Fresh
  <2>5. PICK t \in Slot : CreatedBy(t, row.person)
    BY <2>3, <2>4
  <2>6. t # s /\ \E other \in request[t].rows : other.created /\ other.person = row.person
    BY <2>5 DEF CreatedBy
  <2>. QED
    BY <1>6, <2>5, <2>6 DEF CreatedBy, IInv, Apart
<1>7. ASSUME NEW x \in Person, q.seen[x] # None
      PROVE  /\ participant'[x] # None
             /\ q.seen[x].revision <= participant'[x].revision
             /\ q.seen[x].revision = participant'[x].revision => participant'[x] = q.seen[x]
  <2>1. /\ participant[x] # None
        /\ q.seen[x].revision <= participant[x].revision
        /\ q.seen[x].revision = participant[x].revision => participant[x] = q.seen[x]
    BY <1>1, <1>7 DEF Seen
  <2>2. participant'[x] # None /\ (participant'[x] = participant[x]
          \/ participant'[x].revision > participant[x].revision)
    BY <2>1 DEF Kept, PersonStep
  <2>3. /\ q.seen[x].revision \in Nat /\ participant[x].revision \in Nat
        /\ participant'[x].revision \in Nat
    BY <1>1, <1>7, <2>1, <2>2 DEF IInv, Kept, TypeOK, Request, Participant
  <2>. HIDE DEF q
  <2>. QED
    BY <2>1, <2>2, <2>3
<1>8. Formed(request'[s])
  BY <1>1
<1>. QED
  BY <1>3, <1>5, <1>6, <1>7, <1>8 DEF Seen

\* What a request has just read is what there is.
LEMMA SeenFirst ==
  ASSUME IInv, NEW s \in Slot, Read(s, request'[s])
  PROVE  Formed(request'[s]) /\ Seen(request[s])'
<1>. DEFINE q == request'[s]
<1>1. q \in Request /\ Formed(q) /\ q.expected = project.revision
  BY DEF Read
<1>2. project.revision \in Nat
  BY DEF IInv, TypeOK
<1>3. \A row \in q.rows :
        /\ roster[row.person] = row.before
        /\ row.created => participant[row.person] = None
  BY DEF Read, Fresh
<1>4. \A x \in Person : q.seen[x] # None =>
        q.seen[x] = participant[x] /\ participant[x].revision \in Nat
  BY DEF Read, IInv, TypeOK, Participant
<1>5. project' = project /\ roster' = roster /\ participant' = participant
  BY DEF Read
<1>. QED
  BY <1>1, <1>2, <1>3, <1>4, <1>5 DEF Seen

LEMMA StepInv ==
  ASSUME IInv, [Next]_vars
  PROVE  IInv'
<1>1. Kept
  BY NextStep
<1>2. Requests'
  <2>. SUFFICES ASSUME NEW s \in Slot, request'[s] # None
                PROVE  Formed(request'[s]) /\ Seen(request[s])'
    BY DEF Requests, Formed, NamesFree, Mutates, Upserted, Named, Members
  <2>1. CASE request'[s] = request[s]
    BY <1>1, <2>1, SeenStays
  <2>2. CASE Read(s, request'[s])
    BY <2>2, SeenFirst
  <2>. QED
    BY <1>1, <2>1, <2>2 DEF Kept, SlotStep
<1>3. Apart'
  <2>. SUFFICES ASSUME NEW s \in Slot, NEW t \in Slot, s # t,
                       request'[s] # None, request'[t] # None,
                       NEW row \in request'[s].rows, NEW other \in request'[t].rows,
                       row.created, row.person = other.person
                PROVE  FALSE
    BY DEF Apart
  <2>1. CASE request'[s] = request[s] /\ request'[t] = request[t]
    BY <2>1 DEF IInv, Apart
  <2>2. CASE Read(s, request'[s])
    <3>1. request'[t] = request[t] /\ Fresh(row.person)
      BY <2>2 DEF Read, IInv, TypeOK
    <3>. QED
      BY <3>1 DEF Fresh
  <2>3. CASE Read(t, request'[t])
    <3>1. request'[s] = request[s]
      BY <2>3 DEF Read, IInv, TypeOK
    <3>2. participant[row.person] = None
      BY <3>1 DEF IInv, Requests, Seen
    <3>3. Fresh(other.person)
      BY <2>3, <3>2 DEF Read
    <3>. QED
      BY <3>1, <3>3 DEF Fresh
  <2>. QED
    BY <1>1, <2>1, <2>2, <2>3 DEF Kept, SlotStep
<1>4. Registered'
  <2>. SUFFICES ASSUME NEW x \in Person, roster'[x] # None
                PROVE  participant'[x] # None
    BY DEF Registered
  <2>1. participant[x] # None \/ participant'[x] # None
    BY <1>1 DEF Kept, ProjectStep, IInv, Registered
  <2>. QED
    BY <1>1, <2>1 DEF Kept, PersonStep
<1>. QED
  BY <1>1, <1>2, <1>3, <1>4 DEF IInv, Kept

\* Always: what waiting requests have read is what there is or older, their rows are
\* those of distinct people, and the ids of participants to be created nobody else's.
LEMMA Invariant == Spec => []IInv
<1>1. IInv /\ [Next]_vars => IInv'
  BY StepInv
<1>. QED
  BY <1>1, InitInv, PTL DEF Spec

-----------------------------------------------------------------------------
(* The theorems.                                                              *)

\* Every value stays of its type: no batch writes a participant or an entry that
\* the tables could not hold, and no row carries what was not read.
THEOREM TypeCorrect == Spec => []TypeOK
<1>1. IInv => TypeOK
  BY DEF IInv
<1>. QED
  BY <1>1, Invariant, PTL

\* What goes into the audit log as the entry before is what the batch overwrites, as
\* the revision that the guard compares has moved with every change of an entry, of
\* an update of the participant too.
THEOREM BeforeIsRecorded == Spec => []BeforeRecorded
<1>1. ASSUME IInv
      PROVE  BeforeRecorded
  BY <1>1, GuardPins DEF BeforeRecorded
<1>. QED
  BY <1>1, Invariant, PTL

\* Only the batch of a request both ends it and changes the project.
LEMMA CommittedIsCommit ==
  ASSUME IInv, [Next]_vars, NEW s \in Slot, Committed(s)
  PROVE  Commit(s)
<1>1. request' # request
  BY DEF Committed
<1>2. ~OthersStep
  BY <1>1 DEF OthersStep, ChangeStatus, ChangeLink, SetOrganization, SwitchEntry,
     CreateElsewhere, UpdateParticipant
<1>3. \A t \in Slot : ~Fail(t)
  BY DEF Committed, Fail
<1>4. ASSUME NEW t \in Slot, NEW mode \in Modes,
             ImportRequest(t, mode) \/ \E o \in Org : BulkRequest(t, mode, o)
      PROVE  FALSE
  <2>1. Read(t, request'[t])
    BY <1>4, ImportReads, BulkReads
  <2>. QED
    BY <2>1 DEF Read, Committed
<1>5. \E t \in Slot : Commit(t)
  BY <1>1, <1>2, <1>3, <1>4 DEF Next, OthersStep, vars
<1>6. \A t \in Slot : Commit(t) => t = s
  BY DEF Commit, Committed, IInv, TypeOK
<1>. QED
  BY <1>5, <1>6

\* If the organization has the members that were read, unchanged, a created
\* participant has a name of its own.
LEMMA NewNames ==
  ASSUME IInv, NEW s \in Slot, Commit(s), ~request[s].confirmed,
         NEW row \in request[s].rows, row.created,
         Members(participant, row.org) \subseteq Members(request[s].seen, row.org),
         \A x \in Members(participant, row.org) : participant[x] = request[s].seen[x]
  PROVE  NewNameUnique(row)
<1>. DEFINE q == request[s]
            o == row.org
            n == row.name
<1>1. /\ Formed(q) /\ NamesFree(q)
      /\ row.person \in Person
      /\ participant'[row.person] = [name |-> n, org |-> o, revision |-> 0]
      /\ participant'[row.person] \in Participant
  BY CommitStep DEF Formed, Row
<1>2. row.person \in Named(participant', o, n)
  BY <1>1, RowsExist DEF Named, Members
<1>3. ASSUME NEW x \in Named(participant', o, n), x # row.person
      PROVE  FALSE
  <2>1. x \in Person /\ participant'[x] # None /\ participant'[x].org = o /\ participant'[x].name = n
    BY <1>3 DEF Named, Members
  <2>2. CASE participant'[x] = participant[x]
    <3>1. x \in Members(participant, o) /\ x \in Members(q.seen, o) /\ q.seen[x].name = n
      BY <2>1, <2>2 DEF Members
    <3>. QED
      BY <1>1, <3>1 DEF NamesFree, Named
  <2>3. CASE participant'[x] # participant[x]
    <3>1. PICK other \in q.rows : other.person = x
      BY <2>1, <2>3, CommitStep
    <3>2. /\ other.created
          /\ participant'[x] = [name |-> other.name, org |-> other.org, revision |-> 0]
      BY <2>3, <3>1, CommitStep
    <3>3. other # row /\ other.org = o /\ other.name = n
      BY <1>3, <2>1, <3>1, <3>2
    <3>. QED
      BY <1>1, <3>2, <3>3 DEF NamesFree
  <2>. QED
    BY <2>2, <2>3
<1>. QED
  BY <1>2, <1>3 DEF NewNameUnique

\* No correction of a closed project creates a namesake unasked: what it has read of
\* the organization is compared participant by participant inside the batch.
THEOREM CorrectionsStayUnique == Spec => CorrectionsUnique
<1>1. ASSUME IInv, [Next]_vars, NEW s \in Slot, Committed(s),
             ~request[s].confirmed, request[s].mode \in Corrections,
             NEW row \in request[s].rows, row.created
      PROVE  NewNameUnique(row)
  <2>1. Commit(s)
    BY <1>1, CommittedIsCommit
  <2>2. Guard(request[s]) /\ request[s].mode \notin Ordinary
    BY <1>1, <2>1 DEF Commit, Ordinary, Corrections
  <2>3. SameFingerprint(request[s], row.org)
    BY <1>1, <2>2 DEF Guard, SameMembers
  <2>. QED
    BY <1>1, <2>1, <2>3, NewNames DEF SameFingerprint
<1>2. IInv /\ [Next]_vars =>
        \A s \in Slot :
          Committed(s) /\ ~request[s].confirmed /\ request[s].mode \in Corrections =>
            \A row \in request[s].rows : row.created => NewNameUnique(row)
  BY <1>1
<1>. QED
  BY <1>2, Invariant, PTL DEF Spec, CorrectionsUnique

\* Equal numbers and equal sums of revisions mean equal participants, as long as all
\* that were read are still there: revisions only grow.
LEMMA CountsSuffice ==
  ASSUME IInv, NEW s \in Slot, request[s] # None, NEW o,
         SameCounts(request[s], o),
         Members(request[s].seen, o) \subseteq Members(participant, o)
  PROVE  SameFingerprint(request[s], o)
<1>. DEFINE q == request[s]
            old == Members(q.seen, o)
            new == Members(participant, o)
            f == [x \in old |-> q.seen[x].revision]
            g == [x \in new |-> participant[x].revision]
<1>1. q \in Request /\ Seen(q) /\ IsFiniteSet(Person)
  BY BatchConstants DEF IInv, TypeOK, Requests
<1>2. old \subseteq Person /\ new \subseteq Person
  BY DEF Members
<1>3. IsFiniteSet(new)
  BY <1>1, <1>2, FS_Subset
<1>4. old = new
  <2>1. Cardinality(new) = Cardinality(old)
    BY DEF SameCounts
  <2>2. old \in SUBSET new
    OBVIOUS
  <2>. HIDE DEF old, new
  <2>. QED
    BY <1>3, <2>1, <2>2, FS_Subset
<1>5. \A x \in new : /\ q.seen[x] # None /\ participant[x] # None
                     /\ q.seen[x] \in Participant /\ participant[x] \in Participant
  BY <1>1, <1>2, <1>4 DEF Members, Request, IInv, TypeOK
<1>6. \A x \in new : /\ f[x] = q.seen[x].revision /\ f[x] \in Nat
                     /\ g[x] = participant[x].revision /\ g[x] \in Nat
                     /\ f[x] <= g[x]
  BY <1>1, <1>2, <1>4, <1>5 DEF Seen, Participant
<1>7. SumFunctionOnSet(f, new) = SumFunctionOnSet(g, new)
  <2>1. SumFunction(f) = SumFunction(g)
    BY DEF SameCounts, Revisions
  <2>2. DOMAIN f = new /\ DOMAIN g = new
    BY <1>4
  <2>. HIDE DEF f, g, new
  <2>. QED
    BY <2>1, <2>2 DEF SumFunction
<1>8. \A x \in new : f[x] = g[x]
  <2>. HIDE DEF f, g, new
  <2>1. NatOn(f, new) /\ NatOn(g, new)
    BY <1>3, <1>6 DEF NatOn
  <2>. QED
    BY <1>6, <1>7, <2>1, SumGrows
<1>9. \A x \in new : participant[x] = q.seen[x]
  BY <1>1, <1>2, <1>5, <1>6, <1>8 DEF Seen
<1>. QED
  BY <1>4, <1>9 DEF SameFingerprint

\* Nor does any request while the participants it has read are still in the
\* organization: what the bulk form and the import compare, a number and a sum of
\* revisions, then tells a renamed or a revised participant.
THEOREM ChangesAreNoticed == Spec => ChangesNoticed
<1>1. ASSUME IInv, [Next]_vars, NEW s \in Slot, Committed(s), ~request[s].confirmed,
             NEW row \in request[s].rows, row.created,
             Members(request[s].seen, row.org) \subseteq Members(participant, row.org)
      PROVE  NewNameUnique(row)
  <2>1. Commit(s)
    BY <1>1, CommittedIsCommit
  <2>2. request[s] # None /\ Guard(request[s])
    BY <2>1 DEF Commit
  <2>3. SameCounts(request[s], row.org) \/ SameFingerprint(request[s], row.org)
    BY <1>1, <2>2 DEF Guard, SameMembers
  <2>4. SameFingerprint(request[s], row.org)
    BY <1>1, <2>2, <2>3, CountsSuffice
  <2>. QED
    BY <1>1, <2>1, <2>4, NewNames DEF SameFingerprint
<1>2. IInv /\ [Next]_vars =>
        \A s \in Slot :
          LET q == request[s] IN
          Committed(s) /\ ~q.confirmed =>
            \A row \in q.rows :
              row.created /\ Members(q.seen, row.org) \subseteq Members(participant, row.org)
                => NewNameUnique(row)
  BY <1>1
<1>. QED
  BY <1>2, Invariant, PTL DEF Spec, ChangesNoticed

\* A correcting import that commits changes the roster: the row found to have an
\* effect at the reads still has one, as the entry has not changed.
THEOREM CorrectionsDoChange == Spec => CorrectionsChange
<1>1. ASSUME IInv, [Next]_vars, NEW s \in Slot, Committed(s),
             request[s].mode = "FIX_IMPORT", roster' = roster
      PROVE  FALSE
  <2>1. Commit(s)
    BY <1>1, CommittedIsCommit
  <2>2. /\ Formed(request[s])
        /\ \A row \in request[s].rows :
             /\ roster[row.person] = row.before
             /\ roster'[row.person] = Upserted(request[s].mode, row.before, row)
    BY <1>1, <2>1, CommitStep
  <2>3. PICK row \in request[s].rows : Mutates(request[s].mode, row)
    BY <1>1, <2>2 DEF Formed
  <2>. QED
    BY <1>1, <2>2, <2>3 DEF Mutates
<1>2. IInv /\ [Next]_vars =>
        \A s \in Slot :
          Committed(s) /\ request[s].mode = "FIX_IMPORT" => roster' # roster
  BY <1>1
<1>. QED
  BY <1>2, Invariant, PTL DEF Spec, CorrectionsChange

=============================================================================
