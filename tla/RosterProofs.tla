----------------------------- MODULE RosterProofs -----------------------------
(* Proofs about ProjectRoster, for every value of its constants.              *)
EXTENDS ProjectRoster, FunctionSums

Creates == {"CREATE_PARTICIPANT", "FIX_CREATE"}
Rereads == {"ADD_ENTRY", "SET_ENTRY", "UPDATE_PARTICIPANT", "FIX_ADD", "FIX_PATCH"}
Holds   == {"ADD_ENTRY", "UPDATE_PARTICIPANT", "FIX_ADD"}

\* What a request holds of its own, by its kind.
Formed(q) ==
  /\ IF q.op \in Creates \cup Rereads THEN q.person \in Person ELSE q.person = None
  /\ IF q.op \in Holds THEN q.holder \in Participant ELSE q.holder = None
  /\ q.op \in {"SET_ENTRY", "UPDATE_PARTICIPANT", "FIX_PATCH"} => q.entry \in Entry
  /\ q.op \in {"ADD_ENTRY", "FIX_ADD", "EXCLUDE_ORG", "FIX_EXCLUDE"} \cup Creates =>
       q.org \in Org
  /\ q.op \in {"UPDATE_PARTICIPANT", "FIX_PATCH"} => q.org \in Org \cup {Keep}
  /\ q.op = "TRANSITION" => q.target \in {"IN_PROGRESS", "CLOSED"}
  /\ q.op = "SET_ENTRY" => q.target \in {"ACTIVE", "CANCELLED"}
  /\ q.op = "FIX_PATCH" => q.target \in {"ACTIVE", "CANCELLED", Keep}
  /\ q.op \in {"ADD_ENTRY", "SET_ENTRY"} => q.status # "CLOSED"
  /\ q.actor \in Manager =>
       /\ q.op \in {"ADD_ENTRY", "SET_ENTRY", "CREATE_PARTICIPANT", "UPDATE_PARTICIPANT"}
       /\ q.op = "UPDATE_PARTICIPANT" => NextOrg(q.org, q.holder) = q.holder.org

\* What a request has read is what there is, or older.
Seen(q) ==
  LET r == project[q.project]  x == q.person IN
  /\ q.expected <= r.revision
  /\ q.expected = r.revision =>
       /\ r.status = q.status
       /\ q.op \in Rereads => r.roster[x] = q.entry
  /\ q.op \in Rereads => participant[x] # None
  /\ q.op \in Holds =>
       /\ q.holder.revision <= participant[x].revision
       /\ q.holder.revision = participant[x].revision => participant[x] = q.holder
  /\ q.op \in Creates => participant[x] = None

Requests ==
  \A s \in Slot : request[s] # None => Formed(request[s]) /\ Seen(request[s])

\* Nobody else uses the id of a participant to be created.
Apart ==
  \A s, t \in Slot :
    /\ s # t /\ request[s] # None /\ request[t] # None
    /\ request[s].op \in Creates
    => request[t].person # request[s].person

\* An entry has its participant.
Registered ==
  \A p \in Project, x \in Person :
    project[p].roster[x] # None => participant[x] # None

IInv == TypeOK /\ Requests /\ Apart /\ Registered

-----------------------------------------------------------------------------
(* What the batches write.                                                    *)

\* The entry a request writes, by its kind.
LEMMA EntryByKind ==
  ASSUME NEW q
  PROVE  /\ q.op \in {"ADD_ENTRY", "FIX_ADD"} /\ q.entry = None => EntryWritten(q) = NewEntry(q)
         /\ q.op \in Creates => EntryWritten(q) = NewEntry(q)
         /\ q.op = "ADD_ENTRY" /\ q.entry # None => EntryWritten(q) = Switched(q, "ACTIVE")
         /\ q.op = "SET_ENTRY" => EntryWritten(q) = Switched(q, q.target)
         /\ q.op = "UPDATE_PARTICIPANT" =>
              EntryWritten(q) = [project[q.project].roster[q.person] EXCEPT
                                   !.org = NextOrg(q.org, q.holder), !.revision = @ + 1]
         /\ q.op = "FIX_ADD" /\ q.entry # None =>
              EntryWritten(q) = [q.entry EXCEPT !.org = q.org, !.status = "ACTIVE",
                                                !.revision = @ + 1]
         /\ q.op = "FIX_PATCH" =>
              EntryWritten(q) = [q.entry EXCEPT
                                   !.org = NextOrg(q.org, q.entry), !.revision = @ + 1,
                                   !.status = IF q.target = Keep THEN @ ELSE q.target]
<1>1. q.op \in {"ADD_ENTRY", "FIX_ADD"} /\ q.entry = None => EntryWritten(q) = NewEntry(q)
  BY DEF EntryWritten
<1>2. q.op \in Creates => EntryWritten(q) = NewEntry(q)
  BY DEF EntryWritten, Creates
<1>3. q.op = "ADD_ENTRY" /\ q.entry # None => EntryWritten(q) = Switched(q, "ACTIVE")
  BY DEF EntryWritten
<1>4. q.op = "SET_ENTRY" => EntryWritten(q) = Switched(q, q.target)
  BY DEF EntryWritten
<1>5. q.op = "UPDATE_PARTICIPANT" =>
        EntryWritten(q) = [project[q.project].roster[q.person] EXCEPT
                             !.org = NextOrg(q.org, q.holder), !.revision = @ + 1]
  BY DEF EntryWritten
<1>6. q.op = "FIX_ADD" /\ q.entry # None =>
        EntryWritten(q) = [q.entry EXCEPT !.org = q.org, !.status = "ACTIVE", !.revision = @ + 1]
  BY DEF EntryWritten
<1>7. q.op = "FIX_PATCH" =>
        EntryWritten(q) = [q.entry EXCEPT
                             !.org = NextOrg(q.org, q.entry), !.revision = @ + 1,
                             !.status = IF q.target = Keep THEN @ ELSE q.target]
  BY DEF EntryWritten
<1>. QED
  BY <1>1, <1>2, <1>3, <1>4, <1>5, <1>6, <1>7

\* What the guard of a request has made sure of.
Pinned(q) ==
  LET r == project[q.project]  x == q.person IN
  /\ r.revision = q.expected /\ r.status = q.status
  /\ q.op \in Rereads => r.roster[x] = q.entry
  /\ q.op \in Holds => participant[x] = q.holder
  /\ q.op \in Creates => r.roster[x] = None /\ participant[x] = None

\* The guard asks for the revision of the project, and for that of the participant
\* where one was read: both reads are then what there is.
LEMMA GuardPins ==
  ASSUME IInv, NEW s \in Slot, request[s] # None, Guard(request[s])
  PROVE  request[s] \in Request /\ Formed(request[s]) /\ Pinned(request[s])
<1>. DEFINE q == request[s]
            r == project[q.project]
<1>1. q \in Request /\ Formed(q) /\ Seen(q)
  BY DEF IInv, TypeOK, Requests
<1>2. r.revision = q.expected
  BY DEF Guard
<1>3. q.op \in Holds => participant[q.person].revision = q.holder.revision
  <2>1. OrdinaryGuard(r, q) \/ CorrectionGuard(r, q)
    BY DEF Guard
  <2>2. OrdinaryGuard(r, q) /\ q.op \in Holds => HolderUnmoved(q)
    BY DEF OrdinaryGuard, AddEntryGuard, UpdateGuard, Holds
  <2>3. CorrectionGuard(r, q) /\ q.op \in Holds => HolderUnmoved(q)
    BY DEF CorrectionGuard, CorrectAddGuard, Holds
  <2>. QED
    BY <2>1, <2>2, <2>3 DEF HolderUnmoved
<1>4. q.op \in Creates => r.roster[q.person] = None
  <2>1. q.op \in Creates => q.person \in Person /\ participant[q.person] = None
    BY <1>1 DEF Formed, Seen
  <2>2. q.project \in Project
    BY <1>1 DEF Request
  <2>. QED
    BY <2>1, <2>2 DEF IInv, Registered
<1>. HIDE DEF q
<1>5. Pinned(q)
  BY <1>1, <1>2, <1>3, <1>4 DEF Pinned, Seen
<1>. QED
  BY <1>1, <1>5 DEF q

\* The entry written is an entry; who was expected stays expected and nobody else
\* is; and its organization is one the request names or has read.
LEMMA Written ==
  ASSUME TypeOK, NEW q \in Request, Formed(q), Pinned(q), q.op \in Creates \cup Rereads
  PROVE  LET e == EntryWritten(q)  was == project[q.project].roster[q.person] IN
         /\ e \in Entry
         /\ e.expected = (was # None /\ was.expected)
         /\ q.op \in Creates => e.org = q.org
         /\ q.op = "ADD_ENTRY" => e.org = IF q.entry = None THEN q.org ELSE q.entry.org
         /\ q.op = "SET_ENTRY" => e.org = q.entry.org
         /\ q.op = "UPDATE_PARTICIPANT" => e.org = NextOrg(q.org, q.holder)
<1>. DEFINE e == EntryWritten(q)
            was == project[q.project].roster[q.person]
<1>1. was \in Entry \cup {None} /\ q.entry \in Entry \cup {None}
  BY DEF TypeOK, ProjectRow, Request, Formed
<1>2. None \notin Entry
  BY RowsExist
<1>3. CASE q.op \in Creates \/ (q.op \in {"ADD_ENTRY", "FIX_ADD"} /\ q.entry = None)
  <2>1. e = NewEntry(q)
    BY <1>3, EntryByKind
  <2>2. was = None
    BY <1>3 DEF Pinned, Rereads
  <2>3. q.org \in Org
    BY <1>3 DEF Formed, Request
  <2>4. e \in Entry /\ e.expected = FALSE /\ e.org = q.org
    BY <2>1, <2>3 DEF NewEntry, Entry, SourceIn, Source
  <2>. HIDE DEF e
  <2>5. e.expected = (was # None /\ was.expected)
    BY <2>2, <2>4
  <2>. QED
    BY <1>3, <2>4, <2>5 DEF Creates, e
<1>4. ASSUME q.op \in {"ADD_ENTRY", "SET_ENTRY"}, q.entry # None
      PROVE  /\ e \in Entry /\ e.org = q.entry.org
             /\ e.expected = q.entry.expected
  <2>. DEFINE to == IF q.op = "ADD_ENTRY" THEN "ACTIVE" ELSE q.target
  <2>1. e = Switched(q, to)
    BY <1>4, EntryByKind
  <2>2. to \in {"ACTIVE", "CANCELLED"}
    BY <1>4 DEF Formed
  <2>. DEFINE source == IF to = "ACTIVE" THEN NextSource(q.entry, q.status) ELSE q.entry.source
  <2>3. source \in Source
    BY <1>1, <1>4 DEF NextSource, Entry, Source
  <2>. DEFINE n == q.entry.revision + 1
  <2>4. e = [q.entry EXCEPT !.status = to, !.revision = n, !.source = source]
    BY <2>1 DEF Switched
  <2>5. n \in Nat
    BY <1>1, <1>4 DEF Entry
  <2>. HIDE DEF to, source, n, e
  <2>. QED
    BY <1>1, <1>4, <2>2, <2>3, <2>4, <2>5 DEF Entry
<1>5. CASE q.op \in {"ADD_ENTRY", "SET_ENTRY"} /\ q.entry # None
  <2>1. was = q.entry
    BY <1>5 DEF Pinned, Rereads
  <2>. QED
    BY <1>1, <1>4, <1>5, <2>1 DEF Creates, Entry
<1>6. CASE q.op = "UPDATE_PARTICIPANT"
  <2>1. q.entry \in Entry /\ was = q.entry /\ q.holder \in Participant /\ q.org \in Org \cup {Keep}
    BY <1>6 DEF Formed, Pinned, Rereads, Holds
  <2>2. NextOrg(q.org, q.holder) \in Org
    BY <2>1 DEF NextOrg, Participant
  <2>. DEFINE n == was.revision + 1
  <2>3. e = [was EXCEPT !.org = NextOrg(q.org, q.holder), !.revision = n]
    BY <1>6, EntryByKind
  <2>4. n \in Nat
    BY <2>1 DEF Entry
  <2>. HIDE DEF e, n
  <2>5. e \in Entry /\ e.expected = was.expected /\ e.org = NextOrg(q.org, q.holder)
    BY <2>1, <2>2, <2>3, <2>4 DEF Entry
  <2>6. e.expected = (was # None /\ was.expected)
    BY <1>2, <2>1, <2>5 DEF Entry
  <2>. QED
    BY <1>6, <2>5, <2>6 DEF Creates, e
<1>7. CASE q.op = "FIX_ADD" /\ q.entry # None
  <2>1. q.entry \in Entry /\ was = q.entry /\ q.org \in Org
    BY <1>1, <1>7 DEF Formed, Pinned, Rereads
  <2>. DEFINE n == was.revision + 1
  <2>2. e = [was EXCEPT !.org = q.org, !.status = "ACTIVE", !.revision = n]
    BY <1>7, <2>1, EntryByKind
  <2>3. n \in Nat
    BY <2>1 DEF Entry
  <2>. HIDE DEF e, n
  <2>5. e \in Entry /\ e.expected = was.expected
    BY <2>1, <2>2, <2>3 DEF Entry
  <2>6. e.expected = (was # None /\ was.expected)
    BY <1>2, <2>1, <2>5 DEF Entry
  <2>. QED
    BY <1>7, <2>5, <2>6 DEF Creates, e
<1>8. CASE q.op = "FIX_PATCH"
  <2>1. q.entry \in Entry /\ was = q.entry /\ q.org \in Org \cup {Keep}
    BY <1>8 DEF Formed, Pinned, Rereads
  <2>. DEFINE org == NextOrg(q.org, q.entry)
              status == IF q.target = Keep THEN was.status ELSE q.target
              n == was.revision + 1
  <2>2. org \in Org /\ status \in {"ACTIVE", "CANCELLED"}
    BY <1>8, <2>1 DEF NextOrg, Entry, Formed
  <2>3. e = [was EXCEPT !.org = org, !.revision = n, !.status = status]
    BY <1>8, <2>1, EntryByKind
  <2>4. n \in Nat
    BY <2>1 DEF Entry
  <2>. HIDE DEF e, org, status, n
  <2>5. e \in Entry /\ e.expected = was.expected
    BY <2>1, <2>2, <2>3, <2>4 DEF Entry
  <2>6. e.expected = (was # None /\ was.expected)
    BY <1>2, <2>1, <2>5 DEF Entry
  <2>. QED
    BY <1>8, <2>5, <2>6 DEF Creates, e
<1>9. q.op = "SET_ENTRY" => q.entry # None
  BY <1>2 DEF Formed
<1>. QED
  BY <1>3, <1>5, <1>6, <1>7, <1>8, <1>9 DEF Rereads

\* A count of entries is a number.
LEMMA CountType ==
  ASSUME NEW r, NEW o
  PROVE  Count(r, o, Expectable) \in Nat
<1>1. {x \in Person : r.roster[x] # None /\ r.roster[x].org = o /\ Expectable(r.roster[x])}
        \in SUBSET Person
  OBVIOUS
<1>. QED
  BY <1>1, RosterConstants, FS_Subset, FS_CardinalityType DEF Count

\* The project a request leaves, by its kind.
LEMMA EffectByKind ==
  ASSUME NEW q
  PROVE  LET r == project[q.project] IN
         /\ q.op = "TRANSITION" => Effect(q) = Transitioned(r, q)
         /\ q.op \in {"ADD_ORGS", "FIX_LINK"} => Effect(q) = Relinked(r, q.orgs)
         /\ q.op = "EXCLUDE_ORG" =>
              Effect(q) = [r EXCEPT !.linked[q.org] =
                             IF HasHistory(r, q.org) THEN "INACTIVE" ELSE "NONE"]
         /\ q.op = "FIX_EXCLUDE" => Effect(q) = [r EXCEPT !.linked[q.org] = "INACTIVE"]
         /\ q.op \in Creates \cup Rereads =>
              Effect(q) = [r EXCEPT !.roster[q.person] = EntryWritten(q)]
<1>. DEFINE r == project[q.project]
<1>1. q.op = "TRANSITION" => Effect(q) = Transitioned(r, q)
  BY DEF Effect
<1>2. q.op \in {"ADD_ORGS", "FIX_LINK"} => Effect(q) = Relinked(r, q.orgs)
  BY DEF Effect
<1>3. q.op = "EXCLUDE_ORG" =>
        Effect(q) = [r EXCEPT !.linked[q.org] = IF HasHistory(r, q.org) THEN "INACTIVE" ELSE "NONE"]
  BY DEF Effect
<1>4. q.op = "FIX_EXCLUDE" => Effect(q) = [r EXCEPT !.linked[q.org] = "INACTIVE"]
  BY DEF Effect
<1>5. q.op \in Creates \cup Rereads =>
        Effect(q) = [r EXCEPT !.roster[q.person] = EntryWritten(q)]
  BY DEF Effect, Creates, Rereads
<1>. QED
  BY <1>1, <1>2, <1>3, <1>4, <1>5

\* Who was expected in the project r still is in f, and nobody else.
SameExpected(r, f) ==
  /\ f.snapshot = r.snapshot
  /\ \A x \in Person :
       /\ r.roster[x] # None => f.roster[x] # None
       /\ f.roster[x] # None =>
            f.roster[x].expected = (r.roster[x] # None /\ r.roster[x].expected)

LEMMA SameRoster ==
  ASSUME NEW r \in ProjectRow, NEW f, f.snapshot = r.snapshot, f.roster = r.roster
  PROVE  SameExpected(r, f)
<1>. SUFFICES ASSUME NEW x \in Person, r.roster[x] # None
              PROVE  r.roster[x].expected = (r.roster[x] # None /\ r.roster[x].expected)
  BY DEF SameExpected
<1>1. r.roster[x] \in Entry
  BY DEF ProjectRow
<1>. QED
  BY <1>1 DEF Entry

\* The start writes rows too.
LEMMA StartedRow ==
  ASSUME NEW r \in ProjectRow, NEW q, Starts(q)
  PROVE  LET f == Transitioned(r, q) IN
         /\ f \in ProjectRow /\ f.revision = r.revision /\ f.status = q.target
         /\ \A x \in Person : f.roster[x] # None => r.roster[x] # None
<1>. DEFINE snapshot == Snapshot(r)
            roster == [x \in Person |-> IF Expectable(r.roster[x])
                                        THEN [r.roster[x] EXCEPT !.expected = TRUE]
                                        ELSE r.roster[x]]
            f == [r EXCEPT !.status = q.target, !.snapshot = snapshot, !.roster = roster]
<1>1. Transitioned(r, q) = f
  BY DEF Transitioned
<1>2. snapshot \in [Org -> Nat \cup {None}]
  BY CountType DEF Snapshot, ProjectRow
<1>3. roster \in [Person -> Entry \cup {None}]
  BY DEF ProjectRow, Entry, Expectable
<1>4. \A x \in Person : roster[x] # None => r.roster[x] # None
  BY DEF Expectable
<1>5. q.target \in Status
  BY DEF Starts, Status
<1>. HIDE DEF snapshot, roster
<1>. QED
  BY <1>1, <1>2, <1>3, <1>4, <1>5 DEF ProjectRow

\* A batch makes a row of the project, gives entries only to the person of the
\* request, and changes nothing of what was expected after the start.
LEMMA EffectRow ==
  ASSUME TypeOK, NEW q \in Request, Formed(q), Pinned(q)
  PROVE  LET r == project[q.project]  f == Effect(q) IN
         /\ f \in ProjectRow /\ f.revision = r.revision
         /\ \A x \in Person :
              f.roster[x] # None =>
                r.roster[x] # None \/ (q.op \in Creates \cup Rereads /\ x = q.person)
         /\ q.op = "TRANSITION" => f.status = q.target
         /\ q.op # "TRANSITION" => f.status = r.status
         /\ (q.op = "TRANSITION" /\ Starts(q)) \/ SameExpected(r, f)
         /\ q.op \in Creates \cup Rereads => f.roster[q.person] = EntryWritten(q)
<1>. DEFINE r == project[q.project]
            f == Effect(q)
<1>1. r \in ProjectRow
  BY DEF TypeOK, Request
<1>. HIDE DEF r
<1>2. CASE q.op = "TRANSITION" /\ Starts(q)
  <2>1. f = Transitioned(r, q)
    BY <1>2, EffectByKind DEF r
  <2>2. r.status = "PRE_REGISTRATION"
    BY <1>2 DEF Pinned, Starts, r
  <2>. HIDE DEF f
  <2>3. /\ f \in ProjectRow /\ f.revision = r.revision /\ f.status = q.target
        /\ \A x \in Person : f.roster[x] # None => r.roster[x] # None
    BY <1>1, <1>2, <2>1, StartedRow
  <2>. QED
    BY <1>2, <2>2, <2>3 DEF f, r, Creates, Rereads
<1>3. CASE /\ q.op \notin Creates \cup Rereads
           /\ q.op = "TRANSITION" => ~Starts(q)
  <2>1. \/ q.op = "TRANSITION" \/ q.op \in {"ADD_ORGS", "FIX_LINK"}
        \/ q.op = "EXCLUDE_ORG" \/ q.op = "FIX_EXCLUDE"
    BY <1>3 DEF Request, Ordinary, Corrections, Creates, Rereads
  <2>2. ASSUME q.op = "TRANSITION"
        PROVE  q.target \in Status /\ f = [r EXCEPT !.status = q.target]
    BY <1>3, <2>2, EffectByKind DEF Transitioned, Formed, Status, r
  <2>3. ASSUME q.op # "TRANSITION"
        PROVE  \E linked \in [Org -> Link] : f = [r EXCEPT !.linked = linked]
    <3>1. ASSUME q.op \in {"ADD_ORGS", "FIX_LINK"}
          PROVE  \E linked \in [Org -> Link] : f = [r EXCEPT !.linked = linked]
      <4>. DEFINE linked == [o \in Org |-> IF o \in q.orgs THEN "ACTIVE" ELSE r.linked[o]]
      <4>1. linked \in [Org -> Link]
        BY <1>1 DEF ProjectRow, Link
      <4>2. f = [r EXCEPT !.linked = linked]
        BY <3>1, EffectByKind DEF Relinked, r
      <4>. QED
        BY <4>1, <4>2
    <3>2. ASSUME NEW to \in {"NONE", "INACTIVE"}, f = [r EXCEPT !.linked[q.org] = to]
          PROVE  \E linked \in [Org -> Link] : f = [r EXCEPT !.linked = linked]
      <4>. DEFINE linked == [r.linked EXCEPT ![q.org] = to]
      <4>1. linked \in [Org -> Link]
        BY <1>1 DEF ProjectRow, Link
      <4>2. f = [r EXCEPT !.linked = linked]
        BY <3>2
      <4>. HIDE DEF f, linked
      <4>. QED
        BY <4>1, <4>2
    <3>3. ASSUME q.op = "EXCLUDE_ORG"
          PROVE  \E to \in {"NONE", "INACTIVE"} : f = [r EXCEPT !.linked[q.org] = to]
      BY <3>3, EffectByKind DEF r
    <3>4. ASSUME q.op = "FIX_EXCLUDE"
          PROVE  \E to \in {"NONE", "INACTIVE"} : f = [r EXCEPT !.linked[q.org] = to]
      BY <3>4, EffectByKind DEF r
    <3>. HIDE DEF f
    <3>. QED
      BY <2>1, <2>3, <3>1, <3>2, <3>3, <3>4
  <2>. HIDE DEF f
  <2>4. /\ f \in ProjectRow /\ f.revision = r.revision
        /\ f.roster = r.roster /\ f.snapshot = r.snapshot
        /\ q.op = "TRANSITION" => f.status = q.target
        /\ q.op # "TRANSITION" => f.status = r.status
    BY <1>1, <2>2, <2>3 DEF ProjectRow
  <2>5. SameExpected(r, f)
    BY <1>1, <2>4, SameRoster
  <2>. QED
    BY <1>3, <2>4, <2>5 DEF f, r
<1>4. CASE q.op \in Creates \cup Rereads
  <2>. DEFINE e == EntryWritten(q)
  <2>1. f = [r EXCEPT !.roster[q.person] = e]
    BY <1>4, EffectByKind DEF r
  <2>2. /\ e \in Entry
        /\ e.expected = (r.roster[q.person] # None /\ r.roster[q.person].expected)
    BY <1>4, Written DEF r
  <2>3. q.person \in Person
    BY <1>4 DEF Formed
  <2>. HIDE DEF e, f
  <2>4. /\ f \in ProjectRow /\ f.revision = r.revision /\ f.snapshot = r.snapshot
        /\ f.status = r.status
        /\ f.roster[q.person] = e
        /\ \A x \in Person : x # q.person => f.roster[x] = r.roster[x]
    BY <1>1, <2>1, <2>2, <2>3 DEF ProjectRow
  <2>5. SameExpected(r, f)
    <3>. SUFFICES ASSUME NEW x \in Person
                  PROVE  /\ r.roster[x] # None => f.roster[x] # None
                         /\ f.roster[x] # None =>
                              f.roster[x].expected = (r.roster[x] # None /\ r.roster[x].expected)
      BY <2>4 DEF SameExpected
    <3>1. CASE x = q.person
      BY <2>2, <2>4, <3>1, RowsExist
    <3>2. CASE x # q.person
      BY <1>1, <2>4, <3>2, SameRoster DEF SameExpected
    <3>. QED
      BY <3>1, <3>2
  <2>. QED
    BY <1>4, <2>4, <2>5 DEF f, r, e, Creates, Rereads
<1>. QED
  BY <1>2, <1>3, <1>4 DEF Creates, Rereads

-----------------------------------------------------------------------------
(* What a step does to one project, one participant and one slot.             *)

ProjectStep(p) ==
  /\ \/ project'[p] = project[p]
     \/ project'[p].revision > project[p].revision
  /\ \A x \in Person :
       project'[p].roster[x] # None =>
         project[p].roster[x] # None \/ participant'[x] # None

PersonStep(x) ==
  \/ participant'[x] = participant[x]
  \/ /\ participant[x] # None /\ participant'[x] # None
     /\ participant'[x].revision > participant[x].revision
  \/ /\ participant[x] = None /\ participant'[x] # None
     /\ \E s \in Slot : /\ request[s] # None /\ request'[s] = None
                        /\ request[s].op \in Creates /\ request[s].person = x

\* q is what the slot holds after its reads.
Read(s, q) ==
  /\ request[s] = None
  /\ request' = [request EXCEPT ![s] = q]
  /\ UNCHANGED <<project, participant, organization, assignment>>
  /\ q \in Request /\ Formed(q)
  /\ q.expected = project[q.project].revision
  /\ q.status = project[q.project].status
  /\ q.op \in Rereads => /\ q.entry = project[q.project].roster[q.person]
                         /\ participant[q.person] # None
  /\ q.op \in Holds => q.holder = participant[q.person]
  /\ q.op \in Creates => Fresh(q.person)

SlotStep(s) ==
  \/ request'[s] = request[s]
  \/ request'[s] = None
  \/ Read(s, request'[s])

Kept ==
  /\ TypeOK'
  /\ \A p \in Project : ProjectStep(p)
  /\ \A x \in Person : PersonStep(x)
  /\ \A s \in Slot : SlotStep(s)

LEMMA Unmoved ==
  /\ UNCHANGED project => \A p \in Project : ProjectStep(p)
  /\ UNCHANGED participant => \A x \in Person : PersonStep(x)
  /\ UNCHANGED request => \A s \in Slot : SlotStep(s)
BY DEF ProjectStep, PersonStep, SlotStep

LEMMA UpdatedParticipant ==
  ASSUME NEW holder \in Participant, NEW o \in Org
  PROVE  /\ Updated(holder, o) \in Participant
         /\ Updated(holder, o).revision > holder.revision
         /\ Moved(holder, o) \in Participant
         /\ \/ Moved(holder, o) = holder
            \/ Moved(holder, o).revision > holder.revision
BY DEF Updated, Moved, Participant

\* What the batch does to the participant of the request.
LEMMA ParticipantWritten ==
  ASSUME TypeOK, NEW q \in Request, Formed(q), Pinned(q)
  PROVE  /\ ParticipantEffect(q) \in [Person -> Participant \cup {None}]
         /\ \A x \in Person :
              LET was == participant[x]  is == ParticipantEffect(q)[x] IN
              \/ is = was
              \/ was # None /\ is # None /\ is.revision > was.revision
              \/ was = None /\ is # None /\ q.op \in Creates /\ x = q.person
         /\ q.op \in Creates => ParticipantEffect(q)[q.person] = [org |-> q.org, revision |-> 0]
         /\ q.op = "ADD_ENTRY" /\ participant[q.person].org = q.org =>
              ParticipantEffect(q) = participant
         /\ q.op \notin {"ADD_ENTRY", "UPDATE_PARTICIPANT"} \cup Creates =>
              ParticipantEffect(q) = participant
         /\ q.op = "UPDATE_PARTICIPANT" =>
              ParticipantEffect(q)[q.person].org = NextOrg(q.org, q.holder)
<1>. DEFINE after == ParticipantEffect(q)
<1>1. participant \in [Person -> Participant \cup {None}] /\ None \notin Participant
  BY RowsExist DEF TypeOK
<1>2. CASE q.op \in Creates
  <2>1. after = [participant EXCEPT ![q.person] = [org |-> q.org, revision |-> 0]]
    BY <1>2 DEF ParticipantEffect, Creates
  <2>2. q.person \in Person /\ [org |-> q.org, revision |-> 0] \in Participant
    BY <1>2 DEF Formed, Participant
  <2>3. participant[q.person] = None
    BY <1>2 DEF Pinned
  <2>. HIDE DEF after
  <2>4. /\ after \in [Person -> Participant \cup {None}]
        /\ after[q.person] = [org |-> q.org, revision |-> 0] /\ after[q.person] # None
        /\ \A x \in Person : x # q.person => after[x] = participant[x]
    BY <1>1, <2>1, <2>2
  <2>. QED
    BY <1>2, <2>3, <2>4 DEF after, Creates
<1>3. CASE q.op = "UPDATE_PARTICIPANT" \/ (q.op = "ADD_ENTRY" /\ q.entry = None)
  <2>. DEFINE to == IF q.op = "ADD_ENTRY" THEN Moved(q.holder, q.org)
                    ELSE Updated(q.holder, NextOrg(q.org, q.holder))
  <2>1. /\ q.holder \in Participant /\ participant[q.person] = q.holder /\ q.person \in Person
        /\ q.op = "ADD_ENTRY" => q.org \in Org
        /\ q.op = "UPDATE_PARTICIPANT" => q.org \in Org \cup {Keep}
    BY <1>3 DEF Formed, Pinned, Holds, Rereads
  <2>2. q.op = "UPDATE_PARTICIPANT" => NextOrg(q.org, q.holder) \in Org
    BY <2>1 DEF NextOrg, Participant
  <2>3. after = [participant EXCEPT ![q.person] = to]
    BY <1>3, <2>1 DEF ParticipantEffect
  <2>4. /\ to \in Participant
        /\ to = q.holder \/ to.revision > q.holder.revision
    BY <1>3, <2>1, <2>2, UpdatedParticipant
  <2>5. /\ q.op = "UPDATE_PARTICIPANT" => to.org = NextOrg(q.org, q.holder)
        /\ q.op = "ADD_ENTRY" /\ q.holder.org = q.org => to = q.holder
    BY DEF Updated, Moved
  <2>. HIDE DEF after, to
  <2>6. /\ after \in [Person -> Participant \cup {None}]
        /\ after[q.person] = to
        /\ \A x \in Person : x # q.person => after[x] = participant[x]
        /\ to = q.holder => after = participant
    BY <1>1, <2>1, <2>3, <2>4
  <2>. QED
    BY <1>1, <1>3, <2>1, <2>4, <2>5, <2>6 DEF after, Creates
<1>4. CASE q.op \notin Creates /\ q.op # "UPDATE_PARTICIPANT" /\ ~(q.op = "ADD_ENTRY" /\ q.entry = None)
  <2>1. after = participant
    BY <1>4 DEF ParticipantEffect, Creates
  <2>. HIDE DEF after
  <2>. QED
    BY <1>1, <1>4, <2>1 DEF after
<1>. QED
  BY <1>2, <1>3, <1>4

\* The batch of a request whose guard has passed.
LEMMA CommitStep ==
  ASSUME IInv, NEW s \in Slot, Commit(s)
  PROVE  LET q == request[s]  r == project[q.project]  f == project'[q.project] IN
         /\ Kept
         /\ q \in Request /\ Formed(q) /\ Pinned(q)
         /\ \A p \in Project : p # q.project => project'[p] = project[p]
         /\ f.status = Effect(q).status /\ f.linked = Effect(q).linked
         /\ f.snapshot = Effect(q).snapshot /\ f.roster = Effect(q).roster
         /\ f.corrected = (Effect(q).corrected \/ q.op \in Corrections)
         /\ q.op = "TRANSITION" => f.status = q.target
         /\ q.op # "TRANSITION" => f.status = r.status
         /\ (q.op = "TRANSITION" /\ Starts(q)) \/ SameExpected(r, f)
         /\ r.status # "PRE_REGISTRATION" => SameExpected(r, f)
         /\ q.op \in Creates \cup Rereads => f.roster[q.person] = EntryWritten(q)
<1>. USE DEF IInv
<1>. DEFINE q == request[s]
            r == project[q.project]
            f == Effect(q)
            c == r.corrected \/ q.op \in Corrections
            g == [f EXCEPT !.revision = @ + 1, !.corrected = @ \/ q.op \in Corrections]
<1>1. /\ q # None /\ Guard(q)
      /\ project' = [project EXCEPT ![q.project] = g]
      /\ participant' = ParticipantEffect(q)
      /\ request' = [request EXCEPT ![s] = None]
      /\ UNCHANGED <<organization, assignment>>
  BY DEF Commit
<1>2. q \in Request /\ Formed(q) /\ Pinned(q) /\ q.project \in Project
  BY <1>1, GuardPins DEF Request
<1>3. /\ f \in ProjectRow /\ f.revision = r.revision
      /\ \A x \in Person :
           f.roster[x] # None =>
             r.roster[x] # None \/ (q.op \in Creates \cup Rereads /\ x = q.person)
      /\ q.op = "TRANSITION" => f.status = q.target
      /\ q.op # "TRANSITION" => f.status = r.status
      /\ (q.op = "TRANSITION" /\ Starts(q)) \/ SameExpected(r, f)
      /\ q.op \in Creates \cup Rereads => f.roster[q.person] = EntryWritten(q)
  BY <1>2, EffectRow
<1>. HIDE DEF f
<1>4. /\ g \in ProjectRow /\ g.revision > r.revision
      /\ g.roster = f.roster /\ g.snapshot = f.snapshot
      /\ g.status = f.status /\ g.linked = f.linked
      /\ g.corrected = (f.corrected \/ q.op \in Corrections)
  <2>. DEFINE n == f.revision + 1
              b == f.corrected \/ q.op \in Corrections
  <2>1. n \in Nat /\ n > r.revision
    BY <1>3 DEF ProjectRow
  <2>2. b \in BOOLEAN
    OBVIOUS
  <2>3. g = [f EXCEPT !.revision = n, !.corrected = b]
    OBVIOUS
  <2>. HIDE DEF n, b, g
  <2>4. /\ g \in ProjectRow /\ g.revision > r.revision
        /\ g.roster = f.roster /\ g.snapshot = f.snapshot
        /\ g.status = f.status /\ g.linked = f.linked /\ g.corrected = b
    BY <1>3, <2>1, <2>2, <2>3 DEF ProjectRow
  <2>. QED
    BY <2>4 DEF b
<1>. HIDE DEF g
<1>5. /\ project' \in [Project -> ProjectRow]
      /\ project'[q.project] = g
      /\ \A p \in Project : p # q.project => project'[p] = project[p]
  BY <1>1, <1>2, <1>4 DEF TypeOK
<1>6. /\ participant' \in [Person -> Participant \cup {None}]
      /\ \A x \in Person :
           LET was == participant[x]  is == participant'[x] IN
           \/ is = was
           \/ was # None /\ is # None /\ is.revision > was.revision
           \/ was = None /\ is # None /\ q.op \in Creates /\ x = q.person
  BY <1>1, <1>2, ParticipantWritten
<1>7. /\ request' \in [Slot -> Request \cup {None}]
      /\ request'[s] = None
      /\ \A t \in Slot : t # s => request'[t] = request[t]
  BY <1>1 DEF TypeOK
<1>8. TypeOK'
  BY <1>1, <1>5, <1>6, <1>7 DEF TypeOK
<1>9. ASSUME NEW x \in Person
      PROVE  PersonStep(x)
  BY <1>1, <1>6, <1>7 DEF PersonStep
<1>10. ASSUME NEW x \in Person, q.op \in Creates \cup Rereads, x = q.person
       PROVE  participant'[x] # None
  <2>1. q.op \in Rereads => participant[x] # None
    BY <1>1, <1>10 DEF Requests, Seen
  <2>2. q.op \in Creates => participant'[x] = [org |-> q.org, revision |-> 0] /\ q.org \in Org
    BY <1>1, <1>2, <1>10, ParticipantWritten DEF Formed
  <2>3. [org |-> q.org, revision |-> 0] # None \/ q.org \notin Org
    BY RowsExist DEF Participant
  <2>. QED
    BY <1>6, <1>10, <2>1, <2>2, <2>3
<1>11. ASSUME NEW p \in Project
       PROVE  ProjectStep(p)
  <2>1. CASE p = q.project
    BY <1>3, <1>4, <1>5, <1>10, <2>1 DEF ProjectStep
  <2>2. CASE p # q.project
    BY <1>5, <2>2 DEF ProjectStep
  <2>. QED
    BY <2>1, <2>2
<1>12. ASSUME NEW t \in Slot
       PROVE  SlotStep(t)
  BY <1>7 DEF SlotStep
<1>13. Kept
  BY <1>8, <1>9, <1>11, <1>12 DEF Kept
<1>14. (q.op = "TRANSITION" /\ Starts(q)) \/ SameExpected(r, g)
  BY <1>3, <1>4 DEF SameExpected
<1>15. Starts(q) => r.status = "PRE_REGISTRATION"
  BY <1>2 DEF Starts, Pinned
<1>. HIDE DEF q, r
<1>. QED
  BY <1>2, <1>3, <1>4, <1>5, <1>13, <1>14, <1>15 DEF q, r, f

-----------------------------------------------------------------------------
(* What the handlers have read when they begin.                               *)

\* A call is a request that names nothing yet.
LEMMA CallRow ==
  ASSUME TypeOK, NEW op \in Ordinary \cup Corrections, NEW a \in Actor, NEW p \in Project
  PROVE  LET c == Call(op, a, p) IN
         /\ c \in Request
         /\ c.op = op /\ c.actor = a /\ c.project = p
         /\ c.expected = project[p].revision /\ c.status = project[p].status
         /\ c.person = None /\ c.entry = None /\ c.holder = None
<1>1. project[p] \in ProjectRow
  BY DEF TypeOK
<1>2. (IF a = Operator THEN 0 ELSE assignment[a].session) \in Nat
  BY DEF TypeOK, Actor
<1>. QED
  BY <1>1, <1>2 DEF Call, Request, ProjectRow

\* Requests of operators about the project itself.
LEMMA ProjectReads ==
  ASSUME IInv, NEW s \in Slot, NEW p \in Project, ProjectRequest(s, p)
  PROVE  \E q : Read(s, q)
<1>. USE DEF IInv
<1>1. Operator \in Actor /\ Operator \notin Manager
  BY RosterConstants DEF Actor
<1>2. ASSUME NEW q \in Request, Begin(s, q),
             q.op \in {"TRANSITION", "ADD_ORGS", "FIX_LINK", "EXCLUDE_ORG", "FIX_EXCLUDE"},
             q.actor = Operator, q.project = p,
             q.expected = project[p].revision, q.status = project[p].status,
             q.person = None, q.holder = None,
             q.op = "TRANSITION" => q.target \in {"IN_PROGRESS", "CLOSED"},
             q.op \in {"EXCLUDE_ORG", "FIX_EXCLUDE"} => q.org \in Org
      PROVE  Read(s, q)
  <2>1. Formed(q)
    BY <1>1, <1>2 DEF Formed, Creates, Rereads, Holds
  <2>. QED
    BY <1>2, <2>1 DEF Read, Begin, Creates, Rereads, Holds
<1>3. ASSUME ChangeProjectStatus(s, p)
      PROVE  \E q : Read(s, q)
  <2>. DEFINE c == Call("TRANSITION", Operator, p)
  <2>1. PICK to \in {"IN_PROGRESS", "CLOSED"} : Begin(s, [c EXCEPT !.target = to])
    BY <1>3 DEF ChangeProjectStatus
  <2>2. /\ c \in Request /\ c.op = "TRANSITION" /\ c.actor = Operator /\ c.project = p
        /\ c.expected = project[p].revision /\ c.status = project[p].status
        /\ c.person = None /\ c.entry = None /\ c.holder = None
    BY <1>1, CallRow DEF Ordinary
  <2>. DEFINE q == [c EXCEPT !.target = to]
  <2>. HIDE DEF c
  <2>3. /\ q \in Request /\ q.op = "TRANSITION" /\ q.actor = Operator /\ q.project = p
        /\ q.expected = project[p].revision /\ q.status = project[p].status
        /\ q.person = None /\ q.holder = None /\ q.target = to
    BY <2>2 DEF Request, Status
  <2>. HIDE DEF q
  <2>. QED
    BY <1>2, <2>1, <2>3 DEF q
<1>4. ASSUME NEW op \in {"ADD_ORGS", "FIX_LINK"}, NEW os \in SUBSET Org,
             Begin(s, [Call(op, Operator, p) EXCEPT !.orgs = os])
      PROVE  \E q : Read(s, q)
  <2>. DEFINE c == Call(op, Operator, p)
              q == [c EXCEPT !.orgs = os]
  <2>1. /\ c \in Request /\ c.op = op /\ c.actor = Operator /\ c.project = p
        /\ c.expected = project[p].revision /\ c.status = project[p].status
        /\ c.person = None /\ c.entry = None /\ c.holder = None
    BY <1>1, CallRow DEF Ordinary, Corrections
  <2>. HIDE DEF c
  <2>2. /\ q \in Request /\ q.op = op /\ q.actor = Operator /\ q.project = p
        /\ q.expected = project[p].revision /\ q.status = project[p].status
        /\ q.person = None /\ q.holder = None
    BY <2>1 DEF Request
  <2>3. Begin(s, q)
    BY <1>4 DEF c
  <2>. HIDE DEF q
  <2>. QED
    BY <1>2, <2>2, <2>3
<1>5. ASSUME NEW op \in {"EXCLUDE_ORG", "FIX_EXCLUDE"}, NEW o \in Org,
             Begin(s, [Call(op, Operator, p) EXCEPT !.org = o])
      PROVE  \E q : Read(s, q)
  <2>. DEFINE c == Call(op, Operator, p)
              q == [c EXCEPT !.org = o]
  <2>1. /\ c \in Request /\ c.op = op /\ c.actor = Operator /\ c.project = p
        /\ c.expected = project[p].revision /\ c.status = project[p].status
        /\ c.person = None /\ c.entry = None /\ c.holder = None
    BY <1>1, CallRow DEF Ordinary, Corrections
  <2>. HIDE DEF c
  <2>2. /\ q \in Request /\ q.op = op /\ q.actor = Operator /\ q.project = p
        /\ q.expected = project[p].revision /\ q.status = project[p].status
        /\ q.person = None /\ q.holder = None /\ q.org = o
    BY <2>1 DEF Request
  <2>3. Begin(s, q)
    BY <1>5 DEF c
  <2>. HIDE DEF q
  <2>. QED
    BY <1>2, <2>2, <2>3
<1>. QED
  BY <1>3, <1>4, <1>5 DEF ProjectRequest, AddProjectOrganizations,
     CorrectClosedProjectOrganizations, ExcludeProjectOrganization,
     ExcludeClosedProjectOrganization

\* A request about a person, once its kind has been looked at.
LEMMA Reading ==
  ASSUME IInv, NEW s \in Slot, NEW q, Begin(s, q),
         q.op \in Creates \cup Rereads, q.actor \in Actor,
         q.project \in Project, q.person \in Person,
         q \in Request,
         q.expected = project[q.project].revision, q.status = project[q.project].status,
         q.op \in Rereads => /\ q.entry = project[q.project].roster[q.person]
                             /\ participant[q.person] # None,
         IF q.op \in Holds THEN q.holder = participant[q.person] ELSE q.holder = None,
         q.op \in {"SET_ENTRY", "UPDATE_PARTICIPANT", "FIX_PATCH"} => q.entry # None,
         q.op \in Creates => Fresh(q.person),
         q.op \in {"ADD_ENTRY", "FIX_ADD"} \cup Creates => q.org \in Org,
         q.op \in {"UPDATE_PARTICIPANT", "FIX_PATCH"} => q.org \in Org \cup {Keep},
         q.op = "SET_ENTRY" => q.target \in {"ACTIVE", "CANCELLED"},
         q.op = "FIX_PATCH" => q.target \in {"ACTIVE", "CANCELLED", Keep},
         q.op \in {"ADD_ENTRY", "SET_ENTRY"} => Open(q.project),
         q.actor \in Manager =>
           /\ q.op \in {"ADD_ENTRY", "SET_ENTRY", "CREATE_PARTICIPANT", "UPDATE_PARTICIPANT"}
           /\ q.op = "UPDATE_PARTICIPANT" => NextOrg(q.org, q.holder) = q.holder.org
  PROVE  Read(s, q)
<1>1. q.entry \in Entry \cup {None} /\ q.holder \in Participant \cup {None}
  BY DEF Request
<1>2. q.op \in Holds => q.holder \in Participant
  BY <1>1 DEF Holds, Rereads
<1>3. Formed(q)
  BY <1>1, <1>2 DEF Formed, Creates, Rereads, Holds, Open
<1>. QED
  BY <1>3 DEF Read, Begin

\* Requests about an entry or a participant.
LEMMA RosterReads ==
  ASSUME IInv, NEW s \in Slot, NEW p \in Project, NEW x \in Person, RosterRequest(s, p, x)
  PROVE  \E q : Read(s, q)
<1>. DEFINE existing == project[p].roster[x]
            holder == participant[x]
<1>1. Operator \in Actor /\ Operator \notin Manager
  BY RosterConstants DEF Actor
<1>2. /\ existing \in Entry \cup {None} /\ holder \in Participant \cup {None}
      /\ existing # None => holder # None
  BY DEF IInv, TypeOK, ProjectRow, Registered
<1>3. ASSUME NEW op \in Ordinary \cup Corrections, NEW a \in Actor
      PROVE  LET c == Call(op, a, p) IN
             /\ c \in Request
             /\ c.op = op /\ c.actor = a /\ c.project = p
             /\ c.expected = project[p].revision /\ c.status = project[p].status
             /\ c.person = None /\ c.entry = None /\ c.holder = None
  BY CallRow DEF IInv
<1>4. ASSUME PatchClosedProjectRoster(s, p, x)
      PROVE  \E q : Read(s, q)
  <2>. DEFINE c == Call("FIX_PATCH", Operator, p)
  <2>1. PICK org \in Org \cup {Keep}, to \in {"ACTIVE", "CANCELLED", Keep} :
          Begin(s, [c EXCEPT !.person = x, !.entry = existing, !.org = org, !.target = to])
    BY <1>4 DEF PatchClosedProjectRoster
  <2>2. existing # None
    BY <1>4 DEF PatchClosedProjectRoster
  <2>3. /\ c \in Request /\ c.op = "FIX_PATCH" /\ c.actor = Operator /\ c.project = p
        /\ c.expected = project[p].revision /\ c.status = project[p].status
        /\ c.person = None /\ c.entry = None /\ c.holder = None
    BY <1>1, <1>3 DEF Ordinary, Corrections
  <2>. DEFINE q == [c EXCEPT !.person = x, !.entry = existing, !.org = org, !.target = to]
  <2>. HIDE DEF c, existing, holder
  <2>4. /\ q.op = "FIX_PATCH" /\ q.actor = Operator /\ q.project = p
        /\ q.expected = project[p].revision /\ q.status = project[p].status
        /\ q.person = x
        /\ q.entry = existing /\ q.org = org /\ q.target = to /\ q.holder = None
    BY <2>3 DEF Request
  <2>5. q \in Request
    BY <1>2, <2>1, <2>3 DEF Request
  <2>. HIDE DEF q
  <2>6. Read(s, q)
    BY <1>1, <1>2, <2>1, <2>2, <2>4, <2>5, Reading
       DEF q, existing, holder, Creates, Rereads, Holds
  <2>. QED
    BY <2>6
<1>5. ASSUME NEW o \in Org, AddExistingParticipantToClosedProject(s, p, x, o)
      PROVE  \E q : Read(s, q)
  <2>. DEFINE c == Call("FIX_ADD", Operator, p)
  <2>1. Begin(s, [c EXCEPT !.person = x, !.org = o, !.entry = existing, !.holder = holder])
    BY <1>5 DEF AddExistingParticipantToClosedProject
  <2>2. holder # None
    BY <1>5 DEF AddExistingParticipantToClosedProject
  <2>3. /\ c \in Request /\ c.op = "FIX_ADD" /\ c.actor = Operator /\ c.project = p
        /\ c.expected = project[p].revision /\ c.status = project[p].status
        /\ c.person = None /\ c.entry = None /\ c.holder = None
    BY <1>1, <1>3 DEF Ordinary, Corrections
  <2>. DEFINE q == [c EXCEPT !.person = x, !.org = o, !.entry = existing, !.holder = holder]
  <2>. HIDE DEF c, existing, holder
  <2>4. /\ q.op = "FIX_ADD" /\ q.actor = Operator /\ q.project = p
        /\ q.expected = project[p].revision /\ q.status = project[p].status
        /\ q.person = x
        /\ q.entry = existing /\ q.org = o /\ q.holder = holder
    BY <2>3 DEF Request
  <2>5. q \in Request
    BY <1>2, <2>1, <2>3 DEF Request
  <2>. HIDE DEF q
  <2>6. Read(s, q)
    BY <1>1, <1>2, <2>1, <2>2, <2>4, <2>5, Reading
       DEF q, existing, holder, Creates, Rereads, Holds
  <2>. QED
    BY <2>6
<1>6. ASSUME NEW o \in Org, CreateClosedProjectParticipantAndRoster(s, p, x, o)
      PROVE  \E q : Read(s, q)
  <2>. DEFINE c == Call("FIX_CREATE", Operator, p)
  <2>1. Begin(s, [c EXCEPT !.person = x, !.org = o])
    BY <1>6 DEF CreateClosedProjectParticipantAndRoster
  <2>2. Fresh(x)
    BY <1>6 DEF CreateClosedProjectParticipantAndRoster
  <2>3. /\ c \in Request /\ c.op = "FIX_CREATE" /\ c.actor = Operator /\ c.project = p
        /\ c.expected = project[p].revision /\ c.status = project[p].status
        /\ c.person = None /\ c.entry = None /\ c.holder = None
    BY <1>1, <1>3 DEF Ordinary, Corrections
  <2>. DEFINE q == [c EXCEPT !.person = x, !.org = o]
  <2>. HIDE DEF c, existing, holder
  <2>4. /\ q.op = "FIX_CREATE" /\ q.actor = Operator /\ q.project = p
        /\ q.expected = project[p].revision /\ q.status = project[p].status
        /\ q.person = x
        /\ q.entry = None /\ q.org = o /\ q.holder = None
    BY <2>3 DEF Request
  <2>5. q \in Request
    BY <1>2, <2>1, <2>3 DEF Request
  <2>. HIDE DEF q
  <2>6. Read(s, q)
    BY <1>1, <1>2, <2>1, <2>2, <2>4, <2>5, Reading
       DEF q, existing, holder, Creates, Rereads, Holds
  <2>. QED
    BY <2>6
<1>7. ASSUME NEW a \in Actor, UpdateRosterEntry(s, a, p, x)
      PROVE  \E q : Read(s, q)
  <2>. DEFINE c == Call("SET_ENTRY", a, p)
  <2>1. PICK to \in {"ACTIVE", "CANCELLED"} :
          Begin(s, [c EXCEPT !.person = x, !.entry = existing, !.target = to])
    BY <1>7 DEF UpdateRosterEntry
  <2>2. existing # None /\ Open(p)
    BY <1>7 DEF UpdateRosterEntry
  <2>3. /\ c \in Request /\ c.op = "SET_ENTRY" /\ c.actor = a /\ c.project = p
        /\ c.expected = project[p].revision /\ c.status = project[p].status
        /\ c.person = None /\ c.entry = None /\ c.holder = None
    BY <1>1, <1>3 DEF Ordinary, Corrections
  <2>. DEFINE q == [c EXCEPT !.person = x, !.entry = existing, !.target = to]
  <2>. HIDE DEF c, existing, holder
  <2>4. /\ q.op = "SET_ENTRY" /\ q.actor = a /\ q.project = p
        /\ q.expected = project[p].revision /\ q.status = project[p].status
        /\ q.person = x
        /\ q.entry = existing /\ q.target = to /\ q.holder = None
    BY <2>3 DEF Request
  <2>5. q \in Request
    BY <1>2, <2>1, <2>3 DEF Request
  <2>. HIDE DEF q
  <2>6. Read(s, q)
    BY <1>1, <1>2, <2>1, <2>2, <2>4, <2>5, Reading
       DEF q, existing, holder, Creates, Rereads, Holds
  <2>. QED
    BY <2>6
<1>8. ASSUME NEW a \in Actor, UpdateProjectParticipant(s, a, p, x)
      PROVE  \E q : Read(s, q)
  <2>. DEFINE c == Call("UPDATE_PARTICIPANT", a, p)
  <2>1. PICK org \in Org \cup {Keep} :
          /\ a \in Manager => NextOrg(org, holder) = holder.org
          /\ Begin(s, [c EXCEPT !.person = x, !.org = org, !.entry = existing, !.holder = holder])
    BY <1>8 DEF UpdateProjectParticipant
  <2>2. existing # None
    BY <1>8 DEF UpdateProjectParticipant
  <2>3. /\ c \in Request /\ c.op = "UPDATE_PARTICIPANT" /\ c.actor = a /\ c.project = p
        /\ c.expected = project[p].revision /\ c.status = project[p].status
        /\ c.person = None /\ c.entry = None /\ c.holder = None
    BY <1>1, <1>3 DEF Ordinary, Corrections
  <2>. DEFINE q == [c EXCEPT !.person = x, !.org = org, !.entry = existing, !.holder = holder]
  <2>. HIDE DEF c, existing, holder
  <2>4. /\ q.op = "UPDATE_PARTICIPANT" /\ q.actor = a /\ q.project = p
        /\ q.expected = project[p].revision /\ q.status = project[p].status
        /\ q.person = x
        /\ q.entry = existing /\ q.org = org /\ q.holder = holder
    BY <2>3 DEF Request
  <2>5. q \in Request
    BY <1>2, <2>1, <2>3 DEF Request
  <2>. HIDE DEF q
  <2>6. Read(s, q)
    BY <1>1, <1>2, <2>1, <2>2, <2>4, <2>5, Reading
       DEF q, existing, holder, Creates, Rereads, Holds
  <2>. QED
    BY <2>6
<1>9. ASSUME NEW a \in Actor, NEW o \in Org, AddRosterEntry(s, a, p, x, o)
      PROVE  \E q : Read(s, q)
  <2>. DEFINE c == Call("ADD_ENTRY", a, p)
  <2>1. Begin(s, [c EXCEPT !.person = x, !.org = o, !.entry = existing, !.holder = holder])
    BY <1>9 DEF AddRosterEntry
  <2>2. holder # None /\ Open(p)
    BY <1>9 DEF AddRosterEntry
  <2>3. /\ c \in Request /\ c.op = "ADD_ENTRY" /\ c.actor = a /\ c.project = p
        /\ c.expected = project[p].revision /\ c.status = project[p].status
        /\ c.person = None /\ c.entry = None /\ c.holder = None
    BY <1>1, <1>3 DEF Ordinary, Corrections
  <2>. DEFINE q == [c EXCEPT !.person = x, !.org = o, !.entry = existing, !.holder = holder]
  <2>. HIDE DEF c, existing, holder
  <2>4. /\ q.op = "ADD_ENTRY" /\ q.actor = a /\ q.project = p
        /\ q.expected = project[p].revision /\ q.status = project[p].status
        /\ q.person = x
        /\ q.entry = existing /\ q.org = o /\ q.holder = holder
    BY <2>3 DEF Request
  <2>5. q \in Request
    BY <1>2, <2>1, <2>3 DEF Request
  <2>. HIDE DEF q
  <2>6. Read(s, q)
    BY <1>1, <1>2, <2>1, <2>2, <2>4, <2>5, Reading
       DEF q, existing, holder, Creates, Rereads, Holds
  <2>. QED
    BY <2>6
<1>10. ASSUME NEW a \in Actor, NEW o \in Org, CreateParticipant(s, a, p, x, o)
      PROVE  \E q : Read(s, q)
  <2>. DEFINE c == Call("CREATE_PARTICIPANT", a, p)
  <2>1. Begin(s, [c EXCEPT !.person = x, !.org = o])
    BY <1>10 DEF CreateParticipant
  <2>2. Fresh(x)
    BY <1>10 DEF CreateParticipant
  <2>3. /\ c \in Request /\ c.op = "CREATE_PARTICIPANT" /\ c.actor = a /\ c.project = p
        /\ c.expected = project[p].revision /\ c.status = project[p].status
        /\ c.person = None /\ c.entry = None /\ c.holder = None
    BY <1>1, <1>3 DEF Ordinary, Corrections
  <2>. DEFINE q == [c EXCEPT !.person = x, !.org = o]
  <2>. HIDE DEF c, existing, holder
  <2>4. /\ q.op = "CREATE_PARTICIPANT" /\ q.actor = a /\ q.project = p
        /\ q.expected = project[p].revision /\ q.status = project[p].status
        /\ q.person = x
        /\ q.entry = None /\ q.org = o /\ q.holder = None
    BY <2>3 DEF Request
  <2>5. q \in Request
    BY <1>2, <2>1, <2>3 DEF Request
  <2>. HIDE DEF q
  <2>6. Read(s, q)
    BY <1>1, <1>2, <2>1, <2>2, <2>4, <2>5, Reading
       DEF q, existing, holder, Creates, Rereads, Holds
  <2>. QED
    BY <2>6
<1>. QED
  BY <1>4, <1>5, <1>6, <1>7, <1>8, <1>9, <1>10 DEF RosterRequest

\* What a slot reads, no other slot and no table notices.
LEMMA ReadStep ==
  ASSUME IInv, NEW s \in Slot, NEW q, Read(s, q)
  PROVE  Kept
<1>. USE DEF IInv
<1>1. /\ request' \in [Slot -> Request \cup {None}]
      /\ request'[s] = q
      /\ \A t \in Slot : t # s => request'[t] = request[t]
  BY DEF Read, TypeOK
<1>2. TypeOK'
  BY <1>1 DEF Read, TypeOK
<1>3. \A p \in Project : ProjectStep(p)
  BY Unmoved DEF Read
<1>4. \A x \in Person : PersonStep(x)
  BY Unmoved DEF Read
<1>5. ASSUME NEW t \in Slot
      PROVE  SlotStep(t)
  BY <1>1 DEF SlotStep
<1>. QED
  BY <1>2, <1>3, <1>4, <1>5 DEF Kept

\* Every step keeps the types, moves revisions forward with what they guard, and
\* puts into a slot only what it has just read.
LEMMA NextStep ==
  ASSUME IInv, [Next]_vars
  PROVE  Kept
<1>. USE DEF IInv
<1>1. ASSUME UNCHANGED vars
      PROVE  Kept
  <2>1. TypeOK'
    BY <1>1 DEF vars, TypeOK
  <2>. QED
    BY <1>1, <2>1, Unmoved DEF vars, Kept
<1>2. ASSUME NEW o \in Org, SetOrganization(o)
      PROVE  Kept
  <2>1. TypeOK'
    BY <1>2 DEF SetOrganization, TypeOK
  <2>. QED
    BY <1>2, <2>1, Unmoved DEF SetOrganization, Kept
<1>3. ASSUME NEW o \in Org, NEW m \in Manager, SetAssignment(m, o)
      PROVE  Kept
  <2>. DEFINE orgs == IF o \in assignment[m].orgs THEN assignment[m].orgs \ {o}
                      ELSE assignment[m].orgs \cup {o}
              n == assignment[m].session + 1
  <2>1. assignment[m] \in [orgs: SUBSET Org, session: Nat]
    BY DEF TypeOK
  <2>2. orgs \in SUBSET Org /\ n \in Nat
    BY <2>1
  <2>3. assignment' = [assignment EXCEPT ![m].orgs = orgs, ![m].session = n]
    BY <1>3 DEF SetAssignment
  <2>. HIDE DEF orgs, n
  <2>4. assignment' \in [Manager -> [orgs: SUBSET Org, session: Nat]]
    BY <2>2, <2>3 DEF TypeOK
  <2>5. TypeOK'
    BY <1>3, <2>4 DEF SetAssignment, TypeOK
  <2>. QED
    BY <1>3, <2>5, Unmoved DEF SetAssignment, Kept
<1>4. ASSUME NEW x \in Person, MoveElsewhere(x)
      PROVE  Kept
  <2>1. participant[x] \in Participant /\ None \notin Participant
    BY <1>4, RowsExist DEF MoveElsewhere, TypeOK
  <2>2. PICK o \in Org : \/ participant' = [participant EXCEPT ![x] = Updated(participant[x], o)]
                         \/ participant' = [participant EXCEPT ![x] = Moved(participant[x], o)]
    BY <1>4 DEF MoveElsewhere
  <2>3. PICK new \in Participant :
          /\ participant' = [participant EXCEPT ![x] = new]
          /\ new = participant[x] \/ new.revision > participant[x].revision
    BY <2>1, <2>2, UpdatedParticipant
  <2>4. /\ participant' \in [Person -> Participant \cup {None}]
        /\ participant'[x] = new
        /\ \A y \in Person : y # x => participant'[y] = participant[y]
    BY <2>3 DEF TypeOK
  <2>5. TypeOK'
    BY <1>4, <2>4 DEF MoveElsewhere, TypeOK
  <2>6. ASSUME NEW y \in Person
        PROVE  PersonStep(y)
    BY <2>1, <2>3, <2>4 DEF PersonStep
  <2>. QED
    BY <1>4, <2>5, <2>6, Unmoved DEF MoveElsewhere, Kept
<1>5. ASSUME NEW p \in Project, AutoClose(p)
      PROVE  Kept
  <2>. DEFINE r == project[p]
              n == r.revision + 1
              f == [r EXCEPT !.status = "CLOSED", !.revision = n]
  <2>1. r \in ProjectRow
    BY DEF TypeOK
  <2>2. n \in Nat /\ n > r.revision
    BY <2>1 DEF ProjectRow
  <2>3. project' = [project EXCEPT ![p] = f]
    BY <1>5 DEF AutoClose
  <2>. HIDE DEF n, r
  <2>4. f \in ProjectRow /\ f.revision > r.revision /\ f.roster = r.roster
    BY <2>1, <2>2 DEF ProjectRow, Status
  <2>. HIDE DEF f
  <2>5. /\ project' \in [Project -> ProjectRow]
        /\ project'[p] = f
        /\ \A k \in Project : k # p => project'[k] = project[k]
    BY <2>3, <2>4 DEF TypeOK
  <2>6. TypeOK'
    BY <1>5, <2>5 DEF AutoClose, TypeOK
  <2>7. ASSUME NEW k \in Project
        PROVE  ProjectStep(k)
    BY <2>4, <2>5 DEF ProjectStep, r
  <2>. QED
    BY <1>5, <2>6, <2>7, Unmoved DEF AutoClose, Kept
<1>6. ASSUME NEW s \in Slot, Commit(s)
      PROVE  Kept
  BY <1>6, CommitStep
<1>7. ASSUME NEW s \in Slot, Fail(s)
      PROVE  Kept
  <2>1. TypeOK'
    BY <1>7 DEF Fail, TypeOK
  <2>2. ASSUME NEW t \in Slot
        PROVE  SlotStep(t)
    BY <1>7 DEF Fail, TypeOK, SlotStep
  <2>. QED
    BY <1>7, <2>1, <2>2, Unmoved DEF Fail, Kept
<1>8. ASSUME NEW s \in Slot, NEW p \in Project, ProjectRequest(s, p)
      PROVE  Kept
  BY <1>8, ProjectReads, ReadStep
<1>9. ASSUME NEW s \in Slot, NEW p \in Project, NEW x \in Person, RosterRequest(s, p, x)
      PROVE  Kept
  BY <1>9, RosterReads, ReadStep
<1>. QED
  BY <1>1, <1>2, <1>3, <1>4, <1>5, <1>6, <1>7, <1>8, <1>9 DEF Next

-----------------------------------------------------------------------------
(* The invariant.                                                             *)

LEMMA InitInv ==
  ASSUME Init
  PROVE  IInv
<1>. DEFINE r == [status |-> "PRE_REGISTRATION", revision |-> 0, corrected |-> FALSE,
                  linked |-> [o \in Org |-> "NONE"], snapshot |-> [o \in Org |-> None],
                  roster |-> [x \in Person |-> None]]
<1>1. r \in ProjectRow
  BY DEF ProjectRow, Status, Link
<1>2. project = [p \in Project |-> r]
  BY DEF Init
<1>. HIDE DEF r
<1>3. project \in [Project -> ProjectRow]
  BY <1>1, <1>2
<1>4. TypeOK
  BY <1>3 DEF Init, TypeOK
<1>5. Requests /\ Apart
  BY DEF Init, Requests, Apart
<1>6. Registered
  BY DEF Init, Registered
<1>. QED
  BY <1>4, <1>5, <1>6 DEF IInv

\* What a waiting request has seen stays what there is, or becomes older.
LEMMA SeenStays ==
  ASSUME IInv, Kept, NEW s \in Slot, request[s] # None, request'[s] = request[s]
  PROVE  Formed(request[s]) /\ Seen(request[s])'
<1>. USE DEF IInv
<1>. DEFINE q == request[s]
            r == project[q.project]
            f == project'[q.project]
            x == q.person
            was == participant[x]
            is == participant'[x]
<1>1. q \in Request /\ Formed(q) /\ Seen(q) /\ q.project \in Project
  BY DEF TypeOK, Requests, Request
<1>2. q.expected <= f.revision /\ (q.expected = f.revision => f = r)
  <2>1. r \in ProjectRow /\ f \in ProjectRow /\ (f = r \/ f.revision > r.revision)
    BY <1>1 DEF Kept, TypeOK, ProjectStep
  <2>2. q.expected \in Nat /\ q.expected <= r.revision
    BY <1>1 DEF Request, Seen
  <2>3. r.revision \in Nat /\ f.revision \in Nat
    BY <2>1 DEF ProjectRow
  <2>. HIDE DEF q, r, f
  <2>. QED
    BY <2>1, <2>2, <2>3
<1>3. q.op \in Creates \cup Rereads => x \in Person
  BY <1>1 DEF Formed
<1>4. q.op \in Creates \cup Rereads =>
        \/ is = was
        \/ was # None /\ is # None /\ is.revision > was.revision
        \/ was = None /\ is # None
  BY <1>3 DEF Kept, PersonStep
<1>5. q.op \in Creates => is = None
  <2>. SUFFICES ASSUME q.op \in Creates, is # None
                PROVE  FALSE
    OBVIOUS
  <2>1. was = None /\ x \in Person
    BY <1>1, <1>3 DEF Seen
  <2>2. PICK t \in Slot : /\ request[t] # None /\ request'[t] = None
                          /\ request[t].op \in Creates /\ request[t].person = x
    BY <2>1 DEF Kept, PersonStep
  <2>. QED
    BY <2>2 DEF Apart
<1>6. q.op \in Rereads => was # None /\ is # None
  BY <1>1, <1>4 DEF Seen
<1>7. ASSUME q.op \in Holds
      PROVE  /\ q.holder.revision <= is.revision
             /\ q.holder.revision = is.revision => is = q.holder
  <2>1. /\ q.holder \in Participant /\ q.holder.revision <= was.revision
        /\ q.holder.revision = was.revision => was = q.holder
    BY <1>1, <1>7 DEF Formed, Seen
  <2>2. was \in Participant /\ is \in Participant /\ was # None
    BY <1>3, <1>6, <1>7 DEF Kept, TypeOK, Holds, Rereads
  <2>3. q.holder.revision \in Nat /\ was.revision \in Nat /\ is.revision \in Nat
    BY <2>1, <2>2 DEF Participant
  <2>4. is = was \/ is.revision > was.revision
    BY <1>4, <1>7, <2>2 DEF Holds, Rereads
  <2>. HIDE DEF q, was, is
  <2>. QED
    BY <2>1, <2>3, <2>4
<1>8. q.expected = f.revision =>
        /\ f.status = q.status
        /\ q.op \in Rereads => f.roster[x] = q.entry
  BY <1>1, <1>2 DEF Seen
<1>. QED
  BY <1>1, <1>2, <1>5, <1>6, <1>7, <1>8 DEF Seen

\* What a request has just read is what there is.
LEMMA SeenFirst ==
  ASSUME IInv, NEW s \in Slot, Read(s, request'[s])
  PROVE  Formed(request'[s]) /\ Seen(request[s])'
<1>. DEFINE q == request'[s]
<1>1. q \in Request /\ Formed(q) /\ q.expected = project[q.project].revision
  BY DEF Read
<1>2. q.expected \in Nat
  BY <1>1 DEF Request
<1>3. q.op \in Holds => q.holder = participant[q.person] /\ q.holder.revision \in Nat
  BY <1>1 DEF Read, Formed, Participant
<1>4. q.op \in Creates => participant[q.person] = None
  BY DEF Read, Fresh
<1>. QED
  BY <1>1, <1>2, <1>3, <1>4 DEF Read, Seen

LEMMA StepInv ==
  ASSUME IInv, [Next]_vars
  PROVE  IInv'
<1>. USE DEF IInv
<1>1. Kept
  BY NextStep
<1>3. Requests'
  <2>. SUFFICES ASSUME NEW s \in Slot, request'[s] # None
                PROVE  Formed(request'[s]) /\ Seen(request[s])'
    BY DEF Requests
  <2>1. CASE request'[s] = request[s]
    BY <1>1, <2>1, SeenStays
  <2>2. CASE Read(s, request'[s])
    BY <2>2, SeenFirst
  <2>. QED
    BY <1>1, <2>1, <2>2 DEF Kept, SlotStep
<1>4. Apart'
  <2>. SUFFICES ASSUME NEW s \in Slot, NEW t \in Slot, s # t,
                       request'[s] # None, request'[t] # None,
                       request'[s].op \in Creates,
                       request'[t].person = request'[s].person
                PROVE  FALSE
    BY DEF Apart
  <2>1. CASE request'[s] = request[s] /\ request'[t] = request[t]
    BY <2>1 DEF Apart
  <2>2. CASE Read(s, request'[s])
    <3>1. request'[t] = request[t] /\ Fresh(request'[s].person)
      BY <2>2 DEF Read, TypeOK
    <3>. QED
      BY <3>1 DEF Fresh
  <2>3. CASE Read(t, request'[t])
    <3>1. request'[s] = request[s]
      BY <2>3 DEF Read, TypeOK
    <3>2. Formed(request'[s]) /\ Seen(request[s])
      BY <3>1 DEF Requests
    <3>3. request'[s].person \in Person /\ participant[request'[s].person] = None
      BY <3>1, <3>2 DEF Formed, Seen
    <3>4. request'[t].op \in Creates \cup Rereads
      BY <2>3, <3>3, RosterConstants DEF Read, Formed
    <3>5. CASE request'[t].op \in Rereads
      BY <2>3, <3>3, <3>5 DEF Read
    <3>6. CASE request'[t].op \in Creates
      BY <2>3, <3>1, <3>6 DEF Read, Fresh
    <3>. QED
      BY <3>4, <3>5, <3>6
  <2>. QED
    BY <1>1, <2>1, <2>2, <2>3 DEF Kept, SlotStep
<1>5. Registered'
  <2>. SUFFICES ASSUME NEW p \in Project, NEW x \in Person, project'[p].roster[x] # None
                PROVE  participant'[x] # None
    BY DEF Registered
  <2>1. project[p].roster[x] # None \/ participant'[x] # None
    BY <1>1 DEF Kept, ProjectStep
  <2>2. participant[x] # None \/ participant'[x] # None
    BY <2>1 DEF Registered
  <2>. QED
    BY <1>1, <2>2 DEF Kept, PersonStep
<1>6. TypeOK'
  BY <1>1 DEF Kept
<1>. QED
  BY <1>3, <1>4, <1>5, <1>6

\* Always: what waiting requests have read is what there is or older, the ids of
\* participants to be created are nobody else's, and entries have participants.
LEMMA Invariant == Spec => []IInv
<1>1. Init => IInv
  BY InitInv
<1>2. IInv /\ [Next]_vars => IInv'
  BY StepInv
<1>. QED
  BY <1>1, <1>2, PTL DEF Spec

-----------------------------------------------------------------------------
(* The theorems.                                                              *)

\* Every value stays of its type: no batch writes an entry, a participant or a count
\* that the tables could not hold, and no request holds what it cannot have read.
THEOREM TypeCorrect == Spec => []TypeOK
<1>1. IInv => TypeOK
  BY DEF IInv
<1>. QED
  BY <1>1, Invariant, PTL

\* When the guard of a batch passes, the project, the entry and the participant are
\* what the handler read: nothing merged from these reads overwrites a newer value,
\* whatever other projects, operators and managers have done in between.
THEOREM ReadsArePinned == Spec => []ReadsPinned
<1>1. ASSUME IInv
      PROVE  ReadsPinned
  <2>. SUFFICES ASSUME NEW s \in Slot, request[s] # None, Guard(request[s])
                PROVE  LET q == request[s] IN
                       /\ project[q.project].status = q.status
                       /\ q.person # None /\ q.op \notin {"CREATE_PARTICIPANT", "FIX_CREATE"} =>
                            project[q.project].roster[q.person] = q.entry
                       /\ q.holder # None => participant[q.person] = q.holder
    BY DEF ReadsPinned
  <2>1. Formed(request[s]) /\ Pinned(request[s])
    BY <1>1, GuardPins
  <2>. QED
    BY <2>1 DEF Formed, Pinned, Creates
<1>. QED
  BY <1>1, Invariant, PTL

\* A step leaves the projects alone, or closes one by its date, or commits a batch.
LEMMA ProjectWriters ==
  ASSUME IInv, [Next]_vars
  PROVE  \/ UNCHANGED project
         \/ \E p \in Project : AutoClose(p)
         \/ \E s \in Slot : Commit(s)
<1>1. ASSUME NEW s \in Slot, NEW p \in Project,
             ProjectRequest(s, p) \/ \E x \in Person : RosterRequest(s, p, x)
      PROVE  UNCHANGED project
  BY <1>1, ProjectReads, RosterReads DEF Read
<1>. QED
  BY <1>1 DEF Next, vars, SetOrganization, SetAssignment, MoveElsewhere, Fail

\* Once a project has left pre-registration, no step changes the expected counts or who
\* was expected: not a second start after a reopening, a correction or a comeback.
THEOREM ExpectedStaysFrozen == Spec => ExpectedFrozen
<1>. DEFINE Frozen(p) ==
       project[p].status # "PRE_REGISTRATION" => SameExpected(project[p], project'[p])
<1>1. ASSUME IInv, [Next]_vars, NEW p \in Project
      PROVE  Frozen(p)
  <2>1. project[p] \in ProjectRow
    BY <1>1 DEF IInv, TypeOK
  <2>2. CASE UNCHANGED project
    BY <2>1, <2>2, SameRoster
  <2>3. ASSUME NEW k \in Project, AutoClose(k)
        PROVE  Frozen(p)
    <3>1. /\ project'[p].snapshot = project[p].snapshot
          /\ project'[p].roster = project[p].roster
      BY <1>1, <2>3 DEF AutoClose, IInv, TypeOK, ProjectRow
    <3>. QED
      BY <2>1, <3>1, SameRoster
  <2>4. ASSUME NEW s \in Slot, Commit(s)
        PROVE  Frozen(p)
    <3>1. CASE p = request[s].project
      BY <1>1, <2>4, <3>1, CommitStep
    <3>2. CASE p # request[s].project
      <4>1. project'[p] = project[p]
        BY <1>1, <2>4, <3>2, CommitStep
      <4>. QED
        BY <2>1, <4>1, SameRoster
    <3>. QED
      BY <3>1, <3>2
  <2>. QED
    BY <1>1, <2>2, <2>3, <2>4, ProjectWriters
<1>2. IInv /\ [Next]_vars =>
        \A p \in Project :
          project[p].status # "PRE_REGISTRATION" =>
            /\ project'[p].snapshot = project[p].snapshot
            /\ \A x \in Person :
                 project'[p].roster[x] # None =>
                   project'[p].roster[x].expected =
                     (project[p].roster[x] # None /\ project[p].roster[x].expected)
  BY <1>1 DEF SameExpected
<1>. QED
  BY <1>2, Invariant, PTL DEF Spec, ExpectedFrozen

\* The rows a batch of a manager replaces and writes are of organizations in scope.
LEMMA ManagerBatch ==
  ASSUME IInv, NEW s \in Slot, Commit(s), request[s].actor \in Manager
  PROVE  LET q == request[s]
             x == q.person
             touched == {project[q.project].roster[x], project'[q.project].roster[x]}
               \cup IF participant' = participant THEN {}
                    ELSE {participant[x], participant'[x]}
         IN \A row \in touched \ {None} : InScope(q.actor, q.project, row.org)
<1>. DEFINE q == request[s]
            x == q.person
            was == project[q.project].roster[x]
            is == project'[q.project].roster[x]
            touched == {was, is} \cup IF participant' = participant THEN {}
                                      ELSE {participant[x], participant'[x]}
            Fits(o) == InScope(q.actor, q.project, o)
<1>1. /\ q \in Request /\ Formed(q) /\ Pinned(q)
      /\ q.op \in Creates \cup Rereads => is = EntryWritten(q)
  BY CommitStep
<1>2. Guard(q) /\ participant' = ParticipantEffect(q)
  BY DEF Commit
<1>3. q.op \in {"ADD_ENTRY", "SET_ENTRY", "CREATE_PARTICIPANT", "UPDATE_PARTICIPANT"}
  BY <1>1 DEF Formed
<1>4. OrdinaryGuard(project[q.project], q)
  BY <1>2, <1>3 DEF Guard, CorrectionGuard
<1>5. /\ q.op \in Creates => is.org = q.org
      /\ q.op = "ADD_ENTRY" => is.org = IF q.entry = None THEN q.org ELSE q.entry.org
      /\ q.op = "SET_ENTRY" => is.org = q.entry.org
      /\ q.op = "UPDATE_PARTICIPANT" => is.org = NextOrg(q.org, q.holder)
  BY <1>1, <1>3, Written DEF IInv, Creates, Rereads
<1>6. CASE q.op = "ADD_ENTRY"
  <2>. DEFINE home == IF q.entry = None THEN q.org ELSE q.entry.org
  <2>1. Fits(home) /\ participant[x].org = q.org
    BY <1>4, <1>6 DEF OrdinaryGuard, AddEntryGuard, Scoped
  <2>2. participant' = participant
    BY <1>1, <1>2, <1>6, <2>1, ParticipantWritten DEF IInv
  <2>3. was = q.entry
    BY <1>1, <1>6 DEF Pinned, Rereads
  <2>. QED
    BY <1>5, <1>6, <2>1, <2>2, <2>3
<1>7. CASE q.op = "SET_ENTRY"
  <2>1. Fits(q.entry.org)
    BY <1>4, <1>7 DEF OrdinaryGuard, SetEntryGuard, Scoped
  <2>2. participant' = participant
    BY <1>1, <1>2, <1>7, ParticipantWritten DEF IInv, Creates
  <2>3. was = q.entry
    BY <1>1, <1>7 DEF Pinned, Rereads
  <2>. QED
    BY <1>5, <1>7, <2>1, <2>2, <2>3
<1>8. CASE q.op = "CREATE_PARTICIPANT"
  <2>1. Fits(q.org)
    BY <1>4, <1>8 DEF OrdinaryGuard, CreateGuard, Scoped
  <2>2. participant'[x] = [org |-> q.org, revision |-> 0]
    BY <1>1, <1>2, <1>8, ParticipantWritten DEF IInv, Creates
  <2>3. was = None /\ participant[x] = None
    BY <1>1, <1>8 DEF Pinned, Creates
  <2>4. is.org = q.org /\ participant'[x].org = q.org
    BY <1>5, <1>8, <2>2 DEF Creates
  <2>. QED
    BY <2>1, <2>3, <2>4
<1>9. CASE q.op = "UPDATE_PARTICIPANT"
  <2>1. Fits(q.entry.org) /\ Fits(participant[x].org)
    BY <1>4, <1>9 DEF OrdinaryGuard, UpdateGuard, Scoped
  <2>2. NextOrg(q.org, q.holder) = q.holder.org /\ participant[x] = q.holder
    BY <1>1, <1>9 DEF Formed, Pinned, Holds
  <2>3. participant'[x].org = NextOrg(q.org, q.holder)
    BY <1>1, <1>2, <1>9, ParticipantWritten DEF IInv
  <2>4. was = q.entry
    BY <1>1, <1>9 DEF Pinned, Rereads
  <2>5. is.org = participant[x].org /\ participant'[x].org = participant[x].org
    BY <1>5, <1>9, <2>2, <2>3
  <2>. QED
    BY <2>1, <2>4, <2>5
<1>. QED
  BY <1>3, <1>6, <1>7, <1>8, <1>9

\* A manager's request changes entries and participants only of a project in
\* pre-registration and of organizations the manager holds at that moment and that are
\* active there: the session_version in the guard makes good for the time since the
\* checks, and a move of the participant elsewhere cannot carry the batch out of scope.
THEOREM ManagersStayInScope == Spec => ManagersInScope
<1>1. ASSUME IInv, [Next]_vars, NEW s \in Slot, request[s] # None, request'[s] = None,
             request[s].actor \in Manager,
             project'[request[s].project] # project[request[s].project]
      PROVE  LET q == request[s]
                 x == q.person
                 touched == {project[q.project].roster[x], project'[q.project].roster[x]}
                   \cup IF participant' = participant THEN {}
                        ELSE {participant[x], participant'[x]}
             IN /\ project[q.project].status = "PRE_REGISTRATION"
                /\ \A row \in touched \ {None} :
                     row.org \in assignment[q.actor].orgs /\ ActiveIn(q.project, row.org)
  <2>. DEFINE q == request[s]
  <2>1. Commit(s)
    <3>1. ASSUME NEW p \in Project, AutoClose(p)
          PROVE  FALSE
      BY <1>1, <3>1 DEF AutoClose
    <3>2. ASSUME NEW t \in Slot, Commit(t)
          PROVE  t = s
      BY <1>1, <3>2 DEF Commit, IInv, TypeOK
    <3>. QED
      BY <1>1, <3>1, <3>2, ProjectWriters
  <2>2. \A row \in ({project[q.project].roster[q.person], project'[q.project].roster[q.person]}
                     \cup IF participant' = participant THEN {}
                          ELSE {participant[q.person], participant'[q.person]}) \ {None} :
          InScope(q.actor, q.project, row.org)
    BY <1>1, <2>1, ManagerBatch
  <2>3. \E row : InScope(q.actor, q.project, row)
    <3>1. q \in Request /\ Formed(q) /\ Guard(q)
      BY <1>1, <2>1, GuardPins DEF Commit
    <3>2. q.op \in {"ADD_ENTRY", "SET_ENTRY", "CREATE_PARTICIPANT", "UPDATE_PARTICIPANT"}
      BY <1>1, <3>1 DEF Formed
    <3>3. OrdinaryGuard(project[q.project], q)
      BY <3>1, <3>2 DEF Guard, CorrectionGuard
    <3>. QED
      BY <3>2, <3>3 DEF OrdinaryGuard, AddEntryGuard, SetEntryGuard, CreateGuard,
         UpdateGuard, Scoped
  <2>4. project[q.project].status = "PRE_REGISTRATION"
    BY <1>1, <2>3 DEF InScope
  <2>. QED
    BY <1>1, <2>2, <2>4 DEF InScope
<1>2. IInv /\ [Next]_vars =>
        \A s \in Slot :
          LET q == request[s]
              x == q.person
              touched == {project[q.project].roster[x], project'[q.project].roster[x]}
                \cup IF participant' = participant THEN {}
                     ELSE {participant[x], participant'[x]}
          IN
          q # None /\ request'[s] = None /\ q.actor \in Manager
            /\ project'[q.project] # project[q.project] =>
              /\ project[q.project].status = "PRE_REGISTRATION"
              /\ \A row \in touched \ {None} :
                   row.org \in assignment[q.actor].orgs /\ ActiveIn(q.project, row.org)
  BY <1>1
<1>. QED
  BY <1>2, Invariant, PTL DEF Spec, ManagersInScope

-----------------------------------------------------------------------------
(* The expected counts and the flags.                                         *)

Expectees(r) == {x \in Person : r.roster[x] # None /\ r.roster[x].expected}
Recorded(r)  == [o \in Org |-> IF r.snapshot[o] = None THEN 0 ELSE r.snapshot[o]]

\* The snapshot counts the flagged entries, and before the start there are none.
CountsFlags(r) ==
  /\ r.status = "PRE_REGISTRATION" =>
       Expectees(r) = {} /\ \A o \in Org : r.snapshot[o] = None
  /\ SumFunctionOnSet(Recorded(r), Org) = Cardinality(Expectees(r))

\* count gives for every organization how many of X have their entry in it.
CountsAt(count, r, X) ==
  \A o \in Org : count[o] = Cardinality({x \in X : r.roster[x].org = o})

\* People counted organization by organization.
LEMMA CountedByOrg ==
  ASSUME NEW r \in ProjectRow, NEW X \in SUBSET Entries(r), NEW T \in SUBSET Org,
         NEW count, CountsAt(count, r, X)
  PROVE  /\ NatOn(count, Org)
         /\ SumFunctionOnSet(count, T) = Cardinality({x \in X : r.roster[x].org \in T})
<1>. DEFINE g == [x \in Person |-> r.roster[x].org]
<1>1. IsFiniteSet(X) /\ IsFiniteSet(Org) /\ X \subseteq Person
  BY RosterConstants, FS_Subset DEF Entries
<1>2. \A x \in X : g[x] = r.roster[x].org
  BY <1>1
<1>. HIDE DEF g
<1>3. \A o \in Org : count[o] = Cardinality(From(X, g, {o}))
  <2>1. \A o \in Org : From(X, g, {o}) = {x \in X : r.roster[x].org = o}
    BY <1>2 DEF From
  <2>. QED
    BY <2>1 DEF CountsAt
<1>4. SumFunctionOnSet(count, T) = Cardinality(From(X, g, T))
  <2>1. Counts(count, X, g, Org)
    BY <1>1, <1>3 DEF Counts
  <2>. QED
    BY <2>1, CountByPlace
<1>5. From(X, g, T) = {x \in X : r.roster[x].org \in T}
  BY <1>2 DEF From
<1>6. \A o \in Org : count[o] \in Nat
  <2>. SUFFICES ASSUME NEW o \in Org
                PROVE  Cardinality({x \in X : r.roster[x].org = o}) \in Nat
    BY DEF CountsAt
  <2>. QED
    BY <1>1, FS_Subset, FS_CardinalityType
<1>. QED
  BY <1>1, <1>4, <1>5, <1>6 DEF NatOn

\* The start counts the entries it flags.
LEMMA StartCounts ==
  ASSUME NEW r \in ProjectRow, NEW q, Starts(q), r.status = "PRE_REGISTRATION", CountsFlags(r)
  PROVE  CountsFlags(Transitioned(r, q))
<1>. DEFINE f == Transitioned(r, q)
            X == {x \in Person : Expectable(r.roster[x])}
            count == [o \in Org |-> Cardinality({x \in X : r.roster[x].org = o})]
<1>1. /\ f.snapshot = Snapshot(r)
      /\ f.roster = [x \in Person |-> IF Expectable(r.roster[x])
                                      THEN [r.roster[x] EXCEPT !.expected = TRUE]
                                      ELSE r.roster[x]]
      /\ f.status = "IN_PROGRESS"
  <2>. DEFINE snapshot == Snapshot(r)
              roster == [x \in Person |-> IF Expectable(r.roster[x])
                                          THEN [r.roster[x] EXCEPT !.expected = TRUE]
                                          ELSE r.roster[x]]
  <2>1. f = [r EXCEPT !.status = q.target, !.snapshot = snapshot, !.roster = roster]
    BY DEF Transitioned
  <2>. HIDE DEF snapshot, roster, f
  <2>2. f.snapshot = snapshot /\ f.roster = roster /\ f.status = q.target
    BY <2>1 DEF ProjectRow
  <2>. QED
    BY <2>2 DEF snapshot, roster, Starts
<1>. HIDE DEF f
<1>2. X \in SUBSET Entries(r)
  BY DEF Expectable, Entries
<1>3. \A o \in Org : Count(r, o, Expectable) = count[o]
  <2>1. \A o \in Org :
          {x \in Person : r.roster[x] # None /\ r.roster[x].org = o /\ Expectable(r.roster[x])}
            = {x \in X : r.roster[x].org = o}
    BY DEF Expectable
  <2>. QED
    BY <2>1 DEF Count
<1>. HIDE DEF count
<1>4. NatOn(count, Org) /\ SumFunctionOnSet(count, Org) = Cardinality({x \in X : r.roster[x].org \in Org})
  <2>1. CountsAt(count, r, X)
    BY DEF CountsAt, count
  <2>. HIDE DEF X
  <2>. QED
    BY <1>2, <2>1, CountedByOrg
<1>5. {x \in X : r.roster[x].org \in Org} = X
  BY DEF ProjectRow, Entry, Expectable
<1>6. \A o \in Org : Recorded(f)[o] = count[o]
  <2>. SUFFICES ASSUME NEW o \in Org
                PROVE  (IF Snapshot(r)[o] = None THEN 0 ELSE Snapshot(r)[o]) = count[o]
    BY <1>1 DEF Recorded
  <2>1. r.snapshot[o] = None /\ count[o] \in Nat /\ count[o] # None
    BY <1>4, RosterConstants DEF CountsFlags, NatOn
  <2>2. Snapshot(r)[o] = IF r.linked[o] = "ACTIVE" \/ count[o] > 0 THEN count[o] ELSE None
    BY <1>3, <2>1 DEF Snapshot
  <2>. QED
    BY <2>1, <2>2
<1>7. SumFunctionOnSet(Recorded(f), Org) = SumFunctionOnSet(count, Org)
  BY <1>4, <1>6, SumAgrees
<1>8. Expectees(f) = X
  <2>. SUFFICES ASSUME NEW x \in Person
                PROVE  (f.roster[x] # None /\ f.roster[x].expected) <=> Expectable(r.roster[x])
    BY DEF Expectees
  <2>1. CASE Expectable(r.roster[x])
    <3>1. r.roster[x] \in Entry
      BY <2>1 DEF ProjectRow, Expectable
    <3>2. [r.roster[x] EXCEPT !.expected = TRUE] \in Entry
      BY <3>1 DEF Entry
    <3>3. f.roster[x] = [r.roster[x] EXCEPT !.expected = TRUE]
      BY <1>1, <2>1
    <3>. QED
      BY <2>1, <3>1, <3>2, <3>3, RowsExist DEF Entry
  <2>2. CASE ~Expectable(r.roster[x])
    BY <1>1, <2>2 DEF CountsFlags, Expectees
  <2>. QED
    BY <2>1, <2>2
<1>. QED
  BY <1>1, <1>4, <1>5, <1>7, <1>8 DEF CountsFlags, f

\* Who stays expected stays counted.
LEMMA SameCount ==
  ASSUME NEW r \in ProjectRow, NEW f \in ProjectRow, SameExpected(r, f), CountsFlags(r),
         f.status = "PRE_REGISTRATION" => r.status = "PRE_REGISTRATION"
  PROVE  CountsFlags(f)
<1>1. Expectees(f) = Expectees(r)
  BY DEF SameExpected, Expectees
<1>2. Recorded(f) = Recorded(r)
  BY DEF SameExpected, Recorded
<1>. QED
  BY <1>1, <1>2 DEF CountsFlags, SameExpected

Counted == \A p \in Project : CountsFlags(project[p])

LEMMA InitCounted == Init => Counted
<1>. SUFFICES ASSUME Init, NEW p \in Project
              PROVE  CountsFlags(project[p])
  BY DEF Counted
<1>. DEFINE r == project[p]
<1>1. (\A x \in Person : r.roster[x] = None) /\ (\A o \in Org : r.snapshot[o] = None)
  BY DEF Init
<1>2. Expectees(r) = {} /\ \A o \in Org : Recorded(r)[o] = 0
  BY <1>1 DEF Expectees, Recorded
<1>. HIDE DEF r
<1>3. SumFunctionOnSet(Recorded(r), Org) = SumFunctionOnSet(Recorded(r), {})
  <2>1. NatOn(Recorded(r), {})
    BY FS_EmptySet DEF NatOn
  <2>. QED
    BY <1>2, <2>1, SumOfZeros, RosterConstants
<1>. QED
  BY <1>1, <1>2, <1>3, SumEmpty, FS_EmptySet DEF CountsFlags, r

LEMMA StepCounted ==
  ASSUME IInv, Counted, [Next]_vars
  PROVE  Counted'
<1>. SUFFICES ASSUME NEW p \in Project
              PROVE  CountsFlags(project'[p])
  BY DEF Counted, CountsFlags, Expectees, Recorded
<1>. DEFINE r == project[p]
            f == project'[p]
<1>1. r \in ProjectRow /\ f \in ProjectRow /\ CountsFlags(r)
  BY NextStep DEF IInv, Kept, TypeOK, Counted
<1>2. CASE UNCHANGED project
  BY <1>1, <1>2
<1>3. ASSUME NEW k \in Project, AutoClose(k)
      PROVE  CountsFlags(f)
  <2>1. /\ f.snapshot = r.snapshot /\ f.roster = r.roster
        /\ f.status = "PRE_REGISTRATION" => r.status = "PRE_REGISTRATION"
    BY <1>3 DEF AutoClose, IInv, TypeOK, ProjectRow
  <2>. QED
    BY <1>1, <2>1, SameRoster, SameCount
<1>4. ASSUME NEW s \in Slot, Commit(s)
      PROVE  CountsFlags(f)
  <2>. DEFINE q == request[s]
  <2>1. CASE p # q.project
    BY <1>1, <1>4, <2>1, CommitStep
  <2>2. CASE p = q.project /\ q.op = "TRANSITION" /\ Starts(q)
    <3>1. /\ f.status = Effect(q).status
          /\ f.snapshot = Effect(q).snapshot /\ f.roster = Effect(q).roster
          /\ r.status = "PRE_REGISTRATION"
      BY <1>4, <2>2, CommitStep DEF Pinned, Starts
    <3>2. Effect(q) = Transitioned(r, q)
      BY <2>2, EffectByKind
    <3>3. CountsFlags(Transitioned(r, q))
      BY <1>1, <2>2, <3>1, StartCounts
    <3>. HIDE DEF q, r, f
    <3>. QED
      BY <3>1, <3>2, <3>3 DEF CountsFlags, Expectees, Recorded
  <2>3. CASE p = q.project /\ ~(q.op = "TRANSITION" /\ Starts(q))
    <3>1. /\ SameExpected(r, f)
          /\ f.status = "PRE_REGISTRATION" => r.status = "PRE_REGISTRATION"
      BY <1>4, <2>3, CommitStep DEF Formed
    <3>. QED
      BY <1>1, <3>1, SameCount
  <2>. QED
    BY <2>1, <2>2, <2>3
<1>. QED
  BY <1>2, <1>3, <1>4, ProjectWriters

\* As many people are expected by the counts of the start as by the flags of the
\* entries, for good: two statements write them, and moves, comebacks and corrections
\* touch one and not the other.
THEOREM SnapshotCounts == Spec => []SnapshotCountsFlags
<1>1. ASSUME Counted
      PROVE  SnapshotCountsFlags
  <2>. SUFFICES ASSUME NEW p \in Project
                PROVE  SumFunction(Recorded(project[p])) = Cardinality(Expectees(project[p]))
    BY DEF SnapshotCountsFlags, Recorded, Expectees, Entries
  <2>1. DOMAIN Recorded(project[p]) = Org
    BY DEF Recorded
  <2>. QED
    BY <1>1, <2>1 DEF SumFunction, Counted, CountsFlags
<1>2. IInv /\ Counted /\ [Next]_vars => Counted'
  BY StepCounted
<1>. QED
  BY <1>1, <1>2, InitCounted, Invariant, PTL DEF Spec

-----------------------------------------------------------------------------
(* The totals of the summary.                                                 *)

\* Every entry is of the organization of its participant, which the project has a
\* row for.
Placed(r) ==
  \A x \in Entries(r) :
    /\ participant[x].org = r.roster[x].org
    /\ r.linked[r.roster[x].org] # "NONE"

\* A counted organization keeps its row; only pre-registered entries are expected,
\* and once the start has counted, every active one of them is.
Sourced(r) ==
  /\ \A o \in Org : r.snapshot[o] # None => r.linked[o] # "NONE"
  /\ \A x \in Entries(r) : r.roster[x].expected => r.roster[x].source = "PRE_REGISTRATION"
  /\ (\E o \in Org : r.snapshot[o] # None) =>
       \A x \in Entries(r) : Expectable(r.roster[x]) => r.roster[x].expected

Settled ==
  \A p \in Project : ~project[p].corrected => Placed(project[p]) /\ Sourced(project[p])

\* What the ordinary batches leave alone.
LEMMA OrdinaryEffect ==
  ASSUME TypeOK, NEW q \in Request, Formed(q), Pinned(q), q.op \in Ordinary
  PROVE  LET r == project[q.project]  f == Effect(q) IN
         /\ f.corrected = r.corrected
         /\ q.op \in {"TRANSITION"} \cup Creates \cup Rereads => f.linked = r.linked
         /\ \A o \in Org : \/ f.linked[o] = r.linked[o] \/ f.linked[o] # "NONE"
                           \/ ~HasHistory(r, o)
         /\ (q.op = "TRANSITION" /\ Starts(q)) \/ f.snapshot = r.snapshot
         /\ q.op \in {"ADD_ORGS", "EXCLUDE_ORG"} => f.roster = r.roster
         /\ q.op = "TRANSITION" /\ ~Starts(q) => f.roster = r.roster
         /\ q.op \in Creates \cup Rereads =>
              \A x \in Person : x # q.person => f.roster[x] = r.roster[x]
<1>. DEFINE r == project[q.project]
            f == Effect(q)
<1>1. r \in ProjectRow
  BY DEF TypeOK, Request
<1>2. CASE q.op = "TRANSITION" /\ ~Starts(q)
  <2>1. f = [r EXCEPT !.status = q.target]
    BY <1>2, EffectByKind DEF Transitioned
  <2>. HIDE DEF f, r
  <2>2. f.corrected = r.corrected /\ f.linked = r.linked /\ f.snapshot = r.snapshot /\ f.roster = r.roster
    BY <1>1, <2>1 DEF ProjectRow
  <2>. QED
    BY <1>2, <2>2 DEF f, r, Creates, Rereads
<1>3. CASE q.op = "TRANSITION" /\ Starts(q)
  <2>. DEFINE snapshot == Snapshot(r)
              roster == [x \in Person |-> IF Expectable(r.roster[x])
                                          THEN [r.roster[x] EXCEPT !.expected = TRUE]
                                          ELSE r.roster[x]]
  <2>1. f = [r EXCEPT !.status = q.target, !.snapshot = snapshot, !.roster = roster]
    BY <1>3, EffectByKind DEF Transitioned
  <2>. HIDE DEF f, r, snapshot, roster
  <2>2. f.corrected = r.corrected /\ f.linked = r.linked
    BY <1>1, <2>1 DEF ProjectRow
  <2>. QED
    BY <1>3, <2>2 DEF f, r, Creates, Rereads
<1>4. CASE q.op = "ADD_ORGS"
  <2>. DEFINE linked == [o \in Org |-> IF o \in q.orgs THEN "ACTIVE" ELSE r.linked[o]]
  <2>1. f = [r EXCEPT !.linked = linked]
    BY <1>4, EffectByKind DEF Relinked
  <2>2. \A o \in Org : linked[o] = r.linked[o] \/ linked[o] # "NONE"
    OBVIOUS
  <2>. HIDE DEF f, r, linked
  <2>3. f.corrected = r.corrected /\ f.linked = linked /\ f.snapshot = r.snapshot /\ f.roster = r.roster
    BY <1>1, <2>1 DEF ProjectRow
  <2>. QED
    BY <1>4, <2>2, <2>3 DEF f, r, Creates, Rereads
<1>5. CASE q.op = "EXCLUDE_ORG"
  <2>. DEFINE to == IF HasHistory(r, q.org) THEN "INACTIVE" ELSE "NONE"
              linked == [r.linked EXCEPT ![q.org] = to]
  <2>1. f = [r EXCEPT !.linked = linked]
    BY <1>5, EffectByKind
  <2>2. \A o \in Org : linked[o] = r.linked[o] \/ linked[o] # "NONE" \/ ~HasHistory(r, o)
    BY <1>1 DEF ProjectRow
  <2>. HIDE DEF f, r, linked
  <2>3. f.corrected = r.corrected /\ f.linked = linked /\ f.snapshot = r.snapshot /\ f.roster = r.roster
    BY <1>1, <2>1 DEF ProjectRow
  <2>. QED
    BY <1>5, <2>2, <2>3 DEF f, r, Creates, Rereads
<1>6. CASE q.op \in Creates \cup Rereads
  <2>. DEFINE e == EntryWritten(q)
  <2>1. f = [r EXCEPT !.roster[q.person] = e]
    BY <1>6, EffectByKind
  <2>. HIDE DEF f, r, e
  <2>2. /\ f.corrected = r.corrected /\ f.linked = r.linked /\ f.snapshot = r.snapshot
        /\ \A x \in Person : x # q.person => f.roster[x] = r.roster[x]
    BY <1>1, <2>1 DEF ProjectRow
  <2>. QED
    BY <1>6, <2>2 DEF f, r, Creates, Rereads
<1>. QED
  BY <1>2, <1>3, <1>4, <1>5, <1>6 DEF Ordinary, Creates, Rereads

\* The ordinary entry written: an expected entry keeps its source, and after the start
\* whoever was not expected comes as added.
LEMMA OrdinaryEntry ==
  ASSUME TypeOK, NEW q \in Request, Formed(q), Pinned(q), q.op \in Ordinary,
         q.op \in Creates \cup Rereads
  PROVE  LET e == EntryWritten(q)
             r == project[q.project]
             was == r.roster[q.person]
         IN
         /\ was # None /\ was.expected => e.source = was.source
         /\ Expectable(e) => \/ r.status = "PRE_REGISTRATION"
                             \/ was # None /\ (was.expected \/ Expectable(was))
<1>. DEFINE e == EntryWritten(q)
            r == project[q.project]
            was == r.roster[q.person]
<1>1. was \in Entry \cup {None} /\ r.status = q.status
  BY DEF TypeOK, ProjectRow, Request, Formed, Pinned
<1>2. CASE q.op = "CREATE_PARTICIPANT" \/ (q.op = "ADD_ENTRY" /\ q.entry = None)
  <2>1. e = NewEntry(q)
    BY <1>2, EntryByKind DEF Creates
  <2>2. was = None
    BY <1>2 DEF Pinned, Rereads, Creates
  <2>3. e.source = SourceIn(q.status)
    BY <2>1 DEF NewEntry
  <2>. HIDE DEF e, r, was
  <2>. QED
    BY <1>1, <2>2, <2>3 DEF e, r, was, SourceIn, Expectable
<1>3. CASE q.op \in {"ADD_ENTRY", "SET_ENTRY"} /\ q.entry # None
  <2>. DEFINE to == IF q.op = "ADD_ENTRY" THEN "ACTIVE" ELSE q.target
              source == IF to = "ACTIVE" THEN NextSource(was, q.status) ELSE was.source
              n == was.revision + 1
  <2>1. was = q.entry /\ was \in Entry /\ q.status # "CLOSED" /\ q.status \in Status
    BY <1>1, <1>3 DEF Pinned, Rereads, Formed, Request
  <2>2. e = [was EXCEPT !.status = to, !.revision = n, !.source = source]
    <3>1. e = Switched(q, to)
      BY <1>3, EntryByKind
    <3>2. Switched(q, to) = [was EXCEPT !.status = to, !.revision = n, !.source = source]
      BY <2>1 DEF Switched
    <3>. QED
      BY <3>1, <3>2
  <2>. HIDE DEF e, r, was, to, source, n
  <2>3. e.status = to /\ e.source = source
    BY <2>1, <2>2 DEF Entry
  <2>4. was.expected => source = was.source
    BY DEF source, NextSource
  <2>5. to = "ACTIVE" /\ source = "PRE_REGISTRATION" =>
          q.status = "PRE_REGISTRATION" \/ was.expected
    BY <2>1 DEF source, NextSource, Status
  <2>. QED
    BY <1>1, <1>3, <2>1, <2>3, <2>4, <2>5, RowsExist DEF e, r, was, Expectable
<1>4. CASE q.op = "UPDATE_PARTICIPANT"
  <2>. DEFINE org == NextOrg(q.org, q.holder)
              n == was.revision + 1
  <2>1. was = q.entry /\ was \in Entry
    BY <1>4 DEF Pinned, Rereads, Formed
  <2>2. e = [was EXCEPT !.org = org, !.revision = n]
    BY <1>4, EntryByKind
  <2>. HIDE DEF e, r, was, org, n
  <2>3. e.status = was.status /\ e.source = was.source
    BY <2>1, <2>2 DEF Entry
  <2>. QED
    BY <1>4, <2>1, <2>3, RowsExist DEF e, r, was, Expectable
<1>5. q.op = "SET_ENTRY" => q.entry # None
  BY RowsExist DEF Formed
<1>. QED
  BY <1>2, <1>3, <1>4, <1>5 DEF Ordinary, Creates, Rereads

\* An ordinary batch takes an entry only where the project has a row for its
\* organization, and its participant goes along.
LEMMA OrdinaryPlace ==
  ASSUME IInv, NEW s \in Slot, Commit(s), request[s].op \in Ordinary,
         Placed(project[request[s].project])
  PROVE  LET q == request[s]  r == project[q.project] IN
         /\ \A x \in Person : x # q.person => participant'[x] = participant[x]
         /\ q.op \in Creates \cup Rereads =>
              LET e == EntryWritten(q) IN
              participant'[q.person].org = e.org /\ r.linked[e.org] # "NONE"
         /\ q.op \notin Creates \cup Rereads => participant' = participant
<1>. DEFINE q == request[s]
            r == project[q.project]
            x == q.person
            e == EntryWritten(q)
<1>1. /\ q \in Request /\ Formed(q) /\ Pinned(q)
      /\ q.op \in Creates \cup Rereads => x \in Person
  BY CommitStep DEF Formed
<1>2. Guard(q) /\ participant' = ParticipantEffect(q)
  BY DEF Commit
<1>3. OrdinaryGuard(r, q)
  BY <1>2 DEF Guard, CorrectionGuard, Ordinary
<1>4. participant \in [Person -> Participant \cup {None}]
  BY DEF IInv, TypeOK
<1>5. \A y \in Person : y # x => participant'[y] = participant[y]
  BY <1>2, <1>4 DEF ParticipantEffect
<1>6. q.op \in Rereads /\ q.entry # None => participant[x].org = q.entry.org /\ r.linked[q.entry.org] # "NONE"
  BY <1>1 DEF Pinned, Placed, Entries
<1>7. CASE q.op = "CREATE_PARTICIPANT"
  <2>1. e.org = q.org
    BY <1>1, <1>7, Written DEF IInv, Creates
  <2>2. Linked(q.project, q.org)
    BY <1>3, <1>7 DEF OrdinaryGuard, CreateGuard, ActiveIn
  <2>3. participant'[x] = [org |-> q.org, revision |-> 0]
    BY <1>1, <1>2, <1>7, ParticipantWritten DEF IInv, Creates
  <2>. QED
    BY <1>5, <1>7, <2>1, <2>2, <2>3 DEF Linked, Creates
<1>8. CASE q.op = "ADD_ENTRY" /\ q.entry = None
  <2>1. e.org = q.org
    BY <1>1, <1>8, Written DEF IInv, Rereads
  <2>2. Linked(q.project, q.org)
    BY <1>3, <1>8 DEF OrdinaryGuard, AddEntryGuard
  <2>3. participant'[x] = Moved(participant[x], q.org)
    BY <1>1, <1>2, <1>4, <1>8 DEF ParticipantEffect, Rereads
  <2>4. participant'[x].org = q.org
    BY <2>3 DEF Moved, Updated
  <2>. QED
    BY <1>5, <1>8, <2>1, <2>2, <2>4 DEF Linked, Rereads
<1>9. CASE q.op \in {"ADD_ENTRY", "SET_ENTRY"} /\ q.entry # None
  <2>1. e.org = q.entry.org
    BY <1>1, <1>9, Written DEF IInv, Rereads
  <2>2. participant' = participant
    BY <1>2, <1>9 DEF ParticipantEffect
  <2>. QED
    BY <1>6, <1>9, <2>1, <2>2 DEF Rereads
<1>10. CASE q.op = "UPDATE_PARTICIPANT"
  <2>. DEFINE next == NextOrg(q.org, q.holder)
  <2>1. e.org = next
    BY <1>1, <1>10, Written DEF IInv, Rereads
  <2>2. participant'[x].org = next
    BY <1>1, <1>2, <1>10, ParticipantWritten DEF IInv
  <2>3. q.entry # None /\ participant[x] = q.holder
    BY <1>1, <1>10, RowsExist DEF Formed, Pinned, Holds
  <2>4. next # q.holder.org => Linked(q.project, next)
    BY <1>3, <1>10 DEF OrdinaryGuard, UpdateGuard, ActiveIn
  <2>5. r.linked[next] # "NONE"
    BY <1>6, <1>10, <2>3, <2>4 DEF Linked, Rereads
  <2>. QED
    BY <1>5, <1>10, <2>1, <2>2, <2>5 DEF Rereads
<1>11. CASE q.op \notin Creates \cup Rereads
  <2>1. participant' = participant
    BY <1>2, <1>11 DEF ParticipantEffect, Creates, Rereads
  <2>. QED
    BY <1>11, <2>1
<1>12. q.op = "SET_ENTRY" => q.entry # None
  BY <1>1, RowsExist DEF Formed
<1>. QED
  BY <1>7, <1>8, <1>9, <1>10, <1>11, <1>12 DEF Ordinary, Creates, Rereads

\* The sources stay right through a batch that is not the start.
LEMMA SourcedBatch ==
  ASSUME NEW r \in ProjectRow, NEW f \in ProjectRow, Sourced(r), Placed(r), CountsFlags(r),
         SameExpected(r, f),
         \A o \in Org : \/ f.linked[o] = r.linked[o] \/ f.linked[o] # "NONE"
                        \/ ~HasHistory(r, o),
         \A x \in Person :
           LET e == f.roster[x]  was == r.roster[x] IN
           \/ e = was
           \/ /\ was # None /\ was.expected => e.source = was.source
              /\ Expectable(e) => \/ r.status = "PRE_REGISTRATION"
                                  \/ was # None /\ (was.expected \/ Expectable(was))
  PROVE  Sourced(f)
<1>1. ASSUME NEW o \in Org, f.snapshot[o] # None
      PROVE  f.linked[o] # "NONE"
  BY <1>1 DEF SameExpected, Sourced, HasHistory
<1>2. ASSUME NEW x \in Entries(f), f.roster[x].expected
      PROVE  f.roster[x].source = "PRE_REGISTRATION"
  BY <1>2 DEF SameExpected, Sourced, Entries
<1>3. ASSUME NEW o \in Org, f.snapshot[o] # None, NEW x \in Entries(f), Expectable(f.roster[x])
      PROVE  f.roster[x].expected
  <2>1. r.snapshot[o] # None /\ r.status # "PRE_REGISTRATION"
    BY <1>3 DEF SameExpected, CountsFlags
  <2>2. r.roster[x] # None /\ (r.roster[x].expected \/ Expectable(r.roster[x]))
    BY <1>3, <2>1 DEF Entries, Expectable
  <2>3. r.roster[x].expected
    BY <1>3, <2>1, <2>2 DEF Sourced, Entries
  <2>4. f.roster[x].expected = (r.roster[x] # None /\ r.roster[x].expected)
    BY <1>3 DEF SameExpected, Entries
  <2>. QED
    BY <2>2, <2>3, <2>4
<1>. QED
  BY <1>1, <1>2, <1>3 DEF Sourced

\* An entry of f stays where it was in r, with its participant, or comes to a place.
Follows(r, f) ==
  \A x \in Entries(f) :
    \/ /\ r.roster[x] # None /\ f.roster[x].org = r.roster[x].org
       /\ participant'[x] = participant[x]
    \/ /\ participant'[x].org = f.roster[x].org
       /\ f.linked[f.roster[x].org] # "NONE"

\* Everyone stays at the place of the participant through a batch.
LEMMA PlacedBatch ==
  ASSUME NEW r, NEW f, Placed(r),
         \A o \in Org : \/ f.linked[o] = r.linked[o] \/ f.linked[o] # "NONE"
                        \/ ~HasHistory(r, o),
         r \in ProjectRow, Follows(r, f)
  PROVE  \A x \in Entries(f) : /\ participant'[x].org = f.roster[x].org
                               /\ f.linked[f.roster[x].org] # "NONE"
<1>. SUFFICES ASSUME NEW x \in Entries(f),
                     r.roster[x] # None, f.roster[x].org = r.roster[x].org,
                     participant'[x] = participant[x]
              PROVE  /\ participant'[x].org = f.roster[x].org
                     /\ f.linked[f.roster[x].org] # "NONE"
  BY DEF Follows
<1>1. x \in Entries(r)
  BY DEF Entries
<1>2. r.roster[x].org \in Org /\ HasHistory(r, r.roster[x].org)
  BY <1>1 DEF Entries, ProjectRow, Entry, HasHistory
<1>. QED
  BY <1>1, <1>2 DEF Placed

\* The start counts where the project has rows and flags whom it counts.
LEMMA StartSourced ==
  ASSUME NEW r \in ProjectRow, NEW q, Starts(q), r.status = "PRE_REGISTRATION",
         Placed(r), Sourced(r), CountsFlags(r),
         NEW f \in ProjectRow, f.linked = r.linked, f.snapshot = Snapshot(r),
         f.roster = [x \in Person |-> IF Expectable(r.roster[x])
                                      THEN [r.roster[x] EXCEPT !.expected = TRUE]
                                      ELSE r.roster[x]]
  PROVE  Sourced(f) /\ \A x \in Entries(f) : r.roster[x] # None /\ f.roster[x].org = r.roster[x].org
<1>1. ASSUME NEW x \in Person, Expectable(r.roster[x])
      PROVE  /\ f.roster[x].org = r.roster[x].org /\ f.roster[x].source = "PRE_REGISTRATION"
             /\ f.roster[x].expected
  <2>1. r.roster[x] \in Entry
    BY <1>1 DEF ProjectRow, Expectable
  <2>2. f.roster[x] = [r.roster[x] EXCEPT !.expected = TRUE]
    BY <1>1
  <2>. QED
    BY <1>1, <2>1, <2>2 DEF Entry, Expectable
<1>2. ASSUME NEW x \in Person, ~Expectable(r.roster[x])
      PROVE  f.roster[x] = r.roster[x]
  BY <1>2
<1>3. ASSUME NEW o \in Org, f.snapshot[o] # None
      PROVE  f.linked[o] # "NONE"
  <2>1. r.snapshot[o] = None
    BY DEF CountsFlags
  <2>2. r.linked[o] = "ACTIVE" \/ Count(r, o, Expectable) > 0
    BY <1>3, <2>1 DEF Snapshot
  <2>3. ASSUME Count(r, o, Expectable) > 0
        PROVE  \E x \in Entries(r) : r.roster[x].org = o
    <3>. DEFINE X == {x \in Person :
                        r.roster[x] # None /\ r.roster[x].org = o /\ Expectable(r.roster[x])}
    <3>1. Cardinality(X) > 0
      BY <2>3 DEF Count
    <3>2. X # {}
      <4>. HIDE DEF X
      <4>. QED
        BY <3>1, FS_EmptySet
    <3>. QED
      BY <3>2 DEF Entries
  <2>. QED
    BY <2>2, <2>3 DEF Placed
<1>4. ASSUME NEW x \in Entries(f)
      PROVE  /\ r.roster[x] # None /\ f.roster[x].org = r.roster[x].org
             /\ f.roster[x].expected => f.roster[x].source = "PRE_REGISTRATION"
             /\ Expectable(f.roster[x]) => f.roster[x].expected
  <2>1. CASE Expectable(r.roster[x])
    BY <1>1, <1>4, <2>1 DEF Entries, Expectable
  <2>2. CASE ~Expectable(r.roster[x])
    BY <1>2, <1>4, <2>2 DEF Entries, Sourced
  <2>. QED
    BY <2>1, <2>2
<1>. QED
  BY <1>3, <1>4 DEF Sourced

\* A batch that is no correction leaves everything in place.
LEMMA SettledBatch ==
  ASSUME IInv, Counted, NEW s \in Slot, Commit(s), request[s].op \in Ordinary,
         NEW p \in Project, p = request[s].project, Placed(project[p]), Sourced(project[p])
  PROVE  Placed(project[p])' /\ Sourced(project[p])'
<1>. DEFINE q == request[s]
            r == project[p]
            f == project'[p]
            e == EntryWritten(q)
<1>1. /\ q \in Request /\ Formed(q) /\ Pinned(q)
      /\ f.linked = Effect(q).linked
      /\ f.snapshot = Effect(q).snapshot /\ f.roster = Effect(q).roster
      /\ (q.op = "TRANSITION" /\ Starts(q)) \/ SameExpected(r, f)
      /\ q.op \in Creates \cup Rereads => f.roster[q.person] = e
  BY CommitStep
<1>2. r \in ProjectRow /\ f \in ProjectRow /\ CountsFlags(r)
  BY CommitStep DEF IInv, TypeOK, Kept, Counted
<1>3. /\ q.op \in {"TRANSITION"} \cup Creates \cup Rereads => f.linked = r.linked
      /\ \A o \in Org : f.linked[o] = r.linked[o] \/ f.linked[o] # "NONE" \/ ~HasHistory(r, o)
      /\ q.op \in {"ADD_ORGS", "EXCLUDE_ORG"} => f.roster = r.roster
      /\ q.op = "TRANSITION" /\ ~Starts(q) => f.roster = r.roster
      /\ q.op \in Creates \cup Rereads =>
           \A x \in Person : x # q.person => f.roster[x] = r.roster[x]
  BY <1>1, OrdinaryEffect DEF IInv
<1>4. /\ \A x \in Person : x # q.person => participant'[x] = participant[x]
      /\ q.op \in Creates \cup Rereads =>
           participant'[q.person].org = e.org /\ r.linked[e.org] # "NONE"
      /\ q.op \notin Creates \cup Rereads => participant' = participant
  BY OrdinaryPlace
<1>5. CASE q.op = "TRANSITION" /\ Starts(q)
  <2>1. Effect(q) = Transitioned(r, q) /\ r.status = "PRE_REGISTRATION"
    BY <1>1, <1>5, EffectByKind DEF Pinned, Starts
  <2>2. /\ f.snapshot = Snapshot(r)
        /\ f.roster = [x \in Person |-> IF Expectable(r.roster[x])
                                        THEN [r.roster[x] EXCEPT !.expected = TRUE]
                                        ELSE r.roster[x]]
    <3>. DEFINE snapshot == Snapshot(r)
                roster == [x \in Person |-> IF Expectable(r.roster[x])
                                            THEN [r.roster[x] EXCEPT !.expected = TRUE]
                                            ELSE r.roster[x]]
                g == Effect(q)
    <3>1. g = [r EXCEPT !.status = q.target, !.snapshot = snapshot, !.roster = roster]
      BY <1>5, <2>1 DEF Transitioned
    <3>2. f.snapshot = g.snapshot /\ f.roster = g.roster
      BY <1>1
    <3>. HIDE DEF g, snapshot, roster, r, f
    <3>3. g.snapshot = snapshot /\ g.roster = roster
      BY <1>2, <3>1 DEF ProjectRow
    <3>. QED
      BY <3>2, <3>3 DEF snapshot, roster
  <2>3. Sourced(f) /\ \A x \in Entries(f) : r.roster[x] # None /\ f.roster[x].org = r.roster[x].org
    BY <1>2, <1>3, <1>5, <2>1, <2>2, StartSourced
  <2>4. participant' = participant
    BY <1>4, <1>5 DEF Creates, Rereads
  <2>5. \A x \in Entries(f) : /\ participant'[x].org = f.roster[x].org
                              /\ f.linked[f.roster[x].org] # "NONE"
    <3>1. Follows(r, f)
      BY <2>3, <2>4 DEF Follows
    <3>. QED
      BY <1>2, <1>3, <3>1, PlacedBatch
  <2>. QED
    BY <2>3, <2>5 DEF Placed, Sourced, Entries
<1>6. CASE q.op \notin Creates \cup Rereads /\ ~(q.op = "TRANSITION" /\ Starts(q))
  <2>1. f.roster = r.roster /\ participant' = participant /\ SameExpected(r, f)
    BY <1>1, <1>3, <1>4, <1>6 DEF Ordinary, Creates, Rereads
  <2>2. Sourced(f)
    BY <1>2, <1>3, <2>1, SourcedBatch
  <2>3. \A x \in Entries(f) : r.roster[x] # None /\ f.roster[x].org = r.roster[x].org
    BY <2>1 DEF Entries
  <2>4. \A x \in Entries(f) : /\ participant'[x].org = f.roster[x].org
                              /\ f.linked[f.roster[x].org] # "NONE"
    <3>1. Follows(r, f)
      BY <2>1, <2>3 DEF Follows
    <3>. QED
      BY <1>2, <1>3, <3>1, PlacedBatch
  <2>. QED
    BY <2>2, <2>4 DEF Placed, Sourced, Entries
<1>7. CASE q.op \in Creates \cup Rereads
  <2>1. SameExpected(r, f) /\ f.roster[q.person] = e
    BY <1>1, <1>7 DEF Creates, Rereads
  <2>2. /\ r.roster[q.person] # None /\ r.roster[q.person].expected =>
             e.source = r.roster[q.person].source
        /\ Expectable(e) =>
             \/ r.status = "PRE_REGISTRATION"
             \/ /\ r.roster[q.person] # None
                /\ r.roster[q.person].expected \/ Expectable(r.roster[q.person])
    BY <1>1, <1>7, OrdinaryEntry DEF IInv
  <2>3. Sourced(f)
    <3>. HIDE DEF e, q, r, f
    <3>1. \A x \in Person :
           \/ f.roster[x] = r.roster[x]
           \/ /\ r.roster[x] # None /\ r.roster[x].expected =>
                   f.roster[x].source = r.roster[x].source
              /\ Expectable(f.roster[x]) =>
                   \/ r.status = "PRE_REGISTRATION"
                   \/ r.roster[x] # None /\ (r.roster[x].expected \/ Expectable(r.roster[x]))
      BY <1>3, <1>7, <2>1, <2>2
    <3>2. Sourced(r) /\ Placed(r)
      BY DEF r
    <3>. QED
      BY <1>2, <1>3, <2>1, <3>1, <3>2, SourcedBatch
  <2>4. Follows(r, f)
    <3>. SUFFICES ASSUME NEW x \in Entries(f)
                  PROVE  \/ /\ r.roster[x] # None /\ f.roster[x].org = r.roster[x].org
                            /\ participant'[x] = participant[x]
                         \/ /\ participant'[x].org = f.roster[x].org
                            /\ f.linked[f.roster[x].org] # "NONE"
      BY DEF Follows
    <3>1. CASE x = q.person
      BY <1>3, <1>4, <1>7, <2>1, <3>1
    <3>2. CASE x # q.person
      BY <1>3, <1>4, <1>7, <3>2 DEF Entries
    <3>. QED
      BY <3>1, <3>2
  <2>5. \A x \in Entries(f) : /\ participant'[x].org = f.roster[x].org
                              /\ f.linked[f.roster[x].org] # "NONE"
    BY <1>2, <1>3, <2>4, PlacedBatch
  <2>6. Placed(project[p])'
    BY <2>5 DEF Placed, Entries
  <2>7. Sourced(project[p])'
    <3>. HIDE DEF q, r, e
    <3>. QED
      BY <2>3 DEF Sourced, Entries
  <2>. QED
    BY <2>6, <2>7
<1>. QED
  BY <1>5, <1>6, <1>7

\* As long as nobody else moves participants.
LEMMA StepSettled ==
  ASSUME Elsewhere = FALSE, NEW p, Project = {p}, IInv, Counted, Settled, [Next]_vars
  PROVE  Settled'
<1>. SUFFICES ASSUME ~project'[p].corrected
              PROVE  Placed(project[p])' /\ Sourced(project[p])'
  BY DEF Settled
<1>1. ASSUME UNCHANGED <<project, participant>>
      PROVE  Placed(project[p])' /\ Sourced(project[p])'
  BY <1>1 DEF Settled, Placed, Sourced, Entries
<1>2. ASSUME AutoClose(p)
      PROVE  Placed(project[p])' /\ Sourced(project[p])'
  <2>1. /\ project'[p].corrected = project[p].corrected
        /\ project'[p].linked = project[p].linked
        /\ project'[p].snapshot = project[p].snapshot
        /\ project'[p].roster = project[p].roster
        /\ participant' = participant
    BY <1>2 DEF AutoClose, IInv, TypeOK, ProjectRow
  <2>. QED
    BY <2>1 DEF Settled, Placed, Sourced, Entries
<1>3. ASSUME NEW s \in Slot, Commit(s)
      PROVE  Placed(project[p])' /\ Sourced(project[p])'
  <2>1. /\ request[s] \in Request /\ request[s].project = p
        /\ project'[p].corrected = (Effect(request[s]).corrected \/ request[s].op \in Corrections)
        /\ Formed(request[s]) /\ Pinned(request[s])
    BY <1>3, CommitStep DEF Request
  <2>2. request[s].op \in Ordinary /\ ~Effect(request[s]).corrected
    BY <2>1 DEF Request
  <2>3. ~project[p].corrected
    BY <2>1, <2>2, OrdinaryEffect DEF IInv
  <2>. QED
    BY <1>3, <2>1, <2>2, <2>3, SettledBatch DEF Settled
<1>4. ASSUME NEW s \in Slot, ProjectRequest(s, p) \/ \E x \in Person : RosterRequest(s, p, x)
      PROVE  UNCHANGED <<project, participant>>
  BY <1>4, ProjectReads, RosterReads DEF Read
<1>5. \/ UNCHANGED <<project, participant>> \/ AutoClose(p)
      \/ \E s \in Slot : Commit(s)
  BY <1>4 DEF Next, vars, SetOrganization, SetAssignment, MoveElsewhere, Fail
<1>. QED
  BY <1>1, <1>2, <1>3, <1>5

LEMMA InitSettled == Init => Settled
<1>. SUFFICES ASSUME Init, NEW p \in Project
              PROVE  Placed(project[p]) /\ Sourced(project[p])
  BY DEF Settled
<1>1. (\A x \in Person : project[p].roster[x] = None) /\ (\A o \in Org : project[p].snapshot[o] = None)
  BY DEF Init
<1>. QED
  BY <1>1 DEF Placed, Sourced, Entries

\* The people of one kind are counted completely in the rows of the summary, if an
\* organization with one of them is shown.
LEMMA AllCounted ==
  ASSUME NEW p \in Project, project[p] \in ProjectRow, Placed(project[p]),
         NEW X \in SUBSET Entries(project[p]),
         NEW count, CountsAt(count, project[p], X),
         \A o \in Org : count[o] # 0 => Shown(p, o)
  PROVE  SumFunctionOnSet(count, SummaryRows(p)) = Cardinality(X)
<1>. DEFINE r == project[p]
            T == SummaryRows(p)
<1>1. T \in SUBSET Org
  BY DEF SummaryRows
<1>2. SumFunctionOnSet(count, T) = Cardinality({x \in X : r.roster[x].org \in T})
  BY <1>1, CountedByOrg
<1>3. ASSUME NEW x \in X
      PROVE  r.roster[x].org \in T
  <2>. DEFINE o == r.roster[x].org
  <2>1. o \in Org /\ r.linked[o] # "NONE"
    BY DEF ProjectRow, Entries, Entry, Placed
  <2>2. count[o] # 0
    <3>. DEFINE Y == {y \in X : r.roster[y].org = o}
    <3>1. x \in Y /\ IsFiniteSet(Y)
      BY RosterConstants, FS_Subset DEF Entries
    <3>2. Cardinality(Y) # 0
      <4>. HIDE DEF Y
      <4>. QED
        BY <3>1, FS_EmptySet
    <3>. QED
      BY <2>1, <3>2 DEF CountsAt
  <2>. QED
    BY <2>1, <2>2 DEF SummaryRows
<1>4. {x \in X : r.roster[x].org \in T} = X
  BY <1>3
<1>. QED
  BY <1>2, <1>4

\* The attending, the cancelled and the added ones.
LEMMA TotalsCount ==
  ASSUME NEW p \in Project, project[p] \in ProjectRow, Placed(project[p])
  PROVE  LET e == project[p].roster IN
         /\ FinalTotal(p) = Cardinality({x \in Entries(project[p]) : Attending(e[x])})
         /\ CancelledTotal(p) = Cardinality({x \in Entries(project[p]) : Cancelled(e[x])})
         /\ AddedTotal(p) = Cardinality({x \in Entries(project[p]) : Added(e[x])})
<1>. DEFINE r == project[p]
            A == {x \in Entries(r) : Attending(r.roster[x])}
            C == {x \in Entries(r) : Cancelled(r.roster[x])}
            D == {x \in Entries(r) : Added(r.roster[x])}
<1>1. FinalTotal(p) = Cardinality(A)
  <2>. DEFINE count == [o \in Org |-> Count(r, o, Attending)]
  <2>1. \A o \in Org :
          {x \in Person : r.roster[x] # None /\ r.roster[x].org = o /\ Attending(r.roster[x])}
            = {x \in A : r.roster[x].org = o}
    BY DEF Entries
  <2>2. \A o \in Org : count[o] = Cardinality({x \in A : r.roster[x].org = o})
    BY <2>1 DEF Count
  <2>3. \A o \in Org : count[o] # 0 => Shown(p, o)
    BY DEF Shown
  <2>4. FinalTotal(p) = SumFunctionOnSet(count, SummaryRows(p)) /\ A \in SUBSET Entries(r)
    BY DEF FinalTotal, Total
  <2>. HIDE DEF count, A
  <2>5. CountsAt(count, r, A)
    BY <2>2 DEF CountsAt
  <2>. QED
    BY <2>3, <2>4, <2>5, AllCounted
<1>2. CancelledTotal(p) = Cardinality(C)
  <2>. DEFINE count == [o \in Org |-> Count(r, o, Cancelled)]
  <2>1. \A o \in Org :
          {x \in Person : r.roster[x] # None /\ r.roster[x].org = o /\ Cancelled(r.roster[x])}
            = {x \in C : r.roster[x].org = o}
    BY DEF Entries
  <2>2. \A o \in Org : count[o] = Cardinality({x \in C : r.roster[x].org = o})
    BY <2>1 DEF Count
  <2>3. \A o \in Org : count[o] # 0 => Shown(p, o)
    BY DEF Shown
  <2>4. CancelledTotal(p) = SumFunctionOnSet(count, SummaryRows(p)) /\ C \in SUBSET Entries(r)
    BY DEF CancelledTotal, Total
  <2>. HIDE DEF count, C
  <2>5. CountsAt(count, r, C)
    BY <2>2 DEF CountsAt
  <2>. QED
    BY <2>3, <2>4, <2>5, AllCounted
<1>3. AddedTotal(p) = Cardinality(D)
  <2>. DEFINE count == [o \in Org |-> Count(r, o, Added)]
  <2>1. \A o \in Org :
          {x \in Person : r.roster[x] # None /\ r.roster[x].org = o /\ Added(r.roster[x])}
            = {x \in D : r.roster[x].org = o}
    BY DEF Entries
  <2>2. \A o \in Org : count[o] = Cardinality({x \in D : r.roster[x].org = o})
    BY <2>1 DEF Count
  <2>3. \A o \in Org : count[o] # 0 => Shown(p, o)
    BY DEF Shown
  <2>4. AddedTotal(p) = SumFunctionOnSet(count, SummaryRows(p)) /\ D \in SUBSET Entries(r)
    BY DEF AddedTotal, Total
  <2>. HIDE DEF count, D
  <2>5. CountsAt(count, r, D)
    BY <2>2 DEF CountsAt
  <2>. QED
    BY <2>3, <2>4, <2>5, AllCounted
<1>. QED
  BY <1>1, <1>2, <1>3

\* The expected ones, once the start has counted them.
LEMMA ExpectedCount ==
  ASSUME NEW p \in Project, project[p] \in ProjectRow, Sourced(project[p]),
         CountsFlags(project[p]), project[p].status # "PRE_REGISTRATION"
  PROVE  ExpectedTotal(p) = Cardinality(Expectees(project[p]))
<1>. DEFINE r == project[p]
            T == SummaryRows(p)
            figure == [o \in Org |-> Expected(r, o)]
<1>1. \A o \in Org : figure[o] = Recorded(r)[o] /\ Recorded(r)[o] \in Nat
  BY DEF Expected, Recorded, ProjectRow
<1>2. T \in SUBSET Org
  BY DEF SummaryRows
<1>3. NatOn(figure, T) /\ NatOn(Recorded(r), T)
  BY <1>1, <1>2, RosterConstants, FS_Subset DEF NatOn
<1>4. ASSUME NEW o \in Org \ T
      PROVE  Recorded(r)[o] = 0
  <2>1. r.linked[o] # "NONE" => Expected(r, o) = 0
    BY <1>4 DEF SummaryRows, Shown
  <2>2. r.linked[o] = "NONE" => Recorded(r)[o] = 0
    BY DEF Sourced, Recorded
  <2>. QED
    BY <1>1, <2>1, <2>2
<1>5. ExpectedTotal(p) = SumFunctionOnSet(figure, T)
  BY DEF ExpectedTotal, Total
<1>. HIDE DEF figure, T, r
<1>6. SumFunctionOnSet(figure, T) = SumFunctionOnSet(Recorded(r), T)
  BY <1>1, <1>2, <1>3, SumAgrees
<1>7. SumFunctionOnSet(Recorded(r), Org) = SumFunctionOnSet(Recorded(r), T)
  BY <1>2, <1>3, <1>4, RosterConstants, SumOfZeros
<1>. QED
  BY <1>5, <1>6, <1>7 DEF CountsFlags, r

InvSettled == IInv /\ Counted /\ Settled

\* Everyone who attends is counted in the row of some organization that the summary
\* shows, whatever has been excluded, deactivated or deleted since: an organization with
\* an entry keeps its row, also when a participant is moved to it.  For a project whose
\* participants no other project moves, until a correction.
THEOREM EveryoneIsCounted ==
  ASSUME Elsewhere = FALSE, NEW p, Project = {p}
  PROVE  Spec => []EveryoneCounted
<1>1. Init => InvSettled
  BY InitInv, InitCounted, InitSettled DEF InvSettled
<1>2. InvSettled /\ [Next]_vars => InvSettled'
  BY StepInv, StepCounted, StepSettled DEF InvSettled
<1>3. ASSUME InvSettled
      PROVE  EveryoneCounted
  BY <1>3, TotalsCount DEF InvSettled, IInv, TypeOK, Settled, EveryoneCounted
<1>. QED
  BY <1>1, <1>2, <1>3, PTL DEF Spec

\* Once the start has recorded who was expected, attending = expected + added - cancelled,
\* through moves, cancellations, comebacks, the close and the reopening: every entry is
\* in the sum with one sign, because only the expected ones keep the source of the
\* pre-registration when they come back.  For a project as above.
THEOREM SummaryAlwaysAddsUp ==
  ASSUME Elsewhere = FALSE, NEW p, Project = {p}
  PROVE  Spec => []SummaryAddsUp
<1>1. Init => InvSettled
  BY InitInv, InitCounted, InitSettled DEF InvSettled
<1>2. InvSettled /\ [Next]_vars => InvSettled'
  BY StepInv, StepCounted, StepSettled DEF InvSettled
<1>3. ASSUME InvSettled, ~project[p].corrected, \E o \in Org : project[p].snapshot[o] # None
      PROVE  FinalTotal(p) + CancelledTotal(p) = ExpectedTotal(p) + AddedTotal(p)
  <2>. DEFINE r == project[p]
              A == {x \in Entries(r) : Attending(r.roster[x])}
              C == {x \in Entries(r) : Cancelled(r.roster[x])}
              D == {x \in Entries(r) : Added(r.roster[x])}
              E == Expectees(r)
              stayed == {x \in E : Attending(r.roster[x])}
  <2>1. r \in ProjectRow /\ Placed(r) /\ Sourced(r) /\ CountsFlags(r) /\ r.status # "PRE_REGISTRATION"
    BY <1>3 DEF InvSettled, IInv, TypeOK, Settled, Counted, CountsFlags
  <2>2. /\ FinalTotal(p) = Cardinality(A) /\ CancelledTotal(p) = Cardinality(C)
        /\ AddedTotal(p) = Cardinality(D) /\ ExpectedTotal(p) = Cardinality(E)
    BY <2>1, TotalsCount, ExpectedCount
  <2>3. A = stayed \cup D /\ E = stayed \cup C
    <3>. SUFFICES ASSUME NEW x \in Entries(r)
                  PROVE  /\ Attending(r.roster[x]) <=>
                              \/ r.roster[x].expected /\ Attending(r.roster[x])
                              \/ Added(r.roster[x])
                         /\ r.roster[x].expected <=>
                              \/ r.roster[x].expected /\ Attending(r.roster[x])
                              \/ Cancelled(r.roster[x])
      BY DEF Entries, Expectees
    <3>1. r.roster[x] \in Entry /\ r.roster[x] # None
      BY <2>1 DEF ProjectRow, Entries
    <3>2. r.roster[x].expected => r.roster[x].source = "PRE_REGISTRATION"
      BY <2>1 DEF Sourced
    <3>3. Expectable(r.roster[x]) => r.roster[x].expected
      BY <1>3, <2>1 DEF Sourced
    <3>. QED
      BY <3>1, <3>2, <3>3 DEF Entry, Source, Attending, Added, Cancelled, Expectable
  <2>4. stayed \cap D = {} /\ stayed \cap C = {}
    BY <2>1 DEF Sourced, Attending, Added, Cancelled, Expectees
  <2>5. IsFiniteSet(stayed) /\ IsFiniteSet(C) /\ IsFiniteSet(D)
    BY RosterConstants, FS_Subset DEF Entries, Expectees
  <2>. HIDE DEF A, C, D, E, stayed
  <2>6. Cardinality(A) = Cardinality(stayed) + Cardinality(D)
    BY <2>3, <2>4, <2>5, DisjointCardinality
  <2>7. Cardinality(E) = Cardinality(stayed) + Cardinality(C)
    BY <2>3, <2>4, <2>5, DisjointCardinality
  <2>. QED
    BY <2>2, <2>5, <2>6, <2>7, FS_CardinalityType
<1>4. InvSettled => SummaryAddsUp
  BY <1>3 DEF SummaryAddsUp
<1>. QED
  BY <1>1, <1>2, <1>4, PTL DEF Spec

=============================================================================
