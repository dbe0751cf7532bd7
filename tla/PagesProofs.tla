----------------------------- MODULE PagesProofs -----------------------------
(* Proofs about WebPages, for every value of its constants.                   *)
EXTENDS WebPages, Sequences, TLAPS

-----------------------------------------------------------------------------
(* The audit log.                                                             *)

AuditRead ==
  [project : Project, kind : {"FIRST", "MORE"}, cursor : Int, fresh : BOOLEAN,
   owner : BOOLEAN, code : {"NONE", "OK", "FAILED"}, newest : Int]

Item == [project : Project, number : Int]

List ==
  [project : Project, items : Seq(Item), cursor : Int, loading : BOOLEAN,
   failed : BOOLEAN, more : BOOLEAN, reads : SUBSET AuditRead]

\* The list is one run of its project's events down to the cursor.
OneRun(l) ==
  /\ \A i \in 1..Len(l.items) :
       /\ l.items[i].project = l.project
       /\ l.items[i].number + i = l.items[1].number + 1
  /\ l.cursor # 0 => Len(l.items) > 0 /\ l.items[Len(l.items)].number = l.cursor

\* A read the list waits for belongs where the list stands.
Continues(r, l) ==
  /\ r.project = l.project
  /\ r.kind = "FIRST" => l.cursor = 0
  /\ r.kind = "MORE" =>
       /\ l.more /\ l.cursor # 0 /\ r.cursor = l.cursor
       /\ r.code = "OK" => r.newest = r.cursor - 1

\* At most one read counts, and whoever waits waits for it.
OneRead(l) ==
  /\ \A r \in l.reads : Audit!Owns(r) => Continues(r, l)
  /\ \A r, s \in l.reads : Audit!Owns(r) /\ Audit!Owns(s) => r = s
  /\ l.loading => \E r \in l.reads : r.kind = "FIRST" /\ Audit!Owns(r)
  /\ l.more => \E r \in l.reads : r.kind = "MORE" /\ Audit!Owns(r)

AuditSound(l) == l \in List /\ OneRun(l) /\ OneRead(l)

AuditInv == events \in [Project -> Int] /\ AuditSound(list)

\* Reads that were disowned or belong to an older generation count no more.
LEMMA DisownedReads ==
  ASSUME NEW S \in SUBSET AuditRead
  PROVE  /\ Audit!Disowned(S) \in SUBSET AuditRead
         /\ \A r \in Audit!Disowned(S) : ~Audit!Owns(r)
         /\ Audit!Outdated(S) \in SUBSET AuditRead
<1>1. ASSUME NEW r \in AuditRead
      PROVE  /\ [r EXCEPT !.owner = FALSE] \in AuditRead
             /\ ~[r EXCEPT !.owner = FALSE].owner
             /\ [r EXCEPT !.fresh = FALSE] \in AuditRead
  BY DEF AuditRead
<1>. QED
  BY <1>1 DEF Audit!Disowned, Audit!Outdated, Audit!Owns

LEMMA AskedIsRead ==
  ASSUME NEW p \in Project, NEW kind \in {"FIRST", "MORE"}, NEW n \in Int
  PROVE  LET r == Audit!Asked(p, kind, n) IN
         /\ r \in AuditRead /\ Audit!Owns(r)
         /\ r.project = p /\ r.kind = kind /\ r.cursor = n /\ r.code = "NONE"
BY DEF Audit!Asked, AuditRead, Audit!Owns

\* Asking for the first page leaves a sound list, whatever was under way.
LEMMA LoadAuditSound ==
  ASSUME NEW l \in List, \A i \in 1..Len(l.items) :
           /\ l.items[i].project = l.project
           /\ l.items[i].number + i = l.items[1].number + 1
  PROVE  AuditSound(Audit!LoadAudit(l))
<1>. DEFINE m == Audit!LoadAudit(l)
            a == Audit!Asked(l.project, "FIRST", 0)
            others == Audit!Disowned(l.reads)
<1>1. l.project \in Project /\ l.reads \in SUBSET AuditRead
  BY DEF List
<1>2. a \in AuditRead /\ Audit!Owns(a) /\ a.project = l.project /\ a.kind = "FIRST"
  BY <1>1, AskedIsRead
<1>3. others \in SUBSET AuditRead /\ \A r \in others : ~Audit!Owns(r)
  BY <1>1, DisownedReads
<1>4. /\ m \in List
      /\ m.project = l.project /\ m.items = l.items /\ m.cursor = 0
      /\ m.loading = TRUE /\ m.more = FALSE /\ m.reads = others \cup {a}
  <2>. HIDE DEF a, others
  <2>1. m = [l EXCEPT !.loading = TRUE, !.failed = FALSE, !.cursor = 0, !.more = FALSE,
                      !.reads = others \cup {a}]
    BY DEF Audit!LoadAudit, a, others
  <2>2. others \cup {a} \in SUBSET AuditRead
    BY <1>2, <1>3
  <2>. DEFINE first == [l EXCEPT !.loading = TRUE, !.failed = FALSE]
              next == [first EXCEPT !.cursor = 0]
              half == [next EXCEPT !.more = FALSE]
  <2>3. first \in List /\ first.project = l.project /\ first.items = l.items
        /\ first.loading = TRUE
    BY DEF List
  <2>4. m = [half EXCEPT !.reads = others \cup {a}]
    BY <2>1
  <2>. HIDE DEF m, first
  <2>5. next \in List /\ next.project = l.project /\ next.items = l.items
        /\ next.loading = TRUE /\ next.cursor = 0
    BY <2>3 DEF List
  <2>. HIDE DEF next
  <2>6. half \in List /\ half.project = l.project /\ half.items = l.items
        /\ half.loading = TRUE /\ half.cursor = 0 /\ half.more = FALSE
    BY <2>5 DEF List
  <2>. HIDE DEF half
  <2>. QED
    BY <2>2, <2>4, <2>6 DEF List
<1>. HIDE DEF m, a, others
<1>5. OneRun(m)
  BY <1>4 DEF OneRun
<1>6. OneRead(m)
  BY <1>2, <1>3, <1>4 DEF OneRead, Continues
<1>. QED
  BY <1>4, <1>5, <1>6 DEF AuditSound, m

LEMMA ReloadedSound ==
  ASSUME NEW l \in List, \A i \in 1..Len(l.items) :
           /\ l.items[i].project = l.project
           /\ l.items[i].number + i = l.items[1].number + 1
  PROVE  AuditSound(Audit!Reloaded(l))
<1>. DEFINE m == [l EXCEPT !.reads = Audit!Outdated(@)]
<1>1. Audit!Outdated(l.reads) \in SUBSET AuditRead
  BY DisownedReads DEF List
<1>2. m \in List /\ m.items = l.items /\ m.project = l.project
  BY <1>1 DEF List
<1>. HIDE DEF m
<1>3. AuditSound(Audit!LoadAudit(m))
  BY <1>2, LoadAuditSound
<1>. QED
  BY <1>3 DEF Audit!Reloaded, m

LEMMA ShownIsList ==
  ASSUME NEW p \in Project, NEW reads \in SUBSET AuditRead
  PROVE  /\ Audit!Shown(p, reads) \in List
         /\ Audit!Shown(p, reads).items = <<>>
BY DEF Audit!Shown, List

LEMMA AuditStarts == Audit!Init => AuditInv
<1>. SUFFICES ASSUME Audit!Init PROVE AuditInv
  OBVIOUS
<1>1. events \in [Project -> Int]
  BY DEF Audit!Init
<1>2. PICK p \in Project : list = Audit!LoadAudit(Audit!Shown(p, {}))
  BY DEF Audit!Init
<1>3. Audit!Shown(p, {}) \in List /\ Audit!Shown(p, {}).items = <<>>
  BY ShownIsList
<1>4. AuditSound(list)
  BY <1>2, <1>3, LoadAuditSound
<1>. QED
  BY <1>1, <1>4 DEF AuditInv

\* What the user does.
LEMMA AuditUser ==
  ASSUME AuditInv,
         (\E p \in Project : Audit!Navigate(p)) \/ Audit!Reload \/ Audit!RetryResource
  PROVE  AuditInv'
<1>0. list \in List /\ OneRun(list)
  BY DEF AuditInv, AuditSound
<1>1. events' = events
  BY DEF Audit!Navigate, Audit!Reload, Audit!RetryResource, Audit!Moves
<1>2. ASSUME NEW p \in Project, Audit!Navigate(p) PROVE AuditSound(list')
  <2>1. list' = Audit!Reloaded(Audit!Shown(p, list.reads))
    BY <1>2 DEF Audit!Navigate, Audit!Moves
  <2>2. /\ Audit!Shown(p, list.reads) \in List
        /\ Audit!Shown(p, list.reads).items = <<>>
    BY <1>0, ShownIsList DEF List
  <2>. QED
    BY <2>1, <2>2, ReloadedSound
<1>3. CASE Audit!Reload
  <2>1. list' = Audit!Reloaded(list)
    BY <1>3 DEF Audit!Reload, Audit!Moves
  <2>. QED
    BY <1>0, <1>1, <2>1, ReloadedSound DEF OneRun, AuditInv
<1>4. CASE Audit!RetryResource
  <2>1. list' = Audit!LoadAudit(list)
    BY <1>4 DEF Audit!RetryResource, Audit!Moves
  <2>. QED
    BY <1>0, <1>1, <2>1, LoadAuditSound DEF OneRun, AuditInv
<1>. QED
  BY <1>1, <1>2, <1>3, <1>4 DEF AuditInv

LEMMA AuditMore ==
  ASSUME AuditInv, Audit!LoadMoreAudit
  PROVE  AuditInv'
<1>. DEFINE a == Audit!Asked(list.project, "MORE", list.cursor)
<1>1. list \in List /\ OneRun(list) /\ OneRead(list)
  BY DEF AuditInv, AuditSound
<1>2. a \in AuditRead /\ Audit!Owns(a) /\ a.project = list.project /\ a.kind = "MORE"
      /\ a.cursor = list.cursor /\ a.code = "NONE"
  BY <1>1, AskedIsRead DEF List
<1>. HIDE DEF a
<1>3. list.cursor # 0 /\ ~list.more /\ events' = events
      /\ list' = [list EXCEPT !.more = TRUE, !.reads = list.reads \cup {a}]
  BY DEF Audit!LoadMoreAudit, Audit!Moves, a
<1>4. /\ list' \in List
      /\ list'.project = list.project /\ list'.items = list.items
      /\ list'.cursor = list.cursor /\ list'.loading = list.loading
      /\ list'.more = TRUE /\ list'.reads = list.reads \cup {a}
  <2>1. list.reads \cup {a} \in SUBSET AuditRead
    BY <1>1, <1>2 DEF List
  <2>. QED
    BY <1>1, <1>3, <2>1 DEF List
<1>5. \A r \in list.reads : ~Audit!Owns(r)
  BY <1>1, <1>3 DEF OneRead, Continues, List, AuditRead
<1>6. OneRun(list')
  BY <1>1, <1>4 DEF OneRun
<1>7. OneRead(list')
  BY <1>1, <1>2, <1>3, <1>4, <1>5 DEF OneRead, Continues
<1>. QED
  BY <1>3, <1>4, <1>6, <1>7 DEF AuditInv, AuditSound

\* The answer to a read changes neither what it is about nor whether it counts.
LEMMA AuditAnswered ==
  ASSUME AuditInv, NEW r \in list.reads, NEW code \in {"OK", "FAILED"}, NEW n \in Int,
         code = "OK" /\ r.kind = "MORE" => n = r.cursor - 1,
         Audit!Answered(r, code, n)
  PROVE  AuditSound(list')
<1>. DEFINE a == [r EXCEPT !.code = code, !.newest = n]
<1>1. list \in List /\ OneRun(list) /\ OneRead(list) /\ r \in AuditRead
  BY DEF AuditInv, AuditSound, List
<1>2. /\ a \in AuditRead /\ (Audit!Owns(a) <=> Audit!Owns(r)) /\ a.project = r.project
      /\ a.kind = r.kind /\ a.cursor = r.cursor /\ a.code = code /\ a.newest = n
  BY <1>1 DEF AuditRead, Audit!Owns
<1>. HIDE DEF a
<1>3. list' = [list EXCEPT !.reads = (list.reads \ {r}) \cup {a}]
  BY DEF Audit!Answered, a
<1>4. /\ list' \in List
      /\ list'.project = list.project /\ list'.items = list.items
      /\ list'.cursor = list.cursor /\ list'.loading = list.loading
      /\ list'.more = list.more /\ list'.reads = (list.reads \ {r}) \cup {a}
  <2>1. (list.reads \ {r}) \cup {a} \in SUBSET AuditRead
    BY <1>1, <1>2 DEF List
  <2>. QED
    BY <1>1, <1>3, <2>1 DEF List
<1>6. OneRun(list')
  BY <1>1, <1>4 DEF OneRun
<1>7. \A x \in list'.reads : Audit!Owns(x) => Continues(x, list')
  <2>1. \A x \in list.reads : Audit!Owns(x) => Continues(x, list)
    BY <1>1 DEF OneRead
  <2>2. Audit!Owns(a) => Continues(a, list)
    BY <1>2, <2>1 DEF Continues
  <2>3. \A x : Continues(x, list) => Continues(x, list')
    BY <1>4 DEF Continues
  <2>. QED
    BY <1>4, <2>1, <2>2, <2>3
<1>8. \A x, y \in list'.reads : Audit!Owns(x) /\ Audit!Owns(y) => x = y
  BY <1>1, <1>2, <1>4 DEF OneRead
<1>9. /\ list'.loading => \E x \in list'.reads : x.kind = "FIRST" /\ Audit!Owns(x)
      /\ list'.more => \E x \in list'.reads : x.kind = "MORE" /\ Audit!Owns(x)
  BY <1>1, <1>2, <1>4 DEF OneRead
<1>. QED
  BY <1>4, <1>6, <1>7, <1>8, <1>9 DEF AuditSound, OneRead

LEMMA AuditServed ==
  ASSUME AuditInv, NEW r \in list.reads, Audit!Serve(r) \/ Audit!Lose(r)
  PROVE  AuditInv'
<1>1. r \in AuditRead /\ events \in [Project -> Int]
  BY DEF AuditInv, AuditSound, List
<1>2. CASE Audit!Serve(r)
  <2>1. PICK n \in events[r.project] .. MaxEvents :
          /\ events' = [events EXCEPT ![r.project] = n]
          /\ Audit!Answered(r, "OK", IF r.kind = "FIRST" THEN n ELSE r.cursor - 1)
    BY <1>2 DEF Audit!Serve
  <2>2. n \in Int /\ r.cursor \in Int
    BY <1>1 DEF AuditRead
  <2>3. events' \in [Project -> Int]
    BY <1>1, <2>1, <2>2
  <2>4. CASE r.kind = "FIRST"
    BY <2>1, <2>2, <2>3, <2>4, AuditAnswered DEF AuditInv
  <2>5. CASE r.kind # "FIRST"
    BY <2>1, <2>2, <2>3, <2>5, AuditAnswered DEF AuditInv
  <2>. QED
    BY <2>4, <2>5
<1>3. CASE Audit!Lose(r)
  BY <1>1, <1>3, AuditAnswered DEF Audit!Lose, AuditInv
<1>. QED
  BY <1>2, <1>3

\* The answer to a read that counts continues the run; any other leaves the list.
LEMMA AuditReceived ==
  ASSUME AuditInv, NEW r \in list.reads, Audit!Receive(r)
  PROVE  AuditInv'
<1>. DEFINE rest == [list EXCEPT !.reads = list.reads \ {r}]
<1>1. list \in List /\ OneRun(list) /\ OneRead(list) /\ r \in AuditRead
  BY DEF AuditInv, AuditSound, List
<1>2. /\ rest \in List
      /\ rest.project = list.project /\ rest.items = list.items
      /\ rest.cursor = list.cursor /\ rest.loading = list.loading
      /\ rest.more = list.more /\ rest.reads = list.reads \ {r}
  <2>1. list.reads \ {r} \in SUBSET AuditRead
    BY <1>1 DEF List
  <2>. QED
    BY <1>1, <2>1 DEF List
<1>3. /\ r.code # "NONE" /\ events' = events
      /\ list' = IF r.kind = "FIRST" THEN Audit!FirstShown(rest, r) ELSE Audit!MoreShown(rest, r)
  BY DEF Audit!Receive
<1>. HIDE DEF rest
<1>4. CASE ~Audit!Owns(r)
  <2>1. Audit!FirstShown(rest, r) = rest /\ Audit!MoreShown(rest, r) = rest
    BY <1>4 DEF Audit!FirstShown, Audit!MoreShown
  <2>4. list' = rest
    BY <1>3, <2>1
  <2>2. OneRun(list')
    BY <1>1, <1>2, <2>4 DEF OneRun
  <2>3. OneRead(list')
    <3>1. \A x : Continues(x, list) => Continues(x, rest)
      BY <1>2 DEF Continues
    <3>. QED
      BY <1>1, <1>2, <1>4, <2>4, <3>1 DEF OneRead
  <2>. QED
    BY <1>2, <1>3, <2>4, <2>2, <2>3 DEF AuditInv, AuditSound
<1>5. CASE Audit!Owns(r)
  <2>1. /\ \A x \in rest.reads : ~Audit!Owns(x)
        /\ Continues(r, list)
        /\ r.kind = "FIRST" => ~list.more
        /\ r.kind = "MORE" => ~list.loading
    BY <1>1, <1>2, <1>5 DEF OneRead, List
  <2>2. CASE r.code # "OK"
    <3>1. /\ list' \in List
          /\ list'.project = list.project /\ list'.items = list.items
          /\ list'.cursor = list.cursor /\ list'.loading = FALSE
          /\ list'.more = FALSE /\ list'.reads = rest.reads
      <4>1. CASE r.kind = "FIRST"
        <5>1. list' = [rest EXCEPT !.failed = TRUE, !.loading = FALSE]
          BY <1>3, <1>5, <2>2, <4>1 DEF Audit!FirstShown
        <5>. QED
          BY <1>2, <2>1, <4>1, <5>1 DEF List
      <4>2. CASE r.kind # "FIRST"
        <5>1. list' = [rest EXCEPT !.more = FALSE] /\ r.kind = "MORE"
          BY <1>1, <1>3, <1>5, <2>2, <4>2 DEF Audit!MoreShown, AuditRead
        <5>. QED
          BY <1>2, <2>1, <4>2, <5>1 DEF List
      <4>. QED
        BY <4>1, <4>2
    <3>2. OneRun(list')
      BY <1>1, <3>1 DEF OneRun
    <3>3. OneRead(list')
      BY <2>1, <3>1 DEF OneRead
    <3>. QED
      BY <1>3, <3>1, <3>2, <3>3 DEF AuditInv, AuditSound
  <2>3. CASE r.code = "OK" /\ r.kind = "FIRST"
    <3>. DEFINE e == Audit!Event(r.project, r.newest)
    <3>1. /\ e \in Item /\ e.project = list.project /\ e.number = r.newest
          /\ r.newest \in Int /\ Audit!NextCursor(r.newest) \in Int
      BY <1>1, <2>1 DEF Audit!Event, Item, AuditRead, Audit!NextCursor, Continues
    <3>2. Audit!NextCursor(r.newest) # 0 => Audit!NextCursor(r.newest) = r.newest
      BY DEF Audit!NextCursor
    <3>. HIDE DEF e
    <3>3. list' = [rest EXCEPT !.items = <<e>>, !.cursor = Audit!NextCursor(r.newest),
                               !.loading = FALSE]
      BY <1>3, <1>5, <2>3 DEF Audit!FirstShown, e
    <3>4. <<e>> \in Seq(Item)
      BY <3>1
    <3>5. /\ list' \in List
          /\ list'.project = list.project /\ list'.items = <<e>>
          /\ list'.cursor = Audit!NextCursor(r.newest) /\ list'.loading = FALSE
          /\ list'.more = FALSE /\ list'.reads = rest.reads
      BY <1>2, <2>1, <2>3, <3>1, <3>3, <3>4 DEF List
    <3>6. OneRun(list')
      BY <3>1, <3>2, <3>5 DEF OneRun
    <3>7. OneRead(list')
      BY <2>1, <3>5 DEF OneRead
    <3>. QED
      BY <1>3, <3>5, <3>6, <3>7 DEF AuditInv, AuditSound
  <2>4. CASE r.code = "OK" /\ r.kind # "FIRST"
    <3>. DEFINE e == Audit!Event(r.project, r.newest)
                n == Len(list.items)
    <3>0. r.kind = "MORE"
      BY <1>1, <2>4 DEF AuditRead
    <3>1. /\ e \in Item /\ e.project = list.project /\ e.number = r.newest
          /\ r.newest \in Int /\ Audit!NextCursor(r.newest) \in Int
      BY <1>1, <2>1 DEF Audit!Event, Item, AuditRead, Audit!NextCursor, Continues
    <3>2. Audit!NextCursor(r.newest) # 0 => Audit!NextCursor(r.newest) = r.newest
      BY DEF Audit!NextCursor
    <3>3. list.cursor # 0 /\ r.newest = list.cursor - 1
      BY <2>1, <2>4, <3>0 DEF Continues
    <3>4. n > 0 /\ list.items[n].number = list.cursor /\ list.items \in Seq(Item) /\ n \in Nat
      BY <1>1, <3>3 DEF OneRun, List
    <3>. HIDE DEF e, n
    <3>5. list' = [rest EXCEPT !.items = Append(list.items, e),
                               !.cursor = Audit!NextCursor(r.newest), !.more = FALSE]
      BY <1>2, <1>3, <1>5, <2>4 DEF Audit!MoreShown, e
    <3>6. /\ Append(list.items, e) \in Seq(Item)
          /\ Len(Append(list.items, e)) = n + 1
          /\ Append(list.items, e)[n + 1] = e
          /\ \A i \in 1..n : Append(list.items, e)[i] = list.items[i]
      BY <3>1, <3>4 DEF n
    <3>7. /\ list' \in List
          /\ list'.project = list.project /\ list'.items = Append(list.items, e)
          /\ list'.cursor = Audit!NextCursor(r.newest) /\ list'.loading = FALSE
          /\ list'.more = FALSE /\ list'.reads = rest.reads
      BY <1>2, <2>1, <3>0, <3>1, <3>5, <3>6 DEF List
    <3>8. ASSUME NEW i \in 1..(n + 1)
          PROVE  /\ Append(list.items, e)[i].project = list.project
                 /\ Append(list.items, e)[i].number + i
                      = Append(list.items, e)[1].number + 1
      <4>0. \A j \in 1..n : /\ list.items[j].project = list.project
                            /\ list.items[j].number + j = list.items[1].number + 1
        BY <1>1 DEF OneRun, n
      <4>1. Append(list.items, e)[1] = list.items[1] /\ list.items[1].number \in Int
        <5>1. list.items[1] \in Item
          BY <3>4 DEF n
        <5>. QED
          BY <3>4, <3>6, <5>1 DEF Item
      <4>2. CASE i \in 1..n
        BY <3>6, <4>0, <4>1, <4>2
      <4>3. CASE i = n + 1
        <5>1. list.cursor + n = list.items[1].number + 1
          BY <3>4, <4>0
        <5>2. r.newest + (n + 1) = list.items[1].number + 1
          BY <1>1, <3>3, <3>4, <4>1, <5>1 DEF List
        <5>. QED
          BY <3>1, <3>6, <4>1, <4>3, <5>2
      <4>4. i \in 1..n \/ i = n + 1
        BY <3>4
      <4>. QED
        BY <4>2, <4>3, <4>4
    <3>9. OneRun(list')
      BY <3>1, <3>2, <3>4, <3>6, <3>7, <3>8 DEF OneRun
    <3>10. OneRead(list')
      BY <2>1, <3>7 DEF OneRead
    <3>. QED
      BY <1>3, <3>7, <3>9, <3>10 DEF AuditInv, AuditSound
  <2>. QED
    BY <2>2, <2>3, <2>4
<1>. QED
  BY <1>4, <1>5

LEMMA AuditKeeps == AuditInv /\ [Audit!Next]_<<events, list>> => AuditInv'
<1>. SUFFICES ASSUME AuditInv, [Audit!Next]_<<events, list>> PROVE AuditInv'
  OBVIOUS
<1>1. CASE UNCHANGED <<events, list>>
  BY <1>1 DEF AuditInv
<1>2. CASE Audit!Next
  BY <1>2, AuditUser, AuditMore, AuditServed, AuditReceived DEF Audit!Next
<1>. QED
  BY <1>1, <1>2

LEMMA AuditShows == AuditInv => Audit!Contiguous /\ Audit!WaitsEnd
BY DEF AuditInv, AuditSound, OneRun, OneRead, Audit!Contiguous, Audit!WaitsEnd

-----------------------------------------------------------------------------
(* The import of a workbook.                                                  *)

Row == [revision : Int, closed : BOOLEAN]

Chosen == [source : Source, pick : Pick \cup {None}]

Result == [project : Project, mode : Wizard!Mode, rows : Chosen, revision : Int]

Validation == [revision : Int, clean : BOOLEAN, of : Result]

Step == {"READ_FILE", "VALIDATE", "COMMIT"}

RequestForm ==
  [project : Project, mode : Wizard!Mode, kind : Step \cup {"LIST"},
   rows : Source \cup {None} \cup Chosen, revision : Int, fresh : BOOLEAN,
   code : {"NONE", "OK", "FAILED", "PROJECT_CLOSED", "UNAVAILABLE", "STALE_REVISION"},
   clean : BOOLEAN, result : Result \cup {None}]

\* A file is of a source, a validation of rows, a commit of what its result is about.
WizardRequest ==
  {r \in RequestForm :
     /\ r.kind = "READ_FILE" => r.rows \in Source
     /\ r.kind = "VALIDATE" => r.rows \in Chosen
     /\ r.kind = "COMMIT" => r.result = Wizard!Rowset(r, r.revision)}

Listed == [of : Project \cup {None}, state : {"idle", "loading", "failed"}]

WizardForm ==
  [project : Project, mode : Wizard!Mode, busy : Step \cup {"NONE"},
   source : Source \cup {None}, rows : Chosen \cup {None},
   validation : Validation \cup {None}, dirty : BOOLEAN, unavailable : BOOLEAN,
   list : Listed, requests : SUBSET WizardRequest]

\* The steps of the workflow that count are of the project and the kind of the path.
Working(w) ==
  \A r \in w.requests :
    r.fresh /\ r.kind # "LIST" => r.project = w.project /\ r.mode = w.mode

Listing(w) ==
  \A r \in w.requests : r.fresh /\ r.kind = "LIST" => r.project = w.project

\* A result that is not outdated is about the rows that are on the page.
Validated(w) ==
  w.validation # None =>
    /\ w.rows \in Chosen
    /\ ~w.dirty => w.validation.of = Wizard!Rowset(w, w.validation.revision)

BusyWaits(w) ==
  w.busy # "NONE" => \E r \in w.requests : r.fresh /\ r.kind = w.busy

ListWaits(w) ==
  w.list.state = "loading" => \E r \in w.requests : r.fresh /\ r.kind = "LIST"

ListInPlace(w) == w.list.of \in {None, w.project}

WizardSound(w) ==
  /\ w \in WizardForm
  /\ Working(w) /\ Listing(w) /\ Validated(w) /\ BusyWaits(w) /\ ListWaits(w)
  /\ ListInPlace(w)

WizardInv == imports \in [Project -> Row] /\ WizardSound(wizard)

\* What is superseded is no longer fresh, and nothing else changes.
LEMMA SupersededRequests ==
  ASSUME NEW S \in SUBSET WizardRequest, NEW kinds
  PROVE  LET T == Wizard!Superseded(S, kinds) IN
         /\ T \in SUBSET WizardRequest
         /\ \A r \in T : r.fresh => r \in S /\ r.kind \notin kinds
         /\ \A r \in S : r.kind \notin kinds => r \in T
<1>1. ASSUME NEW r \in WizardRequest
      PROVE  /\ [r EXCEPT !.fresh = FALSE] \in WizardRequest
             /\ ~[r EXCEPT !.fresh = FALSE].fresh
  <2>. DEFINE s == [r EXCEPT !.fresh = FALSE]
  <2>1. r \in RequestForm
    BY DEF WizardRequest
  <2>2. /\ s \in RequestForm /\ ~s.fresh /\ s.kind = r.kind /\ s.rows = r.rows
        /\ s.result = r.result /\ s.project = r.project /\ s.mode = r.mode
        /\ s.revision = r.revision
    BY <2>1 DEF RequestForm
  <2>. HIDE DEF s
  <2>3. Wizard!Rowset(s, s.revision) = Wizard!Rowset(r, r.revision)
    BY <2>2 DEF Wizard!Rowset
  <2>. QED
    BY <2>2, <2>3 DEF WizardRequest, s
<1>. QED
  BY <1>1 DEF Wizard!Superseded

\* A request starts fresh and is of the page that sends it.
\* The rows a request of a kind may carry.
MayCarry(w, kind, rows, n) ==
  /\ kind = "READ_FILE" => rows \in Source
  /\ kind = "VALIDATE" => rows \in Chosen
  /\ kind = "COMMIT" =>
       /\ w.validation \in Validation
       /\ w.validation.of = [project |-> w.project, mode |-> w.mode,
                             rows |-> rows, revision |-> n]

LEMMA RequestStarts ==
  ASSUME NEW w \in WizardForm, NEW kind \in Step \cup {"LIST"},
         NEW rows \in Source \cup {None} \cup Chosen, NEW n \in Int,
         MayCarry(w, kind, rows, n)
  PROVE  LET r == Wizard!Request(w, kind, rows, n) IN
         /\ r \in WizardRequest /\ r.fresh /\ r.kind = kind
         /\ r.project = w.project /\ r.mode = w.mode
<1>. DEFINE r == Wizard!Request(w, kind, rows, n)
            about == IF kind = "COMMIT" THEN w.validation.of ELSE None
<1>1. about \in Result \cup {None}
  BY DEF MayCarry, Validation
<1>2. w.project \in Project /\ w.mode \in Wizard!Mode
  BY DEF WizardForm
<1>3. r = [project |-> w.project, mode |-> w.mode, kind |-> kind, rows |-> rows,
           revision |-> n, fresh |-> TRUE, code |-> "NONE", clean |-> FALSE,
           result |-> about]
  BY DEF Wizard!Request
<1>4. kind = "COMMIT" => about = [project |-> w.project, mode |-> w.mode,
                                  rows |-> rows, revision |-> n]
  BY DEF MayCarry
<1>. HIDE DEF about
<1>5. r \in RequestForm
  BY <1>1, <1>2, <1>3 DEF RequestForm
<1>6. kind = "COMMIT" => r.result = Wizard!Rowset(r, r.revision)
  BY <1>3, <1>4 DEF Wizard!Rowset
<1>. QED
  BY <1>3, <1>5, <1>6 DEF WizardRequest, MayCarry

\* The next generation leaves no step of the workflow that counts.
LEMMA NextGenerationForm ==
  ASSUME NEW w \in WizardForm
  PROVE  LET v == Wizard!NextGeneration(w) IN
         /\ v \in WizardForm
         /\ v.project = w.project /\ v.mode = w.mode /\ v.list = w.list
         /\ v.rows = w.rows /\ v.validation = w.validation /\ v.busy = w.busy
         /\ v.source = w.source
         /\ \A r \in v.requests : r.fresh => r \in w.requests /\ r.kind = "LIST"
         /\ \A r \in w.requests : r.kind = "LIST" => r \in v.requests
<1>. DEFINE T == Wizard!Superseded(w.requests, Wizard!Workflow)
            v == Wizard!NextGeneration(w)
<1>1. w.requests \in SUBSET WizardRequest
  BY DEF WizardForm
<1>2. /\ T \in SUBSET WizardRequest
      /\ \A r \in T : r.fresh => r \in w.requests /\ r.kind \notin Wizard!Workflow
      /\ \A r \in w.requests : r.kind \notin Wizard!Workflow => r \in T
  BY <1>1, SupersededRequests
<1>3. \A r \in WizardRequest : r.kind \in Wizard!Workflow \/ r.kind = "LIST"
  BY DEF Wizard!Workflow, WizardRequest, RequestForm, Step
<1>4. "LIST" \notin Wizard!Workflow
  BY DEF Wizard!Workflow
<1>5. v = [w EXCEPT !.requests = T]
  BY DEF Wizard!NextGeneration
<1>. HIDE DEF T, v
<1>6. /\ v \in WizardForm
      /\ v.project = w.project /\ v.mode = w.mode /\ v.list = w.list
      /\ v.rows = w.rows /\ v.validation = w.validation /\ v.busy = w.busy
      /\ v.source = w.source /\ v.requests = T
  BY <1>2, <1>5 DEF WizardForm
<1>. QED
  BY <1>1, <1>2, <1>3, <1>4, <1>6 DEF v

\* A page without a workbook.
Cleared(v, w) ==
  /\ v \in WizardForm
  /\ v.project = w.project /\ v.mode = w.mode /\ v.list = w.list
  /\ v.busy = "NONE" /\ v.validation = None /\ v.rows = None
  /\ \A r \in v.requests : r.fresh => r \in w.requests /\ r.kind = "LIST"
  /\ \A r \in w.requests : r.kind = "LIST" => r \in v.requests

LEMMA ClearWorkbookClears ==
  ASSUME NEW w \in WizardForm
  PROVE  Cleared(Wizard!ClearWorkbook(w), w) /\ Cleared(Wizard!Discard(w), w)
<1>. DEFINE a == Wizard!NextGeneration(w)
            b == [a EXCEPT !.busy = "NONE", !.source = None]
            c == [b EXCEPT !.rows = None, !.validation = None]
            d == [c EXCEPT !.dirty = FALSE, !.unavailable = FALSE]
            e == Wizard!ClearWorkbook(w)
            f == Wizard!Discard(w)
<1>1. d = e /\ f = [e EXCEPT !.unavailable = TRUE]
  BY DEF Wizard!ClearWorkbook, Wizard!Discard
<1>2. /\ a \in WizardForm
      /\ a.project = w.project /\ a.mode = w.mode /\ a.list = w.list
      /\ \A r \in a.requests : r.fresh => r \in w.requests /\ r.kind = "LIST"
      /\ \A r \in w.requests : r.kind = "LIST" => r \in a.requests
  BY NextGenerationForm
<1>. HIDE DEF a
<1>3. /\ b \in WizardForm /\ b.busy = "NONE"
      /\ b.project = w.project /\ b.mode = w.mode /\ b.list = w.list
      /\ b.requests = a.requests
  BY <1>2 DEF WizardForm
<1>. HIDE DEF b, e, f
<1>4. /\ c \in WizardForm /\ c.busy = "NONE" /\ c.rows = None /\ c.validation = None
      /\ c.project = w.project /\ c.mode = w.mode /\ c.list = w.list
      /\ c.requests = a.requests
  BY <1>3 DEF WizardForm
<1>. HIDE DEF c
<1>5. /\ d \in WizardForm /\ d.busy = "NONE" /\ d.rows = None /\ d.validation = None
      /\ d.project = w.project /\ d.mode = w.mode /\ d.list = w.list
      /\ d.requests = a.requests
  BY <1>4 DEF WizardForm
<1>. HIDE DEF d
<1>6. /\ f \in WizardForm /\ f.busy = "NONE" /\ f.rows = None /\ f.validation = None
      /\ f.project = w.project /\ f.mode = w.mode /\ f.list = w.list
      /\ f.requests = a.requests
  BY <1>1, <1>5 DEF WizardForm
<1>. QED
  BY <1>1, <1>2, <1>5, <1>6 DEF Cleared, e, f

\* A cleared page is sound if the list it waits for is its own.
LEMMA ClearedSound ==
  ASSUME NEW v, NEW w, WizardSound(w), Cleared(v, w)
  PROVE  WizardSound(v)
BY DEF WizardSound, Cleared, Working, Listing, Validated, BusyWaits, ListWaits, ListInPlace

\* The list of organizations is asked for anew: only this request counts for it.
LEMMA LoadOrganizationsSound ==
  ASSUME NEW w \in WizardForm, Working(w), Validated(w), BusyWaits(w), ListInPlace(w)
  PROVE  WizardSound(Wizard!LoadOrganizations(w))
<1>. DEFINE a == Wizard!Request(w, "LIST", None, 0)
            T == Wizard!Superseded(w.requests, {"LIST"})
            v == Wizard!LoadOrganizations(w)
<1>1. a \in WizardRequest /\ a.fresh /\ a.kind = "LIST" /\ a.project = w.project
  <2>1. "LIST" \in Step \cup {"LIST"} /\ None \in Source \cup {None} \cup Chosen /\ 0 \in Int
    OBVIOUS
  <2>2. MayCarry(w, "LIST", None, 0)
    BY DEF MayCarry
  <2>. QED
    BY ONLY <2>1, <2>2, w \in WizardForm, RequestStarts
<1>2. w.requests \in SUBSET WizardRequest /\ w.list \in Listed
  BY DEF WizardForm
<1>3. /\ T \in SUBSET WizardRequest
      /\ \A r \in T : r.fresh => r \in w.requests /\ r.kind # "LIST"
      /\ \A r \in w.requests : r.kind # "LIST" => r \in T
  BY <1>2, SupersededRequests
<1>4. v = [w EXCEPT !.list.state = "loading", !.requests = T \cup {a}]
  BY DEF Wizard!LoadOrganizations
<1>. HIDE DEF a, T, v
<1>5. [w.list EXCEPT !.state = "loading"] \in Listed
      /\ [w.list EXCEPT !.state = "loading"].of = w.list.of
  BY <1>2 DEF Listed
<1>. DEFINE l == [w.list EXCEPT !.state = "loading"]
<1>6. v = [w EXCEPT !.list = l, !.requests = T \cup {a}]
  BY <1>4 DEF WizardForm
<1>. HIDE DEF l
<1>7. T \cup {a} \in SUBSET WizardRequest
  BY <1>1, <1>3
<1>8. /\ v \in WizardForm
      /\ v.project = w.project /\ v.mode = w.mode /\ v.list = l
      /\ v.rows = w.rows /\ v.validation = w.validation /\ v.busy = w.busy
      /\ v.dirty = w.dirty /\ v.requests = T \cup {a}
  BY <1>5, <1>6, <1>7 DEF WizardForm, l
<1>9. Working(v)
  BY <1>1, <1>3, <1>8 DEF Working
<1>10. Listing(v)
  BY <1>1, <1>3, <1>8 DEF Listing
<1>11. Validated(v)
  BY <1>8 DEF Validated, Wizard!Rowset
<1>12. BusyWaits(v)
  <2>1. w.busy # "LIST"
    BY DEF WizardForm, Step
  <2>. QED
    BY <1>3, <1>8, <2>1 DEF BusyWaits
<1>13. ListWaits(v)
  BY <1>1, <1>8 DEF ListWaits
<1>14. ListInPlace(v)
  BY <1>5, <1>8 DEF ListInPlace, l
<1>. QED
  BY <1>8, <1>9, <1>10, <1>11, <1>12, <1>13, <1>14 DEF WizardSound, v

LEMMA WizardStarts == Wizard!Init => WizardInv
<1>. SUFFICES ASSUME Wizard!Init PROVE WizardInv
  OBVIOUS
<1>1. imports \in [Project -> Row]
  BY DEF Wizard!Init, Row
<1>2. PICK p \in Project, mode \in Wizard!Mode :
        wizard = Wizard!LoadOrganizations(Wizard!NoFields(p, mode))
  BY DEF Wizard!Init
<1>. DEFINE w == Wizard!NoFields(p, mode)
<1>3. /\ w \in WizardForm /\ w.project = p /\ w.busy = "NONE" /\ w.validation = None
      /\ w.list.of = None /\ w.requests = {}
  BY DEF Wizard!NoFields, WizardForm, Listed
<1>. HIDE DEF w
<1>4. WizardSound(Wizard!LoadOrganizations(w))
  BY <1>3, LoadOrganizationsSound DEF Working, Validated, BusyWaits, ListInPlace
<1>. QED
  BY <1>1, <1>2, <1>4 DEF WizardInv, w

\* Whatever was on the page, a new path starts without a workbook.
LEMMA WizardNavigates ==
  ASSUME WizardSound(wizard), NEW p \in Project, NEW mode \in Wizard!Mode,
         Wizard!Navigate(p, mode)
  PROVE  WizardSound(wizard')
<1>. DEFINE c == Wizard!ClearWorkbook(wizard)
            w == [c EXCEPT !.project = p, !.mode = mode]
            v == [w EXCEPT !.list.of = None]
<1>0. wizard \in WizardForm
  BY DEF WizardSound
<1>1. Cleared(c, wizard)
  BY <1>0, ClearWorkbookClears
<1>2. wizard' = IF p = wizard.project THEN w ELSE Wizard!LoadOrganizations(v)
  BY DEF Wizard!Navigate, Wizard!Does
<1>. HIDE DEF c
<1>3. /\ w \in WizardForm /\ w.project = p /\ w.mode = mode /\ w.list = c.list
      /\ w.busy = "NONE" /\ w.validation = None /\ w.requests = c.requests
  BY <1>1 DEF Cleared, WizardForm
<1>. HIDE DEF w
<1>4. CASE p = wizard.project
  <2>1. WizardSound(w)
    BY <1>1, <1>3, <1>4
    DEF WizardSound, Cleared, Working, Listing, Validated, BusyWaits, ListWaits, ListInPlace
  <2>. QED
    BY <1>2, <1>4, <2>1
<1>5. CASE p # wizard.project
  <2>1. w.list \in Listed
    BY <1>3 DEF WizardForm
  <2>. DEFINE l == [w.list EXCEPT !.of = None]
  <2>2. l \in Listed /\ l.of = None
    BY <2>1 DEF Listed
  <2>3. v = [w EXCEPT !.list = l]
    BY <1>3 DEF WizardForm
  <2>. HIDE DEF l, v
  <2>4. /\ v \in WizardForm /\ v.project = p /\ v.list.of = None
        /\ v.busy = "NONE" /\ v.validation = None /\ v.requests = c.requests
    BY <1>3, <2>2, <2>3 DEF WizardForm
  <2>5. Working(v)
    BY <1>1, <2>4 DEF Working, Cleared
  <2>6. WizardSound(Wizard!LoadOrganizations(v))
    BY <2>4, <2>5, LoadOrganizationsSound DEF Validated, BusyWaits, ListInPlace
  <2>. QED
    BY <1>2, <1>5, <2>6 DEF v
<1>. QED
  BY <1>4, <1>5

LEMMA WizardReads ==
  ASSUME WizardSound(wizard), NEW s \in Source, Wizard!ChooseFile(s)
  PROVE  WizardSound(wizard')
<1>. DEFINE c == Wizard!ClearWorkbook(wizard)
            a == Wizard!Request(c, "READ_FILE", s, 0)
<1>0. wizard \in WizardForm
  BY DEF WizardSound
<1>1. Cleared(c, wizard)
  BY <1>0, ClearWorkbookClears
<1>2. wizard' = [c EXCEPT !.busy = "READ_FILE", !.requests = c.requests \cup {a}]
  BY DEF Wizard!ChooseFile, Wizard!Does
<1>. HIDE DEF c
<1>3. /\ a \in WizardRequest /\ a.fresh /\ a.kind = "READ_FILE"
      /\ a.project = c.project /\ a.mode = c.mode
  <2>1. /\ "READ_FILE" \in Step \cup {"LIST"} /\ s \in Source \cup {None} \cup Chosen
        /\ 0 \in Int /\ c \in WizardForm
    BY <1>1 DEF Step, Cleared
  <2>2. MayCarry(c, "READ_FILE", s, 0)
    BY DEF MayCarry
  <2>. QED
    BY ONLY <2>1, <2>2, RequestStarts
<1>. HIDE DEF a
<1>4. c.requests \cup {a} \in SUBSET WizardRequest
  BY <1>1, <1>3 DEF Cleared, WizardForm
<1>5. /\ wizard' \in WizardForm /\ wizard'.project = c.project /\ wizard'.mode = c.mode
      /\ wizard'.list = c.list /\ wizard'.busy = "READ_FILE"
      /\ wizard'.validation = None /\ wizard'.requests = c.requests \cup {a}
  BY <1>1, <1>2, <1>4 DEF Cleared, WizardForm, Step
<1>6. WizardSound(c)
  BY <1>1, ClearedSound
<1>. QED
  BY <1>1, <1>3, <1>5, <1>6
  DEF WizardSound, Cleared, Working, Listing, Validated, BusyWaits, ListWaits, ListInPlace

LEMMA WizardChanges ==
  ASSUME WizardSound(wizard),
         \/ \E s \in Source : Wizard!ChangeSheet(s)
         \/ \E x \in Pick \cup {None} : Wizard!ResolveCandidate(x)
  PROVE  WizardSound(wizard')
<1>. DEFINE n == Wizard!NextGeneration(wizard)
<1>0. wizard \in WizardForm
  BY DEF WizardSound
<1>1. /\ n \in WizardForm
      /\ n.project = wizard.project /\ n.mode = wizard.mode /\ n.list = wizard.list
      /\ n.rows = wizard.rows /\ n.validation = wizard.validation
      /\ n.busy = wizard.busy /\ n.source = wizard.source
      /\ \A r \in n.requests : r.fresh => r \in wizard.requests /\ r.kind = "LIST"
      /\ \A r \in wizard.requests : r.kind = "LIST" => r \in n.requests
  BY <1>0, NextGenerationForm
<1>2. ASSUME NEW s \in Source, Wizard!ChangeSheet(s)
      PROVE  WizardSound(wizard')
  <2>1. /\ wizard.busy = "NONE"
        /\ wizard' = [n EXCEPT !.source = s, !.rows = None, !.validation = None,
                               !.dirty = FALSE]
    BY <1>2 DEF Wizard!ChangeSheet, Wizard!Does, Wizard!Idle
  <2>. HIDE DEF n
  <2>. DEFINE v == [n EXCEPT !.source = s, !.rows = None]
  <2>2. wizard' = [v EXCEPT !.validation = None, !.dirty = FALSE]
    BY <2>1
  <2>3. /\ v \in WizardForm /\ v.project = n.project /\ v.mode = n.mode
        /\ v.list = n.list /\ v.busy = n.busy /\ v.requests = n.requests
    BY <1>1 DEF WizardForm
  <2>. HIDE DEF v
  <2>4. /\ wizard' \in WizardForm /\ wizard'.project = n.project /\ wizard'.mode = n.mode
        /\ wizard'.list = n.list /\ wizard'.busy = n.busy
        /\ wizard'.requests = n.requests /\ wizard'.validation = None
    BY <2>2, <2>3 DEF WizardForm
  <2>. QED
    BY <1>1, <2>1, <2>4
    DEF WizardSound, Working, Listing, Validated, BusyWaits, ListWaits, ListInPlace
<1>3. ASSUME NEW x \in Pick \cup {None}, Wizard!ResolveCandidate(x)
      PROVE  WizardSound(wizard')
  <2>1. /\ wizard.busy = "NONE" /\ wizard.validation # None
        /\ wizard' = [n EXCEPT !.rows.pick = x, !.dirty = TRUE]
    BY <1>3 DEF Wizard!ResolveCandidate, Wizard!Does, Wizard!Idle
  <2>2. n.rows \in Chosen
    BY <1>1, <2>1 DEF WizardSound, Validated
  <2>. HIDE DEF n
  <2>. DEFINE rows == [n.rows EXCEPT !.pick = x]
  <2>3. rows \in Chosen
    BY <2>2 DEF Chosen
  <2>4. wizard' = [n EXCEPT !.rows = rows, !.dirty = TRUE]
    BY <1>1, <2>1 DEF WizardForm
  <2>. HIDE DEF rows
  <2>5. /\ wizard' \in WizardForm /\ wizard'.project = n.project /\ wizard'.mode = n.mode
        /\ wizard'.list = n.list /\ wizard'.busy = n.busy
        /\ wizard'.requests = n.requests /\ wizard'.rows = rows /\ wizard'.dirty = TRUE
    BY <1>1, <2>3, <2>4 DEF WizardForm
  <2>. QED
    BY <1>1, <2>1, <2>3, <2>5
    DEF WizardSound, Working, Listing, Validated, BusyWaits, ListWaits, ListInPlace
<1>. QED
  BY <1>2, <1>3

\* A step of the workflow is sent while the page stays as it is.
LEMMA WizardSends ==
  ASSUME WizardSound(wizard), NEW kind \in {"VALIDATE", "COMMIT"},
         NEW a \in WizardRequest, a.fresh, a.kind = kind,
         a.project = wizard.project, a.mode = wizard.mode,
         wizard' = [wizard EXCEPT !.busy = kind, !.requests = wizard.requests \cup {a}]
  PROVE  WizardSound(wizard')
<1>1. wizard \in WizardForm /\ wizard.requests \cup {a} \in SUBSET WizardRequest
  BY DEF WizardSound, WizardForm
<1>2. /\ wizard' \in WizardForm /\ wizard'.project = wizard.project
      /\ wizard'.mode = wizard.mode /\ wizard'.list = wizard.list /\ wizard'.busy = kind
      /\ wizard'.rows = wizard.rows /\ wizard'.validation = wizard.validation
      /\ wizard'.dirty = wizard.dirty /\ wizard'.requests = wizard.requests \cup {a}
  BY <1>1 DEF WizardForm, Step
<1>3. Validated(wizard')
  BY <1>2 DEF WizardSound, Validated, Wizard!Rowset
<1>4. BusyWaits(wizard')
  BY <1>2 DEF BusyWaits
<1>. QED
  BY <1>2, <1>3, <1>4
  DEF WizardSound, Working, Listing, ListWaits, ListInPlace

LEMMA WizardWorks ==
  ASSUME WizardSound(wizard), Wizard!Validate \/ Wizard!Commit
  PROVE  WizardSound(wizard')
<1>0. wizard \in WizardForm /\ Validated(wizard)
  BY DEF WizardSound
<1>1. CASE Wizard!Validate
  <2>. DEFINE rows == Wizard!Rows(wizard)
              a == Wizard!Request(wizard, "VALIDATE", rows, 0)
  <2>1. wizard.source # None
        /\ wizard' = [wizard EXCEPT !.busy = "VALIDATE", !.requests = wizard.requests \cup {a}]
    BY <1>1 DEF Wizard!Validate, Wizard!Does
  <2>2. wizard.source \in Source
    BY <1>0, <2>1 DEF WizardForm
  <2>3. (IF wizard.rows = None THEN None ELSE wizard.rows.pick) \in Pick \cup {None}
    BY <1>0 DEF WizardForm, Chosen
  <2>4. rows \in Chosen
    BY <2>2, <2>3 DEF Wizard!Rows, Chosen
  <2>. HIDE DEF rows
  <2>5. /\ a \in WizardRequest /\ a.fresh /\ a.kind = "VALIDATE"
        /\ a.project = wizard.project /\ a.mode = wizard.mode
    <3>1. /\ "VALIDATE" \in Step \cup {"LIST"} /\ rows \in Source \cup {None} \cup Chosen
          /\ 0 \in Int
      BY <2>4 DEF Step
    <3>2. MayCarry(wizard, "VALIDATE", rows, 0)
      BY <2>4 DEF MayCarry
    <3>. QED
      BY ONLY <1>0, <3>1, <3>2, RequestStarts
  <2>. HIDE DEF a
  <2>. QED
    BY <2>1, <2>5, WizardSends
<1>2. CASE Wizard!Commit
  <2>. DEFINE n == wizard.validation.revision
              a == Wizard!Request(wizard, "COMMIT", wizard.rows, n)
  <2>1. /\ wizard.validation # None /\ ~wizard.dirty
        /\ wizard' = [wizard EXCEPT !.busy = "COMMIT", !.requests = wizard.requests \cup {a}]
    BY <1>2 DEF Wizard!Commit, Wizard!CanCommit, Wizard!Does
  <2>2. wizard.validation \in Validation /\ wizard.rows \in Chosen /\ n \in Int
    BY <1>0, <2>1 DEF WizardForm, Validated, Validation
  <2>3. wizard.validation.of = [project |-> wizard.project, mode |-> wizard.mode,
                                rows |-> wizard.rows, revision |-> n]
    BY <1>0, <2>1 DEF Validated, Wizard!Rowset
  <2>. HIDE DEF n
  <2>5. /\ a \in WizardRequest /\ a.fresh /\ a.kind = "COMMIT"
        /\ a.project = wizard.project /\ a.mode = wizard.mode
    <3>1. /\ "COMMIT" \in Step \cup {"LIST"}
          /\ wizard.rows \in Source \cup {None} \cup Chosen
      BY <2>2 DEF Step
    <3>2. MayCarry(wizard, "COMMIT", wizard.rows, n)
      BY <2>2, <2>3 DEF MayCarry
    <3>. QED
      BY ONLY <1>0, <2>2, <3>1, <3>2, RequestStarts
  <2>. HIDE DEF a
  <2>. QED
    BY <2>1, <2>5, WizardSends
<1>. QED
  BY <1>1, <1>2

LEMMA WizardUser ==
  ASSUME WizardInv,
         \/ \E p \in Project, mode \in Wizard!Mode : Wizard!Navigate(p, mode)
         \/ Wizard!RetryOrganizations
         \/ \E s \in Source : Wizard!ChooseFile(s) \/ Wizard!ChangeSheet(s)
         \/ Wizard!Cancel \/ Wizard!Validate \/ Wizard!Commit
         \/ \E x \in Pick \cup {None} : Wizard!ResolveCandidate(x)
  PROVE  WizardInv'
<1>1. imports' = imports
  BY DEF Wizard!Navigate, Wizard!RetryOrganizations, Wizard!ChooseFile, Wizard!ChangeSheet,
         Wizard!Cancel, Wizard!Validate, Wizard!Commit, Wizard!ResolveCandidate, Wizard!Does
<1>2. WizardSound(wizard) /\ wizard \in WizardForm
  BY DEF WizardInv, WizardSound
<1>3. CASE Wizard!RetryOrganizations
  <2>1. wizard' = Wizard!LoadOrganizations(wizard)
    BY <1>3 DEF Wizard!RetryOrganizations, Wizard!Does
  <2>. QED
    BY <1>1, <1>2, <2>1, LoadOrganizationsSound DEF WizardSound, WizardInv
<1>4. CASE Wizard!Cancel
  <2>1. wizard' = Wizard!ClearWorkbook(wizard)
    BY <1>4 DEF Wizard!Cancel, Wizard!Does
  <2>2. Cleared(Wizard!ClearWorkbook(wizard), wizard)
    BY <1>2, ClearWorkbookClears
  <2>. QED
    BY <1>1, <1>2, <2>1, <2>2, ClearedSound DEF WizardInv
<1>. QED
  BY <1>1, <1>2, <1>3, <1>4, WizardNavigates, WizardReads, WizardChanges, WizardWorks
  DEF WizardInv


\* A request is answered while the page stays as it is.
LEMMA WizardAnswered ==
  ASSUME WizardSound(wizard), NEW r \in wizard.requests, NEW a \in WizardRequest,
         a.fresh = r.fresh, a.kind = r.kind, a.project = r.project, a.mode = r.mode,
         Wizard!Answer(r, a)
  PROVE  WizardSound(wizard')
<1>. DEFINE T == (wizard.requests \ {r}) \cup {a}
<1>1. wizard \in WizardForm /\ T \in SUBSET WizardRequest
  BY DEF WizardSound, WizardForm
<1>2. wizard' = [wizard EXCEPT !.requests = T]
  BY DEF Wizard!Answer
<1>3. \A s \in T : s = a \/ s \in wizard.requests
  OBVIOUS
<1>4. \A s \in wizard.requests : s = r \/ s \in T
  OBVIOUS
<1>5. a \in T
  OBVIOUS
<1>. HIDE DEF T
<1>6. /\ wizard' \in WizardForm /\ wizard'.project = wizard.project
      /\ wizard'.mode = wizard.mode /\ wizard'.list = wizard.list
      /\ wizard'.busy = wizard.busy /\ wizard'.rows = wizard.rows
      /\ wizard'.validation = wizard.validation /\ wizard'.dirty = wizard.dirty
      /\ wizard'.requests = T
  BY <1>1, <1>2 DEF WizardForm
<1>7. Working(wizard') /\ Listing(wizard')
  BY <1>3, <1>6 DEF WizardSound, Working, Listing
<1>8. Validated(wizard') /\ ListInPlace(wizard')
  BY <1>6 DEF WizardSound, Validated, ListInPlace, Wizard!Rowset
<1>9. BusyWaits(wizard')
  BY <1>4, <1>5, <1>6 DEF WizardSound, BusyWaits
<1>10. ListWaits(wizard')
  BY <1>4, <1>5, <1>6 DEF WizardSound, ListWaits
<1>. QED
  BY <1>6, <1>7, <1>8, <1>9, <1>10 DEF WizardSound

LEMMA LaterRows ==
  ASSUME NEW row \in Row, NEW next \in Wizard!Later(row)
  PROVE  next \in Row
BY DEF Wizard!Later, Row

\* A code alone, and what a validation adds, leave the request what it was.
LEMMA RequestCoded ==
  ASSUME NEW r \in WizardRequest,
         NEW code \in {"NONE", "OK", "FAILED", "PROJECT_CLOSED", "UNAVAILABLE",
                       "STALE_REVISION"}
  PROVE  LET a == [r EXCEPT !.code = code] IN
         /\ a \in WizardRequest /\ a.fresh = r.fresh /\ a.kind = r.kind
         /\ a.project = r.project /\ a.mode = r.mode
<1>. DEFINE a == [r EXCEPT !.code = code]
<1>1. r \in RequestForm
  BY DEF WizardRequest
<1>2. /\ a \in RequestForm /\ a.fresh = r.fresh /\ a.kind = r.kind
      /\ a.project = r.project /\ a.mode = r.mode /\ a.rows = r.rows
      /\ a.result = r.result /\ a.revision = r.revision
  BY <1>1 DEF RequestForm
<1>. HIDE DEF a
<1>3. Wizard!Rowset(a, a.revision) = Wizard!Rowset(r, r.revision)
  BY <1>2 DEF Wizard!Rowset
<1>. QED
  BY <1>2, <1>3 DEF WizardRequest, a

Checked(r, code, n, clean) == [r EXCEPT !.code = code, !.revision = n, !.clean = clean]

LEMMA RequestValidated ==
  ASSUME NEW r \in WizardRequest, r.kind = "VALIDATE",
         NEW code \in {"NONE", "OK", "FAILED", "PROJECT_CLOSED", "UNAVAILABLE",
                       "STALE_REVISION"},
         NEW n \in Int, NEW clean \in BOOLEAN
  PROVE  LET a == Checked(r, code, n, clean) IN
         /\ a \in WizardRequest /\ a.fresh = r.fresh /\ a.kind = r.kind
         /\ a.project = r.project /\ a.mode = r.mode
<1>. DEFINE b == [r EXCEPT !.code = code]
            c == [b EXCEPT !.revision = n]
            a == [c EXCEPT !.clean = clean]
<1>1. r \in RequestForm /\ r.rows \in Chosen
  BY DEF WizardRequest
<1>2. /\ b \in RequestForm /\ b.fresh = r.fresh /\ b.kind = r.kind
      /\ b.project = r.project /\ b.mode = r.mode /\ b.rows = r.rows
  BY <1>1 DEF RequestForm
<1>3. Checked(r, code, n, clean) = a
  BY DEF Checked
<1>. HIDE DEF b
<1>4. /\ c \in RequestForm /\ c.fresh = r.fresh /\ c.kind = r.kind
      /\ c.project = r.project /\ c.mode = r.mode /\ c.rows = r.rows
  BY <1>2 DEF RequestForm
<1>. HIDE DEF c
<1>5. /\ a \in RequestForm /\ a.fresh = r.fresh /\ a.kind = r.kind
      /\ a.project = r.project /\ a.mode = r.mode /\ a.rows = r.rows
  BY <1>4 DEF RequestForm
<1>. HIDE DEF a
<1>. QED
  BY <1>1, <1>3, <1>5 DEF WizardRequest

LEMMA WizardServed ==
  ASSUME WizardInv, NEW r \in wizard.requests,
         \/ Wizard!ReadFile(r) \/ Wizard!ServeList(r) \/ Wizard!ServeValidation(r)
         \/ Wizard!ServeCommit(r) \/ Wizard!Lose(r)
  PROVE  WizardInv'
<1>. DEFINE Codes == {"NONE", "OK", "FAILED", "PROJECT_CLOSED", "UNAVAILABLE",
                      "STALE_REVISION"}
<1>1. /\ WizardSound(wizard) /\ imports \in [Project -> Row]
      /\ r \in WizardRequest /\ r.project \in Project
  BY DEF WizardInv, WizardSound, WizardForm, WizardRequest, RequestForm
<1>2. ASSUME NEW code \in Codes, Wizard!Answer(r, [r EXCEPT !.code = code])
      PROVE  WizardSound(wizard')
  <2>. DEFINE a == [r EXCEPT !.code = code]
  <2>1. /\ a \in WizardRequest /\ a.fresh = r.fresh /\ a.kind = r.kind
        /\ a.project = r.project /\ a.mode = r.mode
    BY <1>1, RequestCoded
  <2>2. Wizard!Answer(r, a)
    BY <1>2
  <2>. HIDE DEF a
  <2>. QED
    BY <1>1, <2>1, <2>2, WizardAnswered
<1>3. CASE Wizard!ReadFile(r) \/ Wizard!ServeList(r) \/ Wizard!Lose(r)
  <2>1. imports' = imports
        /\ \E code \in Codes : Wizard!Answer(r, [r EXCEPT !.code = code])
    BY <1>3 DEF Wizard!ReadFile, Wizard!ServeList, Wizard!Lose
  <2>. QED
    BY <1>1, <1>2, <2>1 DEF WizardInv
<1>4. CASE Wizard!ServeValidation(r)
  <2>1. PICK row \in Wizard!Later(imports[r.project]), clean \in BOOLEAN :
          /\ imports' = [imports EXCEPT ![r.project] = row]
          /\ Wizard!Answer(r,
               [r EXCEPT !.code = IF Wizard!Fits(row, r.mode) THEN "OK" ELSE Wizard!Refusal(r),
                         !.revision = row.revision, !.clean = clean])
    BY <1>4 DEF Wizard!ServeValidation
  <2>2. row \in Row
    BY <1>1, LaterRows
  <2>3. imports' \in [Project -> Row]
    BY <1>1, <2>1, <2>2
  <2>. DEFINE code == IF Wizard!Fits(row, r.mode) THEN "OK" ELSE Wizard!Refusal(r)
              n == row.revision
              a == Checked(r, code, n, clean)
  <2>4. code \in Codes /\ n \in Int
    BY <2>2 DEF Wizard!Refusal, Row
  <2>5. Wizard!Answer(r, a)
    BY <2>1 DEF Checked
  <2>6. r.kind = "VALIDATE"
    BY <1>4 DEF Wizard!ServeValidation
  <2>. HIDE DEF code, n
  <2>7. /\ a \in WizardRequest /\ a.fresh = r.fresh /\ a.kind = r.kind
        /\ a.project = r.project /\ a.mode = r.mode
    BY ONLY <1>1, <2>1, <2>4, <2>6, clean \in BOOLEAN, RequestValidated
  <2>. HIDE DEF a
  <2>8. WizardSound(wizard')
    BY <1>1, <2>5, <2>7, WizardAnswered
  <2>. QED
    BY <2>3, <2>8 DEF WizardInv
<1>5. CASE Wizard!ServeCommit(r)
  <2>1. PICK row \in Wizard!Later(imports[r.project]) :
          LET applies == Wizard!Fits(row, r.mode) /\ row.revision = r.revision
          IN /\ imports' = [imports EXCEPT ![r.project] =
                              IF applies THEN [row EXCEPT !.revision = @ + 1] ELSE row]
             /\ \/ Wizard!Answer(r, [r EXCEPT !.code = CASE applies -> "OK"
                                       [] ~Wizard!Fits(row, r.mode) -> Wizard!Refusal(r)
                                       [] OTHER -> "STALE_REVISION"])
                \/ applies /\ Wizard!Answer(r, [r EXCEPT !.code = "FAILED"])
    BY <1>5 DEF Wizard!ServeCommit
  <2>. DEFINE applies == Wizard!Fits(row, r.mode) /\ row.revision = r.revision
              fits == Wizard!Fits(row, r.mode)
              next == IF applies THEN [row EXCEPT !.revision = row.revision + 1] ELSE row
              code == CASE applies -> "OK" [] ~fits -> Wizard!Refusal(r)
                        [] OTHER -> "STALE_REVISION"
  <2>2. row \in Row
    BY <1>1, LaterRows
  <2>3. next \in Row
    BY <2>2 DEF Row
  <2>4. imports' = [imports EXCEPT ![r.project] = next]
    BY <2>1
  <2>5. imports' \in [Project -> Row]
    BY <1>1, <2>3, <2>4
  <2>6. applies => fits
    OBVIOUS
  <2>7. \/ Wizard!Answer(r, [r EXCEPT !.code = code])
        \/ Wizard!Answer(r, [r EXCEPT !.code = "FAILED"])
    BY <2>1
  <2>. HIDE DEF applies, fits, next
  <2>8. code \in Codes
    <3>1. CASE applies
      BY <2>6, <3>1
    <3>2. CASE ~fits
      BY <2>6, <3>2 DEF Wizard!Refusal
    <3>3. CASE ~applies /\ fits
      BY <3>3
    <3>. QED
      BY <3>1, <3>2, <3>3
  <2>9. "FAILED" \in Codes
    OBVIOUS
  <2>. HIDE DEF code
  <2>10. WizardSound(wizard')
    BY <1>2, <2>7, <2>8, <2>9
  <2>. QED
    BY <2>5, <2>10 DEF WizardInv
<1>. QED
  BY <1>3, <1>4, <1>5

\* The page without the request that is answered: everything but what waited for it.
Rest(w, r) ==
  /\ w \in WizardForm /\ Working(w) /\ Listing(w) /\ Validated(w) /\ ListInPlace(w)
  /\ r.kind # "LIST" => ListWaits(w)
  /\ r.kind = "LIST" => BusyWaits(w)
  /\ r.fresh => /\ r.kind # "LIST" => r.project = w.project /\ r.mode = w.mode
                /\ r.kind = "LIST" => r.project = w.project
  /\ ~r.fresh => BusyWaits(w) /\ ListWaits(w)

LEMMA WizardRest ==
  ASSUME WizardSound(wizard), NEW r \in wizard.requests
  PROVE  /\ r \in WizardRequest
         /\ Rest([wizard EXCEPT !.requests = @ \ {r}], r)
<1>. DEFINE T == wizard.requests \ {r}
            w == [wizard EXCEPT !.requests = T]
<1>1. wizard \in WizardForm /\ r \in WizardRequest /\ T \in SUBSET WizardRequest
  BY DEF WizardSound, WizardForm
<1>2. \A s \in T : s \in wizard.requests
  OBVIOUS
<1>3. \A s \in wizard.requests : s = r \/ s \in T
  OBVIOUS
<1>4. [wizard EXCEPT !.requests = @ \ {r}] = w
  OBVIOUS
<1>. HIDE DEF T
<1>5. /\ w \in WizardForm /\ w.project = wizard.project
      /\ w.mode = wizard.mode /\ w.list = wizard.list
      /\ w.busy = wizard.busy /\ w.rows = wizard.rows
      /\ w.validation = wizard.validation /\ w.dirty = wizard.dirty
      /\ w.requests = T
  BY <1>1 DEF WizardForm
<1>. HIDE DEF w
<1>6. Working(w) /\ Listing(w)
  BY <1>2, <1>5 DEF WizardSound, Working, Listing
<1>7. Validated(w) /\ ListInPlace(w)
  BY <1>5 DEF WizardSound, Validated, ListInPlace, Wizard!Rowset
<1>8. r.kind # "LIST" \/ ~r.fresh => ListWaits(w)
  BY <1>3, <1>5 DEF WizardSound, ListWaits
<1>9. r.kind = "LIST" \/ ~r.fresh => BusyWaits(w)
  <2>1. wizard.busy # "LIST"
    BY <1>1 DEF WizardForm, Step
  <2>. QED
    BY <1>3, <1>5, <2>1 DEF WizardSound, BusyWaits
<1>10. r.fresh => /\ r.kind # "LIST" => r.project = w.project /\ r.mode = w.mode
                  /\ r.kind = "LIST" => r.project = w.project
  BY <1>5 DEF WizardSound, Working, Listing
<1>. QED
  BY <1>1, <1>4, <1>5, <1>6, <1>7, <1>8, <1>9, <1>10 DEF Rest

\* A page that is busy no more.
LEMMA ReleasedSound ==
  ASSUME NEW r, NEW w, Rest(w, r), r.kind # "LIST"
  PROVE  LET v == Wizard!Released(w) IN
         /\ WizardSound(v)
         /\ v.busy = "NONE" /\ v.project = w.project /\ v.mode = w.mode
         /\ v.list = w.list /\ v.requests = w.requests
<1>. DEFINE v == Wizard!Released(w)
<1>1. v = [w EXCEPT !.busy = "NONE"]
  BY DEF Wizard!Released
<1>2. /\ v \in WizardForm /\ v.project = w.project
      /\ v.mode = w.mode /\ v.list = w.list
      /\ v.busy = "NONE" /\ v.rows = w.rows
      /\ v.validation = w.validation /\ v.dirty = w.dirty
      /\ v.requests = w.requests
  BY <1>1 DEF Rest, WizardForm
<1>. HIDE DEF v
<1>3. Validated(v)
  BY <1>2 DEF Rest, Validated, Wizard!Rowset
<1>. QED
  BY <1>2, <1>3
  DEF Rest, WizardSound, Working, Listing, BusyWaits, ListWaits, ListInPlace, v

LEMMA WizardReceives ==
  ASSUME WizardSound(wizard), NEW r \in wizard.requests, Wizard!Receive(r)
  PROVE  WizardSound(wizard')
<1>. DEFINE w == [wizard EXCEPT !.requests = @ \ {r}]
            v == Wizard!Released(w)
<1>1. r \in WizardRequest /\ Rest(w, r)
  BY WizardRest
<1>2. wizard' = Wizard!Handled(w, r)
  BY DEF Wizard!Receive
<1>. HIDE DEF w
<1>3. w \in WizardForm
  BY <1>1 DEF Rest
<1>4. r.kind \in Step \cup {"LIST"}
  BY <1>1 DEF WizardRequest, RequestForm
<1>5. r.kind # "LIST" =>
        /\ WizardSound(v) /\ v \in WizardForm
        /\ v.busy = "NONE" /\ v.project = w.project /\ v.mode = w.mode
        /\ v.list = w.list /\ v.requests = w.requests
  BY <1>1, ReleasedSound DEF WizardSound
\* Nothing of the workflow is left, and the list waits as it did.
<1>6. ASSUME NEW u, Cleared(u, w), r.kind # "LIST"
      PROVE  WizardSound(u)
  BY <1>1, <1>6
  DEF Rest, WizardSound, Cleared, Working, Listing, Validated, BusyWaits, ListWaits,
      ListInPlace
<1>7. Cleared(Wizard!ClearWorkbook(w), w) /\ Cleared(Wizard!Discard(w), w)
  BY <1>3, ClearWorkbookClears
<1>8. CASE ~r.fresh
  <2>1. wizard' = w
    BY <1>2, <1>8 DEF Wizard!Handled
  <2>. QED
    BY <1>1, <1>8, <2>1 DEF Rest, WizardSound
<1>9. CASE r.fresh /\ r.kind = "READ_FILE"
  <2>1. wizard' = IF r.code = "OK" THEN [v EXCEPT !.source = r.rows] ELSE v
    BY <1>2, <1>9 DEF Wizard!Handled, Wizard!FileAnswer
  <2>. HIDE DEF v
  <2>2. r.rows \in Source
    BY <1>1, <1>9 DEF WizardRequest
  <2>. DEFINE u == [v EXCEPT !.source = r.rows]
  <2>3. /\ u \in WizardForm /\ u.busy = v.busy /\ u.project = v.project
        /\ u.mode = v.mode /\ u.list = v.list /\ u.requests = v.requests
        /\ u.rows = v.rows /\ u.validation = v.validation /\ u.dirty = v.dirty
    BY <1>5, <1>9, <2>2 DEF WizardForm
  <2>. HIDE DEF u
  <2>4. Validated(u)
    BY <1>5, <1>9, <2>3 DEF WizardSound, Validated, Wizard!Rowset
  <2>5. WizardSound(u)
    BY <1>5, <1>9, <2>3, <2>4
    DEF WizardSound, Working, Listing, BusyWaits, ListWaits, ListInPlace
  <2>. QED
    BY <1>5, <1>9, <2>1, <2>5 DEF u
<1>10. CASE r.fresh /\ r.kind = "VALIDATE"
  <2>1. wizard' = Wizard!ValidationAnswer(w, r)
    BY <1>2, <1>10 DEF Wizard!Handled
  <2>2. CASE r.code = "OK"
    <3>. DEFINE about == Wizard!Rowset(r, r.revision)
                result == [revision |-> r.revision, clean |-> r.clean, of |-> about]
                a == [v EXCEPT !.rows = r.rows, !.dirty = FALSE]
                u == [a EXCEPT !.validation = result]
    <3>1. wizard' = u
      BY <2>1, <2>2 DEF Wizard!ValidationAnswer
    <3>2. /\ r.rows \in Chosen /\ r.revision \in Int /\ r.clean \in BOOLEAN
          /\ r.project \in Project /\ r.mode \in Wizard!Mode
      BY <1>1, <1>10 DEF WizardRequest, RequestForm
    <3>3. /\ about \in Result /\ about.project = r.project /\ about.mode = r.mode
          /\ about.rows = r.rows /\ about.revision = r.revision
      BY <3>2 DEF Result, Wizard!Rowset
    <3>4. result \in Validation /\ result.of = about /\ result.revision = r.revision
      <4>. HIDE DEF about
      <4>. QED
        BY <3>2, <3>3 DEF Validation
    <3>. HIDE DEF v, result
    <3>5. /\ a \in WizardForm /\ a.busy = v.busy /\ a.project = v.project
          /\ a.mode = v.mode /\ a.list = v.list /\ a.requests = v.requests
          /\ a.rows = r.rows /\ a.dirty = FALSE
      BY <1>5, <1>10, <3>2 DEF WizardForm
    <3>. HIDE DEF a
    <3>6. /\ u \in WizardForm /\ u.busy = v.busy /\ u.project = v.project
          /\ u.mode = v.mode /\ u.list = v.list /\ u.requests = v.requests
          /\ u.rows = r.rows /\ u.validation = result /\ u.dirty = FALSE
      BY <3>4, <3>5 DEF WizardForm
    <3>. HIDE DEF u
    <3>7. r.project = u.project /\ r.mode = u.mode
      BY <1>1, <1>5, <1>10, <3>6 DEF Rest
    <3>8. u.validation.of = Wizard!Rowset(u, u.validation.revision)
      BY <3>4, <3>6, <3>7 DEF Wizard!Rowset
    <3>9. Validated(u)
      BY <3>2, <3>6, <3>8 DEF Validated
    <3>10. WizardSound(u)
      BY <1>5, <1>10, <3>6, <3>9
      DEF WizardSound, Working, Listing, BusyWaits, ListWaits, ListInPlace
    <3>. QED
      BY <3>1, <3>10
  <2>3. CASE r.code = "FAILED"
    <3>1. wizard' = v
      BY <2>1, <2>3 DEF Wizard!ValidationAnswer
    <3>. QED
      BY <1>5, <1>10, <3>1
  <2>4. CASE r.code \notin {"OK", "FAILED"}
    <3>1. wizard' = Wizard!Discard(w)
      BY <2>1, <2>4 DEF Wizard!ValidationAnswer
    <3>. QED
      BY <1>6, <1>7, <1>10, <3>1
  <2>. QED
    BY <2>2, <2>3, <2>4
<1>11. CASE r.fresh /\ r.kind = "COMMIT"
  <2>1. wizard' = Wizard!CommitAnswer(w, r)
    BY <1>2, <1>11 DEF Wizard!Handled
  <2>2. CASE r.code = "OK"
    <3>1. wizard' = Wizard!ClearWorkbook(w)
      BY <2>1, <2>2 DEF Wizard!CommitAnswer
    <3>. QED
      BY <1>6, <1>7, <1>11, <3>1
  <2>3. CASE r.code = "STALE_REVISION"
    <3>1. wizard' = [v EXCEPT !.validation = None]
      BY <2>1, <2>3 DEF Wizard!CommitAnswer
    <3>. HIDE DEF v
    <3>2. /\ wizard' \in WizardForm /\ wizard'.busy = v.busy /\ wizard'.project = v.project
          /\ wizard'.mode = v.mode /\ wizard'.list = v.list
          /\ wizard'.requests = v.requests /\ wizard'.validation = None
      BY <1>5, <1>11, <3>1 DEF WizardForm
    <3>. QED
      BY <1>5, <1>11, <3>2
      DEF WizardSound, Working, Listing, Validated, BusyWaits, ListWaits, ListInPlace
  <2>4. CASE r.code = "FAILED"
    <3>1. wizard' = v
      BY <2>1, <2>4 DEF Wizard!CommitAnswer
    <3>. QED
      BY <1>5, <1>11, <3>1
  <2>5. CASE r.code \notin {"OK", "STALE_REVISION", "FAILED"}
    <3>1. wizard' = Wizard!Discard(w)
      BY <2>1, <2>5 DEF Wizard!CommitAnswer
    <3>. QED
      BY <1>6, <1>7, <1>11, <3>1
  <2>. QED
    BY <2>2, <2>3, <2>4, <2>5
<1>12. CASE r.fresh /\ r.kind = "LIST"
  <2>. DEFINE l == IF r.code = "OK" THEN [of |-> r.project, state |-> "idle"]
                   ELSE [w.list EXCEPT !.state = "failed"]
              u == [w EXCEPT !.list = l]
  <2>1. w.list \in Listed /\ r.project \in Project /\ r.project = w.project
    BY <1>1, <1>3, <1>12 DEF Rest, WizardForm, WizardRequest, RequestForm
  <2>2. l \in Listed /\ l.of \in {r.project, w.list.of} /\ l.state # "loading"
    BY <2>1 DEF Listed
  <2>3. wizard' = u
    BY <1>2, <1>12 DEF Wizard!Handled, Wizard!ListAnswer
  <2>. HIDE DEF l
  <2>4. /\ u \in WizardForm /\ u.busy = w.busy /\ u.project = w.project
        /\ u.mode = w.mode /\ u.list = l /\ u.requests = w.requests
        /\ u.rows = w.rows /\ u.validation = w.validation /\ u.dirty = w.dirty
    BY <1>3, <2>2 DEF WizardForm
  <2>. HIDE DEF u
  <2>5. Validated(u)
    BY <1>1, <2>4 DEF Rest, Validated, Wizard!Rowset
  <2>6. ListInPlace(u)
    BY <1>1, <2>1, <2>2, <2>4 DEF Rest, ListInPlace
  <2>. QED
    BY <1>1, <1>12, <2>2, <2>3, <2>4, <2>5, <2>6
    DEF Rest, WizardSound, Working, Listing, BusyWaits, ListWaits
<1>. QED
  BY <1>4, <1>8, <1>9, <1>10, <1>11, <1>12 DEF Step

LEMMA WizardKeeps == WizardInv /\ [Wizard!Next]_<<imports, wizard>> => WizardInv'
<1>. SUFFICES ASSUME WizardInv, [Wizard!Next]_<<imports, wizard>>
              PROVE  WizardInv'
  OBVIOUS
<1>1. CASE UNCHANGED <<imports, wizard>>
  BY <1>1 DEF WizardInv
<1>2. ASSUME NEW r \in wizard.requests, Wizard!Receive(r)
      PROVE  WizardInv'
  BY <1>2, WizardReceives DEF WizardInv, Wizard!Receive
<1>. QED
  BY <1>1, <1>2, WizardUser, WizardServed DEF Wizard!Next

LEMMA WizardShows ==
  WizardInv => Wizard!CommittedAsValidated /\ Wizard!WaitsEnd /\ Wizard!ListOfPath
BY DEF WizardInv, WizardSound, WizardForm, WizardRequest, BusyWaits, ListWaits, ListInPlace,
       Wizard!CommittedAsValidated, Wizard!WaitsEnd, Wizard!ListOfPath
-----------------------------------------------------------------------------
(* The page of an organization.                                               *)

OrgRow == [version : Nat, deleted : BOOLEAN]

Reads == {"DETAIL", "AUDIT"}

CallForm ==
  [kind : Organization!Kinds \cup Reads \cup {"MANAGERS"},
   then : Organization!Kinds \cup {"NONE", "MANAGERS"}, owner : BOOLEAN,
   code : {"NONE", "OK", "FAILED", "CONFLICT"}, row : OrgRow \cup {None}]

\* Only reads are waited for by what follows a change; what succeeds answers a row.
OrgCall ==
  {c \in CallForm : /\ c.kind \notin Reads => c.then = "NONE"
                    /\ c.code = "OK" => c.row \in OrgRow}

PanelForm ==
  [busy : BOOLEAN, query : Query, found : Query \cup {None}, searching : BOOLEAN]

Search == [query : Query, owner : BOOLEAN]

PageForm ==
  [shown : OrgRow \cup {None}, detail : {"idle", "loading"}, error : BOOLEAN,
   lock : Organization!Kinds \cup {None}, left : BOOLEAN, acked : Nat,
   panel : PanelForm, calls : SUBSET OrgCall, searches : SUBSET Search]

\* Nobody was told of a change the server does not have.
Known(p, n) ==
  /\ p.acked <= n
  /\ \A c \in p.calls : c.code = "OK" /\ c.kind \notin Reads => c.row.version <= n

\* The read that counts is not older than the user's last change, nor is the row
\* of a page that is settled.
Current(p) ==
  ~p.left =>
    /\ \A c \in p.calls :
         c.kind = "DETAIL" /\ c.owner /\ c.code = "OK" => c.row.version >= p.acked
    /\ p.detail = "idle" /\ ~p.error => p.shown \in OrgRow /\ p.shown.version >= p.acked

\* One change at a time holds the lock, and then the reads that follow it.
OneLock(p) ==
  /\ \A c \in p.calls : c.kind \in Organization!Kinds => c.kind = p.lock
  /\ \A c \in p.calls : c.then \in Organization!Kinds => c.then = p.lock
  /\ \A c, d \in p.calls :
       c.kind \in Organization!Kinds =>
         /\ d.then \notin Organization!Kinds
         /\ d.kind \in Organization!Kinds => d = c

\* What holds the lock, or keeps the panel busy, unless it is the read just answered.
LockWaits(p, then) ==
  p.lock # None => \/ \E c \in p.calls : p.lock \in {c.kind, c.then}
                   \/ p.lock = then

PanelWaits(p, then) ==
  p.panel.busy => \/ \E c \in p.calls : \/ c.kind = "MANAGERS" /\ c.owner
                                        \/ c.then = "MANAGERS"
                  \/ then = "MANAGERS"

DetailWaits(p) ==
  p.detail = "loading" => \E c \in p.calls : c.kind = "DETAIL" /\ c.owner

OfQuery(p) ==
  /\ \A s \in p.searches : s.owner => s.query = p.panel.query
  /\ p.panel.searching => \E s \in p.searches : s.owner
  /\ p.panel.found \in {None, p.panel.query}

PageSound(p, n) ==
  /\ p \in PageForm
  /\ Known(p, n) /\ Current(p) /\ OneLock(p)
  /\ LockWaits(p, "NONE") /\ PanelWaits(p, "NONE") /\ DetailWaits(p) /\ OfQuery(p)

OrganizationInv == organization \in OrgRow /\ PageSound(page, organization.version)

\* Everything of the page but its row, its calls and what they decide.
SamePage(q, p) ==
  /\ q \in PageForm
  /\ q.lock = p.lock /\ q.left = p.left /\ q.acked = p.acked
  /\ q.panel = p.panel /\ q.searches = p.searches

SameCall(d, c) == d.kind = c.kind /\ d.then = c.then /\ d.code = c.code /\ d.row = c.row

\* q is p with a read of the row under way that replaces the others.
Reloading(q, p, then) ==
  /\ SamePage(q, p) /\ q.shown = p.shown /\ q.error = p.error /\ q.detail = "loading"
  /\ \E d \in q.calls : d.kind = "DETAIL" /\ d.owner /\ d.then = then
  /\ \A d \in q.calls :
       \/ d.kind \in Reads /\ d.code = "NONE" /\ d.then = then
       \/ \E c \in p.calls :
            /\ SameCall(d, c)
            /\ d.owner => c.owner /\ c.kind # "DETAIL"
            /\ c.kind # "DETAIL" => d = c
  /\ \A c \in p.calls :
       \E d \in q.calls : SameCall(d, c) /\ (c.owner /\ c.kind # "DETAIL" => d.owner)

LEMMA AskedIsCall ==
  ASSUME NEW kind \in Organization!Kinds \cup Reads \cup {"MANAGERS"},
         NEW then \in Organization!Kinds \cup {"NONE", "MANAGERS"},
         kind \notin Reads => then = "NONE"
  PROVE  LET c == Organization!Asked(kind, then) IN
         /\ c \in OrgCall /\ c.kind = kind /\ c.then = then /\ c.owner
         /\ c.code = "NONE"
<1>. DEFINE c == Organization!Asked(kind, then)
<1>1. c \in CallForm /\ c.kind = kind /\ c.then = then /\ c.owner /\ c.code = "NONE"
  BY DEF Organization!Asked, CallForm
<1>. HIDE DEF c
<1>. QED
  BY <1>1 DEF OrgCall, c

LEMMA LoadReloads ==
  ASSUME NEW p \in PageForm, NEW then \in Organization!Kinds \cup {"NONE", "MANAGERS"}
  PROVE  /\ Reloading(Organization!LoadDetail(p, then), p, then)
         /\ Reloading(Organization!LoadBoth(p, then), p, then)
<1>. DEFINE old(c) == IF c.kind = "DETAIL" THEN [c EXCEPT !.owner = FALSE] ELSE c
            Old == {old(c) : c \in p.calls}
            a == Organization!Asked("DETAIL", then)
            b == Organization!Asked("AUDIT", then)
            q == Organization!LoadDetail(p, then)
            both == Organization!LoadBoth(p, then)
<1>1. /\ a \in OrgCall /\ a.kind = "DETAIL" /\ a.then = then /\ a.owner /\ a.code = "NONE"
      /\ b \in OrgCall /\ b.kind = "AUDIT" /\ b.then = then /\ b.code = "NONE"
  <2>1. /\ "DETAIL" \in Organization!Kinds \cup Reads \cup {"MANAGERS"}
        /\ "AUDIT" \in Organization!Kinds \cup Reads \cup {"MANAGERS"}
        /\ "DETAIL" \in Reads /\ "AUDIT" \in Reads
    BY DEF Reads
  <2>. QED
    BY <2>1, AskedIsCall
<1>2. ASSUME NEW c \in p.calls
      PROVE  /\ old(c) \in OrgCall /\ SameCall(old(c), c)
             /\ old(c).owner => c.owner /\ c.kind # "DETAIL"
             /\ c.kind # "DETAIL" => old(c) = c
             /\ c.owner /\ c.kind # "DETAIL" => old(c).owner
  <2>1. c \in OrgCall /\ c \in CallForm
    BY DEF PageForm, OrgCall
  <2>. DEFINE d == [c EXCEPT !.owner = FALSE]
  <2>2. d \in CallForm /\ SameCall(d, c) /\ ~d.owner
    BY <2>1 DEF CallForm, SameCall
  <2>. HIDE DEF d
  <2>3. d \in OrgCall
    BY <2>1, <2>2 DEF OrgCall, SameCall
  <2>. QED
    BY <2>1, <2>2, <2>3 DEF SameCall, d
<1>3. /\ Old \subseteq OrgCall
      /\ \A d \in Old : \E c \in p.calls :
           /\ SameCall(d, c)
           /\ d.owner => c.owner /\ c.kind # "DETAIL"
           /\ c.kind # "DETAIL" => d = c
      /\ \A c \in p.calls :
           \E d \in Old : SameCall(d, c) /\ (c.owner /\ c.kind # "DETAIL" => d.owner)
  <2>. HIDE DEF old
  <2>. QED
    BY <1>2
<1>4. /\ q = [p EXCEPT !.detail = "loading", !.calls = Old \cup {a}]
      /\ both = IF then = "NONE" THEN q ELSE [q EXCEPT !.calls = q.calls \cup {b}]
  BY DEF Organization!LoadDetail, Organization!LoadBoth
<1>. HIDE DEF old, Old, a, b, q, both
<1>5. Old \cup {a} \in SUBSET OrgCall
  BY <1>1, <1>3
<1>6. /\ SamePage(q, p) /\ q.shown = p.shown /\ q.error = p.error /\ q.detail = "loading"
      /\ q.calls = Old \cup {a}
  BY <1>4, <1>5 DEF PageForm, SamePage
<1>7. Reloading(q, p, then)
  BY <1>1, <1>3, <1>6 DEF Reloading, Reads
<1>8. CASE then = "NONE"
  BY <1>4, <1>7, <1>8 DEF q, both
<1>9. CASE then # "NONE"
  <2>1. q.calls \cup {b} \in SUBSET OrgCall /\ q \in PageForm
    BY <1>1, <1>5, <1>6 DEF SamePage
  <2>2. /\ both \in PageForm /\ both.lock = q.lock /\ both.left = q.left
        /\ both.acked = q.acked /\ both.panel = q.panel /\ both.searches = q.searches
        /\ both.shown = q.shown /\ both.error = q.error /\ both.detail = q.detail
        /\ both.calls = q.calls \cup {b}
    BY <1>4, <1>9, <2>1 DEF PageForm
  <2>3. SamePage(both, p)
    BY <1>6, <2>2 DEF SamePage
  <2>4. Reloading(both, p, then)
    BY <1>1, <1>3, <1>6, <2>2, <2>3 DEF Reloading, Reads
  <2>. QED
    BY <1>7, <2>4 DEF q, both
<1>. QED
  BY <1>8, <1>9

\* What reloads is current and waits for its read, whatever it held before: the lock
\* is free, or passes to the reads.
Unlocked(p) ==
  \A c \in p.calls : c.kind \notin Organization!Kinds /\ c.then \notin Organization!Kinds

LEMMA ReloadingSound ==
  ASSUME NEW p \in PageForm, NEW n \in Nat, NEW q,
         NEW then \in Organization!Kinds \cup {"NONE", "MANAGERS"},
         Reloading(q, p, then), Known(p, n), OfQuery(p),
         \/ then \in Organization!Kinds /\ then = p.lock /\ Unlocked(p)
         \/ then \notin Organization!Kinds /\ OneLock(p) /\ LockWaits(p, "NONE"),
         PanelWaits(p, then)
  PROVE  PageSound(q, n)
<1>1. q \in PageForm /\ OfQuery(q)
  BY DEF Reloading, SamePage, OfQuery
<1>2. Known(q, n)
  BY DEF Known, Reloading, SamePage, SameCall, Reads
<1>3. Current(q)
  BY DEF Current, Reloading, SameCall, SamePage
<1>4. OneLock(q)
  BY DEF OneLock, Unlocked, Reloading, SamePage, SameCall, Reads, Organization!Kinds
<1>5. LockWaits(q, "NONE")
  BY DEF LockWaits, Reloading, SamePage, SameCall
<1>6. PanelWaits(q, "NONE")
  BY DEF PanelWaits, Reloading, SamePage, SameCall
<1>7. DetailWaits(q)
  BY DEF DetailWaits, Reloading
<1>. QED
  BY <1>1, <1>2, <1>3, <1>4, <1>5, <1>6, <1>7 DEF PageSound

LEMMA OrganizationStarts == Organization!Init => OrganizationInv
<1>. SUFFICES ASSUME Organization!Init PROVE OrganizationInv
  OBVIOUS
<1>. DEFINE p == [shown |-> None, detail |-> "loading", error |-> FALSE,
                  lock |-> None, left |-> FALSE, acked |-> 0,
                  panel |-> Organization!NoPanel, calls |-> {}, searches |-> {}]
<1>1. organization \in OrgRow /\ organization.version = 1
  BY DEF Organization!Init, OrgRow
<1>2. /\ p \in PageForm /\ p.lock = None /\ p.acked = 0 /\ p.calls = {}
      /\ p.searches = {} /\ ~p.panel.busy /\ ~p.panel.searching /\ p.panel.found = None
  BY PagesConstants DEF PageForm, PanelForm, Organization!NoPanel
<1>3. page = Organization!LoadBoth(p, "NONE")
  BY DEF Organization!Init
<1>. HIDE DEF p
<1>4. Reloading(page, p, "NONE")
  BY <1>2, <1>3, LoadReloads
<1>5. Known(p, 1) /\ OfQuery(p) /\ OneLock(p) /\ LockWaits(p, "NONE") /\ PanelWaits(p, "NONE")
  BY <1>2 DEF Known, OfQuery, OneLock, LockWaits, PanelWaits
<1>6. "NONE" \notin Organization!Kinds
  BY DEF Organization!Kinds
<1>7. PageSound(page, 1)
  BY <1>2, <1>4, <1>5, <1>6, ReloadingSound
<1>. QED
  BY <1>1, <1>7 DEF OrganizationInv

LEMMA OrganizationRetries ==
  ASSUME OrganizationInv, Organization!RetryDetail
  PROVE  PageSound(page', organization.version)
<1>1. page' = Organization!LoadDetail(page, "NONE")
  BY DEF Organization!RetryDetail, Organization!Does
<1>2. PageSound(page, organization.version) /\ page \in PageForm /\ organization.version \in Nat
  BY DEF OrganizationInv, PageSound, OrgRow
<1>3. Reloading(page', page, "NONE")
  BY <1>1, <1>2, LoadReloads
<1>4. "NONE" \notin Organization!Kinds
  BY DEF Organization!Kinds
<1>. QED
  BY <1>2, <1>3, <1>4, ReloadingSound DEF PageSound

\* A change of the page or of the panel is sent.
LEMMA OrganizationSends ==
  ASSUME OrganizationInv, NEW kind \in Organization!Kinds \cup {"MANAGERS"},
         \/ /\ kind \in Organization!Kinds /\ Organization!Mutate(kind)
         \/ /\ kind = "MANAGERS" /\ Organization!ChangeManagers
  PROVE  PageSound(page', organization.version)
<1>. DEFINE a == Organization!Asked(kind, "NONE")
            T == page.calls \cup {a}
<1>1. PageSound(page, organization.version) /\ page \in PageForm
  BY DEF OrganizationInv, PageSound
<1>2. a \in OrgCall /\ a.kind = kind /\ a.then = "NONE" /\ a.owner /\ a.code = "NONE"
  <2>1. kind \in Organization!Kinds \cup Reads \cup {"MANAGERS"}
    OBVIOUS
  <2>2. "NONE" \in Organization!Kinds \cup {"NONE", "MANAGERS"}
    OBVIOUS
  <2>. QED
    BY ONLY <2>1, <2>2, AskedIsCall
<1>. HIDE DEF a
<1>3. T \in SUBSET OrgCall /\ \A c \in T : c = a \/ c \in page.calls
  BY <1>1, <1>2 DEF PageForm
<1>4. a \in T /\ \A c \in page.calls : c \in T
  OBVIOUS
<1>5. kind \notin Reads /\ "MANAGERS" \notin Organization!Kinds
      /\ "NONE" \notin Organization!Kinds /\ kind # "DETAIL"
  BY DEF Organization!Kinds, Reads
<1>6. CASE kind \in Organization!Kinds
  <2>1. page.lock = None /\ page' = [page EXCEPT !.lock = kind, !.calls = T]
    BY <1>5, <1>6 DEF Organization!Mutate, Organization!Does, a
  <2>. HIDE DEF T
  <2>2. /\ page' \in PageForm /\ page'.shown = page.shown /\ page'.error = page.error
        /\ page'.detail = page.detail /\ page'.lock = kind /\ page'.left = page.left
        /\ page'.acked = page.acked /\ page'.panel = page.panel
        /\ page'.searches = page.searches /\ page'.calls = T
    BY <1>1, <1>3, <1>6, <2>1 DEF PageForm
  <2>3. \A c \in page.calls : c.kind \notin Organization!Kinds
                              /\ c.then \notin Organization!Kinds
    BY <1>1, <2>1, PagesConstants DEF PageSound, OneLock, Organization!Kinds
  <2>4. OneLock(page')
    BY <1>2, <1>3, <1>5, <2>2, <2>3 DEF OneLock
  <2>5. LockWaits(page', "NONE")
    BY <1>2, <1>4, <2>2 DEF LockWaits
  <2>6. Known(page', organization.version) /\ Current(page')
    BY <1>1, <1>2, <1>3, <2>2 DEF PageSound, Known, Current
  <2>7. PanelWaits(page', "NONE") /\ DetailWaits(page') /\ OfQuery(page')
    BY <1>1, <1>4, <2>2 DEF PageSound, PanelWaits, DetailWaits, OfQuery
  <2>. QED
    BY <2>2, <2>4, <2>5, <2>6, <2>7 DEF PageSound
<1>7. CASE kind = "MANAGERS"
  <2>. DEFINE panel == [page.panel EXCEPT !.busy = TRUE]
  <2>1. page' = [page EXCEPT !.panel.busy = TRUE, !.calls = T]
    BY <1>5, <1>7 DEF Organization!ChangeManagers, Organization!Does, a
  <2>2. /\ panel \in PanelForm /\ panel.query = page.panel.query
        /\ panel.found = page.panel.found /\ panel.searching = page.panel.searching
    BY <1>1 DEF PageForm, PanelForm
  <2>3. page' = [page EXCEPT !.panel = panel, !.calls = T]
    BY <1>1, <2>1 DEF PageForm
  <2>. HIDE DEF T, panel
  <2>4. /\ page' \in PageForm /\ page'.shown = page.shown /\ page'.error = page.error
        /\ page'.detail = page.detail /\ page'.lock = page.lock /\ page'.left = page.left
        /\ page'.acked = page.acked /\ page'.panel = panel
        /\ page'.searches = page.searches /\ page'.calls = T
    BY <1>1, <1>3, <2>2, <2>3 DEF PageForm
  <2>5. OneLock(page') /\ LockWaits(page', "NONE")
    BY <1>1, <1>2, <1>3, <1>4, <1>5, <1>7, <2>4 DEF PageSound, OneLock, LockWaits
  <2>6. Known(page', organization.version) /\ Current(page')
    BY <1>1, <1>2, <1>3, <1>5, <1>7, <2>4 DEF PageSound, Known, Current
  <2>7. PanelWaits(page', "NONE")
    BY <1>2, <1>4, <1>7, <2>4 DEF PanelWaits
  <2>8. DetailWaits(page') /\ OfQuery(page')
    BY <1>1, <1>4, <2>2, <2>4 DEF PageSound, DetailWaits, OfQuery
  <2>. QED
    BY <2>4, <2>5, <2>6, <2>7, <2>8 DEF PageSound
<1>. QED
  BY <1>6, <1>7

\* Searching touches the panel and the searches alone.
Searched(q, p, panel, S) ==
  /\ panel \in PanelForm /\ S \in SUBSET Search
  /\ panel.busy = p.panel.busy
  /\ q = [p EXCEPT !.panel = panel, !.searches = S]
  /\ \A s \in S : s.owner => s.query = panel.query
  /\ panel.searching => \E s \in S : s.owner
  /\ panel.found \in {None, panel.query}

LEMMA SearchingSound ==
  ASSUME NEW p, NEW n, PageSound(p, n), NEW panel, NEW S, NEW q, Searched(q, p, panel, S)
  PROVE  PageSound(q, n)
<1>1. p \in PageForm
  BY DEF PageSound
<1>2. /\ q \in PageForm /\ q.shown = p.shown /\ q.error = p.error
      /\ q.detail = p.detail /\ q.lock = p.lock /\ q.left = p.left
      /\ q.acked = p.acked /\ q.panel = panel
      /\ q.searches = S /\ q.calls = p.calls
  BY <1>1 DEF PageForm, Searched
<1>. QED
  BY <1>1, <1>2
  DEF Searched, PageSound, Known, Current, OneLock, LockWaits, PanelWaits, DetailWaits, OfQuery

LEMMA DisownedSearches ==
  ASSUME NEW S \in SUBSET Search
  PROVE  /\ {[s EXCEPT !.owner = FALSE] : s \in S} \in SUBSET Search
         /\ \A s \in {[t EXCEPT !.owner = FALSE] : t \in S} : ~s.owner
<1>1. ASSUME NEW s \in Search
      PROVE  [s EXCEPT !.owner = FALSE] \in Search /\ ~[s EXCEPT !.owner = FALSE].owner
  BY DEF Search
<1>. QED
  BY <1>1

LEMMA OrganizationSearches ==
  ASSUME OrganizationInv,
         \/ Organization!SearchCandidates
         \/ Organization!ResetExistingAssignment
         \/ \E q \in Query : Organization!ChangeCandidateQuery(q)
         \/ \E s \in page.searches : Organization!SearchReturns(s) \/ Organization!SearchFails(s)
  PROVE  PageSound(page', organization.version)
<1>. DEFINE n == organization.version
            Old == {[s EXCEPT !.owner = FALSE] : s \in page.searches}
<1>1. /\ PageSound(page, n) /\ page \in PageForm /\ page.panel \in PanelForm
      /\ page.searches \in SUBSET Search /\ OfQuery(page)
  BY DEF OrganizationInv, PageSound, PageForm
<1>2. Old \in SUBSET Search /\ \A s \in Old : ~s.owner
  BY <1>1, DisownedSearches
<1>3. CASE Organization!SearchCandidates
  <2>. DEFINE panel == [page.panel EXCEPT !.searching = TRUE]
              a == [query |-> page.panel.query, owner |-> TRUE]
              S == Old \cup {a}
  <2>1. page' = [page EXCEPT !.panel.searching = TRUE, !.searches = S]
    BY <1>3 DEF Organization!SearchCandidates, Organization!Does
  <2>2. /\ panel \in PanelForm /\ panel.busy = page.panel.busy
        /\ panel.query = page.panel.query /\ panel.found = page.panel.found
    BY <1>1 DEF PanelForm
  <2>3. a \in Search /\ a.owner /\ a.query = page.panel.query
    BY <1>1 DEF PanelForm, Search
  <2>4. page' = [page EXCEPT !.panel = panel, !.searches = S]
    BY <1>1, <2>1 DEF PageForm
  <2>. HIDE DEF panel, a, Old
  <2>5. /\ S \in SUBSET Search /\ \A s \in S : s.owner => s.query = panel.query
        /\ \E s \in S : s.owner
    BY <1>2, <2>2, <2>3
  <2>. HIDE DEF S, n
  <2>6. panel.found \in {None, panel.query}
    BY <1>1, <2>2 DEF OfQuery
  <2>7. Searched(page', page, panel, S)
    BY <1>1, <2>2, <2>4, <2>5, <2>6 DEF Searched
  <2>. QED
    BY <1>1, <2>7, SearchingSound DEF n
<1>4. ASSUME NEW q \in Query, Organization!ChangeCandidateQuery(q)
      PROVE  PageSound(page', organization.version)
  <2>. DEFINE panel == [page.panel EXCEPT !.searching = FALSE, !.query = q, !.found = None]
              half == [page.panel EXCEPT !.searching = FALSE]
              p == [page EXCEPT !.panel = half, !.searches = Old]
  <2>1. Organization!Forgotten(page) = p
    BY <1>1 DEF Organization!Forgotten, PageForm
  <2>2. half \in PanelForm /\ half.busy = page.panel.busy
    BY <1>1 DEF PanelForm
  <2>3. page' = [p EXCEPT !.panel.query = q, !.panel.found = None]
    BY <1>4, <2>1 DEF Organization!ChangeCandidateQuery, Organization!Does
  <2>. DEFINE next == [half EXCEPT !.query = q, !.found = None]
  <2>. HIDE DEF Old, half
  <2>4. page' = [page EXCEPT !.panel = next, !.searches = Old]
    BY <1>1, <2>2, <2>3 DEF PageForm
  <2>5. /\ next \in PanelForm /\ next.busy = page.panel.busy /\ next.query = q
        /\ next.found = None /\ next.searching = half.searching
    BY <2>2 DEF PanelForm
  <2>6. ~half.searching
    BY <1>1 DEF half, PanelForm
  <2>. HIDE DEF next, n
  <2>7. Searched(page', page, next, Old)
    BY <1>1, <1>2, <2>4, <2>5, <2>6 DEF Searched
  <2>. QED
    BY <1>1, <2>7, SearchingSound DEF n
<1>5. ASSUME NEW s \in page.searches,
             Organization!SearchReturns(s) \/ Organization!SearchFails(s)
      PROVE  PageSound(page', organization.version)
  <2>. DEFINE S == page.searches \ {s}
              rest == [page EXCEPT !.searches = S]
  <2>1. /\ S \in SUBSET Search /\ \A t \in S : t \in page.searches
        /\ \A t \in page.searches : t = s \/ t \in S
        /\ s \in Search
    BY <1>1
  <2>2. CASE ~s.owner
    <3>. DEFINE panel == page.panel
    <3>1. page' = rest
      BY <1>5, <2>2 DEF Organization!SearchReturns, Organization!SearchFails
    <3>2. page' = [page EXCEPT !.panel = panel, !.searches = S]
      BY <1>1, <3>1 DEF PageForm
    <3>. HIDE DEF S, n
    <3>3. /\ \A t \in S : t.owner => t.query = panel.query
          /\ panel.searching => \E t \in S : t.owner
          /\ panel.found \in {None, panel.query}
      BY <1>1, <2>1, <2>2 DEF OfQuery
    <3>4. panel \in PanelForm /\ panel.busy = page.panel.busy
      BY <1>1
    <3>. HIDE DEF panel
    <3>5. Searched(page', page, panel, S)
      BY <1>1, <2>1, <3>2, <3>3, <3>4 DEF Searched
    <3>. QED
      BY <1>1, <3>5, SearchingSound DEF n
  <2>3. CASE s.owner /\ Organization!SearchFails(s)
    <3>. DEFINE panel == [page.panel EXCEPT !.searching = FALSE]
    <3>1. page' = [rest EXCEPT !.panel.searching = FALSE]
      BY <2>3 DEF Organization!SearchFails
    <3>2. page' = [page EXCEPT !.panel = panel, !.searches = S]
      BY <1>1, <3>1 DEF PageForm
    <3>3. /\ panel \in PanelForm /\ panel.busy = page.panel.busy /\ ~panel.searching
          /\ panel.query = page.panel.query /\ panel.found = page.panel.found
      BY <1>1 DEF PanelForm
    <3>. HIDE DEF S, n, panel
    <3>4. /\ \A t \in S : t.owner => t.query = panel.query
          /\ panel.found \in {None, panel.query}
      BY <1>1, <2>1, <3>3 DEF OfQuery
    <3>5. Searched(page', page, panel, S)
      BY <1>1, <2>1, <3>2, <3>3, <3>4 DEF Searched
    <3>. QED
      BY <1>1, <3>5, SearchingSound DEF n
  <2>4. CASE s.owner /\ Organization!SearchReturns(s)
    <3>. DEFINE panel == [page.panel EXCEPT !.searching = FALSE, !.found = s.query]
    <3>1. page' = [rest EXCEPT !.panel.searching = FALSE, !.panel.found = s.query]
      BY <2>4 DEF Organization!SearchReturns
    <3>2. page' = [page EXCEPT !.panel = panel, !.searches = S]
      BY <1>1, <3>1 DEF PageForm
    <3>3. s.query = page.panel.query /\ s.query \in Query
      BY <1>1, <2>1, <2>4 DEF OfQuery, Search
    <3>4. /\ panel \in PanelForm /\ panel.busy = page.panel.busy /\ ~panel.searching
          /\ panel.query = page.panel.query /\ panel.found = s.query
      BY <1>1, <3>3 DEF PanelForm
    <3>. HIDE DEF S, n, panel
    <3>5. /\ \A t \in S : t.owner => t.query = panel.query
          /\ panel.found \in {None, panel.query}
      BY <1>1, <2>1, <3>3, <3>4 DEF OfQuery
    <3>6. Searched(page', page, panel, S)
      BY <1>1, <2>1, <3>2, <3>4, <3>5 DEF Searched
    <3>. QED
      BY <1>1, <3>6, SearchingSound DEF n
  <2>. QED
    BY <1>5, <2>2, <2>3, <2>4
<1>6. CASE Organization!ResetExistingAssignment
  <2>. DEFINE panel == [page.panel EXCEPT !.searching = FALSE]
  <2>1. page' = [page EXCEPT !.panel.searching = FALSE, !.searches = Old]
    BY <1>6 DEF Organization!ResetExistingAssignment, Organization!Forgotten, Organization!Does
  <2>2. page' = [page EXCEPT !.panel = panel, !.searches = Old]
    BY <1>1, <2>1 DEF PageForm
  <2>3. /\ panel \in PanelForm /\ panel.busy = page.panel.busy /\ ~panel.searching
        /\ panel.query = page.panel.query /\ panel.found = page.panel.found
    BY <1>1 DEF PanelForm
  <2>. HIDE DEF Old, n, panel
  <2>4. panel.found \in {None, panel.query}
    BY <1>1, <2>3 DEF OfQuery
  <2>5. Searched(page', page, panel, Old)
    BY <1>1, <1>2, <2>2, <2>3, <2>4 DEF Searched
  <2>. QED
    BY <1>1, <2>5, SearchingSound DEF n
<1>. QED
  BY <1>3, <1>4, <1>5, <1>6

\* A call is answered while the page stays as it is; the server may have moved on.
LEMMA OrganizationAnswered ==
  ASSUME PageSound(page, organization.version), NEW c \in page.calls,
         NEW code \in {"OK", "FAILED", "CONFLICT"}, NEW row \in OrgRow \cup {None},
         organization' \in OrgRow, organization \in OrgRow,
         organization'.version >= organization.version,
         code = "OK" => /\ row \in OrgRow
                        /\ c.kind \notin Reads => row.version <= organization'.version
                        /\ c.kind \in Reads => row.version >= organization.version,
         Organization!Answer(c, code, row)
  PROVE  OrganizationInv'
<1>. DEFINE n == organization.version
            m == organization'.version
            a == [c EXCEPT !.code = code, !.row = row]
            T == (page.calls \ {c}) \cup {a}
<1>0. /\ page \in PageForm /\ c \in OrgCall /\ c \in CallForm /\ n \in Nat /\ m \in Nat
      /\ n <= m
  BY DEF PageSound, PageForm, OrgCall, OrgRow
<1>1. /\ a \in CallForm /\ a.kind = c.kind /\ a.then = c.then /\ a.owner = c.owner
      /\ a.code = code /\ a.row = row
  BY <1>0 DEF CallForm
<1>2. page' = [page EXCEPT !.calls = T]
  BY DEF Organization!Answer
<1>. HIDE DEF a, n, m
<1>3. a \in OrgCall
  BY <1>0, <1>1 DEF OrgCall
<1>4. /\ T \in SUBSET OrgCall /\ \A d \in T : d = a \/ d \in page.calls
      /\ \A d \in page.calls : d = c \/ d \in T
      /\ a \in T /\ \A d \in T : d = a \/ d # c
  BY <1>0, <1>3 DEF PageForm
<1>. HIDE DEF T
<1>5. /\ page' \in PageForm /\ page'.shown = page.shown /\ page'.error = page.error
      /\ page'.detail = page.detail /\ page'.lock = page.lock /\ page'.left = page.left
      /\ page'.acked = page.acked /\ page'.panel = page.panel
      /\ page'.searches = page.searches /\ page'.calls = T
  BY <1>0, <1>2, <1>4 DEF PageForm
<1>6. Known(page', m)
  <2>1. page.acked <= n /\ page.acked \in Nat
    BY <1>0 DEF PageSound, Known, PageForm, n
  <2>2. page.acked <= m
    BY <1>0, <2>1
  <2>3. ASSUME NEW d \in T, d.code = "OK", d.kind \notin Reads
        PROVE  d.row.version <= m
    <3>1. CASE d = a
      BY <1>1, <2>3, <3>1 DEF m
    <3>2. CASE d \in page.calls
      <4>1. d.row.version <= n /\ d.row.version \in Nat
        BY <1>0, <2>3, <3>2 DEF PageSound, Known, PageForm, OrgCall, OrgRow, n
      <4>. QED
        BY <1>0, <4>1
    <3>. QED
      BY <1>4, <3>1, <3>2
  <2>. QED
    BY <1>5, <2>2, <2>3 DEF Known
<1>7. Current(page')
  <2>1. page.acked <= n /\ page.acked \in Nat
    BY <1>0 DEF PageSound, Known, PageForm, n
  <2>2. a.code = "OK" /\ a.kind = "DETAIL" => a.row.version >= page.acked
    <3>1. SUFFICES ASSUME a.code = "OK", a.kind = "DETAIL" PROVE a.row.version >= page.acked
      OBVIOUS
    <3>2. row \in OrgRow /\ row.version >= n
      BY <1>1, <3>1 DEF Reads, n
    <3>3. row.version \in Nat
      BY <3>2 DEF OrgRow
    <3>. QED
      BY <1>0, <1>1, <2>1, <3>2, <3>3
  <2>3. Current(page)
    BY DEF PageSound
  <2>. QED
    BY <1>4, <1>5, <2>2, <2>3 DEF Current
<1>8. OneLock(page')
  BY <1>1, <1>4, <1>5 DEF PageSound, OneLock
<1>9. LockWaits(page', "NONE")
  BY <1>1, <1>4, <1>5 DEF PageSound, LockWaits
<1>10. PanelWaits(page', "NONE")
  BY <1>1, <1>4, <1>5 DEF PageSound, PanelWaits
<1>11. DetailWaits(page') /\ OfQuery(page')
  BY <1>1, <1>4, <1>5 DEF PageSound, DetailWaits, OfQuery
<1>12. PageSound(page', m)
  BY <1>5, <1>6, <1>7, <1>8, <1>9, <1>10, <1>11 DEF PageSound
<1>. QED
  BY <1>12 DEF OrganizationInv, m

LEMMA OrganizationLater ==
  ASSUME NEW row \in OrgRow, NEW next \in Organization!Later(row)
  PROVE  next \in OrgRow /\ next.version >= row.version
BY DEF Organization!Later, OrgRow

LEMMA OrganizationServed ==
  ASSUME OrganizationInv, NEW c \in page.calls,
         Organization!Serve(c) \/ Organization!Lose(c)
  PROVE  OrganizationInv'
<1>1. PageSound(page, organization.version) /\ organization \in OrgRow
  BY DEF OrganizationInv
<1>2. CASE Organization!Lose(c)
  <2>1. Organization!Answer(c, "FAILED", None) /\ organization' = organization
    BY <1>2 DEF Organization!Lose
  <2>2. organization'.version >= organization.version
    BY <1>1, <2>1 DEF OrgRow
  <2>. QED
    BY <1>1, <2>1, <2>2, OrganizationAnswered
<1>3. CASE Organization!Serve(c)
  <2>1. PICK row \in Organization!Later(organization) :
          IF c.kind \in {"DETAIL", "AUDIT"}
          THEN organization' = row /\ Organization!Answer(c, "OK", row)
          ELSE \/ organization' = row /\ Organization!Answer(c, "CONFLICT", None)
               \/ /\ organization' = Organization!Changed(c, row)
                  /\ \/ Organization!Answer(c, "OK", Organization!Changed(c, row))
                     \/ Organization!Answer(c, "FAILED", None)
    BY <1>3 DEF Organization!Serve
  <2>2. row \in OrgRow /\ row.version >= organization.version
    BY <1>1, OrganizationLater
  <2>. DEFINE next == Organization!Changed(c, row)
  <2>3. next \in OrgRow /\ next.version = row.version + 1
    BY <2>2 DEF Organization!Changed, OrgRow
  <2>4. next.version >= organization.version
    BY <1>1, <2>2, <2>3 DEF OrgRow
  <2>5. row.version <= row.version /\ next.version <= next.version
    BY <2>2, <2>3 DEF OrgRow
  <2>. HIDE DEF next
  <2>6. CASE c.kind \in Reads
    <3>1. organization' = row /\ Organization!Answer(c, "OK", row)
      BY <2>1, <2>6 DEF Reads
    <3>. QED
      BY <1>1, <2>2, <2>6, <3>1, OrganizationAnswered
  <2>7. CASE c.kind \notin Reads
    <3>1. CASE organization' = row /\ Organization!Answer(c, "CONFLICT", None)
      BY <1>1, <2>2, <3>1, OrganizationAnswered
    <3>2. CASE organization' = next /\ Organization!Answer(c, "OK", next)
      BY <1>1, <2>3, <2>4, <2>5, <2>7, <3>2, OrganizationAnswered
    <3>3. CASE organization' = next /\ Organization!Answer(c, "FAILED", None)
      BY <1>1, <2>3, <2>4, <3>3, OrganizationAnswered
    <3>. QED
      BY <2>1, <2>7, <3>1, <3>2, <3>3 DEF Reads, next
  <2>. QED
    BY <2>6, <2>7
<1>. QED
  BY <1>2, <1>3

\* v is p with another row on it: a panel that goes loses its claims, nothing else.
Displays(v, p, row) ==
  /\ v \in PageForm /\ v.shown = row /\ v.detail = p.detail /\ v.error = p.error
  /\ v.lock = p.lock /\ v.left = p.left /\ v.acked = p.acked
  /\ OfQuery(p) => OfQuery(v)
  /\ v.panel.busy => v.panel.busy = p.panel.busy /\ v.calls = p.calls
  /\ \A d \in v.calls : \E c \in p.calls :
       /\ d.kind = c.kind /\ d.code = c.code /\ d.row = c.row
       /\ d.then = c.then \/ d.then = "NONE"
       /\ d.owner => c.owner
       /\ c.kind \in Organization!Kinds => d = c
  /\ \A c \in p.calls : \E d \in v.calls :
       /\ d.kind = c.kind
       /\ c.then # "MANAGERS" => d.then = c.then
       /\ c.kind # "MANAGERS" => d.owner = c.owner

LEMMA ShowsDisplays ==
  ASSUME NEW p \in PageForm, NEW row \in OrgRow
  PROVE  Displays(Organization!Shows(p, row), p, row)
<1>. DEFINE v == Organization!Shows(p, row)
<1>1. CASE ~row.deleted
  <2>1. v = [p EXCEPT !.shown = row]
    BY <1>1 DEF Organization!Shows
  <2>. HIDE DEF v
  <2>2. /\ v \in PageForm /\ v.shown = row /\ v.detail = p.detail /\ v.error = p.error
        /\ v.lock = p.lock /\ v.left = p.left /\ v.acked = p.acked /\ v.panel = p.panel
        /\ v.calls = p.calls /\ v.searches = p.searches
    BY <2>1 DEF PageForm
  <2>. QED
    BY <2>2 DEF Displays, OfQuery, v
<1>2. CASE row.deleted
  <2>. DEFINE then(c) == IF c.then = "MANAGERS" THEN "NONE" ELSE c.then
              owner(c) == IF c.kind = "MANAGERS" THEN FALSE ELSE c.owner
              gone(c) == [c EXCEPT !.then = then(c), !.owner = owner(c)]
              T == {gone(c) : c \in p.calls}
              Old == {[s EXCEPT !.owner = FALSE] : s \in p.searches}
              half == [p.panel EXCEPT !.searching = FALSE]
              f == Organization!Forgotten(p)
              u == [f EXCEPT !.panel = Organization!NoPanel, !.calls = T]
  <2>1. f = [p EXCEPT !.panel = half, !.searches = Old]
    BY DEF Organization!Forgotten, PageForm
  <2>2. /\ p.panel \in PanelForm /\ p.searches \in SUBSET Search /\ p.calls \in SUBSET OrgCall
    BY DEF PageForm
  <2>3. Old \in SUBSET Search /\ \A s \in Old : ~s.owner
    BY <2>2, DisownedSearches
  <2>4. half \in PanelForm
    BY <2>2 DEF PanelForm
  <2>5. ASSUME NEW c \in p.calls
        PROVE  /\ gone(c) \in OrgCall /\ gone(c).kind = c.kind /\ gone(c).code = c.code
               /\ gone(c).row = c.row
               /\ gone(c).then = c.then \/ gone(c).then = "NONE"
               /\ gone(c).owner => c.owner
               /\ c.kind \in Organization!Kinds => gone(c) = c
               /\ c.then # "MANAGERS" => gone(c).then = c.then
               /\ c.kind # "MANAGERS" => gone(c).owner = c.owner
    <3>1. c \in OrgCall /\ c \in CallForm
      BY <2>2 DEF OrgCall
    <3>2. /\ then(c) \in Organization!Kinds \cup {"NONE", "MANAGERS"}
          /\ then(c) = c.then \/ then(c) = "NONE"
          /\ c.then # "MANAGERS" => then(c) = c.then
          /\ owner(c) \in BOOLEAN /\ (owner(c) => c.owner)
          /\ c.kind # "MANAGERS" => owner(c) = c.owner
      BY <3>1 DEF CallForm
    <3>0. c.kind \in Organization!Kinds => then(c) = c.then /\ owner(c) = c.owner
      BY <3>1 DEF OrgCall, Organization!Kinds, Reads
    <3>. HIDE DEF then, owner
    <3>5. c.kind \in Organization!Kinds => gone(c) = c
      BY <3>0, <3>1 DEF CallForm
    <3>3. /\ gone(c) \in CallForm /\ gone(c).kind = c.kind /\ gone(c).code = c.code
          /\ gone(c).row = c.row /\ gone(c).then = then(c) /\ gone(c).owner = owner(c)
      BY <3>1, <3>2 DEF CallForm
    <3>. HIDE DEF gone
    <3>4. gone(c) \in OrgCall
      BY <3>1, <3>2, <3>3 DEF OrgCall
    <3>. QED
      BY <3>2, <3>3, <3>4, <3>5
  <2>. HIDE DEF gone
  <2>6. /\ T \in SUBSET OrgCall
        /\ \A d \in T : \E c \in p.calls :
             /\ d.kind = c.kind /\ d.code = c.code /\ d.row = c.row
             /\ d.then = c.then \/ d.then = "NONE"
             /\ d.owner => c.owner
             /\ c.kind \in Organization!Kinds => d = c
        /\ \A c \in p.calls : \E d \in T :
             /\ d.kind = c.kind
             /\ c.then # "MANAGERS" => d.then = c.then
             /\ c.kind # "MANAGERS" => d.owner = c.owner
    BY <2>5
  <2>7. v = [u EXCEPT !.shown = row]
    <3>1. f.calls = p.calls
      BY <2>1 DEF PageForm
    <3>2. Organization!Unmounted(p) =
            [f EXCEPT !.panel = Organization!NoPanel, !.calls = {gone(c) : c \in f.calls}]
      BY DEF Organization!Unmounted, gone, then, owner
    <3>3. Organization!Unmounted(p) = u
      <4>. HIDE DEF f
      <4>. QED
        BY <3>1, <3>2
    <3>. QED
      BY <1>2, <3>3 DEF Organization!Shows
  <2>8. /\ Organization!NoPanel \in PanelForm /\ ~Organization!NoPanel.busy
        /\ ~Organization!NoPanel.searching /\ Organization!NoPanel.found = None
    BY PagesConstants DEF Organization!NoPanel, PanelForm
  <2>. HIDE DEF T, Old, half, f, u, v
  <2>9. /\ f \in PageForm /\ f.shown = p.shown /\ f.detail = p.detail /\ f.error = p.error
        /\ f.lock = p.lock /\ f.left = p.left /\ f.acked = p.acked /\ f.searches = Old
    BY <2>1, <2>3, <2>4 DEF PageForm
  <2>10. /\ u \in PageForm /\ u.shown = f.shown /\ u.detail = f.detail /\ u.error = f.error
         /\ u.lock = f.lock /\ u.left = f.left /\ u.acked = f.acked
         /\ u.searches = f.searches /\ u.calls = T /\ u.panel = Organization!NoPanel
    <3>1. u = [f EXCEPT !.panel = Organization!NoPanel, !.calls = T]
      BY DEF u
    <3>. QED
      BY <2>6, <2>8, <2>9, <3>1 DEF PageForm
  <2>11. /\ v \in PageForm /\ v.shown = row /\ v.detail = u.detail /\ v.error = u.error
         /\ v.lock = u.lock /\ v.left = u.left /\ v.acked = u.acked
         /\ v.searches = u.searches /\ v.calls = u.calls /\ v.panel = u.panel
    BY <2>7, <2>10 DEF PageForm
  <2>12. OfQuery(v)
    BY <2>3, <2>8, <2>9, <2>10, <2>11 DEF OfQuery
  <2>. QED
    BY <2>6, <2>8, <2>9, <2>10, <2>11, <2>12 DEF Displays, v
<1>. QED
  BY <1>1, <1>2 DEF OrgRow

\* The page without the call that is answered.
Lacks(p, c) ==
  /\ p \in PageForm
  /\ p.shown = page.shown /\ p.detail = page.detail /\ p.error = page.error
  /\ p.lock = page.lock /\ p.left = page.left /\ p.panel = page.panel
  /\ p.searches = page.searches /\ p.calls = page.calls \ {c}

\* What holds while the read that "then" waited for is taken off the page.
Almost(p, n, then) ==
  /\ p \in PageForm
  /\ Known(p, n) /\ Current(p) /\ OneLock(p)
  /\ LockWaits(p, then) /\ PanelWaits(p, then) /\ DetailWaits(p) /\ OfQuery(p)
  /\ then \in Organization!Kinds =>
       p.lock = then /\ \A d \in p.calls : d.kind \notin Organization!Kinds

LEMMA OrganizationReleased ==
  ASSUME NEW p, NEW n, NEW then \in Organization!Kinds \cup {"NONE", "MANAGERS"},
         Almost(p, n, then)
  PROVE  PageSound(Organization!Released(p, then), n)
<1>. DEFINE q == Organization!Released(p, then)
<1>1. p \in PageForm /\ p.lock \in Organization!Kinds \cup {None}
  BY DEF Almost, PageForm
<1>2. "NONE" \notin Organization!Kinds /\ "MANAGERS" \notin Organization!Kinds
  BY DEF Organization!Kinds
<1>3. CASE \E c \in p.calls : c.then = then
  <2>1. q = p
    BY <1>3 DEF Organization!Released
  <2>2. LockWaits(p, "NONE")
    BY <1>1, <1>2, <1>3 DEF Almost, LockWaits
  <2>3. PanelWaits(p, "NONE")
    BY <1>3 DEF Almost, PanelWaits
  <2>. QED
    BY <2>1, <2>2, <2>3 DEF Almost, PageSound
<1>4. CASE ~(\E c \in p.calls : c.then = then) /\ then = "MANAGERS"
  <2>. DEFINE panel == [p.panel EXCEPT !.busy = FALSE]
  <2>1. q = [p EXCEPT !.panel.busy = FALSE]
    BY <1>2, <1>4 DEF Organization!Released
  <2>2. /\ panel \in PanelForm /\ ~panel.busy /\ panel.query = p.panel.query
        /\ panel.found = p.panel.found /\ panel.searching = p.panel.searching
    BY <1>1 DEF PageForm, PanelForm
  <2>3. q = [p EXCEPT !.panel = panel]
    BY <1>1, <2>1 DEF PageForm
  <2>. HIDE DEF q, panel
  <2>4. /\ q \in PageForm /\ q.shown = p.shown /\ q.error = p.error
        /\ q.detail = p.detail /\ q.lock = p.lock /\ q.left = p.left
        /\ q.acked = p.acked /\ q.panel = panel
        /\ q.searches = p.searches /\ q.calls = p.calls
    BY <1>1, <2>2, <2>3 DEF PageForm
  <2>5. LockWaits(q, "NONE")
    BY <1>1, <1>2, <1>4, <2>4 DEF Almost, LockWaits
  <2>6. PanelWaits(q, "NONE") /\ OfQuery(q)
    BY <2>2, <2>4 DEF Almost, PanelWaits, OfQuery
  <2>. QED
    BY <2>4, <2>5, <2>6
    DEF Almost, PageSound, Known, Current, OneLock, DetailWaits, q
<1>5. CASE ~(\E c \in p.calls : c.then = then) /\ then \in Organization!Kinds
  <2>1. q = [p EXCEPT !.lock = None]
    BY <1>2, <1>5 DEF Organization!Released
  <2>. HIDE DEF q
  <2>2. /\ q \in PageForm /\ q.shown = p.shown /\ q.error = p.error
        /\ q.detail = p.detail /\ q.lock = None /\ q.left = p.left
        /\ q.acked = p.acked /\ q.panel = p.panel
        /\ q.searches = p.searches /\ q.calls = p.calls
    BY <1>1, <2>1 DEF PageForm
  <2>3. Unlocked(p)
    BY <1>5 DEF Almost, OneLock, Unlocked
  <2>4. OneLock(q) /\ LockWaits(q, "NONE")
    BY <2>2, <2>3 DEF OneLock, LockWaits, Unlocked
  <2>5. PanelWaits(q, "NONE")
    BY <1>2, <1>5, <2>2 DEF Almost, PanelWaits
  <2>. QED
    BY <2>2, <2>4, <2>5 DEF Almost, PageSound, Known, Current, DetailWaits, OfQuery, q
<1>6. CASE ~(\E c \in p.calls : c.then = then) /\ then = "NONE"
  <2>1. q = p
    BY <1>2, <1>6 DEF Organization!Released
  <2>. QED
    BY <1>6, <2>1 DEF Almost, PageSound
<1>. QED
  BY <1>3, <1>4, <1>5, <1>6

LEMMA OrganizationReads ==
  ASSUME OrganizationInv, NEW c \in page.calls, Organization!ReadReturns(c)
  PROVE  OrganizationInv'
<1>. DEFINE n == organization.version
            rest == [page EXCEPT !.calls = @ \ {c}]
            p == IF c.kind = "DETAIL" THEN Organization!DetailShown(rest, c) ELSE rest
<1>1. /\ PageSound(page, n) /\ page \in PageForm /\ organization \in OrgRow
      /\ c \in OrgCall /\ c \in CallForm
  BY DEF OrganizationInv, PageSound, PageForm, OrgCall
<1>2. /\ c.kind \in Reads /\ c.code # "NONE" /\ organization' = organization
      /\ page' = Organization!Released(p, c.then)
  BY DEF Organization!ReadReturns, Reads
<1>3. c.then \in Organization!Kinds \cup {"NONE", "MANAGERS"}
  BY <1>1 DEF CallForm
<1>4. c.kind \notin Organization!Kinds /\ c.kind # "MANAGERS"
      /\ "NONE" \notin Organization!Kinds /\ "MANAGERS" \notin Organization!Kinds
  BY <1>2 DEF Reads, Organization!Kinds
<1>5. Lacks(rest, c) /\ rest.acked = page.acked
  BY <1>1 DEF PageForm, Lacks
<1>. HIDE DEF n, rest
<1>6. \A d \in page.calls : d = c \/ d \in rest.calls
  BY <1>5 DEF Lacks
<1>7. Known(rest, n) /\ OneLock(rest) /\ OfQuery(rest)
  BY <1>1, <1>5 DEF PageSound, Lacks, Known, OneLock, OfQuery
<1>8. Current(rest)
  BY <1>1, <1>5 DEF PageSound, Lacks, Current
<1>9. LockWaits(rest, c.then)
  <2>1. page.lock # None => page.lock # c.kind /\ page.lock # "NONE"
    BY <1>1, <1>4 DEF PageForm
  <2>. QED
    BY <1>1, <1>5, <1>6, <2>1 DEF PageSound, Lacks, LockWaits
<1>10. PanelWaits(rest, c.then)
  BY <1>1, <1>4, <1>5, <1>6 DEF PageSound, Lacks, PanelWaits
<1>11. ~(c.kind = "DETAIL" /\ c.owner) => DetailWaits(rest)
  BY <1>1, <1>5, <1>6 DEF PageSound, Lacks, DetailWaits
<1>12. c.then \in Organization!Kinds =>
         rest.lock = c.then /\ \A d \in rest.calls : d.kind \notin Organization!Kinds
  BY <1>1, <1>5 DEF PageSound, Lacks, OneLock
<1>13. Almost(p, n, c.then)
  <2>1. CASE ~(c.kind = "DETAIL" /\ c.owner)
    <3>1. p = rest
      BY <2>1 DEF Organization!DetailShown, Organization!OwnsDetail
    <3>. QED
      BY <1>5, <1>7, <1>8, <1>9, <1>10, <1>11, <1>12, <2>1, <3>1 DEF Almost, Lacks
  <2>2. CASE c.kind = "DETAIL" /\ c.owner /\ c.code = "OK"
    <3>. DEFINE v == Organization!Shows(rest, c.row)
                u == [v EXCEPT !.detail = "idle", !.error = FALSE]
    <3>1. p = u
      BY <2>2 DEF Organization!DetailShown, Organization!OwnsDetail
    <3>2. c.row \in OrgRow /\ rest \in PageForm
      BY <1>1, <1>5, <2>2 DEF OrgCall, Lacks
    <3>3. Displays(v, rest, c.row)
      BY <3>2, ShowsDisplays
    <3>. HIDE DEF v
    <3>4. /\ u \in PageForm /\ u.shown = v.shown /\ ~u.error /\ u.detail = "idle"
          /\ u.lock = v.lock /\ u.left = v.left /\ u.acked = v.acked /\ u.panel = v.panel
          /\ u.searches = v.searches /\ u.calls = v.calls
      BY <3>3 DEF PageForm, Displays
    <3>. HIDE DEF u
    <3>5. ~page.left => c.row.version >= page.acked
      BY <1>1, <2>2 DEF PageSound, Current
    <3>6. Current(u)
      BY <1>5, <1>8, <3>2, <3>3, <3>4, <3>5 DEF Current, Displays, Lacks
    <3>7. Known(u, n) /\ OfQuery(u) /\ DetailWaits(u)
      BY <1>7, <3>3, <3>4 DEF Known, OfQuery, Displays, DetailWaits
    <3>8. OneLock(u)
      BY <1>4, <1>7, <3>3, <3>4 DEF OneLock, Displays
    <3>9. LockWaits(u, c.then)
      <4>1. v.lock # None => v.lock # "MANAGERS"
        BY <1>4, <3>3 DEF Displays, PageForm
      <4>. QED
        BY <1>9, <3>3, <3>4, <4>1 DEF LockWaits, Displays
    <3>10. PanelWaits(u, c.then)
      <4>1. u.panel.busy => rest.panel.busy /\ u.calls = rest.calls
        BY <3>3, <3>4 DEF Displays
      <4>. QED
        BY <1>10, <4>1 DEF PanelWaits
    <3>11. c.then \in Organization!Kinds =>
             u.lock = c.then /\ \A d \in u.calls : d.kind \notin Organization!Kinds
      BY <1>12, <3>3, <3>4 DEF Displays
    <3>. QED
      BY <3>1, <3>4, <3>6, <3>7, <3>8, <3>9, <3>10, <3>11 DEF Almost
  <2>3. CASE c.kind = "DETAIL" /\ c.owner /\ c.code # "OK"
    <3>. DEFINE u == [rest EXCEPT !.detail = "idle", !.error = TRUE]
    <3>1. p = u
      BY <2>3 DEF Organization!DetailShown, Organization!OwnsDetail
    <3>2. /\ u \in PageForm /\ u.shown = rest.shown /\ u.error /\ u.detail = "idle"
          /\ u.lock = rest.lock /\ u.left = rest.left /\ u.acked = rest.acked
          /\ u.panel = rest.panel /\ u.searches = rest.searches /\ u.calls = rest.calls
      BY <1>5 DEF PageForm, Lacks
    <3>. HIDE DEF u
    <3>3. Current(u) /\ Known(u, n) /\ OneLock(u)
      BY <1>7, <1>8, <3>2 DEF Current, Known, OneLock
    <3>4. OfQuery(u) /\ DetailWaits(u)
      BY <1>7, <3>2 DEF OfQuery, DetailWaits
    <3>5. LockWaits(u, c.then) /\ PanelWaits(u, c.then)
      BY <1>9, <1>10, <3>2 DEF LockWaits, PanelWaits
    <3>. QED
      BY <1>12, <3>1, <3>2, <3>3, <3>4, <3>5 DEF Almost
  <2>. QED
    BY <2>1, <2>2, <2>3
<1>. HIDE DEF p
<1>14. PageSound(page', n)
  BY <1>2, <1>3, <1>13, OrganizationReleased
<1>. QED
  BY <1>1, <1>2, <1>14 DEF OrganizationInv, n

\* The lock is given back: no call holds it any more.
LEMMA LockReleased ==
  ASSUME NEW p \in PageForm, NEW n, NEW q, q.lock = None, q \in PageForm,
         q.calls = p.calls, q.panel = p.panel, q.searches = p.searches,
         q.acked = p.acked, q.detail = p.detail,
         Unlocked(p), Known(p, n), OfQuery(p), DetailWaits(p), PanelWaits(p, "NONE"),
         Current(q)
  PROVE  PageSound(q, n)
BY DEF PageSound, Unlocked, Known, OfQuery, DetailWaits, PanelWaits, OneLock, LockWaits

LEMMA OrganizationChanged ==
  ASSUME OrganizationInv, NEW c \in page.calls, Organization!ChangeReturns(c)
  PROVE  OrganizationInv'
<1>. DEFINE n == organization.version
            acked == IF c.code = "OK" THEN Organization!Reloaded(c) ELSE page.acked
            rest == [page EXCEPT !.calls = @ \ {c}, !.acked = acked]
<1>1. /\ PageSound(page, n) /\ page \in PageForm /\ organization \in OrgRow
      /\ c \in OrgCall /\ c \in CallForm /\ n \in Nat
  BY DEF OrganizationInv, PageSound, PageForm, OrgCall, OrgRow
<1>2. /\ c.kind \notin Reads /\ c.code # "NONE" /\ organization' = organization
      /\ page' = Organization!Followed(rest, c)
  BY DEF Organization!ChangeReturns, Reads
<1>3. c.then = "NONE" /\ c.kind \in Organization!Kinds \cup {"MANAGERS"}
  BY <1>1, <1>2 DEF OrgCall, CallForm
<1>4. /\ c.kind # "DETAIL" /\ "NONE" \notin Organization!Kinds
      /\ "MANAGERS" \notin Organization!Kinds /\ "MANAGERS" \notin Reads
  BY <1>2 DEF Reads, Organization!Kinds
<1>5. acked \in Nat /\ acked <= n /\ (c.code # "OK" => acked = page.acked)
  <2>1. CASE c.code = "OK" /\ c.kind # "RESTORE"
    <3>1. c.row \in OrgRow /\ c.row.version <= n /\ acked = c.row.version
      BY <1>1, <1>2, <2>1 DEF PageSound, Known, OrgCall, Organization!Reloaded
    <3>. QED
      BY <2>1, <3>1 DEF OrgRow
  <2>2. CASE c.code = "OK" /\ c.kind = "RESTORE"
    <3>1. acked = 0
      BY <2>2 DEF Organization!Reloaded
    <3>. QED
      BY <1>1, <2>2, <3>1
  <2>3. CASE c.code # "OK"
    BY <1>1, <2>3 DEF PageSound, Known, PageForm
  <2>. QED
    BY <2>1, <2>2, <2>3
<1>6. c.code = "OK" /\ c.kind = "RESTORE" => acked = 0
  BY DEF Organization!Reloaded
<1>. HIDE DEF acked
<1>7. Lacks(rest, c) /\ rest.acked = acked
  BY <1>1, <1>5 DEF PageForm, Lacks
<1>. HIDE DEF n, rest
<1>8. rest \in PageForm /\ rest.calls = page.calls \ {c} /\ rest.lock = page.lock
      /\ \A d \in page.calls : d = c \/ d \in rest.calls
  BY <1>7 DEF Lacks
<1>9. Known(rest, n) /\ OfQuery(rest)
  BY <1>1, <1>5, <1>7 DEF PageSound, Lacks, Known, OfQuery
<1>10. DetailWaits(rest)
  BY <1>1, <1>4, <1>7, <1>8 DEF PageSound, Lacks, DetailWaits
<1>11. ~(c.kind = "MANAGERS" /\ c.owner) => PanelWaits(rest, "NONE")
  BY <1>1, <1>3, <1>7, <1>8 DEF PageSound, Lacks, PanelWaits
<1>12. c.code # "OK" => Current(rest)
  BY <1>1, <1>5, <1>7 DEF PageSound, Lacks, Current
<1>13. CASE c.kind = "MANAGERS"
  <2>1. page' = Organization!PanelFollows(rest, c)
    BY <1>2, <1>13 DEF Organization!Followed
  <2>2. OneLock(rest)
    BY <1>1, <1>7 DEF PageSound, Lacks, OneLock
  <2>3. LockWaits(rest, "NONE")
    <3>1. page.lock # None => page.lock # c.kind /\ page.lock # "NONE"
      BY <1>1, <1>4, <1>13 DEF PageForm
    <3>. QED
      BY <1>1, <1>3, <1>7, <1>8, <3>1 DEF PageSound, Lacks, LockWaits
  <2>4. CASE c.code # "FAILED"
    <3>. DEFINE then == IF c.owner THEN "MANAGERS" ELSE "NONE"
    <3>1. page' = Organization!LoadBoth(rest, then)
      BY <2>1, <2>4 DEF Organization!PanelFollows
    <3>2. then \in Organization!Kinds \cup {"NONE", "MANAGERS"} /\ then \notin Organization!Kinds
      BY <1>4
    <3>3. PanelWaits(rest, then)
      BY <1>11 DEF PanelWaits
    <3>. HIDE DEF then
    <3>4. Reloading(page', rest, then)
      BY <1>8, <3>1, <3>2, LoadReloads
    <3>5. PageSound(page', n)
      BY <1>1, <1>8, <1>9, <2>2, <2>3, <3>2, <3>3, <3>4, ReloadingSound
    <3>. QED
      BY <1>1, <1>2, <3>5 DEF OrganizationInv, n
  <2>5. CASE c.code = "FAILED" /\ c.owner
    <3>. DEFINE panel == [rest.panel EXCEPT !.busy = FALSE]
    <3>1. page' = [rest EXCEPT !.panel.busy = FALSE]
      BY <2>1, <2>5 DEF Organization!PanelFollows
    <3>2. /\ panel \in PanelForm /\ ~panel.busy /\ panel.query = rest.panel.query
          /\ panel.found = rest.panel.found /\ panel.searching = rest.panel.searching
      BY <1>8 DEF PageForm, PanelForm
    <3>3. page' = [rest EXCEPT !.panel = panel]
      BY <1>8, <3>1 DEF PageForm
    <3>. HIDE DEF panel
    <3>4. /\ page' \in PageForm /\ page'.shown = rest.shown /\ page'.error = rest.error
          /\ page'.detail = rest.detail /\ page'.lock = rest.lock /\ page'.left = rest.left
          /\ page'.acked = rest.acked /\ page'.panel = panel
          /\ page'.searches = rest.searches /\ page'.calls = rest.calls
      BY <1>8, <3>2, <3>3 DEF PageForm
    <3>5. PanelWaits(page', "NONE") /\ OfQuery(page')
      BY <1>9, <3>2, <3>4 DEF PanelWaits, OfQuery
    <3>6. OneLock(page') /\ LockWaits(page', "NONE")
      BY <2>2, <2>3, <3>4 DEF OneLock, LockWaits
    <3>7. Known(page', n) /\ Current(page') /\ DetailWaits(page')
      BY <1>9, <1>10, <1>12, <2>5, <3>4 DEF Known, Current, DetailWaits
    <3>8. PageSound(page', n)
      BY <3>4, <3>5, <3>6, <3>7 DEF PageSound
    <3>. QED
      BY <1>1, <1>2, <3>8 DEF OrganizationInv, n
  <2>6. CASE c.code = "FAILED" /\ ~c.owner
    <3>1. page' = rest
      BY <2>1, <2>6 DEF Organization!PanelFollows
    <3>2. PageSound(page', n)
      BY <1>8, <1>9, <1>10, <1>11, <1>12, <2>2, <2>3, <2>6, <3>1 DEF PageSound
    <3>. QED
      BY <1>1, <1>2, <3>2 DEF OrganizationInv, n
  <2>. QED
    BY <2>4, <2>5, <2>6
<1>14. CASE c.kind \in Organization!Kinds
  <2>1. page' = Organization!PageFollows(rest, c)
    BY <1>2, <1>4, <1>14 DEF Organization!Followed
  <2>2. Unlocked(rest) /\ rest.lock = c.kind
    BY <1>1, <1>8, <1>14 DEF PageSound, OneLock, Unlocked
  <2>3. PanelWaits(rest, "NONE")
    BY <1>4, <1>11, <1>14
  <2>4. c.code \in {"OK", "FAILED", "CONFLICT"}
    BY <1>1, <1>2 DEF CallForm
  <2>5. ASSUME Reloading(page', rest, c.kind)
        PROVE  OrganizationInv'
    <3>1. PanelWaits(rest, c.kind)
      BY <2>3, <1>4 DEF PanelWaits
    <3>2. c.kind \in Organization!Kinds \cup {"NONE", "MANAGERS"}
      BY <1>14
    <3>3. PageSound(page', n)
      BY <1>1, <1>8, <1>9, <1>14, <2>2, <2>5, <3>1, <3>2, ReloadingSound
    <3>. QED
      BY <1>1, <1>2, <3>3 DEF OrganizationInv, n
  <2>6. Reloading(Organization!LoadDetail(rest, c.kind), rest, c.kind)
        /\ Reloading(Organization!LoadBoth(rest, c.kind), rest, c.kind)
    BY <1>8, <1>14, LoadReloads
  <2>7. CASE c.code = "FAILED"
    <3>1. page' = [rest EXCEPT !.lock = None]
      BY <2>1, <2>7 DEF Organization!PageFollows
    <3>2. /\ page' \in PageForm /\ page'.shown = rest.shown /\ page'.error = rest.error
          /\ page'.detail = rest.detail /\ page'.lock = None /\ page'.left = rest.left
          /\ page'.acked = rest.acked /\ page'.panel = rest.panel
          /\ page'.searches = rest.searches /\ page'.calls = rest.calls
      BY <1>8, <3>1 DEF PageForm
    <3>3. Current(page')
      BY <1>12, <2>7, <3>2 DEF Current
    <3>4. PageSound(page', n)
      BY <1>8, <1>9, <1>10, <2>2, <2>3, <3>2, <3>3, LockReleased
    <3>. QED
      BY <1>1, <1>2, <3>4 DEF OrganizationInv, n
  <2>8. CASE c.code = "CONFLICT"
    <3>1. \/ page' = Organization!LoadBoth(rest, c.kind)
          \/ page' = Organization!LoadDetail(rest, c.kind)
      BY <2>1, <2>8 DEF Organization!PageFollows
    <3>. QED
      BY <2>5, <2>6, <3>1
  <2>9. CASE c.code = "OK" /\ c.kind \notin {"DELETE", "RESTORE"}
    <3>1. page' = Organization!LoadBoth(rest, c.kind)
      BY <2>1, <2>9 DEF Organization!PageFollows
    <3>. QED
      BY <2>5, <2>6, <3>1
  <2>10. CASE c.code = "OK" /\ c.kind = "DELETE"
    <3>1. page' = [rest EXCEPT !.lock = None, !.left = TRUE]
      BY <2>1, <2>10 DEF Organization!PageFollows
    <3>2. /\ page' \in PageForm /\ page'.shown = rest.shown /\ page'.error = rest.error
          /\ page'.detail = rest.detail /\ page'.lock = None /\ page'.left
          /\ page'.acked = rest.acked /\ page'.panel = rest.panel
          /\ page'.searches = rest.searches /\ page'.calls = rest.calls
      BY <1>8, <3>1 DEF PageForm
    <3>3. Current(page')
      BY <3>2 DEF Current
    <3>4. PageSound(page', n)
      BY <1>8, <1>9, <1>10, <2>2, <2>3, <3>2, <3>3, LockReleased
    <3>. QED
      BY <1>1, <1>2, <3>4 DEF OrganizationInv, n
  <2>11. CASE c.code = "OK" /\ c.kind = "RESTORE"
    <3>. DEFINE v == Organization!Shows(rest, c.row)
                a == Organization!Asked("AUDIT", "RESTORE")
                T == v.calls \cup {a}
    <3>1. page' = [v EXCEPT !.calls = T]
      BY <2>1, <2>11 DEF Organization!PageFollows
    <3>2. c.row \in OrgRow
      BY <1>1, <2>11 DEF OrgCall
    <3>3. Displays(v, rest, c.row)
      BY <1>8, <3>2, ShowsDisplays
    <3>4. /\ a \in OrgCall /\ a.kind = "AUDIT" /\ a.then = "RESTORE" /\ a.code = "NONE"
      <4>1. /\ "AUDIT" \in Organization!Kinds \cup Reads \cup {"MANAGERS"}
            /\ "RESTORE" \in Organization!Kinds \cup {"NONE", "MANAGERS"}
            /\ "AUDIT" \in Reads
        BY DEF Reads, Organization!Kinds
      <4>. QED
        BY <4>1, AskedIsCall
    <3>. HIDE DEF v, a
    <3>5. T \in SUBSET OrgCall /\ v \in PageForm
      BY <3>3, <3>4 DEF PageForm, Displays
    <3>6. \A d \in T : d = a \/ d \in v.calls
      OBVIOUS
    <3>7. a \in T /\ \A d \in v.calls : d \in T
      OBVIOUS
    <3>. HIDE DEF T
    <3>8. /\ page' \in PageForm /\ page'.shown = c.row /\ page'.error = v.error
          /\ page'.detail = rest.detail /\ page'.lock = "RESTORE" /\ page'.left = v.left
          /\ page'.acked = 0 /\ page'.panel = v.panel
          /\ page'.searches = v.searches /\ page'.calls = T
      BY <1>6, <1>7, <2>2, <2>11, <3>1, <3>3, <3>5 DEF PageForm, Displays
    <3>9. /\ "AUDIT" \notin Organization!Kinds /\ "RESTORE" \in Organization!Kinds
          /\ "AUDIT" \in Reads
      BY DEF Reads, Organization!Kinds
    <3>10. \A d \in v.calls : d.kind \notin Organization!Kinds /\ d.then \notin Organization!Kinds
      BY <1>4, <2>2, <3>3 DEF Unlocked, Displays
    <3>11. OneLock(page')
      BY <3>4, <3>6, <3>8, <3>9, <3>10 DEF OneLock
    <3>12. LockWaits(page', "NONE")
      BY <3>4, <3>7, <3>8 DEF LockWaits
    <3>13. PanelWaits(page', "NONE")
      BY <2>3, <3>3, <3>7, <3>8 DEF PanelWaits, Displays
    <3>14. DetailWaits(page')
      BY <1>10, <3>3, <3>7, <3>8 DEF DetailWaits, Displays
    <3>15. OfQuery(page')
      BY <1>9, <3>3, <3>8 DEF OfQuery, Displays
    <3>16. Known(page', n)
      BY <1>1, <1>9, <3>3, <3>4, <3>6, <3>8 DEF Known, Displays
    <3>17. Current(page')
      <4>1. ASSUME NEW d \in T, d.code = "OK" PROVE d.row.version >= 0
        <5>1. d \in OrgCall
          BY <3>5
        <5>. QED
          BY <4>1, <5>1 DEF OrgCall, OrgRow
      <4>2. c.row.version >= 0
        BY <3>2 DEF OrgRow
      <4>. QED
        BY <3>2, <3>8, <4>1, <4>2 DEF Current
    <3>18. PageSound(page', n)
      BY <3>8, <3>11, <3>12, <3>13, <3>14, <3>15, <3>16, <3>17 DEF PageSound
    <3>. QED
      BY <1>1, <1>2, <3>18 DEF OrganizationInv, n
  <2>. QED
    BY <2>4, <2>7, <2>8, <2>9, <2>10, <2>11
<1>. QED
  BY <1>3, <1>13, <1>14

LEMMA OrganizationKeeps ==
  OrganizationInv /\ [Organization!Next]_<<organization, page>> => OrganizationInv'
<1>. SUFFICES ASSUME OrganizationInv, [Organization!Next]_<<organization, page>>
              PROVE  OrganizationInv'
  OBVIOUS
<1>1. CASE UNCHANGED <<organization, page>>
  BY <1>1 DEF OrganizationInv
<1>2. CASE Organization!RetryDetail
  <2>1. organization' = organization
    BY <1>2 DEF Organization!RetryDetail, Organization!Does
  <2>. QED
    BY <1>2, <2>1, OrganizationRetries DEF OrganizationInv
<1>3. ASSUME NEW kind \in Organization!Kinds, Organization!Mutate(kind)
      PROVE  OrganizationInv'
  <2>1. organization' = organization
    BY <1>3 DEF Organization!Mutate, Organization!Does
  <2>. QED
    BY <1>3, <2>1, OrganizationSends DEF OrganizationInv
<1>4. CASE Organization!ChangeManagers
  <2>1. organization' = organization
    BY <1>4 DEF Organization!ChangeManagers, Organization!Does
  <2>. QED
    BY <1>4, <2>1, OrganizationSends DEF OrganizationInv
<1>5. CASE \/ Organization!SearchCandidates
           \/ Organization!ResetExistingAssignment
           \/ \E q \in Query : Organization!ChangeCandidateQuery(q)
           \/ \E s \in page.searches :
                Organization!SearchReturns(s) \/ Organization!SearchFails(s)
  <2>1. organization' = organization
    BY <1>5 DEF Organization!SearchCandidates, Organization!ResetExistingAssignment,
                Organization!ChangeCandidateQuery, Organization!SearchReturns,
                Organization!SearchFails, Organization!Does
  <2>. QED
    BY <1>5, <2>1, OrganizationSearches DEF OrganizationInv
<1>. QED
  BY <1>1, <1>2, <1>3, <1>4, <1>5, OrganizationServed, OrganizationReads, OrganizationChanged
  DEF Organization!Next

LEMMA OrganizationShows ==
  OrganizationInv => /\ Organization!OwnChangesShown /\ Organization!CandidatesOfQuery
                     /\ Organization!WaitsEnd
<1>. SUFFICES ASSUME OrganizationInv
              PROVE  /\ Organization!OwnChangesShown /\ Organization!CandidatesOfQuery
                     /\ Organization!WaitsEnd
  OBVIOUS
<1>1. PageSound(page, organization.version) /\ page \in PageForm
  BY DEF OrganizationInv, PageSound
<1>2. Organization!OwnChangesShown
  BY <1>1 DEF PageSound, Current, Organization!OwnChangesShown, Organization!Displayed
<1>3. Organization!CandidatesOfQuery
  BY <1>1 DEF PageSound, OfQuery, Organization!CandidatesOfQuery
<1>4. page.lock # "NONE"  \/ page.lock = None
  BY <1>1 DEF PageForm, Organization!Kinds
<1>5. Organization!WaitsEnd
  BY <1>1, <1>4
  DEF PageSound, LockWaits, PanelWaits, DetailWaits, OfQuery, Organization!WaitsEnd
<1>. QED
  BY <1>2, <1>3, <1>5
-----------------------------------------------------------------------------
(* The page of a project.                                                     *)

ServerRow == [revision : Int, closed : BOOLEAN, deleted : BOOLEAN]

Shown == [project : Project, revision : Int, closed : BOOLEAN, deleted : BOOLEAN]

CallKinds ==
  Detail!RowReads \cup {"CANDIDATES", "EDIT", "DELETE", "TRANSITION", "RESTORE",
                        "CORRECTION", "CHILD"}

Awaiting == Widget \cup {"NONE", "TRANSITION", "RESTORE", "edit", "delete", "PANEL"}

\* What is awaited by reads of the row alone.
Buttons == {"TRANSITION", "RESTORE"}

Answers == {"NONE", "OK", "FAILED", "NOT_FOUND", "UNAVAILABLE", "PROJECT_CLOSED", "STALE"}

TabCallForm ==
  [project : Project, kind : CallKinds, arg : Int \cup {None}, then : Awaiting,
   fresh : BOOLEAN, owner : BOOLEAN, here : BOOLEAN, code : Answers,
   row : ServerRow \cup {None}]

\* The reload after a transition or a restore is a read of the row, what succeeds
\* answers a row, and what was edited is not deleted.
TabCall ==
  {c \in TabCallForm :
     /\ c.then \in Buttons => c.kind \in Detail!RowReads
     /\ c.code = "OK" => c.row \in ServerRow
     /\ c.code = "OK" /\ c.kind = "EDIT" => ~c.row.deleted}

TabForm ==
  [route : Project, withDeleted : BOOLEAN, shown : Shown \cup {None},
   project : {"loading", "idle", "failed"}, correction : BOOLEAN,
   candidates : {"loading", "idle", "failed", "left"},
   dialog : {"none", "edit", "delete", "transition"},
   observed : Int \cup {None}, transitioning : BOOLEAN, restoring : {"no", "waits", "left"},
   clicks : Int, calls : SUBSET TabCall]

\* What counts is of the project the path names; candidates are loaded to correct it.
OfRoute(t) ==
  /\ t \in TabForm
  /\ \A c \in t.calls : c.fresh => c.project = t.route
  /\ t.shown # None => t.shown.project = t.route
  /\ t.candidates = "loading" => t.correction

CorrectsShown(t) == t.correction => t.shown # None /\ ~t.shown.deleted

ReadsRow(t) == \E c \in t.calls : c.kind \in Detail!RowReads /\ c.fresh /\ c.owner

RowAwaited(t) == t.project = "loading" => ReadsRow(t)

TransitionAwaited(t) ==
  t.transitioning => \E c \in t.calls : c.here /\ "TRANSITION" \in {c.kind, c.then}

Restores(calls) == \E c \in calls : c.fresh /\ "RESTORE" \in {c.kind, c.then}

RestoreAwaited(t) == t.restoring = "waits" => Restores(t.calls)

AsksCandidates(calls) == \E c \in calls : c.kind = "CANDIDATES" /\ c.fresh /\ c.owner

CandidatesAwaited(t) == t.candidates = "loading" => AsksCandidates(t.calls)

TabSound(t) ==
  /\ OfRoute(t) /\ CorrectsShown(t)
  /\ RowAwaited(t) /\ TransitionAwaited(t) /\ RestoreAwaited(t) /\ CandidatesAwaited(t)

DetailInv == projects \in [Project -> ServerRow] /\ TabSound(tab)

\* u comes from t by sending, disowning, reloading, or giving something up.
Changes(u, t) ==
  /\ u \in TabForm
  /\ u.route = t.route /\ u.shown = t.shown
  /\ u.correction => t.correction
  /\ u.transitioning => t.transitioning
  /\ \A d \in u.calls :
       d.fresh => d.project = t.route \/ \E c \in t.calls : c.fresh /\ d.project = c.project
  /\ \A c \in t.calls : \E d \in u.calls :
       /\ d.kind = c.kind /\ d.here = c.here
       /\ c.then = "TRANSITION" => d.then = "TRANSITION"

\* The flags that a reload leaves set: no new wait begins but that for candidates just
\* asked for, and what was awaited still is.
Awaits(u, t) ==
  /\ u.restoring = "waits" =>
       t.restoring = "waits" /\ (Restores(t.calls) => Restores(u.calls))
  /\ u.candidates = "loading" =>
       \/ u.correction /\ AsksCandidates(u.calls)
       \/ /\ t.candidates = "loading"
          /\ t.correction => u.correction
          /\ AsksCandidates(t.calls) => AsksCandidates(u.calls)

\* And the row that was awaited still is.
Follows(u, t) ==
  /\ Changes(u, t) /\ Awaits(u, t)
  /\ u.project = "loading" => t.project = "loading" \/ ReadsRow(u)
  /\ ReadsRow(t) => ReadsRow(u)

\* Two pages that differ in nothing that decides something, but perhaps in their calls.
Alike(u, t) ==
  /\ u \in TabForm /\ u.route = t.route /\ u.shown = t.shown
  /\ u.correction = t.correction /\ u.transitioning = t.transitioning
  /\ u.project = t.project /\ u.restoring = t.restoring /\ u.candidates = t.candidates

LEMMA ChangesTwice ==
  ASSUME NEW u, NEW v, NEW t, Changes(v, u), Changes(u, t)
  PROVE  Changes(v, t)
<1>1. /\ v \in TabForm /\ v.route = t.route /\ v.shown = t.shown
      /\ v.correction => t.correction
      /\ v.transitioning => t.transitioning
  BY DEF Changes
<1>2. \A d \in v.calls :
        d.fresh => d.project = t.route \/ \E c \in t.calls : c.fresh /\ d.project = c.project
  BY DEF Changes
<1>3. \A c \in t.calls : \E d \in v.calls :
        /\ d.kind = c.kind /\ d.here = c.here
        /\ c.then = "TRANSITION" => d.then = "TRANSITION"
  BY DEF Changes
<1>. QED
  BY <1>1, <1>2, <1>3 DEF Changes

LEMMA AwaitsTwice ==
  ASSUME NEW u, NEW v, NEW t, Awaits(v, u), Awaits(u, t)
  PROVE  Awaits(v, t)
BY DEF Awaits

LEMMA FollowsTwice ==
  ASSUME NEW u, NEW v, NEW t, Follows(v, u), Follows(u, t)
  PROVE  Follows(v, t)
<1>1. Changes(v, t) /\ Awaits(v, t)
  BY ChangesTwice, AwaitsTwice DEF Follows
<1>. QED
  BY <1>1 DEF Follows

LEMMA FollowsSound ==
  ASSUME NEW u, NEW t, Follows(u, t), OfRoute(t)
  PROVE  /\ OfRoute(u)
         /\ CorrectsShown(t) => CorrectsShown(u)
         /\ RowAwaited(t) => RowAwaited(u)
         /\ TransitionAwaited(t) => TransitionAwaited(u)
         /\ RestoreAwaited(t) => RestoreAwaited(u)
         /\ CandidatesAwaited(t) => CandidatesAwaited(u)
<1>1. OfRoute(u)
  <2>1. u.candidates = "loading" => u.correction
    BY DEF Follows, Awaits, OfRoute
  <2>. QED
    BY <2>1 DEF Follows, Changes, OfRoute
<1>2. CorrectsShown(t) => CorrectsShown(u)
  BY DEF Follows, Changes, CorrectsShown
<1>3. RowAwaited(t) => RowAwaited(u)
  BY DEF Follows, RowAwaited
<1>4. TransitionAwaited(t) => TransitionAwaited(u)
  BY DEF Follows, Changes, TransitionAwaited
<1>5. RestoreAwaited(t) => RestoreAwaited(u)
  BY DEF Follows, Awaits, RestoreAwaited
<1>6. CandidatesAwaited(t) => CandidatesAwaited(u)
  BY DEF Follows, Awaits, CandidatesAwaited
<1>. QED
  BY <1>1, <1>2, <1>3, <1>4, <1>5, <1>6

\* What changes nothing but fields that decide nothing.
LEMMA FollowsSame ==
  ASSUME NEW t \in TabForm, NEW u, Alike(u, t), u.calls = t.calls
  PROVE  Follows(u, t)
<1>1. Awaits(u, t)
  BY DEF Alike, Awaits
<1>. QED
  BY <1>1 DEF Follows, Changes, ReadsRow, Alike

LEMMA TabAsked ==
  ASSUME NEW p \in Project, NEW kind \in CallKinds, NEW arg \in Int \cup {None},
         NEW then \in Awaiting, then \in Buttons => kind \in Detail!RowReads
  PROVE  LET c == Detail!Asked(p, kind, arg, then) IN
         /\ c \in TabCall /\ c.project = p /\ c.kind = kind /\ c.then = then
         /\ c.fresh /\ c.owner /\ c.here
<1>. DEFINE c == Detail!Asked(p, kind, arg, then)
<1>1. c = [project |-> p, kind |-> kind, arg |-> arg, then |-> then, fresh |-> TRUE,
           owner |-> TRUE, here |-> TRUE, code |-> "NONE", row |-> None]
  BY DEF Detail!Asked
<1>. HIDE DEF c
<1>2. c \in TabCallForm
  BY <1>1 DEF TabCallForm, Answers
<1>. QED
  BY <1>1, <1>2 DEF TabCall, c

LEMMA TabSends ==
  ASSUME NEW t \in TabForm, NEW kind \in CallKinds, NEW arg \in Int \cup {None},
         NEW then \in Awaiting, then \in Buttons => kind \in Detail!RowReads
  PROVE  LET u == Detail!Send(t, kind, arg, then) IN
         /\ Follows(u, t) /\ Alike(u, t)
         /\ kind \in Detail!RowReads => ReadsRow(u)
         /\ \E c \in u.calls : c.here /\ c.fresh /\ c.owner /\ c.kind = kind /\ c.then = then
<1>. DEFINE a == Detail!Asked(t.route, kind, arg, then)
            T == t.calls \cup {a}
            u == Detail!Send(t, kind, arg, then)
<1>1. t.route \in Project
  BY DEF TabForm
<1>2. /\ a \in TabCall /\ a.project = t.route /\ a.kind = kind /\ a.then = then
      /\ a.fresh /\ a.owner /\ a.here
  BY <1>1, TabAsked
<1>3. u = [t EXCEPT !.calls = T]
  BY DEF Detail!Send
<1>. HIDE DEF a
<1>4. /\ T \in SUBSET TabCall /\ a \in T
      /\ \A d \in T : d = a \/ d \in t.calls
      /\ \A c \in t.calls : c \in T
  BY <1>2 DEF TabForm
<1>. HIDE DEF T, u
<1>5. Alike(u, t) /\ u.calls = T
  BY <1>3, <1>4 DEF TabForm, Alike
<1>6. Follows(u, t)
  <2>1. Changes(u, t)
    BY <1>2, <1>4, <1>5 DEF Changes, Alike
  <2>2. Awaits(u, t)
    BY <1>4, <1>5 DEF Awaits, Alike, Restores, AsksCandidates
  <2>. QED
    BY <1>4, <1>5, <2>1, <2>2 DEF Follows, Alike, ReadsRow
<1>. QED
  BY <1>2, <1>4, <1>5, <1>6 DEF ReadsRow, u

\* Disowning, a new generation and a remount change no more of a call than this.
Marks(T, S) ==
  /\ T \in SUBSET TabCall
  /\ \A d \in T : \E c \in S : d.fresh => c.fresh /\ d.project = c.project
  /\ \A c \in S : \E d \in T :
       /\ d.kind = c.kind /\ d.here = c.here
       /\ c.then = "TRANSITION" => d.then = "TRANSITION"

LEMMA DisownedMarks ==
  ASSUME NEW S \in SUBSET TabCall, NEW kinds
  PROVE  /\ Marks(Detail!Disowned(S, kinds), S)
         /\ \A c \in S : c.kind \notin kinds => c \in Detail!Disowned(S, kinds)
         /\ Restores(S) => Restores(Detail!Disowned(S, kinds))
<1>. DEFINE old(c) == [c EXCEPT !.owner = FALSE]
<1>1. ASSUME NEW c \in S
      PROVE  /\ old(c) \in TabCall /\ old(c).fresh = c.fresh /\ old(c).project = c.project
             /\ old(c).kind = c.kind /\ old(c).here = c.here /\ old(c).then = c.then
  <2>1. c \in TabCall /\ c \in TabCallForm
    BY DEF TabCall
  <2>2. /\ old(c) \in TabCallForm /\ old(c).fresh = c.fresh /\ old(c).project = c.project
        /\ old(c).kind = c.kind /\ old(c).here = c.here /\ old(c).then = c.then
        /\ old(c).code = c.code /\ old(c).row = c.row
    BY <2>1 DEF TabCallForm
  <2>. HIDE DEF old
  <2>. QED
    BY <2>1, <2>2 DEF TabCall
<1>2. Detail!Disowned(S, kinds) = {IF c.kind \in kinds THEN old(c) ELSE c : c \in S}
  BY DEF Detail!Disowned
<1>. HIDE DEF old
<1>3. Restores(S) => Restores(Detail!Disowned(S, kinds))
  BY <1>1, <1>2 DEF Restores
<1>. QED
  BY <1>1, <1>2, <1>3 DEF Marks

LEMMA StaleMarks ==
  ASSUME NEW S \in SUBSET TabCall
  PROVE  Marks({[c EXCEPT !.fresh = FALSE] : c \in S}, S)
<1>. DEFINE old(c) == [c EXCEPT !.fresh = FALSE]
<1>1. ASSUME NEW c \in S
      PROVE  /\ old(c) \in TabCall /\ ~old(c).fresh
             /\ old(c).kind = c.kind /\ old(c).here = c.here /\ old(c).then = c.then
  <2>1. c \in TabCall /\ c \in TabCallForm
    BY DEF TabCall
  <2>2. /\ old(c) \in TabCallForm /\ ~old(c).fresh
        /\ old(c).kind = c.kind /\ old(c).here = c.here /\ old(c).then = c.then
        /\ old(c).code = c.code /\ old(c).row = c.row
    BY <2>1 DEF TabCallForm
  <2>. HIDE DEF old
  <2>. QED
    BY <2>1, <2>2 DEF TabCall
<1>. HIDE DEF old
<1>2. Marks({old(c) : c \in S}, S)
  BY <1>1 DEF Marks
<1>. QED
  BY <1>2 DEF old

LEMMA TabMarked ==
  ASSUME NEW t \in TabForm, NEW u \in TabForm, u.route = t.route, u.shown = t.shown,
         u.correction => t.correction, u.transitioning => t.transitioning,
         Marks(u.calls, t.calls)
  PROVE  Changes(u, t)
BY DEF Changes, Marks

LEMMA FreshPanelForm ==
  ASSUME NEW t \in TabForm
  PROVE  Alike(Detail!FreshPanel(t), t) /\ Detail!FreshPanel(t).calls = t.calls
<1>. DEFINE u == Detail!FreshPanel(t)
            o == IF t.shown = None THEN None ELSE t.shown.revision
<1>1. o \in Int \cup {None}
  BY DEF TabForm, Shown
<1>2. u = [t EXCEPT !.observed = o]
  BY DEF Detail!FreshPanel
<1>. HIDE DEF o, u
<1>3. Alike(u, t) /\ u.calls = t.calls
  BY <1>1, <1>2 DEF TabForm, Alike
<1>. QED
  BY <1>3 DEF u

LEMMA TabRemounts ==
  ASSUME NEW t \in TabForm
  PROVE  Follows(Detail!Remounted(t), t) /\ Alike(Detail!Remounted(t), t)
<1>. DEFINE old(c) == IF c.then \in Widget \cup {"PANEL"} THEN [c EXCEPT !.then = "NONE"]
                      ELSE c
            f == Detail!FreshPanel(t)
            T == {old(c) : c \in f.calls}
            u == Detail!Remounted(t)
<1>1. Alike(f, t) /\ f.calls = t.calls
  BY FreshPanelForm
<1>2. ASSUME NEW c \in t.calls
      PROVE  /\ old(c) \in TabCall /\ old(c).fresh = c.fresh /\ old(c).project = c.project
             /\ old(c).kind = c.kind /\ old(c).here = c.here /\ old(c).owner = c.owner
             /\ c.then \in Buttons => old(c).then = c.then
  <2>. DEFINE d == [c EXCEPT !.then = "NONE"]
  <2>1. c \in TabCall /\ c \in TabCallForm
    BY DEF TabForm, TabCall
  <2>2. /\ d \in TabCallForm /\ d.fresh = c.fresh /\ d.project = c.project
        /\ d.kind = c.kind /\ d.here = c.here /\ d.then = "NONE"
        /\ d.code = c.code /\ d.row = c.row /\ d.owner = c.owner
    BY <2>1 DEF TabCallForm, Awaiting
  <2>. HIDE DEF d
  <2>3. d \in TabCall
    BY <2>1, <2>2 DEF TabCall, Buttons
  <2>4. Buttons \cap (Widget \cup {"PANEL"}) = {}
    BY PagesConstants DEF Buttons
  <2>. QED
    BY <2>1, <2>2, <2>3, <2>4 DEF d
<1>3. u = [f EXCEPT !.calls = T]
  BY DEF Detail!Remounted
<1>. HIDE DEF old, f
<1>4. /\ T \in SUBSET TabCall
      /\ \A d \in T : \E c \in t.calls :
           d.fresh = c.fresh /\ d.project = c.project
      /\ \A c \in t.calls : \E d \in T :
           /\ d.kind = c.kind /\ d.here = c.here /\ d.fresh = c.fresh /\ d.owner = c.owner
           /\ c.then \in Buttons => d.then = c.then
  BY <1>1, <1>2
<1>. HIDE DEF T, u
<1>5. Alike(u, t) /\ u.calls = T
  BY <1>1, <1>3, <1>4 DEF TabForm, Alike
<1>6. Changes(u, t)
  BY <1>4, <1>5 DEF Changes, Alike, Buttons
<1>7. Restores(t.calls) => Restores(T)
  BY <1>4 DEF Restores, Buttons
<1>8. AsksCandidates(t.calls) => AsksCandidates(T)
  BY <1>4 DEF AsksCandidates
<1>9. Awaits(u, t)
  BY <1>5, <1>7, <1>8 DEF Awaits, Alike
<1>10. ReadsRow(t) => ReadsRow(u)
  BY <1>4, <1>5 DEF ReadsRow
<1>. QED
  BY <1>5, <1>6, <1>9, <1>10 DEF Follows, Alike, u

LEMMA TabStops ==
  ASSUME NEW t \in TabForm
  PROVE  LET u == Detail!StopCorrection(t) IN
         Follows(u, t) /\ ~u.correction /\ u.candidates = "idle"
<1>. DEFINE T == Detail!Disowned(t.calls, {"CANDIDATES"})
            w == [t EXCEPT !.correction = FALSE, !.candidates = "idle", !.calls = T]
            u == Detail!StopCorrection(t)
<1>1. t.calls \in SUBSET TabCall
  BY DEF TabForm
<1>2. /\ Marks(T, t.calls) /\ \A c \in t.calls : c.kind \notin {"CANDIDATES"} => c \in T
      /\ Restores(t.calls) => Restores(T)
  BY <1>1, DisownedMarks
<1>3. u \in {w, Detail!Remounted(w)}
  BY DEF Detail!StopCorrection
<1>. HIDE DEF T, u
<1>. DEFINE v == [t EXCEPT !.correction = FALSE, !.candidates = "idle"]
<1>4. /\ v \in TabForm /\ v.route = t.route /\ v.shown = t.shown
      /\ ~v.correction /\ v.transitioning = t.transitioning
      /\ v.project = t.project /\ v.restoring = t.restoring /\ v.candidates = "idle"
  BY DEF TabForm
<1>5. w = [v EXCEPT !.calls = T]
  OBVIOUS
<1>. HIDE DEF v, w
<1>6. /\ w \in TabForm /\ w.route = t.route /\ w.shown = t.shown
      /\ ~w.correction /\ w.transitioning = t.transitioning
      /\ w.project = t.project /\ w.calls = T
      /\ w.restoring = t.restoring /\ w.candidates = "idle"
  BY <1>2, <1>4, <1>5 DEF TabForm, Marks
<1>7. Changes(w, t)
  BY <1>2, <1>6, TabMarked
<1>8. "CANDIDATES" \notin Detail!RowReads
  BY DEF Detail!RowReads
<1>9. Follows(w, t)
  <2>1. Awaits(w, t)
    BY <1>2, <1>6 DEF Awaits
  <2>. QED
    BY <1>2, <1>6, <1>7, <1>8, <2>1 DEF Follows, ReadsRow
<1>10. /\ Follows(Detail!Remounted(w), w) /\ Detail!Remounted(w).correction = w.correction
       /\ Detail!Remounted(w).candidates = w.candidates
  BY <1>6, TabRemounts DEF Alike
<1>11. Follows(Detail!Remounted(w), t)
  BY <1>9, <1>10, FollowsTwice
<1>. QED
  BY <1>3, <1>6, <1>9, <1>10, <1>11 DEF u

\* A reload of the row is awaited, by whom it was made for.
LEMMA TabReloads ==
  ASSUME NEW t \in TabForm, NEW kind \in Detail!RowReads, NEW then \in Awaiting
  PROVE  LET u == Detail!LoadProject(t, kind, then) IN
         /\ Follows(u, t) /\ ReadsRow(u) /\ u.correction = t.correction
         /\ \E c \in u.calls : c.here /\ c.fresh /\ c.then = then
<1>. DEFINE T == Detail!Disowned(t.calls, Detail!RowReads)
            w == [t EXCEPT !.project = "loading", !.calls = T]
            u == Detail!LoadProject(t, kind, then)
<1>1. t.calls \in SUBSET TabCall
  BY DEF TabForm
<1>2. /\ Marks(T, t.calls)
      /\ \A c \in t.calls : c.kind \notin Detail!RowReads => c \in T
      /\ Restores(t.calls) => Restores(T)
  BY <1>1, DisownedMarks
<1>3. u = Detail!Send(w, kind, 0, then)
  BY DEF Detail!LoadProject
<1>. HIDE DEF T, u
<1>4. /\ w \in TabForm /\ w.route = t.route /\ w.shown = t.shown
      /\ w.correction = t.correction /\ w.transitioning = t.transitioning
      /\ w.restoring = t.restoring /\ w.candidates = t.candidates /\ w.calls = T
  BY <1>2 DEF TabForm, Marks
<1>. HIDE DEF w
<1>5. Changes(w, t)
  BY <1>2, <1>4, TabMarked
<1>6. kind \in CallKinds /\ 0 \in Int \cup {None}
  BY DEF CallKinds
<1>7. /\ Follows(u, w) /\ u.correction = w.correction
      /\ ReadsRow(u) /\ \E c \in u.calls : c.here /\ c.fresh /\ c.kind = kind /\ c.then = then
  <2>1. LET v == Detail!Send(w, kind, 0, then) IN
        /\ Follows(v, w) /\ Alike(v, w)
        /\ kind \in Detail!RowReads => ReadsRow(v)
        /\ \E c \in v.calls : c.here /\ c.fresh /\ c.owner /\ c.kind = kind /\ c.then = then
    BY <1>4, <1>6, TabSends
  <2>2. /\ Follows(u, w) /\ Alike(u, w) /\ ReadsRow(u)
        /\ \E c \in u.calls : c.here /\ c.fresh /\ c.owner /\ c.kind = kind /\ c.then = then
    BY <1>3, <2>1
  <2>. QED
    BY <2>2 DEF Alike
<1>8. Awaits(w, t)
  <2>1. AsksCandidates(t.calls) => AsksCandidates(T)
    BY <1>2 DEF AsksCandidates, Detail!RowReads
  <2>. QED
    BY <1>2, <1>4, <2>1 DEF Awaits
<1>9. Changes(u, t) /\ Awaits(u, t)
  BY <1>5, <1>7, <1>8, ChangesTwice, AwaitsTwice DEF Follows
<1>. QED
  BY <1>4, <1>7, <1>9 DEF Follows, u

LEMMA TabLoads ==
  ASSUME NEW t \in TabForm, NEW kind \in Detail!RowReads, NEW then \in Awaiting
  PROVE  LET u == Detail!Load(t, kind, then) IN
         /\ Follows(u, t) /\ ReadsRow(u) /\ u.correction = t.correction
         /\ \E c \in u.calls : c.here /\ c.fresh /\ c.then = then
<1>. DEFINE T == {[c EXCEPT !.fresh = FALSE] : c \in t.calls}
            r == Detail!Abandoned(t.restoring)
            k == Detail!Abandoned(t.candidates)
            w == Detail!NewGeneration(t)
            u == Detail!Load(t, kind, then)
<1>1. Marks(T, t.calls)
  BY StaleMarks DEF TabForm
<1>2. w = [t EXCEPT !.calls = T, !.restoring = r, !.candidates = k]
  BY DEF Detail!NewGeneration
<1>3. u = Detail!LoadProject(w, kind, then)
  BY DEF Detail!Load
<1>4. /\ r \in {"no", "waits", "left"} /\ r # "waits"
      /\ k \in {"loading", "idle", "failed", "left"} /\ k # "loading"
  BY DEF TabForm, Detail!Abandoned
<1>. HIDE DEF T, w, u, r, k
<1>5. /\ w \in TabForm /\ w.route = t.route /\ w.shown = t.shown
      /\ w.correction = t.correction /\ w.transitioning = t.transitioning
      /\ w.restoring # "waits" /\ w.candidates # "loading" /\ w.calls = T
  <2>. DEFINE a == [t EXCEPT !.calls = T]
              b == [a EXCEPT !.restoring = r]
  <2>1. w = [b EXCEPT !.candidates = k]
    BY <1>2
  <2>2. /\ a \in TabForm /\ a.route = t.route /\ a.shown = t.shown
        /\ a.correction = t.correction /\ a.transitioning = t.transitioning /\ a.calls = T
    BY <1>1 DEF TabForm, Marks
  <2>. HIDE DEF a
  <2>3. /\ b \in TabForm /\ b.route = a.route /\ b.shown = a.shown /\ b.restoring = r
        /\ b.correction = a.correction /\ b.transitioning = a.transitioning /\ b.calls = T
    BY <1>4, <2>2 DEF TabForm
  <2>. HIDE DEF b
  <2>. QED
    BY <1>4, <2>1, <2>2, <2>3 DEF TabForm
<1>6. Changes(w, t)
  BY <1>1, <1>5, TabMarked
<1>7. Awaits(w, t)
  BY <1>5 DEF Awaits
<1>8. /\ Follows(u, w) /\ ReadsRow(u) /\ u.correction = w.correction
      /\ \E c \in u.calls : c.here /\ c.fresh /\ c.then = then
  BY <1>3, <1>5, TabReloads
<1>9. Changes(u, t) /\ Awaits(u, t)
  BY <1>6, <1>7, <1>8, ChangesTwice, AwaitsTwice DEF Follows
<1>. QED
  BY <1>5, <1>8, <1>9 DEF Follows, u

LEMMA TabAsksCandidates ==
  ASSUME NEW t \in TabForm, t.correction
  PROVE  Follows(Detail!LoadCandidates(t), t)
<1>. DEFINE T == Detail!Disowned(t.calls, {"CANDIDATES"})
            w == [t EXCEPT !.candidates = "loading", !.calls = T]
            u == Detail!LoadCandidates(t)
<1>1. t.calls \in SUBSET TabCall
  BY DEF TabForm
<1>2. /\ Marks(T, t.calls) /\ \A c \in t.calls : c.kind \notin {"CANDIDATES"} => c \in T
      /\ Restores(t.calls) => Restores(T)
  BY <1>1, DisownedMarks
<1>3. u = Detail!Send(w, "CANDIDATES", 0, "NONE")
  BY DEF Detail!LoadCandidates
<1>. HIDE DEF T, u
<1>4. /\ w \in TabForm /\ w.route = t.route /\ w.shown = t.shown
      /\ w.correction = t.correction /\ w.transitioning = t.transitioning
      /\ w.project = t.project /\ w.restoring = t.restoring /\ w.calls = T
  BY <1>2 DEF TabForm, Marks
<1>. HIDE DEF w
<1>5. Changes(w, t)
  BY <1>2, <1>4, TabMarked
<1>6. ReadsRow(t) => ReadsRow(w)
  BY <1>2, <1>4 DEF ReadsRow, Detail!RowReads
<1>7. /\ "CANDIDATES" \in CallKinds /\ 0 \in Int \cup {None} /\ "NONE" \in Awaiting
      /\ "NONE" \notin Buttons
  BY DEF CallKinds, Awaiting, Buttons
<1>8. /\ Follows(u, w) /\ Alike(u, w)
      /\ \E c \in u.calls : c.fresh /\ c.owner /\ c.kind = "CANDIDATES"
  BY <1>3, <1>4, <1>7, TabSends
<1>9. Changes(u, t)
  BY <1>5, <1>8, ChangesTwice DEF Follows
<1>10. Awaits(u, t)
  BY <1>2, <1>4, <1>8 DEF Awaits, Alike, Follows, AsksCandidates
<1>. QED
  BY <1>4, <1>6, <1>8, <1>9, <1>10 DEF Follows, u

LEMMA TabAfterChild ==
  ASSUME NEW t \in TabForm, NEW w \in Awaiting
  PROVE  Follows(Detail!AfterChild(t, w), t)
<1>. DEFINE u == Detail!Load(t, "PROJECT", w)
<1>1. "PROJECT" \in Detail!RowReads
  BY DEF Detail!RowReads
<1>2. Follows(u, t) /\ u.correction = t.correction
  BY <1>1, TabLoads
<1>3. Detail!AfterChild(t, w) = IF t.correction THEN Detail!LoadCandidates(u) ELSE u
  BY DEF Detail!AfterChild
<1>. HIDE DEF u
<1>4. t.correction => Follows(Detail!LoadCandidates(u), u)
  BY <1>2, TabAsksCandidates DEF Follows, Changes
<1>5. t.correction => Follows(Detail!LoadCandidates(u), t)
  BY <1>2, <1>4, FollowsTwice
<1>. QED
  BY <1>2, <1>3, <1>5

\* The row of an answer on the page; where it ends a correction, the roster and the
\* panel start anew.
LEMMA TabShows ==
  ASSUME NEW t \in TabForm, NEW c \in TabCall, c.row \in ServerRow
  PROVE  \E w \in TabForm :
         /\ w.route = t.route /\ w.project = t.project
         /\ w.correction = t.correction /\ w.transitioning = t.transitioning
         /\ w.restoring = t.restoring /\ w.candidates = t.candidates
         /\ w.calls = t.calls
         /\ w.shown # None /\ w.shown.project = c.project
         /\ w.shown.deleted = c.row.deleted
         /\ Follows(Detail!Shows(t, c), w)
<1>. DEFINE s == [project |-> c.project, revision |-> c.row.revision,
                  closed |-> c.row.closed, deleted |-> c.row.deleted]
            w == [t EXCEPT !.shown = s]
<1>1. s \in Shown /\ s.project = c.project /\ s.deleted = c.row.deleted
  BY DEF Shown, ServerRow, TabCall, TabCallForm
<1>2. s # None
  BY <1>1, PagesConstants DEF Shown
<1>3. Detail!Shows(t, c) \in {w, Detail!FreshPanel(w), Detail!Remounted(w)}
  BY DEF Detail!Shows
<1>. HIDE DEF s
<1>4. /\ w \in TabForm /\ w.route = t.route /\ w.project = t.project
      /\ w.correction = t.correction /\ w.transitioning = t.transitioning
      /\ w.restoring = t.restoring /\ w.candidates = t.candidates
      /\ w.calls = t.calls /\ w.shown = s
  BY <1>1 DEF TabForm
<1>. HIDE DEF w
<1>5. Follows(w, w)
  BY <1>4, FollowsSame DEF Alike
<1>6. Follows(Detail!FreshPanel(w), w)
  BY <1>4, FreshPanelForm, FollowsSame
<1>7. Follows(Detail!Remounted(w), w)
  BY <1>4, TabRemounts
<1>. QED
  BY <1>1, <1>2, <1>3, <1>4, <1>5, <1>6, <1>7

\* A page that starts anew loads its row; what was under way is no longer its own.
LEMMA TabStarts ==
  ASSUME NEW w \in TabForm, w.shown = None, ~w.correction, ~w.transitioning,
         w.restoring # "waits", w.candidates # "loading", \A c \in w.calls : ~c.fresh
  PROVE  TabSound(Detail!Load(w, "PROJECT", "NONE"))
<1>. DEFINE u == Detail!Load(w, "PROJECT", "NONE")
<1>1. "PROJECT" \in Detail!RowReads /\ "NONE" \in Awaiting
  BY DEF Detail!RowReads, Awaiting
<1>2. Follows(u, w) /\ ReadsRow(u)
  BY <1>1, TabLoads
<1>. HIDE DEF u
<1>3. /\ OfRoute(w) /\ CorrectsShown(w)
      /\ TransitionAwaited(w) /\ RestoreAwaited(w) /\ CandidatesAwaited(w)
  BY DEF OfRoute, CorrectsShown, TransitionAwaited, RestoreAwaited, CandidatesAwaited
<1>4. /\ OfRoute(u) /\ CorrectsShown(u)
      /\ TransitionAwaited(u) /\ RestoreAwaited(u) /\ CandidatesAwaited(u)
  BY <1>2, <1>3, FollowsSound
<1>5. RowAwaited(u)
  BY <1>2 DEF RowAwaited
<1>. QED
  BY <1>4, <1>5 DEF TabSound, u

LEMMA FieldsForm ==
  ASSUME NEW p \in Project, NEW withDeleted \in BOOLEAN
  PROVE  LET f == Detail!Fields(p, withDeleted) IN
         /\ f \in TabForm /\ f.shown = None /\ ~f.correction /\ ~f.transitioning
         /\ f.restoring = "no" /\ f.candidates = "idle" /\ f.calls = {}
BY DEF Detail!Fields, TabForm

LEMMA TabOpens ==
  ASSUME NEW p \in Project, NEW withDeleted \in BOOLEAN, NEW n \in Int,
         NEW S \in SUBSET TabCall, \A c \in S : ~c.fresh
  PROVE  TabSound(Detail!Load([Detail!Fields(p, withDeleted) EXCEPT
                                 !.calls = S, !.clicks = n], "PROJECT", "NONE"))
<1>. DEFINE f == Detail!Fields(p, withDeleted)
            w == [f EXCEPT !.calls = S, !.clicks = n]
<1>1. /\ f \in TabForm /\ f.shown = None /\ ~f.correction /\ ~f.transitioning
      /\ f.restoring = "no" /\ f.candidates = "idle"
  BY FieldsForm
<1>. HIDE DEF f
<1>2. /\ w \in TabForm /\ w.shown = None /\ ~w.correction
      /\ ~w.transitioning /\ w.restoring = "no" /\ w.candidates = "idle" /\ w.calls = S
  BY <1>1 DEF TabForm
<1>. HIDE DEF w
<1>3. TabSound(Detail!Load(w, "PROJECT", "NONE"))
  BY <1>2, TabStarts
<1>. QED
  BY <1>3 DEF w, f

LEMMA TabNavigates ==
  ASSUME NEW t \in TabForm, NEW p \in Project, NEW withDeleted \in BOOLEAN,
         ~(t.route = p /\ t.withDeleted = withDeleted)
  PROVE  TabSound(Detail!Navigate(t, p, withDeleted))
<1>. DEFINE S == Detail!Remounted(t).calls
            old(c) == [c EXCEPT !.fresh = FALSE, !.owner = FALSE, !.here = FALSE]
            left == {old(c) : c \in S}
            n == t.clicks
<1>1. S \in SUBSET TabCall /\ n \in Int
  BY TabRemounts DEF Follows, Changes, TabForm
<1>. HIDE DEF S
<1>2. ASSUME NEW c \in S
      PROVE  old(c) \in TabCall /\ ~old(c).fresh
  <2>. DEFINE half == [c EXCEPT !.fresh = FALSE, !.owner = FALSE]
              d == [half EXCEPT !.here = FALSE]
  <2>1. c \in TabCall /\ c \in TabCallForm
    BY <1>1 DEF TabCall
  <2>2. old(c) = d
    OBVIOUS
  <2>3. /\ half \in TabCallForm /\ ~half.fresh /\ half.kind = c.kind /\ half.then = c.then
        /\ half.code = c.code /\ half.row = c.row
    BY <2>1 DEF TabCallForm
  <2>. HIDE DEF half, old
  <2>4. /\ d \in TabCallForm /\ ~d.fresh /\ d.kind = c.kind /\ d.then = c.then
        /\ d.code = c.code /\ d.row = c.row
    BY <2>3 DEF TabCallForm
  <2>. HIDE DEF d
  <2>. QED
    BY <2>1, <2>2, <2>4 DEF TabCall
<1>3. left \in SUBSET TabCall /\ \A c \in left : ~c.fresh
  <2>. HIDE DEF old
  <2>. QED
    BY <1>2
<1>4. Detail!Navigate(t, p, withDeleted) =
        Detail!Load([Detail!Fields(p, withDeleted) EXCEPT !.calls = left, !.clicks = n],
                    "PROJECT", "NONE")
  BY DEF Detail!Navigate, S
<1>. HIDE DEF left, n
<1>. QED
  BY <1>1, <1>3, <1>4, TabOpens

LEMMA DetailStarts == Detail!Init => DetailInv
<1>. SUFFICES ASSUME Detail!Init PROVE DetailInv
  OBVIOUS
<1>1. projects \in [Project -> ServerRow]
  BY DEF Detail!Init, ServerRow
<1>2. PICK p \in Project, withDeleted \in BOOLEAN :
        tab = Detail!Load(Detail!Fields(p, withDeleted), "PROJECT", "NONE")
  BY DEF Detail!Init
<1>3. TabSound(tab)
  BY <1>2, FieldsForm, TabStarts
<1>. QED
  BY <1>1, <1>3 DEF DetailInv

\* What the user does to the page besides counts his clicks.
LEMMA TabClicks ==
  ASSUME NEW t, TabSound(t), NEW n \in Int
  PROVE  TabSound([t EXCEPT !.clicks = n])
<1>. DEFINE u == [t EXCEPT !.clicks = n]
<1>1. t \in TabForm
  BY DEF TabSound, OfRoute
<1>2. Alike(u, t) /\ u.calls = t.calls
  BY <1>1 DEF TabForm, Alike
<1>. HIDE DEF u
<1>3. Follows(u, t)
  BY <1>1, <1>2, FollowsSame
<1>. QED
  BY <1>3, FollowsSound DEF TabSound, u

LEMMA TabDoes ==
  ASSUME tab \in TabForm, NEW t, TabSound(t), Detail!Does(t)
  PROVE  TabSound(tab')
<1>. DEFINE n == tab.clicks + 1
<1>1. n \in Int
  BY DEF TabForm
<1>2. tab' = [t EXCEPT !.clicks = n]
  BY DEF Detail!Does
<1>. HIDE DEF n
<1>. QED
  BY <1>1, <1>2, TabClicks

LEMMA SoundFollows ==
  ASSUME NEW t, NEW u, TabSound(t), Follows(u, t)
  PROVE  TabSound(u) /\ u \in TabForm
BY FollowsSound DEF TabSound, OfRoute

-----------------------------------------------------------------------------
(* What the user does to the page of a project.                               *)

LEMMA DetailTab ==
  DetailInv => TabSound(tab) /\ OfRoute(tab) /\ tab \in TabForm /\ tab.route \in Project
BY DEF DetailInv, TabSound, OfRoute, TabForm

LEMMA DetailDoes ==
  ASSUME DetailInv, NEW t, TabSound(t), Detail!Does(t)
  PROVE  DetailInv'
<1>1. TabSound(tab')
  BY DetailTab, TabDoes
<1>2. TabSound(tab)'
  BY <1>1 DEF TabSound, OfRoute, CorrectsShown, RowAwaited, ReadsRow, TransitionAwaited,
              RestoreAwaited, Restores, CandidatesAwaited, AsksCandidates
<1>3. projects' = projects
  BY DEF Detail!Does
<1>. QED
  BY <1>2, <1>3 DEF DetailInv

LEMMA DetailMoves ==
  ASSUME DetailInv,
         \/ \E p \in Project, withDeleted \in BOOLEAN : Detail!Open(p, withDeleted)
         \/ Detail!RetryProject
  PROVE  DetailInv'
<1>1. CASE Detail!RetryProject
  <2>1. "PROJECT" \in Detail!RowReads /\ "NONE" \in Awaiting
    BY DEF Detail!RowReads, Awaiting
  <2>2. TabSound(Detail!LoadProject(tab, "PROJECT", "NONE"))
    BY <2>1, DetailTab, TabReloads, SoundFollows
  <2>. QED
    BY <1>1, <2>2, DetailDoes DEF Detail!RetryProject
<1>2. ASSUME NEW p \in Project, NEW withDeleted \in BOOLEAN, Detail!Open(p, withDeleted)
      PROVE  DetailInv'
  <2>1. ~(tab.route = p /\ tab.withDeleted = withDeleted)
    BY <1>2 DEF Detail!Open
  <2>2. TabSound(Detail!Navigate(tab, p, withDeleted))
    BY <2>1, DetailTab, TabNavigates
  <2>. QED
    BY <1>2, <2>2, DetailDoes DEF Detail!Open
<1>. QED
  BY <1>1, <1>2

\* A correction starts on a row that is shown and not deleted.
LEMMA CorrectionStarts ==
  ASSUME NEW t, TabSound(t), t.shown # None, ~t.shown.deleted
  PROVE  LET u == [t EXCEPT !.correction = TRUE] IN TabSound(u) /\ u.correction
<1>. PICK yes \in BOOLEAN : yes = TRUE
  OBVIOUS
<1>. DEFINE u == [t EXCEPT !.correction = yes]
<1>1. t \in TabForm
  BY DEF TabSound, OfRoute
<1>2. /\ u \in TabForm /\ u.route = t.route /\ u.shown = t.shown
      /\ u.transitioning = t.transitioning /\ u.correction
      /\ u.project = t.project /\ u.calls = t.calls
      /\ u.restoring = t.restoring /\ u.candidates = t.candidates
  BY <1>1 DEF TabForm
<1>. HIDE DEF u
<1>3. OfRoute(u) /\ CorrectsShown(u)
  BY <1>2 DEF TabSound, OfRoute, CorrectsShown
<1>4. RowAwaited(u) /\ TransitionAwaited(u)
  BY <1>2 DEF TabSound, RowAwaited, ReadsRow, TransitionAwaited
<1>5. RestoreAwaited(u) /\ CandidatesAwaited(u)
  BY <1>2 DEF TabSound, RestoreAwaited, CandidatesAwaited
<1>. QED
  BY <1>2, <1>3, <1>4, <1>5 DEF TabSound, u

LEMMA DetailCorrects ==
  ASSUME DetailInv,
         \/ Detail!StartHistoryCorrection
         \/ Detail!RetryCorrectionCandidates
         \/ Detail!LeaveHistoryCorrection
  PROVE  DetailInv'
<1>1. CASE Detail!StartHistoryCorrection
  <2>. DEFINE t == [tab EXCEPT !.correction = TRUE]
              u == Detail!Remounted(t)
              v == Detail!LoadCandidates(u)
  <2>1. tab.shown # None /\ ~tab.shown.deleted /\ Detail!Does(v)
    BY <1>1 DEF Detail!StartHistoryCorrection, Detail!Displayed
  <2>2. TabSound(t) /\ t.correction
    BY <2>1, DetailTab, CorrectionStarts
  <2>. HIDE DEF t
  <2>3. TabSound(u) /\ u \in TabForm /\ u.correction
    BY <2>2, TabRemounts, SoundFollows DEF TabSound, OfRoute, Alike
  <2>. HIDE DEF u
  <2>4. TabSound(v)
    BY <2>3, TabAsksCandidates, SoundFollows
  <2>. QED
    BY <2>1, <2>4, DetailDoes
<1>2. CASE Detail!RetryCorrectionCandidates
  <2>1. TabSound(Detail!LoadCandidates(tab))
    BY <1>2, DetailTab, TabAsksCandidates, SoundFollows
       DEF Detail!RetryCorrectionCandidates, Detail!CorrectionActive
  <2>. QED
    BY <1>2, <2>1, DetailDoes DEF Detail!RetryCorrectionCandidates
<1>3. CASE Detail!LeaveHistoryCorrection
  <2>1. TabSound(Detail!StopCorrection(tab))
    BY DetailTab, TabStops, SoundFollows
  <2>. QED
    BY <1>3, <2>1, DetailDoes DEF Detail!LeaveHistoryCorrection
<1>. QED
  BY <1>1, <1>2, <1>3

LEMMA TabDialog ==
  ASSUME NEW t, TabSound(t), NEW kind \in {"none", "edit", "delete", "transition"}
  PROVE  TabSound([t EXCEPT !.dialog = kind])
<1>. DEFINE u == [t EXCEPT !.dialog = kind]
<1>1. t \in TabForm
  BY DEF TabSound, OfRoute
<1>2. Alike(u, t) /\ u.calls = t.calls
  BY <1>1 DEF TabForm, Alike
<1>. HIDE DEF u
<1>. QED
  BY <1>1, <1>2, FollowsSame, SoundFollows DEF u

LEMMA DialogMoves ==
  ASSUME DetailInv, NEW kind \in {"none", "edit", "delete", "transition"},
         tab' = [tab EXCEPT !.dialog = kind], UNCHANGED projects
  PROVE  DetailInv'
<1>1. TabSound(tab')
  BY DetailTab, TabDialog
<1>2. TabSound(tab)'
  BY <1>1 DEF TabSound, OfRoute, CorrectsShown, RowAwaited, ReadsRow, TransitionAwaited,
              RestoreAwaited, Restores, CandidatesAwaited, AsksCandidates
<1>. QED
  BY <1>2 DEF DetailInv

\* The wait of a restore is over, whatever was said of it.
LEMMA RestoreOver ==
  ASSUME NEW t, OfRoute(t), CorrectsShown(t),
         RowAwaited(t), TransitionAwaited(t), CandidatesAwaited(t)
  PROVE  LET u == [t EXCEPT !.restoring = "no"] IN TabSound(u) /\ u.restoring = "no"
<1>. DEFINE u == [t EXCEPT !.restoring = "no"]
<1>1. t \in TabForm
  BY DEF OfRoute
<1>2. /\ u \in TabForm /\ u.route = t.route /\ u.shown = t.shown
      /\ u.correction = t.correction /\ u.transitioning = t.transitioning
      /\ u.project = t.project /\ u.calls = t.calls
      /\ u.restoring = "no" /\ u.candidates = t.candidates
  BY <1>1 DEF TabForm
<1>. HIDE DEF u
<1>3. OfRoute(u) /\ CorrectsShown(u)
  BY <1>2 DEF OfRoute, CorrectsShown
<1>4. RowAwaited(u) /\ TransitionAwaited(u) /\ CandidatesAwaited(u)
  BY <1>2 DEF RowAwaited, ReadsRow, TransitionAwaited, CandidatesAwaited
<1>5. RestoreAwaited(u)
  BY <1>2 DEF RestoreAwaited
<1>. QED
  BY <1>2, <1>3, <1>4, <1>5 DEF TabSound, u

\* And it waits for the request it sends.
LEMMA TabRestores ==
  ASSUME NEW t, TabSound(t), NEW n \in Int
  PROVE  TabSound(Detail!Send([t EXCEPT !.restoring = "waits"], "RESTORE", n, "NONE"))
<1>. DEFINE w == [t EXCEPT !.restoring = "waits"]
            u == Detail!Send(w, "RESTORE", n, "NONE")
<1>1. t \in TabForm
  BY DEF TabSound, OfRoute
<1>2. /\ w \in TabForm /\ w.route = t.route /\ w.shown = t.shown
      /\ w.correction = t.correction /\ w.transitioning = t.transitioning
      /\ w.project = t.project /\ w.calls = t.calls /\ w.candidates = t.candidates
  BY <1>1 DEF TabForm
<1>. HIDE DEF w
<1>3. OfRoute(w) /\ CorrectsShown(w)
  BY <1>2 DEF TabSound, OfRoute, CorrectsShown
<1>4. RowAwaited(w) /\ TransitionAwaited(w) /\ CandidatesAwaited(w)
  BY <1>2 DEF TabSound, RowAwaited, ReadsRow, TransitionAwaited, CandidatesAwaited
<1>5. "RESTORE" \in CallKinds /\ "NONE" \in Awaiting /\ "NONE" \notin Buttons
  BY DEF CallKinds, Awaiting, Buttons
<1>6. Follows(u, w) /\ \E c \in u.calls : c.fresh /\ c.kind = "RESTORE"
  BY <1>2, <1>5, TabSends
<1>. HIDE DEF u
<1>7. RestoreAwaited(u)
  BY <1>6 DEF RestoreAwaited, Restores
<1>8. TabSound(u)
  BY <1>3, <1>4, <1>6, <1>7, FollowsSound DEF TabSound
<1>. QED
  BY <1>8 DEF u, w

\* A transition waits for the request it sends.
LEMMA TabTransits ==
  ASSUME NEW t, TabSound(t), NEW n \in Int
  PROVE  TabSound(Detail!Send([t EXCEPT !.transitioning = TRUE], "TRANSITION", n, "NONE"))
<1>. PICK yes \in BOOLEAN : yes = TRUE
  OBVIOUS
<1>. DEFINE w == [t EXCEPT !.transitioning = yes]
            u == Detail!Send(w, "TRANSITION", n, "NONE")
<1>1. t \in TabForm
  BY DEF TabSound, OfRoute
<1>2. /\ w \in TabForm /\ w.route = t.route /\ w.shown = t.shown
      /\ w.correction = t.correction
      /\ w.project = t.project /\ w.calls = t.calls
      /\ w.restoring = t.restoring /\ w.candidates = t.candidates
  BY <1>1 DEF TabForm
<1>. HIDE DEF w
<1>3. /\ OfRoute(w) /\ CorrectsShown(w) /\ RowAwaited(w)
      /\ RestoreAwaited(w) /\ CandidatesAwaited(w)
  <2>1. OfRoute(w) /\ CorrectsShown(w)
    BY <1>2 DEF TabSound, OfRoute, CorrectsShown
  <2>2. RowAwaited(w) /\ RestoreAwaited(w) /\ CandidatesAwaited(w)
    BY <1>2 DEF TabSound, RowAwaited, ReadsRow, RestoreAwaited, CandidatesAwaited
  <2>. QED
    BY <2>1, <2>2
<1>4. "TRANSITION" \in CallKinds /\ "NONE" \in Awaiting /\ "NONE" \notin Buttons
  BY DEF CallKinds, Awaiting, Buttons
<1>5. Follows(u, w) /\ \E c \in u.calls : c.here /\ c.kind = "TRANSITION"
  BY <1>2, <1>4, TabSends
<1>. HIDE DEF u
<1>6. TransitionAwaited(u)
  BY <1>5 DEF TransitionAwaited
<1>7. TabSound(u)
  BY <1>3, <1>5, <1>6, FollowsSound DEF TabSound
<1>. QED
  BY <1>7 DEF u, w

LEMMA ShownRevision ==
  ASSUME NEW t \in TabForm, t.shown # None
  PROVE  t.shown.revision \in Int
BY DEF TabForm, Shown

LEMMA DetailEdits ==
  ASSUME DetailInv,
         \/ \E kind \in {"edit", "delete", "transition"} : Detail!OpenDialog(kind)
         \/ Detail!CloseDialog
         \/ Detail!UpdateProject
         \/ Detail!DeleteProject
         \/ Detail!TransitionProject
         \/ Detail!RestoreProject
  PROVE  DetailInv'
<1>. DEFINE n == tab.shown.revision
<1>1. tab.shown # None => n \in Int
  BY DetailTab, ShownRevision
<1>2. /\ {"EDIT", "DELETE"} \subseteq CallKinds
      /\ "NONE" \in Awaiting /\ "NONE" \notin Buttons
  BY DEF CallKinds, Awaiting, Buttons
<1>3. ASSUME NEW kind \in {"edit", "delete", "transition"}, Detail!OpenDialog(kind)
      PROVE  DetailInv'
  BY <1>3, DialogMoves DEF Detail!OpenDialog
<1>4. CASE Detail!CloseDialog
  BY <1>4, DialogMoves DEF Detail!CloseDialog
<1>5. CASE Detail!UpdateProject
  <2>1. tab.shown # None /\ Detail!Does(Detail!Send(tab, "EDIT", n, "NONE"))
    BY <1>5 DEF Detail!UpdateProject, Detail!Displayed
  <2>2. TabSound(Detail!Send(tab, "EDIT", n, "NONE"))
    BY <1>1, <1>2, <2>1, DetailTab, TabSends, SoundFollows
  <2>. QED
    BY <2>1, <2>2, DetailDoes
<1>6. CASE Detail!DeleteProject
  <2>1. tab.shown # None /\ Detail!Does(Detail!Send(tab, "DELETE", n, "NONE"))
    BY <1>6 DEF Detail!DeleteProject, Detail!Displayed
  <2>2. TabSound(Detail!Send(tab, "DELETE", n, "NONE"))
    BY <1>1, <1>2, <2>1, DetailTab, TabSends, SoundFollows
  <2>. QED
    BY <2>1, <2>2, DetailDoes
<1>7. CASE Detail!TransitionProject
  <2>1. tab.shown # None
        /\ Detail!Does(Detail!Send([tab EXCEPT !.transitioning = TRUE], "TRANSITION", n, "NONE"))
    BY <1>7 DEF Detail!TransitionProject, Detail!Displayed
  <2>2. TabSound(Detail!Send([tab EXCEPT !.transitioning = TRUE], "TRANSITION", n, "NONE"))
    BY <1>1, <2>1, DetailTab, TabTransits
  <2>. QED
    BY <2>1, <2>2, DetailDoes
<1>8. CASE Detail!RestoreProject
  <2>1. tab.shown # None
        /\ Detail!Does(Detail!Send([tab EXCEPT !.restoring = "waits"], "RESTORE", n, "NONE"))
    BY <1>8 DEF Detail!RestoreProject, Detail!Displayed
  <2>2. TabSound(Detail!Send([tab EXCEPT !.restoring = "waits"], "RESTORE", n, "NONE"))
    BY <1>1, <2>1, DetailTab, TabRestores
  <2>. QED
    BY <2>1, <2>2, DetailDoes
<1>. QED
  BY <1>3, <1>4, <1>5, <1>6, <1>7, <1>8

LEMMA DetailChildren ==
  ASSUME DetailInv,
         (\E w \in Widget : Detail!ChangeRoster(w)) \/ Detail!ChangeOrganizations
  PROVE  DetailInv'
<1>1. Detail!ChildKind \in CallKinds
  BY DEF Detail!ChildKind, CallKinds
<1>2. /\ Widget \cap Buttons = {} /\ Widget \subseteq Awaiting
      /\ "PANEL" \notin Buttons /\ "PANEL" \in Awaiting
  BY PagesConstants DEF Awaiting, Buttons
<1>3. ASSUME NEW w, NEW t \in Detail!Children(w)
      PROVE  TabSound(t) /\ t \in TabForm /\ t.shown = tab.shown
  <2>1. t = tab \/ t = Detail!Remounted(tab)
    BY DEF Detail!Children
  <2>2. Follows(Detail!Remounted(tab), tab)
    BY DetailTab, TabRemounts
  <2>. QED
    BY <2>1, <2>2, DetailTab, SoundFollows DEF Follows, Changes
<1>4. ASSUME NEW w \in Widget, Detail!ChangeRoster(w)
      PROVE  DetailInv'
  <2>1. PICK t \in Detail!Children(w) :
          Detail!Does(Detail!Send(t, Detail!ChildKind, t.shown.revision, w))
    BY <1>4 DEF Detail!ChangeRoster
  <2>2. tab.shown # None
    BY <1>4 DEF Detail!ChangeRoster, Detail!Editable, Detail!Displayed
  <2>3. TabSound(t) /\ t \in TabForm /\ t.shown.revision \in Int
    BY <1>3, <2>2, ShownRevision
  <2>4. TabSound(Detail!Send(t, Detail!ChildKind, t.shown.revision, w))
    BY <1>1, <1>2, <2>3, TabSends, SoundFollows
  <2>. QED
    BY <2>1, <2>4, DetailDoes
<1>5. CASE Detail!ChangeOrganizations
  <2>1. PICK t \in Detail!Children("PANEL") :
          Detail!Does(Detail!Send(t, Detail!ChildKind, t.observed, "PANEL"))
    BY <1>5 DEF Detail!ChangeOrganizations
  <2>2. TabSound(t) /\ t \in TabForm /\ t.observed \in Int \cup {None}
    BY <1>3 DEF TabForm
  <2>3. Follows(Detail!Send(t, Detail!ChildKind, t.observed, "PANEL"), t)
    BY <1>1, <1>2, <2>2, TabSends
  <2>4. TabSound(Detail!Send(t, Detail!ChildKind, t.observed, "PANEL"))
    BY <2>2, <2>3, SoundFollows
  <2>. QED
    BY <2>1, <2>4, DetailDoes
<1>. QED
  BY <1>4, <1>5

-----------------------------------------------------------------------------
(* What the server makes of the requests of the page of a project.            *)

LEMMA TabAnswered ==
  ASSUME NEW t, TabSound(t), NEW c \in t.calls, NEW code \in Answers,
         NEW row \in ServerRow \cup {None},
         code = "OK" => row \in ServerRow,
         code = "OK" /\ c.kind = "EDIT" => ~row.deleted
  PROVE  TabSound([t EXCEPT !.calls =
                     (@ \ {c}) \cup {[c EXCEPT !.code = code, !.row = row]}])
<1>. DEFINE a == [c EXCEPT !.code = code, !.row = row]
            T == (t.calls \ {c}) \cup {a}
            u == [t EXCEPT !.calls = T]
<1>1. t \in TabForm /\ c \in TabCall /\ c \in TabCallForm /\ t.calls \in SUBSET TabCall
  BY DEF TabSound, OfRoute, TabForm, TabCall
<1>2. a \in TabCall /\ a.project = c.project /\ a.kind = c.kind /\ a.then = c.then
      /\ a.fresh = c.fresh /\ a.owner = c.owner /\ a.here = c.here
  <2>. DEFINE half == [c EXCEPT !.code = code]
              d == [half EXCEPT !.row = row]
  <2>1. a = d
    OBVIOUS
  <2>2. /\ half \in TabCallForm /\ half.project = c.project /\ half.kind = c.kind
        /\ half.then = c.then /\ half.fresh = c.fresh /\ half.owner = c.owner
        /\ half.here = c.here /\ half.code = code
    BY <1>1 DEF TabCallForm
  <2>. HIDE DEF half, a
  <2>3. /\ d \in TabCallForm /\ d.project = c.project /\ d.kind = c.kind
        /\ d.then = c.then /\ d.fresh = c.fresh /\ d.owner = c.owner
        /\ d.here = c.here /\ d.code = code /\ d.row = row
    BY <2>2 DEF TabCallForm
  <2>. HIDE DEF d
  <2>. QED
    BY <1>1, <2>1, <2>3 DEF TabCall
<1>. HIDE DEF a
<1>3. /\ T \in SUBSET TabCall
      /\ \A d \in T : d = a \/ d \in t.calls
      /\ \A d \in t.calls : d # c => d \in T
      /\ a \in T
  BY <1>1, <1>2
<1>. HIDE DEF T
<1>4. /\ u \in TabForm /\ u.route = t.route /\ u.shown = t.shown
      /\ u.correction = t.correction /\ u.transitioning = t.transitioning
      /\ u.restoring = t.restoring /\ u.candidates = t.candidates
      /\ u.project = t.project /\ u.calls = T
  BY <1>1, <1>3 DEF TabForm
<1>. HIDE DEF u
<1>5. Follows(u, t)
  <2>1. Changes(u, t)
    BY <1>1, <1>2, <1>3, <1>4 DEF Changes
  <2>2. Restores(t.calls) => Restores(T)
    BY <1>2, <1>3 DEF Restores
  <2>3. AsksCandidates(t.calls) => AsksCandidates(T)
    BY <1>2, <1>3 DEF AsksCandidates
  <2>4. Awaits(u, t)
    BY <1>4, <2>2, <2>3 DEF Awaits
  <2>. QED
    BY <1>2, <1>3, <1>4, <2>1, <2>4 DEF Follows, ReadsRow
<1>6. TabSound(u)
  BY <1>5, SoundFollows
<1>. QED
  BY <1>6 DEF u, T, a

LEMMA DetailLoses ==
  ASSUME DetailInv, NEW c \in tab.calls, Detail!Lose(c)
  PROVE  DetailInv'
<1>1. "FAILED" \in Answers /\ "FAILED" # "OK" /\ None \in ServerRow \cup {None}
  BY DEF Answers
<1>2. TabSound(tab')
  BY <1>1, DetailTab, TabAnswered DEF Detail!Lose, Detail!Answer
<1>3. TabSound(tab)'
  BY <1>2 DEF TabSound, OfRoute, CorrectsShown, RowAwaited, ReadsRow, TransitionAwaited,
              RestoreAwaited, Restores, CandidatesAwaited, AsksCandidates
<1>. QED
  BY <1>3 DEF DetailInv, Detail!Lose

LEMMA DetailRefuses ==
  ASSUME DetailInv, NEW c \in tab.calls, Detail!RefuseClosed(c)
  PROVE  DetailInv'
<1>1. PICK row \in Detail!ByOthers(projects[c.project]) :
        projects' = [projects EXCEPT ![c.project] = row]
  BY DEF Detail!RefuseClosed
<1>2. row \in ServerRow
  <2>1. projects[c.project] \in ServerRow
    BY DetailTab DEF DetailInv, TabForm, TabCall, TabCallForm
  <2>. QED
    BY <1>1, <2>1 DEF Detail!ByOthers, Detail!Row, ServerRow
<1>3. projects' \in [Project -> ServerRow]
  BY <1>1, <1>2 DEF DetailInv
<1>4. /\ "PROJECT_CLOSED" \in Answers /\ "PROJECT_CLOSED" # "OK"
      /\ None \in ServerRow \cup {None}
  BY DEF Answers
<1>5. TabSound(tab')
  BY <1>4, DetailTab, TabAnswered DEF Detail!RefuseClosed, Detail!Answer
<1>. QED
  BY <1>3, <1>5
    DEF DetailInv, TabSound, OfRoute, CorrectsShown, RowAwaited, ReadsRow, TransitionAwaited,
        RestoreAwaited, Restores, CandidatesAwaited, AsksCandidates

LEMMA DetailCode ==
  ASSUME NEW row, NEW c
  PROVE  Detail!Code(row, c) \in Answers
<1>1. Detail!Expecting(row, c) \in Answers
  BY DEF Detail!Expecting, Answers
<1>2. Detail!StateCode(row, c) \in Answers
  BY <1>1 DEF Detail!StateCode, Answers
<1>. QED
  BY <1>1, <1>2 DEF Detail!Code, Answers

LEMMA DetailServes ==
  ASSUME DetailInv, NEW c \in tab.calls, Detail!Serve(c)
  PROVE  DetailInv'
<1>. DEFINE rows(row) == IF Detail!Code(row, c) = "OK" /\ c.kind \notin Detail!Reads
                         THEN Detail!Changed(row, c.kind) ELSE row
<1>1. PICK row \in Detail!ByOthers(projects[c.project]) :
        LET code == Detail!Code(row, c)
            applies == code = "OK" /\ c.kind \notin Detail!Reads
        IN /\ rows(row) \in Detail!Row
           /\ projects' = [projects EXCEPT ![c.project] = rows(row)]
           /\ \/ tab' = Detail!Answer(c, code, IF code = "OK" THEN rows(row) ELSE None)
              \/ applies /\ tab' = Detail!Answer(c, "FAILED", None)
  BY DEF Detail!Serve
<1>. DEFINE code == Detail!Code(row, c)
            after == rows(row)
            shows == IF code = "OK" THEN after ELSE None
<1>2. after \in ServerRow
  BY <1>1 DEF Detail!Row, ServerRow
<1>3. /\ code \in Answers /\ shows \in ServerRow \cup {None}
      /\ code = "OK" => shows \in ServerRow
  BY <1>2, DetailCode
<1>4. ASSUME code = "OK", c.kind = "EDIT"
      PROVE  ~shows.deleted
  <2>1. c.kind \notin Detail!Reads
    BY <1>4 DEF Detail!Reads, Detail!RowReads
  <2>2. shows = Detail!Changed(row, "EDIT")
    BY <1>4, <2>1
  <2>3. projects[c.project] \in ServerRow
    BY DetailTab DEF DetailInv, TabForm, TabCall, TabCallForm
  <2>4. row \in ServerRow
    BY <1>1, <2>3 DEF Detail!ByOthers, Detail!Row, ServerRow
  <2>. QED
    BY <2>2, <2>4 DEF Detail!Changed, ServerRow
<1>5. projects' \in [Project -> ServerRow]
  BY <1>1, <1>2 DEF DetailInv
<1>. HIDE DEF rows, code, shows
<1>6. \/ tab' = Detail!Answer(c, code, shows)
      \/ tab' = Detail!Answer(c, "FAILED", None)
  BY <1>1 DEF code, shows
<1>7. CASE tab' = Detail!Answer(c, code, shows)
  <2>1. TabSound(tab')
    <3>1. code = "OK" /\ c.kind = "EDIT" => ~shows.deleted
      BY <1>4
    <3>2. TabSound(Detail!Answer(c, code, shows))
      BY <1>3, <3>1, DetailTab, TabAnswered DEF Detail!Answer
    <3>. QED
      BY <1>7, <3>2
  <2>. QED
    BY <1>5, <2>1
      DEF DetailInv, TabSound, OfRoute, CorrectsShown, RowAwaited, ReadsRow,
          TransitionAwaited, RestoreAwaited, Restores, CandidatesAwaited, AsksCandidates
<1>8. CASE tab' = Detail!Answer(c, "FAILED", None)
  <2>1. "FAILED" \in Answers /\ "FAILED" # "OK" /\ None \in ServerRow \cup {None}
    BY DEF Answers
  <2>2. TabSound(tab')
    BY <1>8, <2>1, DetailTab, TabAnswered DEF Detail!Answer
  <2>. QED
    BY <1>5, <2>2
      DEF DetailInv, TabSound, OfRoute, CorrectsShown, RowAwaited, ReadsRow,
          TransitionAwaited, RestoreAwaited, Restores, CandidatesAwaited, AsksCandidates
<1>. QED
  BY <1>6, <1>7, <1>8

-----------------------------------------------------------------------------
(* What the answers make of the page of a project.                            *)

\* The page without the request whose answer it gets: what that one kept awaited is
\* for its handler to settle.
Left(t, c) ==
  /\ c \in TabCall
  /\ c.fresh => c.project = t.route
  /\ OfRoute(t) /\ CorrectsShown(t)
  /\ ~(c.kind \in Detail!RowReads /\ c.fresh /\ c.owner) => RowAwaited(t)
  /\ ~(c.here /\ "TRANSITION" \in {c.kind, c.then}) => TransitionAwaited(t)
  /\ ~(c.fresh /\ "RESTORE" \in {c.kind, c.then}) => RestoreAwaited(t)
  /\ ~(c.kind = "CANDIDATES" /\ c.fresh /\ c.owner) => CandidatesAwaited(t)

\* The same of a read of the row that has been answered.
ReadLeft(t, c) ==
  /\ ~(c.here /\ c.then = "TRANSITION") => TransitionAwaited(t)
  /\ ~(c.fresh /\ c.then = "RESTORE") => RestoreAwaited(t)
  /\ CandidatesAwaited(t)

LEMMA TabLeft ==
  ASSUME NEW t, TabSound(t), NEW c \in t.calls
  PROVE  Left([t EXCEPT !.calls = @ \ {c}], c)
<1>. DEFINE T == t.calls \ {c}
            u == [t EXCEPT !.calls = T]
<1>1. t \in TabForm /\ t.calls \in SUBSET TabCall /\ c \in TabCall
  BY DEF TabSound, OfRoute, TabForm
<1>2. T \in SUBSET TabCall /\ T \subseteq t.calls /\ \A d \in t.calls : d # c => d \in T
  BY <1>1
<1>. HIDE DEF T
<1>3. /\ u \in TabForm /\ u.route = t.route /\ u.shown = t.shown
      /\ u.correction = t.correction /\ u.transitioning = t.transitioning
      /\ u.project = t.project /\ u.calls = T
      /\ u.restoring = t.restoring /\ u.candidates = t.candidates
  BY <1>1, <1>2 DEF TabForm
<1>. HIDE DEF u
<1>4. OfRoute(u) /\ CorrectsShown(u) /\ (c.fresh => c.project = u.route)
  BY <1>2, <1>3 DEF TabSound, OfRoute, CorrectsShown
<1>5. ~(c.kind \in Detail!RowReads /\ c.fresh /\ c.owner) => RowAwaited(u)
  BY <1>2, <1>3 DEF TabSound, RowAwaited, ReadsRow
<1>6. ~(c.here /\ "TRANSITION" \in {c.kind, c.then}) => TransitionAwaited(u)
  BY <1>2, <1>3 DEF TabSound, TransitionAwaited
<1>7. ~(c.fresh /\ "RESTORE" \in {c.kind, c.then}) => RestoreAwaited(u)
  BY <1>2, <1>3 DEF TabSound, RestoreAwaited, Restores
<1>8. ~(c.kind = "CANDIDATES" /\ c.fresh /\ c.owner) => CandidatesAwaited(u)
  BY <1>2, <1>3 DEF TabSound, CandidatesAwaited, AsksCandidates
<1>. QED
  BY <1>1, <1>4, <1>5, <1>6, <1>7, <1>8 DEF Left, u, T

\* An answer that nothing waits for.
LEMMA LeftSound ==
  ASSUME NEW t, NEW c, Left(t, c),
         c.kind \notin Detail!RowReads \cup {"TRANSITION", "RESTORE", "CANDIDATES"}
  PROVE  TabSound(t) /\ t \in TabForm /\ c \in TabCall
BY DEF Left, TabSound, OfRoute, TabCall, Buttons

LEMMA ReadIsLeft ==
  ASSUME NEW t, NEW c, Left(t, c), c.kind \in Detail!RowReads
  PROVE  ReadLeft(t, c)
BY DEF Left, ReadLeft, Detail!RowReads

LEMMA FollowsReadLeft ==
  ASSUME NEW t, NEW u, NEW c, OfRoute(t), ReadLeft(t, c), Follows(u, t)
  PROVE  ReadLeft(u, c)
BY FollowsSound DEF ReadLeft

LEMMA TabSettles ==
  ASSUME NEW t, OfRoute(t), NEW state \in {"idle", "failed"}
  PROVE  LET u == Detail!Settled(t, state) IN
         /\ Follows(u, t) /\ RowAwaited(u) /\ u.shown = t.shown /\ u.correction = t.correction
<1>. DEFINE u == [t EXCEPT !.project = state]
<1>1. t \in TabForm
  BY DEF OfRoute
<1>2. /\ u \in TabForm /\ u.route = t.route /\ u.shown = t.shown
      /\ u.correction = t.correction /\ u.transitioning = t.transitioning
      /\ u.restoring = t.restoring /\ u.candidates = t.candidates
      /\ u.project = state /\ u.calls = t.calls
  BY <1>1 DEF TabForm
<1>. HIDE DEF u
<1>3. Follows(u, t) /\ RowAwaited(u)
  BY <1>2 DEF Follows, Changes, Awaits, ReadsRow, RowAwaited, OfRoute
<1>. QED
  BY <1>2, <1>3 DEF Detail!Settled, u

\* Who waits for a transition stops waiting.
LEMMA TabReleases ==
  ASSUME NEW t, OfRoute(t), CorrectsShown(t), RowAwaited(t), RestoreAwaited(t), CandidatesAwaited(t)
  PROVE  TabSound([t EXCEPT !.transitioning = FALSE])
<1>. DEFINE u == [t EXCEPT !.transitioning = FALSE]
<1>1. t \in TabForm
  BY DEF OfRoute
<1>2. /\ u \in TabForm /\ u.route = t.route /\ u.shown = t.shown
      /\ u.correction = t.correction /\ ~u.transitioning
      /\ u.restoring = t.restoring /\ u.candidates = t.candidates
      /\ u.project = t.project /\ u.calls = t.calls
  BY <1>1 DEF TabForm
<1>. HIDE DEF u
<1>3. Follows(u, t) /\ TransitionAwaited(u)
  BY <1>2 DEF Follows, Changes, Awaits, ReadsRow, TransitionAwaited, OfRoute
<1>. QED
  BY <1>3, FollowsSound DEF TabSound, u

LEMMA TabCloses ==
  ASSUME NEW t \in TabForm, NEW kind
  PROVE  LET u == Detail!Closes(t, kind) IN Follows(u, t) /\ Alike(u, t)
<1>. DEFINE d == IF t.dialog = kind THEN "none" ELSE t.dialog
            u == [t EXCEPT !.dialog = d]
<1>1. d \in {"none", "edit", "delete", "transition"}
  BY DEF TabForm
<1>. HIDE DEF d
<1>2. Alike(u, t) /\ u.calls = t.calls
  BY <1>1 DEF TabForm, Alike
<1>3. u = Detail!Closes(t, kind)
  BY DEF Detail!Closes, d
<1>. HIDE DEF u
<1>. QED
  BY <1>2, <1>3, FollowsSame

LEMMA TabContinues ==
  ASSUME NEW t, NEW c, NEW loaded \in BOOLEAN,
         OfRoute(t), CorrectsShown(t), RowAwaited(t), ReadLeft(t, c)
  PROVE  TabSound(Detail!Continued(t, c, loaded))
<1>1. CASE c.then = "TRANSITION" /\ c.here
  <2>1. Detail!Continued(t, c, loaded) = [t EXCEPT !.transitioning = FALSE]
    BY <1>1 DEF Detail!Continued
  <2>. QED
    BY <1>1, <2>1, TabReleases DEF ReadLeft
<1>2. CASE c.then = "RESTORE" /\ c.fresh
  <2>1. Detail!Continued(t, c, loaded) = [t EXCEPT !.restoring = "no"]
    BY <1>2 DEF Detail!Continued, Detail!Fresh
  <2>. QED
    BY <1>2, <2>1, RestoreOver DEF ReadLeft
<1>3. CASE ~(c.then = "TRANSITION" /\ c.here) /\ ~(c.then = "RESTORE" /\ c.fresh)
  <2>1. TabSound(t)
    BY <1>3 DEF TabSound, ReadLeft
  <2>2. \/ Detail!Continued(t, c, loaded) = Detail!Closes(t, c.then)
        \/ Detail!Continued(t, c, loaded) = t
    BY <1>3 DEF Detail!Continued, Detail!Fresh
  <2>3. TabSound(Detail!Closes(t, c.then))
    BY <2>1, TabCloses, SoundFollows DEF OfRoute
  <2>. QED
    BY <2>1, <2>2, <2>3
<1>. QED
  BY <1>1, <1>2, <1>3

LEMMA RowShownSound ==
  ASSUME NEW t, NEW c, Left(t, c), c.kind \in Detail!RowReads, Detail!Owns(c), c.code = "OK"
  PROVE  TabSound(Detail!RowShown(t, c))
<1>. DEFINE s == Detail!Shows(t, c)
            u == Detail!Settled(s, "idle")
            v == IF c.kind = "FALLBACK" \/ c.row.deleted \/ ~c.row.closed
                 THEN Detail!StopCorrection(u) ELSE u
<1>1. /\ c \in TabCall /\ c.row \in ServerRow /\ t \in TabForm /\ OfRoute(t)
      /\ c.project = t.route
  BY DEF Left, OfRoute, TabCall, Detail!Owns
<1>2. ReadLeft(t, c)
  BY ReadIsLeft
<1>3. PICK w \in TabForm :
        /\ w.route = t.route /\ w.correction = t.correction
        /\ w.transitioning = t.transitioning /\ w.calls = t.calls
        /\ w.restoring = t.restoring /\ w.candidates = t.candidates
        /\ w.shown # None /\ w.shown.project = c.project
        /\ w.shown.deleted = c.row.deleted
        /\ Follows(s, w)
  BY <1>1, TabShows
<1>. HIDE DEF s
<1>4. OfRoute(s) /\ ReadLeft(s, c)
  <2>1. OfRoute(w)
    BY <1>1, <1>3 DEF OfRoute
  <2>2. ReadLeft(w, c)
    BY <1>2, <1>3
      DEF ReadLeft, TransitionAwaited, RestoreAwaited, CandidatesAwaited
  <2>. QED
    BY <1>3, <2>1, <2>2, FollowsSound, FollowsReadLeft
<1>5. Follows(u, s) /\ RowAwaited(u) /\ u.shown = s.shown /\ u \in TabForm
  BY <1>4, TabSettles DEF Follows, Changes
<1>. HIDE DEF u
<1>6. OfRoute(u) /\ ReadLeft(u, c)
  BY <1>4, <1>5, FollowsSound, FollowsReadLeft
<1>7. Follows(Detail!StopCorrection(u), u) /\ ~Detail!StopCorrection(u).correction
  BY <1>5, TabStops
<1>8. OfRoute(v) /\ RowAwaited(v) /\ CorrectsShown(v) /\ ReadLeft(v, c)
  <2>1. CASE c.kind = "FALLBACK" \/ c.row.deleted \/ ~c.row.closed
    <3>1. v = Detail!StopCorrection(u)
      BY <2>1
    <3>2. OfRoute(v) /\ RowAwaited(v) /\ ReadLeft(v, c)
      BY <1>5, <1>6, <1>7, <3>1, FollowsSound, FollowsReadLeft
    <3>. QED
      BY <1>7, <3>1, <3>2 DEF CorrectsShown
  <2>2. CASE ~(c.kind = "FALLBACK" \/ c.row.deleted \/ ~c.row.closed)
    <3>1. u.shown # None /\ ~u.shown.deleted
      BY <1>3, <1>5, <2>2 DEF Follows, Changes
    <3>. QED
      BY <1>5, <1>6, <2>2, <3>1 DEF CorrectsShown
  <2>. QED
    BY <2>1, <2>2
<1>9. Detail!RowShown(t, c) = Detail!Continued(v, c, TRUE)
  BY DEF Detail!RowShown, u, s
<1>. HIDE DEF v
<1>. QED
  BY <1>8, <1>9, TabContinues

LEMMA RowAnswerSound ==
  ASSUME NEW t, NEW c, Left(t, c), c.kind \in Detail!RowReads
  PROVE  TabSound(Detail!RowAnswer(t, c))
<1>1. /\ c \in TabCall /\ t \in TabForm /\ OfRoute(t) /\ CorrectsShown(t)
      /\ ReadLeft(t, c)
  BY ReadIsLeft DEF Left, OfRoute
<1>2. CASE ~Detail!Owns(c)
  <2>1. RowAwaited(t)
    BY <1>2 DEF Left, Detail!Owns
  <2>2. TabSound(Detail!Continued(t, c, FALSE))
    BY <1>1, <2>1, TabContinues
  <2>. QED
    BY <1>2, <2>2 DEF Detail!RowAnswer
<1>3. CASE Detail!Owns(c) /\ c.code = "OK"
  BY <1>3, RowShownSound DEF Detail!RowAnswer
<1>4. CASE /\ Detail!Owns(c) /\ c.code = "NOT_FOUND" /\ ~t.withDeleted
           /\ c.kind = "OR_DELETED" \/ t.correction
  <2>. DEFINE u == Detail!Send(t, "FALLBACK", 0, c.then)
  <2>1. Detail!RowAnswer(t, c) = u
    BY <1>4 DEF Detail!RowAnswer
  <2>2. /\ "FALLBACK" \in Detail!RowReads /\ "FALLBACK" \in CallKinds
        /\ 0 \in Int \cup {None} /\ c.then \in Awaiting
    BY <1>1 DEF Detail!RowReads, CallKinds, TabCall, TabCallForm
  <2>3. /\ Follows(u, t) /\ ReadsRow(u)
        /\ \E d \in u.calls : d.here /\ d.fresh /\ d.then = c.then
    BY <1>1, <2>2, TabSends
  <2>. HIDE DEF u
  <2>4. OfRoute(u) /\ CorrectsShown(u) /\ RowAwaited(u)
    BY <1>1, <2>3, FollowsSound DEF RowAwaited
  <2>5. ReadLeft(u, c)
    BY <1>1, <2>3, FollowsReadLeft
  <2>6. c.then = "TRANSITION" => TransitionAwaited(u)
    BY <2>3 DEF TransitionAwaited
  <2>7. c.then = "RESTORE" => RestoreAwaited(u)
    BY <2>3 DEF RestoreAwaited, Restores
  <2>8. TransitionAwaited(u) /\ RestoreAwaited(u) /\ CandidatesAwaited(u)
    BY <2>5, <2>6, <2>7 DEF ReadLeft
  <2>. QED
    BY <2>1, <2>4, <2>8 DEF TabSound
<1>5. CASE /\ Detail!Owns(c) /\ c.code # "OK"
           /\ ~(/\ c.code = "NOT_FOUND" /\ ~t.withDeleted
                /\ c.kind = "OR_DELETED" \/ t.correction)
  <2>. DEFINE u == Detail!Settled(t, "failed")
  <2>1. Detail!RowAnswer(t, c) = Detail!Continued(u, c, FALSE)
    BY <1>5 DEF Detail!RowAnswer
  <2>2. Follows(u, t) /\ RowAwaited(u)
    BY <1>1, TabSettles
  <2>. HIDE DEF u
  <2>3. OfRoute(u) /\ CorrectsShown(u) /\ ReadLeft(u, c)
    BY <1>1, <2>2, FollowsSound, FollowsReadLeft
  <2>. QED
    BY <2>1, <2>2, <2>3, TabContinues
<1>. QED
  BY <1>2, <1>3, <1>4, <1>5

\* The candidates are there or are not, whatever was said of them.
LEMMA CandidatesOver ==
  ASSUME NEW t, OfRoute(t), CorrectsShown(t),
         RowAwaited(t), TransitionAwaited(t), RestoreAwaited(t), NEW state \in {"idle", "failed"}
  PROVE  TabSound([t EXCEPT !.candidates = state])
<1>. DEFINE u == [t EXCEPT !.candidates = state]
<1>1. t \in TabForm
  BY DEF OfRoute
<1>2. /\ u \in TabForm /\ u.route = t.route /\ u.shown = t.shown
      /\ u.correction = t.correction /\ u.transitioning = t.transitioning
      /\ u.project = t.project /\ u.calls = t.calls
      /\ u.restoring = t.restoring /\ u.candidates # "loading"
  BY <1>1 DEF TabForm
<1>. HIDE DEF u
<1>3. OfRoute(u) /\ CorrectsShown(u)
  BY <1>2 DEF OfRoute, CorrectsShown
<1>4. RowAwaited(u) /\ TransitionAwaited(u) /\ RestoreAwaited(u)
  BY <1>2 DEF RowAwaited, ReadsRow, TransitionAwaited, RestoreAwaited
<1>5. CandidatesAwaited(u)
  BY <1>2 DEF CandidatesAwaited
<1>. QED
  BY <1>3, <1>4, <1>5 DEF TabSound, u

LEMMA CandidatesAnswerSound ==
  ASSUME NEW t, NEW c, Left(t, c), c.kind = "CANDIDATES"
  PROVE  TabSound(Detail!CandidatesAnswer(t, c))
<1>. DEFINE kind == IF c.code = "NOT_FOUND" THEN "OR_DELETED" ELSE "PROJECT"
            u == Detail!StopCorrection(t)
            v == Detail!Load(u, kind, "NONE")
<1>1. /\ OfRoute(t) /\ CorrectsShown(t) /\ t \in TabForm
      /\ RowAwaited(t) /\ TransitionAwaited(t) /\ RestoreAwaited(t)
  <2>1. c.kind \notin Detail!RowReads /\ "TRANSITION" \notin {c.kind, c.then}
        /\ "RESTORE" \notin {c.kind, c.then}
    BY DEF Left, TabCall, Buttons, Detail!RowReads
  <2>. QED
    BY <2>1 DEF Left, OfRoute
<1>2. TabSound(u) /\ u \in TabForm
  <2>1. Follows(u, t) /\ u.candidates = "idle"
    BY <1>1, TabStops
  <2>2. /\ OfRoute(u) /\ CorrectsShown(u)
        /\ RowAwaited(u) /\ TransitionAwaited(u) /\ RestoreAwaited(u)
    BY <1>1, <2>1, FollowsSound
  <2>3. CandidatesAwaited(u)
    BY <2>1 DEF CandidatesAwaited
  <2>. QED
    BY <2>2, <2>3 DEF TabSound, OfRoute
<1>3. kind \in Detail!RowReads /\ "NONE" \in Awaiting
  BY DEF Detail!RowReads, Awaiting
<1>4. TabSound(v)
  <2>. HIDE DEF u, kind
  <2>. QED
    BY <1>2, <1>3, TabLoads, SoundFollows
<1>5. ~(Detail!Owns(c) /\ t.correction) => TabSound(t)
  <2>1. ~Detail!Owns(c) => CandidatesAwaited(t)
    BY DEF Left, Detail!Owns
  <2>2. ~t.correction => CandidatesAwaited(t)
    BY <1>1 DEF OfRoute, CandidatesAwaited
  <2>. QED
    BY <1>1, <2>1, <2>2 DEF TabSound
<1>6. \/ ~(Detail!Owns(c) /\ t.correction) /\ Detail!CandidatesAnswer(t, c) = t
      \/ Detail!CandidatesAnswer(t, c) = [t EXCEPT !.candidates = "idle"]
      \/ Detail!CandidatesAnswer(t, c) = [t EXCEPT !.candidates = "failed"]
      \/ Detail!CandidatesAnswer(t, c) = v
  BY DEF Detail!CandidatesAnswer
<1>. HIDE DEF u, v
<1>. QED
  BY <1>1, <1>4, <1>5, <1>6, CandidatesOver

\* A reload for a dialog.
LEMMA TabReloadsFor ==
  ASSUME NEW t, TabSound(t), NEW w \in {"edit", "delete"}
  PROVE  TabSound(Detail!LoadProject(t, "PROJECT", w))
<1>1. t \in TabForm
  BY DEF TabSound, OfRoute
<1>2. "PROJECT" \in Detail!RowReads /\ w \in Awaiting
  BY DEF Detail!RowReads, Awaiting
<1>. QED
  BY <1>1, <1>2, TabReloads, SoundFollows

LEMMA EditAnswerSound ==
  ASSUME NEW t, NEW c, Left(t, c), c.kind = "EDIT"
  PROVE  TabSound(Detail!EditAnswer(t, c))
<1>. DEFINE w == Detail!Closes(t, "edit")
            u == Detail!Shows(w, c)
<1>1. TabSound(t) /\ t \in TabForm /\ c \in TabCall
  BY LeftSound DEF Detail!RowReads
<1>2. Follows(w, t) /\ w.route = t.route
  BY <1>1, TabCloses DEF Alike
<1>3. TabSound(w) /\ w \in TabForm
  BY <1>1, <1>2, SoundFollows
<1>4. ASSUME c.fresh, c.code = "OK"
      PROVE  TabSound(u)
  <2>1. c.row \in ServerRow /\ ~c.row.deleted /\ c.project = t.route
    BY <1>1, <1>4 DEF TabCall, Left
  <2>. HIDE DEF w
  <2>2. PICK x \in TabForm :
          /\ x.route = w.route /\ x.project = w.project
          /\ x.correction = w.correction /\ x.transitioning = w.transitioning
          /\ x.restoring = w.restoring /\ x.candidates = w.candidates
          /\ x.calls = w.calls
          /\ x.shown # None /\ x.shown.project = c.project
          /\ x.shown.deleted = c.row.deleted
          /\ Follows(u, x)
    BY <1>1, <1>3, <2>1, TabShows
  <2>. HIDE DEF u
  <2>3. OfRoute(x) /\ CorrectsShown(x)
    BY <1>2, <1>3, <2>1, <2>2 DEF TabSound, OfRoute, CorrectsShown
  <2>4. RowAwaited(x) /\ TransitionAwaited(x)
    BY <1>3, <2>2 DEF TabSound, RowAwaited, ReadsRow, TransitionAwaited
  <2>5. RestoreAwaited(x) /\ CandidatesAwaited(x)
    BY <1>3, <2>2 DEF TabSound, RestoreAwaited, CandidatesAwaited
  <2>6. TabSound(x)
    BY <2>3, <2>4, <2>5 DEF TabSound
  <2>. QED
    BY <2>2, <2>6, SoundFollows
<1>5. \/ Detail!EditAnswer(t, c) = t
      \/ c.fresh /\ c.code = "OK" /\ Detail!EditAnswer(t, c) = u
      \/ Detail!EditAnswer(t, c) = Detail!LoadProject(t, "PROJECT", "edit")
  BY DEF Detail!EditAnswer, Detail!Fresh
<1>. HIDE DEF u
<1>. QED
  BY <1>1, <1>4, <1>5, TabReloadsFor

LEMMA TransitionAnswerSound ==
  ASSUME NEW t, NEW c, Left(t, c), c.kind = "TRANSITION"
  PROVE  TabSound(Detail!TransitionAnswer(t, c))
<1>. DEFINE u == IF c.fresh THEN Detail!Closes(t, "transition") ELSE t
            v == Detail!TransitionAnswer(t, c)
<1>1. /\ t \in TabForm /\ OfRoute(t) /\ CorrectsShown(t) /\ RowAwaited(t)
      /\ RestoreAwaited(t) /\ CandidatesAwaited(t)
  <2>1. c.kind \notin Detail!RowReads /\ "RESTORE" \notin {c.kind, c.then}
    BY DEF Left, TabCall, Buttons, Detail!RowReads
  <2>. QED
    BY <2>1 DEF Left, OfRoute
<1>2. "PROJECT" \in Detail!RowReads /\ "TRANSITION" \in Awaiting
  BY DEF Detail!RowReads, Awaiting
<1>3. /\ u \in TabForm /\ OfRoute(u) /\ CorrectsShown(u) /\ RowAwaited(u)
      /\ RestoreAwaited(u) /\ CandidatesAwaited(u)
      /\ TransitionAwaited(t) => TransitionAwaited(u)
  <2>1. CASE c.fresh
    <3>1. u = Detail!Closes(t, "transition")
      BY <2>1
    <3>2. Follows(u, t) /\ u \in TabForm
      BY <1>1, <3>1, TabCloses DEF Alike
    <3>. QED
      BY <1>1, <3>2, FollowsSound
  <2>2. CASE ~c.fresh
    <3>1. u = t
      BY <2>2
    <3>. QED
      BY <1>1, <3>1
  <2>. QED
    BY <2>1, <2>2
<1>4. \/ v = Detail!Load(u, "PROJECT", "TRANSITION")
      \/ v = Detail!LoadProject(u, "PROJECT", "TRANSITION")
      \/ v = [u EXCEPT !.transitioning = FALSE]
      \/ ~c.here /\ v = u
  BY DEF Detail!TransitionAnswer, Detail!Fresh
<1>5. ~c.here => TransitionAwaited(t)
  BY DEF Left
<1>. HIDE DEF u
<1>6. ASSUME NEW x, Follows(x, u), \E d \in x.calls : d.here /\ d.then = "TRANSITION"
      PROVE  TabSound(x)
  <2>1. TransitionAwaited(x)
    BY <1>6 DEF TransitionAwaited
  <2>. QED
    BY <1>3, <1>6, <2>1, FollowsSound DEF TabSound
<1>7. TabSound(Detail!Load(u, "PROJECT", "TRANSITION"))
  BY <1>2, <1>3, <1>6, TabLoads
<1>8. TabSound(Detail!LoadProject(u, "PROJECT", "TRANSITION"))
  BY <1>2, <1>3, <1>6, TabReloads
<1>9. TabSound([u EXCEPT !.transitioning = FALSE])
  BY <1>3, TabReleases
<1>10. ~c.here => TabSound(u)
  BY <1>3, <1>5 DEF TabSound
<1>. HIDE DEF v
<1>11. TabSound(v)
  BY <1>4, <1>7, <1>8, <1>9, <1>10
<1>. QED
  BY <1>11 DEF v

LEMMA RestoreAnswerSound ==
  ASSUME NEW t, NEW c, Left(t, c), c.kind = "RESTORE"
  PROVE  TabSound(Detail!RestoreAnswer(t, c))
<1>. DEFINE u == [t EXCEPT !.restoring = "no"]
            v == Detail!Navigate(u, t.route, FALSE)
            w == Detail!LoadProject(t, "PROJECT", "RESTORE")
<1>1. /\ t \in TabForm /\ OfRoute(t) /\ CorrectsShown(t) /\ RowAwaited(t)
      /\ TransitionAwaited(t) /\ CandidatesAwaited(t) /\ t.route \in Project
  <2>1. c.kind \notin Detail!RowReads /\ "TRANSITION" \notin {c.kind, c.then}
    BY DEF Left, TabCall, Buttons, Detail!RowReads
  <2>. QED
    BY <2>1 DEF Left, OfRoute, TabForm
<1>2. TabSound(u) /\ u \in TabForm
  BY <1>1, RestoreOver DEF TabSound, OfRoute
<1>3. ~c.fresh => TabSound(t)
  BY <1>1 DEF Left, TabSound
<1>4. TabSound(w)
  <2>1. "PROJECT" \in Detail!RowReads /\ "RESTORE" \in Awaiting
    BY DEF Detail!RowReads, Awaiting
  <2>2. Follows(w, t) /\ \E d \in w.calls : d.fresh /\ d.then = "RESTORE"
    BY <1>1, <2>1, TabReloads
  <2>3. RestoreAwaited(w)
    BY <2>2 DEF RestoreAwaited, Restores
  <2>. QED
    BY <1>1, <2>2, <2>3, FollowsSound DEF TabSound
<1>. HIDE DEF u
<1>5. TabSound(v)
  <2>1. CASE u.route = t.route /\ u.withDeleted = FALSE
    BY <1>2, <2>1 DEF Detail!Navigate
  <2>2. CASE ~(u.route = t.route /\ u.withDeleted = FALSE)
    BY <1>1, <1>2, <2>2, TabNavigates
  <2>. QED
    BY <2>1, <2>2
<1>6. \/ ~c.fresh /\ Detail!RestoreAnswer(t, c) = t
      \/ Detail!RestoreAnswer(t, c) = v
      \/ Detail!RestoreAnswer(t, c) = w
      \/ Detail!RestoreAnswer(t, c) = u
  BY DEF Detail!RestoreAnswer, Detail!Fresh, u
<1>. HIDE DEF v, w
<1>. QED
  BY <1>2, <1>3, <1>4, <1>5, <1>6

LEMMA TabObserves ==
  ASSUME NEW t, TabSound(t), NEW n \in Int
  PROVE  TabSound([t EXCEPT !.observed = n])
<1>. DEFINE u == [t EXCEPT !.observed = n]
<1>1. t \in TabForm
  BY DEF TabSound, OfRoute
<1>2. Alike(u, t) /\ u.calls = t.calls
  BY <1>1 DEF TabForm, Alike
<1>. HIDE DEF u
<1>. QED
  BY <1>1, <1>2, FollowsSame, SoundFollows DEF u

LEMMA ChildAnswerSound ==
  ASSUME NEW t, NEW c, Left(t, c), c.kind \in {"CORRECTION", "CHILD"}
  PROVE  TabSound(Detail!RosterAnswer(t, c)) /\ TabSound(Detail!OrganizationsAnswer(t, c))
<1>. DEFINE u == IF c.code = "OK" THEN [t EXCEPT !.observed = c.row.revision] ELSE t
<1>1. TabSound(t) /\ c \in TabCall
  BY LeftSound DEF Detail!RowReads
<1>2. c.then \in Awaiting /\ "PANEL" \in Awaiting
  BY <1>1 DEF TabCall, TabCallForm, Awaiting
<1>3. c.code = "OK" => c.row.revision \in Int
  BY <1>1 DEF TabCall, ServerRow
<1>4. TabSound(u)
  BY <1>1, <1>3, TabObserves
<1>5. ASSUME NEW v, TabSound(v), NEW w \in Awaiting
      PROVE  TabSound(Detail!AfterChild(v, w))
  BY <1>5, TabAfterChild, SoundFollows DEF TabSound, OfRoute
<1>6. TabSound(Detail!RosterAnswer(t, c))
  BY <1>1, <1>2, <1>5 DEF Detail!RosterAnswer
<1>7. Detail!OrganizationsAnswer(t, c) \in {u, Detail!AfterChild(u, "PANEL")}
  BY DEF Detail!OrganizationsAnswer
<1>. HIDE DEF u
<1>8. TabSound(Detail!OrganizationsAnswer(t, c))
  BY <1>2, <1>4, <1>5, <1>7
<1>. QED
  BY <1>6, <1>8

LEMMA HandledSound ==
  ASSUME NEW t, NEW c, Left(t, c)
  PROVE  TabSound(Detail!Handled(t, c))
<1>1. c.kind \in CallKinds
  BY DEF Left, TabCall, TabCallForm
<1>2. CASE c.kind \in Detail!RowReads
  <2>1. Detail!Handled(t, c) = Detail!RowAnswer(t, c)
    BY <1>2 DEF Detail!Handled, Detail!RowReads
  <2>. QED
    BY <1>2, <2>1, RowAnswerSound
<1>3. CASE c.kind = "CANDIDATES"
  <2>1. Detail!Handled(t, c) = Detail!CandidatesAnswer(t, c)
    BY <1>3 DEF Detail!Handled, Detail!RowReads
  <2>. QED
    BY <1>3, <2>1, CandidatesAnswerSound
<1>4. CASE c.kind = "EDIT"
  <2>1. Detail!Handled(t, c) = Detail!EditAnswer(t, c)
    BY <1>4 DEF Detail!Handled, Detail!RowReads
  <2>. QED
    BY <1>4, <2>1, EditAnswerSound
<1>5. CASE c.kind = "TRANSITION"
  <2>1. Detail!Handled(t, c) = Detail!TransitionAnswer(t, c)
    BY <1>5 DEF Detail!Handled, Detail!RowReads
  <2>. QED
    BY <1>5, <2>1, TransitionAnswerSound
<1>6. CASE c.kind = "DELETE"
  <2>1. Detail!Handled(t, c) = Detail!DeleteAnswer(t, c)
    BY <1>6 DEF Detail!Handled, Detail!RowReads
  <2>2. TabSound(t)
    BY <1>6, LeftSound DEF Detail!RowReads
  <2>. QED
    BY <2>1, <2>2, TabReloadsFor DEF Detail!DeleteAnswer
<1>7. CASE c.kind = "RESTORE"
  <2>1. Detail!Handled(t, c) = Detail!RestoreAnswer(t, c)
    BY <1>7 DEF Detail!Handled, Detail!RowReads
  <2>. QED
    BY <1>7, <2>1, RestoreAnswerSound
<1>8. CASE c.kind \in {"CORRECTION", "CHILD"}
  <2>1. Detail!Handled(t, c) \in {Detail!RosterAnswer(t, c), Detail!OrganizationsAnswer(t, c)}
    BY <1>8 DEF Detail!Handled, Detail!RowReads
  <2>. QED
    BY <1>8, <2>1, ChildAnswerSound
<1>. QED
  BY <1>1, <1>2, <1>3, <1>4, <1>5, <1>6, <1>7, <1>8 DEF CallKinds

LEMMA DetailReceives ==
  ASSUME DetailInv, NEW c \in tab.calls, Detail!Receive(c)
  PROVE  DetailInv'
<1>. DEFINE t == [tab EXCEPT !.calls = @ \ {c}]
<1>1. tab' = Detail!Handled(t, c) /\ projects' = projects
  BY DEF Detail!Receive
<1>2. Left(t, c)
  BY DetailTab, TabLeft
<1>. HIDE DEF t
<1>3. TabSound(tab')
  BY <1>1, <1>2, HandledSound
<1>. QED
  BY <1>1, <1>3
    DEF DetailInv, TabSound, OfRoute, CorrectsShown, RowAwaited, ReadsRow, TransitionAwaited,
        RestoreAwaited, Restores, CandidatesAwaited, AsksCandidates

LEMMA DetailKeeps == DetailInv /\ [Detail!Next]_<<projects, tab>> => DetailInv'
<1>. SUFFICES ASSUME DetailInv, [Detail!Next]_<<projects, tab>>
              PROVE  DetailInv'
  OBVIOUS
<1>1. CASE UNCHANGED <<projects, tab>>
  BY <1>1 DEF DetailInv, TabSound, OfRoute, CorrectsShown, RowAwaited, ReadsRow,
              TransitionAwaited, RestoreAwaited, Restores, CandidatesAwaited, AsksCandidates
<1>2. CASE \/ \E p \in Project, withDeleted \in BOOLEAN : Detail!Open(p, withDeleted)
           \/ Detail!RetryProject
  BY <1>2, DetailMoves
<1>3. CASE \/ Detail!StartHistoryCorrection
           \/ Detail!RetryCorrectionCandidates
           \/ Detail!LeaveHistoryCorrection
  BY <1>3, DetailCorrects
<1>4. CASE \/ \E kind \in {"edit", "delete", "transition"} : Detail!OpenDialog(kind)
           \/ Detail!CloseDialog
           \/ Detail!UpdateProject
           \/ Detail!DeleteProject
           \/ Detail!TransitionProject
           \/ Detail!RestoreProject
  BY <1>4, DetailEdits
<1>5. CASE (\E w \in Widget : Detail!ChangeRoster(w)) \/ Detail!ChangeOrganizations
  BY <1>5, DetailChildren
<1>6. CASE \E c \in tab.calls :
             \/ /\ c.code = "NONE"
                /\ Detail!Serve(c) \/ Detail!RefuseClosed(c) \/ Detail!Lose(c)
             \/ c.code # "NONE" /\ Detail!Receive(c)
  BY <1>6, DetailServes, DetailRefuses, DetailLoses, DetailReceives
<1>. QED
  BY <1>1, <1>2, <1>3, <1>4, <1>5, <1>6 DEF Detail!Next

LEMMA DetailShows == DetailInv => Detail!WaitsEnd /\ Detail!RowInPlace
<1>. SUFFICES ASSUME DetailInv PROVE Detail!WaitsEnd /\ Detail!RowInPlace
  OBVIOUS
<1>1. Detail!WaitsEnd
  BY DEF DetailInv, TabSound, RowAwaited, ReadsRow, TransitionAwaited, RestoreAwaited,
         Restores, CandidatesAwaited, AsksCandidates, Detail!WaitsEnd, Detail!Fresh,
         Detail!Owns
<1>2. Detail!RowInPlace
  BY DEF DetailInv, TabSound, OfRoute, CorrectsShown, Detail!RowInPlace, Detail!Displayed
<1>. QED
  BY <1>1, <1>2

-----------------------------------------------------------------------------
(* All the pages.                                                             *)

IInv ==
  /\ route \in {"project", "audit", "organization", "import"}
  /\ route = "project" => DetailInv
  /\ route = "audit" => AuditInv
  /\ route = "organization" => OrganizationInv
  /\ route = "import" => WizardInv

LEMMA InitInv == Init => IInv
BY DetailStarts, AuditStarts, OrganizationStarts, WizardStarts DEF Init, IInv

LEMMA StepInv == IInv /\ [Next]_vars => IInv'
<1>. SUFFICES ASSUME IInv, [Next]_vars PROVE IInv'
  OBVIOUS
<1>1. route' = route
  BY DEF Next, vars
<1>2. CASE route = "project"
  <2>1. DetailInv /\ [Detail!Next]_<<projects, tab>>
    BY <1>2 DEF IInv, Next, vars
  <2>2. DetailInv'
    BY <2>1, DetailKeeps
  <2>. QED
    BY <1>1, <1>2, <2>2 DEF IInv
<1>3. CASE route = "audit"
  <2>1. AuditInv /\ [Audit!Next]_<<events, list>>
    BY <1>3 DEF IInv, Next, vars
  <2>2. AuditInv'
    BY <2>1, AuditKeeps
  <2>. QED
    BY <1>1, <1>3, <2>2 DEF IInv
<1>4. CASE route = "organization"
  <2>1. OrganizationInv /\ [Organization!Next]_<<organization, page>>
    BY <1>4 DEF IInv, Next, vars
  <2>2. OrganizationInv'
    BY <2>1, OrganizationKeeps
  <2>. QED
    BY <1>1, <1>4, <2>2 DEF IInv
<1>5. CASE route = "import"
  <2>1. WizardInv /\ [Wizard!Next]_<<imports, wizard>>
    BY <1>5 DEF IInv, Next, vars
  <2>2. WizardInv'
    BY <2>1, WizardKeeps
  <2>. QED
    BY <1>1, <1>5, <2>2 DEF IInv
<1>. QED
  BY <1>2, <1>3, <1>4, <1>5 DEF IInv

\* In every state a mounted page reaches: the page of a project has what it waits for
\* under way and shows a row of its path; the audit list is one run of events and has
\* one read it may trust; the page of an organization settles on a row as new as its
\* own changes; the import has the rows it validated (the handlers of the four pages).
THEOREM InvariantHolds == Spec => []IInv
<1>. QED
  BY InitInv, StepInv, PTL DEF Spec

\* Whatever the order of the answers, the locks, the row, the lists, the searches and the
\* transition of every page wait for a request under way whose answer ends the wait, and
\* the restore and the candidates of a project do until a reload of the same path leaves
\* their flags set (loadProject, transitionProject, restoreProject,
\* loadCorrectionCandidates, loadMoreAudit, loadDetail, the panel's mutate,
\* ImportWizard.tsx).
THEOREM SpinnersWaitForAnswers == Spec => []SpinnersEnd
<1>1. IInv => SpinnersEnd
  BY DetailShows, AuditShows, OrganizationShows, WizardShows DEF IInv, SpinnersEnd
<1>. QED
  BY <1>1, InvariantHolds, PTL

\* The row, the candidates and the projects on a page are those of its path and of its
\* field, however late the answers come (isCurrent before every set).
THEOREM LateAnswersStayOut == Spec => []AnswersInPlace
<1>1. IInv => AnswersInPlace
  BY DetailShows, OrganizationShows, WizardShows DEF IInv, AnswersInPlace
<1>. QED
  BY <1>1, InvariantHolds, PTL

\* The audit log has no gap, no repetition and no event of another project, however
\* reloads and "more" cross (loadMoreAudit).
THEOREM AuditIsOneRun == Spec => []AuditContiguous
<1>1. IInv => AuditContiguous
  BY AuditShows DEF IInv, AuditContiguous
<1>. QED
  BY <1>1, InvariantHolds, PTL

\* A settled page of an organization shows a row at least as new as the user's own last
\* change, a restore excepted (mutateOrganization, the panel's mutate, loadDetail).
THEOREM OwnChangesAppear == Spec => []OwnChangesShown
<1>1. IInv => OwnChangesShown
  BY OrganizationShows DEF IInv, OwnChangesShown
<1>. QED
  BY <1>1, InvariantHolds, PTL

\* The rows an import commits are the ones that were validated, at the source they were
\* validated for (ImportWizard.tsx commit).
THEOREM ValidatedRowsAreCommitted == Spec => []CommittedAsValidated
<1>1. IInv => CommittedAsValidated
  BY WizardShows DEF IInv, CommittedAsValidated
<1>. QED
  BY <1>1, InvariantHolds, PTL
=============================================================================
