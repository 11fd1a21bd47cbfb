------------------------ MODULE ReportLibrary_proofs -------------------------
(* What the programs leave in the report library is what they accept, and no  *)
(* permission to publish stands against the owner: for all quarters, major    *)
(* events, revisions and programs, whatever mishaps happen.                   *)
EXTENDS ReportLibrary, FiniteSetTheorems, SequenceTheorems, TLAPS

-----------------------------------------------------------------------------
(* A plan is a list: a sequence of writes.                                    *)
WritesOf(list) == {list[i] : i \in DOMAIN list}
IsList(list) == list \in Seq(WritesOf(list))

LEMMA ListLength ==
  ASSUME NEW list, IsList(list)
  PROVE  /\ Len(list) \in Nat /\ DOMAIN list = 1..Len(list)
         /\ (list # <<>> => Len(list) > 0)
         /\ (list = <<>> => Len(list) = 0)
BY LenProperties, EmptySeq DEF IsList

LEMMA SomeSeqIsList ==
  ASSUME NEW S, NEW list \in Seq(S)
  PROVE  IsList(list)
<1>1. /\ Len(list) \in Nat /\ list \in [1..Len(list) -> S]
    BY LenProperties
<1>2. list \in [1..Len(list) -> WritesOf(list)]
    BY <1>1 DEF WritesOf
<1> QED
    BY <1>1, <1>2, SeqDef DEF IsList

-----------------------------------------------------------------------------
(* The disk with some files replaced.  A transaction is about distinct files, *)
(* and saves each of them first, or none.                                     *)
With(d, writes) ==
    [f \in Files |-> IF \E w \in writes : w.file = f
                     THEN (CHOOSE w \in writes : w.file = f).new ELSE d[f]]
OneEach(writes) == \A w, x \in writes : w.file = x.file => w = x
FilesOf(writes) == {w.file : w \in writes}
IsPlan(todo) ==
    /\ IsList(todo)
    /\ \A i, j \in DOMAIN todo : todo[i].file = todo[j].file => i = j
Todo(p) == WritesOf(writer[p].todo)
Saved(p) == WritesOf(writer[p].saved)

DiskIsFiles == disk = [f \in Files |-> disk[f]]
PlansAreInOrder ==
    \A p \in Writers :
        /\ IsPlan(writer[p].todo) /\ FilesOf(Todo(p)) \subseteq Files
        /\ IsPlan(writer[p].saved) /\ FilesOf(Saved(p)) \subseteq Files
        /\ writer[p].saved # <<>> => FilesOf(Todo(p)) \subseteq FilesOf(Saved(p))
WritersAreRecords ==
    /\ DOMAIN writer = Writers
    /\ \A p \in Writers : writer[p] = [todo |-> writer[p].todo, saved |-> writer[p].saved,
                                   undo |-> writer[p].undo]
OnlyOriginalsAreLeft == \A p \in Writers : writer[p].undo => writer[p].saved = <<>>
OneAtATime ==
    "overlap" \notin spoilt =>
        \A p, other \in Writers : AtWork(p) /\ AtWork(other) => p = other
TransactionsInv ==
    DiskIsFiles /\ WritersAreRecords /\ PlansAreInOrder /\ OnlyOriginalsAreLeft /\ OneAtATime

(* Where a permission is, or is being written, the owner has approved; and    *)
(* where the owner's file is being written or may be restored, there is none. *)
ApprovedOn(d, m, v) ==
    d[<<"owner", m, v>>] # Absent /\ d[<<"owner", m, v>>].decision = "APPROVE"
PermissionsStand ==
    \A m \in Majors, v \in Revisions :
        disk[<<"receipt", m, v>>] # Absent => ApprovedOn(disk, m, v)
Harmless(w) ==
    \A m \in Majors, v \in Revisions :
        w.file = <<"owner", m, v>> => disk[<<"receipt", m, v>>] = Absent
PermitsTheApproved(w) ==
    \A m \in Majors, v \in Revisions :
        w.file = <<"receipt", m, v>> /\ w.new # Absent => ApprovedOn(disk, m, v)
TakesBackPermission(w) ==
    \A m \in Majors, v \in Revisions : w.file = <<"receipt", m, v>> => w.new = Absent
NotBoth(files) ==
    \A m \in Majors, v \in Revisions :
        ~ ({<<"owner", m, v>>, <<"receipt", m, v>>} \subseteq files)
PlansAreHarmless ==
    \A p \in Writers : AtWork(p) =>
        /\ \A w \in Todo(p) : Harmless(w) /\ PermitsTheApproved(w)
        /\ \A s \in Saved(p) : Harmless(s) /\ TakesBackPermission(s)
        /\ writer[p].saved = <<>> => \A w \in Todo(p) : TakesBackPermission(w)
        /\ NotBoth(FilesOf(Todo(p)) \cup FilesOf(Saved(p)))
PermissionsInv == "overlap" \notin spoilt => PermissionsStand /\ PlansAreHarmless

(* A library of which both manifests tell the same, and the files what they   *)
(* tell: a report has revisions 1..n, and the latest is the last.             *)
EntrySound(d, left, right, r, v) ==
    /\ left[v].content = right[v].content /\ left[v].prev = right[v].prev
    /\ left[v].history = right[v].history
    /\ left[v].rendered = right[v].rendered /\ left[v].decision = right[v].decision
    /\ left[v].prev = IF v = 1 THEN Absent ELSE left[v - 1].content
    /\ d[<<"body", r, v>>] = left[v].content
    /\ r \in Quarters =>
          /\ d[<<"owner", r, v>>] = left[v].content
          /\ left[v].history # Absent => d[<<"history", r, v>>] = left[v].history
    /\ r \in Majors =>
          /\ d[<<"owner", r, v>>] \in OwnerRecords
          /\ d[<<"owner", r, v>>].rendered = left[v].rendered
LatestSound(manifest, r, n) ==
    /\ n = 0 => manifest.latest[r] = Absent
    /\ n > 0 => /\ manifest.latest[r] # Absent /\ manifest.latest[r].v = n
                /\ r \in Quarters => manifest.latest[r].entry = manifest.entries[r][n]
ReportSound(d, runtime, library, r, n) ==
    /\ \A v \in Revisions : runtime.entries[r][v] # Absent <=> v <= n
    /\ \A v \in Revisions : library.entries[r][v] # Absent <=> v <= n
    /\ \A v \in 1..n : EntrySound(d, runtime.entries[r], library.entries[r], r, v)
    /\ LatestSound(runtime, r, n) /\ LatestSound(library, r, n)
HistoriesSound(d) ==
    \A q \in Quarters, v \in Revisions : d[<<"history", q, v>>] \in Histories \cup {Absent}
ManifestsSound(d) ==
    /\ d[<<"runtime">>] \in ManifestRecords /\ d[<<"library">>] \in ManifestRecords
    /\ d[<<"library">>].monthly => d[<<"runtime">>].monthly
    /\ \A r \in Reports : \E n \in 0..MaxRevision :
          ReportSound(d, d[<<"runtime">>], d[<<"library">>], r, n)
Sound(d) ==
    /\ HistoriesSound(d)
    /\ \/ d[<<"runtime">>] = Absent /\ d[<<"library">>] = Absent
       \/ ManifestsSound(d)

(* Unless something spoilt it, the library is sound, or will be when the      *)
(* transaction is over, however it ends.                                      *)
SoundInv ==
    spoilt = {} =>
        /\ Quiet => Sound(disk)
        /\ \A p \in Writers : AtWork(p) =>
              /\ Sound(With(disk, Todo(p)))
              /\ writer[p].saved # <<>> => Sound(With(disk, Saved(p)))

LibraryInv == TransactionsInv /\ PermissionsInv /\ SoundInv

-----------------------------------------------------------------------------
(* Plans, and the disk they lead to.                                          *)
LEMMA WithAt ==
  ASSUME NEW d, NEW writes, OneEach(writes), NEW f \in Files
  PROVE  /\ \A w \in writes : w.file = f => With(d, writes)[f] = w.new
         /\ f \notin FilesOf(writes) => With(d, writes)[f] = d[f]
<1>1. f \notin FilesOf(writes) => With(d, writes)[f] = d[f]
    BY DEF With, FilesOf
<1>2. ASSUME NEW w \in writes, w.file = f
      PROVE  With(d, writes)[f] = w.new
  <2>1. \A x \in writes : x.file = f => x = w
      BY <1>2 DEF OneEach
  <2>2. (CHOOSE x \in writes : x.file = f) = w
      BY <1>2, <2>1
  <2> QED
      BY <1>2, <2>2 DEF With
<1> QED
    BY <1>1, <1>2

LEMMA PlanOfOne ==
  ASSUME NEW w
  PROVE  IsPlan(<<w>>) /\ WritesOf(<<w>>) = {w} /\ <<w>> # <<>>
<1>1. <<w>> \in Seq({w})
    OBVIOUS
<1>2. DOMAIN <<w>> = {1} /\ <<w>>[1] = w
    OBVIOUS
<1> QED
    BY <1>1, <1>2, SomeSeqIsList DEF IsPlan, WritesOf

LEMMA PlanOfTwo ==
  ASSUME NEW w, NEW x, w.file # x.file
  PROVE  IsPlan(<<w, x>>) /\ WritesOf(<<w, x>>) = {w, x} /\ <<w, x>> # <<>>
<1>1. <<w, x>> \in Seq({w, x})
    OBVIOUS
<1>2. DOMAIN <<w, x>> = {1, 2} /\ <<w, x>>[1] = w /\ <<w, x>>[2] = x
    OBVIOUS
<1> QED
    BY <1>1, <1>2, SomeSeqIsList DEF IsPlan, WritesOf

LEMMA PlanOfThree ==
  ASSUME NEW w, NEW x, NEW y, w.file # x.file, w.file # y.file, x.file # y.file
  PROVE  IsPlan(<<w, x, y>>) /\ WritesOf(<<w, x, y>>) = {w, x, y} /\ <<w, x, y>> # <<>>
<1>1. <<w, x, y>> \in Seq({w, x, y})
    OBVIOUS
<1>2. /\ DOMAIN <<w, x, y>> = {1, 2, 3}
      /\ <<w, x, y>>[1] = w /\ <<w, x, y>>[2] = x /\ <<w, x, y>>[3] = y
    OBVIOUS
<1>3. IsList(<<w, x, y>>)
    BY <1>1, SomeSeqIsList
<1>4. WritesOf(<<w, x, y>>) = {w, x, y}
    BY <1>2 DEF WritesOf
<1>5. \A i, j \in {1, 2, 3} : <<w, x, y>>[i].file = <<w, x, y>>[j].file => i = j
    BY <1>2
<1>6. <<w, x, y>> # <<>>
    OBVIOUS
<1> QED
    BY <1>2, <1>3, <1>4, <1>5, <1>6 DEF IsPlan

LEMMA PlansJoin ==
  ASSUME NEW s, NEW t, IsPlan(s), IsPlan(t),
         FilesOf(WritesOf(s)) \cap FilesOf(WritesOf(t)) = {}
  PROVE  /\ IsPlan(s \o t) /\ WritesOf(s \o t) = WritesOf(s) \cup WritesOf(t)
         /\ s # <<>> => s \o t # <<>>
<1> DEFINE S == WritesOf(s) \cup WritesOf(t)
<1>1. s \in Seq(S) /\ t \in Seq(S)
  <2>1. s \in Seq(WritesOf(s)) /\ t \in Seq(WritesOf(t))
      BY DEF IsPlan, IsList
  <2> QED
      BY <2>1, SeqDef
<1>2. /\ s \o t \in Seq(S) /\ Len(s \o t) = Len(s) + Len(t)
      /\ \A i \in 1..Len(s) + Len(t) :
            (s \o t)[i] = IF i <= Len(s) THEN s[i] ELSE t[i - Len(s)]
    BY <1>1, ConcatProperties
<1>3. /\ Len(s) \in Nat /\ DOMAIN s = 1..Len(s) /\ Len(t) \in Nat /\ DOMAIN t = 1..Len(t)
      /\ DOMAIN (s \o t) = 1..Len(s) + Len(t)
    BY <1>1, <1>2, LenProperties
<1> DEFINE u == s \o t
<1> HIDE DEF S, u
<1>4. /\ \A i \in DOMAIN s : i \in DOMAIN u /\ u[i] = s[i]
      /\ \A i \in DOMAIN t : i + Len(s) \in DOMAIN u /\ u[i + Len(s)] = t[i]
    BY <1>2, <1>3 DEF u
<1>5. \A i \in DOMAIN u : \/ i \in DOMAIN s /\ u[i] = s[i]
                          \/ i \notin DOMAIN s /\ i - Len(s) \in DOMAIN t /\ u[i] = t[i - Len(s)]
    BY <1>2, <1>3 DEF u
<1>6. WritesOf(u) = WritesOf(s) \cup WritesOf(t)
  <2>1. WritesOf(u) \subseteq WritesOf(s) \cup WritesOf(t)
      BY <1>5 DEF WritesOf
  <2>2. WritesOf(s) \subseteq WritesOf(u) /\ WritesOf(t) \subseteq WritesOf(u)
      BY <1>4 DEF WritesOf
  <2> QED
      BY <2>1, <2>2
<1>7. \A i, j \in DOMAIN u : u[i].file = u[j].file => i = j
  <2> SUFFICES ASSUME NEW i \in DOMAIN u, NEW j \in DOMAIN u, u[i].file = u[j].file
               PROVE  i = j
      OBVIOUS
  <2>0. i \in Nat /\ j \in Nat
      BY <1>3 DEF u
  <2>1. CASE i \in DOMAIN s /\ j \in DOMAIN s
      BY <1>5, <2>1 DEF IsPlan
  <2>2. CASE i \notin DOMAIN s /\ j \notin DOMAIN s
    <3>1. i - Len(s) = j - Len(s)
        BY <1>5, <2>2 DEF IsPlan
    <3> QED
        BY <1>3, <2>0, <3>1
  <2>3. CASE i \in DOMAIN s /\ j \notin DOMAIN s
    <3>1. u[i].file \in FilesOf(WritesOf(s)) /\ u[j].file \in FilesOf(WritesOf(t))
        BY <1>5, <2>3 DEF FilesOf, WritesOf
    <3> QED
        BY <3>1
  <2>4. CASE i \notin DOMAIN s /\ j \in DOMAIN s
    <3>1. u[j].file \in FilesOf(WritesOf(s)) /\ u[i].file \in FilesOf(WritesOf(t))
        BY <1>5, <2>4 DEF FilesOf, WritesOf
    <3> QED
        BY <3>1
  <2> QED
      BY <2>1, <2>2, <2>3, <2>4
<1>8. IsList(u)
    BY <1>2, SomeSeqIsList DEF u
<1>9. s # <<>> => u # <<>>
  <2>1. s # <<>> => Len(s) > 0
      BY <1>1, EmptySeq, LenProperties
  <2> QED
      BY <1>2, <1>3, <2>1 DEF u
<1> QED
    BY <1>6, <1>7, <1>8, <1>9 DEF IsPlan, u

LEMMA PlanGoesOn ==
  ASSUME NEW s, IsPlan(s), s # <<>>
  PROVE  /\ IsPlan(Tail(s)) /\ Head(s) \in WritesOf(s)
         /\ WritesOf(s) = {Head(s)} \cup WritesOf(Tail(s))
         /\ Head(s).file \notin FilesOf(WritesOf(Tail(s)))
         /\ Len(s) = 1 <=> Tail(s) = <<>>
<1>1. s \in Seq(WritesOf(s)) /\ Len(s) \in Nat /\ Len(s) > 0 /\ DOMAIN s = 1..Len(s)
    BY ListLength DEF IsPlan, IsList
<1>2. /\ Head(s) = s[1] /\ Tail(s) \in Seq(WritesOf(s)) /\ Len(Tail(s)) = Len(s) - 1
      /\ \A i \in 1..Len(s) - 1 : Tail(s)[i] = s[i + 1]
    BY <1>1, HeadTailProperties
<1> DEFINE u == Tail(s)
<1>3. DOMAIN u = 1..Len(s) - 1 /\ IsList(u) /\ Len(u) = Len(s) - 1
    BY <1>2, LenProperties, SomeSeqIsList
<1> HIDE DEF u
<1>4. Len(s) = 1 <=> u = <<>>
  <2>1. u = <<>> <=> Len(u) = 0
      BY <1>3, ListLength
  <2> QED
      BY <1>1, <1>3, <2>1
<1>5. \A i \in DOMAIN u : i + 1 \in DOMAIN s /\ u[i] = s[i + 1] /\ i \in Nat
    BY <1>1, <1>2, <1>3 DEF u
<1>6. \A i \in DOMAIN s : i = 1 \/ (i - 1 \in DOMAIN u /\ u[i - 1] = s[i])
    BY <1>1, <1>2, <1>3 DEF u
<1>7. 1 \in DOMAIN s /\ Head(s) = s[1]
    BY <1>1, <1>2
<1>8. WritesOf(s) = {Head(s)} \cup WritesOf(u)
  <2>1. WritesOf(s) \subseteq {Head(s)} \cup WritesOf(u)
      BY <1>6, <1>7 DEF WritesOf
  <2>2. {Head(s)} \cup WritesOf(u) \subseteq WritesOf(s)
      BY <1>5, <1>7 DEF WritesOf
  <2> QED
      BY <2>1, <2>2
<1>9. \A i, j \in DOMAIN u : u[i].file = u[j].file => i = j
  <2> SUFFICES ASSUME NEW i \in DOMAIN u, NEW j \in DOMAIN u, u[i].file = u[j].file
               PROVE  i = j
      OBVIOUS
  <2>1. i + 1 = j + 1
      BY <1>5 DEF IsPlan
  <2> QED
      BY <1>5, <2>1
<1>10. Head(s).file \notin FilesOf(WritesOf(u))
  <2> SUFFICES ASSUME NEW i \in DOMAIN u, u[i].file = Head(s).file
               PROVE  FALSE
      BY DEF FilesOf, WritesOf
  <2>1. i + 1 = 1
      BY <1>5, <1>7 DEF IsPlan
  <2>2. i \in 1..Len(s) - 1
      BY <1>3
  <2> QED
      BY <1>1, <2>1, <2>2
<1> QED
    BY <1>3, <1>4, <1>7, <1>8, <1>9, <1>10 DEF IsPlan, u, WritesOf

LEMMA PlanIsOneEach ==
  ASSUME NEW s, IsPlan(s)
  PROVE  OneEach(WritesOf(s))
BY DEF IsPlan, OneEach, WritesOf

-----------------------------------------------------------------------------
(* Transactions.                                                              *)
Saves(writes) == {Write(w.file, disk[w.file]) : w \in writes}

LEMMA WithSavesIsTheDisk ==
  ASSUME DiskIsFiles, NEW writes
  PROVE  With(disk, Saves(writes)) = disk /\ OneEach(Saves(writes))
         /\ FilesOf(Saves(writes)) = FilesOf(writes)
<1>1. \A s \in Saves(writes) : s.new = disk[s.file]
    BY DEF Saves, Write
<1>2. With(disk, Saves(writes)) = [f \in Files |-> disk[f]]
  <2>1. ASSUME NEW f \in Files, \E s \in Saves(writes) : s.file = f
        PROVE  (CHOOSE s \in Saves(writes) : s.file = f).new = disk[f]
      BY <1>1, <2>1
  <2> QED
      BY <2>1 DEF With
<1>3. \A s, t \in Saves(writes) : s.file = t.file => s = t
    BY DEF Saves, Write
<1>4. FilesOf(Saves(writes)) = FilesOf(writes)
  <2>1. ASSUME NEW w \in writes
        PROVE  Write(w.file, disk[w.file]) \in Saves(writes)
               /\ Write(w.file, disk[w.file]).file = w.file
      BY DEF Saves, Write
  <2>2. \A s \in Saves(writes) : \E w \in writes : s.file = w.file
      BY DEF Saves, Write
  <2> QED
      BY <2>1, <2>2 DEF FilesOf
<1> QED
    BY <1>2, <1>3, <1>4 DEF DiskIsFiles, OneEach

LEMMA LibraryStarts == LibraryInit => LibraryInv
<1> SUFFICES ASSUME LibraryInit PROVE LibraryInv
    OBVIOUS
<1>1. /\ disk = [f \in Files |-> Absent] /\ \A f \in Files : disk[f] = Absent
      /\ spoilt = {}
      /\ DOMAIN writer = Writers
      /\ \A p \in Writers : /\ writer[p] = [todo |-> <<>>, saved |-> <<>>, undo |-> FALSE]
                            /\ writer[p].todo = <<>> /\ writer[p].saved = <<>> /\ ~ AtWork(p)
    BY DEF LibraryInit, IdleWriter, AtWork
<1>2. IsPlan(<<>>) /\ WritesOf(<<>>) = {}
  <2>1. <<>> \in Seq({}) /\ DOMAIN <<>> = {}
      OBVIOUS
  <2> QED
      BY <2>1, SomeSeqIsList DEF IsPlan, WritesOf
<1>3. TransactionsInv
  <2>1. DiskIsFiles /\ WritersAreRecords /\ OneAtATime
      BY <1>1 DEF DiskIsFiles, WritersAreRecords, OneAtATime
  <2>2. PlansAreInOrder /\ OnlyOriginalsAreLeft
      BY <1>1, <1>2 DEF PlansAreInOrder, OnlyOriginalsAreLeft, Todo, Saved, FilesOf
  <2> QED
      BY <2>1, <2>2 DEF TransactionsInv
<1>4. PermissionsInv
  <2>1. \A m \in Majors, v \in Revisions : <<"receipt", m, v>> \in Files
      BY DEF Files
  <2> QED
      BY <1>1, <2>1 DEF PermissionsInv, PermissionsStand, PlansAreHarmless
<1>5. SoundInv
  <2>1. /\ <<"runtime">> \in Files /\ <<"library">> \in Files
        /\ \A q \in Quarters, v \in Revisions : <<"history", q, v>> \in Files
      BY DEF Files, Manifests
  <2> QED
      BY <1>1, <2>1 DEF SoundInv, Sound, HistoriesSound
<1> QED
    BY <1>3, <1>4, <1>5 DEF LibraryInv

(* A program is done with the first file of its plan.                         *)
LEMMA TurnIs ==
  ASSUME LibraryInv, NEW p \in Writers, AtWork(p), Turn(p)
  PROVE  \E now, t, left, undo :
            /\ now = Head(writer[p].todo) /\ now.file \in Files
            /\ IsPlan(t) /\ FilesOf(WritesOf(t)) \subseteq Files
            /\ Todo(p) = {now} \cup WritesOf(t) /\ now.file \notin FilesOf(WritesOf(t))
            /\ left = (IF t = <<>> THEN <<>> ELSE writer[p].saved)
            /\ undo = (IF t = <<>> THEN FALSE ELSE writer[p].undo)
            /\ DOMAIN writer' = Writers
            /\ writer'[p] = [todo |-> t, saved |-> left, undo |-> undo]
            /\ writer'[p].todo = t /\ writer'[p].saved = left /\ writer'[p].undo = undo
            /\ \A other \in Writers : other # p => writer'[other] = writer[other]
<1> DEFINE s == writer[p].todo
           now == Head(s)
           t == Tail(s)
           left == IF t = <<>> THEN <<>> ELSE writer[p].saved
           undo == IF t = <<>> THEN FALSE ELSE writer[p].undo
<1> USE DEF LibraryInv, TransactionsInv
<1>1. IsPlan(s) /\ s # <<>> /\ FilesOf(WritesOf(s)) \subseteq Files
    BY DEF PlansAreInOrder, AtWork, Todo
<1>2. /\ IsPlan(t) /\ now \in WritesOf(s) /\ WritesOf(s) = {now} \cup WritesOf(t)
      /\ now.file \notin FilesOf(WritesOf(t)) /\ (Len(s) = 1 <=> t = <<>>)
    BY <1>1, PlanGoesOn
<1>3. now.file \in Files /\ FilesOf(WritesOf(t)) \subseteq Files
    BY <1>1, <1>2 DEF FilesOf
<1>4. /\ DOMAIN writer = Writers
      /\ writer[p] = [todo |-> s, saved |-> writer[p].saved, undo |-> writer[p].undo]
    BY DEF WritersAreRecords
<1>6. writer' = [writer EXCEPT ![p] =
         IF Len(s) = 1 THEN IdleWriter
         ELSE [todo |-> t, saved |-> writer[p].saved, undo |-> writer[p].undo]]
    BY DEF Turn
<1>8. writer' = [writer EXCEPT ![p] = [todo |-> t, saved |-> left, undo |-> undo]]
  <2>1. CASE t = <<>>
    <3>1. Len(s) = 1 /\ IdleWriter = [todo |-> t, saved |-> left, undo |-> undo]
        BY <1>2, <2>1 DEF IdleWriter
    <3> QED
        BY <1>6, <3>1
  <2>2. CASE t # <<>>
    <3>1. Len(s) # 1 /\ left = writer[p].saved /\ undo = writer[p].undo
        BY <1>2, <2>2
    <3> QED
        BY <1>6, <3>1
  <2> QED
      BY <2>1, <2>2
<1>9. Todo(p) = {now} \cup WritesOf(t)
    BY <1>2 DEF Todo
<1> HIDE DEF s, now, t, left, undo
<1>10. PICK n2, t2, left2, undo2 : n2 = now /\ t2 = t /\ left2 = left /\ undo2 = undo
    OBVIOUS
<1>11. /\ DOMAIN writer' = Writers
       /\ writer'[p] = [todo |-> t2, saved |-> left2, undo |-> undo2]
       /\ writer'[p].todo = t2 /\ writer'[p].saved = left2 /\ writer'[p].undo = undo2
       /\ \A other \in Writers : other # p => writer'[other] = writer[other]
    BY <1>4, <1>8, <1>10
<1> QED
    BY <1>2, <1>3, <1>9, <1>10, <1>11 DEF s, now, t, left, undo

(* It has written the file, left it as it was, or written a part of it.       *)
LEMMA TurningKeeps ==
  ASSUME LibraryInv, NEW p \in Writers, AtWork(p), Turn(p),
         NEW value, disk' = [disk EXCEPT ![Head(writer[p].todo).file] = value],
         \/ value \in {Head(writer[p].todo).new, disk[Head(writer[p].todo).file]}
         \/ writer[p].saved = <<>> /\ Head(writer[p].todo).new # Absent,
         spoilt \subseteq spoilt', "overlap" \in spoilt' => "overlap" \in spoilt
  PROVE  TransactionsInv' /\ PermissionsInv'
<1> USE DEF LibraryInv, TransactionsInv
<1>1. PICK now, t, left, undo :
            /\ now = Head(writer[p].todo) /\ now.file \in Files
            /\ IsPlan(t) /\ FilesOf(WritesOf(t)) \subseteq Files
            /\ Todo(p) = {now} \cup WritesOf(t) /\ now.file \notin FilesOf(WritesOf(t))
            /\ left = (IF t = <<>> THEN <<>> ELSE writer[p].saved)
            /\ undo = (IF t = <<>> THEN FALSE ELSE writer[p].undo)
            /\ DOMAIN writer' = Writers
            /\ writer'[p] = [todo |-> t, saved |-> left, undo |-> undo]
            /\ writer'[p].todo = t /\ writer'[p].saved = left /\ writer'[p].undo = undo
            /\ \A other \in Writers : other # p => writer'[other] = writer[other]
    BY TurnIs
<1>2. PICK rest : rest = WritesOf(t)
    OBVIOUS
<1>3. /\ \A f \in Files : f # now.file => disk'[f] = disk[f]
      /\ disk'[now.file] = value /\ DiskIsFiles'
    BY <1>1 DEF DiskIsFiles
<1>4. \/ value = now.new \/ value = disk[now.file]
      \/ writer[p].saved = <<>> /\ now.new # Absent
    BY <1>1
<1>5. TransactionsInv'
  <2>1. WritersAreRecords'
      BY <1>1 DEF WritersAreRecords
  <2>2. \A other \in Writers : AtWork(other)' => AtWork(other)
      BY <1>1 DEF AtWork
  <2>3. OneAtATime'
      BY <2>2 DEF OneAtATime
  <2>4. PlansAreInOrder'
    <3>1. /\ IsPlan(writer[p].saved) /\ FilesOf(Saved(p)) \subseteq Files
          /\ writer[p].saved # <<>> => FilesOf(Todo(p)) \subseteq FilesOf(Saved(p))
        BY DEF PlansAreInOrder
    <3>2. IsPlan(<<>>) /\ FilesOf(WritesOf(<<>>)) \subseteq Files
      <4>1. <<>> \in Seq({}) /\ DOMAIN <<>> = {}
          OBVIOUS
      <4> QED
          BY <4>1, SomeSeqIsList DEF IsPlan, WritesOf, FilesOf
    <3>3. /\ IsPlan(left) /\ FilesOf(WritesOf(left)) \subseteq Files
          /\ left # <<>> => FilesOf(WritesOf(t)) \subseteq FilesOf(WritesOf(left))
      <4>1. FilesOf(WritesOf(t)) \subseteq FilesOf(Todo(p))
          BY <1>1 DEF FilesOf
      <4> QED
          BY <1>1, <3>1, <3>2, <4>1 DEF Saved
    <3> QED
        BY <1>1, <3>3 DEF PlansAreInOrder, Todo, Saved
  <2>5. OnlyOriginalsAreLeft'
      BY <1>1 DEF OnlyOriginalsAreLeft
  <2> QED
      BY <1>3, <2>1, <2>3, <2>4, <2>5
<1>6. PermissionsInv'
  <2> SUFFICES ASSUME "overlap" \notin spoilt
               PROVE  PermissionsStand' /\ PlansAreHarmless'
      BY DEF PermissionsInv
  <2> DEFINE saved == Saved(p)
  <2>1. /\ \A x \in {now} \cup rest : Harmless(x) /\ PermitsTheApproved(x)
        /\ \A x \in saved : Harmless(x) /\ TakesBackPermission(x)
        /\ writer[p].saved = <<>> => \A x \in {now} \cup rest : TakesBackPermission(x)
        /\ NotBoth(FilesOf({now} \cup rest) \cup FilesOf(saved))
        /\ PermissionsStand
    <3>1. Todo(p) = {now} \cup rest
        BY <1>1, <1>2
    <3> QED
        BY <3>1 DEF PermissionsInv, PlansAreHarmless
  <2> HIDE DEF saved
  <2>2. \A m \in Majors, v \in Revisions :
           <<"owner", m, v>> \in Files /\ <<"receipt", m, v>> \in Files
           /\ <<"owner", m, v>> # <<"receipt", m, v>>
      BY DEF Files, Reports
  <2>3. PermissionsStand'
    <3> SUFFICES ASSUME NEW m \in Majors, NEW v \in Revisions,
                        disk'[<<"receipt", m, v>>] # Absent
                 PROVE  ApprovedOn(disk', m, v)
        BY DEF PermissionsStand
    <3>1. CASE now.file = <<"owner", m, v>>
        BY <1>3, <2>1, <2>2, <3>1 DEF Harmless
    <3>2. CASE now.file = <<"receipt", m, v>>
      <4>1. value # Absent
          BY <1>3, <3>2
      <4>2. writer[p].saved = <<>> => now.new = Absent
          BY <2>1, <3>2 DEF TakesBackPermission
      <4>3. CASE value = now.new
          BY <1>3, <2>1, <2>2, <3>2, <4>1, <4>3 DEF PermitsTheApproved, ApprovedOn
      <4>4. CASE value = disk[now.file]
          BY <1>3, <2>1, <2>2, <3>2, <4>1, <4>4 DEF PermissionsStand, ApprovedOn
      <4> QED
          BY <1>4, <4>2, <4>3, <4>4
    <3>3. CASE now.file \notin {<<"owner", m, v>>, <<"receipt", m, v>>}
        BY <1>3, <2>1, <2>2, <3>3 DEF PermissionsStand, ApprovedOn
    <3> QED
        BY <3>1, <3>2, <3>3
  <2>4. ASSUME NEW files, files \subseteq FilesOf({now} \cup rest) \cup FilesOf(saved)
        PROVE  NotBoth(files)
      BY <2>1, <2>4 DEF NotBoth
  <2>5. /\ \A x \in rest \cup saved : Harmless(x)'
        /\ \A x \in rest : PermitsTheApproved(x)'
    <3>1. ASSUME NEW x \in rest \cup saved, NEW m \in Majors, NEW v \in Revisions,
                 x.file = <<"owner", m, v>>
          PROVE  disk'[<<"receipt", m, v>>] = Absent
      <4>1. now.file # <<"receipt", m, v>>
          BY <2>1, <3>1 DEF NotBoth, FilesOf
      <4> QED
          BY <1>3, <2>1, <2>2, <3>1, <4>1 DEF Harmless
    <3>2. ASSUME NEW x \in rest, NEW m \in Majors, NEW v \in Revisions,
                 x.file = <<"receipt", m, v>>, x.new # Absent
          PROVE  ApprovedOn(disk', m, v)
      <4>1. now.file # <<"owner", m, v>>
          BY <2>1, <3>2 DEF NotBoth, FilesOf
      <4> QED
          BY <1>3, <2>1, <2>2, <3>2, <4>1 DEF PermitsTheApproved, ApprovedOn
    <3> QED
        BY <3>1, <3>2 DEF Harmless, PermitsTheApproved
  <2>6. PlansAreHarmless'
    <3> SUFFICES ASSUME NEW other \in Writers, AtWork(other)'
                 PROVE  /\ \A x \in Todo(other)' : Harmless(x)' /\ PermitsTheApproved(x)'
                        /\ \A x \in Saved(other)' : Harmless(x)' /\ TakesBackPermission(x)
                        /\ writer'[other].saved = <<>> =>
                              \A x \in Todo(other)' : TakesBackPermission(x)
                        /\ NotBoth(FilesOf(Todo(other)') \cup FilesOf(Saved(other)'))
        BY DEF PlansAreHarmless, TakesBackPermission, NotBoth, FilesOf
    <3>1. other = p /\ t # <<>>
        BY <1>1 DEF AtWork, OneAtATime
    <3>2. Todo(other)' = rest /\ Saved(other)' = saved /\ writer'[other].saved = writer[p].saved
        BY <1>1, <1>2, <3>1 DEF Todo, Saved, saved
    <3>3. NotBoth(FilesOf(rest) \cup FilesOf(saved))
        BY <2>4 DEF FilesOf
    <3> QED
        BY <2>1, <2>5, <3>2, <3>3
  <2> QED
      BY <2>3, <2>6
<1> QED
    BY <1>5, <1>6

(* A program writes the next file of its plan.                                *)
LEMMA ReplaceKeeps ==
  ASSUME LibraryInv, NEW p \in Writers, Replace(p)
  PROVE  LibraryInv'
<1> USE DEF LibraryInv
<1>1. /\ AtWork(p) /\ Turn(p) /\ spoilt' = spoilt
      /\ disk' = [disk EXCEPT ![Head(writer[p].todo).file] = Head(writer[p].todo).new]
    BY DEF Replace
<1>2. TransactionsInv' /\ PermissionsInv'
    BY <1>1, TurningKeeps
<1>3. PICK now, t, left, undo :
            /\ now = Head(writer[p].todo) /\ now.file \in Files
            /\ IsPlan(t) /\ FilesOf(WritesOf(t)) \subseteq Files
            /\ Todo(p) = {now} \cup WritesOf(t) /\ now.file \notin FilesOf(WritesOf(t))
            /\ left = (IF t = <<>> THEN <<>> ELSE writer[p].saved)
            /\ undo = (IF t = <<>> THEN FALSE ELSE writer[p].undo)
            /\ DOMAIN writer' = Writers
            /\ writer'[p] = [todo |-> t, saved |-> left, undo |-> undo]
            /\ writer'[p].todo = t /\ writer'[p].saved = left /\ writer'[p].undo = undo
            /\ \A other \in Writers : other # p => writer'[other] = writer[other]
    BY <1>1, TurnIs
<1>4. PICK rest : rest = WritesOf(t)
    OBVIOUS
<1>5. /\ \A f \in Files : f # now.file => disk'[f] = disk[f]
      /\ disk'[now.file] = now.new /\ DiskIsFiles'
    BY <1>1, <1>3 DEF TransactionsInv, DiskIsFiles
<1>6. SoundInv'
  <2> SUFFICES ASSUME spoilt = {}
               PROVE  /\ Quiet' => Sound(disk')
                      /\ \A other \in Writers : AtWork(other)' =>
                            /\ Sound(With(disk', Todo(other)'))
                            /\ writer'[other].saved # <<>> =>
                                  Sound(With(disk', Saved(other)'))
      BY <1>1 DEF SoundInv, Sound, HistoriesSound, ManifestsSound, ReportSound, EntrySound,
         LatestSound, With
  <2>1. AtWork(p) /\ Todo(p) = {now} \cup rest
      BY <1>1, <1>3, <1>4
  <2>2. With(disk', rest) = With(disk, {now} \cup rest)
    <3>1. OneEach({now} \cup rest) /\ OneEach(rest)
      <4>1. OneEach(WritesOf(writer[p].todo)) /\ OneEach(WritesOf(t))
          BY <1>3, PlanIsOneEach DEF TransactionsInv, PlansAreInOrder
      <4> QED
          BY <1>3, <1>4, <4>1 DEF Todo
    <3>2. ASSUME NEW f \in Files
          PROVE  With(disk', rest)[f] = With(disk, {now} \cup rest)[f]
      <4>1. CASE f \in FilesOf(rest)
        <5>1. PICK x \in rest : x.file = f
            BY <4>1 DEF FilesOf
        <5> QED
            BY <3>1, <5>1, WithAt
      <4>2. CASE f = now.file
        <5>1. With(disk', rest)[f] = disk'[f]
          <6>1. f \notin FilesOf(rest)
              BY <1>3, <1>4, <4>2
          <6> QED
              BY <3>1, <6>1, WithAt
        <5>2. With(disk, {now} \cup rest)[f] = now.new
            BY <3>1, <4>2, WithAt
        <5> QED
            BY <1>5, <4>2, <5>1, <5>2
      <4>3. CASE f \notin FilesOf(rest) /\ f # now.file
        <5>1. f \notin FilesOf({now} \cup rest)
            BY <4>3 DEF FilesOf
        <5> QED
            BY <1>5, <3>1, <4>3, <5>1, WithAt
      <4> QED
          BY <4>1, <4>2, <4>3
    <3>3. \A d, writes : With(d, writes) = [f \in Files |-> With(d, writes)[f]]
        BY DEF With
    <3> QED
        BY <3>2, <3>3
  <2>3. Sound(With(disk', rest))
      BY <2>1, <2>2 DEF SoundInv
  <2>4. \A other \in Writers : AtWork(other)' => other = p
      BY <1>1, <1>3 DEF AtWork, OneAtATime, TransactionsInv
  <2>5. CASE t = <<>>
    <3>1. rest = {} /\ ~ AtWork(p)'
      <4>1. WritesOf(<<>>) = {}
          BY DEF WritesOf
      <4> QED
          BY <1>3, <1>4, <2>5, <4>1 DEF AtWork
    <3>2. With(disk', {}) = disk'
      <4>1. With(disk', {}) = [f \in Files |-> disk'[f]]
          BY DEF With
      <4> QED
          BY <1>5, <4>1 DEF DiskIsFiles
    <3> QED
        BY <2>3, <2>4, <3>1, <3>2
  <2>6. CASE t # <<>>
    <3>1. AtWork(p)' /\ ~ Quiet' /\ Todo(p)' = rest /\ Saved(p)' = Saved(p)
          /\ writer'[p].saved = writer[p].saved
        BY <1>3, <1>4, <2>6 DEF AtWork, Quiet, Todo, Saved
    <3>2. writer[p].saved # <<>> => With(disk', Saved(p)) = With(disk, Saved(p))
      <4> SUFFICES ASSUME writer[p].saved # <<>>
                   PROVE  With(disk', Saved(p)) = With(disk, Saved(p))
          OBVIOUS
      <4>1. now.file \in FilesOf(Saved(p))
          BY <1>3 DEF FilesOf, PlansAreInOrder, TransactionsInv
      <4>2. \A f \in Files : f \notin FilesOf(Saved(p)) => disk'[f] = disk[f]
          BY <1>5, <4>1
      <4> QED
          BY <4>2 DEF With, FilesOf
    <3>3. writer[p].saved # <<>> => Sound(With(disk, Saved(p)))
        BY <2>1 DEF SoundInv
    <3> QED
        BY <2>3, <2>4, <3>1, <3>2, <3>3
  <2> QED
      BY <2>5, <2>6
<1> QED
    BY <1>2, <1>6

(* After an error its plan are the originals.                                 *)
LEMMA RollBackKeeps ==
  ASSUME LibraryInv, NEW p \in Writers, RollBack(p)
  PROVE  LibraryInv'
<1> USE DEF LibraryInv, TransactionsInv
<1>1. PICK originals :
         /\ originals = writer[p].saved /\ originals # <<>> /\ AtWork(p)
         /\ writer' = [writer EXCEPT ![p] = [todo |-> originals, saved |-> <<>>, undo |-> TRUE]]
         /\ disk' = disk /\ spoilt' = spoilt
    BY DEF RollBack
<1>2. /\ DOMAIN writer' = Writers
      /\ writer'[p] = [todo |-> originals, saved |-> <<>>, undo |-> TRUE]
      /\ writer'[p].todo = originals /\ writer'[p].saved = <<>>
      /\ \A other \in Writers : other # p => writer'[other] = writer[other]
    BY <1>1 DEF WritersAreRecords
<1>3. \A other \in Writers : AtWork(other)' <=> AtWork(other)
    BY <1>1, <1>2 DEF AtWork
<1>4. /\ Todo(p)' = Saved(p) /\ Saved(p)' = {}
      /\ \A other \in Writers \ {p} : Todo(other)' = Todo(other) /\ Saved(other)' = Saved(other)
    BY <1>1, <1>2 DEF Todo, Saved, WritesOf
<1>5. TransactionsInv'
  <2>1. DiskIsFiles' /\ WritersAreRecords' /\ OneAtATime' /\ OnlyOriginalsAreLeft'
      BY <1>1, <1>2, <1>3 DEF DiskIsFiles, WritersAreRecords, OneAtATime, OnlyOriginalsAreLeft
  <2>2. IsPlan(<<>>)
    <3>1. <<>> \in Seq({}) /\ DOMAIN <<>> = {}
        OBVIOUS
    <3> QED
        BY <3>1, SomeSeqIsList DEF IsPlan
  <2>3. PlansAreInOrder'
    <3>1. /\ IsPlan(originals) /\ FilesOf(Saved(p)) \subseteq Files /\ FilesOf({}) \subseteq Files
        BY <1>1 DEF PlansAreInOrder, FilesOf
    <3>2. /\ IsPlan(writer'[p].todo) /\ FilesOf(Todo(p)') \subseteq Files
          /\ IsPlan(writer'[p].saved) /\ FilesOf(Saved(p)') \subseteq Files
          /\ writer'[p].saved = <<>>
        BY <1>2, <1>4, <2>2, <3>1
    <3>3. ASSUME NEW other \in Writers \ {p}
          PROVE  /\ IsPlan(writer'[other].todo) /\ FilesOf(Todo(other)') \subseteq Files
                 /\ IsPlan(writer'[other].saved) /\ FilesOf(Saved(other)') \subseteq Files
                 /\ writer'[other].saved # <<>> =>
                       FilesOf(Todo(other)') \subseteq FilesOf(Saved(other)')
      <4>1. /\ writer'[other] = writer[other]
            /\ Todo(other)' = Todo(other) /\ Saved(other)' = Saved(other)
          BY <1>2, <1>4
      <4> QED
          BY <4>1 DEF PlansAreInOrder
    <3>4. \A other \in Writers :
             /\ IsPlan(writer'[other].todo) /\ FilesOf(Todo(other)') \subseteq Files
             /\ IsPlan(writer'[other].saved) /\ FilesOf(Saved(other)') \subseteq Files
             /\ writer'[other].saved # <<>> =>
                   FilesOf(Todo(other)') \subseteq FilesOf(Saved(other)')
        BY <3>2, <3>3
    <3> QED
        BY <3>4 DEF PlansAreInOrder, FilesOf, IsPlan, IsList, WritesOf
  <2> QED
      BY <2>1, <2>3
<1>6. PermissionsInv'
  <2> SUFFICES ASSUME "overlap" \notin spoilt
               PROVE  PermissionsStand' /\ PlansAreHarmless'
      BY <1>1 DEF PermissionsInv
  <2>1. PermissionsStand /\ PlansAreHarmless
      BY DEF PermissionsInv
  <2>2. PermissionsStand'
      BY <1>1, <2>1 DEF PermissionsStand, ApprovedOn
  <2>3. PlansAreHarmless'
    <3> SUFFICES ASSUME NEW other \in Writers, AtWork(other)'
                 PROVE  /\ \A x \in Todo(other)' : Harmless(x)' /\ PermitsTheApproved(x)'
                        /\ \A x \in Saved(other)' : Harmless(x)' /\ TakesBackPermission(x)
                        /\ writer'[other].saved = <<>> =>
                              \A x \in Todo(other)' : TakesBackPermission(x)
                        /\ NotBoth(FilesOf(Todo(other)') \cup FilesOf(Saved(other)'))
        BY DEF PlansAreHarmless, TakesBackPermission, NotBoth, FilesOf
    <3>1. other = p
        BY <1>1, <1>3 DEF OneAtATime
    <3>2. /\ \A x \in Saved(p) : Harmless(x) /\ TakesBackPermission(x)
          /\ NotBoth(FilesOf(Todo(p)) \cup FilesOf(Saved(p)))
        BY <1>1, <2>1 DEF PlansAreHarmless
    <3>3. \A x \in Saved(p) : Harmless(x)' /\ PermitsTheApproved(x)'
        BY <1>1, <3>2 DEF Harmless, TakesBackPermission, PermitsTheApproved
    <3>4. NotBoth(FilesOf(Saved(p)) \cup FilesOf({}))
        BY <3>2 DEF NotBoth, FilesOf
    <3> QED
        BY <1>4, <3>1, <3>2, <3>3, <3>4
  <2> QED
      BY <2>2, <2>3
<1>7. SoundInv'
  <2> SUFFICES ASSUME spoilt = {}
               PROVE  /\ ~ Quiet'
                      /\ \A other \in Writers : AtWork(other)' =>
                            /\ Sound(With(disk', Todo(other)'))
                            /\ writer'[other].saved # <<>> =>
                                  Sound(With(disk', Saved(other)'))
      BY <1>1 DEF SoundInv, Sound, HistoriesSound, ManifestsSound, ReportSound, EntrySound,
         LatestSound, With
  <2>1. Sound(With(disk, Saved(p)))
      BY <1>1 DEF SoundInv
  <2>2. \A other \in Writers : AtWork(other)' => other = p
      BY <1>1, <1>3 DEF OneAtATime
  <2> QED
      BY <1>1, <1>2, <1>3, <1>4, <2>1, <2>2 DEF Quiet
<1> QED
    BY <1>5, <1>6, <1>7

(* What it may leave of a file.                                               *)
LEMMA HalfWrittenIs ==
  ASSUME LibraryInv, NEW p \in Writers, AtWork(p), LeaveHalfWritten(p)
  PROVE  \E value :
            /\ disk' = [disk EXCEPT ![Head(writer[p].todo).file] = value]
            /\ \/ value = disk[Head(writer[p].todo).file]
               \/ writer[p].saved = <<>> /\ Head(writer[p].todo).new # Absent
<1> DEFINE now == Head(writer[p].todo)
<1>1. CASE disk' = disk
  <2>1. disk = [disk EXCEPT ![now.file] = disk[now.file]]
      BY DEF LibraryInv, TransactionsInv, DiskIsFiles
  <2> QED
      BY <1>1, <2>1
<1>2. CASE /\ writer[p].saved = <<>> /\ now.new # Absent
           /\ disk' = [disk EXCEPT ![now.file] = Torn]
    BY <1>2
<1> QED
    BY <1>1, <1>2 DEF LeaveHalfWritten

LEMMA RestoreFailsKeeps ==
  ASSUME LibraryInv, NEW p \in Writers, RestoreFails(p)
  PROVE  LibraryInv'
<1>1. /\ AtWork(p) /\ Turn(p) /\ LeaveHalfWritten(p) /\ spoilt' = spoilt \cup {"restore"}
    BY DEF RestoreFails
<1>2. PICK value :
            /\ disk' = [disk EXCEPT ![Head(writer[p].todo).file] = value]
            /\ \/ value = disk[Head(writer[p].todo).file]
               \/ writer[p].saved = <<>> /\ Head(writer[p].todo).new # Absent
    BY <1>1, HalfWrittenIs
<1>3. spoilt \subseteq spoilt' /\ ("overlap" \in spoilt' => "overlap" \in spoilt) /\ spoilt' # {}
    BY <1>1
<1>4. TransactionsInv' /\ PermissionsInv'
    BY <1>1, <1>2, <1>3, TurningKeeps
<1> QED
    BY <1>3, <1>4 DEF LibraryInv, SoundInv

(* A killed program leaves the transaction where it is.                       *)
LEMMA KillKeeps ==
  ASSUME LibraryInv, NEW p \in Writers, KillWriter(p)
  PROVE  LibraryInv'
<1> USE DEF LibraryInv, TransactionsInv
<1>1. /\ AtWork(p) /\ LeaveHalfWritten(p) /\ spoilt' = spoilt \cup {"kill"}
      /\ writer' = [writer EXCEPT ![p] = IdleWriter]
    BY DEF KillWriter
<1>2. /\ DOMAIN writer' = Writers
      /\ writer'[p] = [todo |-> <<>>, saved |-> <<>>, undo |-> FALSE]
      /\ writer'[p].todo = <<>> /\ writer'[p].saved = <<>> /\ ~ writer'[p].undo
      /\ \A other \in Writers : other # p => writer'[other] = writer[other]
    BY <1>1 DEF WritersAreRecords, IdleWriter
<1>3. \A other \in Writers : AtWork(other)' => AtWork(other) /\ other # p
    BY <1>2 DEF AtWork
<1>4. PICK value :
            /\ disk' = [disk EXCEPT ![Head(writer[p].todo).file] = value]
            /\ \/ value = disk[Head(writer[p].todo).file]
               \/ writer[p].saved = <<>> /\ Head(writer[p].todo).new # Absent
    BY <1>1, HalfWrittenIs
<1>5. PICK now : now = Head(writer[p].todo) /\ now \in Todo(p) /\ now.file \in Files
  <2>1. IsPlan(writer[p].todo) /\ writer[p].todo # <<>> /\ FilesOf(Todo(p)) \subseteq Files
      BY <1>1 DEF PlansAreInOrder, AtWork
  <2>2. Head(writer[p].todo) \in Todo(p)
      BY <2>1, PlanGoesOn DEF Todo
  <2> QED
      BY <2>1, <2>2 DEF FilesOf
<1>6. /\ \A f \in Files : f # now.file => disk'[f] = disk[f]
      /\ disk'[now.file] = value /\ DiskIsFiles'
    BY <1>4, <1>5 DEF DiskIsFiles
<1>7. TransactionsInv'
  <2>1. WritersAreRecords' /\ OneAtATime' /\ OnlyOriginalsAreLeft'
      BY <1>1, <1>2, <1>3 DEF WritersAreRecords, OneAtATime, OnlyOriginalsAreLeft
  <2>2. IsPlan(<<>>) /\ WritesOf(<<>>) = {}
    <3>1. <<>> \in Seq({}) /\ DOMAIN <<>> = {}
        OBVIOUS
    <3> QED
        BY <3>1, SomeSeqIsList DEF IsPlan, WritesOf
  <2>3. PlansAreInOrder'
      BY <1>2, <2>2 DEF PlansAreInOrder, Todo, Saved, FilesOf
  <2> QED
      BY <1>6, <2>1, <2>3
<1>8. PermissionsInv'
  <2> SUFFICES ASSUME "overlap" \notin spoilt
               PROVE  PermissionsStand' /\ PlansAreHarmless'
      BY <1>1 DEF PermissionsInv
  <2>1. PermissionsStand /\ PlansAreHarmless
      BY DEF PermissionsInv
  <2>2. Harmless(now) /\ (writer[p].saved = <<>> => TakesBackPermission(now))
      BY <1>1, <1>5, <2>1 DEF PlansAreHarmless
  <2>3. PermissionsStand'
    <3> SUFFICES ASSUME NEW m \in Majors, NEW v \in Revisions,
                        disk'[<<"receipt", m, v>>] # Absent
                 PROVE  ApprovedOn(disk', m, v)
        BY DEF PermissionsStand
    <3>1. <<"owner", m, v>> \in Files /\ <<"receipt", m, v>> \in Files
          /\ <<"owner", m, v>> # <<"receipt", m, v>>
        BY DEF Files, Reports
    <3>2. CASE now.file = <<"owner", m, v>>
        BY <1>6, <2>2, <3>1, <3>2 DEF Harmless
    <3>3. CASE now.file = <<"receipt", m, v>>
      <4>1. value = disk[now.file]
          BY <1>4, <1>5, <2>2, <3>3 DEF TakesBackPermission
      <4> QED
          BY <1>6, <2>1, <3>1, <3>3, <4>1 DEF PermissionsStand, ApprovedOn
    <3>4. CASE now.file \notin {<<"owner", m, v>>, <<"receipt", m, v>>}
        BY <1>6, <2>1, <3>1, <3>4 DEF PermissionsStand, ApprovedOn
    <3> QED
        BY <3>2, <3>3, <3>4
  <2>4. \A other \in Writers : ~ AtWork(other)'
      BY <1>1, <1>3 DEF OneAtATime
  <2> QED
      BY <2>3, <2>4 DEF PlansAreHarmless
<1>9. SoundInv'
    BY <1>1 DEF SoundInv
<1> QED
    BY <1>7, <1>8, <1>9

(* A program begins a transaction that fits what is there, and that leads     *)
(* from a sound library to a sound one unless it spoils it knowingly.         *)
Fits(w) ==
    /\ Harmless(w) /\ PermitsTheApproved(w)
    /\ \A m \in Majors, v \in Revisions :
          w.file = <<"receipt", m, v>> => disk[<<"receipt", m, v>>] = Absent

LEMMA BeginningKeeps ==
  ASSUME LibraryInv, NEW p \in Writers, ~ AtWork(p),
         NEW writes, IsPlan(writes), writes # <<>>, FilesOf(WritesOf(writes)) \subseteq Files,
         NEW saved, IsPlan(saved),
         saved # <<>> => WritesOf(saved) = Saves(WritesOf(writes)),
         saved = <<>> => \A w \in WritesOf(writes) : TakesBackPermission(w),
         NEW cause, "overlap" \notin cause, BeginWriting(p, writes, saved, cause),
         "overlap" \notin spoilt => \A w \in WritesOf(writes) : Fits(w),
         NotBoth(FilesOf(WritesOf(writes))),
         cause = {} /\ Sound(disk) => Sound(With(disk, WritesOf(writes)))
  PROVE  LibraryInv'
<1> USE DEF LibraryInv, TransactionsInv
<1>1. /\ DOMAIN writer' = Writers
      /\ writer'[p] = [todo |-> writes, saved |-> saved, undo |-> FALSE]
      /\ writer'[p].todo = writes /\ writer'[p].saved = saved /\ ~ writer'[p].undo
      /\ \A other \in Writers : other # p => writer'[other] = writer[other]
      /\ disk' = disk
      /\ spoilt' = spoilt \cup cause
                     \cup IF \E other \in Writers : AtWork(other) THEN {"overlap"} ELSE {}
    BY DEF BeginWriting, WritersAreRecords
<1>2. "overlap" \notin spoilt' =>
         "overlap" \notin spoilt /\ \A other \in Writers : AtWork(other)' => other = p
    BY <1>1 DEF AtWork
<1>3. /\ With(disk, Saves(WritesOf(writes))) = disk
      /\ FilesOf(Saves(WritesOf(writes))) = FilesOf(WritesOf(writes))
    BY WithSavesIsTheDisk
<1>4. AtWork(p)' /\ Todo(p)' = WritesOf(writes)
    BY <1>1 DEF AtWork, Todo
<1>5. PICK originals : /\ originals = WritesOf(saved) /\ Saved(p)' = originals
                       /\ saved # <<>> => originals = Saves(WritesOf(writes))
                       /\ saved = <<>> => originals = {}
  <2>1. Saved(p)' = WritesOf(saved)
      BY <1>1 DEF Saved, WritesOf
  <2>2. WritesOf(<<>>) = {}
      BY DEF WritesOf
  <2> QED
      BY <2>1, <2>2
<1>6. TransactionsInv'
  <2>1. DiskIsFiles' /\ WritersAreRecords' /\ OneAtATime' /\ OnlyOriginalsAreLeft'
      BY <1>1, <1>2 DEF DiskIsFiles, WritersAreRecords, OneAtATime, OnlyOriginalsAreLeft
  <2>2. /\ FilesOf(originals) \subseteq Files
        /\ saved # <<>> => FilesOf(WritesOf(writes)) \subseteq FilesOf(originals)
      BY <1>3, <1>5 DEF FilesOf
  <2>3. PlansAreInOrder'
      BY <1>1, <1>4, <1>5, <2>2 DEF PlansAreInOrder, Todo, Saved
  <2> QED
      BY <2>1, <2>3
<1>7. PermissionsInv'
  <2> SUFFICES ASSUME "overlap" \notin spoilt'
               PROVE  PermissionsStand' /\ PlansAreHarmless'
      BY DEF PermissionsInv
  <2>1. PermissionsStand'
      BY <1>1, <1>2 DEF PermissionsInv, PermissionsStand, ApprovedOn
  <2>2. /\ \A w \in WritesOf(writes) : Harmless(w)' /\ PermitsTheApproved(w)'
      BY <1>1, <1>2 DEF Fits, Harmless, PermitsTheApproved, ApprovedOn
  <2>3. \A s \in originals : Harmless(s)' /\ TakesBackPermission(s)
    <3> SUFFICES ASSUME NEW s \in originals PROVE Harmless(s)' /\ TakesBackPermission(s)
        OBVIOUS
    <3>1. PICK w \in WritesOf(writes) : s = Write(w.file, disk[w.file])
        BY <1>5 DEF Saves
    <3>2. s.file = w.file /\ s.new = disk[w.file]
        BY <3>1 DEF Write
    <3>3. Fits(w)
        BY <1>2
    <3>4. Harmless(s)'
        BY <1>1, <3>2, <3>3 DEF Fits, Harmless
    <3>5. TakesBackPermission(s)
        BY <3>2, <3>3 DEF Fits, TakesBackPermission
    <3> QED
        BY <3>4, <3>5
  <2>4. FilesOf(WritesOf(writes)) \cup FilesOf(originals) = FilesOf(WritesOf(writes))
      BY <1>3, <1>5 DEF FilesOf
  <2>5. PlansAreHarmless'
    <3> SUFFICES ASSUME NEW other \in Writers, AtWork(other)'
                 PROVE  /\ \A x \in Todo(other)' : Harmless(x)' /\ PermitsTheApproved(x)'
                        /\ \A x \in Saved(other)' : Harmless(x)' /\ TakesBackPermission(x)
                        /\ writer'[other].saved = <<>> =>
                              \A x \in Todo(other)' : TakesBackPermission(x)
                        /\ NotBoth(FilesOf(Todo(other)') \cup FilesOf(Saved(other)'))
        BY DEF PlansAreHarmless, TakesBackPermission, NotBoth, FilesOf
    <3>1. other = p
        BY <1>2
    <3> QED
        BY <1>1, <1>4, <1>5, <2>2, <2>3, <2>4, <3>1
  <2> QED
      BY <2>1, <2>5
<1>8. SoundInv'
  <2> SUFFICES ASSUME spoilt' = {}
               PROVE  /\ ~ Quiet'
                      /\ \A other \in Writers : AtWork(other)' =>
                            /\ Sound(With(disk', Todo(other)'))
                            /\ writer'[other].saved # <<>> =>
                                  Sound(With(disk', Saved(other)'))
      BY DEF SoundInv, Sound, HistoriesSound, ManifestsSound, ReportSound, EntrySound,
         LatestSound, With
  <2>1. spoilt = {} /\ cause = {} /\ \A other \in Writers : ~ AtWork(other)
      BY <1>1
  <2>2. Sound(disk)
      BY <2>1 DEF SoundInv, Quiet
  <2>3. Sound(With(disk, WritesOf(writes)))
      BY <2>1, <2>2
  <2>4. \A other \in Writers : AtWork(other)' => other = p
      BY <1>2
  <2>5. saved # <<>> => Sound(With(disk, originals))
      BY <1>3, <1>5, <2>2
  <2> QED
      BY <1>1, <1>4, <1>5, <2>3, <2>4, <2>5 DEF Quiet
<1> QED
    BY <1>6, <1>7, <1>8

(* What it saves first is a plan to put everything back.                      *)
LEMMA OriginalsArePlan ==
  ASSUME NEW writes, IsPlan(writes), writes # <<>>,
         NEW saved, saved = [i \in DOMAIN writes |-> Write(writes[i].file, disk[writes[i].file])]
  PROVE  IsPlan(saved) /\ saved # <<>> /\ WritesOf(saved) = Saves(WritesOf(writes))
<1>1. Len(writes) \in Nat /\ DOMAIN writes = 1..Len(writes) /\ Len(writes) > 0
    BY ListLength DEF IsPlan
<1>2. DOMAIN saved = 1..Len(writes) /\ \A i \in DOMAIN saved : saved[i].file = writes[i].file
    BY <1>1 DEF Write
<1>3. saved \in Seq(WritesOf(saved))
  <2>1. saved \in [1..Len(writes) -> WritesOf(saved)]
      BY <1>1, <1>2 DEF WritesOf
  <2> QED
      BY <1>1, <2>1, SeqDef
<1>4. IsPlan(saved)
    BY <1>1, <1>2, <1>3 DEF IsPlan, IsList
<1>5. saved # <<>>
  <2>1. DOMAIN <<>> = {}
      OBVIOUS
  <2> QED
      BY <1>1, <1>2, <2>1
<1>6. WritesOf(saved) = Saves(WritesOf(writes))
  <2>1. WritesOf(saved) \subseteq Saves(WritesOf(writes))
      BY <1>1, <1>2 DEF Saves, WritesOf
  <2>2. Saves(WritesOf(writes)) \subseteq WritesOf(saved)
      BY <1>1, <1>2 DEF Saves, WritesOf
  <2> QED
      BY <2>1, <2>2
<1> QED
    BY <1>4, <1>5, <1>6

LEMMA PlanningKeeps ==
  ASSUME LibraryInv, NEW p \in Writers, ~ AtWork(p),
         NEW writes, IsPlan(writes), writes # <<>>, FilesOf(WritesOf(writes)) \subseteq Files,
         NEW cause, "overlap" \notin cause, Plan(p, writes, cause),
         "overlap" \notin spoilt => \A w \in WritesOf(writes) : Fits(w),
         NotBoth(FilesOf(WritesOf(writes))),
         cause = {} /\ Sound(disk) => Sound(With(disk, WritesOf(writes)))
  PROVE  LibraryInv'
<1>1. PICK saved :
         saved = [i \in DOMAIN writes |-> Write(writes[i].file, disk[writes[i].file])]
    OBVIOUS
<1>2. IsPlan(saved) /\ saved # <<>> /\ WritesOf(saved) = Saves(WritesOf(writes))
    BY <1>1, OriginalsArePlan
<1>3. BeginWriting(p, writes, saved, cause)
    BY <1>1 DEF Plan
<1> QED
    BY <1>2, <1>3, BeginningKeeps

-----------------------------------------------------------------------------
(* Manifests and what they say.                                               *)
LEMMA ManifestIs ==
  ASSUME NEW m \in ManifestRecords
  PROVE  /\ m # Absent /\ m.monthly \in BOOLEAN
         /\ m = [entries |-> m.entries, latest |-> m.latest, monthly |-> m.monthly]
         /\ m.entries \in [Reports -> [Revisions -> EntryRecords \cup {Absent}]]
         /\ m.latest \in [Reports -> LatestRecords \cup {Absent}]
         /\ \A r \in Reports, v \in Revisions : m.entries[r][v] \in EntryRecords \cup {Absent}
BY AbsentIsNoContent DEF ManifestRecords

LEMMA EntryIs ==
  ASSUME NEW e \in EntryRecords
  PROVE  /\ e # Absent /\ e.content \in Nat /\ e.prev \in Nat \cup {Absent}
         /\ e.history \in Histories \cup {Absent} /\ e.rendered \in BOOLEAN
         /\ e.decision \in {"PENDING", "APPROVE", "REJECT"}
         /\ e = [content |-> e.content, prev |-> e.prev, history |-> e.history,
                 rendered |-> e.rendered, decision |-> e.decision]
BY AbsentIsNoContent DEF EntryRecords

(* The manifest with one entry put in place, and with it the latest or not.   *)
PutIn(m, r, v, e, latest) ==
    [entries |-> [m.entries EXCEPT ![r] = [m.entries[r] EXCEPT ![v] = e]],
     latest |-> latest, monthly |-> m.monthly]

LEMMA PuttingIn ==
  ASSUME NEW m \in ManifestRecords, NEW r \in Reports, NEW v \in Revisions,
         NEW e \in EntryRecords,
         NEW latest \in [Reports -> LatestRecords \cup {Absent}]
  PROVE  /\ PutIn(m, r, v, e, latest) \in ManifestRecords
         /\ PutIn(m, r, v, e, latest).monthly = m.monthly
         /\ PutIn(m, r, v, e, latest).latest = latest
         /\ PutIn(m, r, v, e, latest).entries[r][v] = e
         /\ \A w \in Revisions : w # v =>
               PutIn(m, r, v, e, latest).entries[r][w] = m.entries[r][w]
         /\ \A o \in Reports : o # r =>
               PutIn(m, r, v, e, latest).entries[o] = m.entries[o]
<1> DEFINE row == [m.entries[r] EXCEPT ![v] = e]
           all == [m.entries EXCEPT ![r] = row]
           Rows == [Revisions -> EntryRecords \cup {Absent}]
<1>1. m.entries \in [Reports -> Rows] /\ m.monthly \in BOOLEAN
    BY ManifestIs
<1>2. row \in Rows /\ row[v] = e /\ \A w \in Revisions : w # v => row[w] = m.entries[r][w]
    BY <1>1
<1>3. PutIn(m, r, v, e, latest) = [entries |-> all, latest |-> latest, monthly |-> m.monthly]
    BY DEF PutIn
<1> HIDE DEF Rows, row
<1>4. all \in [Reports -> Rows] /\ all[r] = row
      /\ \A o \in Reports : o # r => all[o] = m.entries[o]
    BY <1>1, <1>2
<1> HIDE DEF all
<1>5. [entries |-> all, latest |-> latest, monthly |-> m.monthly] \in ManifestRecords
    BY <1>1, <1>4 DEF ManifestRecords, Rows
<1> QED
    BY <1>2, <1>3, <1>4, <1>5

LEMMA AddedIs ==
  ASSUME NEW m \in ManifestRecords, NEW r \in Reports, NEW v \in Revisions,
         NEW e \in EntryRecords
  PROVE  /\ Added(m, r, v, e) \in ManifestRecords
         /\ Added(m, r, v, e).monthly = m.monthly
         /\ Added(m, r, v, e).entries[r][v] = e
         /\ \A w \in Revisions : w # v => Added(m, r, v, e).entries[r][w] = m.entries[r][w]
         /\ Added(m, r, v, e).latest[r] = [v |-> v, entry |-> e]
         /\ \A o \in Reports : o # r =>
               /\ Added(m, r, v, e).entries[o] = m.entries[o]
               /\ Added(m, r, v, e).latest[o] = m.latest[o]
<1> DEFINE latest == [m.latest EXCEPT ![r] = [v |-> v, entry |-> e]]
<1>1. Added(m, r, v, e) = PutIn(m, r, v, e, latest)
  <2>1. PICK all, last, monthly :
           /\ m = [entries |-> all, latest |-> last, monthly |-> monthly]
           /\ m.entries = all /\ m.latest = last /\ m.monthly = monthly
      BY ManifestIs
  <2>2. PICK rows, it : /\ rows = [all EXCEPT ![r] = [all[r] EXCEPT ![v] = e]]
                        /\ it = [v |-> v, entry |-> e]
      OBVIOUS
  <2>3. PICK half : half = [m EXCEPT !.entries[r][v] = e]
      OBVIOUS
  <2>4. half = [entries |-> rows, latest |-> last, monthly |-> monthly]
      BY <2>1, <2>2, <2>3
  <2>5. Added(m, r, v, e) = [half EXCEPT !.latest[r] = it]
      BY <2>1, <2>2, <2>3 DEF Added
  <2>6. [half EXCEPT !.latest[r] = it]
           = [entries |-> rows, latest |-> [last EXCEPT ![r] = it], monthly |-> monthly]
      BY <2>4
  <2> QED
      BY <2>1, <2>2, <2>5, <2>6 DEF PutIn
<1>2. [v |-> v, entry |-> e] \in LatestRecords
    BY DEF LatestRecords
<1>3. m.latest \in [Reports -> LatestRecords \cup {Absent}]
    BY ManifestIs
<1>4. /\ latest \in [Reports -> LatestRecords \cup {Absent}]
      /\ latest[r] = [v |-> v, entry |-> e]
      /\ \A o \in Reports : o # r => latest[o] = m.latest[o]
    BY <1>2, <1>3
<1> HIDE DEF latest
<1> QED
    BY <1>1, <1>4, PuttingIn

LEMMA PutOnlyIs ==
  ASSUME NEW m \in ManifestRecords, NEW r \in Reports, NEW v \in Revisions,
         NEW e \in EntryRecords
  PROVE  [m EXCEPT !.entries[r][v] = e] = PutIn(m, r, v, e, m.latest)
<1>1. PICK all, last, monthly :
         /\ m = [entries |-> all, latest |-> last, monthly |-> monthly]
         /\ m.entries = all /\ m.latest = last /\ m.monthly = monthly
    BY ManifestIs
<1>2. [[entries |-> all, latest |-> last, monthly |-> monthly] EXCEPT !.entries[r][v] = e]
         = [entries |-> [all EXCEPT ![r] = [all[r] EXCEPT ![v] = e]],
            latest |-> last, monthly |-> monthly]
    OBVIOUS
<1> QED
    BY <1>1, <1>2 DEF PutIn

LEMMA EmptyManifestIs ==
  /\ EmptyManifest \in ManifestRecords /\ EmptyManifest.monthly = FALSE
  /\ \A r \in Reports : EmptyManifest.latest[r] = Absent
  /\ \A r \in Reports, v \in Revisions : EmptyManifest.entries[r][v] = Absent
<1> DEFINE none == [v \in Revisions |-> Absent]
           rows == [r \in Reports |-> none]
           latest == [r \in Reports |-> Absent]
<1>1. EmptyManifest = [entries |-> rows, latest |-> latest, monthly |-> FALSE]
    BY DEF EmptyManifest
<1>2. /\ none \in [Revisions -> EntryRecords \cup {Absent}]
      /\ rows \in [Reports -> [Revisions -> EntryRecords \cup {Absent}]]
      /\ latest \in [Reports -> LatestRecords \cup {Absent}]
    OBVIOUS
<1>3. /\ \A r \in Reports : latest[r] = Absent
      /\ \A r \in Reports, v \in Revisions : rows[r][v] = Absent
    OBVIOUS
<1> HIDE DEF rows, latest
<1>4. FALSE \in BOOLEAN
    OBVIOUS
<1>5. [entries |-> rows, latest |-> latest, monthly |-> FALSE] \in ManifestRecords
    BY <1>2, <1>4 DEF ManifestRecords
<1> QED
    BY <1>1, <1>3, <1>5

(* A sound report has exactly as many revisions as it counts.                 *)
LEMMA RevisionsAreOneToN ==
  ASSUME NEW n \in 0..MaxRevision, NEW r, NEW d,
         ReportSound(d, d[<<"runtime">>], d[<<"library">>], r, n)
  PROVE  /\ RevisionsIn(d[<<"runtime">>], r) = 1..n /\ RevisionsIn(d[<<"library">>], r) = 1..n
         /\ Cardinality(1..n) = n /\ 1..n \subseteq Revisions
<1>1. 1..n \subseteq Revisions
    BY RevisionsAreCounted DEF Revisions
<1>2. \A v \in Revisions : v \in 1..n <=> v <= n
    BY RevisionsAreCounted DEF Revisions
<1>3. Cardinality(1..n) = n
    BY FS_Interval, RevisionsAreCounted
<1> QED
    BY <1>1, <1>2, <1>3 DEF RevisionsIn, ReportSound

LEMMA CountIs ==
  ASSUME ManifestsSound(disk), NEW r \in Reports
  PROVE  /\ Count(r) \in 0..MaxRevision /\ ReportSound(disk, Runtime, Library, r, Count(r))
         /\ RevisionsIn(Runtime, r) = 1..Count(r) /\ RevisionsIn(Library, r) = 1..Count(r)
<1>1. PICK n \in 0..MaxRevision : ReportSound(disk, disk[<<"runtime">>], disk[<<"library">>], r, n)
    BY DEF ManifestsSound
<1>2. Count(r) = n
    BY <1>1, RevisionsAreOneToN DEF Count, Runtime
<1> QED
    BY <1>1, <1>2, RevisionsAreOneToN DEF Runtime, Library

(* Where one report's entries and files are replaced and the report stays     *)
(* sound, so does the library.                                                *)
LEMMA OneReportReplaced ==
  ASSUME NEW d, NEW e, NEW r \in Reports, ManifestsSound(d), HistoriesSound(e),
         e[<<"runtime">>] \in ManifestRecords, e[<<"library">>] \in ManifestRecords,
         e[<<"runtime">>].monthly = d[<<"runtime">>].monthly,
         e[<<"library">>].monthly = d[<<"library">>].monthly,
         \A o \in Reports : o # r =>
            /\ \A m \in Manifests : /\ e[m].entries[o] = d[m].entries[o]
                                    /\ e[m].latest[o] = d[m].latest[o]
            /\ \A v \in Revisions : /\ e[<<"body", o, v>>] = d[<<"body", o, v>>]
                                    /\ e[<<"owner", o, v>>] = d[<<"owner", o, v>>]
                                    /\ o \in Quarters =>
                                          e[<<"history", o, v>>] = d[<<"history", o, v>>],
         NEW k \in 0..MaxRevision,
         ReportSound(e, e[<<"runtime">>], e[<<"library">>], r, k)
  PROVE  Sound(e)
<1>1. ASSUME NEW o \in Reports, o # r
      PROVE  \E n \in 0..MaxRevision : ReportSound(e, e[<<"runtime">>], e[<<"library">>], o, n)
  <2>1. PICK n \in 0..MaxRevision :
           ReportSound(d, d[<<"runtime">>], d[<<"library">>], o, n)
      BY DEF ManifestsSound
  <2>2. /\ e[<<"runtime">>].entries[o] = d[<<"runtime">>].entries[o]
        /\ e[<<"library">>].entries[o] = d[<<"library">>].entries[o]
        /\ e[<<"runtime">>].latest[o] = d[<<"runtime">>].latest[o]
        /\ e[<<"library">>].latest[o] = d[<<"library">>].latest[o]
      BY <1>1 DEF Manifests
  <2>3. 1..n \subseteq Revisions
      BY RevisionsAreCounted DEF Revisions
  <2>4. ASSUME NEW v \in 1..n
        PROVE  EntrySound(e, e[<<"runtime">>].entries[o], e[<<"library">>].entries[o], o, v)
    <3>1. EntrySound(d, d[<<"runtime">>].entries[o], d[<<"library">>].entries[o], o, v)
        BY <2>1 DEF ReportSound
    <3>2. /\ e[<<"body", o, v>>] = d[<<"body", o, v>>]
          /\ e[<<"owner", o, v>>] = d[<<"owner", o, v>>]
          /\ o \in Quarters => e[<<"history", o, v>>] = d[<<"history", o, v>>]
        BY <1>1, <2>3
    <3> QED
        BY <2>2, <3>1, <3>2 DEF EntrySound
  <2>5. ReportSound(e, e[<<"runtime">>], e[<<"library">>], o, n)
      BY <2>1, <2>2, <2>4 DEF ReportSound, LatestSound
  <2> QED
      BY <2>5
<1>2. ManifestsSound(e)
    BY <1>1 DEF ManifestsSound
<1> QED
    BY <1>2 DEF Sound

(* A new revision, one after the last, that rests on the content of the last. *)
Alike(left, right) ==
    /\ left.content = right.content /\ left.prev = right.prev /\ left.history = right.history
    /\ left.rendered = right.rendered /\ left.decision = right.decision
OthersStay(d, e, r, v) ==
    /\ \A o \in Reports, w \in Revisions : <<o, w>> # <<r, v>> =>
          /\ e[<<"body", o, w>>] = d[<<"body", o, w>>]
          /\ e[<<"owner", o, w>>] = d[<<"owner", o, w>>]
          /\ o \in Quarters => e[<<"history", o, w>>] = d[<<"history", o, w>>]
FilesTell(e, entry, r, v) ==
    /\ e[<<"body", r, v>>] = entry.content
    /\ r \in Quarters =>
          /\ e[<<"owner", r, v>>] = entry.content
          /\ entry.history # Absent => e[<<"history", r, v>>] = entry.history
    /\ r \in Majors =>
          /\ e[<<"owner", r, v>>] \in OwnerRecords
          /\ e[<<"owner", r, v>>].rendered = entry.rendered

LEMMA NewRevisionIsSound ==
  ASSUME NEW d, NEW e, NEW r \in Reports, ManifestsSound(d), HistoriesSound(e),
         NEW n \in 0..MaxRevision, n + 1 \in Revisions,
         ReportSound(d, d[<<"runtime">>], d[<<"library">>], r, n),
         NEW entry \in EntryRecords,
         entry.prev = IF n = 0 THEN Absent ELSE d[<<"runtime">>].entries[r][n].content,
         e[<<"runtime">>] = Added(d[<<"runtime">>], r, n + 1, entry),
         e[<<"library">>] = Added(d[<<"library">>], r, n + 1, entry),
         FilesTell(e, entry, r, n + 1), OthersStay(d, e, r, n + 1)
  PROVE  Sound(e)
<1> DEFINE v == n + 1
<1>0. n \in Nat /\ v \in Revisions /\ v # n /\ v > 0 /\ v \in 0..MaxRevision
    BY RevisionsAreCounted DEF Revisions
<1>1. d[<<"runtime">>] \in ManifestRecords /\ d[<<"library">>] \in ManifestRecords
    BY DEF ManifestsSound
<1>2. \A m \in Manifests :
         /\ e[m] \in ManifestRecords /\ e[m].monthly = d[m].monthly
         /\ e[m].entries[r][v] = entry
         /\ \A w \in Revisions : w # v => e[m].entries[r][w] = d[m].entries[r][w]
         /\ e[m].latest[r] = [v |-> v, entry |-> entry]
         /\ \A o \in Reports : o # r =>
               e[m].entries[o] = d[m].entries[o] /\ e[m].latest[o] = d[m].latest[o]
  <2>1. \A m \in Manifests : d[m] \in ManifestRecords /\ e[m] = Added(d[m], r, v, entry)
      BY <1>1 DEF Manifests
  <2> HIDE DEF v
  <2> QED
      BY <1>0, <2>1, AddedIs
<1> HIDE DEF v
<1>3. ASSUME NEW m \in Manifests
      PROVE  LatestSound(e[m], r, v)
  <2>1. [v |-> v, entry |-> entry] \in LatestRecords
      BY <1>0 DEF LatestRecords
  <2> QED
      BY <1>0, <1>2, <2>1, AbsentIsNoContent DEF LatestSound
<1>4. ASSUME NEW m \in Manifests, NEW w \in Revisions
      PROVE  e[m].entries[r][w] # Absent <=> w <= v
  <2>1. d[m].entries[r][w] # Absent <=> w <= n
      BY DEF ReportSound, Manifests
  <2>2. entry # Absent
      BY EntryIs
  <2> QED
      BY <1>0, <1>2, <2>1, <2>2 DEF Revisions, v
<1>5. ASSUME NEW w \in 1..v
      PROVE  EntrySound(e, e[<<"runtime">>].entries[r], e[<<"library">>].entries[r], r, w)
  <2>1. CASE w = v
    <3>1. /\ e[<<"runtime">>].entries[r][v] = entry /\ e[<<"library">>].entries[r][v] = entry
        BY <1>2 DEF Manifests
    <3>2. entry.prev = IF v = 1 THEN Absent ELSE e[<<"runtime">>].entries[r][v - 1].content
      <4>1. n = 0 <=> v = 1
          BY <1>0 DEF v
      <4>2. n # 0 => e[<<"runtime">>].entries[r][n] = d[<<"runtime">>].entries[r][n]
          BY <1>0, <1>2 DEF Manifests, Revisions
      <4>3. v - 1 = n
          BY <1>0 DEF v
      <4> QED
          BY <4>1, <4>2, <4>3
    <3> QED
        BY <2>1, <3>1, <3>2 DEF EntrySound, FilesTell, v
  <2>2. CASE w # v
    <3>1. w \in 1..n /\ w \in Revisions /\ (w # 1 => w - 1 \in Revisions /\ w - 1 # v)
        BY <1>0, <2>2, RevisionsAreCounted DEF v, Revisions
    <3>2. EntrySound(d, d[<<"runtime">>].entries[r], d[<<"library">>].entries[r], r, w)
        BY <3>1 DEF ReportSound
    <3>3. /\ e[<<"runtime">>].entries[r][w] = d[<<"runtime">>].entries[r][w]
          /\ e[<<"library">>].entries[r][w] = d[<<"library">>].entries[r][w]
          /\ w # 1 => e[<<"runtime">>].entries[r][w - 1] = d[<<"runtime">>].entries[r][w - 1]
        BY <1>2, <2>2, <3>1 DEF Manifests
    <3>4. /\ e[<<"body", r, w>>] = d[<<"body", r, w>>]
          /\ e[<<"owner", r, w>>] = d[<<"owner", r, w>>]
          /\ r \in Quarters => e[<<"history", r, w>>] = d[<<"history", r, w>>]
      <4>1. <<r, w>> # <<r, n + 1>>
          BY <2>2 DEF v
      <4> QED
          BY <3>1, <4>1 DEF OthersStay
    <3> QED
        BY <3>2, <3>3, <3>4 DEF EntrySound
  <2> QED
      BY <2>1, <2>2
<1>6. ReportSound(e, e[<<"runtime">>], e[<<"library">>], r, v)
    BY <1>3, <1>4, <1>5 DEF ReportSound, Manifests
<1>7. \A o \in Reports : o # r =>
         /\ \A m \in Manifests : /\ e[m].entries[o] = d[m].entries[o]
                                 /\ e[m].latest[o] = d[m].latest[o]
         /\ \A w \in Revisions : /\ e[<<"body", o, w>>] = d[<<"body", o, w>>]
                                 /\ e[<<"owner", o, w>>] = d[<<"owner", o, w>>]
                                 /\ o \in Quarters =>
                                       e[<<"history", o, w>>] = d[<<"history", o, w>>]
    BY <1>2 DEF OthersStay
<1>8. /\ e[<<"runtime">>] \in ManifestRecords /\ e[<<"library">>] \in ManifestRecords
      /\ e[<<"runtime">>].monthly = d[<<"runtime">>].monthly
      /\ e[<<"library">>].monthly = d[<<"library">>].monthly
    BY <1>2 DEF Manifests
<1> QED
    BY <1>0, <1>6, <1>7, <1>8, OneReportReplaced

(* A revision that is there, changed: not its content if another rests on it. *)
LEMMA WithEntryIs ==
  ASSUME NEW m \in ManifestRecords, NEW r \in Reports, NEW v \in Revisions,
         NEW e \in EntryRecords
  PROVE  /\ WithEntry(m, r, v, e) \in ManifestRecords
         /\ WithEntry(m, r, v, e).monthly = m.monthly
         /\ WithEntry(m, r, v, e).entries[r][v] = e
         /\ \A w \in Revisions : w # v => WithEntry(m, r, v, e).entries[r][w] = m.entries[r][w]
         /\ WithEntry(m, r, v, e).latest[r] =
               IF m.latest[r].v = v THEN [v |-> v, entry |-> e] ELSE m.latest[r]
         /\ \A o \in Reports : o # r =>
               /\ WithEntry(m, r, v, e).entries[o] = m.entries[o]
               /\ WithEntry(m, r, v, e).latest[o] = m.latest[o]
<1>1. CASE m.latest[r].v = v
    BY <1>1, AddedIs DEF WithEntry
<1>2. CASE m.latest[r].v # v
  <2>1. WithEntry(m, r, v, e) = PutIn(m, r, v, e, m.latest)
      BY <1>2, PutOnlyIs DEF WithEntry
  <2>2. m.latest \in [Reports -> LatestRecords \cup {Absent}]
      BY ManifestIs
  <2> QED
      BY <1>2, <2>1, <2>2, PuttingIn
<1> QED
    BY <1>1, <1>2

LEMMA ChangedRevisionIsSound ==
  ASSUME NEW d, NEW e, NEW r \in Reports, ManifestsSound(d), HistoriesSound(e),
         NEW n \in 0..MaxRevision, NEW v \in 1..n,
         ReportSound(d, d[<<"runtime">>], d[<<"library">>], r, n),
         NEW left \in EntryRecords, NEW right \in EntryRecords, Alike(left, right),
         left.prev = d[<<"runtime">>].entries[r][v].prev,
         v < n => left.content = d[<<"runtime">>].entries[r][v].content,
         e[<<"runtime">>] = WithEntry(d[<<"runtime">>], r, v, left),
         e[<<"library">>] = WithEntry(d[<<"library">>], r, v, right),
         FilesTell(e, left, r, v), OthersStay(d, e, r, v)
  PROVE  Sound(e)
<1>0. n \in Nat /\ v \in Revisions /\ v <= n /\ n > 0 /\ n \in Revisions
    BY RevisionsAreCounted DEF Revisions
<1> DEFINE entry(m) == IF m = <<"runtime">> THEN left ELSE right
<1>1. d[<<"runtime">>] \in ManifestRecords /\ d[<<"library">>] \in ManifestRecords
    BY DEF ManifestsSound
<1>2. \A m \in Manifests :
         /\ e[m] \in ManifestRecords /\ e[m].monthly = d[m].monthly
         /\ e[m].entries[r][v] = entry(m) /\ entry(m) \in EntryRecords
         /\ \A w \in Revisions : w # v => e[m].entries[r][w] = d[m].entries[r][w]
         /\ e[m].latest[r] = IF d[m].latest[r].v = v THEN [v |-> v, entry |-> entry(m)]
                                                     ELSE d[m].latest[r]
         /\ \A o \in Reports : o # r =>
               e[m].entries[o] = d[m].entries[o] /\ e[m].latest[o] = d[m].latest[o]
  <2>1. \A m \in Manifests :
           d[m] \in ManifestRecords /\ e[m] = WithEntry(d[m], r, v, entry(m))
    <3>1. <<"runtime">> # <<"library">>
        OBVIOUS
    <3> QED
        BY <1>1, <3>1 DEF Manifests
  <2>2. \A m \in Manifests : entry(m) \in EntryRecords
      OBVIOUS
  <2> HIDE DEF entry
  <2> QED
      BY <1>0, <2>1, <2>2, WithEntryIs
<1>9. entry(<<"runtime">>) = left /\ entry(<<"library">>) = right
    OBVIOUS
<1> HIDE DEF entry
<1>3. ASSUME NEW m \in Manifests
      PROVE  LatestSound(e[m], r, n)
  <2>1. LatestSound(d[m], r, n)
      BY DEF ReportSound, Manifests
  <2>2. CASE v = n
    <3>1. [v |-> v, entry |-> entry(m)] \in LatestRecords
        BY <1>0, <1>2 DEF LatestRecords
    <3> QED
        BY <1>0, <1>2, <2>1, <2>2, <3>1, AbsentIsNoContent DEF LatestSound
  <2>3. CASE v # n
      BY <1>0, <1>2, <2>1, <2>3 DEF LatestSound
  <2> QED
      BY <2>2, <2>3
<1>4. ASSUME NEW m \in Manifests, NEW w \in Revisions
      PROVE  e[m].entries[r][w] # Absent <=> w <= n
  <2>1. d[m].entries[r][w] # Absent <=> w <= n
      BY DEF ReportSound, Manifests
  <2>2. entry(m) # Absent
      BY <1>2, EntryIs
  <2> QED
      BY <1>0, <1>2, <2>1, <2>2
<1>5. ASSUME NEW w \in 1..n
      PROVE  EntrySound(e, e[<<"runtime">>].entries[r], e[<<"library">>].entries[r], r, w)
  <2>0. w \in Revisions /\ (w # 1 => w - 1 \in Revisions)
      BY <1>0, RevisionsAreCounted DEF Revisions
  <2>3. EntrySound(d, d[<<"runtime">>].entries[r], d[<<"library">>].entries[r], r, w)
      BY DEF ReportSound
  <2>4. /\ e[<<"runtime">>].entries[r][v] = left /\ e[<<"library">>].entries[r][v] = right
        /\ \A x \in Revisions : x # v =>
              /\ e[<<"runtime">>].entries[r][x] = d[<<"runtime">>].entries[r][x]
              /\ e[<<"library">>].entries[r][x] = d[<<"library">>].entries[r][x]
      BY <1>2, <1>9 DEF Manifests
  <2>5. w # 1 => e[<<"runtime">>].entries[r][w - 1].content
                    = d[<<"runtime">>].entries[r][w - 1].content
    <3>1. w - 1 = v => v < n
        BY <1>0
    <3> QED
        BY <2>0, <2>4, <3>1
  <2>1. CASE w = v
      BY <2>1, <2>3, <2>4, <2>5 DEF EntrySound, FilesTell, Alike
  <2>2. CASE w # v
    <3>1. /\ e[<<"body", r, w>>] = d[<<"body", r, w>>]
          /\ e[<<"owner", r, w>>] = d[<<"owner", r, w>>]
          /\ r \in Quarters => e[<<"history", r, w>>] = d[<<"history", r, w>>]
      <4>1. <<r, w>> # <<r, v>>
          BY <2>2
      <4> QED
          BY <2>0, <4>1 DEF OthersStay
    <3> QED
        BY <2>0, <2>2, <2>3, <2>4, <2>5, <3>1 DEF EntrySound
  <2> QED
      BY <2>1, <2>2
<1>6. ReportSound(e, e[<<"runtime">>], e[<<"library">>], r, n)
    BY <1>3, <1>4, <1>5 DEF ReportSound, Manifests
<1>7. \A o \in Reports : o # r =>
         /\ \A m \in Manifests : /\ e[m].entries[o] = d[m].entries[o]
                                 /\ e[m].latest[o] = d[m].latest[o]
         /\ \A w \in Revisions : /\ e[<<"body", o, w>>] = d[<<"body", o, w>>]
                                 /\ e[<<"owner", o, w>>] = d[<<"owner", o, w>>]
                                 /\ o \in Quarters =>
                                       e[<<"history", o, w>>] = d[<<"history", o, w>>]
    BY <1>2 DEF OthersStay
<1>8. /\ e[<<"runtime">>] \in ManifestRecords /\ e[<<"library">>] \in ManifestRecords
      /\ e[<<"runtime">>].monthly = d[<<"runtime">>].monthly
      /\ e[<<"library">>].monthly = d[<<"library">>].monthly
    BY <1>2 DEF Manifests
<1> QED
    BY <1>6, <1>7, <1>8, OneReportReplaced

-----------------------------------------------------------------------------
(* What the programs plan.                                                    *)
LEMMA PlansThatFit ==
  ASSUME NEW writes,
         \A w \in writes : \A m \in Majors, v \in Revisions : w.file # <<"receipt", m, v>>,
         "overlap" \notin spoilt =>
            \A w \in writes : \A m \in Majors, v \in Revisions :
               w.file = <<"owner", m, v>> => disk[<<"receipt", m, v>>] = Absent
  PROVE  /\ "overlap" \notin spoilt => \A w \in writes : Fits(w)
         /\ NotBoth(FilesOf(writes))
<1>1. "overlap" \notin spoilt => \A w \in writes : Fits(w)
    BY DEF Fits, Harmless, PermitsTheApproved
<1>2. NotBoth(FilesOf(writes))
    BY DEF NotBoth, FilesOf
<1> QED
    BY <1>1, <1>2

LEMMA NotYetApproved ==
  ASSUME LibraryInv, NEW m \in Majors, NEW v \in Revisions,
         disk[<<"owner", m, v>>] = Absent \/ disk[<<"owner", m, v>>].decision = "PENDING"
  PROVE  "overlap" \notin spoilt => disk[<<"receipt", m, v>>] = Absent
BY DEF LibraryInv, PermissionsInv, PermissionsStand, ApprovedOn

LEMMA ValidIsThere ==
  ASSUME NEW r, Valid(r)
  PROVE  /\ Runtime # Absent /\ Library # Absent
         /\ Sound(disk) => ManifestsSound(disk) /\ HistoriesSound(disk)
BY DEF Valid, Healthy, Related, Manifests, Runtime, Library, Sound

LEMMA WithIsFiles ==
  ASSUME NEW d, NEW writes
  PROVE  With(d, writes) = [f \in Files |-> With(d, writes)[f]]
BY DEF With

(* The plans of the programs: one, two or three files, then both manifests.   *)
BothManifests(runtime, library) ==
    {Write(<<"runtime">>, runtime), Write(<<"library">>, library)}

LEMMA PlanWithManifests ==
  ASSUME NEW s, IsPlan(s), s # <<>>, FilesOf(WritesOf(s)) \subseteq Files \ Manifests,
         NEW runtime, NEW library
  PROVE  /\ IsPlan(s \o ReplaceManifests(runtime, library))
         /\ s \o ReplaceManifests(runtime, library) # <<>>
         /\ WritesOf(s \o ReplaceManifests(runtime, library))
               = WritesOf(s) \cup BothManifests(runtime, library)
         /\ FilesOf(WritesOf(s \o ReplaceManifests(runtime, library)))
               = FilesOf(WritesOf(s)) \cup Manifests
<1> DEFINE a == Write(<<"runtime">>, runtime)
           b == Write(<<"library">>, library)
<1>1. a.file = <<"runtime">> /\ b.file = <<"library">> /\ a.file # b.file
    BY DEF Write
<1>2. ReplaceManifests(runtime, library) = <<a, b>> /\ BothManifests(runtime, library) = {a, b}
    BY DEF ReplaceManifests, BothManifests
<1> HIDE DEF a, b
<1>3. IsPlan(<<a, b>>) /\ WritesOf(<<a, b>>) = {a, b}
    BY <1>1, PlanOfTwo
<1>4. FilesOf({a, b}) = Manifests
    BY <1>1 DEF FilesOf, Manifests
<1>5. FilesOf(WritesOf(s)) \cap FilesOf(WritesOf(<<a, b>>)) = {}
    BY <1>3, <1>4
<1>6. /\ IsPlan(s \o <<a, b>>) /\ s \o <<a, b>> # <<>>
      /\ WritesOf(s \o <<a, b>>) = WritesOf(s) \cup {a, b}
    BY <1>3, <1>5, PlansJoin
<1>7. FilesOf(WritesOf(s) \cup {a, b}) = FilesOf(WritesOf(s)) \cup FilesOf({a, b})
    BY DEF FilesOf
<1> QED
    BY <1>2, <1>4, <1>6, <1>7

LEMMA FilesAre ==
  /\ Manifests \subseteq Files /\ <<"runtime">> \in Manifests /\ <<"library">> \in Manifests
  /\ \A r \in Reports, v \in Revisions :
        /\ <<"body", r, v>> \in Files \ Manifests
        /\ <<"owner", r, v>> \in Files \ Manifests
  /\ \A q \in Quarters, v \in Revisions :
        /\ <<"history", q, v>> \in Files \ Manifests
        /\ <<"run", q, v>> \in Files \ Manifests
  /\ \A m \in Majors, v \in Revisions :
        /\ <<"render", m, v>> \in Files \ Manifests
        /\ <<"receipt", m, v>> \in Files \ Manifests
BY DEF Files, Manifests

PlanIs(t, first, files, runtime, library) ==
    /\ IsPlan(t) /\ t # <<>> /\ OneEach(WritesOf(t))
    /\ WritesOf(t) = first \cup BothManifests(runtime, library)
    /\ FilesOf(WritesOf(t)) = files \cup Manifests /\ FilesOf(WritesOf(t)) \subseteq Files

LEMMA PlanOfAFile ==
  ASSUME NEW f \in Files \ Manifests, NEW x, NEW runtime, NEW library
  PROVE  PlanIs(<<Write(f, x)>> \o ReplaceManifests(runtime, library),
                {Write(f, x)}, {f}, runtime, library)
<1>0. PICK t : t = <<Write(f, x)>> \o ReplaceManifests(runtime, library)
    OBVIOUS
<1>1. PICK s, w : s = <<w>> /\ w = Write(f, x)
    OBVIOUS
<1>9. w.file = f
    BY <1>1 DEF Write
<1>2. IsPlan(s) /\ WritesOf(s) = {w} /\ s # <<>>
    BY <1>1, <1>9, PlanOfOne
<1>3. FilesOf(WritesOf(s)) = {f}
    BY <1>1, <1>2, <1>9 DEF FilesOf
<1>4. t = s \o ReplaceManifests(runtime, library)
    BY <1>0, <1>1
<1>5. FilesOf(WritesOf(s)) \subseteq Files \ Manifests
    BY <1>3
<1>6. /\ IsPlan(t) /\ t # <<>>
      /\ WritesOf(t) = WritesOf(s) \cup BothManifests(runtime, library)
      /\ FilesOf(WritesOf(t)) = FilesOf(WritesOf(s)) \cup Manifests
    BY <1>2, <1>4, <1>5, PlanWithManifests
<1>7. OneEach(WritesOf(t))
    BY <1>6, PlanIsOneEach
<1>8. FilesOf(WritesOf(t)) \subseteq Files
    BY <1>3, <1>6, FilesAre
<1> QED
    BY <1>0, <1>1, <1>2, <1>3, <1>6, <1>7, <1>8 DEF PlanIs

LEMMA PlanOfTwoFiles ==
  ASSUME NEW f \in Files \ Manifests, NEW g \in Files \ Manifests, f # g,
         NEW x, NEW y, NEW runtime, NEW library
  PROVE  PlanIs(<<Write(f, x), Write(g, y)>> \o ReplaceManifests(runtime, library),
                {Write(f, x), Write(g, y)}, {f, g}, runtime, library)
<1>0. PICK t : t = <<Write(f, x), Write(g, y)>> \o ReplaceManifests(runtime, library)
    OBVIOUS
<1>1. PICK s, w, z : s = <<w, z>> /\ w = Write(f, x) /\ z = Write(g, y)
    OBVIOUS
<1>9. w.file = f /\ z.file = g
    BY <1>1 DEF Write
<1>2. IsPlan(s) /\ WritesOf(s) = {w, z} /\ s # <<>>
    BY <1>1, <1>9, PlanOfTwo
<1>3. FilesOf(WritesOf(s)) = {f, g}
    BY <1>1, <1>2, <1>9 DEF FilesOf
<1>4. t = s \o ReplaceManifests(runtime, library)
    BY <1>0, <1>1
<1>5. FilesOf(WritesOf(s)) \subseteq Files \ Manifests
    BY <1>3
<1>6. /\ IsPlan(t) /\ t # <<>>
      /\ WritesOf(t) = WritesOf(s) \cup BothManifests(runtime, library)
      /\ FilesOf(WritesOf(t)) = FilesOf(WritesOf(s)) \cup Manifests
    BY <1>2, <1>4, <1>5, PlanWithManifests
<1>7. OneEach(WritesOf(t))
    BY <1>6, PlanIsOneEach
<1>8. FilesOf(WritesOf(t)) \subseteq Files
    BY <1>3, <1>6, FilesAre
<1> QED
    BY <1>0, <1>1, <1>2, <1>3, <1>6, <1>7, <1>8 DEF PlanIs

LEMMA PlanOfThreeFiles ==
  ASSUME NEW f \in Files \ Manifests, NEW g \in Files \ Manifests,
         NEW h \in Files \ Manifests, f # g, f # h, g # h,
         NEW x, NEW y, NEW u, NEW runtime, NEW library
  PROVE  PlanIs(<<Write(f, x), Write(g, y), Write(h, u)>> \o ReplaceManifests(runtime, library),
                {Write(f, x), Write(g, y), Write(h, u)}, {f, g, h}, runtime, library)
<1>0. PICK t : t = <<Write(f, x), Write(g, y), Write(h, u)>> \o ReplaceManifests(runtime, library)
    OBVIOUS
<1>1. PICK s, w, z, c : /\ s = <<w, z, c>>
                        /\ w = Write(f, x) /\ z = Write(g, y) /\ c = Write(h, u)
    OBVIOUS
<1>9. w.file = f /\ z.file = g /\ c.file = h
    BY <1>1 DEF Write
<1>2. IsPlan(s) /\ WritesOf(s) = {w, z, c} /\ s # <<>>
    BY <1>1, <1>9, PlanOfThree
<1>3. FilesOf(WritesOf(s)) = {f, g, h}
    BY <1>1, <1>2, <1>9 DEF FilesOf
<1>4. t = s \o ReplaceManifests(runtime, library)
    BY <1>0, <1>1
<1>5. FilesOf(WritesOf(s)) \subseteq Files \ Manifests
    BY <1>3
<1>6. /\ IsPlan(t) /\ t # <<>>
      /\ WritesOf(t) = WritesOf(s) \cup BothManifests(runtime, library)
      /\ FilesOf(WritesOf(t)) = FilesOf(WritesOf(s)) \cup Manifests
    BY <1>2, <1>4, <1>5, PlanWithManifests
<1>7. OneEach(WritesOf(t))
    BY <1>6, PlanIsOneEach
<1>8. FilesOf(WritesOf(t)) \subseteq Files
    BY <1>3, <1>6, FilesAre
<1> QED
    BY <1>0, <1>1, <1>2, <1>3, <1>6, <1>7, <1>8 DEF PlanIs

(* The sound library with a new revision of a report.                         *)
AddsRevision(writes, r, v, owner) ==
    /\ Write(<<"runtime">>, Added(Runtime, r, v, NewEntry(PreviousContent(r)))) \in writes
    /\ Write(<<"library">>, Added(Library, r, v, NewEntry(PreviousContent(r)))) \in writes
    /\ Write(<<"body", r, v>>, 0) \in writes /\ Write(<<"owner", r, v>>, owner) \in writes
    /\ r \in Quarters => owner = 0
    /\ r \in Majors => owner \in OwnerRecords /\ owner.rendered = FALSE
    /\ \A o \in Reports, w \in Revisions :
          /\ <<"body", o, w>> \in FilesOf(writes) => <<o, w>> = <<r, v>>
          /\ <<"owner", o, w>> \in FilesOf(writes) => <<o, w>> = <<r, v>>
          /\ <<"history", o, w>> \notin FilesOf(writes)

LEMMA AddingARevision ==
  ASSUME ManifestsSound(disk), HistoriesSound(disk),
         NEW r \in Reports, NEW v \in Revisions, v = Count(r) + 1,
         NEW writes, OneEach(writes), NEW owner, AddsRevision(writes, r, v, owner)
  PROVE  Sound(With(disk, writes))
<1> DEFINE e == With(disk, writes)
           n == Count(r)
           entry == NewEntry(PreviousContent(r))
<1>1. /\ n \in 0..MaxRevision /\ n \in Nat
      /\ ReportSound(disk, disk[<<"runtime">>], disk[<<"library">>], r, n)
      /\ RevisionsIn(Runtime, r) = 1..n
    BY CountIs DEF Runtime, Library
<1>2. PreviousContent(r) = (IF n = 0 THEN Absent ELSE disk[<<"runtime">>].entries[r][n].content)
    BY DEF PreviousContent, EntryOf, Runtime
<1>3. PreviousContent(r) \in Nat \cup {Absent}
  <2>1. CASE n = 0
      BY <1>2, <2>1
  <2>2. CASE n # 0
    <3>1. n \in RevisionsIn(Runtime, r)
        BY <1>1, <2>2
    <3>2. Runtime.entries[r][n] \in EntryRecords
        BY <3>1, ManifestIs DEF RevisionsIn, ManifestsSound, Runtime
    <3> QED
        BY <1>2, <2>2, <3>2, EntryIs DEF Runtime
  <2> QED
      BY <2>1, <2>2
<1>4. entry \in EntryRecords /\ entry.prev = PreviousContent(r) /\ entry.content = 0
      /\ entry.history = Absent /\ entry.rendered = FALSE
    BY <1>3 DEF NewEntry, EntryRecords
<1> HIDE DEF entry, n
<1>5. \A f \in Files : \A x : Write(f, x) \in writes => e[f] = x
  <2> SUFFICES ASSUME NEW f \in Files, NEW x, Write(f, x) \in writes PROVE e[f] = x
      OBVIOUS
  <2>1. Write(f, x).file = f /\ Write(f, x).new = x
      BY DEF Write
  <2> QED
      BY <2>1, WithAt
<1>6. \A f \in Files : f \notin FilesOf(writes) => e[f] = disk[f]
    BY WithAt
<1> HIDE DEF e
<1>7. /\ e[<<"runtime">>] = Added(disk[<<"runtime">>], r, n + 1, entry)
      /\ e[<<"library">>] = Added(disk[<<"library">>], r, n + 1, entry)
      /\ e[<<"body", r, n + 1>>] = 0 /\ e[<<"owner", r, n + 1>>] = owner
    BY <1>5, FilesAre DEF AddsRevision, n, entry, Runtime, Library
<1>8. OthersStay(disk, e, r, n + 1)
    BY <1>6, FilesAre DEF AddsRevision, OthersStay, n, Reports
<1>9. HistoriesSound(e)
    BY <1>6, FilesAre DEF AddsRevision, HistoriesSound, Reports
<1>10. FilesTell(e, entry, r, n + 1)
    BY <1>4, <1>7 DEF AddsRevision, FilesTell
<1>11. n + 1 \in Revisions
    BY DEF n
<1>12. Sound(e)
    BY <1>1, <1>2, <1>4, <1>7, <1>8, <1>9, <1>10, <1>11, NewRevisionIsSound
<1> QED
    BY <1>12 DEF e

LEMMA CompletingKeeps ==
  ASSUME LibraryInv, NEW p \in Writers, ~ AtWork(p),
         NEW q \in Quarters, NEW v \in Revisions, CompleteQuarter(p, q, v)
  PROVE  LibraryInv'
<1>1. PICK runtime, library :
         /\ runtime = Added(Runtime, q, v, NewEntry(PreviousContent(q)))
         /\ library = Added(Library, q, v, NewEntry(PreviousContent(q)))
    OBVIOUS
<1>2. PICK f, g, run : /\ f = <<"body", q, v>> /\ g = <<"owner", q, v>>
                       /\ run = Write(<<"run", q, v>>, "review")
    OBVIOUS
<1>3. PICK first : first = <<Write(f, 0), Write(g, 0)>> \o ReplaceManifests(runtime, library)
    OBVIOUS
<1>4. PICK writes, all : writes = first \o <<run>> /\ all = WritesOf(writes)
    OBVIOUS
<1>5. Valid(q) /\ v = Count(q) + 1 /\ Plan(p, writes, {})
    BY <1>1, <1>2, <1>3, <1>4 DEF CompleteQuarter
<1>6. q \in Reports /\ q \notin Majors
    BY ReportsHaveOneKind DEF Reports
<1>7. /\ f \in Files \ Manifests /\ g \in Files \ Manifests /\ f # g
      /\ run.file \in Files \ Manifests /\ run.file # f /\ run.file # g
      /\ run.file = <<"run", q, v>>
  <2>1. run.file = <<"run", q, v>>
      BY <1>2 DEF Write
  <2>2. run.file \in Files \ Manifests /\ f \in Files \ Manifests /\ g \in Files \ Manifests
      BY <1>2, <1>6, <2>1, FilesAre
  <2>3. f # g /\ run.file # f /\ run.file # g
      BY <1>2, <2>1
  <2> QED
      BY <2>1, <2>2, <2>3
<1>8. /\ IsPlan(first) /\ first # <<>>
      /\ WritesOf(first) = {Write(f, 0), Write(g, 0)} \cup BothManifests(runtime, library)
      /\ FilesOf(WritesOf(first)) = {f, g} \cup Manifests
      /\ FilesOf(WritesOf(first)) \subseteq Files
  <2>1. PlanIs(first, {Write(f, 0), Write(g, 0)}, {f, g}, runtime, library)
      BY <1>3, <1>7, PlanOfTwoFiles
  <2> QED
      BY <2>1 DEF PlanIs
<1>9. /\ IsPlan(writes) /\ writes # <<>> /\ all = WritesOf(first) \cup {run}
      /\ FilesOf(all) = FilesOf(WritesOf(first)) \cup {run.file}
  <2>1. IsPlan(<<run>>) /\ WritesOf(<<run>>) = {run}
      BY PlanOfOne
  <2>2. FilesOf({run}) = {run.file}
      BY DEF FilesOf
  <2>3. FilesOf(WritesOf(first)) \cap FilesOf(WritesOf(<<run>>)) = {}
    <3>1. run.file \notin {f, g} \cup Manifests
        BY <1>7
    <3>2. ({f, g} \cup Manifests) \cap {run.file} = {}
        BY <3>1
    <3> QED
        BY <1>8, <2>1, <2>2, <3>2
  <2>4. FilesOf(WritesOf(first) \cup {run}) = FilesOf(WritesOf(first)) \cup FilesOf({run})
      BY DEF FilesOf
  <2> QED
      BY <1>4, <1>8, <2>1, <2>2, <2>3, <2>4, PlansJoin
<1>10. OneEach(all) /\ FilesOf(all) \subseteq Files
    BY <1>4, <1>7, <1>8, <1>9, PlanIsOneEach
<1>11. \A w \in all : w.file \in FilesOf(all)
    BY DEF FilesOf
<1>12. \A o \in Reports, x \in Revisions :
          /\ <<"body", o, x>> \in FilesOf(all) => <<o, x>> = <<q, v>>
          /\ <<"owner", o, x>> \in FilesOf(all) => <<o, x>> = <<q, v>>
          /\ <<"history", o, x>> \notin FilesOf(all)
          /\ <<"receipt", o, x>> \notin FilesOf(all)
  <2>1. FilesOf(all) = {f, g} \cup Manifests \cup {run.file}
      BY <1>8, <1>9
  <2> QED
      BY <1>2, <1>7, <2>1 DEF Manifests
<1>13. /\ "overlap" \notin spoilt => \A w \in all : Fits(w)
       /\ NotBoth(FilesOf(all))
  <2>1. \A w \in all : \A m \in Majors, x \in Revisions :
           w.file # <<"receipt", m, x>> /\ w.file # <<"owner", m, x>>
      BY <1>6, <1>11, <1>12 DEF Reports
  <2> QED
      BY <2>1, PlansThatFit
<1>14. ASSUME Sound(disk) PROVE Sound(With(disk, all))
  <2>1. ManifestsSound(disk) /\ HistoriesSound(disk)
      BY <1>5, <1>14, ValidIsThere
  <2>2. AddsRevision(all, q, v, 0)
    <3>1. /\ Write(<<"runtime">>, runtime) \in all /\ Write(<<"library">>, library) \in all
          /\ Write(f, 0) \in all /\ Write(g, 0) \in all
        BY <1>8, <1>9 DEF BothManifests
    <3> QED
        BY <1>1, <1>2, <1>6, <1>12, <3>1 DEF AddsRevision
  <2> QED
      BY <1>5, <1>6, <1>10, <2>1, <2>2, AddingARevision
<1> QED
    BY <1>4, <1>5, <1>9, <1>10, <1>13, <1>14, PlanningKeeps

LEMMA PersistingKeeps ==
  ASSUME LibraryInv, NEW p \in Writers, ~ AtWork(p),
         NEW r \in Majors, NEW v \in Revisions, PersistMajor(p, r, v)
  PROVE  LibraryInv'
<1>1. PICK runtime, library, file :
         /\ runtime = Added(Runtime, r, v, NewEntry(PreviousContent(r)))
         /\ library = Added(Library, r, v, NewEntry(PreviousContent(r)))
         /\ file = [rendered |-> FALSE, decision |-> "PENDING"]
    OBVIOUS
<1>11. PICK f, g : f = <<"body", r, v>> /\ g = <<"owner", r, v>>
    OBVIOUS
<1>2. PICK writes, all :
         /\ writes = <<Write(f, 0), Write(g, file)>> \o ReplaceManifests(runtime, library)
         /\ all = WritesOf(writes)
    OBVIOUS
<1>3. /\ Valid(r) /\ v = Count(r) + 1 /\ disk[<<"owner", r, v>>] = Absent
      /\ Plan(p, writes, {})
    BY <1>1, <1>2, <1>11 DEF PersistMajor
<1>4. r \in Reports /\ r \notin Quarters /\ file \in OwnerRecords /\ file.rendered = FALSE
    BY <1>1, ReportsHaveOneKind DEF Reports, OwnerRecords
<1>5. f \in Files \ Manifests /\ g \in Files \ Manifests /\ f # g
    BY <1>4, <1>11, FilesAre
<1>6. /\ IsPlan(writes) /\ writes # <<>> /\ OneEach(all)
      /\ all = {Write(f, 0), Write(g, file)} \cup BothManifests(runtime, library)
      /\ FilesOf(all) = {f, g} \cup Manifests
      /\ FilesOf(all) \subseteq Files
  <2>1. PlanIs(writes, {Write(f, 0), Write(g, file)}, {f, g}, runtime, library)
      BY <1>2, <1>5, PlanOfTwoFiles
  <2> QED
      BY <1>2, <2>1 DEF PlanIs
<1>7. \A w \in all : w.file \in FilesOf(all)
    BY DEF FilesOf
<1>8. \A o \in Reports, x \in Revisions :
         /\ <<"body", o, x>> \in FilesOf(all) => <<o, x>> = <<r, v>>
         /\ <<"owner", o, x>> \in FilesOf(all) => <<o, x>> = <<r, v>>
         /\ <<"history", o, x>> \notin FilesOf(all)
         /\ <<"receipt", o, x>> \notin FilesOf(all)
    BY <1>6, <1>11 DEF Manifests
<1>9. /\ "overlap" \notin spoilt => \A w \in all : Fits(w)
      /\ NotBoth(FilesOf(all))
  <2>1. \A w \in all : \A m \in Majors, x \in Revisions :
           /\ w.file # <<"receipt", m, x>>
           /\ w.file = <<"owner", m, x>> => m = r /\ x = v
      BY <1>7, <1>8 DEF Reports
  <2>2. "overlap" \notin spoilt => disk[<<"receipt", r, v>>] = Absent
      BY <1>3, NotYetApproved
  <2> QED
      BY <2>1, <2>2, PlansThatFit
<1>10. ASSUME Sound(disk) PROVE Sound(With(disk, all))
  <2>1. ManifestsSound(disk) /\ HistoriesSound(disk)
      BY <1>3, <1>10, ValidIsThere
  <2>2. AddsRevision(all, r, v, file)
    <3>1. /\ Write(<<"runtime">>, runtime) \in all /\ Write(<<"library">>, library) \in all
          /\ Write(f, 0) \in all /\ Write(g, file) \in all
        BY <1>6 DEF BothManifests
    <3> QED
        BY <1>1, <1>4, <1>8, <1>11, <3>1 DEF AddsRevision
  <2> QED
      BY <1>3, <1>4, <1>6, <2>1, <2>2, AddingARevision
<1> QED
    BY <1>2, <1>3, <1>6, <1>9, <1>10, PlanningKeeps

LEMMA WithWrites ==
  ASSUME NEW d, NEW writes, OneEach(writes)
  PROVE  /\ \A f \in Files : \A x : Write(f, x) \in writes => With(d, writes)[f] = x
         /\ \A f \in Files : f \notin FilesOf(writes) => With(d, writes)[f] = d[f]
<1>1. ASSUME NEW f \in Files, NEW x, Write(f, x) \in writes
      PROVE  With(d, writes)[f] = x
  <2>1. Write(f, x).file = f /\ Write(f, x).new = x
      BY DEF Write
  <2> QED
      BY <1>1, <2>1, WithAt
<1>2. \A f \in Files : f \notin FilesOf(writes) => With(d, writes)[f] = d[f]
    BY WithAt
<1> QED
    BY <1>1, <1>2

(* An entry that was rendered, decided or revised is an entry.                *)
LEMMA EntriesChange ==
  ASSUME NEW e \in EntryRecords
  PROVE  /\ [e EXCEPT !.rendered = TRUE]
               = [content |-> e.content, prev |-> e.prev, history |-> e.history,
                  rendered |-> TRUE, decision |-> e.decision]
         /\ \A d : [e EXCEPT !.decision = d]
                      = [content |-> e.content, prev |-> e.prev, history |-> e.history,
                         rendered |-> e.rendered, decision |-> d]
         /\ \A n, h : [e EXCEPT !.content = n, !.history = h]
                         = [content |-> n, prev |-> e.prev, history |-> h,
                            rendered |-> e.rendered, decision |-> e.decision]
<1>1. PICK c, p, h, t, o : e = [content |-> c, prev |-> p, history |-> h,
                                rendered |-> t, decision |-> o]
    BY EntryIs
<1>2. e.content = c /\ e.prev = p /\ e.history = h /\ e.decision = o
    BY <1>1
<1>3. [e EXCEPT !.rendered = TRUE]
         = [content |-> e.content, prev |-> e.prev, history |-> e.history,
            rendered |-> TRUE, decision |-> e.decision]
  <2>1. PICK yes : yes = TRUE
      OBVIOUS
  <2>2. [e EXCEPT !.rendered = yes]
           = [content |-> c, prev |-> p, history |-> h, rendered |-> yes, decision |-> o]
      BY <1>1
  <2> QED
      BY <1>2, <2>1, <2>2
<1>4. ASSUME NEW d
      PROVE  [e EXCEPT !.decision = d]
                = [content |-> e.content, prev |-> e.prev, history |-> e.history,
                   rendered |-> e.rendered, decision |-> d]
    BY <1>1
<1>5. ASSUME NEW n, NEW k
      PROVE  [e EXCEPT !.content = n, !.history = k]
                = [content |-> n, prev |-> e.prev, history |-> k,
                   rendered |-> e.rendered, decision |-> e.decision]
  <2>1. PICK half : half = [e EXCEPT !.content = n]
      OBVIOUS
  <2>2. half = [content |-> n, prev |-> p, history |-> h, rendered |-> t, decision |-> o]
      BY <1>1, <2>1
  <2>3. [e EXCEPT !.content = n, !.history = k] = [half EXCEPT !.history = k]
      BY <2>1
  <2> QED
      BY <1>1, <2>2, <2>3
<1> QED
    BY <1>3, <1>4, <1>5

LEMMA EntriesAgree ==
  ASSUME ManifestsSound(disk), NEW r \in Reports, NEW v \in RevisionsIn(Runtime, r)
  PROVE  /\ v \in Revisions /\ v \in 1..Count(r)
         /\ Runtime.entries[r][v] \in EntryRecords /\ Library.entries[r][v] \in EntryRecords
         /\ Alike(Runtime.entries[r][v], Library.entries[r][v])
         /\ FilesTell(disk, Runtime.entries[r][v], r, v)
         /\ EntrySound(disk, Runtime.entries[r], Library.entries[r], r, v)
<1>1. v \in Revisions /\ v \in 1..Count(r) /\ v \in RevisionsIn(Library, r)
    BY CountIs DEF RevisionsIn
<1>2. EntrySound(disk, Runtime.entries[r], Library.entries[r], r, v)
    BY <1>1, CountIs DEF ReportSound
<1>3. Runtime \in ManifestRecords /\ Library \in ManifestRecords
    BY DEF ManifestsSound, Runtime, Library
<1>4. Runtime.entries[r][v] \in EntryRecords /\ Library.entries[r][v] \in EntryRecords
    BY <1>1, <1>3, ManifestIs DEF RevisionsIn
<1>5. /\ Alike(Runtime.entries[r][v], Library.entries[r][v])
      /\ FilesTell(disk, Runtime.entries[r][v], r, v)
    BY <1>2 DEF EntrySound, Alike, FilesTell
<1> QED
    BY <1>1, <1>2, <1>4, <1>5

(* The workflow of a major event changes an entry and the owner's file.       *)
ChangesEvent(writes, m, v, left, right, owner) ==
    /\ Write(<<"runtime">>, WithEntry(Runtime, m, v, left)) \in writes
    /\ Write(<<"library">>, WithEntry(Library, m, v, right)) \in writes
    /\ Write(<<"owner", m, v>>, owner) \in writes
    /\ owner \in OwnerRecords /\ owner.rendered = left.rendered
    /\ left \in EntryRecords /\ right \in EntryRecords /\ Alike(left, right)
    /\ left.content = Runtime.entries[m][v].content /\ left.prev = Runtime.entries[m][v].prev
    /\ \A o \in Reports, w \in Revisions :
          /\ <<"body", o, w>> \notin FilesOf(writes)
          /\ <<"owner", o, w>> \in FilesOf(writes) => <<o, w>> = <<m, v>>
          /\ <<"history", o, w>> \notin FilesOf(writes)

LEMMA ChangingAnEvent ==
  ASSUME ManifestsSound(disk), HistoriesSound(disk),
         NEW m \in Majors, NEW v \in RevisionsIn(Runtime, m), NEW writes, OneEach(writes),
         NEW left, NEW right, NEW owner, ChangesEvent(writes, m, v, left, right, owner)
  PROVE  Sound(With(disk, writes))
<1>1. PICK e : e = With(disk, writes)
    OBVIOUS
<1>2. /\ \A f \in Files : \A x : Write(f, x) \in writes => e[f] = x
      /\ \A f \in Files : f \notin FilesOf(writes) => e[f] = disk[f]
    BY <1>1, WithWrites
<1>3. m \in Reports /\ m \notin Quarters
    BY ReportsHaveOneKind DEF Reports
<1>4. v \in Revisions /\ v \in 1..Count(m)
      /\ FilesTell(disk, Runtime.entries[m][v], m, v)
    BY <1>3, EntriesAgree
<1>5. /\ Count(m) \in 0..MaxRevision
      /\ ReportSound(disk, disk[<<"runtime">>], disk[<<"library">>], m, Count(m))
    BY <1>3, CountIs DEF Runtime, Library
<1>6. /\ e[<<"runtime">>] = WithEntry(disk[<<"runtime">>], m, v, left)
      /\ e[<<"library">>] = WithEntry(disk[<<"library">>], m, v, right)
      /\ e[<<"owner", m, v>>] = owner
    BY <1>2, <1>3, <1>4, FilesAre DEF ChangesEvent, Runtime, Library
<1>7. e[<<"body", m, v>>] = left.content
    BY <1>2, <1>3, <1>4, FilesAre DEF ChangesEvent, FilesTell
<1>8. OthersStay(disk, e, m, v)
    BY <1>2, FilesAre DEF ChangesEvent, OthersStay, Reports
<1>9. HistoriesSound(e)
    BY <1>2, FilesAre DEF ChangesEvent, HistoriesSound, Reports
<1>10. FilesTell(e, left, m, v)
    BY <1>3, <1>6, <1>7 DEF ChangesEvent, FilesTell
<1>11. /\ left \in EntryRecords /\ right \in EntryRecords /\ Alike(left, right)
       /\ left.content = disk[<<"runtime">>].entries[m][v].content
       /\ left.prev = disk[<<"runtime">>].entries[m][v].prev
    BY DEF ChangesEvent, Runtime
<1>12. Sound(e)
    BY <1>3, <1>4, <1>5, <1>6, <1>8, <1>9, <1>10, <1>11, ChangedRevisionIsSound
<1> QED
    BY <1>1, <1>12

LEMMA RenderingKeeps ==
  ASSUME LibraryInv, NEW p \in Writers, ~ AtWork(p),
         NEW m \in Majors, NEW v \in Revisions, Render(p, m, v)
  PROVE  LibraryInv'
<1>1. PICK left, right, file :
         /\ left = [Runtime.entries[m][v] EXCEPT !.rendered = TRUE]
         /\ right = [Library.entries[m][v] EXCEPT !.rendered = TRUE]
         /\ file = [rendered |-> TRUE, decision |-> "PENDING"]
    OBVIOUS
<1>2. PICK runtime, library, f, g :
         /\ runtime = WithEntry(Runtime, m, v, left)
         /\ library = WithEntry(Library, m, v, right)
         /\ f = <<"render", m, v>> /\ g = <<"owner", m, v>>
    OBVIOUS
<1>3. PICK writes, all :
         /\ writes = <<Write(f, TRUE), Write(g, file)>> \o ReplaceManifests(runtime, library)
         /\ all = WritesOf(writes)
    OBVIOUS
<1>4. /\ Valid(m) /\ v \in RevisionsIn(Runtime, m)
      /\ disk[<<"owner", m, v>>].decision = "PENDING" /\ Plan(p, writes, {})
    BY <1>1, <1>2, <1>3 DEF Render, WorkflowValid
<1>5. m \in Reports /\ m \notin Quarters /\ file \in OwnerRecords /\ file.rendered = TRUE
    BY <1>1, ReportsHaveOneKind DEF Reports, OwnerRecords
<1>6. f \in Files \ Manifests /\ g \in Files \ Manifests /\ f # g
    BY <1>2, <1>5, FilesAre
<1>7. /\ IsPlan(writes) /\ writes # <<>> /\ OneEach(all)
      /\ all = {Write(f, TRUE), Write(g, file)} \cup BothManifests(runtime, library)
      /\ FilesOf(all) = {f, g} \cup Manifests /\ FilesOf(all) \subseteq Files
  <2>1. PlanIs(writes, {Write(f, TRUE), Write(g, file)}, {f, g}, runtime, library)
      BY <1>3, <1>6, PlanOfTwoFiles
  <2> QED
      BY <1>3, <2>1 DEF PlanIs
<1>8. \A w \in all : w.file \in FilesOf(all)
    BY DEF FilesOf
<1>9. \A o \in Reports, x \in Revisions :
         /\ <<"body", o, x>> \notin FilesOf(all)
         /\ <<"owner", o, x>> \in FilesOf(all) => <<o, x>> = <<m, v>>
         /\ <<"history", o, x>> \notin FilesOf(all)
         /\ <<"receipt", o, x>> \notin FilesOf(all)
    BY <1>2, <1>7 DEF Manifests
<1>10. /\ "overlap" \notin spoilt => \A w \in all : Fits(w)
       /\ NotBoth(FilesOf(all))
  <2>1. \A w \in all : \A o \in Majors, x \in Revisions :
           /\ w.file # <<"receipt", o, x>>
           /\ w.file = <<"owner", o, x>> => o = m /\ x = v
      BY <1>8, <1>9 DEF Reports
  <2>2. "overlap" \notin spoilt => disk[<<"receipt", m, v>>] = Absent
      BY <1>4, NotYetApproved
  <2> QED
      BY <2>1, <2>2, PlansThatFit
<1>11. ASSUME Sound(disk) PROVE Sound(With(disk, all))
  <2>1. ManifestsSound(disk) /\ HistoriesSound(disk)
      BY <1>4, <1>11, ValidIsThere
  <2>2. /\ Runtime.entries[m][v] \in EntryRecords /\ Library.entries[m][v] \in EntryRecords
        /\ Alike(Runtime.entries[m][v], Library.entries[m][v])
      BY <1>4, <1>5, <2>1, EntriesAgree
  <2>3. /\ left \in EntryRecords /\ right \in EntryRecords /\ Alike(left, right)
        /\ left.content = Runtime.entries[m][v].content
        /\ left.prev = Runtime.entries[m][v].prev /\ left.rendered = TRUE
    <3>1. PICK yes : yes = TRUE
        OBVIOUS
    <3>2. PICK a, b : a = Runtime.entries[m][v] /\ b = Library.entries[m][v]
        OBVIOUS
    <3>3. /\ left = [content |-> a.content, prev |-> a.prev, history |-> a.history,
                     rendered |-> yes, decision |-> a.decision]
          /\ right = [content |-> b.content, prev |-> b.prev, history |-> b.history,
                      rendered |-> yes, decision |-> b.decision]
        BY <1>1, <2>2, <3>1, <3>2, EntriesChange
    <3>4. yes \in BOOLEAN
        BY <3>1
    <3>5. left \in EntryRecords /\ right \in EntryRecords
        BY <2>2, <3>2, <3>3, <3>4, EntryIs DEF EntryRecords
    <3>6. Alike(left, right)
        BY <2>2, <3>2, <3>3 DEF Alike
    <3> QED
        BY <3>1, <3>2, <3>3, <3>5, <3>6
  <2>4. ChangesEvent(all, m, v, left, right, file)
    <3>1. /\ Write(<<"runtime">>, runtime) \in all /\ Write(<<"library">>, library) \in all
          /\ Write(g, file) \in all
        BY <1>7 DEF BothManifests
    <3> QED
        BY <1>2, <1>5, <1>9, <2>3, <3>1 DEF ChangesEvent
  <2> QED
      BY <1>4, <1>7, <2>1, <2>4, ChangingAnEvent
<1> QED
    BY <1>3, <1>4, <1>7, <1>10, <1>11, PlanningKeeps

LEMMA DecidingKeeps ==
  ASSUME LibraryInv, NEW p \in Writers, ~ AtWork(p),
         NEW m \in Majors, NEW v \in Revisions, NEW d \in {"APPROVE", "REJECT"},
         Decide(p, m, v, d)
  PROVE  LibraryInv'
<1>1. PICK left, right, file :
         /\ left = [Runtime.entries[m][v] EXCEPT !.decision = d]
         /\ right = [Library.entries[m][v] EXCEPT !.decision = d]
         /\ file = [rendered |-> TRUE, decision |-> d]
    OBVIOUS
<1>2. PICK runtime, library, g :
         /\ runtime = WithEntry(Runtime, m, v, left)
         /\ library = WithEntry(Library, m, v, right)
         /\ g = <<"owner", m, v>>
    OBVIOUS
<1>3. PICK writes, all :
         /\ writes = <<Write(g, file)>> \o ReplaceManifests(runtime, library)
         /\ all = WritesOf(writes)
    OBVIOUS
<1>4. /\ Valid(m) /\ v \in RevisionsIn(Runtime, m) /\ Runtime.entries[m][v].rendered
      /\ disk[<<"owner", m, v>>].decision = "PENDING" /\ Plan(p, writes, {})
    BY <1>1, <1>2, <1>3 DEF Decide, Decided, WorkflowValid, EntryOf
<1>5. m \in Reports /\ m \notin Quarters /\ file \in OwnerRecords /\ file.rendered = TRUE
    BY <1>1, ReportsHaveOneKind DEF Reports, OwnerRecords
<1>6. g \in Files \ Manifests
    BY <1>2, <1>5, FilesAre
<1>7. /\ IsPlan(writes) /\ writes # <<>> /\ OneEach(all)
      /\ all = {Write(g, file)} \cup BothManifests(runtime, library)
      /\ FilesOf(all) = {g} \cup Manifests /\ FilesOf(all) \subseteq Files
  <2>1. PlanIs(writes, {Write(g, file)}, {g}, runtime, library)
      BY <1>3, <1>6, PlanOfAFile
  <2> QED
      BY <1>3, <2>1 DEF PlanIs
<1>8. \A w \in all : w.file \in FilesOf(all)
    BY DEF FilesOf
<1>9. \A o \in Reports, x \in Revisions :
         /\ <<"body", o, x>> \notin FilesOf(all)
         /\ <<"owner", o, x>> \in FilesOf(all) => <<o, x>> = <<m, v>>
         /\ <<"history", o, x>> \notin FilesOf(all)
         /\ <<"receipt", o, x>> \notin FilesOf(all)
    BY <1>2, <1>7 DEF Manifests
<1>10. /\ "overlap" \notin spoilt => \A w \in all : Fits(w)
       /\ NotBoth(FilesOf(all))
  <2>1. \A w \in all : \A o \in Majors, x \in Revisions :
           /\ w.file # <<"receipt", o, x>>
           /\ w.file = <<"owner", o, x>> => o = m /\ x = v
      BY <1>8, <1>9 DEF Reports
  <2>2. "overlap" \notin spoilt => disk[<<"receipt", m, v>>] = Absent
      BY <1>4, NotYetApproved
  <2> QED
      BY <2>1, <2>2, PlansThatFit
<1>11. ASSUME Sound(disk) PROVE Sound(With(disk, all))
  <2>1. ManifestsSound(disk) /\ HistoriesSound(disk)
      BY <1>4, <1>11, ValidIsThere
  <2>2. /\ Runtime.entries[m][v] \in EntryRecords /\ Library.entries[m][v] \in EntryRecords
        /\ Alike(Runtime.entries[m][v], Library.entries[m][v])
      BY <1>4, <1>5, <2>1, EntriesAgree
  <2>3. /\ left \in EntryRecords /\ right \in EntryRecords /\ Alike(left, right)
        /\ left.content = Runtime.entries[m][v].content
        /\ left.prev = Runtime.entries[m][v].prev /\ left.rendered = TRUE
    <3>2. PICK a, b : a = Runtime.entries[m][v] /\ b = Library.entries[m][v]
        OBVIOUS
    <3>3. /\ left = [content |-> a.content, prev |-> a.prev, history |-> a.history,
                     rendered |-> a.rendered, decision |-> d]
          /\ right = [content |-> b.content, prev |-> b.prev, history |-> b.history,
                      rendered |-> b.rendered, decision |-> d]
        BY <1>1, <2>2, <3>2, EntriesChange
    <3>4. d \in {"PENDING", "APPROVE", "REJECT"}
        OBVIOUS
    <3>5. left \in EntryRecords /\ right \in EntryRecords
        BY <2>2, <3>2, <3>3, <3>4, EntryIs DEF EntryRecords
    <3>6. Alike(left, right)
        BY <2>2, <3>2, <3>3 DEF Alike
    <3>7. left.rendered = a.rendered
        BY <3>3
    <3>8. a.rendered \in BOOLEAN /\ a.rendered
        BY <1>4, <2>2, <3>2, EntryIs
    <3> QED
        BY <3>2, <3>3, <3>5, <3>6, <3>7, <3>8
  <2>4. ChangesEvent(all, m, v, left, right, file)
    <3>1. /\ Write(<<"runtime">>, runtime) \in all /\ Write(<<"library">>, library) \in all
          /\ Write(g, file) \in all
        BY <1>7 DEF BothManifests
    <3> QED
        BY <1>2, <1>5, <1>9, <2>3, <3>1 DEF ChangesEvent
  <2> QED
      BY <1>4, <1>7, <2>1, <2>4, ChangingAnEvent
<1> QED
    BY <1>3, <1>4, <1>7, <1>10, <1>11, PlanningKeeps

(* A plan of one file.                                                        *)
LEMMA PlanOfOneFile ==
  ASSUME NEW f \in Files, NEW x
  PROVE  /\ IsPlan(<<Write(f, x)>>) /\ <<Write(f, x)>> # <<>>
         /\ WritesOf(<<Write(f, x)>>) = {Write(f, x)}
         /\ FilesOf({Write(f, x)}) = {f} /\ OneEach({Write(f, x)})
<1>1. PICK w : w = Write(f, x)
    OBVIOUS
<1>2. w.file = f
    BY <1>1 DEF Write
<1>3. IsPlan(<<w>>) /\ WritesOf(<<w>>) = {w} /\ <<w>> # <<>>
    BY <1>1, PlanOfOne
<1>4. FilesOf({w}) = {f} /\ OneEach({w})
    BY <1>2 DEF FilesOf, OneEach
<1> QED
    BY <1>1, <1>3, <1>4

LEMMA AuthorizingKeeps ==
  ASSUME LibraryInv, NEW p \in Writers, ~ AtWork(p),
         NEW m \in Majors, NEW v \in Revisions, Authorize(p, m, v)
  PROVE  LibraryInv'
<1>1. PICK f, writes, all : /\ f = <<"receipt", m, v>>
                            /\ writes = <<Write(f, TRUE)>> /\ all = WritesOf(writes)
    OBVIOUS
<1>2. /\ Valid(m) /\ v \in RevisionsIn(Runtime, m) /\ disk[f] = Absent
      /\ disk[<<"owner", m, v>>].decision = "APPROVE" /\ Plan(p, writes, {})
    BY <1>1 DEF Authorize, Approved, WorkflowValid
<1>3. m \in Reports /\ m \notin Quarters /\ f \in Files
    BY <1>1, ReportsHaveOneKind, FilesAre DEF Reports
<1>4. ApprovedOn(disk, m, v)
    BY <1>2, <1>3 DEF Valid, LineageValid, ApprovedOn
<1>5. /\ IsPlan(writes) /\ writes # <<>> /\ all = {Write(f, TRUE)} /\ FilesOf(all) = {f}
      /\ FilesOf(all) \subseteq Files /\ OneEach(all)
  <2>1. /\ IsPlan(<<Write(f, TRUE)>>) /\ <<Write(f, TRUE)>> # <<>>
        /\ WritesOf(<<Write(f, TRUE)>>) = {Write(f, TRUE)}
        /\ FilesOf({Write(f, TRUE)}) = {f} /\ OneEach({Write(f, TRUE)})
      BY <1>3, PlanOfOneFile
  <2> QED
      BY <1>1, <1>3, <2>1
<1>6. \A w \in all : Fits(w)
  <2>1. \A w \in all : w.file = f
      BY <1>5 DEF FilesOf
  <2>2. \A o \in Majors, x \in Revisions :
           f # <<"owner", o, x>> /\ (f = <<"receipt", o, x>> => o = m /\ x = v)
      BY <1>1
  <2> QED
    <3>1. \A w \in all : Harmless(w)
        BY <2>1, <2>2 DEF Harmless
    <3>2. \A w \in all : PermitsTheApproved(w)
        BY <1>4, <2>1, <2>2 DEF PermitsTheApproved
    <3>3. \A w \in all : \A o \in Majors, x \in Revisions :
             w.file = <<"receipt", o, x>> => disk[<<"receipt", o, x>>] = Absent
        BY <1>2, <2>1
    <3> QED
        BY <3>1, <3>2, <3>3 DEF Fits
<1>7. NotBoth(FilesOf(all))
  <2>1. \A o \in Majors, x \in Revisions : <<"owner", o, x>> # f
      BY <1>1
  <2> QED
      BY <1>5, <2>1 DEF NotBoth
<1>8. ASSUME Sound(disk) PROVE Sound(With(disk, all))
  <2>1. ManifestsSound(disk) /\ HistoriesSound(disk)
      BY <1>2, <1>8, ValidIsThere
  <2>2. PICK e : e = With(disk, all)
      OBVIOUS
  <2>3. \A g \in Files : g # f => e[g] = disk[g]
    <3>1. \A g \in Files : g \notin FilesOf(all) => e[g] = disk[g]
        BY <1>5, <2>2, WithWrites
    <3> QED
        BY <1>5, <3>1
  <2>4. /\ \A n \in Manifests : e[n] = disk[n]
        /\ \A o \in Reports, w \in Revisions : /\ e[<<"body", o, w>>] = disk[<<"body", o, w>>]
                                               /\ e[<<"owner", o, w>>] = disk[<<"owner", o, w>>]
        /\ \A q \in Quarters, w \in Revisions :
              e[<<"history", q, w>>] = disk[<<"history", q, w>>]
    <3>1. /\ \A n \in Manifests : n # f
          /\ \A o \in Reports, w \in Revisions :
                <<"body", o, w>> # f /\ <<"owner", o, w>> # f /\ <<"history", o, w>> # f
        BY <1>1 DEF Manifests
    <3> QED
        BY <2>3, <3>1, FilesAre DEF Reports
  <2>5. HistoriesSound(e)
      BY <2>1, <2>4 DEF HistoriesSound
  <2>6. /\ e[<<"runtime">>] = disk[<<"runtime">>] /\ e[<<"library">>] = disk[<<"library">>]
        /\ disk[<<"runtime">>] \in ManifestRecords /\ disk[<<"library">>] \in ManifestRecords
      BY <2>1, <2>4 DEF Manifests, ManifestsSound
  <2>7. PICK k \in 0..MaxRevision :
           ReportSound(disk, disk[<<"runtime">>], disk[<<"library">>], m, k)
      BY <1>3, <2>1 DEF ManifestsSound
  <2>8. ReportSound(e, e[<<"runtime">>], e[<<"library">>], m, k)
    <3>1. ASSUME NEW w \in 1..k
          PROVE  EntrySound(e, e[<<"runtime">>].entries[m], e[<<"library">>].entries[m], m, w)
      <4>1. w \in Revisions
          BY RevisionsAreCounted DEF Revisions
      <4>2. EntrySound(disk, disk[<<"runtime">>].entries[m],
                       disk[<<"library">>].entries[m], m, w)
          BY <2>7 DEF ReportSound
      <4> QED
          BY <1>3, <2>4, <2>6, <4>1, <4>2 DEF EntrySound
    <3> QED
        BY <2>6, <2>7, <3>1 DEF ReportSound, LatestSound
  <2>9. Sound(e)
    <3>1. /\ e[<<"runtime">>].monthly = disk[<<"runtime">>].monthly
          /\ e[<<"library">>].monthly = disk[<<"library">>].monthly
        BY <2>6
    <3>2. \A o \in Reports : o # m =>
             /\ \A n \in Manifests : /\ e[n].entries[o] = disk[n].entries[o]
                                     /\ e[n].latest[o] = disk[n].latest[o]
             /\ \A w \in Revisions : /\ e[<<"body", o, w>>] = disk[<<"body", o, w>>]
                                     /\ e[<<"owner", o, w>>] = disk[<<"owner", o, w>>]
                                     /\ o \in Quarters =>
                                           e[<<"history", o, w>>] = disk[<<"history", o, w>>]
        BY <2>4
    <3> QED
        BY <1>3, <2>1, <2>5, <2>6, <2>8, <3>1, <3>2, OneReportReplaced
  <2> QED
      BY <2>2, <2>9
<1> QED
    BY <1>1, <1>2, <1>5, <1>6, <1>7, <1>8, PlanningKeeps

LEMMA ImportingKeeps ==
  ASSUME LibraryInv, NEW p \in Writers, ~ AtWork(p),
         NEW q \in Quarters, NEW v \in Revisions, ImportReturn(p, q, v)
  PROVE  LibraryInv'
<1>1. PICK f, grown : /\ f = <<"history", q, v>>
                      /\ grown = [History(q, v) EXCEPT !.returns = @ + 1, !.pending = TRUE]
    OBVIOUS
<1>2. PICK writes, all : writes = <<Write(f, grown)>> /\ all = WritesOf(writes)
    OBVIOUS
<1>3. PICK cause : cause = IF EntryOf(q, v).history # Absent THEN {"return"} ELSE {}
    OBVIOUS
<1>4. Valid(q) /\ v \in RevisionsIn(Runtime, q) /\ Plan(p, writes, cause)
    BY <1>1, <1>2, <1>3 DEF ImportReturn
<1>5. q \in Reports /\ q \notin Majors /\ f \in Files /\ "overlap" \notin cause
    BY <1>1, <1>3, ReportsHaveOneKind, FilesAre DEF Reports
<1>6. /\ IsPlan(writes) /\ writes # <<>> /\ all = {Write(f, grown)} /\ FilesOf(all) = {f}
      /\ FilesOf(all) \subseteq Files /\ OneEach(all)
  <2>1. /\ IsPlan(<<Write(f, grown)>>) /\ <<Write(f, grown)>> # <<>>
        /\ WritesOf(<<Write(f, grown)>>) = {Write(f, grown)}
        /\ FilesOf({Write(f, grown)}) = {f} /\ OneEach({Write(f, grown)})
      BY <1>5, PlanOfOneFile
  <2> QED
      BY <1>2, <1>5, <2>1
<1>7. /\ "overlap" \notin spoilt => \A w \in all : Fits(w)
      /\ NotBoth(FilesOf(all))
  <2>1. \A w \in all : w.file = f
      BY <1>6 DEF FilesOf
  <2>2. \A m \in Majors, x \in Revisions : f # <<"owner", m, x>> /\ f # <<"receipt", m, x>>
      BY <1>1
  <2> QED
      BY <2>1, <2>2, PlansThatFit
<1>8. ASSUME cause = {}, Sound(disk) PROVE Sound(With(disk, all))
  <2>1. ManifestsSound(disk) /\ HistoriesSound(disk)
      BY <1>4, <1>8, ValidIsThere
  <2>2. PICK e : e = With(disk, all)
      OBVIOUS
  <2>3. /\ \A g \in Files : g # f => e[g] = disk[g]
        /\ e[f] = grown
    <3>1. OneEach(all)
        BY <1>6
    <3>2. \A g \in Files : g \notin FilesOf(all) => e[g] = disk[g]
        BY <2>2, <3>1, WithWrites
    <3>3. \A g \in Files : \A x : Write(g, x) \in all => e[g] = x
        BY <2>2, <3>1, WithWrites
    <3> QED
        BY <1>5, <1>6, <3>2, <3>3
  <2>4. /\ \A n \in Manifests : e[n] = disk[n]
        /\ \A o \in Reports, w \in Revisions : /\ e[<<"body", o, w>>] = disk[<<"body", o, w>>]
                                               /\ e[<<"owner", o, w>>] = disk[<<"owner", o, w>>]
        /\ \A o \in Quarters, w \in Revisions :
              <<o, w>> # <<q, v>> => e[<<"history", o, w>>] = disk[<<"history", o, w>>]
        /\ e[<<"history", q, v>>] = grown
    <3>1. /\ \A n \in Manifests : n # f
          /\ \A o \in Reports, w \in Revisions :
                /\ <<"body", o, w>> # f /\ <<"owner", o, w>> # f
                /\ <<"history", o, w>> = f => <<o, w>> = <<q, v>>
        BY <1>1 DEF Manifests
    <3> QED
        BY <1>1, <2>3, <3>1, FilesAre DEF Reports
  <2>5. grown \in Histories
    <3>1. History(q, v) \in Histories
      <4>1. Original \in Histories
          BY DEF Original, Histories
      <4> QED
          BY <2>1, <4>1 DEF History, HistoriesSound
    <3>2. PICK h, k, yes : /\ h = History(q, v) /\ k = h.returns + 1 /\ yes = TRUE
                           /\ k \in Nat /\ yes \in BOOLEAN /\ h.current \in Nat
      <4>1. History(q, v).returns + 1 \in Nat /\ History(q, v).current \in Nat
          BY <3>1 DEF Histories
      <4>2. TRUE \in BOOLEAN
          OBVIOUS
      <4> QED
          BY <4>1, <4>2
    <3>3. PICK half : half = [h EXCEPT !.returns = k]
        OBVIOUS
    <3>4. h = [returns |-> h.returns, current |-> h.current, pending |-> h.pending]
        BY <3>1, <3>2 DEF Histories
    <3>5. half = [returns |-> k, current |-> h.current, pending |-> h.pending]
        BY <3>3, <3>4
    <3>6. grown = [half EXCEPT !.pending = yes]
        BY <1>1, <3>2, <3>3, <3>4
    <3>7. grown = [returns |-> k, current |-> h.current, pending |-> yes]
        BY <3>5, <3>6
    <3> QED
        BY <3>2, <3>7 DEF Histories
  <2>6. HistoriesSound(e)
    <3> SUFFICES ASSUME NEW o \in Quarters, NEW w \in Revisions
                 PROVE  e[<<"history", o, w>>] \in Histories \cup {Absent}
        BY DEF HistoriesSound
    <3>1. CASE <<o, w>> = <<q, v>>
        BY <2>4, <2>5, <3>1
    <3>2. CASE <<o, w>> # <<q, v>>
        BY <2>1, <2>4, <3>2 DEF HistoriesSound
    <3> QED
        BY <3>1, <3>2
  <2>7. /\ e[<<"runtime">>] = disk[<<"runtime">>] /\ e[<<"library">>] = disk[<<"library">>]
        /\ disk[<<"runtime">>] \in ManifestRecords /\ disk[<<"library">>] \in ManifestRecords
      BY <2>1, <2>4 DEF Manifests, ManifestsSound
  <2>8. PICK k \in 0..MaxRevision :
           ReportSound(disk, disk[<<"runtime">>], disk[<<"library">>], q, k)
      BY <1>5, <2>1 DEF ManifestsSound
  <2>9. ReportSound(e, e[<<"runtime">>], e[<<"library">>], q, k)
    <3>1. ASSUME NEW w \in 1..k
          PROVE  EntrySound(e, e[<<"runtime">>].entries[q], e[<<"library">>].entries[q], q, w)
      <4>1. w \in Revisions
          BY RevisionsAreCounted DEF Revisions
      <4>2. EntrySound(disk, disk[<<"runtime">>].entries[q],
                       disk[<<"library">>].entries[q], q, w)
          BY <2>8 DEF ReportSound
      <4>3. disk[<<"runtime">>].entries[q][w].history # Absent =>
               e[<<"history", q, w>>] = disk[<<"history", q, w>>]
        <5>1. disk[<<"runtime">>].entries[q][v].history = Absent
            BY <1>3, <1>8 DEF EntryOf, Runtime
        <5> QED
            BY <2>4, <4>1, <5>1
      <4> QED
          BY <1>5, <2>4, <2>7, <4>1, <4>2, <4>3 DEF EntrySound
    <3> QED
        BY <2>7, <2>8, <3>1 DEF ReportSound, LatestSound
  <2>10. Sound(e)
    <3>1. /\ e[<<"runtime">>].monthly = disk[<<"runtime">>].monthly
          /\ e[<<"library">>].monthly = disk[<<"library">>].monthly
        BY <2>7
    <3>2. \A o \in Reports : o # q =>
             /\ \A n \in Manifests : /\ e[n].entries[o] = disk[n].entries[o]
                                     /\ e[n].latest[o] = disk[n].latest[o]
             /\ \A w \in Revisions : /\ e[<<"body", o, w>>] = disk[<<"body", o, w>>]
                                     /\ e[<<"owner", o, w>>] = disk[<<"owner", o, w>>]
                                     /\ o \in Quarters =>
                                           e[<<"history", o, w>>] = disk[<<"history", o, w>>]
        BY <2>4
    <3> QED
        BY <1>5, <2>1, <2>6, <2>7, <2>9, <3>1, <3>2, OneReportReplaced
  <2> QED
      BY <2>2, <2>10
<1> QED
    BY <1>2, <1>4, <1>5, <1>6, <1>7, <1>8, PlanningKeeps

LEMMA ApplyingKeeps ==
  ASSUME LibraryInv, NEW p \in Writers, ~ AtWork(p),
         NEW q \in Quarters, NEW v \in Revisions, ApplyReturn(p, q, v)
  PROVE  LibraryInv'
<1>1. PICK n, applied : /\ n = History(q, v).returns
                        /\ applied = [returns |-> n, current |-> n, pending |-> FALSE]
    OBVIOUS
<1>2. PICK left, right, runtime, library :
         /\ left = [Runtime.entries[q][v] EXCEPT !.content = n, !.history = applied]
         /\ right = [Library.entries[q][v] EXCEPT !.content = n, !.history = applied]
         /\ runtime = WithEntry(Runtime, q, v, left)
         /\ library = WithEntry(Library, q, v, right)
    OBVIOUS
<1>3. PICK f, g, h : /\ f = <<"body", q, v>> /\ g = <<"owner", q, v>>
                     /\ h = <<"history", q, v>>
    OBVIOUS
<1>4. PICK writes, all :
         /\ writes = <<Write(f, n), Write(g, n), Write(h, applied)>>
                        \o ReplaceManifests(runtime, library)
         /\ all = WritesOf(writes)
    OBVIOUS
<1>5. PICK cause : cause = IF v < Count(q) THEN {"return"} ELSE {}
    OBVIOUS
<1>6. /\ Valid(q) /\ v \in RevisionsIn(Runtime, q) /\ History(q, v).pending
      /\ Plan(p, writes, cause)
    BY <1>1, <1>2, <1>3, <1>4, <1>5 DEF ApplyReturn, WithEntry
<1>7. q \in Reports /\ q \notin Majors /\ "overlap" \notin cause
    BY <1>5, ReportsHaveOneKind DEF Reports
<1>8. /\ f \in Files \ Manifests /\ g \in Files \ Manifests /\ h \in Files \ Manifests
      /\ f # g /\ f # h /\ g # h
    BY <1>3, <1>7, FilesAre
<1>9. /\ IsPlan(writes) /\ writes # <<>> /\ OneEach(all)
      /\ all = {Write(f, n), Write(g, n), Write(h, applied)} \cup BothManifests(runtime, library)
      /\ FilesOf(all) = {f, g, h} \cup Manifests /\ FilesOf(all) \subseteq Files
  <2>1. PlanIs(writes, {Write(f, n), Write(g, n), Write(h, applied)}, {f, g, h},
               runtime, library)
      BY <1>4, <1>8, PlanOfThreeFiles
  <2> QED
      BY <1>4, <2>1 DEF PlanIs
<1>10. \A w \in all : w.file \in FilesOf(all)
    BY DEF FilesOf
<1>11. \A o \in Reports, x \in Revisions :
          /\ <<"body", o, x>> \in FilesOf(all) => <<o, x>> = <<q, v>>
          /\ <<"owner", o, x>> \in FilesOf(all) => <<o, x>> = <<q, v>>
          /\ <<"history", o, x>> \in FilesOf(all) => <<o, x>> = <<q, v>>
          /\ <<"receipt", o, x>> \notin FilesOf(all)
    BY <1>3, <1>9 DEF Manifests
<1>12. /\ "overlap" \notin spoilt => \A w \in all : Fits(w)
       /\ NotBoth(FilesOf(all))
  <2>1. \A w \in all : \A m \in Majors, x \in Revisions :
           w.file # <<"receipt", m, x>> /\ w.file # <<"owner", m, x>>
      BY <1>7, <1>10, <1>11 DEF Reports
  <2> QED
      BY <2>1, PlansThatFit
<1>13. ASSUME cause = {}, Sound(disk) PROVE Sound(With(disk, all))
  <2>1. ManifestsSound(disk) /\ HistoriesSound(disk)
      BY <1>6, <1>13, ValidIsThere
  <2>2. PICK e : e = With(disk, all)
      OBVIOUS
  <2>3. /\ \A o \in Files : o \notin FilesOf(all) => e[o] = disk[o]
        /\ \A o \in Files : \A x : Write(o, x) \in all => e[o] = x
    <3>1. OneEach(all)
        BY <1>9
    <3>2. \A o \in Files : o \notin FilesOf(all) => e[o] = disk[o]
        BY <2>2, <3>1, WithWrites
    <3>3. \A o \in Files : \A x : Write(o, x) \in all => e[o] = x
        BY <2>2, <3>1, WithWrites
    <3> QED
        BY <3>2, <3>3
  <2>4. /\ e[<<"runtime">>] = runtime /\ e[<<"library">>] = library
        /\ e[f] = n /\ e[g] = n /\ e[h] = applied
      BY <1>8, <1>9, <2>3, FilesAre DEF BothManifests
  <2>6. n \in Nat /\ applied \in Histories
    <3>1. History(q, v) \in Histories
      <4>1. Original \in Histories
          BY DEF Original, Histories
      <4> QED
          BY <2>1, <4>1 DEF History, HistoriesSound
    <3>2. n \in Nat
        BY <1>1, <3>1 DEF Histories
    <3>3. FALSE \in BOOLEAN
        OBVIOUS
    <3> QED
        BY <1>1, <3>2, <3>3 DEF Histories
  <2>7. /\ Runtime.entries[q][v] \in EntryRecords /\ Library.entries[q][v] \in EntryRecords
        /\ Alike(Runtime.entries[q][v], Library.entries[q][v]) /\ v \in 1..Count(q)
      BY <1>6, <1>7, <2>1, EntriesAgree
  <2>8. /\ left \in EntryRecords /\ right \in EntryRecords /\ Alike(left, right)
        /\ left.content = n /\ left.history = applied
        /\ left.prev = disk[<<"runtime">>].entries[q][v].prev
    <3>1. PICK a, b : a = Runtime.entries[q][v] /\ b = Library.entries[q][v]
        OBVIOUS
    <3>2. /\ left = [content |-> n, prev |-> a.prev, history |-> applied,
                     rendered |-> a.rendered, decision |-> a.decision]
          /\ right = [content |-> n, prev |-> b.prev, history |-> applied,
                      rendered |-> b.rendered, decision |-> b.decision]
      <4>1. a \in EntryRecords /\ b \in EntryRecords
          BY <2>7, <3>1
      <4>2. /\ left = [a EXCEPT !.content = n, !.history = applied]
            /\ right = [b EXCEPT !.content = n, !.history = applied]
          BY <1>2, <3>1
      <4>3. \A c \in EntryRecords : \A x, y :
               [c EXCEPT !.content = x, !.history = y]
                  = [content |-> x, prev |-> c.prev, history |-> y,
                     rendered |-> c.rendered, decision |-> c.decision]
          BY EntriesChange
      <4> QED
          BY <4>1, <4>2, <4>3
    <3>3. left \in EntryRecords /\ right \in EntryRecords
        BY <2>6, <2>7, <3>1, <3>2, EntryIs DEF EntryRecords
    <3>4. Alike(left, right)
        BY <2>7, <3>1, <3>2 DEF Alike
    <3>5. left.content = n /\ left.history = applied /\ left.prev = a.prev
        BY <3>2
    <3> QED
        BY <3>1, <3>3, <3>4, <3>5 DEF Runtime
  <2>9. HistoriesSound(e)
    <3> SUFFICES ASSUME NEW o \in Quarters, NEW w \in Revisions
                 PROVE  e[<<"history", o, w>>] \in Histories \cup {Absent}
        BY DEF HistoriesSound
    <3>1. CASE <<o, w>> = <<q, v>>
        BY <1>3, <2>4, <2>6, <3>1
    <3>2. CASE <<o, w>> # <<q, v>>
        BY <1>11, <2>1, <2>3, <3>2, FilesAre DEF HistoriesSound, Reports
    <3> QED
        BY <3>1, <3>2
  <2>10. FilesTell(e, left, q, v)
      BY <1>3, <1>7, <2>4, <2>8 DEF FilesTell
  <2>11. OthersStay(disk, e, q, v)
      BY <1>11, <2>3, FilesAre DEF OthersStay, Reports
  <2>12. /\ Count(q) \in 0..MaxRevision
         /\ ReportSound(disk, disk[<<"runtime">>], disk[<<"library">>], q, Count(q))
      BY <1>7, <2>1, CountIs DEF Runtime, Library
  <2>13. v < Count(q) => left.content = disk[<<"runtime">>].entries[q][v].content
      BY <1>5, <1>13
  <2>14. /\ e[<<"runtime">>] = WithEntry(disk[<<"runtime">>], q, v, left)
         /\ e[<<"library">>] = WithEntry(disk[<<"library">>], q, v, right)
      BY <1>2, <2>4 DEF Runtime, Library
  <2>15. Sound(e)
      BY <1>7, <2>1, <2>7, <2>8, <2>9, <2>10, <2>11, <2>12, <2>13, <2>14,
         ChangedRevisionIsSound
  <2> QED
      BY <2>2, <2>15
<1> QED
    BY <1>4, <1>6, <1>7, <1>9, <1>12, <1>13, PlanningKeeps

(* The plan of both manifests and nothing else.                               *)
LEMMA PlanOfManifests ==
  ASSUME NEW runtime, NEW library, NEW writes,
         writes = ReplaceManifests(runtime, library)
  PROVE  /\ IsPlan(writes) /\ writes # <<>> /\ OneEach(WritesOf(writes))
         /\ WritesOf(writes) = BothManifests(runtime, library)
         /\ FilesOf(WritesOf(writes)) = Manifests /\ FilesOf(WritesOf(writes)) \subseteq Files
<1>1. PICK a, b : a = Write(<<"runtime">>, runtime) /\ b = Write(<<"library">>, library)
    OBVIOUS
<1>2. a.file = <<"runtime">> /\ b.file = <<"library">> /\ a.file # b.file
    BY <1>1 DEF Write
<1>3. writes = <<a, b>> /\ BothManifests(runtime, library) = {a, b}
    BY <1>1 DEF ReplaceManifests, BothManifests
<1>4. IsPlan(<<a, b>>) /\ WritesOf(<<a, b>>) = {a, b} /\ <<a, b>> # <<>>
    BY <1>2, PlanOfTwo
<1>5. FilesOf({a, b}) = Manifests
    BY <1>2 DEF FilesOf, Manifests
<1> QED
    BY <1>3, <1>4, <1>5, FilesAre, PlanIsOneEach

LEMMA ManifestsFit ==
  ASSUME NEW writes, FilesOf(writes) \subseteq Manifests
  PROVE  /\ "overlap" \notin spoilt => \A w \in writes : Fits(w)
         /\ NotBoth(FilesOf(writes))
<1>1. \A w \in writes : w.file \in Manifests
    BY DEF FilesOf
<1>2. \A w \in writes : \A m \in Majors, x \in Revisions :
         w.file # <<"receipt", m, x>> /\ w.file # <<"owner", m, x>>
    BY <1>1, FilesAre DEF Reports
<1> QED
    BY <1>2, PlansThatFit

(* A library of empty manifests is sound, whatever lies beside them.          *)
LEMMA EmptyIsSound ==
  ASSUME NEW writes, OneEach(writes), FilesOf(writes) = Manifests,
         NEW runtime \in ManifestRecords, NEW library \in ManifestRecords,
         writes = BothManifests(runtime, library), HistoriesSound(disk),
         library.monthly => runtime.monthly,
         \A r \in Reports : runtime.latest[r] = Absent /\ library.latest[r] = Absent,
         \A r \in Reports, v \in Revisions :
            runtime.entries[r][v] = Absent /\ library.entries[r][v] = Absent
  PROVE  Sound(With(disk, writes))
<1>1. PICK e : e = With(disk, writes)
    OBVIOUS
<1>2. /\ \A f \in Files : \A x : Write(f, x) \in writes => e[f] = x
      /\ \A f \in Files : f \notin FilesOf(writes) => e[f] = disk[f]
    BY <1>1, WithWrites
<1>3. e[<<"runtime">>] = runtime /\ e[<<"library">>] = library
    BY <1>2, FilesAre DEF BothManifests
<1>4. HistoriesSound(e)
    BY <1>2, FilesAre DEF HistoriesSound
<1>5. \A r \in Reports : ReportSound(e, runtime, library, r, 0)
  <2>1. \A v \in Revisions : ~ (v <= 0)
      BY RevisionsAreCounted DEF Revisions
  <2>2. 1..0 = {}
      OBVIOUS
  <2> QED
      BY <2>1, <2>2 DEF ReportSound, LatestSound
<1>6. 0 \in 0..MaxRevision
    BY RevisionsAreCounted
<1>7. Sound(e)
    BY <1>3, <1>4, <1>5, <1>6 DEF Sound, ManifestsSound
<1> QED
    BY <1>1, <1>7

LEMMA BootstrapKeeps ==
  ASSUME LibraryInv, NEW p \in Writers, ~ AtWork(p), Bootstrap(p)
  PROVE  LibraryInv'
<1>1. PICK writes, all : /\ writes = ReplaceManifests(EmptyManifest, EmptyManifest)
                         /\ all = WritesOf(writes)
    OBVIOUS
<1>2. Plan(p, writes, {})
    BY <1>1 DEF Bootstrap, ReplaceManifests
<1>3. /\ IsPlan(writes) /\ writes # <<>> /\ OneEach(all)
      /\ all = BothManifests(EmptyManifest, EmptyManifest)
      /\ FilesOf(all) = Manifests /\ FilesOf(all) \subseteq Files
    BY <1>1, PlanOfManifests
<1>4. ("overlap" \notin spoilt => \A w \in all : Fits(w)) /\ NotBoth(FilesOf(all))
    BY <1>3, ManifestsFit
<1>5. ASSUME Sound(disk) PROVE Sound(With(disk, all))
  <2>1. HistoriesSound(disk)
      BY <1>5 DEF Sound
  <2> QED
      BY <1>3, <2>1, EmptyManifestIs, EmptyIsSound
<1> QED
    BY <1>1, <1>2, <1>3, <1>4, <1>5, PlanningKeeps

(* What a periodic report makes of a manifest, or of none.                    *)
Periodic(m) == IF m = Absent THEN [EmptyManifest EXCEPT !.monthly = TRUE]
               ELSE [m EXCEPT !.monthly = TRUE, !.latest = EmptyManifest.latest]

LEMMA PeriodicIs ==
  ASSUME NEW m, m = Absent \/ m \in ManifestRecords
  PROVE  /\ Periodic(m) \in ManifestRecords /\ Periodic(m).monthly = TRUE
         /\ \A r \in Reports : Periodic(m).latest[r] = Absent
         /\ m # Absent => Periodic(m).entries = m.entries
         /\ m = Absent => Periodic(m).entries = EmptyManifest.entries
<1>1. PICK yes : yes = TRUE /\ yes \in BOOLEAN
    OBVIOUS
<1>2. PICK o : o = IF m = Absent THEN EmptyManifest ELSE m
    OBVIOUS
<1>3. o \in ManifestRecords /\ EmptyManifest \in ManifestRecords
    BY <1>2, EmptyManifestIs
<1>4. PICK rows, last, none, monthly :
         /\ rows = o.entries /\ last = o.latest /\ monthly = o.monthly
         /\ none = EmptyManifest.latest
         /\ o = [entries |-> rows, latest |-> last, monthly |-> monthly]
    BY <1>3, ManifestIs
<1>5. Periodic(m) = [entries |-> rows, latest |-> none, monthly |-> yes]
  <2>1. CASE m = Absent
    <3>1. Periodic(m) = [o EXCEPT !.monthly = yes] /\ last = none
        BY <1>1, <1>2, <1>4, <2>1 DEF Periodic
    <3> QED
        BY <1>4, <3>1
  <2>2. CASE m # Absent
    <3>1. PICK half : half = [o EXCEPT !.monthly = yes]
        OBVIOUS
    <3>2. half = [entries |-> rows, latest |-> last, monthly |-> yes]
        BY <1>4, <3>1
    <3>3. Periodic(m) = [half EXCEPT !.latest = none]
        BY <1>1, <1>2, <1>4, <2>2, <3>1 DEF Periodic
    <3> QED
        BY <3>2, <3>3
  <2> QED
      BY <2>1, <2>2
<1>6. /\ rows \in [Reports -> [Revisions -> EntryRecords \cup {Absent}]]
      /\ none \in [Reports -> LatestRecords \cup {Absent}]
      /\ \A r \in Reports : none[r] = Absent
    BY <1>3, <1>4, ManifestIs, EmptyManifestIs
<1>7. Periodic(m) \in ManifestRecords
    BY <1>1, <1>5, <1>6 DEF ManifestRecords
<1>8. Periodic(m).monthly = yes /\ Periodic(m).latest = none /\ Periodic(m).entries = rows
    BY <1>5
<1> QED
    BY <1>1, <1>2, <1>4, <1>6, <1>7, <1>8

(* Where only the runtime's ledger is written, the library stays.             *)
LEMMA LedgerAlone ==
  ASSUME DiskIsFiles, NEW m, NEW writes, writes = {Write(<<"runtime">>, m)}
  PROVE  /\ OneEach(writes) /\ FilesOf(writes) \subseteq Manifests
         /\ With(disk, writes) = With(disk, BothManifests(m, Library))
<1>1. PICK a, b : a = Write(<<"runtime">>, m) /\ b = Write(<<"library">>, Library)
    OBVIOUS
<1>2. /\ a.file = <<"runtime">> /\ a.new = m /\ b.file = <<"library">>
      /\ b.new = disk[<<"library">>] /\ a.file # b.file
      /\ writes = {a} /\ BothManifests(m, Library) = {a, b}
    BY <1>1 DEF Write, Library, BothManifests
<1>3. OneEach({a}) /\ OneEach({a, b})
    BY <1>2 DEF OneEach
<1>4. ASSUME NEW f \in Files PROVE With(disk, {a})[f] = With(disk, {a, b})[f]
  <2>1. CASE f = a.file
      BY <1>3, <2>1, WithAt
  <2>2. CASE f = b.file
    <3>1. With(disk, {a, b})[f] = b.new
        BY <1>3, <2>2, WithAt
    <3>2. f \notin FilesOf({a})
        BY <1>2, <2>2 DEF FilesOf
    <3> QED
        BY <1>2, <1>3, <2>2, <3>1, <3>2, WithAt
  <2>3. CASE f \notin {a.file, b.file}
    <3>1. f \notin FilesOf({a}) /\ f \notin FilesOf({a, b})
        BY <2>3 DEF FilesOf
    <3> QED
        BY <1>3, <3>1, WithAt
  <2> QED
      BY <2>1, <2>2, <2>3
<1>5. \A w : With(disk, w) = [f \in Files |-> With(disk, w)[f]]
    BY DEF With
<1>6. With(disk, {a}) = With(disk, {a, b})
    BY <1>4, <1>5
<1>7. FilesOf({a}) \subseteq Manifests
    BY <1>2, FilesAre DEF FilesOf
<1> QED
    BY <1>2, <1>3, <1>6, <1>7

LEMMA UpsertKeeps ==
  ASSUME LibraryInv, NEW p \in Writers, ~ AtWork(p), NEW eligible \in BOOLEAN,
         Upsert(p, eligible)
  PROVE  LibraryInv'
<1>1. PICK writes, all, library :
         /\ writes = IF eligible THEN ReplaceManifests(Periodic(Runtime), Periodic(Library))
                     ELSE <<Write(<<"runtime">>, Periodic(Runtime))>>
         /\ all = WritesOf(writes)
         /\ library = IF eligible THEN Periodic(Library) ELSE Library
    OBVIOUS
<1>2. PICK cause :
         /\ cause = IF \/ (Runtime = Absent) # (Library = Absent)
                       \/ Library = Absent /\ ~ eligible
                       \/ Runtime # Absent /\ Runtime.latest # EmptyManifest.latest
                    THEN {"upsert"} ELSE {}
         /\ BeginWriting(p, writes, <<>>, cause)
    BY <1>1 DEF Upsert, Periodic
<1>3. "overlap" \notin cause
    BY <1>2
<1>4. /\ IsPlan(writes) /\ writes # <<>> /\ OneEach(all)
      /\ FilesOf(all) \subseteq Manifests /\ FilesOf(all) \subseteq Files
      /\ With(disk, all) = With(disk, BothManifests(Periodic(Runtime), library))
  <2>1. CASE eligible
      BY <1>1, <2>1, PlanOfManifests
  <2>2. CASE ~ eligible
    <3>1. PICK w : w = Write(<<"runtime">>, Periodic(Runtime))
        OBVIOUS
    <3>2. writes = <<w>> /\ all = {w} /\ IsPlan(writes) /\ writes # <<>>
        BY <1>1, <2>2, <3>1, PlanOfOne
    <3> QED
        BY <1>1, <2>2, <3>1, <3>2, LedgerAlone, FilesAre DEF LibraryInv, TransactionsInv
  <2> QED
      BY <2>1, <2>2
<1>5. ("overlap" \notin spoilt => \A w \in all : Fits(w)) /\ NotBoth(FilesOf(all))
    BY <1>4, ManifestsFit
<1>6. ASSUME cause = {}, Sound(disk) PROVE Sound(With(disk, all))
  <2>1. /\ HistoriesSound(disk)
        /\ (Runtime = Absent /\ Library = Absent) \/ ManifestsSound(disk)
      BY <1>6 DEF Sound, Runtime, Library
  <2>2. /\ Runtime = Absent \/ Runtime \in ManifestRecords
        /\ Library = Absent \/ Library \in ManifestRecords
        /\ Runtime = Absent <=> Library = Absent
        /\ ~ eligible => Library # Absent
        /\ Runtime # Absent => ManifestsSound(disk) /\ Runtime.latest = EmptyManifest.latest
      BY <1>2, <1>6, <2>1, ManifestIs DEF ManifestsSound, Runtime, Library
  <2>3. ASSUME Runtime # Absent, NEW r \in Reports
        PROVE  /\ Library.latest[r] = Absent
               /\ \A v \in Revisions :
                     Runtime.entries[r][v] = Absent /\ Library.entries[r][v] = Absent
    <3>1. PICK k \in 0..MaxRevision : ReportSound(disk, Runtime, Library, r, k)
        BY <2>2, <2>3 DEF ManifestsSound, Runtime, Library
    <3>2. Runtime.latest[r] = Absent
        BY <2>2, <2>3, EmptyManifestIs
    <3>3. k = 0
        BY <3>1, <3>2 DEF ReportSound, LatestSound
    <3>4. \A v \in Revisions : ~ (v <= 0)
        BY RevisionsAreCounted DEF Revisions
    <3> QED
        BY <3>1, <3>3, <3>4 DEF ReportSound, LatestSound
  <2>4. PICK runtime : runtime = Periodic(Runtime)
      OBVIOUS
  <2>5. /\ runtime \in ManifestRecords /\ runtime.monthly = TRUE
        /\ \A r \in Reports : runtime.latest[r] = Absent
        /\ \A r \in Reports, v \in Revisions : runtime.entries[r][v] = Absent
    <3>1. CASE Runtime = Absent
        BY <2>2, <2>4, <3>1, PeriodicIs, EmptyManifestIs
    <3>2. CASE Runtime # Absent
      <4>1. runtime.entries = Runtime.entries
          BY <2>2, <2>4, <3>2, PeriodicIs
      <4>2. /\ runtime \in ManifestRecords /\ runtime.monthly = TRUE
            /\ \A r \in Reports : runtime.latest[r] = Absent
          BY <2>2, <2>4, PeriodicIs
      <4>3. \A r \in Reports, v \in Revisions : Runtime.entries[r][v] = Absent
          BY <2>3, <3>2
      <4> QED
          BY <4>1, <4>2, <4>3
    <3> QED
        BY <3>1, <3>2
  <2>6. /\ library \in ManifestRecords
        /\ \A r \in Reports : library.latest[r] = Absent
        /\ \A r \in Reports, v \in Revisions : library.entries[r][v] = Absent
    <3>1. CASE ~ eligible
        BY <1>1, <2>2, <2>3, <3>1
    <3>2. CASE eligible /\ Library = Absent
        BY <1>1, <2>2, <3>2, PeriodicIs, EmptyManifestIs
    <3>3. CASE eligible /\ Library # Absent
      <4>1. library.entries = Library.entries
          BY <1>1, <2>2, <3>3, PeriodicIs
      <4> QED
          BY <1>1, <2>2, <2>3, <3>3, <4>1, PeriodicIs
    <3> QED
        BY <3>1, <3>2, <3>3
  <2>7. OneEach(BothManifests(runtime, library))
        /\ FilesOf(BothManifests(runtime, library)) = Manifests
      BY PlanOfManifests
  <2>8. Sound(With(disk, BothManifests(runtime, library)))
      BY <2>1, <2>5, <2>6, <2>7, EmptyIsSound
  <2> QED
      BY <1>4, <2>4, <2>8
<1>7. IsPlan(<<>>)
  <2>1. <<>> \in Seq({}) /\ DOMAIN <<>> = {}
      OBVIOUS
  <2> QED
      BY <2>1, SomeSeqIsList DEF IsPlan
<1>8. \A w \in all : TakesBackPermission(w)
    BY <1>4, FilesAre DEF TakesBackPermission, FilesOf
<1> QED
    BY <1>1, <1>2, <1>3, <1>4, <1>5, <1>6, <1>7, <1>8, BeginningKeeps

LEMMA LibraryKept ==
  LibraryInv /\ [LibraryNext]_lvars => LibraryInv'
<1> SUFFICES ASSUME LibraryInv, [LibraryNext]_lvars PROVE LibraryInv'
    OBVIOUS
<1>1. CASE UNCHANGED lvars
  <2>1. disk' = disk /\ writer' = writer /\ spoilt' = spoilt
      BY <1>1 DEF lvars
  <2>2. TransactionsInv'
      BY <2>1 DEF LibraryInv, TransactionsInv, DiskIsFiles, WritersAreRecords,
         PlansAreInOrder, OnlyOriginalsAreLeft, OneAtATime, Todo, Saved, AtWork
  <2>3. PermissionsInv'
      BY <2>1 DEF LibraryInv, PermissionsInv, PermissionsStand, PlansAreHarmless,
         Harmless, PermitsTheApproved, TakesBackPermission, Todo, Saved, AtWork
  <2>4. SoundInv'
    <3> SUFFICES ASSUME spoilt = {}
                 PROVE  /\ Quiet' => Sound(disk')
                        /\ \A other \in Writers : AtWork(other)' =>
                              /\ Sound(With(disk', Todo(other)'))
                              /\ writer'[other].saved # <<>> =>
                                    Sound(With(disk', Saved(other)'))
        BY <2>1 DEF SoundInv, Sound, HistoriesSound, ManifestsSound, ReportSound, EntrySound,
           LatestSound, With
    <3> QED
        BY <2>1 DEF LibraryInv, SoundInv, Quiet, Todo, Saved, AtWork
  <2> QED
      BY <2>2, <2>3, <2>4 DEF LibraryInv
<1>2. CASE LibraryNext
  <2>1. PICK p \in Writers :
           \/ ~ AtWork(p) /\ (Bootstrap(p) \/ PeriodicWork(p) \/ QuarterlyWork(p) \/ MajorEventWork(p))
           \/ GoOn(p)
      BY <1>2 DEF LibraryNext
  <2>2. CASE GoOn(p)
      BY <2>2, ReplaceKeeps, RollBackKeeps, RestoreFailsKeeps, KillKeeps DEF GoOn
  <2>3. CASE ~ AtWork(p) /\ (Bootstrap(p) \/ PeriodicWork(p))
      BY <2>3, BootstrapKeeps, UpsertKeeps DEF PeriodicWork
  <2>4. CASE ~ AtWork(p) /\ QuarterlyWork(p)
      BY <2>4, CompletingKeeps, ImportingKeeps, ApplyingKeeps DEF QuarterlyWork
  <2>5. CASE ~ AtWork(p) /\ MajorEventWork(p)
      BY <2>5, PersistingKeeps, RenderingKeeps, AuthorizingKeeps, DecidingKeeps
         DEF MajorEventWork
  <2> QED
      BY <2>1, <2>2, <2>3, <2>4, <2>5
<1> QED
    BY <1>1, <1>2

(* A sound library is one that every program accepts.                         *)
LEMMA SoundIsUsable ==
  ASSUME Sound(disk)
  PROVE  Usable
<1>1. CASE disk[<<"runtime">>] = Absent /\ disk[<<"library">>] = Absent
    BY <1>1 DEF Usable, Runtime, Library
<1>2. CASE ManifestsSound(disk)
  <2>1. Runtime \in ManifestRecords /\ Library \in ManifestRecords
        /\ Runtime # Absent /\ Library # Absent
      BY <1>2, ManifestIs DEF ManifestsSound, Runtime, Library
  <2>2. ASSUME NEW r \in Reports
        PROVE  /\ RevisionsIn(Runtime, r) = RevisionsIn(Library, r)
               /\ RevisionsIn(Runtime, r) \subseteq Revisions
               /\ \A m \in Manifests : LatestSound(disk[m], r, Count(r))
               /\ Count(r) \in Nat /\ RevisionsIn(Runtime, r) = 1..Count(r)
               /\ \A v \in RevisionsIn(Runtime, r) :
                     EntrySound(disk, Runtime.entries[r], Library.entries[r], r, v)
    <3>1. /\ Count(r) \in 0..MaxRevision
          /\ ReportSound(disk, Runtime, Library, r, Count(r))
          /\ RevisionsIn(Runtime, r) = 1..Count(r) /\ RevisionsIn(Library, r) = 1..Count(r)
        BY <1>2, CountIs
    <3>2. \A m \in Manifests : LatestSound(disk[m], r, Count(r))
        BY <3>1 DEF ReportSound, Manifests, Runtime, Library
    <3> QED
        BY <3>1, <3>2 DEF ReportSound, RevisionsIn
  <2>3. Related
    <3>1. ASSUME NEW m \in Manifests, NEW r \in Reports, disk[m].latest[r] # Absent
          PROVE  disk[m].latest[r].v \in RevisionsIn(disk[m], r)
      <4>1. LatestSound(disk[m], r, Count(r)) /\ Count(r) \in Nat
          BY <2>2
      <4>2. Count(r) > 0 /\ disk[m].latest[r].v = Count(r)
          BY <3>1, <4>1 DEF LatestSound
      <4>3. Count(r) \in RevisionsIn(Runtime, r) /\ Count(r) \in RevisionsIn(Library, r)
          BY <2>2, <4>1, <4>2
      <4> QED
          BY <4>2, <4>3 DEF Manifests, Runtime, Library
    <3>2. \A m \in Manifests : disk[m] \notin {Absent, Torn}
        BY <2>1, AbsentIsNoContent DEF Manifests, Runtime, Library
    <3>3. \A r \in Reports : RevisionsIn(Library, r) \subseteq RevisionsIn(Runtime, r)
        BY <2>2
    <3>4. Library.monthly => Runtime.monthly
        BY <1>2 DEF ManifestsSound, Runtime, Library
    <3> QED
        BY <3>1, <3>2, <3>3, <3>4 DEF Related
  <2>4. ArtifactsMatch(Runtime) /\ ArtifactsMatch(Library)
    <3> SUFFICES ASSUME NEW q \in Quarters, NEW m \in {Runtime, Library},
                        NEW v \in RevisionsIn(m, q)
                 PROVE  /\ disk[<<"body", q, v>>] = m.entries[q][v].content
                        /\ disk[<<"owner", q, v>>] = m.entries[q][v].content
                        /\ m.entries[q][v].history # Absent =>
                              disk[<<"history", q, v>>] = m.entries[q][v].history
        BY DEF ArtifactsMatch
    <3>1. q \in Reports
        BY DEF Reports
    <3>2. EntrySound(disk, Runtime.entries[q], Library.entries[q], q, v)
        BY <2>2, <3>1
    <3> QED
        BY <3>2 DEF EntrySound
  <2>5. ASSUME NEW r \in Reports PROVE LineageValid(r)
    <3>1. ASSUME NEW v \in RevisionsIn(Runtime, r)
          PROVE  LET left == Runtime.entries[r][v]  right == Library.entries[r][v]
                 IN  /\ left.content = right.content /\ left.prev = right.prev
                     /\ IF v = 1 THEN left.prev = Absent
                        ELSE /\ EntryOf(r, v - 1) # Absent
                             /\ left.prev = EntryOf(r, v - 1).content
                     /\ disk[<<"body", r, v>>] = left.content
                     /\ IF r \in Quarters THEN disk[<<"owner", r, v>>] = left.content
                        ELSE disk[<<"owner", r, v>>] \notin {Absent, Torn}
      <4>1. EntrySound(disk, Runtime.entries[r], Library.entries[r], r, v)
          BY <2>2
      <4>2. v # 1 => EntryOf(r, v - 1) # Absent
        <5>1. v \in 1..Count(r) /\ Count(r) \in Nat
            BY <2>2
        <5>2. v # 1 => v - 1 \in RevisionsIn(Runtime, r)
            BY <2>2, <5>1
        <5> QED
            BY <5>2 DEF RevisionsIn, EntryOf
      <4>3. r \notin Quarters => disk[<<"owner", r, v>>] \notin {Absent, Torn}
          BY <4>1, AbsentIsNoContent DEF EntrySound, Reports
      <4> QED
          BY <4>1, <4>2, <4>3 DEF EntrySound, EntryOf
    <3>2. Count(r) > 0 => \A m \in Manifests :
             /\ disk[m].latest[r] # Absent /\ disk[m].latest[r].v = Count(r)
             /\ r \in Quarters => disk[m].latest[r].entry = disk[m].entries[r][Count(r)]
        BY <2>2 DEF LatestSound
    <3> QED
        BY <2>2, <3>1, <3>2 DEF LineageValid
  <2>6. ASSUME NEW m \in Majors, NEW v \in RevisionsIn(Runtime, m)
        PROVE  WorkflowValid(m, v)
    <3>1. m \in Reports
        BY DEF Reports
    <3>2. EntrySound(disk, Runtime.entries[m], Library.entries[m], m, v)
          /\ v \in RevisionsIn(Library, m)
        BY <2>2, <3>1
    <3> QED
        BY <3>2 DEF EntrySound, WorkflowValid, EntryOf
  <2>7. (\A r \in Reports : Valid(r))
        /\ \A m \in Majors : \A v \in RevisionsIn(Runtime, m) : WorkflowValid(m, v)
      BY <2>3, <2>4, <2>5, <2>6 DEF Valid, Healthy
  <2> QED
      BY <2>7 DEF Usable
<1> QED
    BY <1>1, <1>2 DEF Sound

(* The inductive invariant holds, for every choice of the constants.          *)
THEOREM LibraryIsKept == LibrarySpec => []LibraryInv
<1> QED
    BY LibraryStarts, LibraryKept, PTL DEF LibrarySpec

(* No permission to publish stands against the owner's decision.              *)
THEOREM PermissionsFollowTheOwner == LibrarySpec => []NoReceiptAgainstTheOwner
<1>1. LibraryInv => NoReceiptAgainstTheOwner
    BY DEF LibraryInv, PermissionsInv, PermissionsStand, ApprovedOn, NoReceiptAgainstTheOwner
<1> QED
    BY <1>1, LibraryIsKept, PTL

(* What the programs leave, the programs accept.                              *)
THEOREM LibraryStaysUsable == LibrarySpec => []UsableUnlessSpoilt
<1>1. LibraryInv => UsableUnlessSpoilt
    BY SoundIsUsable DEF LibraryInv, SoundInv, UsableUnlessSpoilt
<1> QED
    BY <1>1, LibraryIsKept, PTL
=============================================================================
