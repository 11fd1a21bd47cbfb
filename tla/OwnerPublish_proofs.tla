------------------------ MODULE OwnerPublish_proofs ------------------------
(***************************************************************************)
(* Theorems about OwnerPublish, for every value of its constants: however   *)
(* many dates, events, versions, runs, kills and raising file operations.   *)
(***************************************************************************)
EXTENDS OwnerPublish, FiniteSetTheorems, SequenceTheorems, TLAPS

(***************************************************************************)
(* Lemmas about the operators                                              *)
(***************************************************************************)

\* SetToSeq of a finite set is a sequence of its elements, each of them once.
LEMMA SetToSeqIsSeq ==
  ASSUME NEW S, IsFiniteSet(S)
  PROVE  /\ SetToSeq(S) \in Seq(S)
         /\ IsInjective(SetToSeq(S))
         /\ S = {} => SetToSeq(S) = <<>>
<1> DEFINE n == Cardinality(S)
<1>1. n \in Nat /\ ExistsBijection(1..n, S)
  BY FS_CardinalityType
<1>2. \E f \in [1..n -> S] : IsInjective(f)
  BY <1>1 DEF ExistsBijection, Bijection, Injection
<1>3. SetToSeq(S) \in [1..n -> S] /\ IsInjective(SetToSeq(S))
  BY <1>2 DEF SetToSeq
<1>4. SetToSeq(S) \in Seq(S)
  BY <1>1, <1>3, SeqDef
<1>5. ASSUME S = {} PROVE SetToSeq(S) = <<>>
  <2>1. n = 0
    BY <1>5, FS_EmptySet
  <2>2. Len(SetToSeq(S)) = 0
    BY <2>1, <1>3
  <2> QED BY <2>2, <1>4, EmptySeq
<1> QED BY <1>3, <1>4, <1>5

\* ... and it has all of them.
LEMMA SetToSeqHasAll ==
  ASSUME NEW S, IsFiniteSet(S)
  PROVE  ToSet(SetToSeq(S)) = S
<1> DEFINE n == Cardinality(S)
<1>1. n \in Nat /\ \E f \in [1..n -> S] : f \in Bijection(1..n, S)
  BY FS_CardinalityType DEF ExistsBijection, Bijection, Injection
<1>2. \E f \in [1..n -> S] : IsInjective(f)
  BY <1>1 DEF Bijection, Injection
<1>3. SetToSeq(S) \in [1..n -> S] /\ IsInjective(SetToSeq(S))
  BY <1>2 DEF SetToSeq
<1> DEFINE f == SetToSeq(S)
<1> HIDE DEF f
<1>4. f \in Injection(1..n, S)
  BY <1>3 DEF f, Injection, IsInjective
<1>5. IsFiniteSet(1..n) /\ Cardinality(1..n) = n
  BY <1>1, FS_Interval
<1>6. f \in Surjection(1..n, S)
  BY <1>4, <1>5, FS_Injection
<1> QED BY <1>6 DEF Surjection, ToSet, f

LEMMA ToSetOfConcat ==
  ASSUME NEW s \in Seq(Row), NEW u \in Seq(Row)
  PROVE  ToSet(s \o u) = ToSet(s) \union ToSet(u)
<1> DEFINE w == s \o u
<1>1. /\ Len(s) \in Nat /\ Len(u) \in Nat
      /\ DOMAIN s = 1..Len(s) /\ DOMAIN u = 1..Len(u)
  BY LenProperties
<1>2. /\ w \in Seq(Row) /\ Len(w) = Len(s) + Len(u)
      /\ \A i \in 1..(Len(s) + Len(u)) : w[i] = IF i <= Len(s) THEN s[i] ELSE u[i - Len(s)]
  BY ConcatProperties
<1>3. DOMAIN w = 1..(Len(s) + Len(u))
  BY <1>2, LenProperties
<1> HIDE DEF w
<1>4. ASSUME NEW i \in DOMAIN w PROVE w[i] \in ToSet(s) \union ToSet(u)
  <2>1. CASE i <= Len(s)
    BY <1>1, <1>2, <1>3, <2>1 DEF ToSet
  <2>2. CASE ~(i <= Len(s))
    <3>1. i - Len(s) \in DOMAIN u /\ w[i] = u[i - Len(s)]
      BY <1>1, <1>2, <1>3, <2>2
    <3> QED BY <3>1 DEF ToSet
  <2> QED BY <2>1, <2>2
<1>5. ASSUME NEW i \in DOMAIN s PROVE s[i] \in ToSet(w)
  <2>1. i \in DOMAIN w /\ w[i] = s[i]
    BY <1>1, <1>2, <1>3
  <2> QED BY <2>1 DEF ToSet
<1>6. ASSUME NEW i \in DOMAIN u PROVE u[i] \in ToSet(w)
  <2>1. Len(s) + i \in DOMAIN w /\ w[Len(s) + i] = u[i]
    BY <1>1, <1>2, <1>3
  <2> QED BY <2>1 DEF ToSet
<1>7. \A x : x \in ToSet(w) <=> x \in ToSet(s) \union ToSet(u)
  BY <1>4, <1>5, <1>6 DEF ToSet
<1> QED BY <1>7 DEF w

\* The keys of a formal file are finitely many numbers.
LEMMA FormalKeysFinite ==
  ASSUME NEW s \in Seq(Row)
  PROVE  Keys(ToSet(s)) \subseteq Nat /\ IsFiniteSet(Keys(ToSet(s)))
<1> DEFINE f == [i \in 1..Len(s) |-> s[i].key]
<1>1. Len(s) \in Nat /\ DOMAIN s = 1..Len(s) /\ \A i \in 1..Len(s) : s[i] \in Row
  BY LenProperties, ElementOfSeq
<1>2. Keys(ToSet(s)) = {s[i].key : i \in 1..Len(s)}
  BY <1>1 DEF Keys, ToSet
<1>3. f \in Surjection(1..Len(s), Keys(ToSet(s)))
  BY <1>2 DEF Surjection
<1>4. IsFiniteSet(1..Len(s))
  BY <1>1, FS_Interval
<1>5. IsFiniteSet(Keys(ToSet(s)))
  BY <1>3, <1>4, FS_Surjection
<1>6. Keys(ToSet(s)) \subseteq Nat
  BY <1>1, <1>2 DEF Row
<1> QED BY <1>5, <1>6

\* The rows of finitely many trading dates are finitely many rows.
LEMMA DayRowsFinite ==
  ASSUME NEW D \in SUBSET Nat, IsFiniteSet(D)
  PROVE  DayRows(D) \subseteq Row /\ IsFiniteSet(DayRows(D))
<1> DEFINE f == [d \in D |-> [key |-> d, ver |-> 0]]
<1>1. f \in Surjection(D, DayRows(D))
  BY DEF Surjection, DayRows
<1>2. IsFiniteSet(DayRows(D))
  BY <1>1, FS_Surjection
<1> QED BY <1>2 DEF DayRows, Row

\* First picks one of the targets that are left.
LEMMA FirstIsOneOfThem ==
  ASSUME NEW todo \in SUBSET Targets, todo # {}
  PROVE  First(todo) \in todo
<1> DEFINE P(i) == /\ Order[i] \in todo
                   /\ \A j \in 1..(i - 1) : Order[j] \notin todo
<1>1. /\ DOMAIN Order = 1..4
      /\ Order[1] = "daily" /\ Order[2] = "market"
      /\ Order[3] = "macro" /\ Order[4] = "event"
  BY DEF Order
<1>2. \E i \in DOMAIN Order : P(i)
  <2>1. CASE "daily" \in todo
    <3>1. P(1) BY <2>1, <1>1
    <3> QED BY <3>1, <1>1
  <2>2. CASE "daily" \notin todo /\ "market" \in todo
    <3>1. P(2) BY <2>2, <1>1
    <3> QED BY <3>1, <1>1
  <2>3. CASE "daily" \notin todo /\ "market" \notin todo /\ "macro" \in todo
    <3>1. \A j \in 1..(3 - 1) : j = 1 \/ j = 2
      OBVIOUS
    <3>2. P(3) BY <2>3, <1>1, <3>1
    <3> QED BY <3>2, <1>1
  <2>4. CASE todo = {"event"}
    <3>1. \A j \in 1..(4 - 1) : j = 1 \/ j = 2 \/ j = 3
      OBVIOUS
    <3>2. P(4) BY <2>4, <1>1, <3>1
    <3> QED BY <3>2, <1>1
  <2> QED BY <2>1, <2>2, <2>3, <2>4 DEF Targets
<1>3. P(CHOOSE i \in DOMAIN Order : P(i))
  BY <1>2
<1> QED BY <1>3 DEF First

(***************************************************************************)
(* Type correctness                                                        *)
(***************************************************************************)

\* TypeOK alone is not inductive: an append writes the candidate rows in the
\* order SetToSeq gives them, which is a sequence only of a finite set.
Finite ==
  /\ IsFiniteSet(trade.daily) /\ IsFiniteSet(trade.market)
  /\ IsFiniteSet(pub.run.daily) /\ IsFiniteSet(pub.run.market)
  /\ IsFiniteSet(scanner.events)
  /\ \A t \in Targets : IsFiniteSet(staged[t])

\* Candidate rows are finitely many rows.
LEMMA CandidateRowsFinite ==
  ASSUME TypeOK, Finite, NEW t \in Targets, NEW run \in TradeType,
         IsFiniteSet(run.daily), IsFiniteSet(run.market)
  PROVE  CandidateRows(t, run) \subseteq Row /\ IsFiniteSet(CandidateRows(t, run))
<1>1. run.daily \in SUBSET Nat /\ run.market \in SUBSET Nat
  BY DEF TradeType
<1>2. CASE t = "daily"
  BY <1>1, <1>2, DayRowsFinite DEF CandidateRows
<1>3. CASE t = "market"
  BY <1>1, <1>3, DayRowsFinite DEF CandidateRows
<1>4. CASE t # "daily" /\ t # "market"
  BY <1>4 DEF CandidateRows, TypeOK, Finite
<1> QED BY <1>2, <1>3, <1>4

\* What an append adds to a formal file is a sequence of rows.
LEMMA RowsToAppendSeq ==
  ASSUME TypeOK, Finite, NEW t \in Targets
  PROVE  /\ SetToSeq(RowsToAppend(t)) \in Seq(Row)
         /\ SetToSeq(RowsToAppend(t)) \in Seq(RowsToAppend(t))
         /\ IsInjective(SetToSeq(RowsToAppend(t)))
         /\ RowsToAppend(t) = {} => SetToSeq(RowsToAppend(t)) = <<>>
<1>1. pub.run \in TradeType /\ IsFiniteSet(pub.run.daily) /\ IsFiniteSet(pub.run.market)
  BY DEF TypeOK, PubType, Finite
<1>2. CandidateRows(t, pub.run) \subseteq Row /\ IsFiniteSet(CandidateRows(t, pub.run))
  BY <1>1, CandidateRowsFinite
<1>3. RowsToAppend(t) \in SUBSET CandidateRows(t, pub.run)
  BY DEF RowsToAppend
<1>4. IsFiniteSet(RowsToAppend(t))
  BY <1>2, <1>3, FS_Subset
<1>5. /\ SetToSeq(RowsToAppend(t)) \in Seq(RowsToAppend(t))
      /\ IsInjective(SetToSeq(RowsToAppend(t)))
      /\ RowsToAppend(t) = {} => SetToSeq(RowsToAppend(t)) = <<>>
  BY <1>4, SetToSeqIsSeq
<1>6. RowsToAppend(t) \subseteq Row
  BY <1>2, <1>3
<1> QED BY <1>5, <1>6, SeqMonotonic

LEMMA InitType == Init => TypeOK /\ Finite
<1> SUFFICES ASSUME Init PROVE TypeOK /\ Finite
  OBVIOUS
<1>1. IsFiniteSet({}) /\ <<>> \in Seq(Row)
  BY FS_EmptySet, EmptySeq
<1>2. [t \in Targets |-> <<>>] \in Files
  BY <1>1 DEF Files
<1>3. NoTrade \in TradeType /\ NoDryRun \in DryRunType
  BY DEF NoTrade, TradeType, NoDryRun, DryRunType
<1>4. NoRows \in [Targets -> SUBSET Row]
  BY DEF NoRows
<1>5. TypeOK
  BY <1>2, <1>3, <1>4
     DEF Init, TypeOK, PubType, IdlePub, IdleFetcher, IdleScanner, PubPcs
<1>6. Finite
  BY <1>1 DEF Init, Finite, NoTrade, NoRows, IdlePub, IdleScanner
<1> QED BY <1>5, <1>6

\* A run of the daily price updater replaces the run and its candidate.
LEMMA NewRun ==
  ASSUME NEW tr \in TradeType, NEW days \in SUBSET Nat
  PROVE  LET new == [tr EXCEPT !.run = @ + 1, !.daily = days]
         IN  new \in TradeType /\ new.daily = days /\ new.market = tr.market
<1>1. tr.run + 1 \in Nat
  BY DEF TradeType
<1> QED BY <1>1 DEF TradeType

\* The two updaters and the two staging programs.
LEMMA StagingType ==
  ASSUME TypeOK, Finite, UpdaterNext \/ FetcherNext \/ ScannerNext
  PROVE  TypeOK' /\ Finite'
<1> USE DEF TypeOK, Finite, formal
<1>1. ASSUME NEW t \in Targets
      PROVE  FormalKeys(t) \subseteq Nat /\ IsFiniteSet(FormalKeys(t))
  BY FormalKeysFinite DEF FormalKeys, Files
<1>2. ASSUME NEW k \in Kinds, Spend(k) PROVE spent' \in [Kinds -> Nat]
  BY <1>2 DEF Spend
<1>3. ASSUME NEW d \in Days, DailyPriceDryRun(d) PROVE TypeOK' /\ Finite'
  <2> DEFINE past == {x \in Days : x <= d}
             days == past \union FormalKeys("daily")
  <2>1. past \in SUBSET Days
    OBVIOUS
  <2>2. IsFiniteSet(past) /\ IsFiniteSet(FormalKeys("daily"))
    BY <2>1, <1>1, DaysAssumption, FS_Subset DEF Targets
  <2>3. IsFiniteSet(days)
    BY <2>2, FS_Union
  <2>4. days \subseteq Nat
    BY <1>1, DaysAssumption DEF Targets
  <2>5. trade' = [trade EXCEPT !.run = @ + 1, !.daily = days]
    BY <1>3 DEF DailyPriceDryRun
  <2> HIDE DEF days
  <2>6. trade' \in TradeType /\ trade'.daily = days /\ trade'.market = trade.market
    BY <2>4, <2>5, NewRun
  <2>7. IsFiniteSet(trade'.daily) /\ IsFiniteSet(trade'.market)
    BY <2>3, <2>6
  <2>8. spent' \in [Kinds -> Nat]
    BY <1>3, <1>2 DEF DailyPriceDryRun, Kinds
  <2> QED BY <1>3, <2>6, <2>7, <2>8 DEF DailyPriceDryRun
<1>4. ASSUME MarketActivityDryRun PROVE TypeOK' /\ Finite'
  <2>1. IsFiniteSet(trade.daily \union FormalKeys("market"))
    BY <1>1, FS_Union DEF Targets
  <2>2. trade.daily \union FormalKeys("market") \subseteq Nat
    BY <1>1 DEF Targets, TradeType
  <2>3. trade' \in TradeType /\ IsFiniteSet(trade'.daily) /\ IsFiniteSet(trade'.market)
    BY <1>4, <2>1, <2>2 DEF MarketActivityDryRun, TradeType
  <2> QED BY <1>4, <2>3 DEF MarketActivityDryRun
<1>5. ASSUME NEW v \in Versions, NEW close \in BOOLEAN, FetchRead(v, close)
      PROVE  TypeOK' /\ Finite'
  <2>1. v \in Nat
    BY VersionsAssumption
  <2>2. fetcher' \in [pc : {"idle", "fetched", "written"}, generated : SUBSET Targets,
                      published : SUBSET Targets, ver : Nat]
    BY <1>5, <2>1 DEF FetchRead, Targets
  <2>3. spent' \in [Kinds -> Nat]
    BY <1>5, <1>2 DEF FetchRead, Kinds
  <2>4. overlap' \in BOOLEAN
    BY <1>5 DEF FetchRead
  <2> QED BY <1>5, <2>2, <2>3, <2>4 DEF FetchRead
<1>6. ASSUME FetchWriteCandidates PROVE TypeOK' /\ Finite'
  <2> DEFINE row == [key |-> 0, ver |-> fetcher.ver]
  <2>1. row \in Row /\ IsFiniteSet({row}) /\ IsFiniteSet({})
    BY FS_Singleton, FS_EmptySet DEF Row
  <2>2. /\ staged' \in [Targets -> SUBSET Row]
        /\ \A t \in Targets : IsFiniteSet(staged'[t])
    BY <1>6, <2>1 DEF FetchWriteCandidates
  <2>3. fetcher' \in [pc : {"idle", "fetched", "written"}, generated : SUBSET Targets,
                      published : SUBSET Targets, ver : Nat]
    BY <1>6 DEF FetchWriteCandidates
  <2>4. UNCHANGED <<csv, manifest, torn, damaged, trade, dryRun, flags, pub, scanner,
                    overlap, spent>>
    BY <1>6 DEF FetchWriteCandidates
  <2> QED BY <2>2, <2>3, <2>4
<1>11. ASSUME FetchWriteDryRun PROVE TypeOK' /\ Finite'
  <2>1. dryRun' \in DryRunType
    BY <1>11 DEF FetchWriteDryRun, DryRunType
  <2>2. fetcher' \in [pc : {"idle", "fetched", "written"}, generated : SUBSET Targets,
                      published : SUBSET Targets, ver : Nat]
    BY <1>11 DEF FetchWriteDryRun, IdleFetcher
  <2>3. flags' \in [runtime : BOOLEAN, news : BOOLEAN, review : BOOLEAN]
    BY <1>11 DEF FetchWriteDryRun
  <2>4. UNCHANGED <<csv, manifest, torn, damaged, trade, staged, pub, scanner, overlap,
                    spent>>
    BY <1>11 DEF FetchWriteDryRun
  <2> QED BY <2>1, <2>2, <2>3, <2>4
<1>7. ASSUME NEW E \in Scans, ScanClassify(E) PROVE TypeOK' /\ Finite'
  <2>1. E \subseteq Nat /\ IsFiniteSet(E)
    BY ScansAssumption
  <2>2. scanner' \in [pc : {"idle", "classified", "written", "staged", "merging"},
                      events : SUBSET Nat, dry : DryRunType]
    BY <1>7, <2>1 DEF ScanClassify, IdleScanner, NoDryRun, DryRunType
  <2>3. IsFiniteSet(scanner'.events)
    BY <1>7, <2>1 DEF ScanClassify, IdleScanner
  <2>4. spent' \in [Kinds -> Nat] /\ overlap' \in BOOLEAN
    BY <1>7, <1>2 DEF ScanClassify, Kinds
  <2> QED BY <1>7, <2>2, <2>3, <2>4 DEF ScanClassify
<1>8. ASSUME ScanWriteCandidate PROVE TypeOK' /\ Finite'
  <2>1. DayRows(scanner.events) \subseteq Row /\ IsFiniteSet(DayRows(scanner.events))
    BY DayRowsFinite
  <2>2. staged' = IF scanner.events = {} THEN staged
                  ELSE [staged EXCEPT !["event"] = DayRows(scanner.events)]
    BY <1>8 DEF ScanWriteCandidate
  <2>3. /\ staged' \in [Targets -> SUBSET Row]
        /\ \A t \in Targets : IsFiniteSet(staged'[t])
    BY <2>1, <2>2
  <2>4. scanner' = [scanner EXCEPT !.pc = "written"]
    BY <1>8 DEF ScanWriteCandidate
  <2> QED BY <1>8, <2>3, <2>4 DEF ScanWriteCandidate
<1>12. ASSUME NEW watch \in BOOLEAN, ScanWriteSnapshots(watch) PROVE TypeOK' /\ Finite'
  <2>1. scanner' = [scanner EXCEPT !.pc = "staged"]
    BY <1>12 DEF ScanWriteSnapshots
  <2>2. flags' \in [runtime : BOOLEAN, news : BOOLEAN, review : BOOLEAN]
    BY <1>12 DEF ScanWriteSnapshots
  <2> QED BY <1>12, <2>1, <2>2 DEF ScanWriteSnapshots
<1>9. ASSUME ScanLoadDryRun PROVE TypeOK' /\ Finite'
  BY <1>9 DEF ScanLoadDryRun
<1>10. ASSUME ScanMergeDryRun PROVE TypeOK' /\ Finite'
  <2>1. dryRun' \in DryRunType
    BY <1>10 DEF ScanMergeDryRun, DryRunType, Targets
  <2>2. IsFiniteSet({}) /\ scanner' = IdleScanner
    BY <1>10, FS_EmptySet DEF ScanMergeDryRun
  <2> QED BY <1>10, <2>1, <2>2 DEF ScanMergeDryRun, IdleScanner, NoDryRun, DryRunType
<1> QED BY <1>3, <1>4, <1>5, <1>6, <1>7, <1>8, <1>9, <1>10, <1>11, <1>12
        DEF UpdaterNext, FetcherNext, ScannerNext

\* The steps of the publisher.
LEMMA PublisherType ==
  ASSUME TypeOK, Finite, PublisherNext
  PROVE  TypeOK' /\ Finite'
<1> USE DEF TypeOK, PubType, formal, staging
<1>1. \A t \in Targets :
        CandidateRows(t, trade) \in SUBSET Row
  BY CandidateRowsFinite DEF Finite
<1>2. ASSUME Spend("trouble") PROVE spent' \in [Kinds -> Nat]
  BY <1>2 DEF Spend, Kinds
<1>3. IsFiniteSet({})
  BY FS_EmptySet
<1>4. IdlePub \in PubType
      /\ IsFiniteSet(IdlePub.run.daily) /\ IsFiniteSet(IdlePub.run.market)
  <2>1. [t \in Targets |-> <<>>] \in Files /\ NoRows \in [Targets -> SUBSET Row]
    BY EmptySeq DEF Files, NoRows
  <2>2. NoTrade \in TradeType /\ NoDryRun \in DryRunType
    BY DEF NoTrade, TradeType, NoDryRun, DryRunType
  <2> QED BY <1>3, <2>1, <2>2 DEF IdlePub, PubPcs, NoTrade
<1>5. ASSUME Review PROVE TypeOK' /\ Finite'
  <2>1. PublishFiles(dryRun) \in SUBSET Targets
    BY DEF PublishFiles, DryRunType, Targets
  <2>2. pub' = [IdlePub EXCEPT
               !.pc = "reviewed",
               !.files = PublishFiles(dryRun),
               !.run = trade,
               !.approved = [t \in Targets |-> CandidateRows(t, trade)]]
    BY <1>5 DEF Review
  <2>3. /\ pub' \in PubType
        /\ pub'.run = trade
    BY <1>1, <1>4, <2>1, <2>2 DEF PubPcs
  <2>4. UNCHANGED <<csv, manifest, torn, damaged, trade, staged, fetcher, scanner,
                    dryRun, flags, spent>>
        /\ overlap' \in BOOLEAN
    BY <1>5 DEF Review
  <2> QED BY <2>3, <2>4 DEF Finite
<1>6. ASSUME Refuse PROVE TypeOK' /\ Finite'
  BY <1>4, <1>6 DEF Refuse, Finite
<1>7. ASSUME Approve PROVE TypeOK' /\ Finite'
  BY ZenonT(40), <1>7 DEF Approve, Finite, PubPcs
<1>8. ASSUME AppendCandidate PROVE TypeOK' /\ Finite'
  <2> DEFINE t == First(pub.todo)
             more == SetToSeq(RowsToAppend(t))
  <2>1. t \in Targets
    BY <1>8, FirstIsOneOfThem DEF AppendCandidate
  <2>2. more \in Seq(Row)
    BY <2>1, RowsToAppendSeq
  <2>3. csv[t] \o more \in Seq(Row)
    BY <2>1, <2>2, ConcatProperties DEF Files
  <2>4. csv' = [csv EXCEPT ![t] = csv[t] \o more]
    BY <1>8 DEF AppendCandidate
  <2>5. csv' \in Files
    BY <2>1, <2>3, <2>4 DEF Files
  <2>6. pub' = [pub EXCEPT !.todo = @ \ {t}, !.added = @ \/ RowsToAppend(t) # {}]
    BY <1>8 DEF AppendCandidate
  <2>7. PICK b \in BOOLEAN : pub' = [pub EXCEPT !.todo = @ \ {t}, !.added = b]
    <3>1. (pub.added \/ RowsToAppend(t) # {}) \in BOOLEAN
      OBVIOUS
    <3> QED BY <2>6, <3>1
  <2>8. pub' \in PubType /\ pub'.run = pub.run
    BY <2>7
  <2>9. UNCHANGED <<manifest, torn, damaged, trade, staged, fetcher, scanner,
                    dryRun, flags, overlap, spent>>
    BY <1>8 DEF AppendCandidate
  <2> QED BY <2>5, <2>8, <2>9 DEF Finite
<1>9. ASSUME UpdateManifest PROVE TypeOK' /\ Finite'
  <2>1. manifest' \in Files
    BY <1>9 DEF UpdateManifest, Files
  <2> QED BY <1>4, <1>9, <2>1 DEF UpdateManifest, Finite, PubPcs, Syncing
<1>10. ASSUME AppendFails PROVE TypeOK' /\ Finite'
  <2>1. pub' = [pub EXCEPT !.pc = "restore", !.todo = pub.files]
    BY <1>10 DEF AppendFails
  <2>2. torn' \in BOOLEAN /\ spent' \in [Kinds -> Nat]
    BY <1>2, <1>10 DEF AppendFails
  <2>3. UNCHANGED <<csv, manifest, damaged, trade, staged, fetcher, scanner,
                    dryRun, flags, overlap>>
    BY <1>10 DEF AppendFails
  <2> QED BY ZenonT(40), <2>1, <2>2, <2>3 DEF Finite, PubPcs
<1>11. ASSUME RestoreTarget PROVE TypeOK' /\ Finite'
  <2> DEFINE t == First(pub.todo)
  <2>1. t \in Targets
    BY <1>11, FirstIsOneOfThem DEF RestoreTarget
  <2>2. csv' \in Files /\ pub' = [pub EXCEPT !.todo = @ \ {t}]
    BY <1>11, <2>1 DEF RestoreTarget, Files
  <2> QED BY <1>11, <2>2 DEF RestoreTarget, Finite
<1>12. ASSUME RestoreManifest PROVE TypeOK' /\ Finite'
  BY ZenonT(40), <1>4, <1>12 DEF RestoreManifest, Finite
<1>13. ASSUME RestoreFails PROVE TypeOK' /\ Finite'
  BY <1>2, <1>4, <1>13 DEF RestoreFails, Finite
<1>14. ASSUME SyncNext PROVE TypeOK' /\ Finite'
  <2>1. CASE SyncRuntimeSnapshot
    BY <2>1 DEF SyncRuntimeSnapshot, Finite, PubPcs, Syncing
  <2>2. CASE SyncNewsSnapshot
    BY <2>2 DEF SyncNewsSnapshot, Finite, PubPcs, Syncing
  <2>3. CASE SyncEventReview
    BY <2>3 DEF SyncEventReview, Finite, PubPcs, Syncing
  <2>4. CASE LoadDryRun
    BY ZenonT(40), <2>4 DEF LoadDryRun, Finite, PubPcs, Syncing
  <2>5. CASE SyncDryRun
    <3>1. dryRun' \in DryRunType
      BY <2>5 DEF SyncDryRun, DryRunType
    <3> QED BY <1>4, <2>5, <3>1 DEF SyncDryRun, Finite
  <2>6. CASE SyncFails
    BY <1>2, <1>4, <2>6 DEF SyncFails, Finite
  <2> QED BY <1>14, <2>1, <2>2, <2>3, <2>4, <2>5, <2>6 DEF SyncNext
<1>15. ASSUME Killed PROVE TypeOK' /\ Finite'
  BY ZenonT(40), <1>2, <1>4, <1>15 DEF Killed, Finite
<1> QED BY <1>5, <1>6, <1>7, <1>8, <1>9, <1>10, <1>11, <1>12, <1>13, <1>14, <1>15
        DEF PublisherNext, AppendNext

LEMMA TypeStep ==
  ASSUME TypeOK, Finite, [Next]_vars
  PROVE  TypeOK' /\ Finite'
<1>1. CASE UNCHANGED vars
  BY <1>1 DEF TypeOK, Finite, vars
<1>2. CASE Next
  BY <1>2, StagingType, PublisherType DEF Next
<1> QED BY <1>1, <1>2

\* Every formal file stays a sequence of rows and every process at one of its
\* steps, for all dates, events and versions.
THEOREM TypeCorrect == Spec => []TypeOK
<1>1. Init => TypeOK /\ Finite
  BY InitType
<1>2. (TypeOK /\ Finite) /\ [Next]_vars => (TypeOK /\ Finite)'
  BY TypeStep
<1> QED BY <1>1, <1>2, PTL DEF Spec

(***************************************************************************)
(* The rollback-protected unit                                             *)
(*                                                                         *)
(* AttestedWhenIdle says nothing about a publish at work, so it is not      *)
(* inductive.  What carries it across one: the originals were taken from    *)
(* attested files, only files of the publish differ from them, and the      *)
(* manifest is the last thing to change on either way out.                  *)
(***************************************************************************)
Inside == pub.pc \in {"append", "restore"}

ReviewedInv == pub.pc = "reviewed" => pub.files # {} /\ ~pub.added

OriginalsInv ==
  Inside => /\ pub.originalManifest = manifest
            /\ pub.todo \subseteq pub.files
            /\ \A t \in Targets \ pub.files : csv[t] = pub.original[t]
            /\ ~damaged => pub.original = manifest

AppendInv == pub.pc = "append" => ~torn /\ (~pub.added => csv = pub.original)

RestoreInv ==
  pub.pc = "restore" => \A t \in pub.files \ pub.todo : csv[t] = pub.original[t]

UnitInv == ReviewedInv /\ OriginalsInv /\ AppendInv /\ RestoreInv /\ AttestedWhenIdle

Inv == TypeOK /\ Finite /\ UnitInv

\* The staging programs leave the formal files and the publisher alone.
LEMMA StagingKeepsUnit ==
  ASSUME UnitInv, UpdaterNext \/ FetcherNext \/ ScannerNext
  PROVE  /\ UNCHANGED <<csv, manifest, torn, damaged, pub>>
         /\ UnitInv'
<1>1. UNCHANGED <<csv, manifest, torn, damaged, pub>>
  BY DEF UpdaterNext, FetcherNext, ScannerNext, DailyPriceDryRun,
         MarketActivityDryRun, FetchRead, FetchWriteCandidates, FetchWriteDryRun,
         ScanClassify, ScanWriteCandidate, ScanWriteSnapshots, ScanLoadDryRun,
         ScanMergeDryRun, formal
<1> QED
  BY <1>1 DEF UnitInv, ReviewedInv, OriginalsInv, AppendInv, RestoreInv, Inside,
              AttestedWhenIdle

LEMMA PublisherKeepsUnit ==
  ASSUME TypeOK, Finite, UnitInv, PublisherNext
  PROVE  UnitInv'
<1> USE DEF UnitInv, ReviewedInv, OriginalsInv, AppendInv, RestoreInv, Inside,
            AttestedWhenIdle, formal, staging, TypeOK, PubType
<1>1. IdlePub.pc = "idle"
  BY DEF IdlePub
<1>2. CASE Review
  <2>1. PublishFiles(dryRun) # {}
    BY <1>2 DEF Review, MayBeAllowed, NoActionRequired
  <2>2. pub'.pc = "reviewed" /\ pub'.files = PublishFiles(dryRun) /\ ~pub'.added
    BY <1>2 DEF Review, IdlePub
  <2>3. UNCHANGED formal /\ pub.pc = "idle"
    BY <1>2 DEF Review
  <2> QED BY <2>1, <2>2, <2>3
<1>3. CASE Refuse
  BY <1>1, <1>3 DEF Refuse
<1>4. CASE Approve
  <2>1. ~torn
    BY <1>4 DEF Approve, SameIdentity, MayBeAllowed, NoActionRequired
  <2>2. /\ pub'.pc = "append" /\ pub'.todo = pub.files /\ pub'.files = pub.files
        /\ pub'.added = pub.added
        /\ pub'.original = csv /\ pub'.originalManifest = manifest
    BY <1>4 DEF Approve
  <2>3. UNCHANGED formal /\ pub.pc = "reviewed"
    BY <1>4 DEF Approve
  <2> QED BY <2>1, <2>2, <2>3
<1>5. CASE AppendCandidate
  <2> DEFINE t == First(pub.todo)
             more == SetToSeq(RowsToAppend(t))
  <2>1. t \in pub.todo /\ t \in pub.files /\ t \in Targets
    BY <1>5, FirstIsOneOfThem DEF AppendCandidate
  <2>2. /\ csv' = [csv EXCEPT ![t] = csv[t] \o more]
        /\ pub' = [pub EXCEPT !.todo = @ \ {t}, !.added = @ \/ RowsToAppend(t) # {}]
        /\ UNCHANGED <<manifest, torn, damaged>> /\ pub.pc = "append"
    BY <1>5 DEF AppendCandidate
  <2>3. /\ pub'.pc = "append" /\ pub'.todo \subseteq pub'.files
        /\ pub'.files = pub.files /\ pub'.original = pub.original
        /\ pub'.originalManifest = pub.originalManifest
    BY <2>2
  <2>4. \A x \in Targets \ pub.files : csv'[x] = csv[x]
    BY <2>1, <2>2
  <2>5. ASSUME ~pub'.added PROVE csv' = pub.original
    <3>1. ~pub.added /\ RowsToAppend(t) = {}
      BY <2>2, <2>5
    <3>2. more = <<>>
      BY <3>1, <2>1, RowsToAppendSeq
    <3>3. csv[t] \o more = csv[t]
      BY <3>2, <2>1, ConcatEmptySeq DEF Files
    <3>4. csv' = csv
      BY <2>2, <3>3 DEF Files
    <3> QED BY <3>1, <3>4, <2>2
  <2> QED BY <2>2, <2>3, <2>4, <2>5
<1>6. CASE UpdateManifest
  <2>1. CASE pub.added
    <3>1. pub'.pc = "syncRuntime" /\ csv' = csv /\ ~torn' /\ damaged' = damaged
      BY <1>6, <2>1 DEF UpdateManifest
    <3>2. ASSUME ~damaged PROVE manifest' = csv
      BY <1>6, <2>1, <3>2 DEF UpdateManifest, Files
    <3> QED BY <3>1, <3>2
  <2>2. CASE ~pub.added
    <3>1. manifest' = manifest
      BY <1>6, <2>2 DEF UpdateManifest, Files
    <3>2. pub' = IdlePub /\ csv' = csv /\ ~torn' /\ damaged' = damaged
      BY <1>6, <2>2 DEF UpdateManifest
    <3> QED BY <1>1, <1>6, <2>2, <3>1, <3>2 DEF UpdateManifest
  <2> QED BY <2>1, <2>2
<1>7. CASE AppendFails
  <2>1. /\ pub'.pc = "restore" /\ pub'.todo = pub.files /\ pub'.files = pub.files
        /\ pub'.original = pub.original
        /\ pub'.originalManifest = pub.originalManifest
    BY <1>7 DEF AppendFails
  <2>2. UNCHANGED <<csv, manifest, damaged>> /\ pub.pc = "append"
    BY <1>7 DEF AppendFails
  <2> QED BY <2>1, <2>2
<1>8. CASE RestoreTarget
  <2> DEFINE t == First(pub.todo)
  <2>1. t \in pub.todo /\ t \in pub.files /\ t \in Targets
    BY <1>8, FirstIsOneOfThem DEF RestoreTarget
  <2>2. /\ csv' = [csv EXCEPT ![t] = pub.original[t]]
        /\ pub' = [pub EXCEPT !.todo = @ \ {t}]
        /\ UNCHANGED <<manifest, torn, damaged>> /\ pub.pc = "restore"
    BY <1>8 DEF RestoreTarget
  <2>3. \A x \in Targets : csv'[x] = IF x = t THEN pub.original[x] ELSE csv[x]
    BY <2>1, <2>2 DEF Files
  <2> QED BY <2>1, <2>2, <2>3
<1>9. CASE RestoreManifest
  <2>1. csv = pub.original
    BY <1>9 DEF RestoreManifest, Files
  <2>2. /\ manifest' = pub.originalManifest /\ ~torn' /\ pub' = IdlePub
        /\ UNCHANGED <<csv, damaged>> /\ pub.pc = "restore"
    BY <1>9 DEF RestoreManifest
  <2> QED BY <1>1, <2>1, <2>2
<1>10. CASE RestoreFails
  BY <1>1, <1>10 DEF RestoreFails
<1>11. CASE SyncNext
  <2>1. UNCHANGED formal /\ pub.pc \in Syncing
    BY <1>11 DEF SyncNext, SyncRuntimeSnapshot, SyncNewsSnapshot, SyncEventReview,
                 LoadDryRun, SyncDryRun, SyncFails, Syncing
  <2>2. pub'.pc \in Syncing \union {"idle"}
    BY <1>1, <1>11 DEF SyncNext, SyncRuntimeSnapshot, SyncNewsSnapshot,
                       SyncEventReview, LoadDryRun, SyncDryRun, SyncFails, Syncing
  <2> QED BY <2>1, <2>2 DEF Syncing
<1>12. CASE Killed
  BY <1>1, <1>12 DEF Killed
<1> QED BY <1>2, <1>3, <1>4, <1>5, <1>6, <1>7, <1>8, <1>9, <1>10, <1>11, <1>12
        DEF PublisherNext, AppendNext

LEMMA InvInductive ==
  /\ Init => Inv
  /\ Inv /\ [Next]_vars => Inv'
<1>1. Init => UnitInv
  BY DEF Init, UnitInv, ReviewedInv, OriginalsInv, AppendInv, RestoreInv, Inside,
         AttestedWhenIdle, IdlePub
<1>2. ASSUME Inv, [Next]_vars PROVE UnitInv'
  <2>1. CASE UNCHANGED vars
    BY <1>2, <2>1 DEF Inv, vars, UnitInv, ReviewedInv, OriginalsInv, AppendInv,
                      RestoreInv, Inside, AttestedWhenIdle
  <2>2. CASE Next
    BY <1>2, <2>2, StagingKeepsUnit, PublisherKeepsUnit DEF Inv, Next
  <2> QED BY <1>2, <2>1, <2>2
<1> QED BY <1>1, <1>2, InitType, TypeStep DEF Inv

\* Whatever is staged, refused, raised or restored, and in whatever order: when
\* no publisher is at work and none was lost half-way, the manifest is readable
\* and attests exactly the formal files.
THEOREM FormalFilesAttested == Spec => []AttestedWhenIdle
<1>1. Inv => AttestedWhenIdle
  BY DEF Inv, UnitInv
<1> QED BY <1>1, InvInductive, PTL DEF Spec

(***************************************************************************)
(* A publish is one step of AuthorityUnit, or none                          *)
(***************************************************************************)
LEMMA UnitStep ==
  ASSUME Inv, Inv', [Next]_vars
  PROVE  [Unit!Next]_(Unit!vars)
<1> DEFINE Same == UNCHANGED <<FileView, manifest, damaged>>
<1> USE DEF Inv, UnitInv, ReviewedInv, OriginalsInv, AppendInv, RestoreInv, Inside,
            AttestedWhenIdle, formal, staging, FileView
<1>1. Same => [Unit!Next]_(Unit!vars)
  BY DEF Unit!vars
<1>2. FileView' \in [Targets -> Seq(Row)]
  BY DEF TypeOK, PubType, Files
<1>3. ASSUME damaged' PROVE Unit!Next
  <2>1. manifest' \in [Targets -> Seq(Row)]
    BY DEF TypeOK, Files
  <2>2. damaged' = TRUE
    BY <1>3 DEF TypeOK
  <2>3. Unit!Break(Targets)
    BY <1>2, <2>1, <2>2 DEF Unit!Break
  <2> QED BY <2>3 DEF Unit!Next
<1>4. IdlePub.pc = "idle"
  BY DEF IdlePub
<1>5. CASE UNCHANGED vars
  BY <1>1, <1>5 DEF vars
<1>6. CASE UpdaterNext \/ FetcherNext \/ ScannerNext
  BY <1>1, <1>6, StagingKeepsUnit
<1>7. CASE Review \/ Refuse \/ Approve
  <2>1. CASE Review
    BY <1>1, <2>1 DEF Review, IdlePub
  <2>2. CASE Refuse
    BY <1>1, <1>4, <2>2 DEF Refuse
  <2>3. CASE Approve
    BY <1>1, <2>3 DEF Approve, TypeOK, PubType
  <2> QED BY <1>7, <2>1, <2>2, <2>3
<1>8. CASE AppendCandidate
  BY <1>1, <1>8 DEF AppendCandidate, TypeOK, PubType
<1>9. CASE UpdateManifest
  <2>1. CASE pub.added
    <3>1. FileView' = csv /\ FileView = pub.original /\ damaged' = damaged
      BY <1>9, <2>1 DEF UpdateManifest, TypeOK, PubType
    <3>2. \A t \in Targets \ pub.files : FileView'[t] = FileView[t]
      BY <1>9, <3>1 DEF UpdateManifest
    <3>3. manifest' = [t \in Targets |-> IF t \in pub.files THEN FileView'[t]
                                         ELSE manifest[t]]
      BY <1>9, <2>1, <3>1 DEF UpdateManifest
    <3>4. pub.files \in SUBSET Targets
      BY DEF TypeOK, PubType
    <3>5. Unit!Publish(pub.files)
      BY <1>2, <3>1, <3>2, <3>3 DEF Unit!Publish
    <3> QED BY <3>4, <3>5 DEF Unit!Next
  <2>2. CASE ~pub.added
    <3>1. manifest' = manifest
      BY <1>9, <2>2 DEF UpdateManifest, TypeOK, Files
    <3>2. FileView' = csv /\ FileView = csv /\ damaged' = damaged
      BY <1>4, <1>9, <2>2 DEF UpdateManifest
    <3> QED BY <1>1, <3>1, <3>2
  <2> QED BY <2>1, <2>2
<1>10. CASE AppendFails
  BY <1>1, <1>10 DEF AppendFails, TypeOK, PubType
<1>11. CASE RestoreTarget
  BY <1>1, <1>11 DEF RestoreTarget, TypeOK, PubType
<1>12. CASE RestoreManifest
  <2>1. csv = pub.original
    BY <1>12 DEF RestoreManifest, TypeOK, PubType, Files
  <2> QED BY <1>1, <1>4, <1>12, <2>1 DEF RestoreManifest
<1>13. CASE RestoreFails
  <2>1. CASE damaged'
    BY <1>3, <1>13, <2>1 DEF RestoreFails
  <2>2. CASE ~damaged'
    BY <1>1, <1>4, <1>13, <2>2 DEF RestoreFails, TypeOK
  <2> QED BY <2>1, <2>2
<1>14. CASE SyncNext
  BY ZenonT(40), <1>1, <1>4, <1>14
     DEF SyncNext, SyncRuntimeSnapshot, SyncNewsSnapshot, SyncEventReview,
         LoadDryRun, SyncDryRun, SyncFails, Syncing, TypeOK, PubType
<1>15. CASE Killed
  <2>1. CASE damaged'
    BY <1>3, <1>15, <2>1 DEF Killed
  <2>2. CASE ~damaged'
    BY <1>1, <1>4, <1>15, <2>2 DEF Killed, TypeOK
  <2> QED BY <2>1, <2>2
<1> QED BY <1>5, <1>6, <1>7, <1>8, <1>9, <1>10, <1>11, <1>12, <1>13, <1>14, <1>15
        DEF Next, PublisherNext, AppendNext

\* The publisher implements the atomic unit: its many file operations change
\* the files and their attestations together, or not at all.
THEOREM PublishIsAtomic == Spec => ImplementsUnit
<1>1. Init => Unit!Init
  <2>1. ASSUME Init PROVE FileView = csv
    BY <2>1 DEF Init, FileView, IdlePub
  <2>2. ASSUME Init PROVE FileView \in [Targets -> Seq(Row)]
    BY <2>1, <2>2, InitType DEF TypeOK, Files
  <2> QED BY <2>1, <2>2 DEF Init, Unit!Init
<1>2. Inv /\ Inv' /\ [Next]_vars => [Unit!Next]_(Unit!vars)
  BY UnitStep
<1> QED BY <1>1, <1>2, InvInductive, PTL DEF Spec, ImplementsUnit, Unit!Spec

(***************************************************************************)
(* Formal authority is append-only and holds no key twice                   *)
(***************************************************************************)
Distinct(s) == \A i, j \in DOMAIN s : s[i].key = s[j].key => i = j

OneRowPerKey(S) == \A r, x \in S : r.key = x.key => r = x

\* Neither property is inductive: a rollback writes the originals back, and an
\* append writes what is staged.
PrefixInv ==
  /\ ManifestIsPrefix
  /\ Inside => \A t \in Targets : IsPrefix(manifest[t], pub.original[t])

KeysInv ==
  /\ NoDuplicateKeys
  /\ Inside => \A t \in Targets : Distinct(pub.original[t])
  /\ \A t \in Targets : OneRowPerKey(staged[t])

\* Appending keeps a prefix a prefix.
LEMMA PrefixOfConcat ==
  ASSUME NEW s \in Seq(Row), NEW t \in Seq(Row), NEW u \in Seq(Row), IsPrefix(s, t)
  PROVE  IsPrefix(s, t \o u)
<1>1. Len(s) \in Nat /\ Len(t) \in Nat /\ Len(u) \in Nat /\ Len(s) <= Len(t)
  BY LenProperties DEF IsPrefix
<1>2. Len(t \o u) = Len(t) + Len(u)
  BY ConcatProperties
<1>3. SubSeq(t \o u, 1, Len(s)) = SubSeq(t, 1, Len(s))
  <2>1. CASE Len(s) = 0
    BY <2>1, SubSeqEmpty
  <2>2. CASE Len(s) # 0
    BY <1>1, <2>2, SubSeqOfConcat1
  <2> QED BY <2>1, <2>2
<1> QED BY <1>1, <1>2, <1>3 DEF IsPrefix

LEMMA PrefixOfItself == ASSUME NEW s \in Seq(Row) PROVE IsPrefix(s, s)
  BY LenProperties DEF IsPrefix

LEMMA PrefixStep ==
  ASSUME Inv, Inv', PrefixInv, [Next]_vars
  PROVE  PrefixInv'
<1> USE DEF PrefixInv, ManifestIsPrefix, Inside, formal, staging
<1>1. /\ csv \in Files /\ manifest \in Files /\ pub.original \in Files
      /\ pub.todo \in SUBSET Targets
  BY DEF Inv, TypeOK, PubType
<1>2. IdlePub.pc = "idle"
  BY DEF IdlePub
<1>3. CASE UNCHANGED vars
  BY <1>3 DEF vars
<1>4. CASE UpdaterNext \/ FetcherNext \/ ScannerNext
  BY <1>4, StagingKeepsUnit DEF Inv
<1>5. CASE Review \/ Refuse
  BY <1>2, <1>5 DEF Review, Refuse, IdlePub
<1>6. CASE Approve
  <2>1. pub'.original = csv /\ UNCHANGED formal
    BY <1>6 DEF Approve, Inv, TypeOK, PubType
  <2> QED BY <2>1
<1>7. CASE AppendCandidate
  <2> DEFINE t == First(pub.todo)
             more == SetToSeq(RowsToAppend(t))
  <2>1. t \in Targets /\ more \in Seq(Row)
    BY <1>1, <1>7, FirstIsOneOfThem, RowsToAppendSeq DEF AppendCandidate, Inv
  <2>2. /\ csv' = [csv EXCEPT ![t] = csv[t] \o more] /\ manifest' = manifest
        /\ pub' = [pub EXCEPT !.todo = @ \ {t}, !.added = @ \/ RowsToAppend(t) # {}]
        /\ pub.pc = "append"
    BY <1>7 DEF AppendCandidate
  <2>3. pub'.original = pub.original
    BY <2>2 DEF Inv, TypeOK, PubType
  <2>4. ASSUME NEW x \in Targets PROVE IsPrefix(manifest[x], csv'[x])
    <3>1. IsPrefix(manifest[x], csv[x])
      OBVIOUS
    <3>2. csv'[x] = IF x = t THEN csv[x] \o more ELSE csv[x]
      BY <1>1, <2>1, <2>2 DEF Files
    <3> HIDE DEF more, t
    <3>3. manifest[x] \in Seq(Row) /\ csv[x] \in Seq(Row)
      BY <1>1 DEF Files
    <3> QED BY <2>1, <3>1, <3>2, <3>3, PrefixOfConcat
  <2> QED BY <2>2, <2>3, <2>4
<1>8. CASE UpdateManifest
  <2>1. ~ pub'.pc \in {"append", "restore"} /\ csv' = csv
    BY <1>2, <1>8 DEF UpdateManifest, Inv, TypeOK, PubType
  <2>2. ASSUME NEW x \in Targets PROVE IsPrefix(manifest'[x], csv[x])
    <3>1. manifest'[x] = csv[x] \/ manifest'[x] = manifest[x]
      BY <1>8 DEF UpdateManifest
    <3>2. IsPrefix(csv[x], csv[x])
      BY <1>1, PrefixOfItself DEF Files
    <3>3. IsPrefix(manifest[x], csv[x])
      OBVIOUS
    <3> QED BY <3>1, <3>2, <3>3
  <2> QED BY <2>1, <2>2
<1>9. CASE AppendFails
  <2>1. pub'.original = pub.original /\ csv' = csv /\ manifest' = manifest
        /\ pub.pc = "append"
    BY <1>9 DEF AppendFails, Inv, TypeOK, PubType
  <2> QED BY <2>1
<1>10. CASE RestoreTarget
  <2>1. /\ \A x \in Targets : csv'[x] = pub.original[x] \/ csv'[x] = csv[x]
        /\ pub'.original = pub.original /\ manifest' = manifest
        /\ pub.pc = "restore"
    BY <1>1, <1>10 DEF RestoreTarget, Files, Inv, TypeOK, PubType
  <2> QED BY <2>1
<1>11. CASE RestoreManifest
  BY <1>2, <1>11 DEF RestoreManifest, Inv, UnitInv, OriginalsInv
<1>12. CASE RestoreFails \/ Killed
  BY <1>2, <1>12 DEF RestoreFails, Killed
<1>13. CASE SyncNext
  <2>1. UNCHANGED formal /\ pub'.pc \in Syncing \union {"idle"}
    BY <1>2, <1>13
       DEF SyncNext, SyncRuntimeSnapshot, SyncNewsSnapshot, SyncEventReview,
           LoadDryRun, SyncDryRun, SyncFails, Syncing, Inv, TypeOK, PubType
  <2> QED BY <2>1 DEF Syncing
<1> QED BY <1>3, <1>4, <1>5, <1>6, <1>7, <1>8, <1>9, <1>10, <1>11, <1>12, <1>13
        DEF Next, PublisherNext, AppendNext

\* What the manifest attests is always a prefix of the file: also in the middle
\* of a publish or of a rollback, and after a kill or a failed restoration.
THEOREM AuthorityIsAppendOnly == Spec => []ManifestIsPrefix
<1>1. Init => PrefixInv
  <2>1. IsPrefix(<<>>, <<>>)
    BY EmptySeq, PrefixOfItself
  <2>2. ASSUME Init PROVE pub.pc = "idle"
    BY <2>2 DEF Init, IdlePub
  <2>3. ASSUME Init, NEW t \in Targets PROVE manifest[t] = <<>> /\ csv[t] = <<>>
    BY <2>3 DEF Init
  <2> QED BY <2>1, <2>2, <2>3 DEF PrefixInv, ManifestIsPrefix, Inside
<1>2. Inv /\ Inv' /\ PrefixInv /\ [Next]_vars => PrefixInv'
  BY PrefixStep
<1>3. PrefixInv => ManifestIsPrefix
  BY DEF PrefixInv
<1> QED BY <1>1, <1>2, <1>3, InvInductive, PTL DEF Spec

\* Appended rows bring keys that are new, each of them once.
LEMMA DistinctAfterAppend ==
  ASSUME NEW s \in Seq(Row), NEW S \in SUBSET Row, NEW u \in Seq(S), u \in Seq(Row),
         Distinct(s), OneRowPerKey(S), IsInjective(u),
         \A r \in S : r.key \notin Keys(ToSet(s))
  PROVE  Distinct(s \o u)
<1> DEFINE m == Len(s)
           n == Len(u)
           w == s \o u
<1>1. /\ m \in Nat /\ n \in Nat /\ DOMAIN s = 1..m /\ DOMAIN u = 1..n
  BY LenProperties
<1>2. /\ w \in Seq(Row) /\ Len(w) = m + n
      /\ \A i \in 1..(m + n) : w[i] = IF i <= m THEN s[i] ELSE u[i - m]
  BY ConcatProperties
<1>3. DOMAIN w = 1..(m + n)
  BY <1>2, LenProperties
<1> HIDE DEF w, m, n
<1>4. ASSUME NEW i \in 1..(m + n), i <= m
      PROVE  i \in DOMAIN s /\ w[i] = s[i] /\ w[i].key \in Keys(ToSet(s))
  <2>1. i \in 1..m /\ i \in DOMAIN s /\ w[i] = s[i]
    BY <1>1, <1>2, <1>4
  <2>2. s[i] \in ToSet(s)
    BY <2>1 DEF ToSet
  <2>3. s[i].key \in Keys(ToSet(s))
    BY <2>2 DEF Keys
  <2> QED BY <2>1, <2>3
<1>5. ASSUME NEW i \in 1..(m + n), ~(i <= m)
      PROVE  /\ i - m \in DOMAIN u /\ w[i] = u[i - m] /\ w[i] \in S
             /\ w[i].key \notin Keys(ToSet(s))
  <2>1. i - m \in 1..n /\ w[i] = u[i - m]
    BY <1>1, <1>2, <1>5
  <2>2. u[i - m] \in S
    BY <2>1, ElementOfSeq DEF n
  <2> QED BY <1>1, <2>1, <2>2
<1>6. ASSUME NEW i \in 1..(m + n), NEW j \in 1..(m + n), w[i].key = w[j].key
      PROVE  i = j
  <2>1. CASE i <= m /\ j <= m
    BY <1>4, <1>6, <2>1 DEF Distinct
  <2>2. CASE ~(i <= m) /\ ~(j <= m)
    <3>1. w[i] = w[j]
      BY <1>5, <1>6, <2>2 DEF OneRowPerKey
    <3>2. i - m = j - m
      BY <1>5, <2>2, <3>1 DEF IsInjective
    <3> QED BY <1>1, <3>2
  <2>3. CASE (i <= m /\ ~(j <= m)) \/ (j <= m /\ ~(i <= m))
    BY <1>4, <1>5, <1>6, <2>3
  <2> QED BY <2>1, <2>2, <2>3
<1> QED BY <1>3, <1>6 DEF Distinct, w

\* The rows of a candidate file have different keys.
LEMMA CandidateOneRowPerKey ==
  ASSUME Inv, KeysInv, NEW t \in Targets
  PROVE  /\ RowsToAppend(t) \in SUBSET Row
         /\ OneRowPerKey(RowsToAppend(t))
         /\ \A r \in RowsToAppend(t) : r.key \notin Keys(ToSet(csv[t]))
<1>1. pub.run \in TradeType /\ IsFiniteSet(pub.run.daily) /\ IsFiniteSet(pub.run.market)
  BY DEF Inv, TypeOK, PubType, Finite
<1>2. CandidateRows(t, pub.run) \subseteq Row
  BY <1>1, CandidateRowsFinite DEF Inv
<1>3. OneRowPerKey(CandidateRows(t, pub.run))
  <2>1. ASSUME NEW D PROVE OneRowPerKey(DayRows(D))
    BY DEF OneRowPerKey, DayRows
  <2>2. OneRowPerKey(staged[t])
    BY DEF KeysInv
  <2> QED BY <2>1, <2>2 DEF CandidateRows
<1>4. RowsToAppend(t) \subseteq CandidateRows(t, pub.run)
  BY DEF RowsToAppend
<1> QED BY <1>2, <1>3, <1>4 DEF RowsToAppend, FormalKeys, OneRowPerKey

LEMMA KeysStep ==
  ASSUME Inv, Inv', KeysInv, [Next]_vars
  PROVE  KeysInv'
<1> DEFINE Staged == \A t \in Targets : OneRowPerKey(staged[t])
           Formal == NoDuplicateKeys /\ (Inside => \A t \in Targets : Distinct(pub.original[t]))
<1> USE DEF formal, staging
<1>1. /\ csv \in Files /\ pub.original \in Files /\ pub.todo \in SUBSET Targets
      /\ staged \in [Targets -> SUBSET Row]
  BY DEF Inv, TypeOK, PubType
<1>2. IdlePub.pc = "idle"
  BY DEF IdlePub
<1>3. Staged /\ Formal
  BY DEF KeysInv
<1>4. SUFFICES Staged' /\ Formal'
  BY DEF KeysInv
<1> USE DEF NoDuplicateKeys, Inside
<1>5. CASE UNCHANGED vars
  BY <1>3, <1>5 DEF vars
<1>6. CASE UpdaterNext \/ FetcherNext \/ ScannerNext
  <2>1. Formal'
    BY <1>3, <1>6, StagingKeepsUnit DEF Inv
  <2>2. CASE FetchWriteCandidates
    BY <1>1, <1>3, <2>1, <2>2 DEF FetchWriteCandidates, OneRowPerKey
  <2>3. CASE ScanWriteCandidate
    <3>1. OneRowPerKey(DayRows(scanner.events))
      BY DEF OneRowPerKey, DayRows
    <3> QED BY <1>1, <1>3, <2>1, <2>3, <3>1 DEF ScanWriteCandidate
  <2>4. CASE staged' = staged
    BY <1>3, <2>1, <2>4
  <2> QED
    BY <1>6, <2>1, <2>2, <2>3, <2>4
       DEF UpdaterNext, FetcherNext, ScannerNext, DailyPriceDryRun,
           MarketActivityDryRun, FetchRead, FetchWriteDryRun, ScanClassify,
           ScanWriteSnapshots, ScanLoadDryRun, ScanMergeDryRun
<1>7. CASE PublisherNext
  <2>1. staged' = staged
    BY <1>7
       DEF PublisherNext, AppendNext, SyncNext, Review, Refuse, Approve,
           AppendCandidate, UpdateManifest, AppendFails, RestoreTarget,
           RestoreManifest, RestoreFails, SyncRuntimeSnapshot, SyncNewsSnapshot,
           SyncEventReview, LoadDryRun, SyncDryRun, SyncFails, Killed
  <2>2. Staged'
    BY <1>3, <2>1
  <2>3. CASE AppendCandidate
    <3> DEFINE t == First(pub.todo)
               more == SetToSeq(RowsToAppend(t))
    <3>1. t \in Targets
      BY <1>1, <2>3, FirstIsOneOfThem DEF AppendCandidate
    <3>2. /\ csv' = [csv EXCEPT ![t] = csv[t] \o more]
          /\ pub' = [pub EXCEPT !.todo = @ \ {t}, !.added = @ \/ RowsToAppend(t) # {}]
          /\ pub.pc = "append"
      BY <2>3 DEF AppendCandidate
    <3>3. /\ more \in Seq(Row) /\ more \in Seq(RowsToAppend(t)) /\ IsInjective(more)
      BY <3>1, RowsToAppendSeq DEF Inv
    <3>4. Distinct(csv[t])
      BY <1>3, <3>1 DEF Distinct
    <3>5. csv[t] \in Seq(Row)
      BY <1>1, <3>1 DEF Files
    <3>6. /\ RowsToAppend(t) \in SUBSET Row /\ OneRowPerKey(RowsToAppend(t))
          /\ \A r \in RowsToAppend(t) : r.key \notin Keys(ToSet(csv[t]))
      BY <3>1, CandidateOneRowPerKey
    <3> HIDE DEF t, more
    <3>7. Distinct(csv[t] \o more)
      BY <3>3, <3>4, <3>5, <3>6, DistinctAfterAppend
    <3>8. \A x \in Targets : csv'[x] = IF x = t THEN csv[t] \o more ELSE csv[x]
      BY <1>1, <3>1, <3>2 DEF Files
    <3>9. pub'.original = pub.original
      BY <3>2 DEF Inv, TypeOK, PubType
    <3>10. \A x \in Targets : Distinct(csv'[x])
      BY <1>3, <3>7, <3>8 DEF Distinct
    <3>11. NoDuplicateKeys'
      BY <3>10 DEF Distinct
    <3>12. \A x \in Targets : Distinct(pub'.original[x])
      BY <1>3, <3>2, <3>9
    <3> QED BY <2>2, <3>11, <3>12
  <2>4. CASE RestoreTarget
    <3>1. /\ \A x \in Targets : csv'[x] = pub.original[x] \/ csv'[x] = csv[x]
          /\ pub'.original = pub.original /\ pub.pc = "restore"
      BY <1>1, <2>4 DEF RestoreTarget, Files, Inv, TypeOK, PubType
    <3> QED BY <1>3, <2>2, <3>1 DEF Distinct
  <2>5. CASE Approve
    <3>1. csv' = csv /\ pub'.original = csv
      BY <2>5 DEF Approve, Inv, TypeOK, PubType
    <3> QED BY <1>3, <2>2, <3>1 DEF Distinct
  <2>6. CASE AppendFails
    <3>1. csv' = csv /\ pub'.original = pub.original /\ pub.pc = "append"
      BY <2>6 DEF AppendFails, Inv, TypeOK, PubType
    <3> QED BY <1>3, <2>2, <3>1
  <2>7. CASE Review \/ Refuse
    BY <1>2, <1>3, <2>2, <2>7 DEF Review, Refuse, IdlePub
  <2>8. CASE UpdateManifest \/ RestoreManifest \/ RestoreFails \/ Killed
    <3>1. csv' = csv /\ pub'.pc \in {"syncRuntime", "idle"}
      BY <1>2, <2>8 DEF UpdateManifest, RestoreManifest, RestoreFails, Killed, Inv,
                        TypeOK, PubType
    <3> QED BY <1>3, <2>2, <3>1
  <2>9. CASE SyncNext
    <3>1. csv' = csv /\ pub'.pc \in Syncing \union {"idle"}
      BY <1>2, <2>9
         DEF SyncNext, SyncRuntimeSnapshot, SyncNewsSnapshot, SyncEventReview,
             LoadDryRun, SyncDryRun, SyncFails, Syncing, Inv, TypeOK, PubType
    <3> QED BY <1>3, <2>2, <3>1 DEF Syncing
  <2> QED BY <1>7, <2>3, <2>4, <2>5, <2>6, <2>7, <2>8, <2>9 DEF PublisherNext, AppendNext
<1> QED BY <1>5, <1>6, <1>7 DEF Next

\* No key is ever in a formal file twice, not even after a publisher was killed
\* and its publish repeated, or when a candidate was staged from a stale read.
THEOREM KeysStayUnique == Spec => []NoDuplicateKeys
<1>1. Init => KeysInv
  <2>1. ASSUME Init PROVE pub.pc = "idle"
    BY <2>1 DEF Init, IdlePub
  <2>2. ASSUME Init, NEW t \in Targets PROVE csv[t] = <<>> /\ staged[t] = {}
    BY <2>2 DEF Init, NoRows
  <2>3. DOMAIN <<>> = {}
    OBVIOUS
  <2> QED BY <2>1, <2>2, <2>3 DEF KeysInv, NoDuplicateKeys, Inside, OneRowPerKey
<1>2. Inv /\ Inv' /\ KeysInv /\ [Next]_vars => KeysInv'
  BY KeysStep
<1>3. KeysInv => NoDuplicateKeys
  BY DEF KeysInv
<1> QED BY <1>1, <1>2, <1>3, InvInductive, PTL DEF Spec

(***************************************************************************)
(* The two TWSE files hold the same dates                                  *)
(*                                                                         *)
(* In the middle of a publish they do not.  What carries the property       *)
(* across one: the plan approved for the pair adds the same dates to both,  *)
(* neither file is published without the other, and every append so far    *)
(* added exactly the dates of the run that was approved.                    *)
(***************************************************************************)
KeysBefore(t) == Keys(ToSet(pub.original[t]))

RunDates(t) == IF t = "daily" THEN pub.run.daily ELSE pub.run.market

\* No DRY_RUN.json, nor what a program has in memory of it, lists the market file:
\* publishFiles adds it to the daily one.
NoLoneMarket ==
  \A d \in {dryRun.generated, fetcher.generated, scanner.dry.generated,
            pub.dry.generated} : "market" \notin d

PairApproved ==
  Inside =>
    /\ "daily" \in pub.files <=> "market" \in pub.files
    /\ ~damaged =>
         /\ KeysBefore("daily") = KeysBefore("market")
         /\ "daily" \in pub.files =>
              RunDates("daily") \ KeysBefore("daily")
                = RunDates("market") \ KeysBefore("market")

KeysSoFar ==
  pub.pc = "append" => \A t \in {"daily", "market"} :
    FormalKeys(t) = IF t \in pub.files \ pub.todo THEN KeysBefore(t) \union RunDates(t)
                    ELSE KeysBefore(t)

PairInv == NoLoneMarket /\ PairApproved /\ KeysSoFar /\ TradePairInStep

LEMMA NoLoneMarketStep ==
  ASSUME Inv, NoLoneMarket, [Next]_vars
  PROVE  NoLoneMarket'
<1> USE DEF NoLoneMarket, formal, staging
<1>1. IdlePub.dry.generated = {} /\ IdleFetcher.generated = {}
      /\ IdleScanner.dry.generated = {}
  BY DEF IdlePub, IdleFetcher, IdleScanner, NoDryRun
<1>2. CASE UNCHANGED vars
  BY <1>2 DEF vars
<1>3. CASE UpdaterNext
  BY <1>3 DEF UpdaterNext, DailyPriceDryRun, MarketActivityDryRun
<1>4. CASE FetcherNext
  <2>1. ASSUME NEW v \in Versions, NEW close \in BOOLEAN, FetchRead(v, close)
        PROVE  NoLoneMarket'
    BY <2>1 DEF FetchRead
  <2>2. CASE FetchWriteCandidates
    <3>1. fetcher'.generated = fetcher.generated
      BY <2>2 DEF FetchWriteCandidates, Inv, TypeOK
    <3> QED BY <2>2, <3>1 DEF FetchWriteCandidates
  <2>3. CASE FetchWriteDryRun
    BY <1>1, <2>3 DEF FetchWriteDryRun
  <2> QED BY <1>4, <2>1, <2>2, <2>3 DEF FetcherNext
<1>5. CASE ScannerNext
  <2>1. ASSUME NEW E \in Scans, ScanClassify(E) PROVE NoLoneMarket'
    BY <2>1 DEF ScanClassify, IdleScanner, NoDryRun
  <2>2. CASE ScanWriteCandidate
    BY <2>2 DEF ScanWriteCandidate, Inv, TypeOK
  <2>3. ASSUME NEW watch \in BOOLEAN, ScanWriteSnapshots(watch) PROVE NoLoneMarket'
    BY <2>3 DEF ScanWriteSnapshots, Inv, TypeOK
  <2>4. CASE ScanLoadDryRun
    BY <2>4 DEF ScanLoadDryRun, Inv, TypeOK
  <2>5. CASE ScanMergeDryRun
    <3>1. dryRun'.generated \subseteq
            dryRun.generated \union scanner.dry.generated \union {"event"}
          /\ "market" \notin dryRun'.generated
      BY <2>5 DEF ScanMergeDryRun, Inv, TypeOK, DryRunType
    <3> QED BY <1>1, <2>5, <3>1 DEF ScanMergeDryRun
  <2> QED BY <1>5, <2>1, <2>2, <2>3, <2>4, <2>5 DEF ScannerNext
<1>6. CASE PublisherNext
  <2>1. UNCHANGED <<fetcher, scanner>>
    BY <1>6
       DEF PublisherNext, AppendNext, SyncNext, Review, Refuse, Approve,
           AppendCandidate, UpdateManifest, AppendFails, RestoreTarget,
           RestoreManifest, RestoreFails, SyncRuntimeSnapshot, SyncNewsSnapshot,
           SyncEventReview, LoadDryRun, SyncDryRun, SyncFails, Killed
  <2>2. CASE SyncDryRun
    BY <1>1, <2>1, <2>2 DEF SyncDryRun, Inv, TypeOK, PubType, DryRunType
  <2>3. CASE LoadDryRun
    BY <2>1, <2>3 DEF LoadDryRun, Inv, TypeOK, PubType
  <2>4. CASE Review
    BY <1>1, <2>1, <2>4 DEF Review, IdlePub, NoDryRun
  <2>5. CASE ~SyncDryRun /\ ~LoadDryRun /\ ~Review
    <3>1. dryRun' = dryRun
      BY <1>6, <2>5
         DEF PublisherNext, AppendNext, SyncNext, Refuse, Approve,
             AppendCandidate, UpdateManifest, AppendFails, RestoreTarget,
             RestoreManifest, RestoreFails, SyncRuntimeSnapshot, SyncNewsSnapshot,
             SyncEventReview, SyncFails, Killed
    <3>2. pub'.dry = pub.dry \/ pub' = IdlePub
      BY <1>6, <2>5
         DEF PublisherNext, AppendNext, SyncNext, Refuse, Approve,
             AppendCandidate, UpdateManifest, AppendFails, RestoreTarget,
             RestoreManifest, RestoreFails, SyncRuntimeSnapshot, SyncNewsSnapshot,
             SyncEventReview, SyncFails, Killed, Inv, TypeOK, PubType
    <3> QED BY <1>1, <2>1, <3>1, <3>2
  <2> QED BY <2>2, <2>3, <2>4, <2>5
<1> QED BY <1>2, <1>3, <1>4, <1>5, <1>6 DEF Next

\* An append adds the keys of the candidate to those of the formal file.
LEMMA KeysAfterAppend ==
  ASSUME Inv, NEW t \in Targets
  PROVE  Keys(ToSet(csv[t] \o SetToSeq(RowsToAppend(t))))
           = FormalKeys(t) \union Keys(CandidateRows(t, pub.run))
<1> DEFINE more == SetToSeq(RowsToAppend(t))
           C == CandidateRows(t, pub.run)
           F == FormalKeys(t)
<1>1. csv[t] \in Seq(Row)
  BY DEF Inv, TypeOK, Files
<1>2. more \in Seq(Row) /\ ToSet(more) = RowsToAppend(t)
  <2>1. pub.run \in TradeType /\ IsFiniteSet(pub.run.daily) /\ IsFiniteSet(pub.run.market)
    BY DEF Inv, TypeOK, PubType, Finite
  <2>2. IsFiniteSet(CandidateRows(t, pub.run))
    BY <2>1, CandidateRowsFinite DEF Inv
  <2>3. IsFiniteSet(RowsToAppend(t))
    BY <2>2, FS_Subset DEF RowsToAppend
  <2> QED BY <2>3, SetToSeqHasAll, RowsToAppendSeq DEF Inv
<1> HIDE DEF more
<1>3. ToSet(csv[t] \o more) = ToSet(csv[t]) \union RowsToAppend(t)
  BY <1>1, <1>2, ToSetOfConcat
<1>4. Keys(ToSet(csv[t] \o more)) = F \union Keys(RowsToAppend(t))
  BY <1>3 DEF Keys, FormalKeys
<1>5. RowsToAppend(t) = {r \in C : r.key \notin F}
  BY DEF RowsToAppend
<1> HIDE DEF C, F
<1>6. F \union Keys(RowsToAppend(t)) = F \union Keys(C)
  BY <1>5 DEF Keys
<1> QED BY <1>4, <1>6 DEF more, C, F

\* For a TWSE file these are the dates of the approved run.
LEMMA DatesAfterAppend ==
  ASSUME Inv, NEW t \in {"daily", "market"}
  PROVE  Keys(ToSet(csv[t] \o SetToSeq(RowsToAppend(t)))) = FormalKeys(t) \union RunDates(t)
<1>1. CandidateRows(t, pub.run) = DayRows(RunDates(t))
  BY DEF CandidateRows, RunDates
<1>2. ASSUME NEW D PROVE Keys(DayRows(D)) = D
  <2>1. ASSUME NEW k \in D PROVE k \in Keys(DayRows(D))
    <3>1. [key |-> k, ver |-> 0] \in DayRows(D)
      BY DEF DayRows
    <3> QED BY <3>1 DEF Keys
  <2>2. ASSUME NEW r \in DayRows(D) PROVE r.key \in D
    BY DEF DayRows
  <2> QED BY <2>1, <2>2 DEF Keys
<1> QED BY <1>1, <1>2, KeysAfterAppend DEF Targets

LEMMA PairStep ==
  ASSUME Inv, Inv', PairInv, [Next]_vars
  PROVE  PairApproved' /\ KeysSoFar' /\ TradePairInStep'
<1> DEFINE Pair == FormalKeys("daily") = FormalKeys("market")
           Before == KeysBefore("daily") = KeysBefore("market")
<1> USE DEF PairInv, PairApproved, KeysSoFar, TradePairInStep, Inside, formal, staging
<1>1. /\ csv \in Files /\ pub.original \in Files
      /\ pub.todo \in SUBSET Targets /\ pub.files \in SUBSET Targets
      /\ "daily" \in Targets /\ "market" \in Targets
  BY DEF Inv, TypeOK, PubType, Targets
<1>2. IdlePub.pc = "idle"
  BY DEF IdlePub
<1>3. CASE UNCHANGED vars
  BY <1>3 DEF vars, FormalKeys, KeysBefore, RunDates
<1>4. CASE UpdaterNext \/ FetcherNext \/ ScannerNext
  BY <1>4, StagingKeepsUnit DEF Inv, FormalKeys, KeysBefore, RunDates
<1>5. CASE Review \/ Refuse
  BY <1>2, <1>5 DEF Review, Refuse, IdlePub, FormalKeys
<1>6. CASE Approve
  <2>1. /\ pub.pc = "reviewed" /\ MayBeAllowed(dryRun) /\ SameIdentity
        /\ UNCHANGED <<csv, damaged, trade, dryRun>>
        /\ pub' = [pub EXCEPT !.pc = "append", !.todo = pub.files,
                              !.original = csv, !.originalManifest = manifest]
    BY <1>6 DEF Approve
  <2>2. /\ pub'.pc = "append" /\ pub'.todo = pub.files /\ pub'.files = pub.files
        /\ pub'.original = csv /\ pub'.run = pub.run
    BY <2>1 DEF Inv, TypeOK, PubType
  <2>3. ("daily" \in pub.files <=> "market" \in pub.files)
        /\ ("daily" \in pub.files => "daily" \in dryRun.generated)
    BY <2>1 DEF SameIdentity, PublishFiles, NoLoneMarket
  <2>4. \A t \in {"daily", "market"} : KeysBefore(t)' = FormalKeys(t)
    BY <2>2 DEF KeysBefore, FormalKeys
  <2>5. \A t \in {"daily", "market"} : FormalKeys(t)' = FormalKeys(t)
    BY <2>1 DEF FormalKeys
  <2>6. KeysSoFar'
    BY <2>2, <2>4, <2>5
  <2>7. ASSUME ~damaged PROVE Before'
    BY <2>1, <2>4, <2>7
  <2>8. ASSUME ~damaged, "daily" \in pub.files
        PROVE  RunDates("daily")' \ KeysBefore("daily")'
                 = RunDates("market")' \ KeysBefore("market")'
    <3>1. TradePlanOk
      BY <2>1, <2>3, <2>8 DEF MayBeAllowed, NoActionRequired, PublishFiles
    <3>2. RunDates("daily")' = trade.daily /\ RunDates("market")' = trade.market
      BY <2>1, <2>2, <2>8 DEF RunDates, SameIdentity
    <3> QED BY <2>4, <3>1, <3>2 DEF TradePlanOk, NewDays
  <2> QED BY <2>1, <2>2, <2>3, <2>6, <2>7, <2>8
<1>7. CASE AppendCandidate
  <2> DEFINE t == First(pub.todo)
             more == SetToSeq(RowsToAppend(t))
  <2>1. t \in pub.todo /\ t \in Targets
    BY <1>1, <1>7, FirstIsOneOfThem DEF AppendCandidate
  <2>2. /\ csv' = [csv EXCEPT ![t] = csv[t] \o more] /\ damaged' = damaged
        /\ pub' = [pub EXCEPT !.todo = @ \ {t}, !.added = @ \/ RowsToAppend(t) # {}]
        /\ pub.pc = "append"
    BY <1>7 DEF AppendCandidate
  <2>3. /\ pub'.pc = "append" /\ pub'.original = pub.original /\ pub'.run = pub.run
        /\ pub'.files = pub.files /\ pub'.todo = pub.todo \ {t}
    BY <2>2 DEF Inv, TypeOK, PubType
  <2>4. \A x \in {"daily", "market"} :
          RunDates(x)' = RunDates(x) /\ KeysBefore(x)' = KeysBefore(x)
    BY <2>3 DEF RunDates, KeysBefore
  <2>5. PairApproved'
    BY <2>2, <2>3, <2>4
  <2>6. ASSUME NEW x \in {"daily", "market"}
        PROVE  FormalKeys(x)' = IF x \in pub'.files \ pub'.todo
                                THEN KeysBefore(x)' \union RunDates(x)'
                                ELSE KeysBefore(x)'
    <3>1. CASE x = t
      <4>1. csv'[x] = csv[x] \o SetToSeq(RowsToAppend(x))
        BY <1>1, <2>1, <2>2, <3>1 DEF Files
      <4>2. FormalKeys(x)' = FormalKeys(x) \union RunDates(x)
        BY <4>1, DatesAfterAppend DEF FormalKeys
      <4>3. FormalKeys(x) = KeysBefore(x)
        BY <2>1, <2>2, <3>1
      <4>4. x \in pub'.files \ pub'.todo
        BY <2>1, <2>2, <2>3, <3>1 DEF Inv, UnitInv, OriginalsInv
      <4> QED BY <2>4, <4>2, <4>3, <4>4
    <3>2. CASE x # t
      <4>1. csv'[x] = csv[x]
        BY <1>1, <2>2, <3>2 DEF Files
      <4>2. FormalKeys(x)' = FormalKeys(x)
        BY <4>1 DEF FormalKeys
      <4> QED BY <2>2, <2>3, <2>4, <3>2, <4>2
    <3> QED BY <3>1, <3>2
  <2> QED BY <2>3, <2>5, <2>6
<1>8. CASE UpdateManifest
  <2>1. pub.pc = "append" /\ pub.todo = {} /\ csv' = csv /\ damaged' = damaged
    BY <1>8 DEF UpdateManifest
  <2>2. pub'.pc \in {"syncRuntime", "idle"}
    BY <1>2, <1>8 DEF UpdateManifest, Inv, TypeOK, PubType
  <2>3. \A t \in {"daily", "market"} :
          FormalKeys(t) = IF t \in pub.files THEN KeysBefore(t) \union RunDates(t)
                          ELSE KeysBefore(t)
    BY <2>1
  <2>4. ASSUME ~damaged PROVE Pair
    BY <2>1, <2>3, <2>4
  <2>5. Pair => Pair'
    BY <2>1 DEF FormalKeys
  <2> QED BY <2>1, <2>2, <2>4, <2>5
<1>9. CASE AppendFails
  <2>1. /\ pub'.pc = "restore" /\ pub'.original = pub.original /\ pub'.run = pub.run
        /\ pub'.files = pub.files /\ pub.pc = "append" /\ damaged' = damaged
    BY <1>9 DEF AppendFails, Inv, TypeOK, PubType
  <2> QED BY <2>1 DEF KeysBefore, RunDates
<1>10. CASE RestoreTarget
  <2>1. /\ pub'.pc = "restore" /\ pub'.original = pub.original /\ pub'.run = pub.run
        /\ pub'.files = pub.files /\ pub.pc = "restore" /\ damaged' = damaged
    BY <1>10 DEF RestoreTarget, Inv, TypeOK, PubType
  <2> QED BY <2>1 DEF KeysBefore, RunDates
<1>11. CASE RestoreManifest
  <2>1. csv = pub.original
    BY <1>1, <1>11 DEF RestoreManifest, Files, Inv, UnitInv, OriginalsInv, RestoreInv, Inside
  <2>2. csv' = csv /\ damaged' = damaged /\ pub'.pc = "idle" /\ pub.pc = "restore"
    BY <1>2, <1>11 DEF RestoreManifest
  <2> QED BY <2>1, <2>2 DEF FormalKeys, KeysBefore
<1>12. CASE RestoreFails \/ Killed
  <2>1. csv' = csv /\ pub'.pc = "idle" /\ (~damaged' => ~damaged /\ csv = manifest)
    BY <1>2, <1>12 DEF RestoreFails, Killed, Inv, TypeOK
  <2>2. ASSUME ~damaged', Inside PROVE Pair
    BY <2>1, <2>2 DEF Inv, UnitInv, OriginalsInv, FormalKeys, KeysBefore
  <2>3. ASSUME ~damaged', ~Inside PROVE Pair
    BY <2>1, <2>3
  <2>4. Pair => Pair'
    BY <2>1 DEF FormalKeys
  <2> QED BY <2>1, <2>2, <2>3, <2>4
<1>13. CASE SyncNext
  <2>1. UNCHANGED formal /\ pub.pc \in Syncing /\ pub'.pc \in Syncing \union {"idle"}
    BY <1>2, <1>13
       DEF SyncNext, SyncRuntimeSnapshot, SyncNewsSnapshot, SyncEventReview,
           LoadDryRun, SyncDryRun, SyncFails, Syncing, Inv, TypeOK, PubType
  <2> QED BY <2>1 DEF Syncing, FormalKeys
<1> QED BY <1>3, <1>4, <1>5, <1>6, <1>7, <1>8, <1>9, <1>10, <1>11, <1>12, <1>13
        DEF Next, PublisherNext, AppendNext

\* However the runs of the updaters, the Owner's approvals, kills and failing file
\* operations follow each other: when no publisher is at work and none was lost
\* half-way, daily price and market activity hold the same trading dates.
THEOREM TradePairKept == Spec => []TradePairInStep
<1>1. Init => PairInv
  <2>1. ASSUME Init PROVE pub.pc = "idle" /\ FormalKeys("daily") = FormalKeys("market")
    BY <2>1 DEF Init, IdlePub, FormalKeys, Targets
  <2>2. ASSUME Init PROVE NoLoneMarket
    BY <2>2 DEF Init, NoLoneMarket, NoDryRun, IdleFetcher, IdleScanner, IdlePub
  <2> QED BY <2>1, <2>2 DEF PairInv, PairApproved, KeysSoFar, TradePairInStep, Inside
<1>2. Inv /\ Inv' /\ PairInv /\ [Next]_vars => PairInv'
  BY PairStep, NoLoneMarketStep DEF PairInv
<1>3. PairInv => TradePairInStep
  BY DEF PairInv
<1> QED BY <1>1, <1>2, <1>3, InvInductive, PTL DEF Spec

(***************************************************************************)
(* The open gate hides no staged event                                     *)
(*                                                                         *)
(* An event is staged in three writes and published in many, and for that   *)
(* long nothing says that it waits.  While the programs take turns, a staged *)
(* event is listed in DRY_RUN.json, or its scan is still going to list it,   *)
(* or it was in the formal file before the publish at work, if any.  A       *)
(* publish whose files were approved from a list with the event appends it.  *)
(***************************************************************************)
OneAtWork ==
  /\ fetcher.pc # "idle" => scanner.pc = "idle" /\ pub.pc = "idle"
  /\ scanner.pc # "idle" => fetcher.pc = "idle" /\ pub.pc = "idle"

EventKeysBefore == IF Inside THEN KeysBefore("event") ELSE FormalKeys("event")

ListedOrPublished ==
  \/ "event" \in dryRun.generated
  \/ Keys(staged["event"]) \subseteq EventKeysBefore
  \/ scanner.pc \in {"written", "staged", "merging"} /\ scanner.events # {}

EventAppended ==
  /\ Inside /\ "event" \in dryRun.generated => "event" \in pub.files
  /\ pub.pc = "append" /\ "event" \in pub.files \ pub.todo => EventsPublished
  /\ pub.pc \in Syncing => EventsPublished

GateInv ==
  /\ EventKeysBefore \subseteq FormalKeys("event")
  /\ ~overlap => /\ OneAtWork
                 /\ ListedOrPublished
                 /\ scanner.pc = "merging" => scanner.dry = dryRun
                 /\ fetcher.pc = "written" => staged["event"] = {}
                 /\ EventAppended

LEMMA StagingKeepsGate ==
  ASSUME Inv, GateInv, UpdaterNext \/ FetcherNext \/ ScannerNext
  PROVE  GateInv'
<1> USE DEF GateInv, OneAtWork, ListedOrPublished, EventAppended, EventsPublished
<1>1. UNCHANGED <<csv, pub>>
  BY StagingKeepsUnit DEF Inv
<1>2. EventKeysBefore' = EventKeysBefore /\ FormalKeys("event")' = FormalKeys("event")
  BY <1>1 DEF EventKeysBefore, FormalKeys, KeysBefore, Inside
<1>3. IdleScanner.pc = "idle" /\ IdleFetcher.pc = "idle"
  BY DEF IdleScanner, IdleFetcher
<1>4. ASSUME ~overlap, pub.pc = "idle" PROVE ~Inside /\ pub.pc \notin Syncing
  BY <1>4 DEF Inside, Syncing
<1>5. CASE UpdaterNext
  BY <1>1, <1>2, <1>5
     DEF UpdaterNext, DailyPriceDryRun, MarketActivityDryRun, formal, Inside
<1>6. ASSUME NEW v \in Versions, NEW close \in BOOLEAN, FetchRead(v, close)
      PROVE  GateInv'
  <2>1. UNCHANGED <<staged, dryRun, scanner>> /\ fetcher.pc = "idle"
        /\ fetcher'.pc = "fetched"
        /\ overlap' = (overlap \/ pub.pc # "idle" \/ scanner.pc # "idle")
    BY <1>6 DEF FetchRead
  <2> QED BY <1>1, <1>2, <2>1 DEF Inside
<1>7. CASE FetchWriteCandidates
  <2>1. /\ UNCHANGED <<dryRun, scanner, overlap>> /\ fetcher.pc = "fetched"
        /\ staged' = [staged EXCEPT !["macro"] = {[key |-> 0, ver |-> fetcher.ver]},
                                    !["event"] = {}]
    BY <1>7 DEF FetchWriteCandidates
  <2>2. staged'["event"] = {} /\ fetcher'.pc = "written"
    BY <1>7, <2>1 DEF FetchWriteCandidates, Inv, TypeOK, Targets
  <2>3. Keys(staged'["event"]) = {}
    BY <2>2 DEF Keys
  <2> QED BY <1>1, <1>2, <1>4, <2>1, <2>2, <2>3 DEF Inside
<1>8. CASE FetchWriteDryRun
  <2>1. /\ UNCHANGED <<staged, scanner, overlap>> /\ fetcher.pc = "written"
        /\ fetcher'.pc = "idle" /\ dryRun'.generated = fetcher.generated
    BY <1>3, <1>8 DEF FetchWriteDryRun
  <2>2. ASSUME ~overlap PROVE Keys(staged["event"]) = {}
    BY <2>1, <2>2 DEF Keys
  <2> QED BY <1>1, <1>2, <1>4, <2>1, <2>2 DEF Inside
<1>9. ASSUME NEW E \in Scans, ScanClassify(E) PROVE GateInv'
  <2>1. /\ UNCHANGED <<staged, dryRun, fetcher>> /\ scanner.pc = "idle"
        /\ scanner'.pc = "classified"
        /\ overlap' = (overlap \/ pub.pc # "idle" \/ fetcher.pc # "idle")
    BY <1>9 DEF ScanClassify, IdleScanner
  <2> QED BY <1>1, <1>2, <2>1 DEF Inside
<1>10. CASE ScanWriteCandidate
  <2>1. /\ UNCHANGED <<dryRun, fetcher, overlap>> /\ scanner.pc = "classified"
        /\ staged' = IF scanner.events = {} THEN staged
                     ELSE [staged EXCEPT !["event"] = DayRows(scanner.events)]
    BY <1>10 DEF ScanWriteCandidate
  <2>2. scanner'.pc = "written" /\ scanner'.events = scanner.events
    BY <1>10 DEF ScanWriteCandidate, Inv, TypeOK
  <2> QED BY <1>1, <1>2, <1>4, <2>1, <2>2 DEF Inside
<1>11. ASSUME NEW watch \in BOOLEAN, ScanWriteSnapshots(watch) PROVE GateInv'
  <2>1. UNCHANGED <<staged, dryRun, fetcher, overlap>> /\ scanner.pc = "written"
    BY <1>11 DEF ScanWriteSnapshots
  <2>2. scanner'.pc = "staged" /\ scanner'.events = scanner.events
    BY <1>11 DEF ScanWriteSnapshots, Inv, TypeOK
  <2> QED BY <1>1, <1>2, <1>4, <2>1, <2>2 DEF Inside
<1>12. CASE ScanLoadDryRun
  <2>1. UNCHANGED <<staged, dryRun, fetcher, overlap>> /\ scanner.pc = "staged"
    BY <1>12 DEF ScanLoadDryRun
  <2>2. /\ scanner'.pc = "merging" /\ scanner'.events = scanner.events
        /\ scanner'.dry = dryRun
    BY <1>12 DEF ScanLoadDryRun, Inv, TypeOK
  <2> QED BY <1>1, <1>2, <1>4, <2>1, <2>2 DEF Inside
<1>13. CASE ScanMergeDryRun
  <2>1. UNCHANGED <<staged, fetcher, overlap>> /\ scanner.pc = "merging"
        /\ scanner'.pc = "idle"
    BY <1>3, <1>13 DEF ScanMergeDryRun
  <2>2. ASSUME scanner.dry = dryRun
        PROVE  IF scanner.events = {} THEN dryRun' = dryRun
               ELSE "event" \in dryRun'.generated
    BY <1>13, <2>2 DEF ScanMergeDryRun, Inv, TypeOK, DryRunType
  <2> QED BY <1>1, <1>2, <1>4, <2>1, <2>2 DEF Inside
<1> QED BY <1>5, <1>6, <1>7, <1>8, <1>9, <1>10, <1>11, <1>12, <1>13
        DEF FetcherNext, ScannerNext

LEMMA PublisherKeepsGate ==
  ASSUME Inv, Inv', GateInv, PublisherNext
  PROVE  GateInv'
<1> USE DEF GateInv, OneAtWork, ListedOrPublished, EventAppended, EventsPublished,
            EventKeysBefore, Inside
<1>1. /\ csv \in Files /\ pub.original \in Files
      /\ pub.todo \in SUBSET Targets /\ pub.files \in SUBSET Targets
      /\ "event" \in Targets
  BY DEF Inv, TypeOK, PubType, Targets
<1>2. IdlePub.pc = "idle"
  BY DEF IdlePub
<1>3. UNCHANGED <<fetcher, scanner, staged>>
  BY <1>2
     DEF PublisherNext, AppendNext, SyncNext, Review, Refuse, Approve,
         AppendCandidate, UpdateManifest, AppendFails, RestoreTarget,
         RestoreManifest, RestoreFails, SyncRuntimeSnapshot, SyncNewsSnapshot,
         SyncEventReview, LoadDryRun, SyncDryRun, SyncFails, Killed, staging
<1>4. Review \/ UNCHANGED overlap
  BY DEF PublisherNext, AppendNext, SyncNext, Refuse, Approve, AppendCandidate,
         UpdateManifest, AppendFails, RestoreTarget, RestoreManifest, RestoreFails,
         SyncRuntimeSnapshot, SyncNewsSnapshot, SyncEventReview, LoadDryRun,
         SyncDryRun, SyncFails, Killed
<1>5. csv' = csv => FormalKeys("event")' = FormalKeys("event")
  BY DEF FormalKeys
<1>6. pub'.original = pub.original => KeysBefore("event")' = KeysBefore("event")
  BY DEF KeysBefore
<1>7. CASE Review
  <2>1. /\ UNCHANGED <<csv, dryRun>> /\ pub.pc = "idle" /\ pub'.pc = "reviewed"
        /\ overlap' = (overlap \/ ~StagingIdle)
    BY <1>7 DEF Review, IdlePub, formal
  <2> QED BY <1>3, <1>5, <2>1 DEF StagingIdle, Syncing
<1>8. CASE Refuse
  <2>1. UNCHANGED <<csv, dryRun>> /\ pub.pc = "reviewed" /\ pub'.pc = "idle"
    BY <1>2, <1>8 DEF Refuse, formal
  <2> QED BY <1>3, <1>4, <1>5, <2>1 DEF Syncing, Review
<1>9. CASE Approve
  <2>1. /\ UNCHANGED <<csv, dryRun>> /\ pub.pc = "reviewed" /\ pub'.pc = "append"
        /\ pub'.original = csv /\ pub'.files = pub.files /\ pub'.todo = pub.files
    BY <1>9 DEF Approve, formal, Inv, TypeOK, PubType
  <2>2. KeysBefore("event")' = FormalKeys("event")
    BY <2>1 DEF KeysBefore, FormalKeys
  <2>3. "event" \in dryRun.generated => "event" \in pub.files
    BY <1>9 DEF Approve, SameIdentity, PublishFiles
  <2> QED BY <1>3, <1>4, <1>5, <2>1, <2>2, <2>3 DEF Syncing, Review
<1>10. CASE AppendCandidate
  <2> DEFINE t == First(pub.todo)
             more == SetToSeq(RowsToAppend(t))
  <2>1. t \in pub.todo /\ t \in Targets
    BY <1>1, <1>10, FirstIsOneOfThem DEF AppendCandidate
  <2>2. /\ csv' = [csv EXCEPT ![t] = csv[t] \o more] /\ dryRun' = dryRun
        /\ pub' = [pub EXCEPT !.todo = @ \ {t}, !.added = @ \/ RowsToAppend(t) # {}]
        /\ pub.pc = "append"
    BY <1>10 DEF AppendCandidate
  <2>3. /\ pub'.pc = "append" /\ pub'.original = pub.original
        /\ pub'.files = pub.files /\ pub'.todo = pub.todo \ {t}
    BY <2>2 DEF Inv, TypeOK, PubType
  <2>4. ASSUME t = "event"
        PROVE  FormalKeys("event")' = FormalKeys("event") \union Keys(staged["event"])
    <3>1. csv'["event"] = csv["event"] \o SetToSeq(RowsToAppend("event"))
      BY <1>1, <2>2, <2>4 DEF Files
    <3>2. CandidateRows("event", pub.run) = staged["event"]
      BY DEF CandidateRows
    <3> QED BY <1>1, <3>1, <3>2, KeysAfterAppend DEF FormalKeys
  <2>5. ASSUME t # "event" PROVE FormalKeys("event")' = FormalKeys("event")
    <3>1. csv'["event"] = csv["event"]
      BY <1>1, <2>2, <2>5 DEF Files
    <3> QED BY <3>1 DEF FormalKeys
  <2> HIDE DEF t, more
  <2>6. FormalKeys("event") \subseteq FormalKeys("event")'
    BY <2>4, <2>5
  <2>7. EventKeysBefore' = EventKeysBefore
    BY <1>6, <2>2, <2>3
  <2>8. pub.pc \notin Syncing /\ pub'.pc \notin Syncing
    BY <2>2, <2>3 DEF Syncing
  <2>9. ASSUME ~overlap PROVE ListedOrPublished'
    BY <1>3, <2>2, <2>7, <2>9
  <2>10. ASSUME ~overlap, "event" \in pub'.files \ pub'.todo PROVE EventsPublished'
    BY <1>3, <2>2, <2>3, <2>4, <2>6, <2>10
  <2> QED BY <1>3, <1>4, <1>10, <2>2, <2>3, <2>6, <2>7, <2>8, <2>9, <2>10
          DEF Review
<1>11. CASE UpdateManifest
  <2>1. /\ UNCHANGED <<csv, dryRun>> /\ pub.pc = "append" /\ pub.todo = {}
        /\ pub'.pc \in {"syncRuntime", "idle"}
    BY <1>2, <1>11 DEF UpdateManifest, Inv, TypeOK, PubType
  <2>2. ASSUME ~overlap
        PROVE  EventsPublished \/ (scanner.pc # "idle" /\ scanner.events # {})
    BY <2>1, <2>2
  <2>3. ASSUME ~overlap PROVE EventsPublished
    BY <2>1, <2>2, <2>3
  <2> QED BY <1>3, <1>4, <1>5, <2>1, <2>3 DEF Review, Syncing
<1>12. CASE AppendFails
  <2>1. /\ UNCHANGED <<csv, dryRun>> /\ pub.pc = "append" /\ pub'.pc = "restore"
        /\ pub'.original = pub.original /\ pub'.files = pub.files
    BY <1>12 DEF AppendFails, Inv, TypeOK, PubType
  <2> QED BY <1>3, <1>4, <1>5, <1>6, <2>1 DEF Review, Syncing
<1>13. CASE RestoreTarget
  <2>1. /\ dryRun' = dryRun /\ pub.pc = "restore" /\ pub'.pc = "restore"
        /\ pub'.original = pub.original /\ pub'.files = pub.files
        /\ (csv'["event"] = pub.original["event"] \/ csv'["event"] = csv["event"])
    BY <1>1, <1>13 DEF RestoreTarget, Files, Inv, TypeOK, PubType
  <2>2. FormalKeys("event")' \in {FormalKeys("event"), KeysBefore("event")}
    BY <2>1 DEF FormalKeys, KeysBefore
  <2> QED BY <1>3, <1>4, <1>6, <2>1, <2>2 DEF Review, Syncing
<1>14. CASE RestoreManifest \/ RestoreFails \/ Killed
  <2>1. UNCHANGED <<csv, dryRun>> /\ pub'.pc = "idle" /\ pub.pc \notin {"idle", "reviewed"}
    BY <1>2, <1>14 DEF RestoreManifest, RestoreFails, Killed
  <2> QED BY <1>3, <1>4, <1>5, <2>1 DEF Review, Syncing
<1>15. CASE SyncNext
  <2>1. csv' = csv /\ pub.pc \in Syncing /\ pub'.pc \in Syncing \union {"idle"}
    BY <1>2, <1>15
       DEF SyncNext, SyncRuntimeSnapshot, SyncNewsSnapshot, SyncEventReview,
           LoadDryRun, SyncDryRun, SyncFails, Syncing, Inv, TypeOK, PubType, formal
  <2> QED BY <1>3, <1>4, <1>5, <2>1 DEF Review, Syncing
<1> QED BY <1>7, <1>8, <1>9, <1>10, <1>11, <1>12, <1>13, <1>14, <1>15
        DEF PublisherNext, AppendNext

\* As long as no two of the programs ran at the same time, the launcher's gate is
\* never open while the candidate holds an event that is missing from the formal
\* file: whatever was fetched, scanned, reviewed, published, rolled back or killed
\* before.  Of events that a later scan or a fetch took out of the candidate it
\* says nothing.
THEOREM OpenGateHidesNothing == Spec => []ReadyGateHidesNothing
<1>1. Init => GateInv
  <2>1. ASSUME Init
        PROVE  /\ pub.pc = "idle" /\ fetcher.pc = "idle" /\ scanner.pc = "idle"
               /\ staged["event"] = {}
    BY <2>1 DEF Init, IdlePub, IdleFetcher, IdleScanner, NoRows, Targets
  <2> QED BY <2>1 DEF GateInv, OneAtWork, ListedOrPublished, EventAppended,
                      EventKeysBefore, Inside, Syncing, Keys
<1>2. Inv /\ Inv' /\ GateInv /\ [Next]_vars => GateInv'
  <2>1. ASSUME GateInv, UNCHANGED vars PROVE GateInv'
    BY <2>1 DEF vars, GateInv, OneAtWork, ListedOrPublished, EventAppended,
                EventsPublished, EventKeysBefore, Inside, KeysBefore, FormalKeys
  <2> QED BY <2>1, StagingKeepsGate, PublisherKeepsGate DEF Next
<1>3. Inv /\ GateInv => ReadyGateHidesNothing
  <2>1. ASSUME Inv, GateReady PROVE "event" \notin dryRun.generated
    BY <2>1 DEF GateReady, PublishFiles
  <2> QED BY <2>1 DEF GateInv, ListedOrPublished, EventKeysBefore, Inside,
                      ReadyGateHidesNothing, AllIdle, StagingIdle, EventsPublished
<1> QED BY <1>1, <1>2, <1>3, InvInductive, PTL DEF Spec

============================================================================
