----------------------- MODULE JournalPublish_proofs -----------------------
(***************************************************************************)
(* What holds of the two TWSE updaters and their journaled publishers for   *)
(* every number of updaters, days, runs and troubles: the types however     *)
(* they overlap, and, when one is started after the other, that a publish   *)
(* is atomic, that what a kill leaves can be undone from a journal, and     *)
(* that market dates have prices.                                          *)
(***************************************************************************)
EXTENDS JournalPublish, FiniteSetTheorems, SequenceTheorems, TLAPS

(***************************************************************************)
(* Lemmas about the operators                                              *)
(***************************************************************************)
\* A finite nonempty set of numbers has a last one and a first one.
LEMMA FiniteSetsHaveEnds ==
  ASSUME NEW S \in SUBSET Nat, IsFiniteSet(S), S # {}
  PROVE  /\ \E n \in S : \A x \in S : x <= n
         /\ \E n \in S : \A x \in S : n <= x
<1> DEFINE HasEnds(A) == /\ \E n \in A : \A x \in A : x <= n
                       /\ \E n \in A : \A x \in A : n <= x
           Bad == {A \in SUBSET S : A # {} /\ ~HasEnds(A)}
<1>1. SUFFICES ASSUME Bad # {} PROVE FALSE
  <2>1. S \notin Bad
    BY <1>1
  <2> QED BY <2>1
<1>2. /\ IsWellFoundedOn(StrictSubsetOrdering(S), FiniteSubsetsOf(S))
      /\ FiniteSubsetsOf(S) = SUBSET S
  BY FS_StrictSubsetOrderingWellFounded, FS_FiniteSubsetsOfFinite
<1>3. PICK A \in Bad : \A B \in Bad : <<B, A>> \notin StrictSubsetOrdering(S)
  <2>1. Bad \subseteq FiniteSubsetsOf(S)
    BY <1>2
  <2> HIDE DEF Bad
  <2> QED BY <1>1, <1>2, <2>1, WFMin
<1>4. PICK a \in A : TRUE
  BY <1>3
<1> DEFINE B == A \ {a}
<1>5. <<B, A>> \in StrictSubsetOrdering(S)
  <2>1. B \in SUBSET S /\ A \in SUBSET S /\ B \subseteq A /\ B # A
    BY <1>3, <1>4
  <2> HIDE DEF B
  <2> QED BY <2>1 DEF StrictSubsetOrdering
<1>6. B \notin Bad
  BY <1>3, <1>5
<1>7. B = {} \/ HasEnds(B)
  BY <1>3, <1>6
<1>8. CASE B = {}
  <2>1. A = {a} /\ a \in Nat
    BY <1>3, <1>4, <1>8
  <2>2. HasEnds(A)
    BY <2>1
  <2> QED BY <1>3, <2>2
<1>9. CASE HasEnds(B)
  <2>1. A \subseteq Nat /\ a \in Nat /\ A = B \union {a}
    BY <1>3, <1>4
  <2>2. PICK n \in B : \A x \in B : x <= n
    BY <1>9
  <2>3. PICK m \in B : \A x \in B : m <= x
    BY <1>9
  <2>4. \E k \in A : \A x \in A : x <= k
    <3>1. CASE a <= n
      BY <2>1, <2>2, <3>1
    <3>2. CASE n <= a
      BY <2>1, <2>2, <3>2
    <3> QED BY <2>1, <2>2, <3>1, <3>2
  <2>5. \E k \in A : \A x \in A : k <= x
    <3>1. CASE a <= m
      BY <2>1, <2>3, <3>1
    <3>2. CASE m <= a
      BY <2>1, <2>3, <3>2
    <3> QED BY <2>1, <2>3, <3>1, <3>2
  <2> QED BY <1>3, <2>4, <2>5
<1> QED BY <1>7, <1>8, <1>9

\* What a formal file can hold when it has rows.
Dates == {S \in SUBSET Days : S # {}}

\* The last of some days is one of them, and no other is later.
LEMMA LastIsLast ==
  ASSUME NEW S \in Dates
  PROVE  /\ Last(S) \in S /\ Last(S) \in Nat
         /\ \A x \in S : x <= Last(S)
<1>1. S \in SUBSET Days /\ S # {} /\ S \in SUBSET Nat /\ IsFiniteSet(Days)
  BY DaysAssumption DEF Dates
<1>2. IsFiniteSet(S)
  BY <1>1, FS_Subset
<1>3. \E n \in S : \A x \in S : x <= n
  BY <1>1, <1>2, FiniteSetsHaveEnds
<1> QED BY <1>1, <1>3 DEF Last

\* The next trading day is a trading day.
LEMMA NextDayTrades ==
  ASSUME TradingDays \ twse # {}
  PROVE  NextDay \in TradingDays
<1> DEFINE S == TradingDays \ twse
<1>1. S \in SUBSET Days /\ S \in SUBSET Nat /\ IsFiniteSet(Days)
  BY DaysAssumption
<1>2. IsFiniteSet(S)
  BY <1>1, FS_Subset
<1> HIDE DEF S
<1>3. \E n \in S : \A x \in S : n <= x
  BY <1>1, <1>2, FiniteSetsHaveEnds DEF S
<1> QED BY <1>3 DEF S, NextDay

\* So is the first one.
LEMMA FirstDayTrades == FirstDay \in TradingDays
<1>1. TradingDays \in SUBSET Days /\ TradingDays \in SUBSET Nat /\ IsFiniteSet(Days)
  BY DaysAssumption
<1>2. IsFiniteSet(TradingDays) /\ TradingDays # {}
  BY <1>1, FS_Subset, DaysAssumption
<1>3. \E n \in TradingDays : \A x \in TradingDays : n <= x
  BY <1>1, <1>2, FiniteSetsHaveEnds
<1> QED BY <1>3 DEF FirstDay

(***************************************************************************)
(* Type correctness                                                        *)
(***************************************************************************)
\* What a market updater works with are days, at least one where it is a file.
DatesOf(r) ==
  /\ r.candidate \subseteq Days
  /\ r.pc \in {"backup"} \union Publishing => r.new \in Dates
  /\ r.pc \in Publishing => r.backupCsv \in Dates

\* TypeOK alone is not inductive: the anchor is a number only when the market file
\* is neither empty nor infinite, which the publishers never make it.
TypeInv ==
  /\ TypeOK
  /\ csv["market"] \in Dates
  /\ twse \subseteq TradingDays
  /\ \A p \in MarketUpdaters : DatesOf(proc[p])

LEMMA InitType == Init => TypeInv
<1> SUFFICES ASSUME Init PROVE TypeInv
  OBVIOUS
<1>1. PICK extra \in SUBSET {d \in Days \ TradingDays : d > FirstDay} :
        csv = [t \in Datasets |-> IF t = "daily" THEN {FirstDay} \union extra
                                  ELSE {FirstDay}]
  BY DEF Init
<1>2. FirstDay \in TradingDays /\ FirstDay \in Days /\ FirstDay \in Nat
  BY FirstDayTrades, DaysAssumption
<1>3. csv \in Files /\ csv["market"] \in Dates
  <2>1. extra \subseteq Nat
    BY DaysAssumption
  <2> QED BY <1>1, <1>2, <2>1 DEF Files, Dates, Datasets
<1>4. IdleProc \in ProcType /\ IdleProc.pc = "idle" /\ DatesOf(IdleProc)
  <2>1. NoFiles \in Files
    BY DEF NoFiles, Files
  <2> QED BY <2>1 DEF IdleProc, ProcType, DatesOf, Publishing
<1>5. proc \in [Updaters -> ProcType] /\ \A p \in Updaters : proc[p] = IdleProc
  BY <1>4 DEF Init
<1>6. TypeOK
  <2>1. spent \in [{"runs", "trouble"} -> Nat] /\ journals \in Seq(JournalType)
    BY EmptySeq DEF Init
  <2>2. manifest \in Files /\ twse \in SUBSET Nat
    BY <1>2, <1>3 DEF Init
  <2> QED BY <1>3, <1>4, <1>5, <2>1, <2>2 DEF Init, TypeOK, Publishing, Statuses
<1> QED BY <1>2, <1>3, <1>4, <1>5, <1>6 DEF Init, TypeInv, Updaters

\* The candidates that dry runs leave, and what was taken on their word.
StagingType ==
  candidates \in SUBSET [anchor : Nat, days : SUBSET Nat] /\ borrowed \in SUBSET Nat

\* A step of one process.
LEMMA StepType ==
  ASSUME TypeInv, NEW p \in Updaters, NEW r \in ProcType,
         proc' = [proc EXCEPT ![p] = r], UNCHANGED twse,
         UNCHANGED staging \/ StagingType',
         csv' \in Files, csv'["market"] \in Dates, manifest' \in Files,
         journals' \in Seq(JournalType), DOMAIN journals \subseteq DOMAIN journals',
         temps' \in SUBSET (Datasets \X SUBSET Nat),
         status' \in [Datasets -> Statuses],
         lock' \in BOOLEAN, damaged' \in BOOLEAN, spent' \in [{"runs", "trouble"} -> Nat],
         r.pc \in Publishing => r.journal \in DOMAIN journals',
         p \in MarketUpdaters => DatesOf(r)
  PROVE  TypeInv'
<1>1. /\ proc' \in [Updaters -> ProcType]
      /\ \A q \in Updaters : proc'[q] = IF q = p THEN r ELSE proc[q]
  BY DEF TypeInv, TypeOK
<1>2. \A q \in Updaters : proc'[q].pc \in Publishing => proc'[q].journal \in DOMAIN journals'
  BY <1>1 DEF TypeInv, TypeOK
<1>3. \A q \in MarketUpdaters : DatesOf(proc'[q])
  BY <1>1 DEF TypeInv, Updaters
<1>4. StagingType'
  BY DEF TypeInv, TypeOK, staging, StagingType
<1>5. TypeOK'
  BY <1>1, <1>2, <1>4 DEF TypeInv, TypeOK, StagingType
<1> QED BY <1>3, <1>5 DEF TypeInv, DatesOf

\* A step of one process that touches neither the formal files nor the journals.
LEMMA QuietType ==
  ASSUME TypeInv, NEW p \in Updaters, NEW r \in ProcType,
         proc' = [proc EXCEPT ![p] = r], UNCHANGED <<formal, twse, journals, temps, damaged>>,
         UNCHANGED staging \/ StagingType',
         status' \in [Datasets -> Statuses],
         lock' \in BOOLEAN, spent' \in [{"runs", "trouble"} -> Nat],
         r.pc \in Publishing => r.journal \in DOMAIN journals,
         p \in MarketUpdaters => DatesOf(r)
  PROVE  TypeInv'
<1>1. /\ csv' \in Files /\ csv'["market"] \in Dates /\ manifest' \in Files
      /\ journals' \in Seq(JournalType) /\ DOMAIN journals \subseteq DOMAIN journals'
      /\ temps' \in SUBSET (Datasets \X SUBSET Nat) /\ damaged' \in BOOLEAN
      /\ r.pc \in Publishing => r.journal \in DOMAIN journals'
  BY DEF formal, TypeInv, TypeOK
<1> QED BY <1>1, StepType

\* The process that ends is idle.
LEMMA IdleType == IdleProc \in ProcType /\ IdleProc.pc = "idle" /\ DatesOf(IdleProc)
<1>1. NoFiles \in Files
  BY DEF NoFiles, Files
<1> QED BY <1>1 DEF IdleProc, ProcType, DatesOf, Publishing

LEMMA ReportType ==
  ASSUME TypeInv, NEW p \in Updaters,
         NEW outcome \in Statuses, Report(p, outcome)
  PROVE  status' \in [Datasets -> Statuses]
BY DEF TypeInv, TypeOK, Report

LEMMA TroubleType ==
  ASSUME TypeInv, Trouble
  PROVE  spent' \in [{"runs", "trouble"} -> Nat]
BY DEF TypeInv, TypeOK, Trouble

\* What a process is at.
LEMMA ProcOf ==
  ASSUME TypeInv, NEW p \in Updaters
  PROVE  /\ proc[p] \in ProcType
         /\ Dataset(p) \in Datasets
         /\ p \in MarketUpdaters => DatesOf(proc[p]) /\ Dataset(p) = "market"
         /\ p \in DailyUpdaters => p \notin MarketUpdaters /\ Dataset(p) = "daily"
         /\ p \in DailyUpdaters \/ p \in MarketUpdaters
BY UpdatersAssumption DEF TypeInv, TypeOK, Dataset, Datasets, Updaters

\* Only the program counter moves.
LEMMA GotoType ==
  ASSUME TypeInv, NEW p \in Updaters,
         NEW pc \in {"idle", "lock", "fetch", "publish", "backup"} \union Publishing
  PROVE  /\ Goto(p, pc) \in ProcType
         /\ Goto(p, pc).pc = pc
         /\ Goto(p, pc).journal = proc[p].journal
         /\ Goto(p, pc).candidate = proc[p].candidate
         /\ Goto(p, pc).new = proc[p].new
         /\ Goto(p, pc).newManifest = proc[p].newManifest
         /\ Goto(p, pc).preCsv = proc[p].preCsv
         /\ Goto(p, pc).backupCsv = proc[p].backupCsv
         /\ Goto(p, pc).backupManifest = proc[p].backupManifest
         /\ Goto(p, pc).rows = proc[p].rows
         /\ Goto(p, pc).price = proc[p].price
         /\ Goto(p, pc).overlay = proc[p].overlay
         /\ Goto(p, pc).anchor = proc[p].anchor
         /\ Goto(p, pc).failed = proc[p].failed
<1>1. proc[p] \in ProcType
  BY ProcOf
<1> QED BY <1>1 DEF Goto, ProcType

LEMMA UpdaterType ==
  ASSUME TypeInv, NEW p \in Updaters, UpdaterNext(p)
  PROVE  TypeInv'
<1>1. /\ proc[p] \in ProcType /\ csv \in Files /\ Dataset(p) \in Datasets
      /\ status \in [Datasets -> Statuses]
      /\ lock \in BOOLEAN /\ spent \in [{"runs", "trouble"} -> Nat]
      /\ twse \subseteq Days /\ Days \subseteq Nat /\ StagingType
  BY ProcOf, DaysAssumption DEF TypeInv, TypeOK, StagingType
<1>2. CASE Start(p)
  <2>0. PICK overlay \in IF p \in MarketUpdaters THEN Overlays ELSE {{}} :
          proc' = [proc EXCEPT ![p] =
                     [IdleProc EXCEPT !.pc = IF p \in MarketUpdaters THEN "lock" ELSE "fetch",
                                      !.rows = csv[Dataset(p)],
                                      !.price = csv["daily"],
                                      !.overlay = overlay,
                                      !.anchor = Last(csv["market"])]]
    BY <1>2 DEF Start
  <2> DEFINE r == [IdleProc EXCEPT !.pc = IF p \in MarketUpdaters THEN "lock" ELSE "fetch",
                                   !.rows = csv[Dataset(p)],
                                   !.price = csv["daily"],
                                   !.overlay = overlay,
                                   !.anchor = Last(csv["market"])]
  <2>1. /\ proc' = [proc EXCEPT ![p] = r]
        /\ spent' = [spent EXCEPT !.runs = @ + 1]
        /\ UNCHANGED <<formal, staging, twse, journals, temps, status, lock, damaged>>
    BY <1>2, <2>0 DEF Start
  <2>6. overlay \in SUBSET Nat
    BY <1>1, <2>0 DEF Overlays, StagingType
  <2>2. Last(csv["market"]) \in Nat
    BY LastIsLast DEF TypeInv
  <2>3. /\ r \in ProcType /\ r.pc \in {"lock", "fetch"}
        /\ r.candidate = IdleProc.candidate
    BY <1>1, <2>2, <2>6, IdleType DEF ProcType, Files, Datasets
  <2>4. spent' \in [{"runs", "trouble"} -> Nat]
    BY <1>1, <2>1
  <2> HIDE DEF r
  <2>5. DatesOf(r) /\ r.pc \notin Publishing
    BY <2>3, IdleType DEF DatesOf, Publishing
  <2> QED BY <1>1, <2>1, <2>3, <2>4, <2>5, QuietType
<1>3. CASE AcquireLock(p) \/ TakeStaleLock(p)
  <2>1. /\ proc' = [proc EXCEPT ![p] = Goto(p, "fetch")] /\ proc[p].pc = "lock"
        /\ UNCHANGED <<formal, staging, twse, journals, temps, status, damaged>>
        /\ lock' \in BOOLEAN /\ spent' \in [{"runs", "trouble"} -> Nat]
    BY <1>1, <1>3, TroubleType DEF AcquireLock, TakeStaleLock
  <2>2. /\ Goto(p, "fetch") \in ProcType /\ Goto(p, "fetch").pc = "fetch"
        /\ Goto(p, "fetch").candidate = proc[p].candidate
    BY GotoType
  <2>3. p \in MarketUpdaters => DatesOf(Goto(p, "fetch"))
    BY <2>2, ProcOf DEF DatesOf, Publishing
  <2>4. Goto(p, "fetch").pc \notin Publishing
    BY <2>2 DEF Publishing
  <2> QED BY <1>1, <2>1, <2>2, <2>3, <2>4, QuietType
<1>4. ASSUME proc' = [proc EXCEPT ![p] = IdleProc], lock' \in BOOLEAN,
             status' \in [Datasets -> Statuses],
             UNCHANGED <<formal, twse, journals, temps, damaged>>,
             UNCHANGED staging \/ StagingType',
             spent' \in [{"runs", "trouble"} -> Nat]
      PROVE  TypeInv'
  BY <1>4, IdleType, QuietType DEF Publishing
<1>5. ASSUME Ends(p) PROVE proc' = [proc EXCEPT ![p] = IdleProc] /\ lock' \in BOOLEAN
  BY <1>1, <1>5 DEF Ends
<1>6. CASE LockBusy(p)
  BY <1>1, <1>4, <1>6 DEF LockBusy
<1>7. CASE FetchFails(p)
  <2>1. status' \in [Datasets -> Statuses]
    BY <1>7, ReportType DEF FetchFails, Statuses
  <2> QED BY <1>4, <1>5, <1>7, <2>1, TroubleType DEF FetchFails
<1>8. ASSUME NEW candidate \in SUBSET Nat, p \in MarketUpdaters => candidate \subseteq Days,
             proc' = [proc EXCEPT ![p] =
                        [@ EXCEPT !.pc = "publish", !.candidate = candidate]],
             UNCHANGED <<formal, twse, journals, temps, damaged, status, lock, spent>>,
             StagingType'
      PROVE  TypeInv'
  <2> DEFINE r == [proc[p] EXCEPT !.pc = "publish", !.candidate = candidate]
  <2>1. r \in ProcType /\ r.pc = "publish" /\ r.candidate = candidate
    BY <1>1, <1>8 DEF ProcType
  <2>2. proc' = [proc EXCEPT ![p] = r]
    BY <1>8
  <2> HIDE DEF r
  <2>3. p \in MarketUpdaters => DatesOf(r)
    BY <1>8, <2>1 DEF DatesOf, Publishing
  <2>4. r.pc \notin Publishing
    BY <2>1 DEF Publishing
  <2> QED BY <1>1, <1>8, <2>1, <2>2, <2>3, <2>4, QuietType
<1>9. ASSUME NEW dry \in BOOLEAN, FetchDaily(p, dry) PROVE TypeInv'
  <2> DEFINE anchored == proc[p].anchor \in proc[p].rows
             none == TargetDates(p) = {}
  <2>0. StagingType'
    <3>1. /\ borrowed' = borrowed
          /\ \/ candidates' = candidates
             \/ candidates' = candidates \union
                               {[anchor |-> proc[p].anchor, days |-> TargetDates(p)]}
      BY <1>9 DEF FetchDaily
    <3>2. proc[p].anchor \in Nat /\ TargetDates(p) \in SUBSET Nat
      BY <1>1 DEF TargetDates, ProcType
    <3> QED BY <1>1, <3>1, <3>2 DEF StagingType
  <2>1. CASE none \/ (anchored /\ (dry \/ Reconciled(p) = csv["daily"]))
    <3>1. /\ \E outcome \in {"NO_NEW", "BLOCKED", "DRY_RUN_READY"} : Report(p, outcome)
          /\ Ends(p) /\ UNCHANGED <<formal, twse, journals, temps, damaged, spent>>
      BY <1>9, <2>1 DEF FetchDaily
    <3>2. status' \in [Datasets -> Statuses]
      BY <3>1, ReportType DEF Statuses
    <3> QED BY <1>1, <1>4, <1>5, <2>0, <3>1, <3>2
  <2>2. CASE ~none /\ ~anchored
    <3>1. Ends(p) /\ UNCHANGED <<status, formal, twse, journals, temps, damaged, spent>>
      BY <1>9, <2>2 DEF FetchDaily
    <3> QED BY <1>1, <1>4, <1>5, <2>0, <3>1
  <2>3. CASE ~none /\ anchored /\ ~dry /\ Reconciled(p) # csv["daily"]
    <3>1. /\ proc' = [proc EXCEPT ![p] =
                        [@ EXCEPT !.pc = "publish", !.candidate = Reconciled(p)]]
          /\ UNCHANGED <<status, lock, formal, twse, journals, temps, damaged, spent>>
      BY <1>9, <2>3 DEF FetchDaily
    <3>2. Reconciled(p) \in SUBSET Nat
      BY <1>1 DEF Reconciled, TargetDates, ProcType
    <3>3. p \notin MarketUpdaters
      BY <1>9, ProcOf DEF FetchDaily
    <3> QED BY <1>8, <2>0, <3>1, <3>2, <3>3
  <2> QED BY <2>1, <2>2, <2>3
<1>10. CASE FetchMarket(p)
  <2> DEFINE new == twse \ proc[p].rows
             ready == new # {} /\ (\A d \in new : ~(d <= proc[p].anchor)) /\ Priced(p, new)
  <2>1. CASE ~ready
    <3>1. /\ \E outcome \in {"NO_NEW", "BLOCKED"} : Report(p, outcome)
          /\ Ends(p) /\ UNCHANGED <<formal, staging, twse, journals, temps, damaged, spent>>
      BY <1>10, <2>1 DEF FetchMarket, staging
    <3>2. status' \in [Datasets -> Statuses]
      BY <3>1, ReportType DEF Statuses
    <3> QED BY <1>1, <1>4, <1>5, <3>1, <3>2
  <2>2. CASE ready
    <3>1. /\ proc' = [proc EXCEPT ![p] = [@ EXCEPT !.pc = "publish", !.candidate = new]]
          /\ UNCHANGED <<status, lock, formal, candidates, twse, journals, temps, damaged, spent>>
          /\ borrowed' = (borrowed \ new) \union ((new \intersect proc[p].overlay) \ proc[p].price)
      BY <1>10, <2>2 DEF FetchMarket
    <3>2. new \in SUBSET Nat /\ new \subseteq Days
      BY <1>1
    <3> HIDE DEF new
    <3>3. StagingType'
      BY <1>1, <3>1, <3>2 DEF StagingType
    <3> QED BY <1>8, <3>1, <3>2, <3>3
  <2> QED BY <2>1, <2>2
<1> QED BY <1>2, <1>3, <1>6, <1>7, <1>9, <1>10 DEF UpdaterNext

\* Writing the outcome into a journal.
LEMMA SettledType ==
  ASSUME TypeInv, NEW p \in Updaters, proc[p].pc \in Publishing,
         NEW outcome \in Outcomes, Settled(p, outcome)
  PROVE  /\ journals' \in Seq(JournalType)
         /\ DOMAIN journals' = DOMAIN journals
         /\ proc[p].journal \in DOMAIN journals
         /\ journals'[proc[p].journal] = [journals[proc[p].journal] EXCEPT !.outcome = outcome]
         /\ \A i \in DOMAIN journals : i # proc[p].journal => journals'[i] = journals[i]
<1> DEFINE i == proc[p].journal
           e == [journals[i] EXCEPT !.outcome = outcome]
<1>1. journals \in Seq(JournalType) /\ i \in DOMAIN journals
  BY DEF TypeInv, TypeOK
<1>2. DOMAIN journals = 1..Len(journals) /\ Len(journals) \in Nat
  BY <1>1, LenProperties
<1>3. journals[i] \in JournalType
  BY <1>1, <1>2, ElementOfSeq
<1>4. e \in JournalType
  BY <1>3 DEF JournalType
<1>5. journals' = [journals EXCEPT ![i] = e]
  BY DEF Settled
<1> HIDE DEF i, e
<1>6. /\ journals' \in Seq(JournalType) /\ Len(journals') = Len(journals)
      /\ \A j \in 1..Len(journals) : journals'[j] = IF j = i THEN e ELSE journals[j]
  BY <1>1, <1>2, <1>4, <1>5, ExceptSeq
<1>7. DOMAIN journals' = 1..Len(journals')
  BY <1>6, LenProperties
<1> QED BY <1>1, <1>2, <1>6, <1>7 DEF i, e

\* A new journal, and the process inside its critical part.
LEMMA BackupStep ==
  ASSUME TypeInv, NEW p \in Updaters, Backup(p),
         ~(p \in MarketUpdaters /\ csv["market"] # proc[p].preCsv)
  PROVE  /\ csv \in Files /\ manifest \in Files
         /\ journals' = Append(journals, JournalEntry(p, "BACKUP_VERIFIED"))
         /\ JournalEntry(p, "BACKUP_VERIFIED") \in JournalType
         /\ proc' = [proc EXCEPT ![p] =
                       [@ EXCEPT !.pc = "replaceCsv", !.journal = Len(journals'),
                                 !.backupCsv = csv[Dataset(p)],
                                 !.backupManifest = manifest]]
         /\ UNCHANGED lock
         /\ journals' \in Seq(JournalType)
         /\ Len(journals') \in Nat /\ Len(journals') \in DOMAIN journals'
         /\ journals'[Len(journals')] = JournalEntry(p, "BACKUP_VERIFIED")
         /\ DOMAIN journals \subseteq DOMAIN journals'
         /\ \A i \in DOMAIN journals : journals'[i] = journals[i]
<1> DEFINE e == JournalEntry(p, "BACKUP_VERIFIED")
<1>1. journals \in Seq(JournalType) /\ csv \in Files /\ manifest \in Files
      /\ proc[p] \in ProcType /\ Dataset(p) \in Datasets
  BY ProcOf DEF TypeInv, TypeOK
<1>2. e \in JournalType
  BY <1>1 DEF JournalEntry, JournalType, ProcType, Files, Outcomes
<1>3. /\ journals' = Append(journals, e)
      /\ proc' = [proc EXCEPT ![p] =
                    [@ EXCEPT !.pc = "replaceCsv", !.journal = Len(journals'),
                              !.backupCsv = csv[Dataset(p)],
                              !.backupManifest = manifest]]
      /\ UNCHANGED lock
  BY DEF Backup
<1> HIDE DEF e
<1>4. /\ Len(journals) \in Nat /\ DOMAIN journals = 1..Len(journals)
      /\ journals' \in Seq(JournalType) /\ Len(journals') = Len(journals) + 1
      /\ \A i \in 1..Len(journals) : journals'[i] = journals[i]
      /\ journals'[Len(journals) + 1] = e
  BY <1>1, <1>2, <1>3, LenProperties, AppendProperties
<1>5. DOMAIN journals' = 1..Len(journals')
  BY <1>4, LenProperties
<1>6. /\ Len(journals') \in Nat /\ Len(journals') \in DOMAIN journals'
      /\ DOMAIN journals \subseteq DOMAIN journals'
      /\ \A i \in DOMAIN journals : journals'[i] = journals[i]
      /\ journals'[Len(journals')] = e
  BY <1>4, <1>5
<1> QED BY <1>1, <1>2, <1>3, <1>4, <1>6 DEF e

LEMMA PublishType ==
  ASSUME TypeInv, NEW p \in Updaters, PublishNext(p) \/ Killed(p)
  PROVE  TypeInv'
<1> DEFINE t == Dataset(p)
<1>1. /\ proc[p] \in ProcType /\ csv \in Files /\ manifest \in Files /\ t \in Datasets
      /\ journals \in Seq(JournalType) /\ temps \in SUBSET (Datasets \X SUBSET Nat)
      /\ status \in [Datasets -> Statuses]
      /\ lock \in BOOLEAN /\ damaged \in BOOLEAN /\ spent \in [{"runs", "trouble"} -> Nat]
      /\ csv["market"] \in Dates
      /\ proc[p].pc \in Publishing => proc[p].journal \in DOMAIN journals
  BY ProcOf DEF TypeInv, TypeOK
<1>2. p \in MarketUpdaters => DatesOf(proc[p]) /\ t = "market"
  BY ProcOf
<1>3. ASSUME Ends(p)
      PROVE  proc' = [proc EXCEPT ![p] = IdleProc] /\ lock' \in BOOLEAN
  BY <1>1, <1>3 DEF Ends
<1>4. ASSUME Ends(p), UNCHANGED <<formal, staging, twse, temps, damaged, spent>>,
             status' \in [Datasets -> Statuses],
             journals' = journals
      PROVE  TypeInv'
  BY <1>1, <1>3, <1>4, IdleType, QuietType DEF Publishing
<1>5. CASE Prepare(p)
  <2> DEFINE new == IF t = "daily" THEN proc[p].candidate ELSE csv[t] \union proc[p].candidate
             r == [proc[p] EXCEPT !.pc = "backup", !.new = new, !.preCsv = csv[t],
                                  !.newManifest = [manifest EXCEPT ![t] = new]]
  <2>1. /\ proc' = [proc EXCEPT ![p] = r]
        /\ UNCHANGED <<formal, staging, twse, journals, temps, status, lock, damaged, spent>>
    BY <1>5 DEF Prepare
  <2>2. new \in SUBSET Nat
    BY <1>1 DEF ProcType, Files
  <2>3. p \in MarketUpdaters => new \in Dates
    BY <1>1, <1>2 DEF DatesOf, Dates
  <2> HIDE DEF new
  <2>4. [manifest EXCEPT ![t] = new] \in Files /\ csv[t] \in SUBSET Nat
    BY <1>1, <2>2 DEF Files
  <2>5. r \in ProcType /\ r.pc = "backup" /\ r.new = new /\ r.candidate = proc[p].candidate
    BY <1>1, <2>2, <2>4 DEF ProcType
  <2> HIDE DEF r
  <2>6. /\ r.pc \notin Publishing
        /\ p \in MarketUpdaters => DatesOf(r)
    BY <1>2, <2>3, <2>5 DEF DatesOf, Publishing
  <2> QED BY <1>1, <2>1, <2>5, <2>6, QuietType
<1>6. CASE RefuseToPublish(p)
  <2>1. status' \in [Datasets -> Statuses]
    BY <1>1, <1>6, ReportType DEF RefuseToPublish, Statuses
  <2> QED BY <1>4, <1>6, <2>1 DEF RefuseToPublish
<1>7. CASE Backup(p)
  <2>1. CASE p \in MarketUpdaters /\ csv["market"] # proc[p].preCsv
    BY <1>1, <1>4, <1>7, <2>1 DEF Backup
  <2>2. CASE ~(p \in MarketUpdaters /\ csv["market"] # proc[p].preCsv)
    <3> DEFINE r == [proc[p] EXCEPT !.pc = "replaceCsv", !.journal = Len(journals'),
                                    !.backupCsv = csv[t], !.backupManifest = manifest]
    <3>1. /\ proc' = [proc EXCEPT ![p] = r] /\ UNCHANGED lock
          /\ journals' \in Seq(JournalType) /\ DOMAIN journals \subseteq DOMAIN journals'
          /\ Len(journals') \in Nat /\ Len(journals') \in DOMAIN journals'
      BY <1>7, <2>2, BackupStep
    <3>2. /\ UNCHANGED <<formal, staging, twse, temps, status, damaged, spent>>
          /\ proc[p].pc = "backup"
      BY <1>7 DEF Backup
    <3>3. csv[t] \in SUBSET Nat
      BY <1>1 DEF Files
    <3>4. /\ r \in ProcType /\ r.pc = "replaceCsv" /\ r.journal = Len(journals')
          /\ r.candidate = proc[p].candidate /\ r.new = proc[p].new /\ r.backupCsv = csv[t]
      BY <1>1, <3>1, <3>3 DEF ProcType, Publishing
    <3> HIDE DEF r
    <3>5. p \in MarketUpdaters => DatesOf(r)
      BY <1>1, <1>2, <3>2, <3>4 DEF DatesOf
    <3>6. csv' = csv /\ manifest' = manifest
      BY <3>2 DEF formal
    <3> QED BY <1>1, <3>1, <3>2, <3>4, <3>5, <3>6, StepType
  <2> QED BY <2>1, <2>2
<1>8. ASSUME NEW r \in ProcType, proc' = [proc EXCEPT ![p] = r],
             proc[p].pc \in Publishing, r.pc \in Publishing,
             r.journal = proc[p].journal, r.candidate = proc[p].candidate,
             r.new = proc[p].new, r.backupCsv = proc[p].backupCsv,
             csv' \in Files, csv'["market"] \in Dates, manifest' \in Files,
             UNCHANGED <<staging, twse, journals, temps, status, lock, damaged>>,
             spent' \in [{"runs", "trouble"} -> Nat]
      PROVE  TypeInv'
  <2>1. p \in MarketUpdaters => DatesOf(r)
    BY <1>2, <1>8 DEF DatesOf
  <2> QED BY <1>1, <1>8, <2>1, StepType
<1>9. ASSUME NEW days, days = proc[p].new \/ days = proc[p].backupCsv,
             proc[p].pc \in Publishing, csv' = [csv EXCEPT ![t] = days]
      PROVE  csv' \in Files /\ csv'["market"] \in Dates
  <2>1. days \in SUBSET Nat
    BY <1>1, <1>9 DEF ProcType
  <2>2. csv' \in Files
    BY <1>1, <1>9, <2>1 DEF Files
  <2>3. csv'["market"] = IF t = "market" THEN days ELSE csv["market"]
    BY <1>1, <1>9 DEF Files, Datasets
  <2>4. t = "market" => days \in Dates
    <3>1. t = "market" => p \in MarketUpdaters
      BY ProcOf
    <3> QED BY <1>2, <1>9, <3>1 DEF DatesOf
  <2> QED BY <1>1, <2>2, <2>3, <2>4
<1>10. ASSUME NEW pc \in Publishing
       PROVE  /\ Goto(p, pc) \in ProcType
              /\ Goto(p, pc).pc \in Publishing
              /\ Goto(p, pc).journal = proc[p].journal
              /\ Goto(p, pc).candidate = proc[p].candidate
              /\ Goto(p, pc).new = proc[p].new
              /\ Goto(p, pc).backupCsv = proc[p].backupCsv
  BY <1>10, GotoType
<1>11. CASE ReplaceCsv(p)
  <2>1. proc[p].pc \in Publishing /\ UNCHANGED <<manifest, staging, twse, journals, temps, status, lock, damaged, spent>>
    BY <1>11 DEF ReplaceCsv, Publishing
  <2>2. csv' \in Files /\ csv'["market"] \in Dates
    BY <1>1, <1>9, <1>11, <2>1 DEF ReplaceCsv
  <2>3. \E pc \in Publishing : proc' = [proc EXCEPT ![p] = Goto(p, pc)]
    BY <1>11 DEF ReplaceCsv, Publishing
  <2> QED BY <1>1, <1>8, <1>10, <2>1, <2>2, <2>3
<1>12. CASE ReplaceManifest(p)
  <2>1. /\ proc[p].pc \in Publishing /\ manifest' = proc[p].newManifest
        /\ UNCHANGED <<csv, staging, twse, journals, temps, status, lock, damaged, spent>>
        /\ proc' = [proc EXCEPT ![p] = Goto(p, "verify")]
        /\ "verify" \in Publishing
    BY <1>12 DEF ReplaceManifest, Publishing
  <2>2. manifest' \in Files
    BY <1>1, <2>1 DEF ProcType
  <2> QED BY <1>1, <1>8, <1>10, <2>1, <2>2
<1>13. CASE Verify(p)
  <2>1. CASE csv[t] = proc[p].new /\ manifest[t] = proc[p].new
    <3>1. /\ Settled(p, "PUBLISHED") /\ Report(p, "UPDATED") /\ Ends(p)
          /\ proc[p].pc \in Publishing
          /\ UNCHANGED <<formal, staging, twse, temps, damaged, spent>>
      BY <1>13, <2>1 DEF Verify, Publishing
    <3>2. journals' \in Seq(JournalType) /\ DOMAIN journals \subseteq DOMAIN journals'
      BY <3>1, SettledType DEF Outcomes
    <3>3. status' \in [Datasets -> Statuses]
      BY <3>1, ReportType DEF Statuses
    <3>4. csv' = csv /\ manifest' = manifest
      BY <3>1 DEF formal
    <3> QED BY <1>1, <1>3, <3>1, <3>2, <3>3, <3>4, IdleType, StepType DEF Publishing
  <2>2. CASE ~(csv[t] = proc[p].new /\ manifest[t] = proc[p].new)
    <3>1. /\ proc' = [proc EXCEPT ![p] = Goto(p, "restoreCsv")]
          /\ proc[p].pc \in Publishing /\ "restoreCsv" \in Publishing
          /\ UNCHANGED <<formal, staging, twse, journals, temps, status, lock, damaged, spent>>
      BY <1>13, <2>2 DEF Verify, Publishing
    <3> QED BY <1>1, <1>8, <1>10, <3>1 DEF formal
  <2> QED BY <2>1, <2>2
<1>14. CASE Raises(p)
  <2>1. /\ proc' = [proc EXCEPT ![p] = Goto(p, "restoreCsv")]
        /\ proc[p].pc \in Publishing /\ "restoreCsv" \in Publishing
        /\ UNCHANGED <<formal, staging, twse, journals, temps, status, lock, damaged>>
        /\ Trouble
    BY <1>14 DEF Raises, Publishing
  <2> QED BY <1>1, <1>8, <1>10, <2>1, TroubleType DEF formal
<1>15. CASE RestoreCsv(p)
  <2>1. /\ proc[p].pc \in Publishing /\ "restoreManifest" \in Publishing
        /\ UNCHANGED <<manifest, staging, twse, journals, temps, status, lock, damaged>>
    BY <1>15 DEF RestoreCsv, Publishing
  <2>2. spent' \in [{"runs", "trouble"} -> Nat]
    BY <1>1, <1>15, TroubleType DEF RestoreCsv
  <2>3. csv' \in Files /\ csv'["market"] \in Dates
    BY <1>1, <1>9, <1>15, <2>1 DEF RestoreCsv
  <2>4. CASE proc' = [proc EXCEPT ![p] = Goto(p, "restoreManifest")]
    BY <1>1, <1>8, <1>10, <2>1, <2>2, <2>3, <2>4
  <2>5. CASE proc' = [proc EXCEPT ![p] = [@ EXCEPT !.pc = "restoreManifest", !.failed = TRUE]]
    <3> DEFINE r == [proc[p] EXCEPT !.pc = "restoreManifest", !.failed = TRUE]
    <3>1. /\ r \in ProcType /\ r.pc = "restoreManifest" /\ r.journal = proc[p].journal
          /\ r.candidate = proc[p].candidate /\ r.new = proc[p].new
          /\ r.backupCsv = proc[p].backupCsv
      BY <1>1, <2>1 DEF ProcType
    <3>2. proc' = [proc EXCEPT ![p] = r]
      BY <2>5
    <3> HIDE DEF r
    <3> QED BY <1>1, <1>8, <2>1, <2>2, <2>3, <3>1, <3>2
  <2> QED BY <1>15, <2>4, <2>5 DEF RestoreCsv
<1>16. CASE RestoreManifest(p)
  <2>1. /\ proc[p].pc \in Publishing /\ "settle" \in Publishing
        /\ UNCHANGED <<csv, staging, twse, journals, temps, status, lock, damaged>>
        /\ manifest' = proc[p].backupManifest \/ manifest' = manifest
    BY <1>16 DEF RestoreManifest, Publishing
  <2>2. spent' \in [{"runs", "trouble"} -> Nat]
    BY <1>1, <1>16, TroubleType DEF RestoreManifest
  <2>3. manifest' \in Files
    BY <1>1, <2>1 DEF ProcType
  <2>4. CASE proc' = [proc EXCEPT ![p] = Goto(p, "settle")]
    BY <1>1, <1>8, <1>10, <2>1, <2>2, <2>3, <2>4
  <2>5. CASE proc' = [proc EXCEPT ![p] = [@ EXCEPT !.pc = "settle", !.failed = TRUE]]
    <3> DEFINE r == [proc[p] EXCEPT !.pc = "settle", !.failed = TRUE]
    <3>1. /\ r \in ProcType /\ r.pc = "settle" /\ r.journal = proc[p].journal
          /\ r.candidate = proc[p].candidate /\ r.new = proc[p].new
          /\ r.backupCsv = proc[p].backupCsv
      BY <1>1, <2>1 DEF ProcType
    <3>2. proc' = [proc EXCEPT ![p] = r]
      BY <2>5
    <3> HIDE DEF r
    <3> QED BY <1>1, <1>8, <2>1, <2>2, <2>3, <3>1, <3>2
  <2> QED BY <1>16, <2>4, <2>5 DEF RestoreManifest
<1>17. CASE Settle(p)
  <2>1. /\ \E outcome \in {"ROLLED_BACK", "ROLLBACK_FAILED"} : Settled(p, outcome)
        /\ Ends(p) /\ damaged' \in BOOLEAN /\ proc[p].pc \in Publishing
        /\ UNCHANGED <<formal, staging, twse, temps, status, spent>>
    BY <1>1, <1>17 DEF Settle, Publishing
  <2>2. journals' \in Seq(JournalType) /\ DOMAIN journals \subseteq DOMAIN journals'
    BY <2>1, SettledType DEF Outcomes
  <2>3. csv' = csv /\ manifest' = manifest
    BY <2>1 DEF formal
  <2> QED BY <1>1, <1>3, <2>1, <2>2, <2>3, IdleType, StepType DEF Publishing
<1>18. CASE Killed(p)
  <2>1. /\ proc' = [proc EXCEPT ![p] = IdleProc] /\ Trouble
        /\ damaged' \in BOOLEAN
        /\ UNCHANGED <<formal, staging, twse, journals, status, lock>>
    BY <1>1, <1>18 DEF Killed
  <2>2. temps' \in SUBSET (Datasets \X SUBSET Nat)
    <3>1. Leftover(p) \subseteq Datasets \X SUBSET Nat
      BY <1>1 DEF Leftover, ProcType
    <3>2. PICK left \in SUBSET Leftover(p) : temps' = temps \union left
      BY <1>18 DEF Killed
    <3> QED BY <1>1, <3>1, <3>2
  <2>3. csv' = csv /\ manifest' = manifest
    BY <2>1 DEF formal
  <2> QED BY <1>1, <2>1, <2>2, <2>3, TroubleType, IdleType, StepType DEF Publishing
<1> QED BY <1>5, <1>6, <1>7, <1>11, <1>12, <1>13, <1>14, <1>15, <1>16, <1>17, <1>18
        DEF PublishNext

LEMMA TypeStep ==
  ASSUME TypeInv, [Next]_vars
  PROVE  TypeInv'
<1>1. CASE TwsePublishes
  <2>1. /\ twse' = twse \union {NextDay} /\ TradingDays \ twse # {}
        /\ UNCHANGED <<csv, manifest, candidates, borrowed, journals, temps, status, lock, proc,
                       damaged, spent>>
    BY <1>1 DEF TwsePublishes, formal, staging
  <2>2. NextDay \in TradingDays
    BY <2>1, NextDayTrades
  <2>3. twse' \subseteq TradingDays /\ twse' \in SUBSET Nat
    BY <2>1, <2>2, DaysAssumption DEF TypeInv
  <2> QED BY <2>1, <2>3 DEF TypeInv, TypeOK, DatesOf
<1>2. CASE UNCHANGED vars
  BY <1>2 DEF vars, TypeInv, TypeOK, DatesOf
<1>3. ASSUME NEW p \in Updaters, UpdaterNext(p) \/ PublishNext(p) \/ Killed(p)
      PROVE  TypeInv'
  BY <1>3, UpdaterType, PublishType
<1> QED BY <1>1, <1>2, <1>3 DEF Next

\* The types of the variables, however the updaters overlap: files are sets of dates,
\* and whoever is between publish_*'s first replacement and its end has a journal.
THEOREM TypeCorrect == Spec => []TypeOK
<1>1. TypeInv => TypeOK
  BY DEF TypeInv
<1> QED BY <1>1, InitType, TypeStep, PTL DEF Spec

(***************************************************************************)
(* One updater after the other                                             *)
(***************************************************************************)
OneAtATime ==
  \A p, q \in Updaters : proc[p].pc # "idle" /\ proc[q].pc # "idle" => p = q

\* With these days in its formal file market dates keep their prices.
Fits(p, days) ==
  IF p \in DailyUpdaters THEN csv["market"] \subseteq days \union borrowed
                         ELSE days \subseteq csv["daily"] \union borrowed

\* Between backup and end of a publish with record r: the formal pair is the old or
\* the new one in each half, the rest of the manifest is untouched, and the journal
\* says so.
Critical(p, r) ==
  LET t == Dataset(p)
      j == journals[r.journal]
  IN /\ Fits(p, r.new) /\ Fits(p, r.backupCsv)
     /\ r.preCsv = r.backupCsv
     /\ r.backupManifest[t] = r.backupCsv
     /\ r.newManifest = [r.backupManifest EXCEPT ![t] = r.new]
     /\ csv[t] \in {r.backupCsv, r.new}
     /\ manifest \in {r.backupManifest, r.newManifest}
     /\ j.dataset = t /\ j.outcome = "BACKUP_VERIFIED"
     /\ j.csv = r.backupCsv /\ j.manifest = r.backupManifest /\ j.new = r.new

\* What updater p has read is still so, and what it is about to write fits.
Work(p, r) ==
  LET t == Dataset(p)
  IN /\ r.pc \in {"lock", "fetch"} =>
          r.rows = csv[t] /\ r.price = csv["daily"] /\ r.anchor = Last(csv["market"])
     /\ r.pc = "publish" => Fits(p, r.candidate)
     /\ r.pc = "backup" => /\ Fits(p, r.new)
                           /\ r.preCsv = csv[t] /\ manifest[t] = csv[t]
                           /\ r.newManifest = [manifest EXCEPT ![t] = r.new]
     /\ r.pc \in Publishing => Critical(p, r)

TornInv ==
  \A t \in Datasets :
    csv[t] # manifest[t] => \E i \in DOMAIN journals : Evidence(t, journals[i])

SerialInv ==
  /\ OneAtATime
  /\ \A p \in Updaters : Work(p, proc[p])
  /\ MarketWithinDaily
  /\ TornInv

Inv == TypeInv /\ SerialInv

LEMMA InitSerial == Init => SerialInv
<1> SUFFICES ASSUME Init PROVE SerialInv
  OBVIOUS
<1>1. \A p \in Updaters : proc[p].pc = "idle"
  BY IdleType DEF Init
<1>2. OneAtATime /\ \A p \in Updaters : Work(p, proc[p])
  BY <1>1 DEF OneAtATime, Work, Publishing
<1>3. csv["market"] \subseteq csv["daily"] \union borrowed /\ manifest = csv
  BY DEF Init, Datasets
<1> QED BY <1>2, <1>3 DEF SerialInv, MarketWithinDaily, TornInv

\* Beside a process at work all others are idle.
LEMMA OthersIdle ==
  ASSUME Serial, Inv, NEW p \in Updaters, UpdaterNext(p) \/ PublishNext(p) \/ Killed(p)
  PROVE  \A q \in Updaters : q # p => proc[q].pc = "idle"
<1>1. CASE Start(p)
  BY <1>1 DEF Start
<1>2. CASE ~Start(p)
  <2>1. proc[p].pc # "idle"
    BY <1>2 DEF UpdaterNext, AcquireLock, LockBusy, TakeStaleLock, FetchDaily, FetchMarket,
       FetchFails, PublishNext, Prepare, RefuseToPublish, Backup, ReplaceCsv,
       ReplaceManifest, Verify, Raises, RestoreCsv, RestoreManifest, Settle, Killed
  <2> QED BY <2>1 DEF Inv, SerialInv, OneAtATime
<1> QED BY <1>1, <1>2

\* A step of one process beside idle ones.
LEMMA SerialStep ==
  ASSUME Inv, NEW p \in Updaters, NEW r, proc' = [proc EXCEPT ![p] = r],
         \A q \in Updaters : q # p => proc[q].pc = "idle",
         proc'[p] = r => Work(p, proc[p])',
         MarketWithinDaily', TornInv'
  PROVE  SerialInv'
<1>1. \A q \in Updaters : proc'[q] = IF q = p THEN r ELSE proc[q]
  BY DEF Inv, TypeInv, TypeOK
<1>2. OneAtATime'
  BY <1>1 DEF OneAtATime
<1>3. ASSUME NEW q \in Updaters PROVE Work(q, proc[q])'
  <2>1. CASE q = p
    BY <1>1, <2>1
  <2>2. CASE q # p
    <3>1. proc'[q].pc = "idle"
      BY <1>1, <2>2
    <3> QED BY <3>1 DEF Work, Publishing
  <2> QED BY <2>1, <2>2
<1> QED BY <1>2, <1>3 DEF SerialInv

\* A step that touches neither the formal files nor the journals.
LEMMA QuietSerial ==
  ASSUME Inv, NEW p \in Updaters, NEW r, proc' = [proc EXCEPT ![p] = r],
         \A q \in Updaters : q # p => proc[q].pc = "idle",
         UNCHANGED <<csv, manifest, borrowed, journals>>,
         Work(p, r)
  PROVE  SerialInv'
<1>1. MarketWithinDaily' /\ TornInv'
  BY DEF Inv, SerialInv, MarketWithinDaily, TornInv, Evidence
<1>2. ASSUME proc'[p] = r PROVE Work(p, proc[p])'
  BY <1>2 DEF Work, Critical, Fits
<1> QED BY <1>1, <1>2, SerialStep

\* A process that is idle need know nothing.
LEMMA IdleWork == ASSUME NEW p PROVE Work(p, IdleProc)
BY IdleType DEF Work, Publishing

LEMMA UpdaterSerial ==
  ASSUME Serial, Inv, NEW p \in Updaters, UpdaterNext(p)
  PROVE  SerialInv'
<1>1. /\ UNCHANGED <<csv, manifest, journals>>
      /\ ~FetchMarket(p) => UNCHANGED borrowed
      /\ \A q \in Updaters : q # p => proc[q].pc = "idle"
  <2>1. UNCHANGED <<csv, manifest, journals>>
    BY DEF UpdaterNext, Start, AcquireLock, LockBusy, TakeStaleLock, FetchDaily, FetchMarket,
       FetchFails, formal
  <2>2. ~FetchMarket(p) => UNCHANGED borrowed
    BY DEF UpdaterNext, Start, AcquireLock, LockBusy, TakeStaleLock, FetchDaily,
       FetchFails, staging
  <2> QED BY <2>1, <2>2, OthersIdle
<1>2. /\ proc[p] \in ProcType /\ Work(p, proc[p]) /\ TypeInv
      /\ csv["market"] \subseteq csv["daily"] \union borrowed /\ csv["market"] \in Dates
  BY ProcOf DEF Inv, SerialInv, TypeInv, MarketWithinDaily
<1>3. ASSUME proc' = [proc EXCEPT ![p] = IdleProc], UNCHANGED borrowed PROVE SerialInv'
  BY <1>1, <1>3, IdleWork, QuietSerial
<1>4. ASSUME Ends(p), UNCHANGED borrowed PROVE SerialInv'
  BY <1>3, <1>4 DEF Ends
<1>5. CASE Start(p)
  <2>0. PICK overlay :
          proc' = [proc EXCEPT ![p] =
                     [IdleProc EXCEPT !.pc = IF p \in MarketUpdaters THEN "lock" ELSE "fetch",
                                      !.rows = csv[Dataset(p)],
                                      !.price = csv["daily"],
                                      !.overlay = overlay,
                                      !.anchor = Last(csv["market"])]]
    BY <1>5 DEF Start
  <2> DEFINE r == [IdleProc EXCEPT !.pc = IF p \in MarketUpdaters THEN "lock" ELSE "fetch",
                                   !.rows = csv[Dataset(p)],
                                   !.price = csv["daily"],
                                   !.overlay = overlay,
                                   !.anchor = Last(csv["market"])]
  <2>1. proc' = [proc EXCEPT ![p] = r] /\ UNCHANGED borrowed
    BY <1>5, <2>0 DEF Start, staging
  <2>2. /\ r.pc \in {"lock", "fetch"} /\ r.rows = csv[Dataset(p)]
        /\ r.price = csv["daily"] /\ r.anchor = Last(csv["market"])
    BY DEF IdleProc
  <2> HIDE DEF r
  <2>3. Work(p, r)
    BY <2>2 DEF Work, Publishing
  <2> QED BY <1>1, <2>1, <2>3, QuietSerial
<1>6. CASE AcquireLock(p) \/ TakeStaleLock(p)
  <2>1. /\ proc' = [proc EXCEPT ![p] = Goto(p, "fetch")] /\ proc[p].pc = "lock"
        /\ UNCHANGED borrowed
    BY <1>6 DEF AcquireLock, TakeStaleLock, staging
  <2>2. /\ Goto(p, "fetch").pc = "fetch"
        /\ Goto(p, "fetch").rows = proc[p].rows
        /\ Goto(p, "fetch").price = proc[p].price
        /\ Goto(p, "fetch").anchor = proc[p].anchor
    BY <1>2, GotoType
  <2>3. Work(p, Goto(p, "fetch"))
    BY <1>2, <2>1, <2>2 DEF Work, Publishing
  <2> QED BY <1>1, <2>1, <2>3, QuietSerial
<1>7. ASSUME NEW candidate, Fits(p, candidate), UNCHANGED borrowed,
             proc' = [proc EXCEPT ![p] =
                        [@ EXCEPT !.pc = "publish", !.candidate = candidate]]
      PROVE  SerialInv'
  <2> DEFINE r == [proc[p] EXCEPT !.pc = "publish", !.candidate = candidate]
  <2>1. r.pc = "publish" /\ r.candidate = candidate
    BY <1>2 DEF ProcType
  <2>2. proc' = [proc EXCEPT ![p] = r]
    BY <1>7
  <2> HIDE DEF r
  <2>3. Work(p, r)
    BY <1>7, <2>1 DEF Work, Publishing
  <2> QED BY <1>1, <1>7, <2>2, <2>3, QuietSerial
<1>8. CASE LockBusy(p)
  BY <1>3, <1>8 DEF LockBusy, staging
<1>9. CASE FetchFails(p)
  BY <1>4, <1>9 DEF FetchFails, staging
<1>10. ASSUME NEW dry \in BOOLEAN, FetchDaily(p, dry) PROVE SerialInv'
  <2>1. p \in DailyUpdaters /\ Dataset(p) = "daily" /\ proc[p].pc = "fetch"
    BY <1>2, <1>10, ProcOf DEF FetchDaily
  <2>2. Fits(p, Reconciled(p))
    <3>1. proc[p].rows = csv["daily"] /\ proc[p].anchor = Last(csv["market"])
      BY <1>2, <2>1 DEF Work
    <3>2. \A d \in csv["market"] : d <= Last(csv["market"])
      BY <1>2, LastIsLast
    <3> QED BY <1>2, <2>1, <3>1, <3>2 DEF Fits, Reconciled
  <2>3. /\ UNCHANGED borrowed
        /\ Ends(p) \/ proc' = [proc EXCEPT ![p] =
                                 [@ EXCEPT !.pc = "publish", !.candidate = Reconciled(p)]]
    BY <1>10 DEF FetchDaily
  <2> QED BY <1>4, <1>7, <2>2, <2>3
<1>11. CASE FetchMarket(p)
  <2>0. PICK new : new = twse \ proc[p].rows
    OBVIOUS
  <2>1. /\ p \notin DailyUpdaters /\ proc[p].pc = "fetch"
        /\ Dataset(p) = "market" /\ Dataset(p) \in Datasets
    BY <1>2, <1>11, UpdatersAssumption DEF FetchMarket, Dataset, Datasets
  <2>2. proc[p].price = csv["daily"] /\ proc[p].rows = csv["market"]
    BY <1>2, <2>1 DEF Work
  <2>3. CASE Ends(p) /\ UNCHANGED borrowed
    BY <1>4, <2>3
  <2>4. CASE /\ Priced(p, new)
             /\ proc' = [proc EXCEPT ![p] = [@ EXCEPT !.pc = "publish", !.candidate = new]]
             /\ borrowed' = (borrowed \ new) \union
                            ((new \intersect proc[p].overlay) \ proc[p].price)
    <3>1. new \intersect csv["market"] = {}
      BY <2>0, <2>2
    <3>2. PICK r : r = [proc[p] EXCEPT !.pc = "publish", !.candidate = new]
      OBVIOUS
    <3>3. r.pc = "publish" /\ r.candidate = new /\ proc' = [proc EXCEPT ![p] = r]
      BY <1>2, <2>4, <3>2 DEF ProcType
    <3>4. new \subseteq csv["daily"] \union borrowed'
      BY <2>2, <2>4 DEF Priced
    <3>5. MarketWithinDaily'
      BY <1>1, <1>2, <2>4, <3>1 DEF MarketWithinDaily
    <3>6. TornInv'
      BY <1>1 DEF Inv, SerialInv, TornInv, Evidence
    <3>7. Fits(p, new)'
      BY <1>1, <2>1, <3>4 DEF Fits
    <3>8. ASSUME proc'[p] = r PROVE Work(p, proc[p])'
      BY <3>3, <3>7, <3>8 DEF Work, Publishing, Fits
    <3> QED BY <1>1, <3>3, <3>5, <3>6, <3>8, SerialStep
  <2> QED BY <1>11, <2>0, <2>3, <2>4 DEF FetchMarket
<1> QED BY <1>5, <1>6, <1>8, <1>9, <1>10, <1>11 DEF UpdaterNext

\* What is known inside a publish.
LEMMA InsideFacts ==
  ASSUME Inv, NEW p \in Updaters, proc[p].pc \in Publishing
  PROVE  /\ Critical(p, proc[p])
         /\ proc[p] \in ProcType /\ csv \in Files /\ manifest \in Files
         /\ Dataset(p) \in Datasets
         /\ proc[p].journal \in DOMAIN journals
         /\ \A u \in Datasets : u # Dataset(p) => manifest[u] = proc[p].backupManifest[u]
         /\ manifest[Dataset(p)] \in {proc[p].backupCsv, proc[p].new}
<1>1. /\ Critical(p, proc[p])
      /\ proc[p] \in ProcType /\ csv \in Files /\ manifest \in Files
      /\ Dataset(p) \in Datasets
      /\ proc[p].journal \in DOMAIN journals
  BY ProcOf DEF Inv, SerialInv, Work, TypeInv, TypeOK
<1>2. proc[p].backupManifest \in Files
  BY <1>1 DEF ProcType
<1> QED BY <1>1, <1>2 DEF Critical, Files

\* A step inside a publish leaves the formal pair between its old and its new one.
LEMMA InsideSerial ==
  ASSUME Inv, NEW p \in Updaters, NEW r \in ProcType, proc' = [proc EXCEPT ![p] = r],
         \A q \in Updaters : q # p => proc[q].pc = "idle",
         proc[p].pc \in Publishing, r.pc \in Publishing,
         r.journal = proc[p].journal, r.new = proc[p].new,
         r.newManifest = proc[p].newManifest, r.preCsv = proc[p].preCsv,
         r.backupCsv = proc[p].backupCsv, r.backupManifest = proc[p].backupManifest,
         \/ csv' = csv
         \/ csv' = [csv EXCEPT ![Dataset(p)] = r.new]
         \/ csv' = [csv EXCEPT ![Dataset(p)] = r.backupCsv],
         manifest' \in {manifest, r.newManifest, r.backupManifest},
         UNCHANGED <<borrowed, journals>>
  PROVE  SerialInv'
<1> DEFINE t == Dataset(p)
<1>0. PICK i : i = proc[p].journal
  OBVIOUS
<1>1. /\ Critical(p, proc[p]) /\ csv \in Files /\ t \in Datasets /\ i \in DOMAIN journals
      /\ r.newManifest \in Files /\ r.backupManifest \in Files
      /\ \A u \in Datasets : u # t => manifest[u] = r.backupManifest[u]
  BY <1>0, InsideFacts DEF ProcType
<1>2. /\ Fits(p, r.new) /\ Fits(p, r.backupCsv)
      /\ r.preCsv = r.backupCsv /\ r.backupManifest[t] = r.backupCsv
      /\ r.newManifest = [r.backupManifest EXCEPT ![t] = r.new]
      /\ csv[t] \in {r.backupCsv, r.new}
      /\ manifest \in {r.backupManifest, r.newManifest}
      /\ journals[i].dataset = t /\ journals[i].outcome = "BACKUP_VERIFIED"
      /\ journals[i].csv = r.backupCsv /\ journals[i].manifest = r.backupManifest
      /\ journals[i].new = r.new
  BY <1>0, <1>1 DEF Critical
<1>3. /\ csv'[t] \in {r.backupCsv, r.new}
      /\ \A u \in Datasets : u # t => csv'[u] = csv[u]
  BY <1>1, <1>2 DEF Files
<1>4. manifest' \in {r.backupManifest, r.newManifest}
  BY <1>2
<1>5. /\ manifest'[t] \in {r.backupCsv, r.new}
      /\ \A u \in Datasets : u # t => manifest'[u] = r.backupManifest[u]
  BY <1>1, <1>2, <1>4 DEF Files
<1>6. \/ p \in DailyUpdaters /\ t = "daily"
      \/ p \notin DailyUpdaters /\ t = "market"
  BY DEF Dataset
<1>7. Fits(p, r.new)' /\ Fits(p, r.backupCsv)'
  BY <1>2, <1>3, <1>6 DEF Fits, Datasets
<1>8. MarketWithinDaily'
  BY <1>2, <1>3, <1>6 DEF Fits, Datasets, MarketWithinDaily
<1> HIDE DEF t
<1>9. TornInv'
  <2>1. SUFFICES ASSUME NEW u \in Datasets, csv'[u] # manifest'[u]
                 PROVE  \E k \in DOMAIN journals : Evidence(u, journals[k])'
    BY DEF TornInv
  <2>2. CASE u = t
    <3>1. Evidence(u, journals[i])'
      BY <1>2, <1>3, <1>5, <2>2 DEF Evidence
    <3> QED BY <1>1, <3>1
  <2>3. CASE u # t
    <3>1. csv'[u] = csv[u] /\ manifest'[u] = manifest[u]
      BY <1>1, <1>3, <1>5, <2>3
    <3>2. PICK k \in DOMAIN journals : Evidence(u, journals[k])
      BY <2>1, <3>1 DEF Inv, SerialInv, TornInv
    <3>3. Evidence(u, journals[k])'
      BY <3>1, <3>2 DEF Evidence
    <3> QED BY <3>3
  <2> QED BY <2>2, <2>3
<1>10. ASSUME proc'[p] = r PROVE Work(p, proc[p])'
  <2>1. Dataset(p)' = t
    BY DEF Dataset, t
  <2>2. proc'[p].journal = i
    BY <1>0, <1>10
  <2>3. Critical(p, proc[p])'
    BY <1>2, <1>3, <1>4, <1>7, <1>10, <2>1, <2>2 DEF Critical, Fits
  <2> QED BY <1>10, <2>3 DEF Work, Publishing
<1> QED BY <1>8, <1>9, <1>10, SerialStep

\* So may a publish end: with an outcome in its journal, or killed.
LEMMA LeaveSerial ==
  ASSUME Inv, NEW p \in Updaters, proc[p].pc \in Publishing,
         proc' = [proc EXCEPT ![p] = IdleProc],
         \A q \in Updaters : q # p => proc[q].pc = "idle",
         UNCHANGED <<csv, manifest, borrowed>>,
         NEW outcome \in Outcomes, Settled(p, outcome) \/ UNCHANGED journals,
         outcome = "PUBLISHED" => csv[Dataset(p)] = manifest[Dataset(p)]
  PROVE  SerialInv'
<1> DEFINE t == Dataset(p)
<1>0. PICK i : i = proc[p].journal
  OBVIOUS
<1>1. /\ Critical(p, proc[p]) /\ t \in Datasets /\ i \in DOMAIN journals
      /\ manifest[t] \in {proc[p].backupCsv, proc[p].new}
      /\ journals[i] \in JournalType
  BY <1>0, InsideFacts, ElementOfSeq, LenProperties DEF Inv, TypeInv, TypeOK
<1>2. /\ journals[i].dataset = t
      /\ Evidence(t, journals[i])
  BY <1>0, <1>1 DEF Critical, Evidence
<1>3. MarketWithinDaily'
  BY DEF Inv, SerialInv, MarketWithinDaily
<1>4. TornInv'
  <2>1. SUFFICES ASSUME NEW u \in Datasets, csv[u] # manifest[u]
                 PROVE  \E k \in DOMAIN journals' : Evidence(u, journals[k])'
    BY DEF TornInv
  <2>2. PICK k \in DOMAIN journals : Evidence(u, journals[k])
    BY <2>1 DEF Inv, SerialInv, TornInv
  <2>3. CASE UNCHANGED journals
    BY <2>2, <2>3 DEF Evidence
  <2>4. CASE Settled(p, outcome)
    <3>1. /\ DOMAIN journals' = DOMAIN journals
          /\ journals'[i] = [journals[i] EXCEPT !.outcome = outcome]
          /\ \A m \in DOMAIN journals : m # i => journals'[m] = journals[m]
      BY <1>0, <2>4, SettledType DEF Inv
    <3>2. CASE u = t
      <4>1. /\ journals'[i].outcome # "PUBLISHED" /\ journals'[i].dataset = t
            /\ journals'[i].csv = journals[i].csv /\ journals'[i].new = journals[i].new
            /\ journals'[i].manifest = journals[i].manifest
        BY <1>1, <1>2, <2>1, <3>1, <3>2 DEF JournalType
      <4>2. Evidence(u, journals[i])'
        BY <1>2, <3>2, <4>1 DEF Evidence
      <4> QED BY <1>1, <3>1, <4>2
    <3>3. CASE u # t
      <4>1. k # i
        BY <1>2, <2>2, <3>3 DEF Evidence
      <4>2. Evidence(u, journals[k])'
        BY <2>2, <3>1, <4>1 DEF Evidence
      <4> QED BY <3>1, <4>2
    <3> QED BY <3>2, <3>3
  <2> QED BY <2>3, <2>4
<1>5. ASSUME proc'[p] = IdleProc PROVE Work(p, proc[p])'
  BY <1>5, IdleType DEF Work, Publishing
<1> QED BY <1>3, <1>4, <1>5, SerialStep

LEMMA PublishSerial ==
  ASSUME Serial, Inv, NEW p \in Updaters, PublishNext(p) \/ Killed(p)
  PROVE  SerialInv'
<1> DEFINE t == Dataset(p)
<1>1. /\ \A q \in Updaters : q # p => proc[q].pc = "idle"
      /\ proc[p] \in ProcType /\ t \in Datasets /\ csv \in Files /\ manifest \in Files
      /\ Work(p, proc[p]) /\ TypeInv
      /\ csv["market"] \subseteq csv["daily"] \union borrowed
      /\ UNCHANGED borrowed
  <2>1. UNCHANGED borrowed
    BY DEF PublishNext, Prepare, RefuseToPublish, Backup, ReplaceCsv, ReplaceManifest, Verify,
           Raises, RestoreCsv, RestoreManifest, Settle, Killed, staging
  <2> QED BY <2>1, OthersIdle, ProcOf DEF Inv, SerialInv, TypeInv, TypeOK, MarketWithinDaily
<1>2. ASSUME NEW r, proc' = [proc EXCEPT ![p] = r], Work(p, r),
             UNCHANGED <<csv, manifest, journals>>
      PROVE  SerialInv'
  BY <1>1, <1>2, QuietSerial
<1>3. CASE Prepare(p)
  <2> DEFINE new == IF t = "daily" THEN proc[p].candidate ELSE csv[t] \union proc[p].candidate
             r == [proc[p] EXCEPT !.pc = "backup", !.new = new, !.preCsv = csv[t],
                                  !.newManifest = [manifest EXCEPT ![t] = new]]
  <2>1. /\ proc' = [proc EXCEPT ![p] = r] /\ UNCHANGED <<csv, manifest, journals>>
        /\ proc[p].pc = "publish" /\ manifest[t] = csv[t]
    BY <1>3 DEF Prepare, MayPublish, formal
  <2>2. Fits(p, new)
    BY <1>1, <2>1 DEF Work, Fits, Dataset
  <2> HIDE DEF new
  <2>3. /\ r.pc = "backup" /\ r.new = new /\ r.preCsv = csv[t]
        /\ r.newManifest = [manifest EXCEPT ![t] = new]
    BY <1>1 DEF ProcType
  <2> HIDE DEF r
  <2>4. Work(p, r)
    BY <2>1, <2>2, <2>3 DEF Work, Publishing
  <2> QED BY <1>2, <2>1, <2>4
<1>4. CASE RefuseToPublish(p)
  BY <1>2, <1>4, IdleWork DEF RefuseToPublish, Ends, formal
<1>5. CASE Backup(p)
  <2>1. CASE p \in MarketUpdaters /\ csv["market"] # proc[p].preCsv
    BY <1>2, <1>5, <2>1, IdleWork DEF Backup, Ends, formal
  <2>2. CASE ~(p \in MarketUpdaters /\ csv["market"] # proc[p].preCsv)
    <3>1. PICK n : n = Len(journals')
      OBVIOUS
    <3>2. PICK r : r = [proc[p] EXCEPT !.pc = "replaceCsv", !.journal = n,
                                       !.backupCsv = csv[t], !.backupManifest = manifest]
      OBVIOUS
    <3>3. PICK e : e = JournalEntry(p, "BACKUP_VERIFIED")
      OBVIOUS
    <3>4. /\ proc' = [proc EXCEPT ![p] = r]
          /\ journals'[n] = e
          /\ DOMAIN journals \subseteq DOMAIN journals'
          /\ \A i \in DOMAIN journals : journals'[i] = journals[i]
      BY <1>1, <1>5, <2>2, <3>1, <3>2, <3>3, BackupStep
    <3>5. proc[p].pc = "backup" /\ csv' = csv /\ manifest' = manifest
      BY <1>5 DEF Backup, formal
    <3>6. /\ Fits(p, proc[p].new) /\ proc[p].preCsv = csv[t] /\ manifest[t] = csv[t]
          /\ proc[p].newManifest = [manifest EXCEPT ![t] = proc[p].new]
      BY <1>1, <3>5 DEF Work
    <3>7. Fits(p, csv[t])
      BY <1>1 DEF Fits, Dataset
    <3>8. /\ r.pc = "replaceCsv" /\ r.journal = n /\ r.new = proc[p].new
          /\ r.preCsv = proc[p].preCsv /\ r.newManifest = proc[p].newManifest
          /\ r.backupCsv = csv[t] /\ r.backupManifest = manifest
      BY <1>1, <3>2 DEF ProcType
    <3>9. /\ e.dataset = t /\ e.outcome = "BACKUP_VERIFIED" /\ e.csv = csv[t]
          /\ e.manifest = manifest /\ e.new = proc[p].new
      BY <3>3 DEF JournalEntry
    <3>10. ASSUME proc'[p] = r PROVE Work(p, proc[p])'
      <4>1. proc'[p].journal = n
        BY <3>8, <3>10
      <4>2. Critical(p, proc[p])'
        BY <1>1, <3>4, <3>5, <3>6, <3>7, <3>8, <3>9, <3>10, <4>1 DEF Critical, Fits, Dataset
      <4> QED BY <3>8, <3>10, <4>2 DEF Work, Publishing
    <3>11. MarketWithinDaily'
      BY <1>1, <3>5 DEF MarketWithinDaily
    <3>12. TornInv'
      <4>1. SUFFICES ASSUME NEW u \in Datasets, csv[u] # manifest[u]
                     PROVE  \E k \in DOMAIN journals' : Evidence(u, journals[k])'
        BY <3>5 DEF TornInv
      <4>2. PICK k \in DOMAIN journals : Evidence(u, journals[k])
        BY <4>1 DEF Inv, SerialInv, TornInv
      <4>3. Evidence(u, journals[k])'
        BY <3>4, <3>5, <4>2 DEF Evidence
      <4> QED BY <3>4, <4>3
    <3> QED BY <1>1, <3>4, <3>10, <3>11, <3>12, SerialStep
  <2> QED BY <2>1, <2>2
<1>6. ASSUME NEW r \in ProcType, proc' = [proc EXCEPT ![p] = r],
             proc[p].pc \in Publishing, r.pc \in Publishing,
             r.journal = proc[p].journal, r.new = proc[p].new,
             r.newManifest = proc[p].newManifest, r.preCsv = proc[p].preCsv,
             r.backupCsv = proc[p].backupCsv, r.backupManifest = proc[p].backupManifest,
             \/ csv' = csv
             \/ csv' = [csv EXCEPT ![t] = proc[p].new]
             \/ csv' = [csv EXCEPT ![t] = proc[p].backupCsv],
             manifest' \in {manifest, proc[p].newManifest, proc[p].backupManifest},
             UNCHANGED journals
      PROVE  SerialInv'
  BY <1>1, <1>6, InsideSerial
<1>7. ASSUME NEW pc \in Publishing
      PROVE  /\ Goto(p, pc) \in ProcType /\ Goto(p, pc).pc \in Publishing
             /\ Goto(p, pc).journal = proc[p].journal
             /\ Goto(p, pc).new = proc[p].new
             /\ Goto(p, pc).newManifest = proc[p].newManifest
             /\ Goto(p, pc).preCsv = proc[p].preCsv
             /\ Goto(p, pc).backupCsv = proc[p].backupCsv
             /\ Goto(p, pc).backupManifest = proc[p].backupManifest
  BY ZenonT(40), <1>1, <1>7, GotoType
<1>8. ASSUME NEW pc \in Publishing, proc' = [proc EXCEPT ![p] = [@ EXCEPT !.pc = pc, !.failed = TRUE]],
             proc[p].pc \in Publishing,
             \/ csv' = csv
             \/ csv' = [csv EXCEPT ![t] = proc[p].backupCsv],
             manifest' \in {manifest, proc[p].backupManifest},
             UNCHANGED journals
      PROVE  SerialInv'
  <2>1. PICK r : r = [proc[p] EXCEPT !.pc = pc, !.failed = TRUE]
    OBVIOUS
  <2>2. /\ r \in ProcType /\ r.pc = pc /\ r.journal = proc[p].journal
        /\ r.new = proc[p].new /\ r.newManifest = proc[p].newManifest
        /\ r.preCsv = proc[p].preCsv /\ r.backupCsv = proc[p].backupCsv
        /\ r.backupManifest = proc[p].backupManifest
    BY <1>1, <2>1, <1>8 DEF ProcType
  <2>3. proc' = [proc EXCEPT ![p] = r]
    BY <1>8, <2>1
  <2> QED BY <1>6, <1>8, <2>2, <2>3
<1>9. CASE ReplaceCsv(p)
  <2>1. /\ proc[p].pc \in Publishing /\ UNCHANGED <<manifest, journals>>
        /\ csv' = csv \/ csv' = [csv EXCEPT ![t] = proc[p].new]
        /\ \E pc \in Publishing : proc' = [proc EXCEPT ![p] = Goto(p, pc)]
    BY <1>9 DEF ReplaceCsv, Publishing
  <2> QED BY <1>6, <1>7, <2>1
<1>10. CASE ReplaceManifest(p)
  <2>1. /\ proc[p].pc \in Publishing /\ UNCHANGED <<csv, journals>>
        /\ manifest' = proc[p].newManifest
        /\ \E pc \in Publishing : proc' = [proc EXCEPT ![p] = Goto(p, pc)]
    BY <1>10 DEF ReplaceManifest, Publishing
  <2> QED BY <1>6, <1>7, <2>1
<1>11. CASE Raises(p) \/ (Verify(p) /\ ~(csv[t] = proc[p].new /\ manifest[t] = proc[p].new))
  <2>1. /\ proc[p].pc \in Publishing /\ UNCHANGED <<csv, manifest, journals>>
        /\ \E pc \in Publishing : proc' = [proc EXCEPT ![p] = Goto(p, pc)]
    BY <1>11 DEF Raises, Verify, Publishing, formal
  <2> QED BY <1>6, <1>7, <2>1
<1>12. CASE Verify(p) /\ csv[t] = proc[p].new /\ manifest[t] = proc[p].new
  <2>1. /\ proc[p].pc \in Publishing /\ UNCHANGED <<csv, manifest>>
        /\ csv[t] = manifest[t]
        /\ Settled(p, "PUBLISHED") /\ proc' = [proc EXCEPT ![p] = IdleProc]
    BY <1>12 DEF Verify, Publishing, formal, Ends
  <2>2. "PUBLISHED" \in Outcomes
    BY DEF Outcomes
  <2> QED BY <1>1, <2>1, <2>2, LeaveSerial
<1>13. CASE RestoreCsv(p)
  <2>1. /\ proc[p].pc \in Publishing /\ UNCHANGED <<manifest, journals>>
        /\ csv' = csv \/ csv' = [csv EXCEPT ![t] = proc[p].backupCsv]
        /\ "restoreManifest" \in Publishing
    BY <1>13 DEF RestoreCsv, Publishing
  <2>2. \/ proc' = [proc EXCEPT ![p] = Goto(p, "restoreManifest")]
        \/ proc' = [proc EXCEPT ![p] = [@ EXCEPT !.pc = "restoreManifest", !.failed = TRUE]]
    BY <1>13 DEF RestoreCsv
  <2> QED BY <1>6, <1>7, <1>8, <2>1, <2>2
<1>14. CASE RestoreManifest(p)
  <2>1. /\ proc[p].pc \in Publishing /\ UNCHANGED <<csv, journals>>
        /\ manifest' = manifest \/ manifest' = proc[p].backupManifest
        /\ "settle" \in Publishing
    BY <1>14 DEF RestoreManifest, Publishing
  <2>2. \/ proc' = [proc EXCEPT ![p] = Goto(p, "settle")]
        \/ proc' = [proc EXCEPT ![p] = [@ EXCEPT !.pc = "settle", !.failed = TRUE]]
    BY <1>14 DEF RestoreManifest
  <2> QED BY <1>6, <1>7, <1>8, <2>1, <2>2
<1>15. CASE Settle(p)
  <2>1. /\ proc[p].pc \in Publishing /\ UNCHANGED <<csv, manifest>>
        /\ proc' = [proc EXCEPT ![p] = IdleProc]
    BY <1>15 DEF Settle, Ends, Publishing, formal
  <2>2. PICK outcome \in {"ROLLED_BACK", "ROLLBACK_FAILED"} : Settled(p, outcome)
    BY <1>15 DEF Settle
  <2>3. outcome \in Outcomes /\ outcome # "PUBLISHED"
    BY DEF Outcomes
  <2> QED BY <1>1, <2>1, <2>2, <2>3, LeaveSerial
<1>16. CASE Killed(p)
  <2>1. proc' = [proc EXCEPT ![p] = IdleProc] /\ UNCHANGED <<csv, manifest, journals>>
    BY <1>16 DEF Killed, formal
  <2> QED BY <1>2, <2>1, IdleWork
<1> QED BY <1>3, <1>4, <1>5, <1>9, <1>10, <1>11, <1>12, <1>13, <1>14, <1>15, <1>16
        DEF PublishNext

LEMMA InvStep ==
  ASSUME Serial, Inv, [Next]_vars
  PROVE  Inv'
<1>1. TypeInv'
  BY TypeStep DEF Inv
<1>2. CASE TwsePublishes \/ UNCHANGED vars
  <2>1. UNCHANGED <<csv, manifest, borrowed, journals, proc>>
    BY <1>2 DEF TwsePublishes, vars, formal, staging
  <2>2. SerialInv'
    BY <2>1 DEF Inv, SerialInv, OneAtATime, Work, Critical, Fits, MarketWithinDaily,
       TornInv, Evidence, Dataset
  <2> QED BY <1>1, <2>2 DEF Inv
<1>3. ASSUME NEW p \in Updaters, UpdaterNext(p) \/ PublishNext(p) \/ Killed(p)
      PROVE  SerialInv'
  BY <1>3, UpdaterSerial, PublishSerial
<1> QED BY <1>1, <1>2, <1>3 DEF Next, Inv

\* The invariant of updaters that are started one after the other.
LEMMA AlwaysInv == Serial => (Spec => []Inv)
<1> SUFFICES ASSUME Serial PROVE Spec => []Inv
  OBVIOUS
<1>1. Init => Inv
  BY InitType, InitSerial DEF Inv
<1>2. Inv /\ [Next]_vars => Inv'
  BY InvStep
<1> QED BY <1>1, <1>2, PTL DEF Spec

\* Whatever publish_daily_price_reconcile or publish_market_activity_append leaves
\* behind when it is killed or cannot restore, PUBLISH_JOURNAL.json of a publish that
\* did not end well holds the attested pair from before and says what was replaced.
THEOREM JournalsUndoTornPairs == Serial => (Spec => []TornPairHasEvidence)
<1> SUFFICES ASSUME Serial PROVE Spec => []TornPairHasEvidence
  OBVIOUS
<1>1. Inv => TornPairHasEvidence
  BY DEF Inv, SerialInv, TornInv, TornPairHasEvidence
<1> QED BY <1>1, AlwaysInv, PTL

\* Every formal market date has a formal price, or was taken on the price of a dry
\* run's candidate: the daily updater's reconciliation keeps all dates up to the last
\* market date, the market updater adds only dates with a price row, and restorations
\* keep both - however many days, runs and troubles, of updaters that never overlap.
THEOREM MarketDatesHavePrices == Serial => (Spec => []MarketWithinDaily)
<1> SUFFICES ASSUME Serial PROVE Spec => []MarketWithinDaily
  OBVIOUS
<1>1. Inv => MarketWithinDaily
  BY DEF Inv, SerialInv
<1> QED BY <1>1, AlwaysInv, PTL

(***************************************************************************)
(* The refinement                                                          *)
(***************************************************************************)
\* Outside a publish the abstract files are the formal ones.
LEMMA ViewOutside ==
  ASSUME csv \in Files, \A p \in Updaters : proc[p].pc \notin Publishing
  PROVE  FileView = csv /\ AttestedView = manifest
<1>1. AnyInside = {} /\ \A u : Inside(u) = {}
  BY DEF AnyInside, Inside
<1>2. FileView = [u \in Datasets |-> csv[u]]
  BY <1>1 DEF FileView
<1> QED BY <1>1, <1>2 DEF AttestedView, Files

\* Inside a publish they are those of its backup.
LEMMA ViewInside ==
  ASSUME OneAtATime, NEW p \in Updaters, proc[p].pc \in Publishing
  PROVE  /\ FileView = [u \in Datasets |-> IF u = Dataset(p) THEN proc[p].backupCsv ELSE csv[u]]
         /\ AttestedView = proc[p].backupManifest
<1>1. "idle" \notin Publishing
  BY DEF Publishing
<1>2. AnyInside = {p} /\ \A u : Inside(u) = IF u = Dataset(p) THEN {p} ELSE {}
  BY <1>1 DEF AnyInside, Inside, OneAtATime
<1>3. (CHOOSE q \in {p} : TRUE) = p
  OBVIOUS
<1> QED BY <1>2, <1>3 DEF FileView, AttestedView

\* The same after a step.
LEMMA ViewOutsideNext ==
  ASSUME csv' \in Files, \A p \in Updaters : proc'[p].pc \notin Publishing
  PROVE  FileView' = csv' /\ AttestedView' = manifest'
<1>1. AnyInside' = {} /\ \A u : Inside(u)' = {}
  BY DEF AnyInside, Inside
<1>2. FileView' = [u \in Datasets |-> csv'[u]]
  BY <1>1 DEF FileView
<1> QED BY <1>1, <1>2 DEF AttestedView, Files

LEMMA ViewInsideNext ==
  ASSUME OneAtATime', NEW p \in Updaters, proc'[p].pc \in Publishing
  PROVE  /\ FileView' = [u \in Datasets |-> IF u = Dataset(p) THEN proc'[p].backupCsv ELSE csv'[u]]
         /\ AttestedView' = proc'[p].backupManifest
<1>1. "idle" \notin Publishing
  BY DEF Publishing
<1>2. AnyInside' = {p} /\ \A u : Inside(u)' = IF u = Dataset(p) THEN {p} ELSE {}
  BY <1>1 DEF AnyInside, Inside, OneAtATime, Dataset
<1>3. (CHOOSE q \in {p} : TRUE) = p
  OBVIOUS
<1> QED BY <1>2, <1>3 DEF FileView, AttestedView

\* A publish ends: its pair is new, or restored, or reported as broken.
LEMMA LeaveUnit ==
  ASSUME Inv, Inv', NEW p \in Updaters, proc[p].pc \in Publishing,
         proc' = [proc EXCEPT ![p] = IdleProc],
         \A q \in Updaters : q # p => proc[q].pc = "idle",
         UNCHANGED <<csv, manifest>>,
         \/ damaged' = TRUE
         \/ /\ damaged' = damaged
            /\ csv[Dataset(p)] = manifest[Dataset(p)]
         \/ /\ damaged' = damaged
            /\ csv[Dataset(p)] = proc[p].backupCsv /\ manifest = proc[p].backupManifest
  PROVE  [Unit!Next]_(Unit!vars)
<1> DEFINE t == Dataset(p)
<1>1. /\ Critical(p, proc[p]) /\ csv \in Files /\ manifest \in Files /\ t \in Datasets
      /\ proc[p].backupManifest \in Files
      /\ \A u \in Datasets : u # t => manifest[u] = proc[p].backupManifest[u]
      /\ OneAtATime /\ csv' \in Files /\ manifest' \in Files
  BY InsideFacts DEF ProcType, Inv, SerialInv
<1>2. /\ FileView = [u \in Datasets |-> IF u = t THEN proc[p].backupCsv ELSE csv[u]]
      /\ AttestedView = proc[p].backupManifest
  BY <1>1, ViewInside
<1>3. \A q \in Updaters : proc'[q].pc \notin Publishing
  BY ProcOf, IdleType DEF Publishing, Inv, TypeInv, TypeOK
<1>4. FileView' = csv /\ AttestedView' = manifest
  BY <1>1, <1>3, ViewOutsideNext
<1> HIDE DEF t
<1>5. \A u \in Datasets \ {t} : FileView'[u] = FileView[u] /\ AttestedView'[u] = AttestedView[u]
  BY <1>1, <1>2, <1>4
<1>6. FileView' \in [Datasets -> SUBSET Nat] /\ AttestedView' \in [Datasets -> SUBSET Nat]
  BY <1>1, <1>4 DEF Files
<1>7. CASE damaged' = TRUE
  <2>1. Unit!Break({t})
    BY <1>5, <1>6, <1>7 DEF Unit!Break
  <2> QED BY <1>1, <2>1 DEF Unit!Next
<1>8. CASE damaged' = damaged /\ csv[t] = manifest[t]
  <2>1. manifest = [u \in Datasets |-> IF u \in {t} THEN csv[u] ELSE proc[p].backupManifest[u]]
    BY <1>1, <1>8 DEF Files
  <2>2. Unit!Publish({t})
    BY <1>2, <1>4, <1>5, <1>6, <1>8, <2>1 DEF Unit!Publish
  <2> QED BY <1>1, <2>2 DEF Unit!Next
<1>9. CASE damaged' = damaged /\ csv[t] = proc[p].backupCsv /\ manifest = proc[p].backupManifest
  <2>1. csv = [u \in Datasets |-> IF u = t THEN proc[p].backupCsv ELSE csv[u]]
    BY <1>1, <1>9 DEF Files
  <2>2. FileView' = FileView /\ AttestedView' = AttestedView
    BY <1>2, <1>4, <1>9, <2>1
  <2> QED BY <1>9, <2>2 DEF Unit!vars
<1> QED BY <1>7, <1>8, <1>9 DEF t

\* Before and after a publish the abstract files stand still.
LEMMA QuietUnit ==
  ASSUME Inv, NEW p \in Updaters, NEW r, r.pc \notin Publishing,
         proc' = [proc EXCEPT ![p] = r], proc[p].pc \notin Publishing,
         \A q \in Updaters : q # p => proc[q].pc = "idle",
         UNCHANGED <<csv, manifest, damaged>>
  PROVE  UNCHANGED Unit!vars
<1>1. /\ csv \in Files /\ csv' \in Files
      /\ \A q \in Updaters : proc[q].pc \notin Publishing /\ proc'[q].pc \notin Publishing
  BY ProcOf DEF Publishing, Inv, TypeInv, TypeOK
<1> QED BY <1>1, ViewOutside, ViewOutsideNext DEF Unit!vars

\* The replacements and restorations touch only what the view hides.
LEMMA InsideUnit ==
  ASSUME Inv, Inv', NEW p \in Updaters, proc[p].pc \in Publishing,
         proc'[p].pc \in Publishing,
         proc'[p].backupCsv = proc[p].backupCsv,
         proc'[p].backupManifest = proc[p].backupManifest,
         \A u \in Datasets : u # Dataset(p) => csv'[u] = csv[u],
         UNCHANGED damaged
  PROVE  UNCHANGED Unit!vars
<1>1. /\ FileView = [u \in Datasets |-> IF u = Dataset(p) THEN proc[p].backupCsv ELSE csv[u]]
      /\ AttestedView = proc[p].backupManifest
  BY ViewInside DEF Inv, SerialInv
<1>2. /\ FileView' = [u \in Datasets |-> IF u = Dataset(p) THEN proc'[p].backupCsv ELSE csv'[u]]
      /\ AttestedView' = proc'[p].backupManifest
  BY ViewInsideNext DEF Inv, SerialInv
<1>3. FileView' = FileView
  BY <1>1, <1>2
<1> QED BY <1>1, <1>2, <1>3 DEF Unit!vars

LEMMA UpdaterUnit ==
  ASSUME Serial, Inv, NEW p \in Updaters, UpdaterNext(p)
  PROVE  UNCHANGED Unit!vars
<1>1. /\ \A q \in Updaters : q # p => proc[q].pc = "idle"
      /\ proc[p] \in ProcType
  BY OthersIdle, ProcOf DEF Inv, TypeInv, TypeOK
<1>2. UNCHANGED <<csv, manifest, damaged>> /\ proc[p].pc \notin Publishing
  BY DEF UpdaterNext, Start, AcquireLock, LockBusy, TakeStaleLock, FetchDaily, FetchMarket,
         FetchFails, formal, Publishing
<1>3. ASSUME NEW r, proc' = [proc EXCEPT ![p] = r], r.pc \notin Publishing
      PROVE  UNCHANGED Unit!vars
  BY <1>1, <1>2, <1>3, QuietUnit
<1>4. IdleProc.pc \notin Publishing
  BY DEF IdleProc, Publishing
<1>5. CASE Start(p)
  <2>0. PICK overlay :
          proc' = [proc EXCEPT ![p] =
                     [IdleProc EXCEPT !.pc = IF p \in MarketUpdaters THEN "lock" ELSE "fetch",
                                      !.rows = csv[Dataset(p)],
                                      !.price = csv["daily"],
                                      !.overlay = overlay,
                                      !.anchor = Last(csv["market"])]]
    BY <1>5 DEF Start
  <2>1. PICK r : r = [IdleProc EXCEPT !.pc = IF p \in MarketUpdaters THEN "lock" ELSE "fetch",
                                 !.rows = csv[Dataset(p)],
                                 !.price = csv["daily"],
                                 !.overlay = overlay,
                                 !.anchor = Last(csv["market"])]
    OBVIOUS
  <2>2. r.pc \notin Publishing
    BY <2>1 DEF IdleProc, Publishing
  <2> QED BY <1>3, <2>0, <2>1, <2>2
<1>6. CASE AcquireLock(p) \/ TakeStaleLock(p)
  <2>1. proc' = [proc EXCEPT ![p] = Goto(p, "fetch")]
    BY <1>6 DEF AcquireLock, TakeStaleLock
  <2>2. Goto(p, "fetch").pc \notin Publishing
    BY <1>1 DEF Goto, ProcType, Publishing
  <2> QED BY <1>3, <2>1, <2>2
<1>7. CASE LockBusy(p) \/ FetchFails(p)
  BY <1>3, <1>4, <1>7 DEF LockBusy, FetchFails, Ends
<1>8. CASE FetchMarket(p) \/ \E dry \in BOOLEAN : FetchDaily(p, dry)
  <2>1. \/ proc' = [proc EXCEPT ![p] = IdleProc]
        \/ \E c : proc' = [proc EXCEPT ![p] = [@ EXCEPT !.pc = "publish", !.candidate = c]]
    BY <1>8 DEF FetchDaily, FetchMarket, Ends
  <2>2. ASSUME NEW c, proc' = [proc EXCEPT ![p] = [@ EXCEPT !.pc = "publish", !.candidate = c]]
        PROVE  UNCHANGED Unit!vars
    <3>1. PICK r : r = [proc[p] EXCEPT !.pc = "publish", !.candidate = c]
      OBVIOUS
    <3>2. r.pc \notin Publishing
      BY <1>1, <3>1 DEF ProcType, Publishing
    <3> QED BY <1>3, <2>2, <3>1, <3>2
  <2> QED BY <1>3, <1>4, <2>1, <2>2
<1> QED BY <1>5, <1>6, <1>7, <1>8 DEF UpdaterNext

LEMMA PublishUnit ==
  ASSUME Serial, Inv, Inv', NEW p \in Updaters, PublishNext(p) \/ Killed(p)
  PROVE  [Unit!Next]_(Unit!vars)
<1> DEFINE t == Dataset(p)
<1>1. /\ \A q \in Updaters : q # p => proc[q].pc = "idle"
      /\ proc[p] \in ProcType /\ t \in Datasets
      /\ csv \in Files /\ manifest \in Files /\ damaged \in BOOLEAN /\ TypeInv
      /\ \A r : proc' = [proc EXCEPT ![p] = r] => proc'[p] = r
  BY OthersIdle, ProcOf DEF Inv, TypeInv, TypeOK
<1>2. ASSUME NEW r, proc' = [proc EXCEPT ![p] = r], r.pc \notin Publishing,
             proc[p].pc \notin Publishing, UNCHANGED <<csv, manifest, damaged>>
      PROVE  UNCHANGED Unit!vars
  BY <1>1, <1>2, QuietUnit
<1>3. IdleProc.pc \notin Publishing
  BY DEF IdleProc, Publishing
<1>4. ASSUME NEW pc \in Publishing, NEW failed \in BOOLEAN,
             proc' = [proc EXCEPT ![p] = [@ EXCEPT !.pc = pc, !.failed = failed]],
             proc[p].pc \in Publishing,
             \A u \in Datasets : u # t => csv'[u] = csv[u],
             UNCHANGED damaged
      PROVE  UNCHANGED Unit!vars
  <2>1. /\ proc'[p].pc = pc /\ proc'[p].backupCsv = proc[p].backupCsv
        /\ proc'[p].backupManifest = proc[p].backupManifest
    <3>1. PICK r : r = [proc[p] EXCEPT !.pc = pc, !.failed = failed]
      OBVIOUS
    <3>2. proc'[p] = r
      BY <1>1, <1>4, <3>1
    <3> QED BY <1>1, <3>1, <3>2 DEF ProcType
  <2> QED BY <1>4, <2>1, InsideUnit
<1>5. ASSUME NEW pc
      PROVE  Goto(p, pc) = [proc[p] EXCEPT !.pc = pc, !.failed = proc[p].failed]
  BY <1>1 DEF Goto, ProcType
<1>6. proc[p].failed \in BOOLEAN
  BY <1>1 DEF ProcType
<1>7. CASE Prepare(p)
  <2>1. PICK new, m : proc' = [proc EXCEPT ![p] =
                         [@ EXCEPT !.pc = "backup", !.new = new, !.preCsv = csv[t], !.newManifest = m]]
    BY <1>7 DEF Prepare
  <2>2. PICK r : r = [proc[p] EXCEPT !.pc = "backup", !.new = new, !.preCsv = csv[t], !.newManifest = m]
    OBVIOUS
  <2>3. r.pc \notin Publishing /\ proc[p].pc \notin Publishing
    BY <1>1, <1>7, <2>2 DEF Prepare, ProcType, Publishing
  <2> QED BY <1>2, <1>7, <2>1, <2>2, <2>3 DEF Prepare, formal
<1>8. CASE RefuseToPublish(p)
  BY <1>2, <1>3, <1>8 DEF RefuseToPublish, Ends, formal, Publishing
<1>9. CASE Backup(p)
  <2>1. UNCHANGED <<csv, manifest, damaged>> /\ proc[p].pc \notin Publishing
    BY <1>9 DEF Backup, formal, Publishing
  <2>2. CASE p \in MarketUpdaters /\ csv["market"] # proc[p].preCsv
    BY <1>2, <1>3, <1>9, <2>1, <2>2 DEF Backup, Ends
  <2>3. CASE ~(p \in MarketUpdaters /\ csv["market"] # proc[p].preCsv)
    <3>1. PICK n : n = Len(journals')
      OBVIOUS
    <3>2. PICK r : r = [proc[p] EXCEPT !.pc = "replaceCsv", !.journal = n,
                                       !.backupCsv = csv[t], !.backupManifest = manifest]
      OBVIOUS
    <3>3. proc' = [proc EXCEPT ![p] = r]
      BY <1>1, <1>9, <2>3, <3>1, <3>2, BackupStep
    <3>4. proc'[p] = r
      BY <1>1, <3>3
    <3>5. /\ proc'[p].pc \in Publishing
          /\ proc'[p].backupCsv = csv[t] /\ proc'[p].backupManifest = manifest
      BY <1>1, <3>2, <3>4 DEF ProcType, Publishing
    <3>6. /\ FileView' = [u \in Datasets |-> IF u = t THEN csv[t] ELSE csv[u]]
          /\ AttestedView' = manifest
      BY <2>1, <3>5, ViewInsideNext DEF Inv, SerialInv
    <3>7. FileView = csv /\ AttestedView = manifest
      BY <1>1, <2>1, ViewOutside DEF Publishing
    <3>8. FileView' = csv
      BY <1>1, <3>6 DEF Files
    <3> QED BY <2>1, <3>6, <3>7, <3>8 DEF Unit!vars
  <2> QED BY <2>2, <2>3
<1>10. CASE ReplaceCsv(p) \/ ReplaceManifest(p) \/ Raises(p)
            \/ (Verify(p) /\ ~(csv[t] = proc[p].new /\ manifest[t] = proc[p].new))
  <2>1. /\ proc[p].pc \in Publishing /\ UNCHANGED damaged
        /\ \A u \in Datasets : u # t => csv'[u] = csv[u]
        /\ \E pc \in Publishing : proc' = [proc EXCEPT ![p] = Goto(p, pc)]
    BY <1>1, <1>10 DEF ReplaceCsv, ReplaceManifest, Raises, Verify, Publishing, formal, Files
  <2>2. PICK pc \in Publishing : proc' = [proc EXCEPT ![p] = Goto(p, pc)]
    BY <2>1
  <2>3. proc' = [proc EXCEPT ![p] = [@ EXCEPT !.pc = pc, !.failed = proc[p].failed]]
    BY <1>5, <2>2
  <2> QED BY <1>4, <1>6, <2>1, <2>3
<1>11. CASE Verify(p) /\ csv[t] = proc[p].new /\ manifest[t] = proc[p].new
  <2>1. /\ proc[p].pc \in Publishing /\ UNCHANGED <<csv, manifest, damaged>>
        /\ proc' = [proc EXCEPT ![p] = IdleProc]
    BY <1>11 DEF Verify, Ends, Publishing, formal
  <2> QED BY <1>1, <1>11, <2>1, LeaveUnit
<1>12. CASE RestoreCsv(p)
  <2>1. /\ proc[p].pc \in Publishing /\ UNCHANGED damaged
        /\ \A u \in Datasets : u # t => csv'[u] = csv[u]
        /\ "restoreManifest" \in Publishing
    BY <1>1, <1>12 DEF RestoreCsv, Publishing, Files
  <2>2. \/ proc' = [proc EXCEPT ![p] = Goto(p, "restoreManifest")]
        \/ proc' = [proc EXCEPT ![p] = [@ EXCEPT !.pc = "restoreManifest", !.failed = TRUE]]
    BY <1>12 DEF RestoreCsv
  <2> QED BY <1>4, <1>5, <1>6, <2>1, <2>2
<1>13. CASE RestoreManifest(p)
  <2>1. /\ proc[p].pc \in Publishing /\ UNCHANGED <<csv, damaged>>
        /\ "settle" \in Publishing
    BY <1>13 DEF RestoreManifest, Publishing
  <2>2. \/ proc' = [proc EXCEPT ![p] = Goto(p, "settle")]
        \/ proc' = [proc EXCEPT ![p] = [@ EXCEPT !.pc = "settle", !.failed = TRUE]]
    BY <1>13 DEF RestoreManifest
  <2> QED BY <1>4, <1>5, <1>6, <2>1, <2>2
<1>14. CASE Settle(p)
  <2>1. /\ proc[p].pc \in Publishing /\ UNCHANGED <<csv, manifest>>
        /\ proc' = [proc EXCEPT ![p] = IdleProc]
        /\ damaged' = (damaged \/ ~Restored(p))
    BY <1>14 DEF Settle, Ends, Publishing, formal
  <2>2. CASE Restored(p)
    <3>1. csv[t] = proc[p].backupCsv /\ manifest = proc[p].backupManifest
      BY <2>1, <2>2, InsideFacts DEF Restored, Critical
    <3> QED BY <1>1, <2>1, <2>2, <3>1, LeaveUnit
  <2>3. CASE ~Restored(p)
    BY <1>1, <2>1, <2>3, LeaveUnit
  <2> QED BY <2>2, <2>3
<1>15. CASE Killed(p)
  <2>1. /\ UNCHANGED <<csv, manifest>> /\ proc' = [proc EXCEPT ![p] = IdleProc]
        /\ damaged' = (damaged \/ csv # manifest)
    BY <1>15 DEF Killed, formal
  <2>2. CASE proc[p].pc \in Publishing
    BY <1>1, <2>1, <2>2, LeaveUnit
  <2>3. CASE proc[p].pc \notin Publishing
    <3>1. \A q \in Updaters : proc[q].pc \notin Publishing /\ proc'[q].pc \notin Publishing
      BY <1>1, <1>3, <2>1, <2>3 DEF Publishing
    <3>2. /\ FileView = csv /\ AttestedView = manifest
          /\ FileView' = csv /\ AttestedView' = manifest
      BY <1>1, <2>1, <3>1, ViewOutside, ViewOutsideNext
    <3>3. CASE csv = manifest
      BY <1>1, <2>1, <3>2, <3>3 DEF Unit!vars
    <3>4. CASE csv # manifest
      <4>1. Unit!Break({})
        BY <1>1, <2>1, <3>2, <3>4 DEF Unit!Break, Files
      <4> QED BY <4>1 DEF Unit!Next
    <3> QED BY <3>3, <3>4
  <2> QED BY <2>2, <2>3
<1> QED BY <1>7, <1>8, <1>9, <1>10, <1>11, <1>12, <1>13, <1>14, <1>15 DEF PublishNext

LEMMA UnitStep ==
  ASSUME Serial, Inv, Inv', [Next]_vars
  PROVE  [Unit!Next]_(Unit!vars)
<1>1. CASE TwsePublishes \/ UNCHANGED vars
  <2>1. UNCHANGED <<csv, manifest, proc, damaged>>
    BY <1>1 DEF TwsePublishes, vars, formal
  <2>2. FileView' = FileView /\ AttestedView' = AttestedView
    BY <2>1 DEF FileView, AttestedView, AnyInside, Inside, Dataset
  <2> QED BY <2>1, <2>2 DEF Unit!vars
<1>2. ASSUME NEW p \in Updaters, UpdaterNext(p) \/ PublishNext(p) \/ Killed(p)
      PROVE  [Unit!Next]_(Unit!vars)
  BY <1>2, UpdaterUnit, PublishUnit
<1> QED BY <1>1, <1>2 DEF Next

\* However often replacing, verifying and restoring fail: a journaled publish changes
\* its CSV and the manifest's entry for it together or not at all, and a broken one,
\* killed or not restored, changes nothing else.
THEOREM PublishIsAtomic == Serial => (Spec => ImplementsUnit)
<1> SUFFICES ASSUME Serial PROVE Spec => ImplementsUnit
  OBVIOUS
<1>1. Init => Unit!Init
  <2>1. ASSUME Init PROVE csv \in Files /\ \A p \in Updaters : proc[p].pc \notin Publishing
    BY <2>1, InitType DEF TypeInv, TypeOK, Init, IdleProc, Publishing
  <2>2. ASSUME Init PROVE FileView = csv /\ AttestedView = manifest
    BY <2>1, <2>2, ViewOutside
  <2> QED BY <2>1, <2>2 DEF Init, Unit!Init, Files
<1>2. Inv /\ Inv' /\ [Next]_vars => [Unit!Next]_(Unit!vars)
  BY UnitStep
<1>3. Spec => []Inv
  BY AlwaysInv
<1> QED BY <1>1, <1>2, <1>3, PTL DEF Spec, ImplementsUnit, Unit!Spec

=============================================================================
