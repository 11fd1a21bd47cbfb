--------------------------- MODULE JournalPublish ---------------------------
(***************************************************************************)
(* The two TWSE updaters                                                    *)
(* (tools/warroom_daily_price_updater.py, warroom_market_activity_updater.py)*)
(* and the journaled publishers they call (tools/owner_publish_csv_v2.py:   *)
(* publish_daily_price_reconcile, publish_market_activity_append).          *)
(*                                                                         *)
(* Each publisher replaces a whole formal CSV and then the whole manifest,  *)
(* with a backup and a journal around the two replacements.  The market     *)
(* updater has a lock file, the daily one has none; nothing orders one       *)
(* against the other, since both write the one manifest.                     *)
(***************************************************************************)
EXTENDS Naturals, Sequences, FiniteSets

CONSTANTS
  DailyUpdaters,   \* processes of the daily price updater
  MarketUpdaters,  \* processes of the market activity updater
  Days,            \* calendar days
  TradingDays,     \* the days TWSE trades on
  Serial,          \* an updater is started only when no other is running
  MaxRuns,         \* bound: updater runs
  MaxTrouble       \* bound: kills, raising file operations, stale locks

ASSUME UpdatersAssumption == DailyUpdaters \intersect MarketUpdaters = {}
ASSUME DaysAssumption ==
  Days \subseteq Nat /\ IsFiniteSet(Days) /\ TradingDays \subseteq Days /\ TradingDays # {}
ASSUME SerialAssumption == Serial \in BOOLEAN
ASSUME BoundsAssumption == MaxRuns \in Nat /\ MaxTrouble \in Nat

VARIABLES
  csv,       \* formal CSV of each dataset, as the set of its dates
  manifest,  \* the manifest: for each dataset the content its entry attests
  twse,      \* trading days TWSE has published so far
  journals,  \* PUBLISH_JOURNAL.json of each publish, in the order of creation
  candidates, \* READY candidates of dry runs of the daily updater
  borrowed,  \* history: market dates taken on the price of such a candidate alone
  temps,     \* temporary CSV files that killed processes left behind
  status,    \* the status file of each updater
  lock,      \* run.lock of the market updater exists
  proc,      \* the updater processes
  damaged,   \* history: a process died, or failed to restore, half-way
  spent      \* how much of each bound is used

vars == <<csv, manifest, candidates, borrowed, twse, journals, temps, status, lock, proc, damaged, spent>>

(***************************************************************************)
(* Data                                                                    *)
(***************************************************************************)
Datasets == {"daily", "market"}

Updaters == DailyUpdaters \union MarketUpdaters

Dataset(p) == IF p \in DailyUpdaters THEN "daily" ELSE "market"

Last(days) == CHOOSE d \in days : \A x \in days : x <= d

FirstDay == CHOOSE d \in TradingDays : \A x \in TradingDays : d <= x

NoFiles == [t \in Datasets |-> {}]

IdleProc ==
  [pc |-> "idle", rows |-> {}, price |-> {}, overlay |-> {}, anchor |-> 0, candidate |-> {},
   new |-> {}, newManifest |-> NoFiles, preCsv |-> {}, backupCsv |-> {},
   backupManifest |-> NoFiles, failed |-> FALSE, journal |-> 0]

\* The daily file may hold a date that turned out not to be a trading day.
Init ==
  /\ \E extra \in SUBSET {d \in Days \ TradingDays : d > FirstDay} :
       csv = [t \in Datasets |-> IF t = "daily" THEN {FirstDay} \union extra
                                 ELSE {FirstDay}]
  /\ manifest = csv
  /\ candidates = {}
  /\ borrowed = {}
  /\ twse = {FirstDay}
  /\ journals = <<>>
  /\ temps = {}
  /\ status = [t \in Datasets |-> "none"]
  /\ lock = FALSE
  /\ proc = [p \in Updaters |-> IdleProc]
  /\ damaged = FALSE
  /\ spent = [runs |-> 0, trouble |-> 0]

formal == <<csv, manifest>>

staging == <<candidates, borrowed>>

\* The next trading day closes.
NextDay == CHOOSE d \in TradingDays \ twse : \A x \in TradingDays \ twse : d <= x

TwsePublishes ==
  /\ TradingDays \ twse # {}
  /\ twse' = twse \union {NextDay}
  /\ UNCHANGED <<formal, staging, journals, temps, status, lock, proc, damaged, spent>>

(***************************************************************************)
(* Updaters: read the formal files, fetch, build the candidate             *)
(***************************************************************************)
Trouble == spent.trouble < MaxTrouble /\ spent' = [spent EXCEPT !.trouble = @ + 1]

Goto(p, pc) == [proc[p] EXCEPT !.pc = pc]

\* The process ends; the market updater's finally clause removes whatever lock
\* file is there.
Ends(p) ==
  /\ proc' = [proc EXCEPT ![p] = IdleProc]
  /\ lock' = (lock /\ p \notin MarketUpdaters)

Report(p, outcome) == status' = [status EXCEPT ![Dataset(p)] = outcome]

\* --daily-price-run-dir: the candidate of a dry run that started from the anchor the
\* market file has now, whichever run it was; with another one the updater ends.
Overlays == {{}} \union {c.days : c \in {x \in candidates : x.anchor = Last(csv["market"])}}

\* Formal rows, price rows and the anchor are read first, by the market updater
\* before it asks for its lock; so is the candidate it is given.
Start(p) ==
  /\ proc[p].pc = "idle" /\ spent.runs < MaxRuns
  /\ Serial => \A q \in Updaters : proc[q].pc = "idle"
  /\ \E overlay \in IF p \in MarketUpdaters THEN Overlays ELSE {{}} :
       proc' = [proc EXCEPT ![p] =
                  [IdleProc EXCEPT !.pc = IF p \in MarketUpdaters THEN "lock" ELSE "fetch",
                                   !.rows = csv[Dataset(p)],
                                   !.price = csv["daily"],
                                   !.overlay = overlay,
                                   !.anchor = Last(csv["market"])]]
  /\ spent' = [spent EXCEPT !.runs = @ + 1]
  /\ UNCHANGED <<formal, staging, twse, journals, temps, status, lock, damaged>>

AcquireLock(p) ==
  /\ proc[p].pc = "lock" /\ ~lock
  /\ lock' = TRUE
  /\ proc' = [proc EXCEPT ![p] = Goto(p, "fetch")]
  /\ UNCHANGED <<formal, staging, twse, journals, temps, status, damaged, spent>>

\* "Market-activity update is already running": ends without a status.
LockBusy(p) ==
  /\ proc[p].pc = "lock" /\ lock
  /\ proc' = [proc EXCEPT ![p] = IdleProc]
  /\ UNCHANGED <<formal, staging, twse, journals, temps, status, lock, damaged, spent>>

\* A lock older than half an hour is put aside, whoever holds it.
TakeStaleLock(p) ==
  /\ proc[p].pc = "lock" /\ lock
  /\ Trouble
  /\ proc' = [proc EXCEPT ![p] = Goto(p, "fetch")]
  /\ UNCHANGED <<formal, staging, twse, journals, temps, status, lock, damaged>>

\* TWSE's dates after the last market date, and the daily candidate: the rows
\* up to that anchor and one row for each of these dates.
TargetDates(p) == {d \in twse : d > proc[p].anchor}

Reconciled(p) == {d \in proc[p].rows : d <= proc[p].anchor} \union TargetDates(p)

\* With --dry-run the candidate is left in the run's directory.
FetchDaily(p, dry) ==
  /\ proc[p].pc = "fetch" /\ p \in DailyUpdaters
  /\ LET anchored == proc[p].anchor \in proc[p].rows
         ready == dry /\ anchored /\ TargetDates(p) # {}
     IN /\ IF TargetDates(p) = {}
           THEN Report(p, IF anchored THEN "NO_NEW" ELSE "BLOCKED") /\ Ends(p)
           ELSE IF ~anchored                       \* KeyError, which nobody catches
           THEN Ends(p) /\ UNCHANGED status
           ELSE IF dry
           THEN Report(p, "DRY_RUN_READY") /\ Ends(p)
           ELSE IF Reconciled(p) = csv["daily"]
           THEN Report(p, "NO_NEW") /\ Ends(p)
           ELSE /\ proc' = [proc EXCEPT ![p] =
                              [@ EXCEPT !.pc = "publish", !.candidate = Reconciled(p)]]
                /\ UNCHANGED <<status, lock>>
        /\ candidates' =
             IF ready
             THEN candidates \union {[anchor |-> proc[p].anchor, days |-> TargetDates(p)]}
             ELSE candidates
  /\ UNCHANGED <<formal, borrowed, twse, journals, temps, damaged, spent>>

\* Mutant: dates without a price row are taken too.
PricedOrNot(p, days) == TRUE

\* New market rows must have a price row with the same closing price, in the
\* candidate the run was given or else in the formal file ...
Priced(p, days) == days \subseteq proc[p].overlay \union proc[p].price

\* ... and come after the file's last date.
FetchMarket(p) ==
  /\ proc[p].pc = "fetch" /\ p \in MarketUpdaters
  /\ LET new == twse \ proc[p].rows
     IN IF new = {} THEN Report(p, "NO_NEW") /\ Ends(p) /\ UNCHANGED borrowed
        ELSE IF (\E d \in new : d <= proc[p].anchor) \/ ~Priced(p, new)
        THEN Report(p, "BLOCKED") /\ Ends(p) /\ UNCHANGED borrowed
        ELSE /\ proc' = [proc EXCEPT ![p] =
                           [@ EXCEPT !.pc = "publish", !.candidate = new]]
             /\ borrowed' =
                  (borrowed \ new) \union ((new \intersect proc[p].overlay) \ proc[p].price)
             /\ UNCHANGED <<status, lock>>
  /\ UNCHANGED <<formal, candidates, twse, journals, temps, damaged, spent>>

\* A fetch that fails: both updaters write a status and end.
FetchFails(p) ==
  /\ proc[p].pc = "fetch"
  /\ Trouble
  /\ Report(p, "BLOCKED") /\ Ends(p)
  /\ UNCHANGED <<formal, staging, twse, journals, temps, damaged>>

(***************************************************************************)
(* Publishers: validation, backup, journal                                 *)
(***************************************************************************)
\* Mutant: the manifest is taken to attest the file.
MayPublishUnattested(p) ==
  LET t == Dataset(p)
  IN IF t = "daily"
     THEN {d \in csv[t] : d <= proc[p].anchor} =
          {d \in proc[p].candidate : d <= proc[p].anchor}
     ELSE \A d \in proc[p].candidate, x \in csv[t] : x < d

\* The formal file is read again.  The daily candidate may not differ up to the
\* anchor, the market candidate may only come after the end, and the manifest
\* must attest the file as it is.
MayPublish(p) ==
  LET t == Dataset(p)
  IN /\ manifest[t] = csv[t]
     /\ IF t = "daily"
        THEN {d \in csv[t] : d <= proc[p].anchor} =
             {d \in proc[p].candidate : d <= proc[p].anchor}
        ELSE \A d \in proc[p].candidate, x \in csv[t] : x < d

\* The whole new manifest is computed here, from the manifest as read here.
Prepare(p) ==
  /\ proc[p].pc = "publish" /\ MayPublish(p)
  /\ LET t == Dataset(p)
         new == IF t = "daily" THEN proc[p].candidate ELSE csv[t] \union proc[p].candidate
     IN proc' = [proc EXCEPT ![p] =
                   [@ EXCEPT !.pc = "backup", !.new = new, !.preCsv = csv[t],
                             !.newManifest = [manifest EXCEPT ![t] = new]]]
  /\ UNCHANGED <<formal, staging, twse, journals, temps, status, lock, damaged, spent>>

\* A ValueError: the daily updater reports it, the market updater only catches
\* its own failures and leaves its status file as it was.
RefuseToPublish(p) ==
  /\ proc[p].pc = "publish" /\ ~MayPublish(p)
  /\ IF p \in DailyUpdaters THEN Report(p, "BLOCKED") ELSE UNCHANGED status
  /\ Ends(p)
  /\ UNCHANGED <<formal, staging, twse, journals, temps, damaged, spent>>

JournalEntry(p, outcome) ==
  [dataset |-> Dataset(p), outcome |-> outcome, csv |-> csv[Dataset(p)],
   manifest |-> manifest, new |-> proc[p].new]

\* Both files are copied to the backup directory and the journal is created.  The
\* market publisher compares the copy with the file it has validated.
Backup(p) ==
  /\ proc[p].pc = "backup"
  /\ IF p \in MarketUpdaters /\ csv["market"] # proc[p].preCsv
     THEN Ends(p) /\ UNCHANGED journals
     ELSE /\ journals' = Append(journals, JournalEntry(p, "BACKUP_VERIFIED"))
          /\ proc' = [proc EXCEPT ![p] =
                        [@ EXCEPT !.pc = "replaceCsv", !.journal = Len(journals'),
                                  !.backupCsv = csv[Dataset(p)],
                                  !.backupManifest = manifest]]
          /\ UNCHANGED lock
  /\ UNCHANGED <<formal, staging, twse, temps, status, damaged, spent>>

Settled(p, outcome) ==
  journals' = [journals EXCEPT ![proc[p].journal].outcome = outcome]

(***************************************************************************)
(* Publishers: the two replacements                                        *)
(***************************************************************************)
\* _atomic_write_bytes: the name of the temporary file is a digest of the
\* content, and a temporary file that is already there makes the write fail.
Blocked(t, content) == <<t, content>> \in temps

ReplaceCsv(p) ==
  /\ proc[p].pc = "replaceCsv"
  /\ IF Blocked(Dataset(p), proc[p].new)
     THEN proc' = [proc EXCEPT ![p] = Goto(p, "restoreCsv")] /\ UNCHANGED csv
     ELSE /\ csv' = [csv EXCEPT ![Dataset(p)] = proc[p].new]
          /\ proc' = [proc EXCEPT ![p] = Goto(p, "replaceManifest")]
  /\ UNCHANGED <<manifest, staging, twse, journals, temps, status, lock, damaged, spent>>

ReplaceManifest(p) ==
  /\ proc[p].pc = "replaceManifest"
  /\ manifest' = proc[p].newManifest
  /\ proc' = [proc EXCEPT ![p] = Goto(p, "verify")]
  /\ UNCHANGED <<csv, staging, twse, journals, temps, status, lock, damaged, spent>>

\* Reads both files back; then the journal and the updater's status are written.
Verify(p) ==
  /\ proc[p].pc = "verify"
  /\ LET t == Dataset(p)
     IN IF csv[t] = proc[p].new /\ manifest[t] = proc[p].new
        THEN Settled(p, "PUBLISHED") /\ Report(p, "UPDATED") /\ Ends(p)
        ELSE /\ proc' = [proc EXCEPT ![p] = Goto(p, "restoreCsv")]
             /\ UNCHANGED <<journals, status, lock>>
  /\ UNCHANGED <<formal, staging, twse, temps, damaged, spent>>

Raises(p) ==
  /\ proc[p].pc \in {"replaceCsv", "replaceManifest", "verify"}
  /\ Trouble
  /\ proc' = [proc EXCEPT ![p] = Goto(p, "restoreCsv")]
  /\ UNCHANGED <<formal, staging, twse, journals, temps, status, lock, damaged>>

(***************************************************************************)
(* Publishers: restoration, and processes that die                         *)
(***************************************************************************)
\* Each of the two restorations is tried; one that raises is recorded.
RestoreCsv(p) ==
  /\ proc[p].pc = "restoreCsv"
  /\ \/ /\ ~Blocked(Dataset(p), proc[p].backupCsv)
        /\ csv' = [csv EXCEPT ![Dataset(p)] = proc[p].backupCsv]
        /\ proc' = [proc EXCEPT ![p] = Goto(p, "restoreManifest")]
        /\ UNCHANGED spent
     \/ /\ IF Blocked(Dataset(p), proc[p].backupCsv) THEN UNCHANGED spent ELSE Trouble
        /\ proc' = [proc EXCEPT ![p] =
                      [@ EXCEPT !.pc = "restoreManifest", !.failed = TRUE]]
        /\ UNCHANGED csv
  /\ UNCHANGED <<manifest, staging, twse, journals, temps, status, lock, damaged>>

RestoreManifest(p) ==
  /\ proc[p].pc = "restoreManifest"
  /\ \/ /\ manifest' = proc[p].backupManifest
        /\ proc' = [proc EXCEPT ![p] = Goto(p, "settle")]
        /\ UNCHANGED spent
     \/ /\ Trouble
        /\ proc' = [proc EXCEPT ![p] = [@ EXCEPT !.pc = "settle", !.failed = TRUE]]
        /\ UNCHANGED manifest
  /\ UNCHANGED <<csv, staging, twse, journals, temps, status, lock, damaged>>

\* Mutant: only the digest of the CSV is compared.
RestoredCsvOnly(p) == csv[Dataset(p)] = proc[p].preCsv

\* The digests are compared with those from before the publish.  The RuntimeError
\* that follows passes both updaters by: no status is written.
Restored(p) ==
  /\ ~proc[p].failed
  /\ csv[Dataset(p)] = proc[p].preCsv
  /\ manifest = proc[p].backupManifest

Settle(p) ==
  /\ proc[p].pc = "settle"
  /\ Settled(p, IF Restored(p) THEN "ROLLED_BACK" ELSE "ROLLBACK_FAILED")
  /\ damaged' = (damaged \/ ~Restored(p))
  /\ Ends(p)
  /\ UNCHANGED <<formal, staging, twse, temps, status, spent>>

\* What a process killed in the middle of a replacement may leave behind.
Leftover(p) ==
  CASE proc[p].pc = "replaceCsv" -> {<<Dataset(p), proc[p].new>>}
    [] proc[p].pc = "restoreCsv" -> {<<Dataset(p), proc[p].backupCsv>>}
    [] OTHER                     -> {}

Killed(p) ==
  /\ proc[p].pc # "idle"
  /\ Trouble
  /\ \E left \in SUBSET Leftover(p) : temps' = temps \union left
  /\ proc' = [proc EXCEPT ![p] = IdleProc]
  /\ damaged' = (damaged \/ csv # manifest)
  /\ UNCHANGED <<formal, staging, twse, journals, status, lock>>

(***************************************************************************)
(* Specification                                                           *)
(***************************************************************************)
UpdaterNext(p) ==
  \/ Start(p) \/ AcquireLock(p) \/ LockBusy(p) \/ TakeStaleLock(p)
  \/ FetchMarket(p) \/ FetchFails(p)
  \/ \E dry \in BOOLEAN : FetchDaily(p, dry)

PublishNext(p) ==
  \/ Prepare(p) \/ RefuseToPublish(p) \/ Backup(p)
  \/ ReplaceCsv(p) \/ ReplaceManifest(p) \/ Verify(p) \/ Raises(p)
  \/ RestoreCsv(p) \/ RestoreManifest(p) \/ Settle(p)

Next ==
  \/ TwsePublishes
  \/ \E p \in Updaters : UpdaterNext(p) \/ PublishNext(p) \/ Killed(p)

Spec == Init /\ [][Next]_vars

(***************************************************************************)
(* Properties                                                              *)
(***************************************************************************)
Files == [Datasets -> SUBSET Nat]

Publishing ==
  {"replaceCsv", "replaceManifest", "verify", "restoreCsv", "restoreManifest", "settle"}

ProcType ==
  [pc : {"idle", "lock", "fetch", "publish", "backup"} \union Publishing,
   rows : SUBSET Nat, price : SUBSET Nat, overlay : SUBSET Nat, anchor : Nat, candidate : SUBSET Nat,
   new : SUBSET Nat, newManifest : Files, preCsv : SUBSET Nat,
   backupCsv : SUBSET Nat, backupManifest : Files, failed : BOOLEAN, journal : Nat]

Statuses == {"none", "NO_NEW", "BLOCKED", "DRY_RUN_READY", "UPDATED"}

Outcomes == {"BACKUP_VERIFIED", "PUBLISHED", "ROLLED_BACK", "ROLLBACK_FAILED"}

JournalType ==
  [dataset : Datasets, outcome : Outcomes, csv : SUBSET Nat, manifest : Files,
   new : SUBSET Nat]

\* The types of the variables: files are sets of dates, a publisher inside its
\* critical part has a journal.
TypeOK ==
  /\ csv \in Files
  /\ manifest \in Files
  /\ candidates \in SUBSET [anchor : Nat, days : SUBSET Nat]
  /\ borrowed \in SUBSET Nat
  /\ twse \in SUBSET Nat
  /\ journals \in Seq(JournalType)
  /\ temps \in SUBSET (Datasets \X SUBSET Nat)
  /\ status \in [Datasets -> Statuses]
  /\ lock \in BOOLEAN
  /\ proc \in [Updaters -> ProcType]
  /\ \A p \in Updaters :
       proc[p].pc \in Publishing => proc[p].journal \in DOMAIN journals
  /\ damaged \in BOOLEAN
  /\ spent \in [{"runs", "trouble"} -> Nat]

AllIdle == \A p \in Updaters : proc[p].pc = "idle"

\* "Both files must be updated atomically": with no updater at work every CSV is
\* what the manifest attests.
PairsAttested == AllIdle => csv = manifest

\* Whatever was killed or could not be restored, the journals are enough to undo
\* it: a CSV that the manifest does not attest belongs to a publish whose journal
\* does not say PUBLISHED, whose backup is an attested pair, and the CSV and the
\* entry are each the old or the new one of that publish - also after later
\* publishes of the other file.
Evidence(t, j) ==
  /\ j.dataset = t
  /\ j.outcome # "PUBLISHED"
  /\ j.csv = j.manifest[t]
  /\ csv[t] \in {j.csv, j.new}
  /\ manifest[t] \in {j.csv, j.new}

TornPairHasEvidence ==
  AllIdle => \A t \in Datasets :
    csv[t] # manifest[t] => \E i \in DOMAIN journals : Evidence(t, journals[i])

\* With one updater at a time, every date of market activity has a price in the
\* formal daily file, but those that a market run took on the word of a dry run's
\* candidate: the daily updater never drops a date the market updater has used, nor
\* the anchor it starts from, although it may drop later dates and either publish may
\* be rolled back.
MarketWithinDaily == csv["market"] \subseteq csv["daily"] \union borrowed

(***************************************************************************)
(* A publish of either updater implements the atomic unit: from the backup   *)
(* to the end of the publish the abstract files are those of the backup.     *)
(***************************************************************************)
Inside(t) == {p \in Updaters : proc[p].pc \in Publishing /\ Dataset(p) = t}

AnyInside == {p \in Updaters : proc[p].pc \in Publishing}

FileView ==
  [t \in Datasets |-> IF Inside(t) = {} THEN csv[t]
                      ELSE proc[CHOOSE p \in Inside(t) : TRUE].backupCsv]

AttestedView ==
  IF AnyInside = {} THEN manifest
  ELSE proc[CHOOSE p \in AnyInside : TRUE].backupManifest

Unit == INSTANCE AuthorityUnit
          WITH Targets <- Datasets, Contents <- SUBSET Nat,
               file <- FileView, attested <- AttestedView, broken <- damaged

\* A publish changes one CSV and its manifest entry in one step or not at all; a
\* broken one touches nothing but its own CSV and entry.
ImplementsUnit == Unit!Spec

============================================================================
