---------------------------- MODULE OwnerPublish ----------------------------
(***************************************************************************)
(* The Owner's publish of staged candidates (tools/owner_publish_csv_v2.py, *)
(* the --publish path of main) together with the two programs that stage    *)
(* candidates: tools/warroom_data_fetcher_v2.py and the news scanner.       *)
(*                                                                         *)
(* The three are separate operating-system processes which share files and  *)
(* no lock.  Each action below is one file operation (or one run of them    *)
(* that no other process can tell apart), so the processes interleave       *)
(* between their reads and their writes; a publisher may be killed between  *)
(* any two of its steps (the launcher kills it after 180 s).                *)
(*                                                                         *)
(* One staging date is modelled: its DRY_RUN.json and candidate files are   *)
(* rewritten by every run of the two staging programs.                      *)
(***************************************************************************)
EXTENDS Naturals, Sequences, FiniteSets, SequencesExt

CONSTANTS
  Days,       \* trading dates TWSE may validate, the last one is today
  Scans,      \* sets of news event keys one scan may accept
  Versions,   \* values the macro row of the staging date may be fetched with
  MaxDaily,   \* bound: runs of the daily price updater
  MaxFetch,   \* bound: runs of the data fetcher
  MaxScan,    \* bound: runs of the news scanner
  MaxTrouble  \* bound: publishers killed, and file operations of one that raise

ASSUME DaysAssumption == Days \subseteq Nat /\ Days # {} /\ IsFiniteSet(Days)
ASSUME ScansAssumption == \A E \in Scans : E \subseteq Nat /\ IsFiniteSet(E)
ASSUME VersionsAssumption == Versions \subseteq Nat
ASSUME BoundsAssumption ==
  MaxDaily \in Nat /\ MaxFetch \in Nat /\ MaxScan \in Nat /\ MaxTrouble \in Nat

VARIABLES
  csv,       \* formal CSV files: target -> sequence of rows
  manifest,  \* the content whose digest the manifest holds for each target
  torn,      \* the manifest file was cut short and is not JSON any more
  trade,     \* latest dry-run candidates of the two TWSE updaters
  staged,    \* candidate files of the staging date: target -> set of rows
  dryRun,    \* DRY_RUN.json of the staging date
  flags,     \* "Owner must look" flags of the three runtime snapshots
  pub,       \* the publisher process
  fetcher,   \* the data fetcher process
  scanner,   \* the news scanner process
  damaged,   \* history: a publisher died, or failed to restore, half-way
  overlap,   \* history: two of the three programs ran at the same time
  spent      \* how much of each bound is used

vars == <<csv, manifest, torn, trade, staged, dryRun, flags, pub, fetcher,
          scanner, damaged, overlap, spent>>

(***************************************************************************)
(* Data                                                                    *)
(***************************************************************************)
Targets == {"daily", "market", "macro", "event"}

\* Order in which publishFiles lists them: the trade pair, then the fetcher's
\* file, then the one the news scanner merges.
Order == <<"daily", "market", "macro", "event">>

Row == [key : Nat, ver : Nat]

Keys(rows) == {r.key : r \in rows}

NoRows == [t \in Targets |-> {}]

First(todo) == Order[CHOOSE i \in DOMAIN Order :
                       /\ Order[i] \in todo
                       /\ \A j \in 1..(i - 1) : Order[j] \notin todo]

\* Rows of trading dates, and of events: the key says all about them.
DayRows(keys) == {[key |-> k, ver |-> 0] : k \in keys}

\* Rows of the candidate file the publisher reads for target t: the trade
\* candidates are in the directory of the approved run, which nobody rewrites;
\* the others are re-read from the staging directory.
CandidateRows(t, run) ==
  CASE t = "daily"  -> DayRows(run.daily)
    [] t = "market" -> DayRows(run.market)
    [] OTHER        -> staged[t]

FormalKeys(t) == Keys(ToSet(csv[t]))

NewDays(days, t) == days \ FormalKeys(t)

\* Mutant: the plan checks that both candidates have new dates, not which run
\* they come from nor that the dates are the same.
TradePlanUnbound ==
  /\ trade.daily # {} /\ trade.market # {}
  /\ NewDays(trade.daily, "daily") # {} /\ NewDays(trade.market, "market") # {}

\* resolve_trade_date_publish_plan: both candidates come from the same run and
\* would add the same, non-empty, trading dates.
TradePlanOk ==
  /\ trade.daily # {} /\ trade.market # {}
  /\ trade.boundTo = trade.run
  /\ NewDays(trade.daily, "daily") # {}
  /\ NewDays(trade.daily, "daily") = NewDays(trade.market, "market")

PublishFiles(d) ==
  IF "daily" \in d.generated THEN d.generated \union {"market"} ELSE d.generated

NoActionRequired(d) == d.published # {} /\ PublishFiles(d) = {}

\* inspect_candidate_files: a staging candidate must have rows, and none whose
\* key the formal file already has; the manifest must be readable.
CandidateOk(t) ==
  t \in {"daily", "market"}
  \/ (staged[t] # {} /\ Keys(staged[t]) \intersect FormalKeys(t) = {})

\* build_publish_readiness: "allowed" needs at least this.  Scores, source
\* coverage and market calendar can only refuse more (see Refuse).
MayBeAllowed(d) ==
  \/ NoActionRequired(d)
  \/ /\ PublishFiles(d) # {}
     /\ ~torn
     /\ "daily" \in d.generated => TradePlanOk
     /\ \A t \in PublishFiles(d) : CandidateOk(t)

(***************************************************************************)
(* Processes                                                               *)
(***************************************************************************)
NoDryRun == [exists |-> FALSE, generated |-> {}, published |-> {}, synced |-> FALSE]

NoTrade == [run |-> 0, daily |-> {}, boundTo |-> 0, market |-> {}]

IdlePub ==
  [pc |-> "idle", files |-> {}, run |-> NoTrade, approved |-> NoRows,
   todo |-> {}, added |-> FALSE, original |-> [t \in Targets |-> <<>>],
   originalManifest |-> [t \in Targets |-> <<>>], dry |-> NoDryRun]

IdleFetcher == [pc |-> "idle", generated |-> {}, published |-> {}, ver |-> 0]

IdleScanner == [pc |-> "idle", events |-> {}, dry |-> NoDryRun]

StagingIdle == fetcher.pc = "idle" /\ scanner.pc = "idle"

\* What the bounds count.
Kinds == {"daily", "fetch", "scan", "trouble"}

Init ==
  /\ csv = [t \in Targets |-> <<>>]
  /\ manifest = [t \in Targets |-> <<>>]
  /\ torn = FALSE
  /\ trade = NoTrade
  /\ staged = NoRows
  /\ dryRun = NoDryRun
  /\ flags = [runtime |-> FALSE, news |-> FALSE, review |-> FALSE]
  /\ pub = IdlePub
  /\ fetcher = IdleFetcher
  /\ scanner = IdleScanner
  /\ damaged = FALSE
  /\ overlap = FALSE
  /\ spent = [k \in Kinds |-> 0]

formal == <<csv, manifest, torn, damaged>>

Spend(what) == spent' = [spent EXCEPT ![what] = @ + 1]

(***************************************************************************)
(* TWSE updaters in dry-run mode: a new run directory and a status file.    *)
(***************************************************************************)
DailyPriceDryRun(d) ==
  /\ spent["daily"] < MaxDaily
  /\ trade' = [trade EXCEPT !.run = @ + 1,
                            !.daily = {x \in Days : x <= d} \union FormalKeys("daily")]
  /\ Spend("daily")
  /\ UNCHANGED <<formal, staged, dryRun, flags, pub, fetcher, scanner, overlap>>

MarketActivityDryRun ==
  /\ trade.daily # {}
  /\ trade' = [trade EXCEPT !.boundTo = trade.run,
                            !.market = trade.daily \union FormalKeys("market")]
  /\ trade' # trade
  /\ UNCHANGED <<formal, staged, dryRun, flags, pub, fetcher, scanner, overlap, spent>>

(***************************************************************************)
(* Data fetcher                                                            *)
(***************************************************************************)
Today == CHOOSE d \in Days : \A x \in Days : x <= d

\* Looks up which targets already hold the staging date, and decides on the
\* values; "close" says that a stock price for today was found.
FetchRead(v, close) ==
  /\ fetcher.pc = "idle" /\ spent["fetch"] < MaxFetch
  /\ LET done == (IF Today \in FormalKeys("daily") /\ close THEN {"daily"} ELSE {})
                 \union (IF 0 \in FormalKeys("macro") THEN {"macro"} ELSE {})
         found == {"macro"} \union (IF close THEN {"daily"} ELSE {})
     IN fetcher' = [pc |-> "fetched", generated |-> found \ done,
                    published |-> done, ver |-> v]
  /\ overlap' = (overlap \/ pub.pc # "idle" \/ scanner.pc # "idle")
  /\ Spend("fetch")
  /\ UNCHANGED <<formal, trade, staged, dryRun, flags, pub, scanner>>

\* Rewrites the candidate files (an event candidate of an earlier scan becomes
\* header-only) ...
FetchWriteCandidates ==
  /\ fetcher.pc = "fetched"
  /\ staged' = [staged EXCEPT !["macro"] = {[key |-> 0, ver |-> fetcher.ver]},
                              !["event"] = {}]
  /\ fetcher' = [fetcher EXCEPT !.pc = "written"]
  /\ UNCHANGED <<formal, trade, dryRun, flags, pub, scanner, overlap, spent>>

\* ... then DRY_RUN.json as a whole, and the runtime snapshot.
FetchWriteDryRun ==
  /\ fetcher.pc = "written"
  /\ dryRun' = [exists |-> TRUE, generated |-> fetcher.generated,
                published |-> fetcher.published, synced |-> FALSE]
  /\ flags' = [flags EXCEPT !.runtime = TRUE]
  /\ fetcher' = IdleFetcher
  /\ UNCHANGED <<formal, trade, staged, pub, scanner, overlap, spent>>

(***************************************************************************)
(* News scanner                                                            *)
(***************************************************************************)
\* Reads the formal keys and accepts some events that are not among them.
ScanClassify(E) ==
  /\ scanner.pc = "idle" /\ spent["scan"] < MaxScan
  /\ E \intersect FormalKeys("event") = {}
  /\ scanner' = [IdleScanner EXCEPT !.pc = "classified", !.events = E]
  /\ overlap' = (overlap \/ pub.pc # "idle" \/ fetcher.pc # "idle")
  /\ Spend("scan")
  /\ UNCHANGED <<formal, trade, staged, dryRun, flags, pub, fetcher>>

\* Writes the candidate file, only when it has rows ...
ScanWriteCandidate ==
  /\ scanner.pc = "classified"
  /\ staged' = IF scanner.events = {} THEN staged
               ELSE [staged EXCEPT !["event"] = DayRows(scanner.events)]
  /\ scanner' = [scanner EXCEPT !.pc = "written"]
  /\ UNCHANGED <<formal, trade, dryRun, flags, pub, fetcher, overlap, spent>>

\* ... then the news snapshot and the event review state; "watch" says that
\* some event has level WATCH or above.
ScanWriteSnapshots(watch) ==
  /\ scanner.pc = "written"
  /\ watch => scanner.events # {}
  /\ flags' = [flags EXCEPT !.news = scanner.events # {}, !.review = watch]
  /\ scanner' = [scanner EXCEPT !.pc = "staged"]
  /\ UNCHANGED <<formal, trade, staged, dryRun, pub, fetcher, overlap, spent>>

\* merge_dry_run reads DRY_RUN.json ...
ScanLoadDryRun ==
  /\ scanner.pc = "staged"
  /\ scanner' = [scanner EXCEPT !.pc = "merging", !.dry = dryRun]
  /\ UNCHANGED <<formal, trade, staged, dryRun, flags, pub, fetcher, overlap, spent>>

\* Mutant: a scan that accepted nothing drops the event candidate of an earlier
\* scan from generatedFiles.
ScanMergeForgets ==
  /\ scanner.pc = "merging"
  /\ dryRun' = [scanner.dry EXCEPT !.generated =
                  IF scanner.events = {} THEN @ \ {"event"} ELSE @ \union {"event"}]
  /\ scanner' = IdleScanner
  /\ UNCHANGED <<formal, trade, staged, flags, pub, fetcher, overlap, spent>>

\* ... and writes it back with the event candidate added.
ScanMergeDryRun ==
  /\ scanner.pc = "merging"
  /\ dryRun' =
       IF scanner.events = {} THEN
         (IF scanner.dry.exists THEN scanner.dry ELSE dryRun)
       ELSE [scanner.dry EXCEPT !.exists = TRUE,
                                !.generated = @ \union {"event"}]
  /\ scanner' = IdleScanner
  /\ UNCHANGED <<formal, trade, staged, flags, pub, fetcher, overlap, spent>>

(***************************************************************************)
(* Publisher: review, approval                                             *)
(***************************************************************************)
staging == <<trade, staged, fetcher, scanner>>

\* The readiness shown to the Owner; the run stops at the approval prompt.
Review ==
  /\ pub.pc = "idle"
  /\ dryRun.exists /\ MayBeAllowed(dryRun) /\ ~NoActionRequired(dryRun)
  /\ pub' = [IdlePub EXCEPT
               !.pc = "reviewed",
               !.files = PublishFiles(dryRun),
               !.run = trade,
               !.approved = [t \in Targets |-> CandidateRows(t, trade)]]
  /\ overlap' = (overlap \/ ~StagingIdle)
  /\ UNCHANGED <<formal, staging, dryRun, flags, spent>>

\* Cancelled at the prompt, or refused by either evaluation of the readiness.
Refuse ==
  /\ pub.pc = "reviewed"
  /\ pub' = IdlePub
  /\ UNCHANGED <<formal, staging, dryRun, flags, overlap, spent>>

\* The phrase was typed; readiness is evaluated again and must name the same
\* files (for the trade pair a path names the run).  Then the originals are
\* read and copied to the backup directory.
SameIdentity ==
  /\ PublishFiles(dryRun) = pub.files
  /\ "daily" \in pub.files => trade = pub.run

Approve ==
  /\ pub.pc = "reviewed"
  /\ MayBeAllowed(dryRun) /\ SameIdentity
  /\ pub' = [pub EXCEPT !.pc = "append", !.todo = pub.files,
                        !.original = csv, !.originalManifest = manifest]
  /\ UNCHANGED <<formal, staging, dryRun, flags, overlap, spent>>

(***************************************************************************)
(* Publisher: append, manifest, rollback                                   *)
(***************************************************************************)
\* append_candidate raises on an empty candidate and on a key that the formal
\* file holds with another value.
AppendRaises(t) ==
  LET rows == CandidateRows(t, pub.run)
  IN rows = {} \/ \E r \in rows : \E x \in ToSet(csv[t]) : r.key = x.key /\ r # x

\* Mutant: the duplicate test was dropped, all candidate rows are written.
AllCandidateRows(t) == CandidateRows(t, pub.run)

RowsToAppend(t) ==
  {r \in CandidateRows(t, pub.run) : r.key \notin FormalKeys(t)}

\* Mutant: the formal file is opened for writing instead of appending.
OverwriteWithCandidate ==
  /\ pub.pc = "append" /\ pub.todo # {}
  /\ LET t == First(pub.todo)
     IN /\ ~AppendRaises(t)
        /\ csv' = [csv EXCEPT ![t] = SetToSeq(RowsToAppend(t))]
        /\ pub' = [pub EXCEPT !.todo = @ \ {t},
                              !.added = @ \/ RowsToAppend(t) # {}]
  /\ UNCHANGED <<manifest, torn, damaged, staging, dryRun, flags, overlap, spent>>

AppendCandidate ==
  /\ pub.pc = "append" /\ pub.todo # {}
  /\ LET t == First(pub.todo)
     IN /\ ~AppendRaises(t)
        /\ csv' = [csv EXCEPT ![t] = @ \o SetToSeq(RowsToAppend(t))]
        /\ pub' = [pub EXCEPT !.todo = @ \ {t},
                              !.added = @ \/ RowsToAppend(t) # {}]
  /\ UNCHANGED <<manifest, torn, damaged, staging, dryRun, flags, overlap, spent>>

\* Mutant: only the files DRY_RUN.json lists are refreshed in the manifest, not
\* the market activity file the trade plan adds to them.
UpdateManifestOfGenerated ==
  /\ pub.pc = "append" /\ pub.todo = {}
  /\ manifest' = [t \in Targets |-> IF pub.added /\ t \in pub.files \ {"market"}
                                    THEN csv[t] ELSE manifest[t]]
  /\ pub' = IF pub.added THEN [pub EXCEPT !.pc = "syncRuntime"] ELSE IdlePub
  /\ UNCHANGED <<csv, torn, damaged, staging, dryRun, flags, overlap, spent>>

\* update_manifest records digests of the touched files as they are now; with
\* total_rows = 0 "formal CSV and manifest were not modified" and main ends.
UpdateManifest ==
  /\ pub.pc = "append" /\ pub.todo = {}
  /\ manifest' = [t \in Targets |-> IF pub.added /\ t \in pub.files
                                    THEN csv[t] ELSE manifest[t]]
  /\ pub' = IF pub.added THEN [pub EXCEPT !.pc = "syncRuntime"] ELSE IdlePub
  /\ UNCHANGED <<csv, torn, damaged, staging, dryRun, flags, overlap, spent>>

\* Mutant: the except branch restores the manifest only.
AppendFailsKeepsRows ==
  /\ pub.pc = "append"
  /\ \/ /\ pub.todo # {} /\ AppendRaises(First(pub.todo))
        /\ UNCHANGED <<torn, spent>>
     \/ /\ spent["trouble"] < MaxTrouble /\ Spend("trouble")
        /\ torn' = (pub.todo = {} /\ pub.added)
  /\ pub' = [pub EXCEPT !.pc = "restore", !.todo = {}]
  /\ UNCHANGED <<csv, manifest, damaged, staging, dryRun, flags, overlap>>

\* A candidate that cannot be appended, or an operating-system error: the
\* except branch restores every file of the publish and the manifest.
AppendFails ==
  /\ pub.pc = "append"
  /\ \/ /\ pub.todo # {} /\ AppendRaises(First(pub.todo))
        /\ UNCHANGED <<torn, spent>>
     \/ /\ spent["trouble"] < MaxTrouble /\ Spend("trouble")
        /\ torn' = (pub.todo = {} /\ pub.added)   \* write_json cut short
  /\ pub' = [pub EXCEPT !.pc = "restore", !.todo = pub.files]
  /\ UNCHANGED <<csv, manifest, damaged, staging, dryRun, flags, overlap>>

RestoreTarget ==
  /\ pub.pc = "restore" /\ pub.todo # {}
  /\ LET t == First(pub.todo)
     IN /\ csv' = [csv EXCEPT ![t] = pub.original[t]]
        /\ pub' = [pub EXCEPT !.todo = @ \ {t}]
  /\ UNCHANGED <<manifest, torn, damaged, staging, dryRun, flags, overlap, spent>>

RestoreManifest ==
  /\ pub.pc = "restore" /\ pub.todo = {}
  /\ manifest' = pub.originalManifest
  /\ torn' = FALSE
  /\ pub' = IdlePub
  /\ UNCHANGED <<csv, damaged, staging, dryRun, flags, overlap, spent>>

\* A restoration that raises ends the program: nothing after it is restored.
RestoreFails ==
  /\ pub.pc = "restore" /\ spent["trouble"] < MaxTrouble
  /\ pub' = IdlePub
  /\ damaged' = (damaged \/ csv # manifest \/ torn)
  /\ Spend("trouble")
  /\ UNCHANGED <<csv, manifest, torn, staging, dryRun, flags, overlap>>

(***************************************************************************)
(* Publisher: snapshots and DRY_RUN.json after the manifest                 *)
(***************************************************************************)
SyncRuntimeSnapshot ==
  /\ pub.pc = "syncRuntime"
  /\ flags' = [flags EXCEPT !.runtime = FALSE]
  /\ pub' = [pub EXCEPT !.pc = IF "event" \in pub.files THEN "syncNews" ELSE "loadDryRun"]
  /\ UNCHANGED <<formal, staging, dryRun, overlap, spent>>

SyncNewsSnapshot ==
  /\ pub.pc = "syncNews"
  /\ flags' = [flags EXCEPT !.news = FALSE]
  /\ pub' = [pub EXCEPT !.pc = "syncReview"]
  /\ UNCHANGED <<formal, staging, dryRun, overlap, spent>>

SyncEventReview ==
  /\ pub.pc = "syncReview"
  /\ flags' = [flags EXCEPT !.review = FALSE]
  /\ pub' = [pub EXCEPT !.pc = "loadDryRun"]
  /\ UNCHANGED <<formal, staging, dryRun, overlap, spent>>

LoadDryRun ==
  /\ pub.pc = "loadDryRun"
  /\ pub' = [pub EXCEPT !.pc = "syncDryRun", !.dry = dryRun]
  /\ UNCHANGED <<formal, staging, dryRun, flags, overlap, spent>>

SyncDryRun ==
  /\ pub.pc = "syncDryRun"
  /\ dryRun' = [pub.dry EXCEPT !.generated = {},
                               !.published = @ \union pub.files,
                               !.synced = TRUE]
  /\ pub' = IdlePub
  /\ UNCHANGED <<formal, staging, flags, overlap, spent>>

Syncing == {"syncRuntime", "syncNews", "syncReview", "loadDryRun", "syncDryRun"}

\* An error here is not caught: the formal files stay published.
SyncFails ==
  /\ pub.pc \in Syncing /\ spent["trouble"] < MaxTrouble
  /\ pub' = IdlePub
  /\ Spend("trouble")
  /\ UNCHANGED <<formal, staging, dryRun, flags, overlap>>

\* The publisher is killed.  Nothing records how far it came; a manifest that
\* was being written may be left cut short.
Killed ==
  /\ pub.pc \notin {"idle", "reviewed"} /\ spent["trouble"] < MaxTrouble
  /\ \/ torn' = torn
     \/ pub.pc = "append" /\ pub.todo = {} /\ pub.added /\ torn' = TRUE
  /\ damaged' = (damaged \/ csv # manifest \/ torn')
  /\ pub' = IdlePub
  /\ Spend("trouble")
  /\ UNCHANGED <<csv, manifest, staging, dryRun, flags, overlap>>

(***************************************************************************)
(* Specification                                                           *)
(***************************************************************************)
UpdaterNext == (\E d \in Days : DailyPriceDryRun(d)) \/ MarketActivityDryRun

FetcherNext ==
  \/ \E v \in Versions, close \in BOOLEAN : FetchRead(v, close)
  \/ FetchWriteCandidates
  \/ FetchWriteDryRun

ScannerNext ==
  \/ \E E \in Scans : ScanClassify(E)
  \/ ScanWriteCandidate
  \/ \E watch \in BOOLEAN : ScanWriteSnapshots(watch)
  \/ ScanLoadDryRun
  \/ ScanMergeDryRun

AppendNext ==
  \/ AppendCandidate \/ UpdateManifest \/ AppendFails
  \/ RestoreTarget \/ RestoreManifest \/ RestoreFails

SyncNext ==
  \/ SyncRuntimeSnapshot \/ SyncNewsSnapshot \/ SyncEventReview
  \/ LoadDryRun \/ SyncDryRun \/ SyncFails

PublisherNext == Review \/ Refuse \/ Approve \/ AppendNext \/ SyncNext \/ Killed

Next == UpdaterNext \/ FetcherNext \/ ScannerNext \/ PublisherNext

Spec == Init /\ [][Next]_vars

(***************************************************************************)
(* Properties                                                              *)
(***************************************************************************)
DryRunType ==
  [exists : BOOLEAN, generated : SUBSET Targets, published : SUBSET Targets,
   synced : BOOLEAN]

TradeType ==
  [run : Nat, daily : SUBSET Nat, boundTo : Nat, market : SUBSET Nat]

Files == [Targets -> Seq(Row)]

PubPcs == {"idle", "reviewed", "append", "restore"} \union Syncing

PubType ==
  [pc : PubPcs, files : SUBSET Targets, run : TradeType,
   approved : [Targets -> SUBSET Row], todo : SUBSET Targets, added : BOOLEAN,
   original : Files, originalManifest : Files, dry : DryRunType]

\* The types of the variables: formal files are sequences of rows, every
\* process is at one of its steps.
TypeOK ==
  /\ csv \in Files
  /\ manifest \in Files
  /\ torn \in BOOLEAN
  /\ trade \in TradeType
  /\ staged \in [Targets -> SUBSET Row]
  /\ dryRun \in DryRunType
  /\ flags \in [runtime : BOOLEAN, news : BOOLEAN, review : BOOLEAN]
  /\ pub \in PubType
  /\ fetcher \in [pc : {"idle", "fetched", "written"}, generated : SUBSET Targets,
                  published : SUBSET Targets, ver : Nat]
  /\ scanner \in [pc : {"idle", "classified", "written", "staged", "merging"},
                  events : SUBSET Nat, dry : DryRunType]
  /\ damaged \in BOOLEAN
  /\ overlap \in BOOLEAN
  /\ spent \in [Kinds -> Nat]

\* publish_generated_candidates_atomically is "one rollback-protected unit":
\* when no publisher is inside it, every formal CSV is what the manifest
\* attests and the manifest is readable - whatever candidates failed, whatever
\* write raised and whatever the staging programs did meanwhile.  A killed
\* publisher and a failed restoration are the two exceptions.
AttestedWhenIdle ==
  ~damaged /\ pub.pc \notin {"append", "restore"} => csv = manifest /\ ~torn

\* Formal authority is append-only: what the manifest attests is always a
\* prefix of the file, also in the middle of a publish or of a rollback, after
\* a kill and after a restoration that stopped half-way.
ManifestIsPrefix == \A t \in Targets : IsPrefix(manifest[t], csv[t])

\* No Date/Key is ever in a formal file twice: not by a repeated publish, by a
\* retry of one that was killed, nor by candidates staged from a stale read.
NoDuplicateKeys ==
  \A t \in Targets : \A i, j \in DOMAIN csv[t] :
    csv[t][i].key = csv[t][j].key => i = j

\* Daily price and market activity hold the same trading dates whenever no
\* publisher is at work (same-run TWSE lineage, resolve_trade_date_publish_plan).
TradePairInStep ==
  ~damaged /\ pub.pc \notin {"append", "restore"} =>
    FormalKeys("daily") = FormalKeys("market")

\* launcher_gate_status lets the user in only when there is a review package and
\* nothing waits for the Owner: no candidate, no flag of the three snapshots.
GateReady ==
  /\ dryRun.exists /\ PublishFiles(dryRun) = {}
  /\ ~flags.runtime /\ ~flags.news /\ ~flags.review

AllIdle == pub.pc = "idle" /\ StagingIdle

EventsPublished == Keys(staged["event"]) \subseteq FormalKeys("event")

\* When the gate is open, no event that is in the candidate now is missing from
\* the formal file - as long as no two of the programs overlapped: what waits in
\* the candidate is not cleared from DRY_RUN.json and the snapshots without having
\* been published.  It is a claim about the candidate as it is.  A later scan
\* writes its own events over those of an earlier one, and a fetch may empty the
\* candidate: an event that was not published by then is in no file that the gate
\* looks at, and the gate may open without it.
ReadyGateHidesNothing == ~overlap /\ AllIdle /\ GateReady => EventsPublished

\* The same without the assumption: sync_dry_run_after_publish writes that
\* "the candidate CSV has been written to the formal CSV".
SyncedMeansPublished ==
  AllIdle /\ dryRun.synced /\ dryRun.generated = {} => EventsPublished

\* "Candidate identity changed after Owner review; formal publish refused":
\* every row a publish appends was in the candidate the Owner reviewed.
OnlyReviewedRows ==
  [][\A t \in Targets :
       ToSet(csv'[t]) \subseteq ToSet(csv[t]) \union pub.approved[t]]_vars

(***************************************************************************)
(* A publish implements the atomic unit: while it is appending or restoring *)
(* the abstract files are still those it started from.                      *)
(***************************************************************************)
FileView == IF pub.pc \in {"append", "restore"} THEN pub.original ELSE csv

Unit == INSTANCE AuthorityUnit
          WITH Contents <- Seq(Row), file <- FileView, attested <- manifest,
               broken <- damaged

\* A publish changes files and attestations in one step, or nothing at all.
ImplementsUnit == Unit!Spec

=============================================================================
