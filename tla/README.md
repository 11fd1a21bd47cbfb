# P1008 – a TLA+ verification project

P1008 keeps a set of *formal* CSV files (prices, market activity, macro data,
events) whose content is attested by one manifest (`CSV_AUTHORITY_MANIFEST.json`,
a SHA-256 and a row count per file).  Programs stage candidates, an Owner reviews
and approves them, a publisher appends them; everything else (war room, reports,
research plugin) reads the formal files.  The programs are separate Python
processes which share files; hardly any of them takes a lock.

This directory holds TLA+ models of these programs, written from the source, TLC
configurations that check them on small instances, and theorems about them that
TLAPS checks for all values of the constants.

## 1 Inventory

Paths are relative to `src/`.  "hard" lists what makes a part difficult.

| component | source | state | operations | interacts through | hard | correct means |
|---|---|---|---|---|---|---|
| Owner publish | `tools/owner_publish_csv_v2.py` (`main`) | formal CSVs, manifest, DRY_RUN.json, three runtime snapshots | review, approve, revalidate, append, rollback, manifest, four synchronisations | files; started and killed by the launcher | partial failure, kill, stale candidates | one rollback-protected unit; append-only; no key twice; only what was reviewed |
| Data fetcher | `tools/warroom_data_fetcher_v2.py` | candidates of the day, DRY_RUN.json, snapshot | fetch, write candidates, write DRY_RUN.json | files read by publisher and scanner | runs at any time, no lock | nothing staged is forgotten |
| News scanner | `tools/warroom_news_scanner_v2.py`, `..._v1.py` | event candidate, DRY_RUN.json (merge), two snapshots | classify, write candidate, merge | the same files | read–modify–write of DRY_RUN.json | same |
| TWSE updaters | `tools/warroom_daily_price_updater.py`, `tools/warroom_market_activity_updater.py` | candidates per run, status files, `run.lock` | read, fetch, build candidate, publish (or dry run) | formal CSVs, journaled publishers | long fetch between read and publish, stale locks, candidates borrowed from a dry run | market dates have prices; the anchor stays |
| Journaled publishers | `owner_publish_csv_v2.py` (`publish_daily_price_reconcile`, `publish_market_activity_append`) | CSV, manifest, backup directory, journal, temporary files | validate, back up, two replacements, verify, restore | manifest shared with every other publisher | kill between two `os.replace`, failed restoration, overlap | pair changes together, or a journal can undo it |
| One-off publishers | same file (remediation, gaps, macro stage 2b, ...), `tools/quarterly_owner_promotion.py` | same plus the runtime database, fact files | same protocol with two or three files, in another order each | same | everyday publishes in between, errors while taking back | nothing published is lost; what is torn can be undone |
| Launcher job manager | `tools/p1008_app_server.py` | job state (memory and `runtime/p1008_app_state.json`), active thread | start, owner publish, refresh, restart | HTTP threads, job thread, subprocesses | state in two places, restart, statuses | one job at a time; what is shown is what happened |
| Launcher pipeline | `_run_job_inner` of the same file | steps and statuses of a run | the ordered steps, preconditions, aggregation | every tool above | one step of several failing | a failure is never shown as success |
| Git sync | `tools/p1008_authority_git_sync.py` | none (its result is kept by the launcher) | hash, ask the remote, compare with a commit | working tree, Git | files, branch and line ends change between the looks | SYNCED only of what the manifest attests |
| War room opener | `tools/p1008_open_warroom.py` | none | probe ports, start a server, wait | servers, ports, HEAD | two openers, slow or other servers, Git fails, HEAD moves | no second server without a reason |
| Freshness | `tools/warroom_authority_freshness.py` | status files | evaluate | launcher | stale status | – |
| Report trigger and governance | `tools/warroom_report_trigger_runtime.py`, `warroom_report_governance.py`, `warroom_official_ir_ingestion.py`, `warroom_publication_authorization_gate.py` | evidence, receipts, latest decision, index of issuances | scan, integrate, evaluate, seal, issue, consume | clock, manifest, library | two files per decision, look and write without a lock, kills | chain unbroken, nothing of a decision lost, one search per permission |
| Phase B1 | `phaseb1_pipeline.py`, `reporting/war_report_production_*.py` | run directories, their manifests | analyse, compile, review | publishers, trigger, library | two builders, publishes and rollbacks in between | a report rests on the authority it names |
| Report library: periodic reports, quarters, major events | `tools/warroom_periodic_report_v1.py`, `warroom_rolling_brief.py`, `warroom_quarterly_*.py`, `warroom_major_event_*.py` | two manifests, artifacts, histories, Owner files, receipts | bootstrap, complete, return, persist, decide, authorise, upsert | one another, through two manifests without a lock | transactions over nine files, kills, overlap | what one program leaves the next accepts |
| Ledgers and replay | research plugin `ledgers/store.py`, `events/catalog.py`, `projections/replay.py` | JSONL ledgers | append, read, replay | agents | two writers, torn lines, accepted but impossible events | damage is bounded; replay tells what happened |
| Research plugin runtime | `runtime/`, `plugin_module/` | briefs: a run's file and the latest candidate | route, validate, ask, write | formal files, periodic report | two files, runs of one name, kills | what is shown is on file |
| Research adapters | `adapters/`, `orchestrator/research_content_integration.py` | scans, in memory, in two registries | authorise, search once, integrate, hand over | provider, manifest, evidence | same id twice, publishes between the looks | one call per scan; handoffs have their grounds and name their authority |
| Fact database | `db/tools/p1008_db.py` | SQLite facts, backups, lease, lock | migrate, back up, restore, lease | every connector | kill between two steps, lease that runs out | every migration has a backup from before it |
| Release pipeline | `db/tools/p2_03a_pipeline.py` | candidate, registry, approval, pointer | build, register, approve, publish four times | formal files | candidate changed under it | only approved bytes are pointed at |
| Connectors, legacy migrator | `db/tools/p2_03b_*_connector.py`, `p2_02_legacy_migrator.py` | a directory per run: raw documents, SQLite, candidate, DRY_RUN.json | fetch, parse, insert, compare, summarise | formal files | shared directory, statement-wise commits, kills | PASS describes its directory; no dangling rows |
| Foreign holding publishers | `db/tools/p2_03b_07_*publisher.py`, `..._normalizer.py` | master, manifest, backups | build, approve, publish, restore | daily publish | stale baselines, kills | manifest states the files, or a backup does |
| Builders, KPIs, UI, conformance drivers | analysis, reporting, `*.html` | none | pure functions, rendering | – | – | – |

`PROJECT.json` lists these components with what is modelled of each, and under
"hazards" the places where the code is hard to test.

## 2 Plan

Order of work, most important behaviour first:

1. `AuthorityUnit` – the promise every publisher makes: file and attestation
   change together.  **done**
2. `OwnerPublish` – publisher, fetcher, scanner, dry-run updaters over shared
   files; refines `AuthorityUnit`.  **done**, proofs in `OwnerPublish_proofs`.
3. `JournalPublish` – formal updaters and journaled publishers; refines
   `AuthorityUnit`.  **done**, proofs in `JournalPublish_proofs`.
4. `JobManager` – the launcher's job state in memory and on disk, the pipelines of
   the job thread, children with time limits, restart, refresh, the gate;
   liveness: a started job ends.  **done**, proofs in `JobManager_proofs`.
5. The report area: `ReportTrigger`, `TriggerIssuance`, `ReportProduction`,
   `ReportLibrary`, `ResearchLedger`, `DiscoveryScan`, `ShadowBrief`, composed in
   `MCReports`.  **done**, proofs in `DiscoveryScan_proofs`, `ReportLibrary_proofs` and
   `ReportPrograms_proofs` (the other five).
6. The fact area and the programs around it: `FactDatabase`, `ReleasePipeline`,
   `StagingRuns`, `ForeignHolding`, `OneOffPublish`, `MetricRoute`, `NewsScan`,
   `AuthorityGitSync`, `WarroomOpener`, composed in `MCFacts`.  **done**, proofs in
   `FactDatabase_proofs` (`FactDatabase`, `StagingRuns`) and `OwnerTools_proofs` (the
   other seven).
7. Left: two market updaters at the same time (their lock), two servers on one state
   file *after* they have come about, the updaters' status files and the freshness
   check that reads them, KPI formulas against their registry.

Every safety property of a passing run is a theorem; the liveness property `JobEnds` stays
with TLC.

## 3 The modules

| module | models | used by |
|---|---|---|
| `AuthorityUnit` | abstract: files and attestations of a set of targets change together, or a publish is broken | refined by the next two |
| `OwnerPublish` | `main` of the publisher, data fetcher, news scanner, dry runs of the updaters | `MCOwnerPublish`, `OwnerPublish_proofs` |
| `JournalPublish` | the updaters in formal mode and the journaled publishers | `MCJournalPublish`, `JournalPublish_proofs` |
| `JobManager` | the launcher's server: jobs, pipelines, state file, restarts | `MCJobManager`, `JobManager_proofs` |
| `FactDatabase` | migrations, backups, restore and lease of the SQLite store | `MCFacts`, `FactDatabase_proofs` |
| `ReleasePipeline` | one run of the offline release suite | `MCFacts`, `OwnerTools_proofs` |
| `StagingRuns` | seven connectors and the legacy migrator, as step sequences | `MCFacts`, `FactDatabase_proofs` |
| `ForeignHolding` | two releases of the formal master around the daily publish | `MCFacts`, `OwnerTools_proofs` |
| `OneOffPublish` | six publishers for one occasion, the promotion of a quarter | `MCFacts`, `OwnerTools_proofs` |
| `MetricRoute` | one metric's sources, transports and deadlines | `MCFacts`, `OwnerTools_proofs` |
| `NewsScan` | sources left alone between scans, corroboration of events | `MCFacts`, `OwnerTools_proofs` |
| `AuthorityGitSync` | the comparison of working tree and canonical commit | `MCFacts`, `OwnerTools_proofs` |
| `WarroomOpener` | the search for a server or a free port | `MCFacts`, `OwnerTools_proofs` |
| `ReportTrigger` | from a scan to the sealed and to the latest decision | `MCReports`, `ReportPrograms_proofs` |
| `TriggerIssuance` | permissions to search once | `MCReports`, `ReportPrograms_proofs` |
| `ReportProduction` | Phase B1 runs, from their name to the completed report | `MCReports` (twice), `ReportPrograms_proofs` |
| `ReportLibrary` | the two manifests and every program that rewrites them | `MCReports`, `ReportLibrary_proofs` |
| `ResearchLedger` | append and replay of one ledger | `MCReports`, `ReportPrograms_proofs` |
| `DiscoveryScan` | a governed search and its handoff | `MCReports`, `DiscoveryScan_proofs` |
| `ShadowBrief` | the manual shadow run and the brief a report shows | `MCReports`, `ReportPrograms_proofs` |

### AuthorityUnit

`file[t]`, `attested[t]` and `broken`.  `Publish(S)` changes the files of `S` and
their attestations in one step; `Break(S)` stands for a publisher that died or
could not restore, after which nothing is promised about `S` (and only `S`).

### OwnerPublish

Each process has a program counter; one action is one file operation, or a run
of them which no other process can tell apart.

* Data.  `csv` (formal files, sequences of rows), `manifest` (the content each entry's
  digest stands for), `torn` (the manifest was cut short by a kill), `trade` (latest
  candidates of the dry-run updaters, with their run), `staged` and `dryRun` (the files
  of one staging date), `flags` (the three runtime snapshots).  A row is a key
  with a version; everything else in a row is left out.
* Publisher.  `Review` and `Refuse` are `build_publish_readiness` and what the Owner
  answers; `Approve` is the second evaluation (`SameIdentity`) and the beginning of
  `publish_generated_candidates_atomically`; `AppendCandidate` .. `UpdateManifest` its
  try block, `RestoreTarget`, `RestoreManifest`, `RestoreFails` its except block;
  `SyncRuntimeSnapshot` .. `SyncDryRun` the four synchronisations, where reading and
  writing `DRY_RUN.json` are separate.  `Killed` may happen between any two of them.
* Fetcher and scanner.  The fetcher reads, writes the candidate and then
  `DRY_RUN.json` whole; the scanner classifies against the formal keys it read,
  writes candidate and snapshots, and merges itself into `DRY_RUN.json` by a read and
  a later write.
* Updaters.  One action each: they only write candidates of their own run here.

The gate looks at the candidate as it is.  Events that a later scan wrote over
(`warroom_news_scanner_v2.py:1731`) or a fetch emptied out of it
(`warroom_data_fetcher_v2.py:2425`) before they were published are in no file the gate
looks at; the model does this as the code does, and `ReadyGateHidesNothing` is about the
events in the candidate only.

Left out: the `fx_trend` target (appends like the macro one), the `--datasets`
selection and market-closed datasets, more than one staging date, the fetcher's
owner event input, torn `DRY_RUN.json`.  An append is one write.

### JournalPublish

`csv` and `manifest` as before, as sets of dates; `journals`, with the backup each
directory holds; `temps`, left by kills between writing and renaming; `lock`;
`status`.  An updater reads the formal files (`Start`), takes the lock (market only;
`LockBusy`, `TakeStaleLock`), fetches, builds its candidate, and publishes: `Prepare`
or `RefuseToPublish`, `Backup`, `ReplaceCsv`, `ReplaceManifest`, `Verify`, or after an
error `RestoreCsv`, `RestoreManifest`, `Settle`.  TWSE publishes trading days one by
one, and the daily updater may drop dates that TWSE does not confirm (`Reconciled`).
`FetchDaily` with `--dry-run` leaves a candidate and publishes nothing; `Overlays` are the
candidates a market run may be given with `--daily-price-run-dir`: dates it prices from one
before it asks the formal file (`Priced`).  Dates that had no formal price then are
`borrowed`, a history variable.

Left out: columns other than the date, historical revisions, the metadata
normalisation, dry runs of the market updater (they are in `OwnerPublish`).  A journal write that raises has
the effect of a kill.

### JobManager

`mem` and `disk` are `self.state` and `runtime/p1008_app_state.json`; `thread` is the
job thread with its local variables (`component_failures`, the flag
`authority_reconciliation_required`, the daily status, two hash baselines); `child`
the program it waits for; `orphan` a publisher that outlived its server; `formal` the
hashes of the formal files, as counters.  `truth` is a history variable: whether
something went wrong in the latest job, and whether a formal file was changed by
somebody else while its hashes were watched, and whether an exception was raised that is not
noted yet (`unnoted`).  An owner publish sets its verdict under the lock and then reads on
(`p1008_app_server.py:1219-1223`); if that raises, the lock is released and `_add_error`
takes it again (1226): `SummaryRaises` and `NoteRaised` are two steps with requests and
kills in between.

One action is one section of `_run_job_inner` or one state the publish job
persists; during a section the status stays `RUNNING`, so what is persisted inside
it is seen only as a step that is running (`StartChild`).  `Raises` stands for any
exception, `TimesOut` for the time limit every child has, `Killed` for a server that
ends without notice (perhaps while the state file is written), `Restart` for
`_initial_state`.  `Refresh` and `AuthorityGitSync` are the two requests that replace
memory by file and file by memory.

Of a component's status only the class matters that `_aggregate_current_run_status`
distinguishes: `OK` stands for all that are neither failed, blocked nor partial.

Left out: what a second server does to the same state file (how it comes about is in
`WarroomOpener`); the result of the Git
synchronisation; requests that keep no job state; messages, logs and labels.

### Composition: MCFacts and MCReports

The two areas consist of programs that share no files with one another while they
run, or share them only with publishers, which each module models as far as its
programs can see them.  So a behaviour of `MCFacts` or `MCReports` is a behaviour of one
`part`, chosen at the start; the others stand still.  That checks every part in one
run without the product of their states.  What one part takes over from another (a
trigger, a permission, an analysis run) is a free choice in the module that takes it.

Both MC modules extend the modules they compose, so that the runs check the very
definitions that the proofs are about; for the same reason two modules of an
area share no name.  `ReportProduction` is there a second time, as the instance `MonthRun`,
with a monthly trigger.
`LibraryWork` is the next-state relation of `ReportLibrary` with the kinds of reports and
the mishaps limited by the part.

### FactDatabase

`db` is the committed state of the database, `lock` the operating system lock, `step` what
each process is at.  `StartMigrate`, `StartBackup`, `CopyDatabase`, `PlaceBackup`,
`WriteManifest`, `RecordBackup`, `DryRun`, `ApplyOne` are `migrate` and `backup` in
order; `AcquireLease`, `WriteRow`, `EndLease` a writer, `LeaseExpires` its 60
seconds.  The connection commits each statement of its own, so `Kill` between any two
leaves what was written.  `ShipMigration` is a file that arrives after the pending ones
were read, `NextSecond` the resolution of a backup's name.

### ReleasePipeline

`run_suite` from the first hash to the summary: the roots in order, and for each of the
four publisher calls verification, copy, placing, second verification, pointer,
activation.  `EditCandidate` changes a file of the candidate, puts it back, or reissues it with a
consistent manifest, any number of times; `FormalPublish` changes what the guards hash.  A reissue between
the check and the copy is placed under a pointer that names the approved hash:
`OnlyApprovedIsPointedAt` says so and excludes nothing else.

### StagingRuns

A connector is a sequence of steps (`Connector[kind]`), each with what it does and its
argument, and one action per kind of step; `Needs` lists the rows a row refers to.  Two
runs share a directory.  `Raise` may happen at any step, `KillRun` too.  `FormalChange` is a
publish of the formal files, `FormalRestored` one that is taken back
(`p2_03b_07_publisher.py:181`), which brings the hash back that a run has taken; the runs
that have taken theirs by then are `undone`.

### ForeignHolding

The master is a version, the daily file a number of rows, the manifest one of each.
Builder, approval and publisher of both releases; `BackUp`, `WriteMaster`,
`WriteAuthority`, `VerifyPublished`, and after an error `RestoreFirst` and
`RestoreSecond` in either order, since the code iterates over a set.  The daily publish
and its attestation are two steps.  The metadata publisher reads what it protects after
it has verified (line 86): a daily publish in between loses its entry and the result
still says PASS; the properties exclude such an overlap (`disturbed`).

### OneOffPublish

Each publisher is a sequence of steps as in `StagingRuns`.  A content is the set of
changes that made it, so that something lost or restored shows as a missing element.
`OthersAdd` is an everyday publish and `TakeRowBack` its restoration.  The runtime database
is in WAL mode (`db/tools/p1008_db.py:166`): `WriteHistory` commits a row, which is in the main
file or only in its `-wal` file (`wal`) until a `Checkpoint`; a publisher hashes and copies the
main file only (`owner_publish_csv_v2.py:2002, 2057-2064`), so a row that is in the `-wal` file
alone when it compares may be dropped without anyone noticing.  `Fail`, `RestoreFile`, `Settle` are the except block, `KillOneOff` is possible throughout.  Three
programs read the manifest before they hash (removal, gaps, initial activity): what
is published in that window is overwritten unnoticed (`Unprotected`).  The properties except
what came too late for a comparison, and everyday publishes taken back after one (`unseen`).  One operator runs one publisher at a time.

### MetricRoute

`now` and the ceilings, in units of two seconds; `AskNext`, `GiveUp`, `NotStarted`, `Connect`, `Read`,
`RunPowerShell`, `SourceFails`, `Delivers` are the loop over sources and transports.
A blocking call takes between nothing and its timeout plus `MaxStall`.  The code does not
bound how late one is: the timeout holds anew for each operation of a socket, so for connecting,
TLS, sending, headers and every bit of a piece, and for each of the up to ten redirects
`urlopen` follows by itself (`warroom_data_fetcher_v2.py:555`); a name is looked up without
one.  So nothing is assumed of `MaxStall`, and `stalled` is set when a call comes back later
than the reserve allows for: `RouteInTime` then says that the route is over when that one call is
back.  The stock's close, the yen and TAIEX have no budget of their own and are left out.

### NewsScan

`Begin`, `Ask` or `PassOver` per source, `Save` (perhaps `Truncate`d by a kill) on the state file, and
`Classify` on sets of rows that tell of one event.  `Primaries` and `CorroborationCount` are
the grouping and counting of the code; `ReviewRequired` its level rule.

### AuthorityGitSync

The evaluation step by step beside `ReplaceFile`, `Attest`, `PutBack`, `PublisherDies`
(the working tree) and `Push`, `PushElsewhere`, `Fetch` (Git).  It changes nothing.  `overtaken`
records that a publisher or an editor was at work during the look.  Contents are a version
with its line ends, which `ChangeLineEnds` changes: the manifest's hashes are of bytes, but Git
compares what its filters make of them (`hash-object --path`,
`p1008_authority_git_sync.py:345`; `Clean`), so a working tree with other line ends than the
commit is SYNCED, as the repository's tests expect.  Where Git converts a file, a fresh
checkout need not have the hash its manifest lists.

### WarroomOpener

Openers probe the ports in order, start a server on the first free one and wait; a
server reads HEAD, binds and listens, or ends (`ReadHead`, `Bind`, `Ends`).  Git may fail
either of them, which both take for a HEAD `Unknown`.  `there` is what an opener could have
found when it began, unless asked for a fresh server, without those that did not answer in
time or told of another version or source manifest.  An answer that breaks off or is no JSON
ends the opener.

### ReportTrigger, TriggerIssuance

`ScanAndIngest` is the source scan and its ingestion; `Evaluate`, `LookForReceipt`,
`WriteReceipt`, `PointLatest` are the decision, the look whether its id is on file
(`warroom_report_trigger_runtime.py:162`), its own file (171) and the latest one, with
`KillEvaluator` in between and two evaluators.  Two that look before either writes replace
each other's receipt (`replaced`); both are of one decision (`SameDecision`), with another
baseline perhaps.  `Identity` is the deduplication against the previous latest decision.
`TriggerIssuance` has issuers, which rewrite the index without a lock, and searchers,
which take one: load, lock, read again, mark, verify, release, call.  A killed searcher
leaves the lock.  The issuer (`issue_trusted_trigger_issuance`) has no caller but tests.

### ReportProduction

A run is named after the trigger's receipt and the manifest.  `authority` is the version
of the formal files and the one the manifest states; a publish replaces one and then
the other, or takes them back.  Builders go from the run directory (`OpenRun`, `Analyse`,
`HashAfter`, `RecordAnalysis`) to the report (`FindRun`, then the checkpoint `RecomputeId`,
`Rebuild`, `HashAgain`, then `HashBefore`, `Compile`, `CheckProtected`, `RecordReport`,
`Complete`); a directory left by a killed builder keeps its name until manifest or trigger
changes.  A publisher that changes something within the checkpoint is remembered with the
report (`moved`).  The hashes of the protected files (`protected_state_hashes`) are taken at one
moment; of the checkpoint's two the second can only refuse more.

### ReportLibrary

`disk` holds every file the manifests list, and both manifests.  A governed program
validates everything (`Valid`), plans all files and replaces them one by one
(`Replace`).  After an error (`RollBack`) the originals are written back one by one in the same
order; a file that cannot be written back is passed over and may be torn (`RestoreFails`,
`warroom_major_event_report_persistence.py:309-316`), and a kill leaves everything as it is.
`CompleteQuarter`, `ImportReturn`,
`ApplyReturn`, `PersistMajor`, `Render`, `Decide`, `Authorize` and `Upsert` (the periodic report, which
validates nothing) plan.  `spoilt` collects what happened that the code does not
guard against: kills, overlaps, files that could not be written back, a periodic report that
was broken off, dropped the governed latest reports or made one manifest alone (a report that
is not eligible writes the runtime ledger only), a second return.

Reading the two manifests is one step, snapshots of editorial versions and decision
files are folded into the files they belong to, REVISION_REQUIRED behaves as REJECT; torn
manifests and legacy entries without a revision are left out.

### ResearchLedger

`log` is the sequence of lines.  `ReadToAppend` reads and checks all of them, `WriteLine`
appends later without a lock, `Kill` may leave half a line, or one that lacks only its
end and swallows the next.  `Replay` is the fold of the transitions.
A proposed resolution (`KNOWLEDGE_GAP_RESOLUTION_PROPOSED`) is an event without a state: the
replay counts it and asks for no transition, whatever the gap's state is.

### DiscoveryScan

Two registries of scans (the adapter's and the orchestrator's), publishes of files and
manifest, evidence as small records (class, source, chain, event, claim).  `Construct`,
`VerifyAuthority`, `Mint`, `Consume`, `Spend` and `Search` go from the authorisation to the
one call of the provider, `Staged`, `Deduplicated`, `CrossValidated` and `Conclude` from what was
found to the handoff.  In production only
`integrate_official_ir` is called; authorisation and search have test callers.

### ShadowBrief

Packets are routed and validated, the baseline is read file by file, the model is asked
at most once; `Look`, `File` and `Latest` are the question whether the run's name is
free, the run's file, and the latest candidate.  `ShadowCandidate` is what a periodic
report of a day shows.  Its callers are tests (`execute_plugin_shadow`).

## 4 What is checked

| run | properties | states | shows |
|---|---|---|---|
| `owner_publish` | `AttestedWhenIdle`, `NoDuplicateKeys`, `TradePairInStep`, `ImplementsUnit` | 428 005 | publishes are atomic, keys unique, price and market in step, among staging runs, kills and errors |
| `owner_publish_staging` | `ManifestIsPrefix`, `ReadyGateHidesNothing` | 486 183 | formal files only grow; without overlap the gate never opens while the candidate holds an unpublished event |
| `owner_publish_reviewed` | `OnlyReviewedRows` | violated | finding 1 |
| `owner_publish_synced` | `SyncedMeansPublished` | violated | finding 2 |
| `journal_publish` | `TornPairHasEvidence`, `MarketWithinDaily`, `ImplementsUnit` | 303 450 | publishes are atomic; what a kill leaves can be undone from its journal; market dates have formal prices, but for borrowed ones |
| `journal_overlap` | `PairsAttested` | violated | finding 3 |
| `job_manager` | `NoSilentFailure`, `ReadyGateUnchanged`, `VerdictKept`, `JobEnds` | 89 993 | no failure is lost but between verdict and note, foreign changes close the gate unless a successful owner publish excuses them, verdicts stay, every job ends |
| `job_interrupted` | `InterruptedStays` | violated | finding 4 |
| `job_refresh` | `RefreshReadsVerdict` | violated | finding 5 |
| `facts` | see below | 2 476 833 | nine parts around the fact database and the sources |
| `reports` | see below | 1 096 793 | ten parts from a trigger to the library |
| `reports_returns` | `ReturnsFollowReturns` | violated | finding 6 |

Type invariants are theorems (section 5), those of the first four modules by name, and not
checked by TLC as well.

| part of `facts` | properties | each says |
|---|---|---|
| database | `EveryMigrationHasItsWayBack`, `NeverTakenFromALivingWriter` | a backup from before every applied migration exists; a lease changes hands only when its owner writes no more, expired or not |
| release | `OnlyApprovedIsPointedAt`, `PassMeansThreeRefusals` | the pointer names what was approved; the suite passes only after three refusals, of which the second may be for an edit that was put back |
| staging | `PassDescribesItsDirectory`, `NoDanglingRows` | a PASS tells of the documents, database and candidate beside it, and of the master it hashed unless a publish was taken back; no row refers to a missing one |
| holding | `AuthorityStatesTheFiles`, `TornPairHasBackup` | between publishers the manifest states the files, and where it does not, the backup holds the pair |
| one-off | `TornFileHasBackup`, `NothingIsLost` | the same for up to three files; what was published before the last comparison stays |
| route | `RouteInTime`, `SharesAreKept` | lateness does not add up: a route ends by its deadline, or with the one call that came back later than the reserve; neither kind of source uses up the other's time |
| news | `SourcesAreLeftAlone`, `OneMediumIsNotEnough` | a source that refused has its rest; one medium alone never raises an event to review |
| sync | `SyncedMeansAttested` | SYNCED is only said of bytes the manifest attests and of the commit Git makes of them |
| opener | `SecondServerIsExplained` | a second server of one HEAD was asked for, could not be spared because the first was not listening, silent, of another version or in a sandbox, or was started for another HEAD |

| part of `reports` | properties | each says |
|---|---|---|
| trigger | `ChainUnbroken` | a decision that revises another has it on file, one revision earlier, with other claims; the latest is on file or was replaced by a receipt of the same decision |
| issuance | `OneCallUnlessRevived` | a permission leads to one search, unless an issuer revived it |
| quarterly, monthly | `ReportRestsOnNamedAuthority`, `ReviewIsNeverTakenBack` | a quarterly report rests on the files its run id names, unless a publish fell into the checkpoint; OWNER_REVIEW_REQUIRED stays |
| library, shared, event | `UsableUnlessSpoilt`, `NoReceiptAgainstTheOwner` | what a program leaves the next accepts, but for named mishaps; a permission to publish stands beside the Owner's approval of the same revision |
| ledger | `DamageIsBounded`, `ReplayTellsTheWholeStory` | overlapping or killed appenders spoil no more than their own records; a replayed state came about in the permitted order, and a retired gap went into no other |
| discovery | `OneCallPerScan`, `HandoffIsGrounded` | a scan reaches the provider once; a handoff rests on authority or official evidence, or on two media of different source and chain (of one claim only beside official evidence), and names its authority |
| brief | `ShownBriefIsBorneOut` | what a periodic report shows is on file as a run of that content |

### Bounds

* `owner_publish`: two days, two dry runs of the daily updater, one fetch, one
  scan, two troubles.  Two days and two dry runs let a candidate be replaced by a
  later one, and a publish that is retried meet rows already there; two troubles let
  a publish fail *and* its restoration fail, or a killed publish be followed by
  another one that is killed.
* `owner_publish_staging`: two scans (with different, equal or no events) around one
  fetch on one day, one trouble: the three writers of `DRY_RUN.json` in any order.
* `journal_publish`: one updater of each kind, started one after the other
  (`Serial`), four runs, days 1..4 of which 2 is a holiday, three troubles: a publish
  killed half-way, two more runs upon what it left, a failing restoration in one of
  them.  `Serial` is the order the launcher uses; `journal_overlap` drops it.
* `job_manager`: two jobs, so that what a killed one left (an orphan, a stale file)
  meets the next; two troubles; one foreign change, since one suffices to be
  missed.

* `facts`: two processes, three migrations of which the last one fails, two rows, two
  backups; two runs of each connector; two versions of a formal file; two occasional
  publishes with two reviews and one everyday row (a behaviour is not followed further
  once something came too late for a comparison, since nothing is promised after it); the route's times in units of two seconds
  (30, 26, 4, reserve 1; 4, 5, 10 per transport; a call up to 2 late, so later than the reserve), one redirect instead of three; a cooldown
  and a week of one unit, two addresses per source, events told of by at most two rows;
  two governed files and commits, one look (nothing is carried over to the next); two
  ports, two servers.  Each is
  the least at which the hazard occurs: two of whatever overlaps, a second attempt after
  each mishap.
* `reports`: two processes, two versions, two issuances, two revisions, one return (two
  in `reports_returns`), one kind of mishap per behaviour, three lines of a ledger, two
  scans, two publishes, eight changes for the builders (a report that rests on other files
  needs six); for the brief eight deliveries, two days, two runs, two of
  the four baseline files.  Processes and versions are symmetric; all properties are
  safety.  A quarter under two programs, a quarter, and an event are parts of their
  own; a quarter *and* an event are one part without mishaps.

All bounds are constants that end in `Max...`, or sets given in the `MC` modules.
Deadlock is not checked: when the bounds are used up a model stops, and so does
the program when nobody starts it.

### Fairness

No part of `facts` or `reports` states any: they are safety only.  Only `JobEnds` needs any: `WF_vars(ThreadNext)`, the job thread keeps running.  It is
an ordinary thread that waits for nothing but its lock, which no handler keeps while
it waits for something else, and for children.  That a child ends is *not* assumed:
it may hang, and then the time limit (`subprocess.run(timeout=...)`, the deadline of
`_run_bat_step`) is the thread's own step.  Nor is it assumed that the Owner, TWSE or
a staging program ever does anything; the other modules have safety properties
only.

### Mutants

For every property of a passing run `PROJECT.json` names a definition and a plausible
bug in it (a definition marked "Mutant" in the module, which nothing uses) under
which the run finds the property violated.

## 5 What is proved

Of the 40 properties of the passing runs, 39 are theorems for all values of the
constants that satisfy the modules' assumptions; the last paragraph says which is not
and why.  `PROJECT.json` lists the theorems.  No part of a proof is taken on trust.

The assumptions are named in the modules and checked by TLC on every run: bounds are
naturals and sets of days, appenders and processes finite; the two kinds of updaters, and
quarters and major events, are different things; `Nothing`, `None`, `Absent` are no value they
stand beside (`NothingIsNoBackup`, `NoneIsNothing`, `AbsentIsNoContent`); every governed
file is a file (`GovernedAreFiles`); there is at least one migration, one port, one week
(`FactDatabaseAssumption`, `PortsAreARange`, `SpansAreTimes`); `NoMode` is none of the modes
(`NoModeIsNone`), `NoEvent` no event (`NoEventIsNoEvent`); a dry run is one of the eight
connectors (`KindsAreKnown`); a delivery's days are numbers (`DaysAreNumbers`); the times of a
route fit together, as the code checks (`MetricRouteAssumption`).  Nothing is assumed of how
fast or reliable the environment is.

`OwnerPublish_proofs`, for all `Days`, `Scans`, `Versions` and bounds that satisfy the
module's assumptions (finite sets of naturals, natural bounds):

| theorem | states |
|---|---|
| `TypeCorrect` | `Spec => []TypeOK` |
| `FormalFilesAttested` | `Spec => []AttestedWhenIdle` |
| `PublishIsAtomic` | `Spec => ImplementsUnit` |
| `AuthorityIsAppendOnly` | `Spec => []ManifestIsPrefix` |
| `KeysStayUnique` | `Spec => []NoDuplicateKeys` |
| `TradePairKept` | `Spec => []TradePairInStep` |
| `OpenGateHidesNothing` | `Spec => []ReadyGateHidesNothing` |

The invariant behind the second and third is `Inv`: types, finiteness of the
candidate sets (`Finite`; the rows appended are a sequence made from a finite set), and
`UnitInv`.  `AttestedWhenIdle` alone is not inductive: at the step that ends a
restoration one has to know that every file but those in `todo` holds its original
(`RestoreInv`), that the originals are what the manifest attests (`OriginalsInv`), that
nothing was appended when `added` is false (`AppendInv`) and that a review is never
about nothing (`ReviewedInv`).  For the refinement each action maps to a stutter,
except `UpdateManifest` (to `Publish` of the files of this publish), `Killed`
and `RestoreFails` (to `Break`).  `PrefixInv` adds that the originals themselves extend
the manifest, since a restoration writes them back; `KeysInv` adds that originals and
staged candidates have no key twice.

In the middle of a publish the two TWSE files do not hold the same dates.  `PairInv` says
what carries the property across: neither file is published without the other and the
plan approved adds the same dates to both (`PairApproved`), and every append so far
added exactly the dates of the approved run (`KeysSoFar`).  That the files are approved
together rests on `publishFiles` adding the market file to the daily one, and on no
`DRY_RUN.json`, in memory or on disk, ever listing it alone (`NoLoneMarket`).  `GateInv` says the
same of events: as long as programs take turns, an event in the candidate is listed, or its scan is
still to list it, or it was in the formal file before (`ListedOrPublished`); and a
publish approved from a list with the event has appended it when it empties the list.

`JournalPublish_proofs`, for all sets of updaters (disjoint), finite `Days`, nonempty
`TradingDays` and bounds:

| theorem | states |
|---|---|
| `TypeCorrect` | `Spec => []TypeOK` |
| `JournalsUndoTornPairs` | `Serial => (Spec => []TornPairHasEvidence)` |
| `MarketDatesHavePrices` | `Serial => (Spec => []MarketWithinDaily)` |
| `PublishIsAtomic` | `Serial => (Spec => ImplementsUnit)` |

`TypeCorrect` needs `TypeInv`: the anchor an updater reads is a number only because the
market file is never empty and always finite, and that because whatever a process
holds and may still write (candidate, new file, backup) is so too.  It holds however
the updaters overlap.  The other three are about updaters started one after the
other; finding 3 shows that `PairsAttested` fails of overlapping ones.  Their invariant
`Inv` adds `SerialInv`: at most one updater is at work (`OneAtATime`); what it
has read is still so and what it is about to write keeps the market dates within
the price dates and the `borrowed` ones (`Work`, `Fits`); between backup and end both halves of its pair are
the old or the new one, no other entry of the manifest has changed, and its journal
says so (`Critical`); and every torn pair, also one of the *other* file that an earlier
kill left, has its journal (`TornInv`, which is `TornPairHasEvidence` without `AllIdle`).
The last part is what makes it inductive: a publish of one file writes the
manifest as a whole and must carry the torn entry of the other along unchanged.  For the
refinement all steps are stutters but a successful `Verify` (to `Publish`), a `Settle` that
could not restore (to `Break`) and `Killed` (to any of the three).

`JobManager_proofs`, for all bounds:

| theorem | states |
|---|---|
| `TypeCorrect` | `Spec => []TypeOK` |
| `FailuresAreNoted` | `Spec => []NoSilentFailure` |
| `GateSeesForeignChanges` | `Spec => []ReadyGateUnchanged` |
| `VerdictStays` | `Spec => VerdictKept` |

Their invariant is `Inv`.  `NoSilentFailure` speaks of ended jobs, so one has to say for
each section where a failure is noted until then (`Noted`, in `AliveInv`): as an error;
in `component_failures`, which becomes an error in `Finish`, but only for the job types
that come by there (`Summing`); in the component `reportGovernance` or `phaseB1`, which
no later section sets again and `Aggregate` sees.  A job of another type never enters
the sections that only use `component_failures` (`TypeOfPc`).  What an owner publish raised
after its verdict is the one exception, until it is noted (`Unsaid`).  `WindowInv` says the same
of foreign changes: until `RefreshState` compares, the baseline is not above the
hashes and differs from them.  This rests on hashes that only grow: a change that
is undone byte by byte within the job is no change.  `VerdictInv` says that whenever
memory or state file holds a verdict both hold it, and that it is about the latest
job; hence no request or restart can bring back another.  `StepKeeps`,
`LastKeeps` and `EndingKeeps` reduce the actions to three kinds of steps: one that stays in the
job, one that enters its last phase, one that ends it.

`FactDatabase_proofs`, for all processes, migrations and bounds:

| theorem | states |
|---|---|
| `MigrationsHaveTheirWayBack` | `FactSpec => []EveryMigrationHasItsWayBack` |
| `LivingWritersKeepTheirLease` | `FactSpec => NeverTakenFromALivingWriter` |
| `PassesTellTheTruth` | `StagingSpec => []PassDescribesItsDirectory` |
| `RowsFindTheirRows` | `StagingSpec => []NoDanglingRows` |

*Database*.  `FactInv` adds that only the holder of the lock is at work (`OnlyTheHolderWorks`), and what it
has in its hands: the migrations pending were not applied when it read them, its copy has
none of them and all the rows there are, and from the manifest on the copy is
among the backups.  The second follows from the exclusion: who takes a lease holds the
lock, which a writer keeps as long as it lives.

*Dry runs*, for any set of runs of any of the eight connectors (`KindsAreKnown`) in one
directory.  What has happened before a step is a matter of its index in a literal sequence of
up to 31 steps, so each of the eight sequences has a lemma (`Table01` .. `TableLegacy`):
every row comes after the rows it refers to (`Closed`), and of all but 08 the first step makes
the directory, the second hashes, the last writes the summary, and nothing is read after the
comparison (`Single`).  Beyond these lemmas no proof looks into a sequence.  The actions
are reduced to two kinds of steps: a run moves on, having done what its step is (`Forward`), or
halts, by an error or killed (`Halted`).  `StagingInv` says that of all but 08 one run is at
work in its directory (`OneAtATime`), so that what its steps left is still there
(`WorkIsThere`); that, unless a publish was taken back, the version it read lies between the one it hashed and
the current one (`ReadInBetween`), so that equal hashes at the comparison mean that it read
what it had hashed; and that with a PASS nobody is at work and nobody can begin (`PassIsFinal`).  The rows
a run inserted stay for every connector, 08 with its shared directory included, except for
the RUNNING row that the migrator replaces and no row refers to (`RowsAreThere`).

`OwnerTools_proofs`, for all files, commits, ports, openers, servers, roots, scanners, runs,
rows and times:

| theorem | states |
|---|---|
| `SyncedIsAttested` | `SyncSpec => []SyncedMeansAttested` |
| `SecondServersAreExplained` | `OpenerSpec => []SecondServerIsExplained` |
| `TornPairsAreBackedUp` | `HoldingSpec => []TornPairHasBackup` |
| `AuthorityIsInStep` | `HoldingSpec => []AuthorityStatesTheFiles` |
| `PointersAreApproved` | `ReleaseSpec => []OnlyApprovedIsPointedAt` |
| `PassesMeanRefusals` | `ReleaseSpec => []PassMeansThreeRefusals` |
| `RestIsRespected` | `NewsSpec => []SourcesAreLeftAlone` |
| `ReviewsAreGrounded` | `NewsSpec => []OneMediumIsNotEnough` |
| `MetricRouteInTime` | `RouteSpec => []RouteInTime` |
| `MetricRouteKeepsShares` | `RouteSpec => []SharesAreKept` |
| `TornFilesAreBackedUp` | `OneOffSpec => []TornFileHasBackup` |
| `NothingGetsLost` | `OneOffSpec => []NothingIsLost` |

*Git* (`SyncInv`).  What a look has behind it (files hashed against the manifest it read,
items compared with the commit, as Git converts them) still stands unless a publisher or an
editor overtook it; a fetch or a push changes neither tree nor old commits.

*Opener* (`OpenerInv`).  Of the servers an opener counts on, those it has passed still
listen with another HEAD or in a sandbox, or are gone; a server takes over what its opener
counted on.
What goes on among servers is one relation (`Onward`): a listening one stays as it is or
ends.

*Holdings* (`HoldingInv`).  The order of the two releases is the argument: until the series'
dry run passed, nothing of the master was touched (`SeriesFirst`); its candidate was made
between two looks at the same files (`SeriesIsBuilt`); the pair it found is in its
backup before anything changes (`SeriesIsBackedUp`), and no later step writes that backup.
`InStep` says what holds while nobody disturbs a publisher.

*Pipeline* (`PipelineInv`).  For every point of the suite what is in `attempts`, which call
may have failed for which reason, and that a copy which verified is the one placed.  The
second call may have met an edit in place of the missing approval (`SecondAnswer`); it cannot
have met a mismatch with the approval, which was not there yet, and the fourth goes on only
with a candidate as it was built.

*News* (`NewsInv`).  The state file knows of every rest that any scan saved, or was
overwritten by a scan that began before (`FileKnows`, `forgotten`); so does what a scan holds
(`ScanKnows`), except for what was saved after it began.  `Grounded` is what the level
rule and the counting give for any rows.

*Route* (`RouteInv`), for all times that satisfy `MetricRouteAssumption` (the two
allocations fit the route; the reserve is below either allocation) and any `MaxStall`:
`now <= RouteTime` is not inductive: one has to know that what Yahoo and the others have
used adds up to the time passed (`Accounted`), that a source is asked within the share it
was given (`AskedInItsShare`), that a call is only begun with time left beyond the reserve and
is given no more than that, so that nothing is begun any more after a call that came back
later than the reserve, and what holds when a source is begun (`Beginning`).  All that
transports do is reduced to one abstract step `Call`, which takes some time within
its bound; that the actions are such steps is proved action by action.

*One-off* (`OneOffInv`), for any number of runs, reviews and rows of others.  The programs
enter through a table, `NextStep` per mode and step, that is proved of each sequence once.
Until the last comparison of a mode (`EarlyInv`), what it is going to write either fits
the manifest as it is, or others added a row which the comparison will see, since the run
does not have it in its hands (`Seen`, `RowsAreNew`; `OutsideIsNew` says the same of the `-wal`
file and of what an everyday publish may take back); for the remediation, whose hashes are
taken after its content, the way to that goes over what was rehearsed being what was
reviewed (`RehearsedAsReviewed`).  From then on (`LateInv`, `BackInv`) only its own
entry differs from what it compared, and what it writes or takes back has every row.  A
file may be torn only while a run is under way that wrote its journal before
(`FilesAreBacked`), and a journal is closed as published or rolled back only when the file is
what is stated of it, or was not to begin with, and then it is another one's journal
that tells.

`DiscoveryScan_proofs`, for all orchestrators, requests and evidence:

| theorem | states |
|---|---|
| `ScansAreCalledOnce` | `Spec => []OneCallPerScan` |
| `HandoffsAreGrounded` | `Spec => []HandoffIsGrounded` |

The first needs that an orchestrator trusts only scans the adapter has issued to it and
not seen consumed.  The second needs an order of versions as long as nothing is taken
back: the manifest an orchestrator has pinned is not newer than the one of its scan, that
one not newer than the files; since the handoff compares the pinned one with the
files, all are equal.  And it needs that two sources and two chains, counted
apart, give two media that differ in both.  That these tell of the same event or claim is not
proved, because the code does not ask for it unless there is official evidence as well; it is
called *grounded*, not corroborated (section 6).

`ReportPrograms_proofs`, for all evaluators, issuers, searchers, appenders, runners, builders
and whatever they work on:

| theorem | states |
|---|---|
| `DecisionsFormChains` | `TriggerSpec => []ChainUnbroken` |
| `SpentPermissionsStaySpent` | `IssuanceSpec => []OneCallUnlessRevived` |
| `SpoiltLinesAreFew` | `LedgerSpec => []DamageIsBounded` |
| `ReplaysTellTheStory` | `LedgerSpec => []ReplayTellsTheWholeStory` |
| `ShownBriefsAreBorneOut` | `BriefSpec => []ShownBriefIsBorneOut` |
| `ReportsRestOnTheirAuthority` | `ProductionSpec => []ReportRestsOnNamedAuthority` |
| `ReviewsStand` | `ProductionSpec => ReviewIsNeverTakenBack` |

*Trigger* (`TriggerInv`).  Every receipt that was computed and may still be seen, on file,
replaced or in the hands of an evaluator, is linked to one that is kept (`ComputedAreSound`); two
of one id are of the same decision (`OneDecisionPerId`), so that what a second launcher writes
over leaves one of the same decision on file (`ReplacedIsKept`); and what an evaluator that has
sealed its decision still points to was on file (`SealedIsKnown`).

*Issuance* (`IssuanceInv`).  Searches exclude each other under the lock; what one has read
there is still true of what is spent, an issuer may have missed what was spent but has not
seen what was not, hence an entry is spent by one search, which has called at most once.

*Ledger*.  Each appender spoils at most one line, the one it writes last, so the number of
bad lines behind the accepted ones is counted by the appenders that are done
(`ChainOrSpoilt`, with the library's theorems about finite sets).  What a replay computes
is an induction over the lines, which the provers cannot do; it is not needed, since the
lines were *written* one by one: `RunsTell` says of the file at every moment that a replay
of it has a run and that each of its states is traced to the events before, and the step
that writes a line extends the run by one (`RunGoesOn`).

*Brief* (`BriefInv`).  What a runner carries was admitted, and from `Look` on composed; a name
about to be taken is free unless two runs looked for it at once (`PlaceIsFree`,
`RivalsAreKnown`).

*Production* (`ProductionInv`).  One builder analyses a run, and only while it is open; those
who report come after a complete analysis, of which a checkpoint knows at each of its steps a
little more, as long as nothing moved (`SoFar`), until it rests on what the run is named after; one of them writes, and while it has not recorded the report nobody else
has (`WriterIsAlone`).  So a candidate that stands under the Owner's review has no writer left
that could take it back.

`ReportLibrary_proofs`, for all quarters, events, revisions, returns and programs:

| theorem | states |
|---|---|
| `LibraryIsKept` | `LibrarySpec => []LibraryInv` |
| `PermissionsFollowTheOwner` | `LibrarySpec => []NoReceiptAgainstTheOwner` |
| `LibraryStaysUsable` | `LibrarySpec => []UsableUnlessSpoilt` |

`LibraryInv` has three parts.  `TransactionsInv`: a plan is about distinct files, all of them
saved or none, a rollback is a plan of originals (`OnlyOriginalsAreLeft`), and without overlap
one program is at work.  `PermissionsInv`: a permission
stands beside the approval, and no plan or rollback at work writes both, writes an Owner's
file where a permission is, or brings a permission back; it holds through kills, which
leave any prefix of a plan.  `SoundInv`: in a library that nothing spoilt both
manifests tell the same, revisions are 1..n, the latest is the last, and the files are what
the entries tell (`Sound`); while a transaction is under way, the disk with the rest of
its plan written *and* the disk with everything saved written back are sound (`With`), so
each replacement, the turn to a rollback at any point, and each restoration keep it.  What `Usable` asks of the programs'
own checks follows from `Sound`, and each program's plan leads from a sound library to a
sound one.

Only model-checked is `JobEnds`, since liveness under fairness is out of the prover's reach
(as are `ENABLED`, induction over data and `RECURSIVE` operators, which no module uses).

## 6 Findings

1. *Rows nobody reviewed* (`OnlyReviewedRows`).  The second evaluation before a publish
   compares names, dates and phrase, not contents (`owner_publish_csv_v2.py:4297`).
2. *Events marked as published that are not* (`SyncedMeansPublished`).
   `sync_dry_run_after_publish` empties whatever list it finds (`:1590`).
3. *Overlapping updaters* (`PairsAttested`).  Each writes the whole manifest from an
   earlier read (`:3245`).
4. *An interrupted job runs again, on the screen* (`InterruptedStays`).  `INTERRUPTED`
   lives in memory only, `/refresh` loads `RUNNING` back (`p1008_app_server.py:767`).
5. *A verdict `/refresh` cannot read* (`RefreshReadsVerdict`).  `BLOCKED` and
   `PARTIAL_FAILURE` are written to the state file and refused when read (`:762`).
6. *A second editorial return locks the library* (`ReturnsFollowReturns`).  Importing it
   rewrites a history whose hash both manifests list
   (`warroom_quarterly_editorial_return.py:352`).

Met while modelling, without a run (most of them what a property excepts, and where the
module says so):

* Publishers.  One killed after a date was appended to one trade file and not the
  other leaves later trade publishes BLOCKED; rows left by a kill are attested by the next
  publish of that file; a temporary file left by a kill makes each retry with the same bytes
  raise; an approval typed after midnight is refused as a changed identity.  Activity's
  rollback restores the runtime database although it never wrote it; the promotion
  keeps no backup on disk and its first failing restoration ends it, although its
  review says RESTORE_EXACT_BEFORE_BYTES_ON_ANY_PARTIAL_FAILURE.
* Updaters.  A market run that is given a dry run's candidate (`--daily-price-run-dir`, also
  without `--dry-run`) publishes dates that have no formal price.
* Gate.  An owner publish that raises after its verdict shows SUCCEEDED for a moment, and for good
  if the server dies then; changes somebody else made during a successful owner publish are
  excused; events overwritten in the candidate before they were published keep no gate closed.
* Facts.  08's second run replaces a page under the first one's summary; the legacy
  migrator does not notice formal drift; the metadata builder writes PASS before it
  compares; the release suite counts an edit, put back later, as the missing approval; a master
  read while a publish was about to be taken back has the hash it had before.
* Database.  A row only in the `-wal` file is not in the copy a one-off publisher works on.
* Route.  No timeout bounds a call as a whole, and `urlopen` follows redirects by itself, so a
  route can outlast its deadline by one call's lateness.  The urllib transport does not catch a connection reset, which ends the whole fetch
  instead of trying the next source; an allocation used up to its end makes
  `FallbackBudget` raise after Yahoo fails.
* News.  A torn state file makes every later scan raise; a 403 seen through PowerShell
  becomes OTHER; "all attempted sources were connection-refused" is said when every
  *failed* one was; the opener waits for a status `NETWORK_BLOCKED` that nothing emits; an Owner's
  note or an undated official row added to an event can lower it below review.
* Git and opener.  SYNCED can be said of a torn commit when a publisher is at work
  during the look; the result stays shown after later publishes; an opener that gives up
  leaves its server starting; two servers of one package share the state file; a fresh checkout
  of a converted file need not have the hash its manifest lists; an answer that is no JSON ends the
  opener with an exception.
* Triggers.  A failed single source seals an integration without evidence over the
  former one; a receipt sealed with a FAIL_CLOSED baseline collides with a later one, or is
  replaced by it when both launchers looked before either wrote;
  an issuer may revive a consumed permission.
* Library.  `update_report_manifest` drops the latest slots of quarters and major
  events, after which governed programs fail closed; two programs planning from the
  same manifests lose an update; a rollback passes over a file it cannot write back; a kill between the two manifests, or before the run's
  manifest, strands the report.
* Production.  A publish, or one taken back, within the checkpoint can let a report rest on other
  files than its id names.
* Ledger.  A resolution can be proposed of a gap that is retired or was never opened.  One torn line ends a ledger; a line that lacks its end swallows an accepted
  record.
* Discovery.  Two media about different events or claims count as cross-validated, although
  `REPORT_GOVERNANCE_CONTRACT.md:57-58` speaks of corroborating *a claim*; a second
  authorisation of the same ids makes the first one untrusted.
* Brief.  A live run without material change always fails at REPORT_VALIDATION; the failure
  recorder is never passed; a mock run killed between its files can never become latest;
  a baseline may mix two versions, since it is not compared with the manifest.

## 7 Not modelled, and what comes next

`PROJECT.json` says of every component what is left out.  Not modelled at all: authority
freshness (a read of two status files; planned with the status hazard below), the
analysis and report builders, derived KPIs and scoring (pure functions of data, nothing
interleaves), the conformance test drivers, and the web pages (rendering of the
server's JSON).  Of the periodic report, the largest source file, what it does to the
shared manifests is modelled; most of it is text, charts and HTML.

One hazard has no property yet: `RuntimeError` of a rolled-back publish is caught by neither
updater, and the status file keeps telling of the run before
(`warroom_daily_price_updater.py:240`).  Item 7 of the plan lists what comes next.
