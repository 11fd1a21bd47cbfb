---------------------------- MODULE StagingRuns ----------------------------
(* The dry runs that fetch official data into a directory of their own under  *)
(* staging: seven connectors (p2_03b_01 .. 08) and the migrator of the legacy *)
(* CSV files (p2_02).  Each one makes its directory, hashes the formal files, *)
(* fetches, saves the raw documents, parses them, fills a new SQLite file row *)
(* by row, hashes the formal files again, and writes a candidate and          *)
(* DRY_RUN.json.                                                              *)
(*                                                                            *)
(* A connector is a program: the sequence of its steps, each a record with    *)
(* what it does and its argument.  The statements of an insert function are   *)
(* steps of their own, since every one is committed when it returns; rows are *)
(* reduced to their role and, where a loop inserts several, to one item of    *)
(* each kind the loop distinguishes.  Two runs of one connector were given    *)
(* the same output directory; anything may fail, and either may be killed.    *)
EXTENDS Naturals, Sequences, FiniteSets

CONSTANTS Kinds,     \* the connectors to consider
          Runs,      \* two runs of one of them
          MaxFormal, \* bound on the versions of a formal file
          NoOne

(* There are no others. *)
ASSUME KindsAreKnown ==
    Kinds \subseteq {"01", "02", "03", "05", "06", "07", "08", "legacy"}

VARIABLES kind,      \* the connector that runs
          formal,    \* versions of the formal CSV files and the runtime database
          run,       \* per run: its next step, the hashes it took, and the CSV
                     \* file it read
          dir,       \* the output directory
          undone     \* history: the runs that had taken their hashes when a
                     \* publish was taken back

svars == <<kind, formal, run, dir, undone>>

Do(what)      == [do |-> what, row |-> <<"none", "none">>]
FetchDoc(doc) == [do |-> "fetch", row |-> <<doc, "one">>]
SaveDoc(doc)  == [do |-> "save", row |-> <<doc, "one">>]
Row(t, i)     == [do |-> "insert", row |-> <<t, i>>]

-----------------------------------------------------------------------------
(* What the insert functions write, in order.                                 *)
Registry01 == << Row("subject", "legal"), Row("subject", "instrument"),
                 Row("subject", "listing"), Row("metric", "close"),
                 Row("source", "one"), Row("artifact", "endpoint"),
                 Row("contract", "one") >>
Facts01    == << Row("observation", "close"), Row("evidence", "close") >>
Closing01  == << Row("execution", "one"), Row("validation", "one") >>

(* Mutant: the evidence of an observation before the observation.             *)
Facts02EvidenceFirst == << Row("evidence", "verified"), Row("observation", "verified"),
                           Row("fact", "verified"), Row("fact", "amount") >>

(* "verified" facts have a verified unit and become observations; the amounts *)
(* whose unit the source does not state stay facts.                           *)
Registry02 == << Row("subject", "listing"), Row("metric", "verified"),
                 Row("source", "one"), Row("artifact", "endpoint"),
                 Row("contract", "one"), Row("row", "one") >>
Facts02    == << Row("observation", "verified"), Row("evidence", "verified"),
                 Row("fact", "verified"), Row("fact", "amount") >>
Closing02  == << Row("validation", "one"), Row("execution", "one") >>

(* The formal master is read before the first row is inserted. *)
Registry03 == << Do("read"), Row("subject", "listing"), Row("source", "one"),
                 Row("artifact", "endpoint"), Row("contract", "one"), Row("row", "one") >>
Facts03    == << Row("fact", "amount"), Row("fact", "ratio") >>
Closing03  == << Row("comparison", "ratio"), Row("validation", "one"),
                 Row("execution", "one") >>

Registry05 == << Row("subject", "listing"), Row("source", "one"),
                 Row("artifact", "endpoint"), Row("contract", "one"), Row("row", "one") >>
Facts05    == << Row("fact", "amount"), Row("metric", "percent"),
                 Row("observation", "percent"), Row("evidence", "percent"),
                 Row("fact", "percent") >>
Closing05  == << Row("comparison", "percent"), Row("validation", "one"),
                 Row("execution", "one") >>

(* The formal master is read between the facts and the comparisons. *)
Registry06 == << Row("subject", "listing"), Row("source", "one"),
                 Row("artifact", "discovery"), Row("artifact", "endpoint"),
                 Row("artifact", "manual"), Row("contract", "one"), Row("row", "one") >>
Facts06    == << Row("metric", "concept"), Row("observation", "concept"),
                 Row("fact", "concept"), Row("evidence", "concept") >>
Closing06  == << Do("read"), Row("comparison", "concept"),
                 Row("comparison", "manual"), Row("validation", "one"),
                 Row("execution", "one") >>

Rows07     == << Row("subject", "listing"), Row("source", "one"), Row("contract", "one"),
                 Row("artifact", "endpoint"), Row("row", "one"), Row("series", "one"),
                 Row("change", "one"), Row("release", "one"), Row("execution", "one") >>

Registry08 == << Row("subject", "legal"), Row("subject", "instrument"),
                 Row("subject", "listing"), Row("metric", "shares"),
                 Row("source", "one"), Row("artifact", "page"),
                 Row("artifact", "endpoint"), Row("contract", "one") >>
Facts08    == << Row("observation", "shares"), Row("evidence", "shares"),
                 Row("execution", "one"), Row("validation", "one") >>

RegistryLegacy == << Row("subject", "listing"), Row("source", "one"),
                     Row("artifact", "endpoint"), Row("metric", "legacy"),
                     Row("mapping", "one") >>
(* migrate_dataset, for all datasets in one transaction. *)
MigratedRows   == {<<"row", "one">>, <<"derived", "legacy">>,
                   <<"observation", "legacy">>, <<"evidence", "legacy">>}

(* The rows a row refers to. *)
Needs(t, i) ==
    CASE t = "artifact"    -> {<<"source", "one">>}
      [] t = "observation" -> {<<"subject", "listing">>, <<"metric", i>>,
                               <<"source", "one">>, <<"artifact", "endpoint">>}
      [] t = "evidence"    -> {<<"observation", i>>, <<"artifact", "endpoint">>}
      [] t = "row"         -> {<<"artifact", "endpoint">>, <<"subject", "listing">>}
      [] t = "fact"        -> {<<"row", "one">>} \cup
                              (IF i \in {"verified", "percent", "concept"}
                               THEN {<<"observation", i>>} ELSE {})
      [] t = "comparison" /\ i \in {"ratio", "percent"} -> {<<"fact", i>>}
      [] t = "series"      -> {<<"row", "one">>}
      [] t = "execution"   -> {<<"contract", "one">>}
      [] t = "derived"     -> {<<"subject", "listing">>, <<"metric", i>>}
      [] t = "mapping"     -> {<<"metric", "legacy">>}
      [] OTHER             -> {}

-----------------------------------------------------------------------------
(* The run functions.                                                         *)
Opening == << Do("mkdir"), Do("hash") >>
Ending  == << Do("compare"), Do("candidate"), Do("summary") >>

Steps01 == Opening \o << FetchDoc("swagger"), FetchDoc("endpoint"),
                         SaveDoc("swagger"), SaveDoc("endpoint"), Do("parse"), Do("schema") >>
                   \o Registry01 \o Facts01 \o Closing01 \o Ending
Steps02 == Opening \o << FetchDoc("swagger"), FetchDoc("endpoint"),
                         SaveDoc("swagger"), SaveDoc("endpoint"), Do("parse"), Do("schema") >>
                   \o Registry02 \o Facts02 \o Closing02 \o Ending
Steps03 == Opening \o << FetchDoc("swagger"), FetchDoc("endpoint"),
                         SaveDoc("swagger"), SaveDoc("endpoint"), Do("parse"), Do("schema") >>
                   \o Registry03 \o Facts03 \o Closing03 \o Ending
Steps05 == Opening \o << FetchDoc("swagger"), FetchDoc("endpoint"),
                         SaveDoc("swagger"), SaveDoc("endpoint"), Do("parse"), Do("schema") >>
                   \o Registry05 \o Facts05 \o Closing05 \o Ending
(* Each document is parsed to know the next request; saved when all three are. *)
Steps06 == Opening \o << FetchDoc("discovery"), Do("parse"), FetchDoc("endpoint"),
                         Do("parse"), FetchDoc("manual"), Do("parse"), SaveDoc("discovery"),
                         SaveDoc("endpoint"), SaveDoc("manual"), Do("schema") >>
                   \o Registry06 \o Facts06 \o Closing06 \o Ending
(* The candidate is built from the formal master before the database. *)
Steps07 == Opening \o << FetchDoc("endpoint"), Do("parse"), SaveDoc("endpoint"),
                         Do("read"), Do("candidate"), Do("schema") >>
                   \o Rows07 \o << Do("compare"), Do("summary") >>
(* An existing directory will do, and the comparison only leaves a note. *)
Steps08 == << Do("enter"), Do("hash"), FetchDoc("page"), FetchDoc("endpoint"),
              SaveDoc("page"), Do("parse"), SaveDoc("endpoint"), Do("schema") >>
                 \o Registry08 \o Facts08
                 \o << Do("note"), Do("summary"), Do("candidate") >>
StepsLegacy == Opening \o << Do("schema"), Row("run", "RUNNING") >> \o RegistryLegacy
                       \o << Do("datasets"), Do("recheck"), Do("mark"), Do("summary") >>

Connector == [k \in Kinds |->
    CASE k = "01" -> Steps01 [] k = "02" -> Steps02 [] k = "03" -> Steps03
      [] k = "05" -> Steps05 [] k = "06" -> Steps06 [] k = "07" -> Steps07
      [] k = "08" -> Steps08 [] k = "legacy" -> StepsLegacy]

RowsOf(k) == {Connector[k][n].row : n \in {m \in DOMAIN Connector[k] :
                                              Connector[k][m].do = "insert"}}
Docs(k)   == {Connector[k][n].row[1] : n \in {m \in DOMAIN Connector[k] :
                                                 Connector[k][m].do = "save"}}
AllDocs   == {"swagger", "endpoint", "discovery", "manual", "page"}
NoHash    == [csv |-> 0, db |-> 0]

StagingInit ==
    /\ kind \in Kinds
    /\ formal = [csv |-> 1, db |-> 1]
    /\ run = [r \in Runs |-> [pc |-> 1, before |-> NoHash, read |-> 0]]
    /\ dir = [exists |-> FALSE, raw |-> [d \in AllDocs |-> NoOne],
              owner |-> NoOne, rows |-> {}, candidate |-> NoOne,
              summary |-> [by |-> NoOne, status |-> "none"]]
    /\ undone = {}

-----------------------------------------------------------------------------
Ended(r) == run[r].pc > Len(Connector[kind])
Task(r)  == Connector[kind][run[r].pc]
AtTask(r, what) == ~ Ended(r) /\ Task(r).do = what
Next1(r)   == [run EXCEPT ![r].pc = @ + 1]
StopRun(r) == [run EXCEPT ![r].pc = Len(Connector[kind]) + 1]

(* Mutant: the migrator marks the run it finds in the database, whose ever.   *)
FailedAnyRun(r, d) ==
    IF kind = "legacy" /\ d.owner # NoOne
    THEN [d EXCEPT !.rows = (@ \ ({"run"} \X {"RUNNING", "PASS"})) \cup {<<"run", "FAIL">>}]
    ELSE [d EXCEPT !.exists = TRUE, !.summary = [by |-> r, status |-> "FAIL"]]

(* The except clause of main: DRY_RUN.json is written whoever's directory it  *)
(* is.  08 does this for its own errors only (a fetch, a document); the       *)
(* migrator marks its run row instead.                                        *)
Failed(r, d) ==
    IF kind = "legacy"
    THEN [d EXCEPT !.rows = IF d.owner = r /\ <<"run", "RUNNING">> \in d.rows
                            THEN (d.rows \ {<<"run", "RUNNING">>})
                                    \cup {<<"run", "FAIL">>}
                            ELSE d.rows]
    ELSE IF kind = "08" /\ Task(r).do \notin {"fetch", "parse"} THEN d
    ELSE [d EXCEPT !.exists = TRUE,
                   !.summary = [by |-> r, status |-> "FAIL"]]

(* mkdir(exist_ok=False). *)
MakeDirectory(r) ==
    /\ AtTask(r, "mkdir")
    /\ IF dir.exists
       THEN run' = StopRun(r) /\ dir' = Failed(r, dir)
       ELSE run' = Next1(r) /\ dir' = [dir EXCEPT !.exists = TRUE]
    /\ UNCHANGED <<kind, formal, undone>>

(* mkdir(exist_ok=True). *)
EnterDirectory(r) ==
    /\ AtTask(r, "enter")
    /\ run' = Next1(r)
    /\ dir' = [dir EXCEPT !.exists = TRUE]
    /\ UNCHANGED <<kind, formal, undone>>

TakeHashes(r) ==
    /\ AtTask(r, "hash")
    /\ run' = [Next1(r) EXCEPT ![r].before = formal]
    /\ UNCHANGED <<kind, formal, dir, undone>>

(* A document is the run's own; what is wrong with it is found by Raise. *)
FetchOrParse(r) ==
    /\ AtTask(r, "fetch") \/ AtTask(r, "parse")
    /\ run' = Next1(r)
    /\ UNCHANGED <<kind, formal, dir, undone>>

SaveRaw(r) ==
    /\ AtTask(r, "save")
    /\ dir' = [dir EXCEPT !.raw[Task(r).row[1]] = r]
    /\ run' = Next1(r)
    /\ UNCHANGED <<kind, formal, undone>>

(* The file is opened if it exists; the tables must not. *)
CreateSchema(r) ==
    /\ AtTask(r, "schema")
    /\ IF dir.owner = NoOne
       THEN run' = Next1(r) /\ dir' = [dir EXCEPT !.owner = r]
       ELSE run' = StopRun(r) /\ dir' = Failed(r, dir)
    /\ UNCHANGED <<kind, formal, undone>>

(* What a comparison finds is written in its row and stops nothing.           *)
Insert(r) ==
    /\ AtTask(r, "insert")
    /\ dir' = [dir EXCEPT !.rows = @ \cup {Task(r).row}]
    /\ run' = Next1(r)
    /\ UNCHANGED <<kind, formal, undone>>

ReadMaster(r) ==
    /\ AtTask(r, "read")
    /\ run' = [Next1(r) EXCEPT ![r].read = formal.csv]
    /\ UNCHANGED <<kind, formal, dir, undone>>

MigrateDatasets(r) ==
    /\ AtTask(r, "datasets")
    /\ run' = [Next1(r) EXCEPT ![r].read = formal.csv]
    /\ dir' = [dir EXCEPT !.rows = @ \cup MigratedRows]
    /\ UNCHANGED <<kind, formal, undone>>

CompareHashes(r) ==
    /\ AtTask(r, "compare")
    /\ IF formal = run[r].before
       THEN run' = Next1(r) /\ dir' = dir
       ELSE run' = StopRun(r) /\ dir' = Failed(r, dir)
    /\ UNCHANGED <<kind, formal, undone>>

(* The migrator compares the runtime database and not the files it migrates. *)
CompareDatabase(r) ==
    /\ AtTask(r, "recheck")
    /\ IF formal.db = run[r].before.db
       THEN run' = Next1(r) /\ dir' = dir
       ELSE run' = StopRun(r) /\ dir' = Failed(r, dir)
    /\ UNCHANGED <<kind, formal, undone>>

(* 08 writes into its report whether the files changed, and goes on. *)
NoteProtected(r) ==
    /\ AtTask(r, "note")
    /\ run' = Next1(r)
    /\ UNCHANGED <<kind, formal, dir, undone>>

WriteCandidate(r) ==
    /\ AtTask(r, "candidate")
    /\ dir' = [dir EXCEPT !.candidate = r]
    /\ run' = Next1(r)
    /\ UNCHANGED <<kind, formal, undone>>

MarkRun(r) ==
    /\ AtTask(r, "mark")
    /\ dir' = [dir EXCEPT !.rows = (@ \ {<<"run", "RUNNING">>}) \cup {<<"run", "PASS">>}]
    /\ run' = Next1(r)
    /\ UNCHANGED <<kind, formal, undone>>

WriteSummary(r) ==
    /\ AtTask(r, "summary")
    /\ dir' = [dir EXCEPT !.summary = [by |-> r, status |-> "PASS"]]
    /\ run' = Next1(r)
    /\ UNCHANGED <<kind, formal, undone>>

(* Any step may raise before it changed anything. *)
Raise(r) ==
    /\ ~ Ended(r) /\ run[r].pc > 1
    /\ run' = StopRun(r)
    /\ dir' = Failed(r, dir)
    /\ UNCHANGED <<kind, formal, undone>>

KillRun(r) ==
    /\ ~ Ended(r) /\ run[r].pc > 1
    /\ run' = StopRun(r)
    /\ UNCHANGED <<kind, formal, dir, undone>>

FormalChange(f) ==
    /\ formal[f] < MaxFormal
    /\ formal' = [formal EXCEPT ![f] = @ + 1]
    /\ UNCHANGED <<kind, run, dir, undone>>

(* A publish that fails restores what it had replaced, and with it the hash.  *)
FormalRestored ==
    /\ formal.csv > 1
    /\ formal' = [formal EXCEPT !.csv = @ - 1]
    /\ undone' = undone \cup {r \in Runs : ~ Ended(r) /\ run[r].pc > 2}
    /\ UNCHANGED <<kind, run, dir>>

StagingNext ==
    \/ \E r \in Runs :
        \/ MakeDirectory(r) \/ EnterDirectory(r) \/ TakeHashes(r)
        \/ FetchOrParse(r) \/ SaveRaw(r) \/ CreateSchema(r) \/ Insert(r)
        \/ ReadMaster(r) \/ MigrateDatasets(r) \/ CompareHashes(r)
        \/ CompareDatabase(r) \/ NoteProtected(r) \/ WriteCandidate(r)
        \/ MarkRun(r) \/ WriteSummary(r) \/ Raise(r) \/ KillRun(r)
    \/ \E f \in {"csv", "db"} : FormalChange(f)
    \/ FormalRestored

StagingSpec == StagingInit /\ [][StagingNext]_svars

-----------------------------------------------------------------------------
(* A PASS summary tells what lies beside it: documents, database and          *)
(* candidate are of the run that wrote it, the database has every row, and    *)
(* what was read of the formal files is what was hashed before, although two  *)
(* runs had one directory and others published.  Not so when a publish was    *)
(* taken back meanwhile: what was read between its replacement and its        *)
(* restoration is gone when the hashes are compared, and they agree.  Nor for *)
(* 08, whose second run replaces the page under the first one's summary; and  *)
(* the migrator does not notice that the files it migrates changed.           *)
PassDescribesItsDirectory ==
    LET w == dir.summary.by IN
    dir.summary.status = "PASS" /\ kind # "08" =>
        /\ \A d \in Docs(kind) : dir.raw[d] = w
        /\ dir.owner = w
        /\ kind # "legacy" => dir.candidate = w /\ RowsOf(kind) \subseteq dir.rows
        /\ kind = "legacy" => MigratedRows \cup {<<"run", "PASS">>} \subseteq dir.rows
        /\ kind # "legacy" => run[w].read \in {0, run[w].before.csv} \/ w \in undone

(* Every statement finds the rows it refers to, so that a database left by a  *)
(* killed run is a consistent one.                                            *)
NoDanglingRows == \A x \in dir.rows : Needs(x[1], x[2]) \subseteq dir.rows
=============================================================================
