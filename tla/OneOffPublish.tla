---------------------------- MODULE OneOffPublish ---------------------------
(* The publishers that were written for one occasion: the modes of            *)
(* owner_publish_csv_v2.py beside the two it has for every day, and the       *)
(* promotion of a quarter (quarterly_owner_promotion.py).  Each one validates,*)
(* works out the new manifest, hashes, copies a backup, writes a journal,     *)
(* replaces two or three files one by one, verifies them, and takes them back *)
(* after an error.  They differ in what they compare with what, and when; a   *)
(* program is the sequence of its steps.                                      *)
(*                                                                            *)
(* A content is the set of changes that made it.  While one of these programs *)
(* runs, an everyday publish may add a row to a formal file and its manifest  *)
(* entry, and take it back; or a writer commits a row to the runtime          *)
(* database, where it is in the write-ahead log first.  Anything may fail,    *)
(* and the program may be killed between any two of its steps.                *)
EXTENDS Naturals, Sequences, FiniteSets

CONSTANTS MaxRuns,    \* bound on the runs that get beyond their first step
          MaxReviews, \* bound on the modes with a review
          MaxOthers,  \* bound on the rows others add
          NoMode      \* no mode, review or content

ASSUME NoModeIsNone == NoMode \notin
    {"remediation", "activity", "removal", "gaps", "reconcile", "macro", "promotion"}

VARIABLES file, stated,   \* formal files, and what the manifest states of them
          runtime,    \* the runtime database's main file
          wal,        \* what was committed to it and is in its -wal file only
          everyday,   \* what the last everyday publish can take back
          review,     \* per mode: the state the owner's fixed hashes were taken of
          rehearsed,  \* per mode: what a dry run hashed
          op,         \* the run under way
          journals,   \* PUBLISH_JOURNAL.json and backup of the runs that did not
                      \* end well
          runs,
          rows,       \* history: where others added their row
          unseen      \* history: they did so where nothing protects it

ovars == <<file, stated, runtime, wal, everyday, review, rehearsed, op, journals, runs, rows, unseen>>

Data == {"price", "market", "macro", "master"}
Absent == {"absent"}

-----------------------------------------------------------------------------
(* The programs.  "state" works out the manifest to be written, "hash" takes  *)
(* the hashes that "backup" compares the copies with; where one of them is    *)
(* missing, "read" does it.                                                   *)
Remediation == <<"read", "hash", "rehearsed", "state", "rebuild", "backup", "journal",
                 "price", "manifest", "db", "verify">>
Activity    == <<"read", "state", "hash", "backup", "journal", "market", "manifest",
                 "verify">>
Removal     == <<"read", "state", "hash", "backup", "journal", "price", "manifest",
                 "verify">>
Gaps        == <<"read", "state", "hash", "backup", "journal", "price", "manifest",
                 "verify">>
Reconcile   == <<"read", "backup", "state", "journal", "market", "manifest", "verify">>
Macro       == <<"read", "rehearsed", "backup", "journal", "macro", "manifest", "verify">>
Promotion   == <<"read", "master", "manifest", "receipt">>

Program == [remediation |-> Remediation, activity |-> Activity, removal |-> Removal,
            gaps |-> Gaps, reconcile |-> Reconcile, macro |-> Macro,
            promotion |-> Promotion]
Modes == DOMAIN Program

TargetOf(k) == CASE k \in {"remediation", "removal", "gaps"} -> "price"
                 [] k \in {"activity", "reconcile"} -> "market"
                 [] k = "macro" -> "macro"
                 [] k = "promotion" -> "master"

(* What hashes and copies see: of the database, the main file.                *)
State == [file |-> file, manifest |-> stated, db |-> runtime]
NoPublish ==
    [kind |-> NoMode, at |-> 0, new |-> {}, stated |-> NoMode, db |-> {}, pre |-> NoMode,
     undo |-> <<>>, back |-> "no"]

OneOffInit ==
    /\ file = [t \in Data |-> CASE t = "price" -> {"Sunday"} [] t = "market" -> Absent
                                [] OTHER -> {}]
    /\ stated = file
    /\ runtime = {} /\ wal = {} /\ everyday = NoMode
    /\ review = [k \in Modes |-> NoMode] /\ rehearsed = [k \in Modes |-> NoMode]
    /\ op = NoPublish /\ journals = {} /\ runs = 0
    /\ rows = {} /\ unseen = FALSE

-----------------------------------------------------------------------------
(* What each mode validates first, and the content it is going to publish.    *)
InDatabase == runtime \cup wal   \* what a connection to the database sees
Unattested(t) == file[t] # stated[t]
SourceOf(k) == IF k = "activity" THEN "price" ELSE TargetOf(k)
Reviewed(k) == review[k] # NoMode /\ file[SourceOf(k)] = review[k].file

(* Nothing is asked of the manifest here.                                     *)
MayRemediate == Reviewed("remediation")

(* The file must be new; the prices must be the reviewed ones. *)
MayCreateActivity == file["market"] = Absent /\ Reviewed("activity")

(* One invalid row, in a file that its manifest states. *)
MayRemove == "Sunday" \in file["price"] /\ ~ Unattested("price")

MayFillGaps == Reviewed("gaps") /\ ~ Unattested("price")

(* The row to be revised still has the value that the evidence tells. *)
MayReconcile ==
    /\ file["market"] # Absent /\ "reconcile" \notin file["market"]
    /\ ~ Unattested("market")

(* The whole manifest must be the reviewed one, the file that of Git's HEAD.  *)
MayRepairMacro == Reviewed("macro") /\ stated = review["macro"].manifest

MayPromote == Reviewed("promotion") /\ stated = review["promotion"].manifest

May(k) == CASE k = "remediation" -> MayRemediate [] k = "activity" -> MayCreateActivity
            [] k = "removal" -> MayRemove [] k = "gaps" -> MayFillGaps
            [] k = "reconcile" -> MayReconcile [] k = "macro" -> MayRepairMacro
            [] k = "promotion" -> MayPromote

NewContent(k) == CASE k = "removal"  -> file["price"] \ {"Sunday"}
                   [] k = "activity" -> {"activity"}
                   [] OTHER          -> file[TargetOf(k)] \cup {k}

Stated(k, new) == [stated EXCEPT ![TargetOf(k)] = new]

-----------------------------------------------------------------------------
InProgress == op.kind # NoMode
Forward == InProgress /\ op.back = "no"
Step    == Program[op.kind][op.at]
AtStep(s) == Forward /\ Step = s
TargetFile == TargetOf(op.kind)
Stop    == op' = NoPublish
Proceed(o) == op' = [o EXCEPT !.at = @ + 1]
UnchangedFiles == UNCHANGED <<file, stated, runtime, wal>>
UnchangedOther == UNCHANGED <<everyday, review, rehearsed, runs, rows, unseen>>

(* One operator at a time.  Bound: some runs, and none once something was     *)
(* changed where nothing protects it.                                         *)
MayBegin == ~ InProgress /\ runs < MaxRuns /\ ~ unseen

(* The owner looks at the files and fixes hashes in the program, or has a     *)
(* review written.                                                            *)
Review(k) ==
    /\ k \notin {"removal", "reconcile"} /\ review[k] = NoMode
    /\ Cardinality({m \in Modes : review[m] # NoMode}) < MaxReviews
    /\ MayBegin /\ ~ Unattested(SourceOf(k))
    /\ review' = [review EXCEPT ![k] =
          [file |-> file[SourceOf(k)],
           manifest |-> IF k \in {"macro", "promotion"} THEN stated ELSE NoMode]]
    /\ UnchangedFiles /\ UNCHANGED <<everyday, rehearsed, op, journals, runs, rows, unseen>>

(* What the hashes of a mode cover. *)
Hashed(k, s) == <<s.file[TargetOf(k)], s.manifest,
                  IF k \in {"remediation", "activity"} THEN s.db ELSE {}>>

(* The same program without --publish, which ends with DRY_RUN_PASS. *)
Rehearse(k) ==
    /\ k \in {"remediation", "macro"}
    /\ MayBegin /\ May(k) /\ rehearsed[k] = NoMode
    /\ k = "remediation" => "rebuilt" \notin InDatabase
    /\ rehearsed' = [rehearsed EXCEPT ![k] = Hashed(k, State)]
    /\ UnchangedFiles /\ UNCHANGED <<everyday, review, op, journals, runs, rows, unseen>>

(* The output directory is new for every run.                                 *)
ReadFormal(k) ==
    /\ MayBegin /\ May(k)
    /\ op' = [NoPublish EXCEPT !.kind = k, !.at = 2, !.new = NewContent(k),
                          !.stated = Stated(k, NewContent(k)), !.pre = State]
    /\ runs' = runs + 1
    /\ UnchangedFiles /\ UNCHANGED <<everyday, review, rehearsed, journals, rows, unseen>>

Hash ==
    /\ AtStep("hash")
    /\ Proceed([op EXCEPT !.pre = State])
    /\ UnchangedFiles /\ UnchangedOther /\ UNCHANGED journals

(* A formal run needs the dry run's journal; only the remediation compares    *)
(* what it hashed with what the dry run had.                                  *)
AskRehearsal ==
    /\ AtStep("rehearsed")
    /\ IF /\ rehearsed[op.kind] # NoMode
          /\ op.kind = "remediation" => rehearsed[op.kind] = Hashed(op.kind, op.pre)
       THEN Proceed(op) ELSE Stop
    /\ UnchangedFiles /\ UnchangedOther /\ UNCHANGED journals

(* The manifest is read (again), the initial publish refuses to enter twice.  *)
StateManifest ==
    /\ AtStep("state")
    /\ IF op.kind = "activity" /\ stated["market"] # Absent
       THEN Stop
       ELSE Proceed([op EXCEPT !.stated = Stated(op.kind, op.new)])
    /\ UnchangedFiles /\ UnchangedOther /\ UNCHANGED journals

(* A new database from the candidate, with the history rows of the old one,   *)
(* which must have no content that would be replaced.                         *)
RebuildDatabase ==
    /\ AtStep("rebuild")
    /\ IF "rebuilt" \in InDatabase THEN Stop
       ELSE Proceed([op EXCEPT !.db = InDatabase \cup {"rebuilt"}])
    /\ UnchangedFiles /\ UnchangedOther /\ UNCHANGED journals

AsHashed == Hashed(op.kind, State) = Hashed(op.kind, op.pre)

(* Mutant: the copies are not compared with anything.                         *)
CopyFilesUnchecked ==
    /\ AtStep("backup")
    /\ Proceed([op EXCEPT !.pre = State])
    /\ UnchangedFiles /\ UnchangedOther /\ UNCHANGED journals

(* What is in the -wal file only is neither compared nor copied. *)
LeftOut == op.kind \in {"remediation", "activity"} /\ wal # {}

CopyFiles ==
    /\ AtStep("backup")
    /\ IF AsHashed
       THEN Proceed([op EXCEPT !.pre = State]) /\ unseen' = (unseen \/ LeftOut)
       ELSE Stop /\ UNCHANGED unseen
    /\ UnchangedFiles /\ UNCHANGED <<everyday, review, rehearsed, journals, runs, rows>>

(* Of the backup: the formal file, and what the manifest said of it.          *)
Journal(status) ==
    [kind |-> op.kind, status |-> status,
     file |-> op.pre.file[TargetFile], stated |-> op.pre.manifest[TargetFile]]

WriteJournal ==
    /\ AtStep("journal")
    /\ journals' = journals \cup {Journal("BACKUP_VERIFIED")}
    /\ Proceed(op)
    /\ UnchangedFiles /\ UnchangedOther

(* _atomic_write_bytes, once for every file.  A -wal file stays where it is. *)
Replace ==
    /\ Forward /\ Step \in Data \cup {"manifest", "db"}
    /\ file' = IF Step \in Data THEN [file EXCEPT ![Step] = op.new] ELSE file
    /\ stated' = IF Step = "manifest" THEN op.stated ELSE stated
    /\ runtime' = IF Step = "db" THEN op.db ELSE runtime
    /\ Proceed(op)
    /\ UnchangedOther /\ UNCHANGED <<wal, journals>>

-----------------------------------------------------------------------------
(* What each mode makes sure of afterwards.                                   *)
InPlace == file[TargetFile] = op.new /\ stated[TargetFile] = op.new
RemediationInPlace == InPlace /\ "rebuilt" \in InDatabase
ActivityInPlace    == InPlace /\ Reviewed("activity") /\ runtime = op.pre.db
RemovalInPlace     == InPlace /\ "Sunday" \notin file["price"]
GapsInPlace        == InPlace
ReconcileInPlace   == InPlace
MacroInPlace       == InPlace /\ stated = op.stated

Verified == CASE op.kind = "remediation" -> RemediationInPlace
              [] op.kind = "activity" -> ActivityInPlace
              [] op.kind = "removal" -> RemovalInPlace
              [] op.kind = "gaps" -> GapsInPlace
              [] op.kind = "reconcile" -> ReconcileInPlace
              [] op.kind = "macro" -> MacroInPlace

(* The status of this run's journal; one that ended well is not kept here.    *)
CloseJournal(status) ==
    journals' = (journals \ {Journal("BACKUP_VERIFIED")})
                \cup (IF status = "ROLLBACK_FAILED" THEN {Journal(status)} ELSE {})

(* Everything that was or may have been replaced; the initial publish of the  *)
(* market activity takes back the database too, which it never wrote.         *)
Undo(k) ==
    CASE k = "remediation" -> <<"price", "manifest", "db">>
      [] k = "activity"    -> <<"market", "manifest", "db">>
      [] OTHER             -> <<TargetOf(k), "manifest">>
TakeBack == op' = [NoPublish EXCEPT !.kind = op.kind, !.pre = op.pre,
                               !.undo = Undo(op.kind), !.back = "clean"]

Verify ==
    /\ AtStep("verify")
    /\ IF Verified THEN CloseJournal("PUBLISHED") /\ Stop
                   ELSE TakeBack /\ UNCHANGED journals
    /\ UnchangedFiles /\ UnchangedOther

(* The promotion verifies nothing; its receipt is the last file it writes. *)
WriteReceipt ==
    /\ AtStep("receipt")
    /\ Stop
    /\ UnchangedFiles /\ UnchangedOther /\ UNCHANGED journals

(* An error while files are replaced: a full disk, a file in use, a temporary *)
(* file that an earlier kill left.  Before that an error only ends the run.   *)
Fail ==
    /\ Forward
    /\ IF Step \in Data \cup {"manifest", "db", "verify", "receipt"} THEN TakeBack ELSE Stop
    /\ UnchangedFiles /\ UnchangedOther /\ UNCHANGED journals

(* One file from its backup; a failure is noted and the others are tried, but *)
(* the promotion, which has the old contents in memory only, ends there.      *)
RestoreFile ==
    /\ InProgress /\ op.undo # <<>>
    /\ LET f == Head(op.undo)
           rest == [op EXCEPT !.undo = Tail(@)]
       IN  \/ /\ file' = IF f \in Data THEN [file EXCEPT ![f] = op.pre.file[f]] ELSE file
              /\ stated' = IF f = "manifest" THEN op.pre.manifest ELSE stated
              /\ runtime' = IF f = "db" THEN op.pre.db ELSE runtime
              /\ op' = IF op.kind = "promotion" /\ rest.undo = <<>> THEN NoPublish ELSE rest
           \/ /\ UnchangedFiles
              /\ op' = IF op.kind = "promotion" THEN NoPublish ELSE [rest EXCEPT !.back = "errors"]
    /\ UNCHANGED wal /\ UnchangedOther /\ UNCHANGED journals

(* Mutant: a restoration that got to its end is taken for a complete one.     *)
SettleUnseen ==
    /\ InProgress /\ op.undo = <<>> /\ op.back # "no"
    /\ CloseJournal("ROLLED_BACK")
    /\ Stop
    /\ UnchangedFiles /\ UnchangedOther

(* The files are hashed once more, and the journal says what was found. *)
Settle ==
    /\ InProgress /\ op.undo = <<>> /\ op.back # "no"
    /\ CloseJournal(IF AsHashed /\ op.back = "clean" THEN "ROLLED_BACK" ELSE "ROLLBACK_FAILED")
    /\ Stop
    /\ UnchangedFiles /\ UnchangedOther

KillOneOff ==
    /\ InProgress
    /\ Stop
    /\ UnchangedFiles /\ UnchangedOther /\ UNCHANGED journals

-----------------------------------------------------------------------------
(* Where a change of t by others is overwritten and nobody notices: from the  *)
(* last comparison on, and, in the modes that read the manifest before they   *)
(* hash it, from there; a preview's file is not hashed again at all.          *)
Unprotected(t) ==
    /\ InProgress
    /\ \/ ~ Forward
       \/ Step \notin {"hash", "rehearsed", "state", "rebuild", "backup"}
       \/ op.kind \in {"activity", "removal", "gaps"} /\ Step = "hash"
       \/ op.kind \in {"removal", "gaps"} /\ Step = "state" /\ t = "price"
       \/ op.kind = "reconcile" /\ Step = "state"

OthersAdd(t) ==
    /\ t \notin rows /\ Cardinality(rows) < MaxOthers
    /\ rows' = rows \cup {t}
    /\ unseen' = (unseen \/ Unprotected(t))

(* An everyday publish, seen from here: the row, and the entry for the file   *)
(* as it is.                                                                  *)
PublishRow(t) ==
    /\ t \in Data \ {"master"} /\ file[t] # Absent
    /\ OthersAdd(t)
    /\ everyday' = [file |-> t, before |-> file[t], manifest |-> stated]
    /\ file' = [file EXCEPT ![t] = @ \cup {"row"}]
    /\ stated' = [stated EXCEPT ![t] = file'[t]]
    /\ UNCHANGED <<runtime, wal, review, rehearsed, op, journals, runs>>

(* It fails after all, and restores both files from its own backup, whatever  *)
(* has become of them.  (Without one of these programs in between, all is as  *)
(* it was.)                                                                   *)
TakeRowBack ==
    /\ everyday # NoMode
    /\ file' = [file EXCEPT ![everyday.file] = everyday.before]
    /\ stated' = everyday.manifest
    /\ everyday' = NoMode /\ unseen' = TRUE
    /\ UNCHANGED <<runtime, wal, review, rehearsed, op, journals, runs, rows>>

(* A backup or a pipeline run noted in the database: it is committed to the   *)
(* -wal file, and comes to the main file at a checkpoint, at the latest when  *)
(* the last connection is closed in an orderly way.                           *)
WriteHistory ==
    /\ OthersAdd("db")
    /\ wal' = wal \cup {"row"}
    /\ UNCHANGED <<file, stated, runtime, everyday, review, rehearsed, op, journals, runs>>

Checkpoint ==
    /\ wal # {} /\ wal' = {}
    /\ runtime' = runtime \cup wal
    /\ UNCHANGED <<file, stated>> /\ UnchangedOther /\ UNCHANGED <<op, journals>>

OneOffNext ==
    \/ \E k \in Modes : Review(k) \/ Rehearse(k) \/ ReadFormal(k)
    \/ Hash \/ AskRehearsal \/ StateManifest \/ RebuildDatabase \/ CopyFiles \/ WriteJournal
    \/ Replace \/ Verify \/ WriteReceipt \/ Fail \/ RestoreFile \/ Settle \/ KillOneOff
    \/ \E t \in Data : PublishRow(t)
    \/ TakeRowBack \/ WriteHistory \/ Checkpoint

OneOffSpec == OneOffInit /\ [][OneOffNext]_ovars

-----------------------------------------------------------------------------
(* Unless others published where nothing protects it, or took back what they  *)
(* had published: between two runs a formal file is what the manifest states, *)
(* or a journal that does not claim to have ended well has both as they were  *)
(* when they agreed, whatever failed and wherever the program was killed,     *)
(* also while it was taking back.  Not so for the promotion, which has no     *)
(* backup.                                                                    *)
TornFileHasBackup ==
    ~ InProgress /\ ~ unseen => \A t \in Data \ {"master"} :
        Unattested(t) => \E j \in journals :
            /\ TargetOf(j.kind) = t /\ j.status \in {"BACKUP_VERIFIED", "ROLLBACK_FAILED"}
            /\ j.file = j.stated

(* Nor is anything lost that others added before that, neither by replacing   *)
(* whole files nor by taking them back: each mode compares in time.  A row    *)
(* of the database is protected by the comparison from when it is in the main *)
(* file: one that is in the -wal file only when the copies are compared may   *)
(* be dropped without anyone noticing.                                        *)
NothingIsLost ==
    ~ unseen => /\ \A t \in rows \ {"db"} : "row" \in file[t]
                /\ "db" \in rows => "row" \in InDatabase
=============================================================================
