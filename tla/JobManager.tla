----------------------------- MODULE JobManager -----------------------------
(***************************************************************************)
(* The launcher's server (tools/p1008_app_server.py): P1008JobManager, its   *)
(* job thread with the pipelines the thread runs, the state file every step  *)
(* is written to, and restarts of the server.                               *)
(*                                                                         *)
(* The state of a job is held twice: in memory (/status) and in             *)
(* runtime/p1008_app_state.json (/refresh, and the next server).  Programs   *)
(* the job starts are child processes which may hang; each has a time limit. *)
(* The formal CSV files are seen through their hashes: a counter for the     *)
(* files of the two TWSE updaters and one for all others.                   *)
(***************************************************************************)
EXTENDS Naturals, Sequences, FiniteSets

CONSTANTS
  MaxJobs,     \* bound: jobs started
  MaxTrouble,  \* bound: servers killed, and steps that raise
  MaxChanges   \* bound: changes of formal files

ASSUME BoundsAssumption == MaxJobs \in Nat /\ MaxTrouble \in Nat /\ MaxChanges \in Nat

VARIABLES
  up,       \* the server process is there
  mem,      \* self.state
  disk,     \* runtime/p1008_app_state.json
  thread,   \* the job thread
  child,    \* the program the thread waits for
  orphan,   \* a publisher that outlived its server
  formal,   \* hashes of the formal CSV files
  truth,    \* history: what really happened to the latest job
  spent     \* how much of each bound is used

vars == <<up, mem, disk, thread, child, orphan, formal, truth, spent>>

(***************************************************************************)
(* Data                                                                    *)
(***************************************************************************)
JobTypes ==
  {"default", "update-data", "news-scan", "official-ir-scan", "report",
   "candidate", "owner-publish"}

StepStatuses == {"none", "RUNNING", "SUCCEEDED", "FAILED", "BLOCKED", "FAIL_CLOSED"}

Steps ==
  {"preflight", "bootstrap", "daily", "market", "freshness", "other", "news",
   "official", "trigger", "rolling", "candidate", "review", "publish"}

\* Of a component's status only its class matters; OK stands for all good ones.
Partial == {"STALE", "RECONCILIATION_REQUIRED", "PARTIAL_FAILURE"}

CompStatuses == {"none", "OK", "FAILED", "FAIL_CLOSED", "BLOCKED"} \union Partial

Components ==
  {"dailyPrice", "marketActivity", "freshness", "news", "officialIR",
   "reportGovernance", "rollingBrief", "reportLibrary", "phaseB1"}

\* Components _run_job_inner derives "overallStatus" from.
Summarised ==
  {"dailyPrice", "marketActivity", "news", "officialIR", "rollingBrief", "reportLibrary"}

Verdicts == {"SUCCEEDED", "FAILED", "BLOCKED", "PARTIAL_FAILURE"}

\* Statuses refresh_payload takes from the state file.
Accepted == {"IDLE", "RUNNING", "SUCCEEDED", "FAILED", "ERROR", "INTERRUPTED"}

NewState(job, type, status) ==
  [job |-> job, type |-> type, status |-> status, overall |-> "",
   steps |-> [x \in Steps |-> "none"], comps |-> [c \in Components |-> "none"],
   errors |-> FALSE, modified |-> FALSE]

Blank == NewState(0, "", "IDLE")

NoFile == NewState(0, "", "missing")

CutShort == NewState(0, "", "torn")

Files == {"twse", "other"}

NoThread ==
  [pc |-> "none", before |-> [f \in Files |-> 0], stepBefore |-> [f \in Files |-> 0],
   daily |-> "none", failures |-> FALSE, reconcile |-> FALSE, unhandled |-> FALSE]

Init ==
  /\ up = TRUE
  /\ mem = Blank
  /\ disk = NoFile
  /\ thread = NoThread
  /\ child = "none"
  /\ orphan = FALSE
  /\ formal = [f \in Files |-> 0]
  /\ truth = [job |-> 0, wrong |-> FALSE, foreign |-> FALSE, unnoted |-> FALSE]
  /\ spent = [trouble |-> 0, changes |-> 0]

Alive == thread.pc # "none"

\* Every mutation of the state is written to the state file under the lock.
Persist(m) == mem' = m /\ disk' = m

Trouble == spent.trouble < MaxTrouble /\ spent' = [spent EXCEPT !.trouble = @ + 1]

Wrong(b) == truth' = [truth EXCEPT !.wrong = @ \/ b]

SetStep(m, step, status) == [m EXCEPT !.steps[step] = status]

SetComponent(m, comp, status) == [m EXCEPT !.comps[comp] = status]

AddError(m) == [m EXCEPT !.errors = TRUE]

\* component_failures: written to the state only when the pipeline ends.
Failure(t) == [t EXCEPT !.failures = TRUE]

(***************************************************************************)
(* Requests                                                                *)
(***************************************************************************)
\* start_job and start_owner_publish: refused (409) while the thread is alive.
Start(type) ==
  /\ up /\ ~Alive /\ truth.job < MaxJobs
  /\ LET m == NewState(truth.job + 1, type, "RUNNING")
     IN Persist(m)
  /\ thread' = [NoThread EXCEPT !.pc = IF type = "owner-publish" THEN "hash" ELSE "preflight"]
  /\ truth' = [job |-> truth.job + 1, wrong |-> FALSE, foreign |-> FALSE, unnoted |-> FALSE]
  /\ UNCHANGED <<up, child, orphan, formal, spent>>

\* refresh_payload: without a thread the state file replaces the memory, when its
\* status is one of those accepted; otherwise the request fails.
Refresh ==
  /\ up /\ ~Alive
  /\ disk.status \in Accepted
  /\ mem' = disk
  /\ UNCHANGED <<up, disk, thread, child, orphan, formal, truth, spent>>

\* refresh_authority_git_sync: stores a result this model leaves out, and with it
\* writes the whole state.
AuthorityGitSync ==
  /\ up
  /\ disk' = mem
  /\ UNCHANGED <<up, mem, thread, child, orphan, formal, truth, spent>>

(***************************************************************************)
(* Child processes                                                         *)
(***************************************************************************)
ChildSteps ==
  {"daily", "market", "freshness", "other", "news", "official", "candidate", "publish"}

\* _run_python_step starts nothing once the state has errors.
Skipped == thread.pc \in {"news", "official"} /\ mem.errors

StartChild ==
  /\ thread.pc \in ChildSteps /\ child = "none" /\ ~Skipped
  /\ child' = "working"
  /\ Persist(SetStep(mem, thread.pc, "RUNNING"))
  /\ thread' = [thread EXCEPT !.stepBefore = formal]
  /\ UNCHANGED <<up, orphan, formal, truth, spent>>

\* It ends by itself, or never.
ChildEnds(ok) ==
  /\ child = "working"
  /\ child' = IF ok THEN "ok" ELSE "failed"
  /\ UNCHANGED <<up, mem, disk, thread, orphan, formal, truth, spent>>

\* Mutant: subprocess.run without timeout.
WaitsForPublisher ==
  /\ child = "working" /\ thread.pc # "publish"
  /\ child' = "timeout"
  /\ UNCHANGED <<up, mem, disk, thread, orphan, formal, truth, spent>>

\* Every child has a time limit after which it is killed.
TimesOut ==
  /\ child = "working"
  /\ child' = "timeout"
  /\ UNCHANGED <<up, mem, disk, thread, orphan, formal, truth, spent>>

Ended == child \in {"ok", "failed", "timeout"}

\* A formal file changes: by the publisher of this job, by one whose server is
\* gone, or by a program somebody runs by hand.  A change that is taken back within
\* the job (a publish rolled back) leaves nothing to see and is not one.
Change(f) ==
  /\ spent.changes < MaxChanges
  /\ spent' = [spent EXCEPT !.changes = @ + 1]
  /\ formal' = [formal EXCEPT ![f] = @ + 1]

PublisherWrites(f) ==
  /\ child = "working" /\ thread.pc = "publish"
  /\ Change(f)
  /\ UNCHANGED <<up, mem, disk, thread, child, orphan, truth>>

\* The thread has taken its hash baseline and not yet compared with it.
InWindow == thread.pc \notin {"none", "hash", "preflight", "end"}

ForeignWrites(f) ==
  /\ Change(f)
  /\ truth' = [truth EXCEPT !.foreign = @ \/ InWindow]
  /\ UNCHANGED <<up, mem, disk, thread, child, orphan>>

OrphanEnds ==
  /\ orphan
  /\ orphan' = FALSE
  /\ \/ UNCHANGED <<formal, truth, spent>>
     \/ /\ \E f \in Files : Change(f)
        /\ truth' = [truth EXCEPT !.foreign = @ \/ InWindow]
  /\ UNCHANGED <<up, mem, disk, thread, child>>

(***************************************************************************)
(* _run_job_inner                                                          *)
(***************************************************************************)
\* The sections after the TWSE chain, in order, and when each is entered.
Sections == <<"news", "official", "trigger", "rolling", "candidate", "finish">>

Entered(section, t) ==
  LET type == mem.type
      scans == {"default", "news-scan", "official-ir-scan"}
  IN CASE section = "news"      -> type \in {"default", "news-scan"} /\ ~t.failures
       [] section = "official"  -> type \in scans /\ ~t.failures
       [] section = "trigger"   -> \/ type \in scans /\ ~t.failures /\ ~t.reconcile
                                   \/ type = "report"
       [] section = "rolling"   -> type = "default" /\ ~t.failures /\ ~t.reconcile
       [] section = "candidate" -> type = "candidate"
       [] OTHER                 -> TRUE

\* The thread t goes on with the first section after the i-th that is entered.
From(t, i) ==
  [t EXCEPT !.pc = Sections[CHOOSE j \in (i + 1)..Len(Sections) :
                              /\ Entered(Sections[j], t)
                              /\ \A k \in (i + 1)..(j - 1) : ~Entered(Sections[k], t)]]

\* One section ends: state m, thread t, and whether something went wrong in it.
Section(m, t, wrong) ==
  /\ Persist(m)
  /\ thread' = t
  /\ child' = "none"
  /\ Wrong(wrong)
  /\ UNCHANGED <<up, orphan, formal, spent>>

\* Hash baseline; a missing tool or manifest ends the job.
Preflight(ok) ==
  /\ thread.pc = "preflight"
  /\ LET m == SetStep(mem, "preflight", IF ok THEN "SUCCEEDED" ELSE "FAILED")
         t == [thread EXCEPT !.before = formal, !.pc = IF ok THEN "bootstrap" ELSE "refresh"]
     IN Section(IF ok THEN m ELSE AddError(m), t, ~ok)

Bootstrap(ok) ==
  /\ thread.pc = "bootstrap"
  /\ LET m == SetComponent(SetStep(mem, "bootstrap", IF ok THEN "SUCCEEDED" ELSE "FAILED"),
                           "reportLibrary", IF ok THEN "OK" ELSE "FAIL_CLOSED")
     IN IF ok
        THEN Section(m, IF mem.type \in {"default", "update-data"}
                        THEN [thread EXCEPT !.pc = "daily"] ELSE From(thread, 0), FALSE)
        ELSE Section(AddError(m), [thread EXCEPT !.pc = "refresh"], TRUE)

\* _daily_price_boundary_error, _market_activity_boundary_error: a dry run may not
\* change any formal file.
BoundaryError == formal # thread.stepBefore

StepStatus == IF child = "ok" THEN "SUCCEEDED" ELSE "FAILED"

\* A failed daily price step blocks the market step; both are failures.
Daily(status) ==
  /\ thread.pc = "daily" /\ Ended
  /\ LET failed == child # "ok" \/ BoundaryError
         m == SetStep(mem, "daily", StepStatus)
     IN IF failed
        THEN Section(SetComponent(SetStep(SetComponent(m, "dailyPrice", "FAILED"),
                                          "market", "BLOCKED"),
                                  "marketActivity", "BLOCKED"),
                     From(Failure(thread), 0), TRUE)
        ELSE Section(SetComponent(m, "dailyPrice", "OK"),
                     [thread EXCEPT !.pc = "market", !.daily = status], FALSE)

\* The market step says NO_NEW_DATA or DRY_RUN_READY like the daily one, or that
\* formal rows must be reconciled; a failed one is BLOCKED or STALE.
Market(status, onFailure) ==
  /\ thread.pc = "market" /\ Ended
  /\ LET failed == child # "ok" \/ BoundaryError
         reconcile == status = "RECONCILIATION_REQUIRED"
         s == SetStep(mem, "market", StepStatus)
         m == IF reconcile THEN SetComponent(s, "freshness", status) ELSE s
     IN CASE failed ->
               Section(SetComponent(m, "marketActivity", onFailure),
                       From([Failure(thread) EXCEPT !.reconcile = reconcile], 0), TRUE)
          [] ~failed /\ reconcile ->
               Section(SetComponent(m, "marketActivity", status),
                       [thread EXCEPT !.pc = "other", !.reconcile = TRUE], FALSE)
          [] ~failed /\ ~reconcile /\ status = thread.daily ->
               Section(SetComponent(m, "marketActivity", "OK"),
                       [thread EXCEPT !.pc = "freshness"], FALSE)
          [] OTHER ->                       \* "freshness states disagree"
               Section(SetComponent(m, "marketActivity", "OK"),
                       From(Failure(thread), 0), TRUE)

\* The status file of a validation that was killed is the one of an earlier run.
Freshness(onFailure) ==
  /\ thread.pc = "freshness" /\ Ended
  /\ LET m == SetComponent(SetStep(mem, "freshness", StepStatus),
                           "freshness", IF child = "ok" THEN "OK" ELSE onFailure)
     IN Section(m, IF child = "ok" THEN [thread EXCEPT !.pc = "other"]
                   ELSE From(Failure(thread), 0), child # "ok")

OtherData ==
  /\ thread.pc = "other" /\ Ended
  /\ Section(SetStep(mem, "other", StepStatus),
             From(IF child = "ok" THEN thread ELSE Failure(thread), 0), child # "ok")

\* A news scan that fails adds an error and no component failure ...
News ==
  /\ thread.pc = "news" /\ (Ended \/ Skipped)
  /\ LET ok == child = "ok"
         m == IF Skipped THEN mem ELSE SetStep(mem, "news", StepStatus)
         c == SetComponent(m, "news", IF ok THEN "OK" ELSE "FAILED")
     IN Section(IF ok THEN c ELSE AddError(c), From(thread, 1), ~ok)

\* ... so the official scan that follows is not even started, and fails.
OfficialIR(status) ==
  /\ thread.pc = "official" /\ (Ended \/ Skipped)
  /\ LET ok == child = "ok"
         m == IF Skipped THEN mem ELSE SetStep(mem, "official", StepStatus)
         c == SetComponent(m, "officialIR", IF ok THEN status ELSE "FAIL_CLOSED")
     IN Section(IF ok THEN c ELSE AddError(c),
                From(IF ok THEN thread ELSE Failure(thread), 2), ~ok)

\* _evaluate_report_trigger_step: a failure is a step and a component, no error; a
\* decision to fail closed is a component alone.
ReportTrigger(step, decision) ==
  /\ thread.pc = "trigger"
  /\ step = "FAIL_CLOSED" => decision = "FAIL_CLOSED"
  /\ Section(SetComponent(SetStep(mem, "trigger", step), "reportGovernance", decision),
             From(thread, 3), decision # "OK")

\* The brief is refreshed, then the health of the report library is looked at.
RollingBrief(refreshed, healthy) ==
  /\ thread.pc = "rolling"
  /\ LET m == SetComponent(SetStep(mem, "rolling", IF refreshed THEN "SUCCEEDED" ELSE "FAILED"),
                           "rollingBrief", IF refreshed THEN "OK" ELSE "FAILED")
         ok == refreshed /\ healthy
     IN Section(IF refreshed /\ ~healthy THEN SetComponent(m, "reportLibrary", "FAIL_CLOSED")
                ELSE m,
                From(IF ok THEN thread ELSE Failure(thread), 4), ~ok)

\* Analysis or report candidate without a valid trigger: BLOCKED, no error.
CandidateBlocked ==
  /\ thread.pc = "candidate" /\ child = "none"
  /\ Section(SetComponent(SetStep(mem, "candidate", "BLOCKED"), "phaseB1", "FAIL_CLOSED"),
             From(thread, 5), TRUE)

\* Built, and its checkpoint validated ("valid"), or not.
Candidate(valid) ==
  /\ thread.pc = "candidate" /\ Ended
  /\ LET ok == child = "ok" /\ valid
         m == SetComponent(SetStep(mem, "candidate", StepStatus),
                           "phaseB1", IF ok THEN "OK" ELSE "FAIL_CLOSED")
     IN Section(IF ok THEN m ELSE AddError(m), From(thread, 5), ~ok)

Finish ==
  /\ thread.pc = "finish"
  /\ LET sums == mem.type \in {"default", "update-data", "official-ir-scan"}
         partial == \E c \in Summarised : mem.comps[c] \notin {"none", "OK"}
         m == [mem EXCEPT !.errors = @ \/ thread.failures,
                          !.overall = IF partial THEN "PARTIAL_FAILURE" ELSE "SUCCEEDED"]
     IN Section(IF sums THEN m ELSE mem, [thread EXCEPT !.pc = "refresh"], FALSE)

\* Mutant: only formal files the job may not change are compared.
RefreshLooksAtOthers ==
  /\ thread.pc = "refresh"
  /\ LET changed == {f \in Files \ {"twse"} : formal[f] # thread.before[f]}
         m == [mem EXCEPT !.modified = changed # {}]
     IN Section(IF changed # {} THEN AddError(m) ELSE m,
                [thread EXCEPT !.pc = "end"], FALSE)

\* _refresh: compares with the baseline; only default and update-data jobs may see
\* the TWSE files changed.  The status it sets is not the last one.
RefreshState ==
  /\ thread.pc = "refresh"
  /\ LET changed == {f \in Files : formal[f] # thread.before[f]}
         expected == mem.type \in {"default", "update-data"} /\ "other" \notin changed
         m == [mem EXCEPT !.modified = changed # {}]
     IN Section(IF changed # {} /\ ~expected
                THEN [AddError(m) EXCEPT !.status = "FAILED"] ELSE m,
                [thread EXCEPT !.pc = "end"], FALSE)

\* Anything may raise; _run_job notes it.
Raises ==
  /\ thread.pc \notin
       {"none", "hash", "review", "publish", "endPublish", "raised", "noted", "end"}
  /\ child # "working"
  /\ Trouble
  /\ Persist(AddError(mem))
  /\ thread' = [thread EXCEPT !.pc = "end", !.unhandled = TRUE]
  /\ child' = "none"
  /\ Wrong(TRUE)
  /\ UNCHANGED <<up, orphan, formal>>

\* Mutant: only the components "overallStatus" is derived from are looked at.
AggregateSummarised ==
  LET seen == {mem.comps[c] : c \in Summarised}
  IN CASE seen \intersect {"FAILED", "FAIL_CLOSED"} # {} -> "FAILED"
       [] "BLOCKED" \in seen -> "BLOCKED"
       [] seen \intersect Partial # {} \/ mem.overall = "PARTIAL_FAILURE" -> "PARTIAL_FAILURE"
       [] mem.errors -> "FAILED"
       [] OTHER -> "SUCCEEDED"

\* _aggregate_current_run_status.
Aggregate ==
  LET seen == {mem.comps[c] : c \in Components} \union
              {mem.steps[x] : x \in Steps} \union {mem.overall}
  IN CASE seen \intersect {"FAILED", "FAIL_CLOSED"} # {} -> "FAILED"
       [] seen \intersect {"FAILED", "FAIL_CLOSED"} = {} /\ "BLOCKED" \in seen -> "BLOCKED"
       [] /\ seen \intersect {"FAILED", "FAIL_CLOSED", "BLOCKED"} = {}
          /\ seen \intersect Partial # {} -> "PARTIAL_FAILURE"
       [] OTHER -> IF mem.errors THEN "FAILED" ELSE "SUCCEEDED"

\* Mutant: the verdict is not written to the state file.
EndUnsaved ==
  /\ thread.pc = "end"
  /\ mem' = [mem EXCEPT !.status = IF thread.unhandled THEN "FAILED" ELSE Aggregate]
  /\ thread' = NoThread
  /\ UNCHANGED <<up, disk, child, orphan, formal, truth, spent>>

End ==
  /\ thread.pc = "end"
  /\ LET status == IF thread.unhandled THEN "FAILED" ELSE Aggregate
     IN Persist([mem EXCEPT !.status = status,
                            !.overall = status])
  /\ thread' = NoThread
  /\ UNCHANGED <<up, child, orphan, formal, truth, spent>>

(***************************************************************************)
(* _run_owner_publish_job                                                  *)
(***************************************************************************)
PublishBaseline ==
  /\ thread.pc = "hash"
  /\ thread' = [thread EXCEPT !.pc = "review", !.before = formal]
  /\ UNCHANGED <<up, mem, disk, child, orphan, formal, truth, spent>>

\* Reading the hashes is outside the try: the thread dies, the state stays RUNNING.
PublishBaselineRaises ==
  /\ thread.pc = "hash"
  /\ Trouble
  /\ thread' = NoThread
  /\ Wrong(TRUE)
  /\ UNCHANGED <<up, mem, disk, child, orphan, formal>>

\* No review package, a wrong phrase, or publish not allowed: refused.
PublishReview(allowed) ==
  /\ thread.pc = "review"
  /\ LET m == SetStep(mem, "review", IF allowed THEN "SUCCEEDED" ELSE "FAILED")
     IN Section(IF allowed THEN m ELSE AddError(m),
                [thread EXCEPT !.pc = IF allowed THEN "publish" ELSE "endPublish"], ~allowed)

\* The hashes are compared unless the publisher was killed.
PublishEnds ==
  /\ thread.pc = "publish" /\ Ended
  /\ LET m == [SetStep(mem, "publish", StepStatus) EXCEPT
                 !.modified = IF child = "timeout" THEN @ ELSE formal # thread.before]
     IN Section(IF child = "ok" THEN m ELSE AddError(m),
                [thread EXCEPT !.pc = "endPublish"], child # "ok")

PublishVerdict == IF mem.errors THEN "FAILED" ELSE "SUCCEEDED"

EndPublish ==
  /\ thread.pc = "endPublish"
  /\ Persist([mem EXCEPT !.status = PublishVerdict])
  /\ thread' = NoThread
  /\ UNCHANGED <<up, child, orphan, formal, truth, spent>>

\* The program, its checks or the look at Git before the verdict raise: nothing is
\* written yet.
PublishRaises ==
  /\ thread.pc \in {"review", "publish", "endPublish"} /\ child # "working"
  /\ Trouble
  /\ thread' = [thread EXCEPT !.pc = "raised"]
  /\ child' = "none"
  /\ Wrong(TRUE)
  /\ UNCHANGED <<up, mem, disk, orphan, formal>>

\* The review package is rebuilt after the status was set, under one lock: what it
\* raises leaves the verdict in memory and gives the lock away; what raises after
\* the lock leaves it in the state file too.
SummaryRaises(saved) ==
  /\ thread.pc = "endPublish"
  /\ Trouble
  /\ mem' = [mem EXCEPT !.status = PublishVerdict]
  /\ disk' = IF saved THEN mem' ELSE disk
  /\ thread' = [thread EXCEPT !.pc = "raised"]
  /\ truth' = [truth EXCEPT !.wrong = TRUE, !.unnoted = TRUE]
  /\ UNCHANGED <<up, child, orphan, formal>>

\* _add_error takes the lock again: until then a request sees, or saves, the verdict
\* without the error ...
NoteRaised ==
  /\ thread.pc = "raised"
  /\ Persist(AddError(mem))
  /\ thread' = [thread EXCEPT !.pc = "noted"]
  /\ truth' = [truth EXCEPT !.unnoted = FALSE]
  /\ UNCHANGED <<up, child, orphan, formal, spent>>

\* ... and under a third one the status is replaced.
FailNoted ==
  /\ thread.pc = "noted"
  /\ Persist([mem EXCEPT !.status = "FAILED"])
  /\ thread' = NoThread
  /\ UNCHANGED <<up, child, orphan, formal, truth, spent>>

(***************************************************************************)
(* The server dies and is started again                                    *)
(***************************************************************************)
\* Batch programs die with their server; a publisher may go on.  Whoever is writing
\* the state file, the thread or a request, may leave it cut short.
Killed(torn) ==
  /\ up
  /\ Trouble
  /\ up' = FALSE
  /\ mem' = Blank
  /\ disk' = IF torn THEN CutShort ELSE disk
  /\ thread' = NoThread
  /\ child' = "none"
  /\ orphan' = (orphan \/ (child = "working" /\ thread.pc = "publish"))
  /\ Wrong(Alive)
  /\ UNCHANGED formal

\* _initial_state: a job that was RUNNING is INTERRUPTED, in memory.
Restart ==
  /\ ~up
  /\ up' = TRUE
  /\ mem' = IF disk.status \in {"missing", "torn"} THEN Blank
            ELSE IF disk.status = "RUNNING" THEN [disk EXCEPT !.status = "INTERRUPTED"]
            ELSE disk
  /\ UNCHANGED <<disk, thread, child, orphan, formal, truth, spent>>

(***************************************************************************)
(* Specification                                                           *)
(***************************************************************************)
RequestNext ==
  (\E type \in JobTypes : Start(type)) \/ Refresh \/ AuthorityGitSync

InnerNext ==
  \/ \E ok \in BOOLEAN : Preflight(ok) \/ Bootstrap(ok) \/ Candidate(ok)
  \/ \E step \in {"SUCCEEDED", "FAIL_CLOSED"}, decision \in {"OK", "FAIL_CLOSED"} :
        ReportTrigger(step, decision)
  \/ \E status \in {"NO_NEW_DATA", "DRY_RUN_READY"} : Daily(status)
  \/ \E status \in {"NO_NEW_DATA", "DRY_RUN_READY", "RECONCILIATION_REQUIRED"},
        onFailure \in {"BLOCKED", "STALE"} : Market(status, onFailure)
  \/ \E onFailure \in {"OK", "FAIL_CLOSED"} : Freshness(onFailure)
  \/ OtherData \/ News
  \/ \E status \in {"OK", "PARTIAL_FAILURE"} : OfficialIR(status)
  \/ \E refreshed, healthy \in BOOLEAN : RollingBrief(refreshed, healthy)
  \/ CandidateBlocked \/ Finish \/ RefreshState \/ End

PublishNext ==
  \/ PublishBaseline \/ PublishEnds \/ EndPublish \/ NoteRaised \/ FailNoted
  \/ \E allowed \in BOOLEAN : PublishReview(allowed)

\* What the thread does by itself, as opposed to what happens to it.
ThreadNext == StartChild \/ TimesOut \/ InnerNext \/ PublishNext

Environment ==
  \/ \E ok \in BOOLEAN : ChildEnds(ok)
  \/ \E f \in Files : PublisherWrites(f) \/ ForeignWrites(f)
  \/ OrphanEnds
  \/ Raises \/ PublishRaises \/ PublishBaselineRaises
  \/ \E saved \in BOOLEAN : SummaryRaises(saved)
  \/ \E torn \in BOOLEAN : Killed(torn)
  \/ Restart

Next == RequestNext \/ ThreadNext \/ Environment

Spec == Init /\ [][Next]_vars

\* The operating system runs the thread, and every wait has a time limit; that a
\* child ends by itself is not assumed.
FairSpec == Spec /\ WF_vars(ThreadNext)

(***************************************************************************)
(* Properties                                                              *)
(***************************************************************************)
StateType ==
  [job : Nat, type : JobTypes \union {""},
   status : Verdicts \union {"IDLE", "RUNNING", "INTERRUPTED", "missing", "torn"},
   overall : Verdicts \union {""},
   steps : [Steps -> StepStatuses], comps : [Components -> CompStatuses],
   errors : BOOLEAN, modified : BOOLEAN]

Pcs ==
  {"none", "preflight", "bootstrap", "trigger", "rolling", "finish", "refresh", "end",
   "hash", "review", "endPublish", "raised", "noted"} \union ChildSteps

ThreadType ==
  [pc : Pcs, before : [Files -> Nat], stepBefore : [Files -> Nat],
   daily : {"none", "NO_NEW_DATA", "DRY_RUN_READY"},
   failures : BOOLEAN, reconcile : BOOLEAN, unhandled : BOOLEAN]

\* The types of the variables; a child works only for a thread that waits for it,
\* and a thread only in a server.
TypeOK ==
  /\ up \in BOOLEAN
  /\ mem \in StateType
  /\ disk \in StateType
  /\ thread \in ThreadType
  /\ child \in {"none", "working", "ok", "failed", "timeout"}
  /\ child # "none" => thread.pc \in ChildSteps
  /\ Alive => up
  /\ orphan \in BOOLEAN
  /\ formal \in [Files -> Nat]
  /\ truth \in [job : Nat, wrong : BOOLEAN, foreign : BOOLEAN, unnoted : BOOLEAN]
  /\ spent \in [{"trouble", "changes"} -> Nat]

\* "Derive health only from this run's child states, never prior UI success": a
\* job is never SUCCEEDED without an error, in memory or in the state file, when one
\* of its steps went wrong, however the failure was noted, nor when its server died.
\* Excepted is what the code leaves open: an owner publish whose last section raised
\* after the verdict was set, until _add_error has the lock again; a server killed in
\* between leaves that verdict in the state file when something saved it there.
NoSilentFailure ==
  \A m \in {mem, disk} :
    m.job = truth.job /\ m.status = "SUCCEEDED" /\ ~m.errors
      => ~truth.wrong \/ truth.unnoted

\* launcher_gate_status for a healthy report library and nothing to review.
GateOpen(m) ==
  /\ m.status # "RUNNING"
  /\ ~m.errors
  /\ ~(m.modified /\ ~(m.type = "owner-publish" /\ m.status = "SUCCEEDED"))

\* When a formal file was changed during a job by anything but the job - a publisher
\* run by hand, or one that outlived a server and finishes inside the next job - the
\* gate is open after it in one case only: the job was an owner publish that
\* SUCCEEDED, whose changes the gate excuses without asking whose they are.  Changes
\* taken back before the comparison are not counted.
ReadyGateUnchanged ==
  GateOpen(mem) /\ mem.job = truth.job /\ mem.status \in Verdicts /\ truth.foreign
    => mem.type = "owner-publish" /\ mem.status = "SUCCEEDED"

\* State m is left alone unless it is no verdict, the next job starts, or a kill cuts
\* the file short.
Kept(m, new) ==
  m.status \in Verdicts /\ new # m => new.job = m.job + 1 \/ new = CutShort

\* The verdict on a job whose thread has ended stays what it is until another job
\* is started: a refresh, a restart or a look at Git never replaces it, not even by
\* an older one, neither in memory nor in the state file.
VerdictKept ==
  [][~Alive => (up /\ up' => Kept(mem, mem')) /\ Kept(disk, disk')]_vars

\* Every job ends, whether or not the programs it started do.
JobEnds == Alive ~> ~Alive

\* "Server restarted while a previous job was RUNNING": a job that was
\* INTERRUPTED is not shown as RUNNING again.
InterruptedStays ==
  [][mem.status = "INTERRUPTED" /\ mem'.status = "RUNNING" => mem'.job = mem.job + 1]_vars

\* "Read the current persisted job": when the server has written a verdict to the
\* state file, /refresh can read it.
RefreshReadsVerdict ==
  up /\ ~Alive /\ disk.job = truth.job /\ disk.job > 0 /\ disk.status # "torn"
    => disk.status \in Accepted

=============================================================================
