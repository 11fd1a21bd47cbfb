------------------------- MODULE JobManager_proofs -------------------------
(***************************************************************************)
(* What holds of the launcher's jobs for every number of jobs, kills and     *)
(* changes: the types, that no failure is lost, that the gate sees foreign   *)
(* changes of formal files, and that a verdict stays.                        *)
(***************************************************************************)
EXTENDS JobManager, TLAPS

(***************************************************************************)
(* The inductive invariant                                                 *)
(***************************************************************************)
PublishPcs == {"hash", "review", "publish", "endPublish", "raised", "noted"}

TwsePcs == {"daily", "market", "freshness", "other"}

SectionPcs == {"news", "official", "trigger", "rolling", "candidate", "finish"}

\* Job types whose component failures become errors when the pipeline finishes.
Summing == {"default", "update-data", "official-ir-scan"}

\* Which jobs come by which sections.
TypeOfPc(m, t) ==
  /\ t.pc \in PublishPcs => m.type = "owner-publish"
  /\ t.pc \in TwsePcs => m.type \in {"default", "update-data"}
  /\ t.pc = "rolling" => m.type = "default"

\* Where a failure of the current job is noted, until the job ends.
Noted(m, t) ==
  \/ m.errors
  \/ t.pc = "end" /\ t.unhandled
  \/ /\ t.pc \in TwsePcs \union SectionPcs
     /\ t.failures /\ m.type \in Summing
  \/ /\ t.pc \in {"rolling", "candidate", "finish", "refresh", "end"}
     /\ m.comps["reportGovernance"] = "FAIL_CLOSED"
  \/ /\ t.pc \in {"finish", "refresh", "end"}
     /\ m.comps["phaseB1"] = "FAIL_CLOSED"

\* Where a foreign change of a formal file shows, until the job ends.
Seen(m, t) ==
  \/ m.errors
  \/ t.pc \in PublishPcs
  \/ t.pc = "end" /\ m.modified
  \/ t.pc # "end" /\ t.before # formal

\* What was raised and is not noted yet leaves this verdict.
Unsaid(m) == m.type = "owner-publish" /\ m.status = "SUCCEEDED" /\ truth.unnoted

\* While the thread lives, memory and state file agree, and a status that is a
\* verdict already has an error beside it; but for the time between the locks in
\* which what was raised is not noted.
AliveInv ==
  Alive => /\ mem.job = truth.job
           /\ TypeOfPc(mem, thread)
           /\ thread.pc = "noted" => mem.errors
           /\ thread.pc = "raised" =>
                \A m \in {mem, disk} : m.status \in Verdicts => m.errors \/ Unsaid(m)
           /\ thread.pc # "raised" => /\ mem = disk
                                      /\ mem.status \in Verdicts => mem.errors
                                      /\ truth.wrong => Noted(mem, thread)

\* What the thread knows of the formal files.
WindowInv ==
  Alive => /\ InWindow => \A f \in Files : thread.before[f] <= formal[f]
           /\ thread.pc \in {"hash", "preflight"} => ~truth.foreign
           /\ truth.foreign => Seen(mem, thread)

\* A verdict is about the latest job, and memory and state file agree on it.
VerdictInv ==
  /\ ~up => mem.status = "IDLE"
  /\ \A m \in {mem, disk} : m.status \in Verdicts => m.job = truth.job
  /\ up /\ (mem.status \in Verdicts \/ disk.status \in Verdicts)
       => mem = disk \/ thread.pc = "raised"

\* What the gate would make of the state file.
GateInv ==
  \A m \in {mem, disk} :
    GateOpen(m) /\ m.job = truth.job /\ m.status \in Verdicts /\ truth.foreign
      => m.type = "owner-publish" /\ m.status = "SUCCEEDED"

Inv ==
  /\ TypeOK
  /\ AliveInv
  /\ WindowInv
  /\ VerdictInv
  /\ NoSilentFailure
  /\ GateInv

(***************************************************************************)
(* Lemmas about the operators                                              *)
(***************************************************************************)
\* n is the state m, perhaps with other steps and components.
Same(m, n) ==
  /\ n \in StateType
  /\ n.job = m.job /\ n.type = m.type /\ n.status = m.status
  /\ n.errors = m.errors /\ n.modified = m.modified

\* Setting a step changes nothing else.
LEMMA SetStepSame ==
  ASSUME NEW m \in StateType, NEW step \in Steps, NEW status \in StepStatuses
  PROVE  Same(m, SetStep(m, step, status)) /\ SetStep(m, step, status).comps = m.comps
BY DEF Same, SetStep, StateType

\* Setting a component changes nothing else.
LEMMA SetComponentSame ==
  ASSUME NEW m \in StateType, NEW comp \in Components, NEW status \in CompStatuses
  PROVE  /\ Same(m, SetComponent(m, comp, status))
         /\ SetComponent(m, comp, status).comps = [m.comps EXCEPT ![comp] = status]
BY DEF Same, SetComponent, StateType

\* An error changes nothing else.
LEMMA AddErrorSame ==
  ASSUME NEW m \in StateType
  PROVE  /\ AddError(m) \in StateType
         /\ AddError(m).errors
         /\ AddError(m).job = m.job /\ AddError(m).type = m.type
         /\ AddError(m).status = m.status /\ AddError(m).comps = m.comps
BY DEF AddError, StateType

\* The thread goes on with one of the later sections, which it may enter.
LEMMA FromGoesOn ==
  ASSUME NEW t \in ThreadType, NEW i \in 0..5
  PROVE  /\ From(t, i) \in ThreadType
         /\ From(t, i) = [t EXCEPT !.pc = From(t, i).pc]
         /\ From(t, i).pc \in SectionPcs
         /\ From(t, i).pc = "rolling" => mem.type = "default"
         /\ i >= 3 => From(t, i).pc \in {"rolling", "candidate", "finish"}
         /\ i = 5 => From(t, i).pc = "finish"
<1> DEFINE P(j) == Entered(Sections[j], t)
           Q(j) == P(j) /\ \A k \in (i + 1)..(j - 1) : ~P(k)
           n == CHOOSE j \in (i + 1)..6 : Q(j)
<1>1. /\ Len(Sections) = 6
      /\ Sections[1] = "news" /\ Sections[2] = "official" /\ Sections[3] = "trigger"
      /\ Sections[4] = "rolling" /\ Sections[5] = "candidate" /\ Sections[6] = "finish"
  BY DEF Sections
<1>2. P(6)
  BY <1>1 DEF Entered
<1>3. \E j \in (i + 1)..6 : Q(j)
  <2> HIDE DEF P
  <2>1. CASE P(i + 1)
    BY <2>1
  <2>2. CASE ~P(i + 1) /\ i + 2 \in (i + 1)..6 /\ P(i + 2)
    BY <2>2
  <2>3. CASE /\ ~P(i + 1) /\ ~P(i + 2) /\ i + 3 \in (i + 1)..6 /\ P(i + 3)
    BY <2>3
  <2>4. CASE /\ ~P(i + 1) /\ ~P(i + 2) /\ ~P(i + 3)
             /\ i + 4 \in (i + 1)..6 /\ P(i + 4)
    BY <2>4
  <2>5. CASE /\ ~P(i + 1) /\ ~P(i + 2) /\ ~P(i + 3) /\ ~P(i + 4)
             /\ i + 5 \in (i + 1)..6 /\ P(i + 5)
    BY <2>5
  <2>6. CASE /\ ~P(i + 1) /\ ~P(i + 2) /\ ~P(i + 3) /\ ~P(i + 4) /\ ~P(i + 5)
             /\ i = 0
    BY <2>6, <1>2
  <2> QED BY <2>1, <2>2, <2>3, <2>4, <2>5, <2>6, <1>2
<1>4. n \in (i + 1)..6 /\ Q(n)
  BY <1>3
<1>5. From(t, i) = [t EXCEPT !.pc = Sections[n]]
  BY <1>1 DEF From
<1>6. n \in Nat /\ n >= i + 1 /\ n <= 6
  BY <1>4
<1>7. Sections[n] = "rolling" => mem.type = "default"
  BY <1>4 DEF Entered
<1> HIDE DEF n
<1>8. Sections[n] \in SectionPcs \intersect Pcs
  BY <1>1, <1>6 DEF SectionPcs, Pcs, ChildSteps
<1>9. /\ i >= 3 => Sections[n] \in {"rolling", "candidate", "finish"}
      /\ i = 5 => Sections[n] = "finish"
  BY <1>1, <1>6
<1>10. From(t, i) \in ThreadType /\ From(t, i).pc = Sections[n]
  BY <1>5, <1>8 DEF ThreadType
<1> QED BY <1>5, <1>7, <1>8, <1>9, <1>10

(***************************************************************************)
(* The steps keep the invariant                                            *)
(***************************************************************************)
LEMMA InitInv == Init => Inv
<1> SUFFICES ASSUME Init PROVE Inv
  OBVIOUS
<1>1. mem.status = "IDLE" /\ disk.status = "missing" /\ ~truth.wrong /\ ~truth.foreign
  BY DEF Init, Blank, NoFile, NewState
<1>2. ~Alive
  BY DEF Init, NoThread, Alive
<1>3. TypeOK
  <2>1. mem \in StateType /\ disk \in StateType
    BY DEF Init, Blank, NoFile, NewState, StateType, StepStatuses, CompStatuses
  <2>2. thread \in ThreadType
    BY DEF Init, NoThread, ThreadType, Pcs
  <2>3. spent \in [{"trouble", "changes"} -> Nat] /\ formal \in [Files -> Nat]
    BY DEF Init
  <2> QED BY <1>2, <2>1, <2>2, <2>3 DEF Init, TypeOK
<1>4. AliveInv /\ WindowInv
  BY <1>2 DEF AliveInv, WindowInv
<1>5. VerdictInv /\ NoSilentFailure /\ GateInv
  BY <1>1 DEF Init, VerdictInv, NoSilentFailure, GateInv, Verdicts
<1> QED BY <1>3, <1>4, <1>5 DEF Inv

\* A section that ends in state m and with thread t notes what goes wrong in it and
\* forgets nothing noted before.
Follows(m, t, w) ==
  /\ m \in StateType /\ t \in ThreadType /\ w \in BOOLEAN
  /\ thread.pc \notin {"none", "hash", "end", "raised", "noted"}
  /\ t.pc \notin {"none", "hash", "preflight", "end", "raised", "noted"}
  /\ thread.pc \in PublishPcs => t.pc \in PublishPcs
  /\ m.job = mem.job /\ m.type = mem.type
  /\ m.status = mem.status \/ m.errors
  /\ mem.errors => m.errors
  /\ TypeOfPc(m, t)
  /\ truth.wrong \/ w => Noted(m, t)
  /\ t.before = IF thread.pc = "preflight" THEN formal ELSE thread.before

\* A step that ends in such a state and with such a thread keeps the invariant.
LEMMA StepKeeps ==
  ASSUME Inv, NEW m, NEW t, NEW w, Follows(m, t, w),
         Persist(m), thread' = t, Wrong(w),
         UNCHANGED <<up, orphan, formal>>,
         spent' \in [{"trouble", "changes"} -> Nat],
         child' \in {"none", "working"}, child' # "none" => t.pc \in ChildSteps
  PROVE  Inv'
<1> USE DEF Follows
<1>1. /\ mem' = m /\ disk' = m /\ thread' = t
      /\ truth' = [truth EXCEPT !.wrong = @ \/ w]
      /\ UNCHANGED <<up, orphan, formal>>
  BY DEF Persist, Wrong
<1>2. TypeOK /\ Alive /\ Alive'
  BY <1>1 DEF Inv, Alive
<1>3. /\ truth'.job = truth.job /\ truth'.foreign = truth.foreign
      /\ truth'.unnoted = truth.unnoted
      /\ truth'.wrong = (truth.wrong \/ w)
  BY <1>1, <1>2 DEF TypeOK
<1>4. TypeOK'
  BY <1>1, <1>2 DEF TypeOK, Alive
<1>5. AliveInv'
  <2>1. mem.job = truth.job /\ (m.status \in Verdicts => m.errors)
    BY <1>2 DEF Inv, AliveInv
  <2>2. TypeOfPc(mem, thread)' /\ (Noted(mem, thread)' <=> Noted(m, t))
    BY <1>1 DEF TypeOfPc, Noted
  <2> QED BY <2>1, <2>2, <1>1, <1>2, <1>3 DEF AliveInv
<1>6. WindowInv'
  <2>1. InWindow' /\ thread'.pc \notin {"hash", "preflight"}
    BY <1>1 DEF InWindow
  <2>2. CASE thread.pc = "preflight"
    <3>1. ~truth'.foreign
      BY <2>2, <1>2, <1>3 DEF Inv, WindowInv
    <3>2. \A f \in Files : t.before[f] <= formal'[f]
      BY <2>2, <1>1, <1>2 DEF TypeOK
    <3> QED BY <1>1, <2>1, <3>1, <3>2 DEF WindowInv
  <2>3. CASE thread.pc # "preflight"
    <3>1. InWindow /\ (\A f \in Files : thread.before[f] <= formal[f])
      BY <2>3, <1>2 DEF Inv, WindowInv, InWindow
    <3>2. truth.foreign => Seen(mem, thread)
      BY <1>2 DEF Inv, WindowInv
    <3>3. truth'.foreign => Seen(mem, thread)'
      BY <3>2, <2>3, <1>1, <1>3 DEF Seen
    <3> QED BY <1>1, <2>1, <2>3, <3>1, <3>3 DEF WindowInv
  <2> QED BY <2>2, <2>3
<1>7. VerdictInv'
  <2>1. up /\ m.job = truth.job
    BY <1>2 DEF Inv, AliveInv, TypeOK
  <2> QED BY <2>1, <1>1, <1>3 DEF VerdictInv
<1>8. NoSilentFailure' /\ GateInv'
  <2>1. m.status \in Verdicts => m.errors
    BY <1>2 DEF Inv, AliveInv
  <2> QED BY <2>1, <1>1 DEF NoSilentFailure, GateInv, GateOpen, Verdicts
<1> QED BY <1>4, <1>5, <1>6, <1>7, <1>8 DEF Inv

\* A section does.
LEMMA SectionKeeps ==
  ASSUME Inv, NEW m, NEW t, NEW w, Follows(m, t, w), Section(m, t, w)
  PROVE  Inv'
<1>1. spent' \in [{"trouble", "changes"} -> Nat] /\ child' = "none"
  BY DEF Section, Inv, TypeOK
<1> QED BY <1>1, StepKeeps DEF Section

\* What the invariant says of a thread at work.
LEMMA AtWork ==
  ASSUME Inv, Alive
  PROVE  /\ mem \in StateType /\ thread \in ThreadType
         /\ TypeOfPc(mem, thread)
         /\ truth.wrong \in BOOLEAN
         /\ thread.pc # "raised" => (truth.wrong => Noted(mem, thread))
BY DEF Inv, TypeOK, AliveInv

LEMMA PreflightKeeps ==
  ASSUME Inv, NEW ok \in BOOLEAN, Preflight(ok)
  PROVE  Inv'
<1> DEFINE s == SetStep(mem, "preflight", IF ok THEN "SUCCEEDED" ELSE "FAILED")
           m == IF ok THEN s ELSE AddError(s)
           t == [thread EXCEPT !.before = formal, !.pc = IF ok THEN "bootstrap" ELSE "refresh"]
<1>1. thread.pc = "preflight" /\ Alive /\ Section(m, t, ~ok)
  BY DEF Preflight, Alive
<1>2. Same(mem, s)
  BY <1>1, AtWork, SetStepSame DEF Steps, StepStatuses
<1>3. /\ m \in StateType
      /\ m.job = mem.job /\ m.type = mem.type /\ m.status = mem.status
      /\ mem.errors => m.errors
      /\ ~ok => m.errors
  BY <1>2, AddErrorSame DEF Same
<1>4. /\ t \in ThreadType /\ t.pc \in {"bootstrap", "refresh"} /\ t.before = formal
  BY <1>1, AtWork DEF ThreadType, Pcs, Inv, TypeOK
<1>5. truth.wrong \/ ~ok => m.errors
  BY <1>1, <1>3, AtWork DEF Noted, TwsePcs, SectionPcs
<1>6. Follows(m, t, ~ok)
  BY <1>1, <1>3, <1>4, <1>5 DEF Follows, TypeOfPc, Noted, PublishPcs, TwsePcs
<1> QED BY <1>1, <1>6, SectionKeeps

LEMMA BootstrapKeeps ==
  ASSUME Inv, NEW ok \in BOOLEAN, Bootstrap(ok)
  PROVE  Inv'
<1> DEFINE s == SetStep(mem, "bootstrap", IF ok THEN "SUCCEEDED" ELSE "FAILED")
           m == SetComponent(s, "reportLibrary", IF ok THEN "OK" ELSE "FAIL_CLOSED")
<1>1. thread.pc = "bootstrap" /\ Alive
  BY DEF Bootstrap, Alive
<1>2. Same(mem, s) /\ Same(s, m)
  <2>1. Same(mem, s)
    BY <1>1, AtWork, SetStepSame DEF Steps, StepStatuses
  <2>2. s \in StateType
    BY <2>1 DEF Same
  <2>3. Same(s, m)
    BY <2>2, SetComponentSame DEF Components, CompStatuses
  <2> QED BY <2>1, <2>3
<1>3. truth.wrong => mem.errors
  BY <1>1, AtWork DEF Noted, TwsePcs, SectionPcs
<1>4. CASE ok /\ mem.type \in {"default", "update-data"}
  <2> DEFINE t == [thread EXCEPT !.pc = "daily"]
  <2>1. Section(m, t, FALSE)
    BY <1>4 DEF Bootstrap
  <2>2. t \in ThreadType /\ t.pc = "daily" /\ t.before = thread.before
    BY <1>1, AtWork DEF ThreadType, Pcs, ChildSteps
  <2>3. Follows(m, t, FALSE)
    BY <1>1, <1>2, <1>3, <1>4, <2>2
       DEF Follows, Same, TypeOfPc, Noted, PublishPcs, TwsePcs
  <2> QED BY <2>1, <2>3, SectionKeeps
<1>5. CASE ok /\ mem.type \notin {"default", "update-data"}
  <2> DEFINE t == From(thread, 0)
  <2>1. Section(m, t, FALSE)
    BY <1>5 DEF Bootstrap
  <2>2. /\ t \in ThreadType /\ t.pc \in SectionPcs /\ t.before = thread.before
        /\ t.pc = "rolling" => mem.type = "default"
    BY <1>1, AtWork, FromGoesOn DEF ThreadType
  <2>3. Follows(m, t, FALSE)
    BY <1>1, <1>2, <1>3, <2>2
       DEF Follows, Same, TypeOfPc, Noted, PublishPcs, TwsePcs, SectionPcs
  <2> QED BY <2>1, <2>3, SectionKeeps
<1>6. CASE ~ok
  <2> DEFINE t == [thread EXCEPT !.pc = "refresh"]
  <2>1. Section(AddError(m), t, TRUE)
    BY <1>6 DEF Bootstrap
  <2>2. t \in ThreadType /\ t.pc = "refresh" /\ t.before = thread.before
    BY <1>1, AtWork DEF ThreadType, Pcs
  <2>3. Follows(AddError(m), t, TRUE)
    BY <1>1, <1>2, <2>2, AddErrorSame
       DEF Follows, Same, TypeOfPc, Noted, PublishPcs, TwsePcs
  <2> QED BY <2>1, <2>3, SectionKeeps
<1> QED BY <1>4, <1>5, <1>6

\* Setting a step and a component.
LEMMA SetBothSame ==
  ASSUME NEW m \in StateType, NEW step \in Steps, NEW status \in StepStatuses,
         NEW comp \in Components, NEW class \in CompStatuses
  PROVE  /\ Same(m, SetComponent(SetStep(m, step, status), comp, class))
         /\ SetComponent(SetStep(m, step, status), comp, class).comps =
              [m.comps EXCEPT ![comp] = class]
<1> DEFINE s == SetStep(m, step, status)
<1>1. Same(m, s) /\ s.comps = m.comps /\ s \in StateType
  BY SetStepSame DEF Same
<1>2. Same(s, SetComponent(s, comp, class))
      /\ SetComponent(s, comp, class).comps = [s.comps EXCEPT ![comp] = class]
  BY <1>1, SetComponentSame
<1> QED BY <1>1, <1>2 DEF Same

EarlyPcs == TwsePcs \union {"news", "official", "trigger"}

\* Up to the report trigger a failure is an error or one of component_failures.
LEMMA EarlyFollows ==
  ASSUME Inv, thread.pc \in EarlyPcs,
         NEW m \in StateType,
         m.job = mem.job, m.type = mem.type, m.status = mem.status,
         mem.errors => m.errors,
         NEW t \in ThreadType,
         t.pc \in TwsePcs \union SectionPcs,
         t.pc \in TwsePcs => thread.pc \in TwsePcs,
         t.pc = "rolling" => mem.type = "default",
         t.before = thread.before,
         thread.failures => t.failures,
         NEW w \in BOOLEAN,
         w => m.errors \/ (t.failures /\ mem.type \in Summing)
                       \/ (t.pc \in {"rolling", "candidate", "finish"} /\
                           m.comps["reportGovernance"] = "FAIL_CLOSED")
  PROVE  Follows(m, t, w)
<1>1. Alive
  BY DEF Alive, EarlyPcs, TwsePcs
<1>2. truth.wrong => mem.errors \/ (thread.failures /\ mem.type \in Summing)
  BY <1>1, AtWork DEF Noted, EarlyPcs, TwsePcs
<1>3. TypeOfPc(m, t)
  BY <1>1, AtWork DEF TypeOfPc, PublishPcs, TwsePcs, SectionPcs
<1>4. truth.wrong \/ w => Noted(m, t)
  BY <1>2 DEF Noted
<1>5. /\ thread.pc \notin {"none", "end", "preflight"} \union PublishPcs
      /\ t.pc \notin {"none", "preflight", "end"} \union PublishPcs
  BY DEF EarlyPcs, TwsePcs, SectionPcs, PublishPcs
<1> QED BY <1>3, <1>4, <1>5 DEF Follows, PublishPcs

\* A thread in the TWSE chain has a job whose component failures become errors.
LEMMA TwseType ==
  ASSUME Inv, thread.pc \in TwsePcs
  PROVE  /\ Alive /\ thread.pc \in EarlyPcs
         /\ mem \in StateType /\ thread \in ThreadType
         /\ mem.type \in Summing
<1>1. Alive
  BY DEF Alive, TwsePcs
<1> QED BY <1>1, AtWork DEF TypeOfPc, Summing, EarlyPcs

\* The thread with a failure of a component.
LEMMA FailureType ==
  ASSUME NEW t \in ThreadType
  PROVE  /\ Failure(t) \in ThreadType
         /\ Failure(t).failures
         /\ Failure(t).before = t.before
BY DEF Failure, ThreadType

\* A step in state m, with the local variables u, and on to the sections after the
\* i-th: what goes wrong in it is noted.
Notes(m, u, i, w) ==
  /\ m \in StateType /\ u \in ThreadType /\ w \in BOOLEAN
  /\ m.job = mem.job /\ m.type = mem.type /\ m.status = mem.status
  /\ mem.errors => m.errors
  /\ u.before = thread.before
  /\ thread.failures => u.failures
  /\ w => \/ m.errors
          \/ u.failures /\ mem.type \in Summing
          \/ i >= 3 /\ m.comps["reportGovernance"] = "FAIL_CLOSED"

\* Going on with a later section after the TWSE chain or one of the scans.
LEMMA FromKeeps ==
  ASSUME Inv, thread.pc \in EarlyPcs,
         NEW m, NEW u, NEW w, NEW i \in 0..5, Notes(m, u, i, w),
         Section(m, From(u, i), w)
  PROVE  Inv'
<1> DEFINE t == From(u, i)
<1>1. /\ t \in ThreadType /\ t.pc \in SectionPcs
      /\ t = [u EXCEPT !.pc = t.pc]
      /\ t.pc = "rolling" => mem.type = "default"
      /\ i >= 3 => t.pc \in {"rolling", "candidate", "finish"}
  BY FromGoesOn DEF Notes
<1> HIDE DEF t
<1>2. t.before = thread.before /\ t.failures = u.failures
  BY <1>1 DEF ThreadType, Notes
<1>3. t.pc \notin TwsePcs
  BY <1>1 DEF SectionPcs, TwsePcs
<1>4. Follows(m, t, w)
  BY <1>1, <1>2, <1>3, EarlyFollows DEF Notes
<1> QED BY <1>4, SectionKeeps DEF t

LEMMA DailyKeeps ==
  ASSUME Inv, NEW status \in {"NO_NEW_DATA", "DRY_RUN_READY"}, Daily(status)
  PROVE  Inv'
<1> DEFINE failed == child # "ok" \/ BoundaryError
           s == SetStep(mem, "daily", StepStatus)
<1>1. thread.pc = "daily" /\ thread.pc \in TwsePcs
  BY DEF Daily, TwsePcs
<1>2. /\ mem \in StateType /\ thread \in ThreadType /\ mem.type \in Summing
      /\ thread.pc \in EarlyPcs
      /\ StepStatus \in StepStatuses /\ "daily" \in Steps
  BY <1>1, TwseType DEF StepStatus, StepStatuses, Steps
<1>3. CASE failed
  <2> DEFINE a == SetComponent(s, "dailyPrice", "FAILED")
             m == SetComponent(SetStep(a, "market", "BLOCKED"), "marketActivity", "BLOCKED")
  <2>1. Section(m, From(Failure(thread), 0), TRUE)
    BY <1>3 DEF Daily
  <2>2. Same(mem, a)
    BY <1>2, SetBothSame DEF Components, CompStatuses
  <2>3. Same(a, m)
    <3>1. a \in StateType
      BY <2>2 DEF Same
    <3> HIDE DEF a
    <3> QED BY ZenonT(40), <3>1, SetBothSame DEF Steps, Components, CompStatuses, StepStatuses
  <2>4. Notes(m, Failure(thread), 0, TRUE)
    BY <1>2, <2>2, <2>3, FailureType DEF Same, Notes
  <2>5. 0 \in 0..5
    OBVIOUS
  <2> HIDE DEF m
  <2> QED BY <1>2, <2>1, <2>4, <2>5, FromKeeps
<1>4. CASE ~failed
  <2> DEFINE m == SetComponent(s, "dailyPrice", "OK")
             t == [thread EXCEPT !.pc = "market", !.daily = status]
  <2>1. Section(m, t, FALSE)
    BY <1>4 DEF Daily
  <2>2. Same(mem, m)
    BY <1>2, SetBothSame DEF Components, CompStatuses
  <2>3. /\ t \in ThreadType /\ t.pc = "market" /\ t.before = thread.before
        /\ t.failures = thread.failures
    BY <1>1, TwseType DEF ThreadType, Pcs, ChildSteps
  <2> HIDE DEF m, t
  <2>4. Follows(m, t, FALSE)
    BY <1>1, <2>2, <2>3, TwseType, EarlyFollows DEF Same, TwsePcs
  <2> QED BY <2>1, <2>4, SectionKeeps
<1> QED BY <1>3, <1>4

MarketStatuses == {"NO_NEW_DATA", "DRY_RUN_READY", "RECONCILIATION_REQUIRED"}

LEMMA MarketKeeps ==
  ASSUME Inv, NEW status \in MarketStatuses, NEW onFailure \in {"BLOCKED", "STALE"},
         Market(status, onFailure)
  PROVE  Inv'
<1> DEFINE failed == child # "ok" \/ BoundaryError
           reconcile == status = "RECONCILIATION_REQUIRED"
           s == SetStep(mem, "market", StepStatus)
           m == IF reconcile THEN SetComponent(s, "freshness", status) ELSE s
           n(class) == SetComponent(m, "marketActivity", class)
<1>1. thread.pc = "market" /\ thread.pc \in TwsePcs
  BY DEF Market, TwsePcs
<1>2. /\ mem \in StateType /\ thread \in ThreadType /\ mem.type \in Summing
      /\ thread.pc \in EarlyPcs
      /\ StepStatus \in StepStatuses /\ "market" \in Steps
  BY <1>1, TwseType DEF StepStatus, StepStatuses, Steps
<1>3. Same(mem, m)
  <2>1. Same(mem, s) /\ s \in StateType
    BY <1>2, SetStepSame DEF Same
  <2>2. Same(s, SetComponent(s, "freshness", "RECONCILIATION_REQUIRED"))
    BY <2>1, SetComponentSame DEF Components, CompStatuses, Partial
  <2> HIDE DEF s
  <2> QED BY <2>1, <2>2 DEF Same
<1>4. ASSUME NEW class \in CompStatuses PROVE Same(mem, n(class))
  <2>1. m \in StateType
    BY <1>3 DEF Same
  <2> HIDE DEF m
  <2>2. Same(m, n(class))
    BY <2>1, SetComponentSame DEF Components
  <2> QED BY <1>3, <2>2 DEF Same
<1>5. /\ onFailure \in CompStatuses /\ "OK" \in CompStatuses
      /\ reconcile => status \in CompStatuses
      /\ 0 \in 0..5
  BY DEF CompStatuses, Partial
<1>6. CASE failed
  <2> DEFINE u == [Failure(thread) EXCEPT !.reconcile = reconcile]
  <2>1. Section(n(onFailure), From(u, 0), TRUE)
    BY <1>6 DEF Market
  <2>2. u \in ThreadType /\ u.before = thread.before /\ u.failures
    <3>1. /\ Failure(thread) \in ThreadType /\ Failure(thread).failures
          /\ Failure(thread).before = thread.before
      BY <1>2, FailureType
    <3>2. reconcile \in BOOLEAN
      OBVIOUS
    <3> HIDE DEF reconcile
    <3> QED BY <3>1, <3>2 DEF ThreadType
  <2>3. Same(mem, n(onFailure))
    BY <1>4, <1>5
  <2> HIDE DEF n, u
  <2>4. Notes(n(onFailure), u, 0, TRUE)
    BY <1>2, <2>2, <2>3 DEF Same, Notes
  <2> QED BY <1>2, <1>5, <2>1, <2>4, FromKeeps
<1>7. CASE ~failed /\ reconcile
  <2> DEFINE t == [thread EXCEPT !.pc = "other", !.reconcile = TRUE]
  <2>1. Section(n(status), t, FALSE)
    BY <1>7 DEF Market
  <2>2. Same(mem, n(status))
    BY <1>4, <1>5, <1>7
  <2>3. /\ t \in ThreadType /\ t.pc = "other" /\ t.before = thread.before
        /\ t.failures = thread.failures
    BY <1>2 DEF ThreadType, Pcs, ChildSteps
  <2> HIDE DEF n, t
  <2>4. Follows(n(status), t, FALSE)
    BY <1>1, <1>2, <2>2, <2>3, EarlyFollows DEF Same, TwsePcs
  <2> QED BY <2>1, <2>4, SectionKeeps
<1>8. CASE ~failed /\ ~reconcile /\ status = thread.daily
  <2> DEFINE t == [thread EXCEPT !.pc = "freshness"]
  <2>1. Section(n("OK"), t, FALSE)
    BY <1>8 DEF Market
  <2>2. Same(mem, n("OK"))
    BY <1>4, <1>5
  <2>3. /\ t \in ThreadType /\ t.pc = "freshness" /\ t.before = thread.before
        /\ t.failures = thread.failures
    BY <1>2 DEF ThreadType, Pcs, ChildSteps
  <2> HIDE DEF n, t
  <2>4. Follows(n("OK"), t, FALSE)
    BY <1>1, <1>2, <2>2, <2>3, EarlyFollows DEF Same, TwsePcs
  <2> QED BY <2>1, <2>4, SectionKeeps
<1>9. CASE ~failed /\ ~reconcile /\ status # thread.daily
  <2>1. Section(n("OK"), From(Failure(thread), 0), TRUE)
    BY <1>9 DEF Market
  <2>2. Same(mem, n("OK"))
    BY <1>4, <1>5
  <2> HIDE DEF n
  <2>3. Notes(n("OK"), Failure(thread), 0, TRUE)
    BY <1>2, <2>2, FailureType DEF Same, Notes
  <2> QED BY <1>2, <1>5, <2>1, <2>3, FromKeeps
<1> QED BY <1>6, <1>7, <1>8, <1>9

LEMMA FreshnessKeeps ==
  ASSUME Inv, NEW onFailure \in {"OK", "FAIL_CLOSED"}, Freshness(onFailure)
  PROVE  Inv'
<1> DEFINE m == SetComponent(SetStep(mem, "freshness", StepStatus),
                             "freshness", IF child = "ok" THEN "OK" ELSE onFailure)
<1>1. thread.pc = "freshness" /\ thread.pc \in TwsePcs
  BY DEF Freshness, TwsePcs
<1>2. /\ mem \in StateType /\ thread \in ThreadType /\ mem.type \in Summing
      /\ thread.pc \in EarlyPcs
      /\ StepStatus \in StepStatuses /\ "freshness" \in Steps /\ 0 \in 0..5
  BY <1>1, TwseType DEF StepStatus, StepStatuses, Steps
<1>3. Same(mem, m)
  BY <1>2, SetBothSame DEF Components, CompStatuses
<1>4. CASE child = "ok"
  <2> DEFINE t == [thread EXCEPT !.pc = "other"]
  <2>1. Section(m, t, FALSE)
    BY <1>4 DEF Freshness
  <2>2. /\ t \in ThreadType /\ t.pc = "other" /\ t.before = thread.before
        /\ t.failures = thread.failures
    BY <1>2 DEF ThreadType, Pcs, ChildSteps
  <2> HIDE DEF m, t
  <2>3. Follows(m, t, FALSE)
    BY <1>1, <1>2, <1>3, <2>2, EarlyFollows DEF Same, TwsePcs
  <2> QED BY <2>1, <2>3, SectionKeeps
<1>5. CASE child # "ok"
  <2>1. Section(m, From(Failure(thread), 0), TRUE)
    BY <1>5 DEF Freshness
  <2> HIDE DEF m
  <2>2. Notes(m, Failure(thread), 0, TRUE)
    BY <1>2, <1>3, FailureType DEF Same, Notes
  <2> QED BY <1>2, <2>1, <2>2, FromKeeps
<1> QED BY <1>4, <1>5

LEMMA OtherDataKeeps ==
  ASSUME Inv, OtherData
  PROVE  Inv'
<1> DEFINE m == SetStep(mem, "other", StepStatus)
<1>1. thread.pc = "other" /\ thread.pc \in TwsePcs
  BY DEF OtherData, TwsePcs
<1>2. /\ mem \in StateType /\ thread \in ThreadType /\ mem.type \in Summing
      /\ thread.pc \in EarlyPcs
      /\ StepStatus \in StepStatuses /\ "other" \in Steps /\ 0 \in 0..5
  BY <1>1, TwseType DEF StepStatus, StepStatuses, Steps
<1>3. Same(mem, m)
  BY <1>2, SetStepSame
<1>4. CASE child = "ok"
  <2>1. Section(m, From(thread, 0), FALSE)
    BY <1>4 DEF OtherData
  <2> HIDE DEF m
  <2>2. Notes(m, thread, 0, FALSE)
    BY <1>2, <1>3 DEF Same, Notes
  <2> QED BY <1>2, <2>1, <2>2, FromKeeps
<1>5. CASE child # "ok"
  <2>1. Section(m, From(Failure(thread), 0), TRUE)
    BY <1>5 DEF OtherData
  <2> HIDE DEF m
  <2>2. Notes(m, Failure(thread), 0, TRUE)
    BY <1>2, <1>3, FailureType DEF Same, Notes
  <2> QED BY <1>2, <2>1, <2>2, FromKeeps
<1> QED BY <1>4, <1>5

LEMMA NewsKeeps ==
  ASSUME Inv, News
  PROVE  Inv'
<1> DEFINE s == IF Skipped THEN mem ELSE SetStep(mem, "news", StepStatus)
           c == SetComponent(s, "news", IF child = "ok" THEN "OK" ELSE "FAILED")
<1>1. thread.pc = "news" /\ thread.pc \in EarlyPcs /\ Alive
  BY DEF News, EarlyPcs, Alive
<1>2. /\ mem \in StateType /\ thread \in ThreadType
      /\ StepStatus \in StepStatuses /\ "news" \in Steps /\ 1 \in 0..5
  BY <1>1, AtWork DEF StepStatus, StepStatuses, Steps
<1>3. Same(mem, s)
  BY <1>2, SetStepSame DEF Same
<1>4. Same(mem, c)
  <2>1. s \in StateType
    BY <1>3 DEF Same
  <2> HIDE DEF s
  <2>2. Same(s, c)
    BY <2>1, SetComponentSame DEF Components, CompStatuses
  <2> QED BY <1>3, <2>2 DEF Same
<1>5. CASE child = "ok"
  <2>1. Section(c, From(thread, 1), FALSE)
    BY <1>5 DEF News
  <2> HIDE DEF c
  <2>2. Notes(c, thread, 1, FALSE)
    BY <1>2, <1>4 DEF Same, Notes
  <2> QED BY <1>1, <1>2, <2>1, <2>2, FromKeeps
<1>6. CASE child # "ok"
  <2>1. Section(AddError(c), From(thread, 1), TRUE)
    BY <1>6 DEF News
  <2> HIDE DEF c
  <2>2. Notes(AddError(c), thread, 1, TRUE)
    BY <1>2, <1>4, AddErrorSame DEF Same, Notes
  <2> QED BY <1>1, <1>2, <2>1, <2>2, FromKeeps
<1> QED BY <1>5, <1>6

LEMMA OfficialIRKeeps ==
  ASSUME Inv, NEW status \in {"OK", "PARTIAL_FAILURE"}, OfficialIR(status)
  PROVE  Inv'
<1> DEFINE s == IF Skipped THEN mem ELSE SetStep(mem, "official", StepStatus)
           c == SetComponent(s, "officialIR", IF child = "ok" THEN status ELSE "FAIL_CLOSED")
<1>1. thread.pc = "official" /\ thread.pc \in EarlyPcs /\ Alive
  BY DEF OfficialIR, EarlyPcs, Alive
<1>2. /\ mem \in StateType /\ thread \in ThreadType
      /\ StepStatus \in StepStatuses /\ "official" \in Steps /\ 2 \in 0..5
  BY <1>1, AtWork DEF StepStatus, StepStatuses, Steps
<1>3. Same(mem, s)
  BY <1>2, SetStepSame DEF Same
<1>4. Same(mem, c)
  <2>1. s \in StateType
    BY <1>3 DEF Same
  <2> HIDE DEF s
  <2>2. Same(s, c)
    BY <2>1, SetComponentSame DEF Components, CompStatuses, Partial
  <2> QED BY <1>3, <2>2 DEF Same
<1>5. CASE child = "ok"
  <2>1. Section(c, From(thread, 2), FALSE)
    BY <1>5 DEF OfficialIR
  <2> HIDE DEF c
  <2>2. Notes(c, thread, 2, FALSE)
    BY <1>2, <1>4 DEF Same, Notes
  <2> QED BY <1>1, <1>2, <2>1, <2>2, FromKeeps
<1>6. CASE child # "ok"
  <2>1. Section(AddError(c), From(Failure(thread), 2), TRUE)
    BY <1>6 DEF OfficialIR
  <2> HIDE DEF c
  <2>2. Notes(AddError(c), Failure(thread), 2, TRUE)
    BY <1>2, <1>4, AddErrorSame, FailureType DEF Same, Notes
  <2> QED BY <1>1, <1>2, <2>1, <2>2, FromKeeps
<1> QED BY <1>5, <1>6

LEMMA ReportTriggerKeeps ==
  ASSUME Inv, NEW step \in {"SUCCEEDED", "FAIL_CLOSED"},
         NEW decision \in {"OK", "FAIL_CLOSED"}, ReportTrigger(step, decision)
  PROVE  Inv'
<1> DEFINE m == SetComponent(SetStep(mem, "trigger", step), "reportGovernance", decision)
           w == decision # "OK"
<1>1. thread.pc = "trigger" /\ thread.pc \in EarlyPcs /\ Alive
  BY DEF ReportTrigger, EarlyPcs, Alive
<1>2. mem \in StateType /\ thread \in ThreadType /\ 3 \in 0..5
  BY <1>1, AtWork
<1>3. Same(mem, m) /\ m.comps = [mem.comps EXCEPT !["reportGovernance"] = decision]
  <2>1. /\ "trigger" \in Steps /\ step \in StepStatuses
        /\ "reportGovernance" \in Components /\ decision \in CompStatuses
    BY DEF Steps, StepStatuses, Components, CompStatuses
  <2> QED BY <1>2, <2>1, SetBothSame
<1>4. m.comps["reportGovernance"] = decision
  BY <1>2, <1>3 DEF StateType, Components
<1>5. Section(m, From(thread, 3), w)
  BY DEF ReportTrigger
<1> HIDE DEF m
<1>6. Notes(m, thread, 3, w)
  BY <1>2, <1>3, <1>4 DEF Same, Notes
<1> HIDE DEF w
<1> QED BY <1>1, <1>2, <1>5, <1>6, FromKeeps

\* After the trigger a failure may also be noted in one of two components, which
\* nothing sets again.
LEMMA LateFollows ==
  ASSUME Inv, thread.pc \in {"rolling", "candidate"},
         NEW m \in StateType, NEW u \in ThreadType, NEW i \in {4, 5}, NEW w \in BOOLEAN,
         m.job = mem.job, m.type = mem.type, m.status = mem.status,
         mem.errors => m.errors,
         m.comps["reportGovernance"] = mem.comps["reportGovernance"],
         u.before = thread.before, thread.failures => u.failures,
         w => \/ m.errors
              \/ u.failures /\ mem.type \in Summing
              \/ i = 5 /\ m.comps["phaseB1"] = "FAIL_CLOSED"
  PROVE  Follows(m, From(u, i), w)
<1> DEFINE t == From(u, i)
<1>1. /\ t \in ThreadType /\ t.pc \in {"rolling", "candidate", "finish"}
      /\ t = [u EXCEPT !.pc = t.pc]
      /\ t.pc = "rolling" => mem.type = "default"
      /\ i = 5 => t.pc = "finish"
  BY FromGoesOn
<1> HIDE DEF t
<1>2. t.before = thread.before /\ t.failures = u.failures
  BY <1>1 DEF ThreadType
<1>3. Alive /\ thread.pc \notin {"none", "end", "preflight"} \union PublishPcs
  BY DEF Alive, PublishPcs
<1>4. truth.wrong => \/ mem.errors
                     \/ thread.failures /\ mem.type \in Summing
                     \/ mem.comps["reportGovernance"] = "FAIL_CLOSED"
  BY <1>3, AtWork DEF Noted, PublishPcs
<1>5. truth.wrong \/ w => Noted(m, t)
  BY <1>1, <1>2, <1>4 DEF Noted, SectionPcs
<1>6. TypeOfPc(m, t)
  BY <1>1 DEF TypeOfPc, PublishPcs, TwsePcs
<1>7. Follows(m, t, w)
  BY <1>1, <1>2, <1>3, <1>5, <1>6 DEF Follows, PublishPcs
<1> QED BY <1>7 DEF t

LEMMA RollingBriefKeeps ==
  ASSUME Inv, NEW refreshed \in BOOLEAN, NEW healthy \in BOOLEAN,
         RollingBrief(refreshed, healthy)
  PROVE  Inv'
<1> DEFINE s == SetComponent(SetStep(mem, "rolling", IF refreshed THEN "SUCCEEDED" ELSE "FAILED"),
                             "rollingBrief", IF refreshed THEN "OK" ELSE "FAILED")
           m == IF refreshed /\ ~healthy THEN SetComponent(s, "reportLibrary", "FAIL_CLOSED") ELSE s
           ok == refreshed /\ healthy
           u == IF ok THEN thread ELSE Failure(thread)
<1>1. thread.pc = "rolling" /\ Alive
  BY DEF RollingBrief, Alive
<1>2. /\ mem \in StateType /\ thread \in ThreadType
      /\ mem.type \in Summing
  BY <1>1, AtWork DEF TypeOfPc, Summing
<1>3. Same(mem, s) /\ s.comps["reportGovernance"] = mem.comps["reportGovernance"]
  <2>1. /\ Same(mem, s)
        /\ s.comps = [mem.comps EXCEPT !["rollingBrief"] = IF refreshed THEN "OK" ELSE "FAILED"]
    <3>1. /\ "rolling" \in Steps /\ "rollingBrief" \in Components
          /\ (IF refreshed THEN "SUCCEEDED" ELSE "FAILED") \in StepStatuses
          /\ (IF refreshed THEN "OK" ELSE "FAILED") \in CompStatuses
      BY DEF Steps, StepStatuses, Components, CompStatuses
    <3> QED BY <1>2, <3>1, SetBothSame
  <2> HIDE DEF s
  <2> QED BY <1>2, <2>1 DEF StateType, Components
<1>4. Same(mem, m) /\ m.comps["reportGovernance"] = mem.comps["reportGovernance"]
  <2> DEFINE n == SetComponent(s, "reportLibrary", "FAIL_CLOSED")
  <2>1. s \in StateType
    BY <1>3 DEF Same
  <2> HIDE DEF s
  <2>2. Same(s, n) /\ n.comps = [s.comps EXCEPT !["reportLibrary"] = "FAIL_CLOSED"]
    BY <2>1, SetComponentSame DEF Components, CompStatuses
  <2>3. n.comps["reportGovernance"] = s.comps["reportGovernance"]
    BY <2>1, <2>2 DEF StateType, Components
  <2> QED BY <1>3, <2>2, <2>3 DEF Same
<1>5. Section(m, From(u, 4), ~ok)
  BY DEF RollingBrief
<1>6. /\ u \in ThreadType /\ u.before = thread.before /\ (thread.failures => u.failures)
      /\ ~ok => u.failures
  BY <1>2, FailureType
<1> HIDE DEF m, u, ok
<1>7. Follows(m, From(u, 4), ~ok)
  BY <1>1, <1>2, <1>4, <1>6, LateFollows DEF Same
<1> QED BY <1>5, <1>7, SectionKeeps

LEMMA CandidateBlockedKeeps ==
  ASSUME Inv, CandidateBlocked
  PROVE  Inv'
<1> DEFINE m == SetComponent(SetStep(mem, "candidate", "BLOCKED"), "phaseB1", "FAIL_CLOSED")
<1>1. thread.pc = "candidate" /\ Alive
  BY DEF CandidateBlocked, Alive
<1>2. mem \in StateType /\ thread \in ThreadType
  BY <1>1, AtWork
<1>3. Same(mem, m) /\ m.comps = [mem.comps EXCEPT !["phaseB1"] = "FAIL_CLOSED"]
  <2>1. "candidate" \in Steps /\ "BLOCKED" \in StepStatuses
        /\ "phaseB1" \in Components /\ "FAIL_CLOSED" \in CompStatuses
    BY DEF Steps, StepStatuses, Components, CompStatuses
  <2> QED BY <1>2, <2>1, SetBothSame
<1>4. Section(m, From(thread, 5), TRUE)
  BY DEF CandidateBlocked
<1> HIDE DEF m
<1>5. /\ m.comps["phaseB1"] = "FAIL_CLOSED"
      /\ m.comps["reportGovernance"] = mem.comps["reportGovernance"]
  BY <1>2, <1>3 DEF StateType, Components
<1>6. Follows(m, From(thread, 5), TRUE)
  BY <1>1, <1>2, <1>3, <1>5, LateFollows DEF Same
<1> QED BY <1>4, <1>6, SectionKeeps

LEMMA CandidateKeeps ==
  ASSUME Inv, NEW valid \in BOOLEAN, Candidate(valid)
  PROVE  Inv'
<1> DEFINE ok == child = "ok" /\ valid
           s == SetComponent(SetStep(mem, "candidate", StepStatus),
                             "phaseB1", IF ok THEN "OK" ELSE "FAIL_CLOSED")
           m == IF ok THEN s ELSE AddError(s)
<1>1. thread.pc = "candidate" /\ Alive
  BY DEF Candidate, Alive
<1>2. /\ mem \in StateType /\ thread \in ThreadType
      /\ StepStatus \in StepStatuses
  BY <1>1, AtWork DEF StepStatus, StepStatuses
<1>3. /\ Same(mem, s)
      /\ s.comps = [mem.comps EXCEPT !["phaseB1"] = IF ok THEN "OK" ELSE "FAIL_CLOSED"]
  BY <1>2, SetBothSame DEF Steps, Components, CompStatuses
<1>4. Section(m, From(thread, 5), ~ok)
  BY DEF Candidate
<1> HIDE DEF s, ok
<1>5. s \in StateType /\ s.comps["reportGovernance"] = mem.comps["reportGovernance"]
  BY <1>2, <1>3 DEF Same, StateType, Components
<1>6. /\ m \in StateType
      /\ m.job = mem.job /\ m.type = mem.type /\ m.status = mem.status
      /\ mem.errors => m.errors
      /\ ~ok => m.errors
      /\ m.comps["reportGovernance"] = mem.comps["reportGovernance"]
  BY <1>3, <1>5, AddErrorSame DEF Same
<1>7. ok \in BOOLEAN
  BY DEF ok
<1> HIDE DEF m
<1>8. Follows(m, From(thread, 5), ~ok)
  BY <1>1, <1>2, <1>6, <1>7, LateFollows
<1> QED BY <1>4, <1>8, SectionKeeps

LEMMA FinishKeeps ==
  ASSUME Inv, Finish
  PROVE  Inv'
<1> DEFINE sums == mem.type \in {"default", "update-data", "official-ir-scan"}
           partial == \E c \in Summarised : mem.comps[c] \notin {"none", "OK"}
           s == [mem EXCEPT !.errors = @ \/ thread.failures,
                            !.overall = IF partial THEN "PARTIAL_FAILURE" ELSE "SUCCEEDED"]
           m == IF sums THEN s ELSE mem
           t == [thread EXCEPT !.pc = "refresh"]
<1>1. thread.pc = "finish" /\ Alive /\ Section(m, t, FALSE)
  BY DEF Finish, Alive
<1>2. mem \in StateType /\ thread \in ThreadType
  BY <1>1, AtWork
<1>3. /\ m \in StateType
      /\ m.job = mem.job /\ m.type = mem.type /\ m.status = mem.status
      /\ mem.errors => m.errors
      /\ thread.failures /\ mem.type \in Summing => m.errors
      /\ m.comps = mem.comps
  <2>1. /\ s \in StateType
        /\ s.job = mem.job /\ s.type = mem.type /\ s.status = mem.status
        /\ s.errors = (mem.errors \/ thread.failures)
        /\ s.comps = mem.comps
    <3>1. (IF partial THEN "PARTIAL_FAILURE" ELSE "SUCCEEDED") \in Verdicts
      BY DEF Verdicts
    <3>2. (mem.errors \/ thread.failures) \in BOOLEAN
      OBVIOUS
    <3> HIDE DEF partial
    <3> QED BY <1>2, <3>1, <3>2 DEF StateType
  <2> HIDE DEF s
  <2> QED BY <1>2, <2>1 DEF Summing
<1>4. t \in ThreadType /\ t.pc = "refresh" /\ t.before = thread.before
  BY <1>2 DEF ThreadType, Pcs
<1> HIDE DEF m, t
<1>5. truth.wrong => Noted(m, t)
  BY <1>1, <1>3, <1>4, AtWork DEF Noted
<1>6. TypeOfPc(m, t)
  BY <1>4 DEF TypeOfPc, PublishPcs, TwsePcs
<1>7. Follows(m, t, FALSE)
  BY <1>1, <1>3, <1>4, <1>5, <1>6 DEF Follows, PublishPcs
<1> QED BY <1>1, <1>7, SectionKeeps

\* A step that may raise has its trouble counted.
LEMMA TroubleType ==
  ASSUME Inv, Trouble
  PROVE  spent' \in [{"trouble", "changes"} -> Nat]
BY DEF Inv, TypeOK, Trouble

\* After the last step nothing is left but to find the verdict.
LEMMA LastKeeps ==
  ASSUME Inv, Alive,
         NEW m \in StateType, NEW t \in ThreadType, NEW w \in BOOLEAN,
         t.pc = "end", m.job = mem.job,
         m.status \in Verdicts => m.errors,
         truth.wrong \/ w => Noted(m, t),
         truth.foreign => Seen(m, t),
         Persist(m), thread' = t, Wrong(w), child' = "none",
         UNCHANGED <<up, orphan, formal>>,
         spent' \in [{"trouble", "changes"} -> Nat]
  PROVE  Inv'
<1>1. /\ mem' = m /\ disk' = m /\ thread' = t
      /\ truth' = [truth EXCEPT !.wrong = @ \/ w]
      /\ UNCHANGED <<up, orphan, formal>>
  BY DEF Persist, Wrong
<1>2. TypeOK /\ up /\ m.job = truth.job
  BY DEF Inv, AliveInv, TypeOK
<1>3. /\ truth' \in [job : Nat, wrong : BOOLEAN, foreign : BOOLEAN, unnoted : BOOLEAN]
      /\ truth'.job = truth.job /\ truth'.foreign = truth.foreign
      /\ truth'.unnoted = truth.unnoted
      /\ truth'.wrong = (truth.wrong \/ w)
  BY <1>1, <1>2 DEF TypeOK
<1>4. TypeOK'
  BY <1>1, <1>2, <1>3 DEF TypeOK, Alive
<1>5. AliveInv'
  <2>1. TypeOfPc(mem, thread)' /\ (Noted(mem, thread)' <=> Noted(m, t))
    BY <1>1 DEF TypeOfPc, Noted, PublishPcs, TwsePcs
  <2> QED BY <2>1, <1>1, <1>2, <1>3 DEF AliveInv
<1>6. WindowInv'
  <2>1. ~InWindow' /\ thread'.pc \notin {"hash", "preflight"}
    BY <1>1 DEF InWindow
  <2>2. Seen(mem, thread)' <=> Seen(m, t)
    BY <1>1 DEF Seen
  <2> QED BY <2>1, <2>2, <1>1, <1>3 DEF WindowInv
<1>7. VerdictInv'
  BY <1>1, <1>2, <1>3 DEF VerdictInv
<1>8. NoSilentFailure' /\ GateInv'
  BY <1>1 DEF NoSilentFailure, GateInv, GateOpen, Verdicts
<1> QED BY <1>4, <1>5, <1>6, <1>7, <1>8 DEF Inv

LEMMA RefreshStateKeeps ==
  ASSUME Inv, RefreshState
  PROVE  Inv'
<1> DEFINE changed == {f \in Files : formal[f] # thread.before[f]}
           expected == mem.type \in {"default", "update-data"} /\ "other" \notin changed
           s == [mem EXCEPT !.modified = changed # {}]
           e == [AddError(s) EXCEPT !.status = "FAILED"]
           m == IF changed # {} /\ ~expected THEN e ELSE s
           t == [thread EXCEPT !.pc = "end"]
<1>1. thread.pc = "refresh" /\ Alive /\ Section(m, t, FALSE)
  BY DEF RefreshState, Alive
<1>2. mem \in StateType /\ thread \in ThreadType /\ formal \in [Files -> Nat]
  BY <1>1, AtWork DEF Inv, TypeOK
<1>3. thread.before # formal => changed # {}
  BY <1>2 DEF ThreadType
<1> HIDE DEF changed, expected
<1>4. /\ s \in StateType
      /\ s.job = mem.job /\ s.type = mem.type /\ s.status = mem.status
      /\ s.errors = mem.errors /\ s.comps = mem.comps
      /\ s.modified = (changed # {})
  <2> DEFINE b == changed # {}
  <2>1. b \in BOOLEAN /\ s = [mem EXCEPT !.modified = b]
    OBVIOUS
  <2> HIDE DEF b
  <2> QED BY <1>2, <2>1 DEF StateType, b
<1> HIDE DEF s
<1>5. /\ e \in StateType
      /\ e.job = mem.job /\ e.type = mem.type
      /\ e.errors /\ e.comps = mem.comps
  <2>1. /\ AddError(s) \in StateType
        /\ AddError(s).errors
        /\ AddError(s).job = s.job /\ AddError(s).type = s.type
        /\ AddError(s).comps = s.comps
    BY <1>4, AddErrorSame
  <2> QED BY <1>4, <2>1 DEF StateType, Verdicts
<1> HIDE DEF e
<1>6. t \in ThreadType /\ t.pc = "end"
  BY <1>2 DEF ThreadType, Pcs
<1>7. truth.wrong => Noted(m, t)
  <2>1. truth.wrong => \/ mem.errors
                       \/ mem.comps["reportGovernance"] = "FAIL_CLOSED"
                       \/ mem.comps["phaseB1"] = "FAIL_CLOSED"
    BY <1>1, AtWork DEF Noted, TwsePcs, SectionPcs
  <2> QED BY <1>4, <1>5, <1>6, <2>1 DEF Noted
<1>8. truth.foreign => Seen(m, t)
  <2>1. truth.foreign => mem.errors \/ thread.before # formal
    BY <1>1 DEF Inv, WindowInv, Seen, PublishPcs
  <2> QED BY <1>3, <1>4, <1>5, <1>6, <2>1 DEF Seen
<1>9. m \in StateType /\ m.job = mem.job /\ (m.status \in Verdicts => m.errors)
  BY <1>1, <1>4, <1>5 DEF Inv, AliveInv
<1>10. spent' \in [{"trouble", "changes"} -> Nat]
  BY <1>1 DEF Section, Inv, TypeOK
<1> HIDE DEF m, t
<1> QED BY <1>1, <1>6, <1>7, <1>8, <1>9, <1>10, LastKeeps DEF Section

LEMMA RaisesKeeps ==
  ASSUME Inv, Raises
  PROVE  Inv'
<1> DEFINE m == AddError(mem)
           t == [thread EXCEPT !.pc = "end", !.unhandled = TRUE]
<1>1. /\ Alive /\ Persist(m) /\ thread' = t /\ child' = "none" /\ Wrong(TRUE) /\ Trouble
      /\ UNCHANGED <<up, orphan, formal>>
  BY DEF Raises, Alive
<1>2. mem \in StateType /\ thread \in ThreadType
  BY <1>1, AtWork
<1>3. m \in StateType /\ m.errors /\ m.job = mem.job
  BY <1>2, AddErrorSame
<1>4. t \in ThreadType /\ t.pc = "end"
  BY <1>2 DEF ThreadType, Pcs
<1> HIDE DEF m, t
<1>5. Noted(m, t) /\ Seen(m, t)
  BY <1>3 DEF Noted, Seen
<1>6. spent' \in [{"trouble", "changes"} -> Nat]
  BY <1>1, TroubleType
<1> QED BY <1>1, <1>3, <1>4, <1>5, <1>6, LastKeeps


\* The thread ends: memory and state file hold m, which is good news only when
\* nothing went wrong.
LEMMA EndingKeeps ==
  ASSUME Inv, Alive, NEW m \in StateType, NEW w \in BOOLEAN,
         m.job = mem.job,
         m.status = "SUCCEEDED" /\ ~m.errors => ~truth.wrong /\ ~w,
         GateOpen(m) /\ m.status \in Verdicts /\ truth.foreign
           => m.type = "owner-publish" /\ m.status = "SUCCEEDED",
         Persist(m), thread' = NoThread, Wrong(w), child' = "none",
         UNCHANGED <<up, orphan, formal>>,
         spent' \in [{"trouble", "changes"} -> Nat]
  PROVE  Inv'
<1>1. /\ mem' = m /\ disk' = m
      /\ truth' = [truth EXCEPT !.wrong = @ \/ w]
      /\ UNCHANGED <<up, orphan, formal>>
  BY DEF Persist, Wrong
<1>2. TypeOK /\ up /\ m.job = truth.job
  BY DEF Inv, AliveInv, TypeOK
<1>3. /\ truth' \in [job : Nat, wrong : BOOLEAN, foreign : BOOLEAN, unnoted : BOOLEAN]
      /\ truth'.job = truth.job /\ truth'.foreign = truth.foreign
      /\ truth'.unnoted = truth.unnoted
      /\ truth'.wrong = (truth.wrong \/ w)
  BY <1>1, <1>2 DEF TypeOK
<1>4. NoThread \in ThreadType /\ ~Alive'
  BY DEF NoThread, ThreadType, Pcs, Alive
<1>5. TypeOK'
  BY <1>1, <1>2, <1>3, <1>4 DEF TypeOK
<1>6. AliveInv' /\ WindowInv'
  BY <1>4 DEF AliveInv, WindowInv
<1>7. VerdictInv'
  BY <1>1, <1>2, <1>3 DEF VerdictInv
<1>8. NoSilentFailure'
  BY <1>1, <1>3 DEF NoSilentFailure
<1>9. GateInv'
  BY <1>1, <1>3 DEF GateInv, GateOpen
<1> QED BY <1>5, <1>6, <1>7, <1>8, <1>9 DEF Inv

\* Without a change of its history a job has no new failure.
LEMMA NothingWrong ==
  ASSUME Inv, UNCHANGED truth
  PROVE  Wrong(FALSE)
BY DEF Inv, TypeOK, Wrong

\* Nothing runs for a thread that waits for nothing.
LEMMA NoChild ==
  ASSUME Inv, thread.pc \notin ChildSteps
  PROVE  child = "none"
BY DEF Inv, TypeOK

LEMMA EndKeeps ==
  ASSUME Inv, End
  PROVE  Inv'
<1> DEFINE status == IF thread.unhandled THEN "FAILED" ELSE Aggregate
           m == [mem EXCEPT !.status = status, !.overall = status]
<1>1. /\ thread.pc = "end" /\ Alive /\ Persist(m) /\ thread' = NoThread
      /\ UNCHANGED <<up, child, orphan, formal, truth, spent>>
  BY DEF End, Alive
<1>2. mem \in StateType /\ thread \in ThreadType
  BY <1>1, AtWork
<1>3. Aggregate \in Verdicts
  BY DEF Aggregate, Verdicts
<1>4. /\ mem.comps["reportGovernance"] = "FAIL_CLOSED" => Aggregate = "FAILED"
      /\ mem.comps["phaseB1"] = "FAIL_CLOSED" => Aggregate = "FAILED"
  <2>1. "reportGovernance" \in Components /\ "phaseB1" \in Components
    BY DEF Components
  <2>2. ASSUME NEW c \in Components, mem.comps[c] = "FAIL_CLOSED"
        PROVE  Aggregate = "FAILED"
    <3> DEFINE seen == {mem.comps[d] : d \in Components} \union
                       {mem.steps[x] : x \in Steps} \union {mem.overall}
    <3>1. "FAIL_CLOSED" \in seen
      BY <2>2
    <3>2. seen \intersect {"FAILED", "FAIL_CLOSED"} # {}
      BY <3>1
    <3>3. Aggregate = CASE seen \intersect {"FAILED", "FAIL_CLOSED"} # {} -> "FAILED"
                        [] /\ seen \intersect {"FAILED", "FAIL_CLOSED"} = {}
                           /\ "BLOCKED" \in seen -> "BLOCKED"
                        [] /\ seen \intersect {"FAILED", "FAIL_CLOSED", "BLOCKED"} = {}
                           /\ seen \intersect Partial # {} -> "PARTIAL_FAILURE"
                        [] OTHER -> IF mem.errors THEN "FAILED" ELSE "SUCCEEDED"
      BY DEF Aggregate
    <3>4. seen \intersect {"FAILED", "FAIL_CLOSED", "BLOCKED"} # {}
      BY <3>1
    <3> HIDE DEF seen
    <3> QED BY <3>2, <3>3, <3>4
  <2> QED BY <2>1, <2>2
<1>5. truth.wrong => \/ mem.errors
                     \/ thread.unhandled
                     \/ mem.comps["reportGovernance"] = "FAIL_CLOSED"
                     \/ mem.comps["phaseB1"] = "FAIL_CLOSED"
  BY <1>1, AtWork DEF Noted, TwsePcs, SectionPcs
<1>6. truth.foreign => mem.errors \/ mem.modified
  BY <1>1 DEF Inv, WindowInv, Seen, PublishPcs
<1>7. truth.wrong => mem.errors \/ status = "FAILED"
  BY <1>4, <1>5
<1>8. status \in Verdicts
  BY <1>3 DEF Verdicts
<1> HIDE DEF status
<1>9. /\ m \in StateType
      /\ m.job = mem.job /\ m.type = mem.type /\ m.status = status
      /\ m.errors = mem.errors /\ m.modified = mem.modified
  BY <1>2, <1>8 DEF StateType
<1> HIDE DEF m
<1>10. m.status = "SUCCEEDED" /\ ~m.errors => ~truth.wrong
  BY <1>7, <1>9
<1>11. GateOpen(m) /\ truth.foreign => m.type = "owner-publish" /\ m.status = "SUCCEEDED"
  BY <1>6, <1>9 DEF GateOpen
<1>12. child' = "none" /\ Wrong(FALSE) /\ spent' \in [{"trouble", "changes"} -> Nat]
  <2>1. child = "none"
    BY <1>1, NoChild DEF ChildSteps
  <2> QED BY <1>1, <2>1, NothingWrong DEF Inv, TypeOK
<1> QED BY <1>1, <1>9, <1>10, <1>11, <1>12, EndingKeeps


LEMMA EndPublishKeeps ==
  ASSUME Inv, EndPublish
  PROVE  Inv'
<1> DEFINE m == [mem EXCEPT !.status = PublishVerdict]
<1>1. /\ thread.pc = "endPublish" /\ Alive /\ Persist(m) /\ thread' = NoThread
      /\ UNCHANGED <<up, child, orphan, formal, truth, spent>>
  BY DEF EndPublish, Alive
<1>2. mem \in StateType /\ mem.type = "owner-publish" /\ PublishVerdict \in Verdicts
  BY <1>1, AtWork DEF TypeOfPc, PublishPcs, PublishVerdict, Verdicts
<1>3. truth.wrong => mem.errors
  BY <1>1, AtWork DEF Noted, TwsePcs, SectionPcs
<1>4. /\ m \in StateType
      /\ m.job = mem.job /\ m.type = mem.type /\ m.errors = mem.errors
      /\ ~mem.errors => m.status = "SUCCEEDED"
  BY <1>2 DEF StateType, PublishVerdict
<1> HIDE DEF m
<1>5. child' = "none" /\ Wrong(FALSE) /\ spent' \in [{"trouble", "changes"} -> Nat]
  <2>1. child = "none"
    BY <1>1, NoChild DEF ChildSteps
  <2> QED BY <1>1, <2>1, NothingWrong DEF Inv, TypeOK
<1> QED BY <1>1, <1>2, <1>3, <1>4, <1>5, EndingKeeps DEF GateOpen

\* What raises at the end of an owner publish leaves memory m and state file d, each
\* the one there was or one with the verdict, until the error is noted.
LEMMA RaisedKeeps ==
  ASSUME Inv, thread.pc \in {"review", "publish", "endPublish"},
         NEW m \in StateType, NEW d \in StateType, NEW b \in BOOLEAN,
         m.job = mem.job /\ d.job = mem.job,
         m.type = mem.type /\ d.type = mem.type,
         \A n \in {m, d} :
           n.status \in Verdicts => n.errors \/ (n.status = "SUCCEEDED" /\ b),
         mem' = m /\ disk' = d /\ thread' = [thread EXCEPT !.pc = "raised"],
         truth' = [truth EXCEPT !.wrong = TRUE, !.unnoted = b],
         child' = "none", UNCHANGED <<up, orphan, formal>>,
         spent' \in [{"trouble", "changes"} -> Nat]
  PROVE  Inv'
<1>1. Alive /\ Alive'
  BY DEF Alive, Inv, TypeOK, ThreadType
<1>2. TypeOK /\ up /\ mem.job = truth.job /\ mem.type = "owner-publish"
  BY <1>1, AtWork DEF Inv, AliveInv, TypeOK, TypeOfPc, PublishPcs
<1>3. /\ truth' \in [job : Nat, wrong : BOOLEAN, foreign : BOOLEAN, unnoted : BOOLEAN]
      /\ truth'.job = truth.job /\ truth'.foreign = truth.foreign
      /\ truth'.wrong /\ truth'.unnoted = b
  BY <1>2 DEF TypeOK
<1>4. thread' \in ThreadType /\ thread'.pc = "raised" /\ thread'.before = thread.before
  BY <1>2 DEF TypeOK, ThreadType, Pcs
<1>5. TypeOK'
  BY <1>2, <1>3, <1>4 DEF TypeOK
<1>6. \A n \in {m, d} : n.status \in Verdicts => n.errors \/ Unsaid(n)'
  BY <1>2, <1>3 DEF Unsaid
<1>7. AliveInv'
  BY <1>2, <1>3, <1>4, <1>6 DEF AliveInv, TypeOfPc, PublishPcs, TwsePcs
<1>8. WindowInv'
  <2>1. \A f \in Files : thread.before[f] <= formal[f]
    BY <1>1 DEF Inv, WindowInv, InWindow
  <2> QED BY <1>4, <2>1 DEF WindowInv, Seen, PublishPcs
<1>9. VerdictInv'
  BY <1>2, <1>3, <1>4 DEF VerdictInv
<1>10. NoSilentFailure'
  BY <1>3 DEF NoSilentFailure, Verdicts
<1>11. GateInv'
  BY <1>2 DEF GateInv, GateOpen
<1> QED BY <1>5, <1>7, <1>8, <1>9, <1>10, <1>11 DEF Inv

LEMMA PublishRaisesKeeps ==
  ASSUME Inv, PublishRaises
  PROVE  Inv'
<1>1. /\ thread.pc \in {"review", "publish", "endPublish"} /\ Alive
      /\ mem' = mem /\ disk' = disk /\ thread' = [thread EXCEPT !.pc = "raised"]
      /\ child' = "none" /\ Wrong(TRUE) /\ Trouble /\ UNCHANGED <<up, orphan, formal>>
  BY DEF PublishRaises, Alive
<1>2. /\ mem \in StateType /\ disk = mem
      /\ mem.status \in Verdicts => mem.errors
  BY <1>1 DEF Inv, AliveInv, TypeOK
<1>3. truth.unnoted \in BOOLEAN
  BY DEF Inv, TypeOK
<1>4. truth' = [truth EXCEPT !.wrong = TRUE, !.unnoted = truth.unnoted]
  BY <1>1 DEF Inv, TypeOK, Wrong
<1>5. spent' \in [{"trouble", "changes"} -> Nat]
  BY <1>1, TroubleType
<1> DEFINE b == truth.unnoted
           m == mem
<1>6. /\ m \in StateType /\ m.job = mem.job /\ m.type = mem.type
      /\ mem' = m /\ disk' = m /\ b \in BOOLEAN
      /\ truth' = [truth EXCEPT !.wrong = TRUE, !.unnoted = b]
  BY <1>1, <1>2, <1>3, <1>4
<1>7. \A n \in {m, m} : n.status \in Verdicts => n.errors \/ (n.status = "SUCCEEDED" /\ b)
  BY <1>2
<1> HIDE DEF b, m
<1> QED BY <1>1, <1>5, <1>6, <1>7, RaisedKeeps

LEMMA SummaryRaisesKeeps ==
  ASSUME Inv, NEW saved \in BOOLEAN, SummaryRaises(saved)
  PROVE  Inv'
<1> DEFINE m == [mem EXCEPT !.status = PublishVerdict]
           d == IF saved THEN m ELSE disk
<1>1. /\ thread.pc = "endPublish" /\ Alive
      /\ mem' = m /\ disk' = d /\ thread' = [thread EXCEPT !.pc = "raised"]
      /\ truth' = [truth EXCEPT !.wrong = TRUE, !.unnoted = TRUE]
      /\ Trouble /\ UNCHANGED <<up, child, orphan, formal>>
  BY DEF SummaryRaises, Alive
<1>2. /\ mem \in StateType /\ disk = mem
      /\ mem.status \in Verdicts => mem.errors
  BY <1>1 DEF Inv, AliveInv, TypeOK
<1>3. /\ m \in StateType /\ m.job = mem.job /\ m.type = mem.type
      /\ m.errors = mem.errors /\ m.status = PublishVerdict
  BY <1>2 DEF StateType, PublishVerdict, Verdicts
<1>4. ~mem.errors => m.status = "SUCCEEDED"
  BY <1>3 DEF PublishVerdict
<1> HIDE DEF m
<1>5. \A n \in {m, d} : n.status \in Verdicts => n.errors \/ n.status = "SUCCEEDED"
  BY <1>2, <1>3, <1>4
<1>6. d \in StateType /\ d.job = mem.job /\ d.type = mem.type
  BY <1>2, <1>3
<1> HIDE DEF d
<1>7. child' = "none" /\ spent' \in [{"trouble", "changes"} -> Nat]
  BY <1>1, NoChild, TroubleType DEF ChildSteps
<1> QED BY <1>1, <1>3, <1>5, <1>6, <1>7, RaisedKeeps

LEMMA NoteRaisedKeeps ==
  ASSUME Inv, NoteRaised
  PROVE  Inv'
<1> DEFINE m == AddError(mem)
<1>1. /\ thread.pc = "raised" /\ Alive /\ mem' = m /\ disk' = m
      /\ thread' = [thread EXCEPT !.pc = "noted"]
      /\ truth' = [truth EXCEPT !.unnoted = FALSE]
      /\ UNCHANGED <<up, child, orphan, formal, spent>>
  BY DEF NoteRaised, Alive, Persist
<1>2. TypeOK /\ mem.job = truth.job /\ mem.type = "owner-publish" /\ up
  BY <1>1, AtWork DEF Inv, AliveInv, TypeOK, TypeOfPc, PublishPcs
<1>3. m \in StateType /\ m.errors /\ m.job = mem.job /\ m.type = mem.type
  BY <1>2, AddErrorSame DEF TypeOK
<1> HIDE DEF m
<1>4. /\ truth' \in [job : Nat, wrong : BOOLEAN, foreign : BOOLEAN, unnoted : BOOLEAN]
      /\ truth'.job = truth.job
  BY <1>1, <1>2 DEF TypeOK
<1>5. thread' \in ThreadType /\ thread'.pc = "noted" /\ thread'.before = thread.before
  BY <1>1, <1>2 DEF TypeOK, ThreadType, Pcs
<1>6. child = "none"
  BY <1>1, NoChild DEF ChildSteps
<1>7. TypeOK'
  BY <1>1, <1>2, <1>3, <1>4, <1>5, <1>6 DEF TypeOK
<1>8. AliveInv'
  BY <1>1, <1>2, <1>3, <1>4, <1>5 DEF AliveInv, TypeOfPc, Noted, PublishPcs, TwsePcs
<1>9. WindowInv'
  <2>1. \A f \in Files : thread.before[f] <= formal[f]
    BY <1>1 DEF Inv, WindowInv, InWindow
  <2> QED BY <1>1, <1>5, <2>1 DEF WindowInv, Seen, PublishPcs
<1>10. VerdictInv' /\ NoSilentFailure' /\ GateInv'
  BY <1>1, <1>2, <1>3, <1>4 DEF VerdictInv, NoSilentFailure, GateInv, GateOpen
<1> QED BY <1>7, <1>8, <1>9, <1>10 DEF Inv

LEMMA FailNotedKeeps ==
  ASSUME Inv, FailNoted
  PROVE  Inv'
<1> DEFINE m == [mem EXCEPT !.status = "FAILED"]
<1>1. /\ thread.pc = "noted" /\ Alive /\ Persist(m) /\ thread' = NoThread
      /\ UNCHANGED <<up, child, orphan, formal, truth, spent>>
  BY DEF FailNoted, Alive
<1>2. mem \in StateType /\ mem.errors
  BY <1>1, AtWork DEF Inv, AliveInv
<1>3. /\ m \in StateType
      /\ m.job = mem.job /\ m.errors /\ m.status = "FAILED"
  BY <1>2 DEF StateType, Verdicts
<1> HIDE DEF m
<1>4. child' = "none" /\ Wrong(FALSE) /\ spent' \in [{"trouble", "changes"} -> Nat]
  <2>1. child = "none"
    BY <1>1, NoChild DEF ChildSteps
  <2> QED BY <1>1, <2>1, NothingWrong DEF Inv, TypeOK
<1> QED BY <1>1, <1>2, <1>3, <1>4, EndingKeeps DEF GateOpen

LEMMA PublishBaselineRaisesKeeps ==
  ASSUME Inv, PublishBaselineRaises
  PROVE  Inv'
<1>1. /\ thread.pc = "hash" /\ Alive /\ thread' = NoThread
      /\ Wrong(TRUE) /\ Trouble /\ UNCHANGED <<up, mem, disk, child, orphan, formal>>
  BY DEF PublishBaselineRaises, Alive
<1>2. /\ mem \in StateType /\ mem = disk
      /\ mem.status \in Verdicts => mem.errors
  BY <1>1, AtWork DEF Inv, AliveInv
<1>3. Persist(mem) /\ child' = "none"
  BY <1>1, <1>2, NoChild DEF Persist, ChildSteps
<1>4. spent' \in [{"trouble", "changes"} -> Nat]
  BY <1>1, TroubleType
<1>5. mem.status = "SUCCEEDED" => mem.errors
  BY <1>2 DEF Verdicts
<1> QED BY <1>1, <1>2, <1>3, <1>4, <1>5, EndingKeeps DEF GateOpen

LEMMA PublishReviewKeeps ==
  ASSUME Inv, NEW allowed \in BOOLEAN, PublishReview(allowed)
  PROVE  Inv'
<1> DEFINE s == SetStep(mem, "review", IF allowed THEN "SUCCEEDED" ELSE "FAILED")
           m == IF allowed THEN s ELSE AddError(s)
           t == [thread EXCEPT !.pc = IF allowed THEN "publish" ELSE "endPublish"]
<1>1. thread.pc = "review" /\ Alive /\ Section(m, t, ~allowed)
  BY DEF PublishReview, Alive
<1>2. mem \in StateType /\ thread \in ThreadType /\ mem.type = "owner-publish"
  BY <1>1, AtWork DEF TypeOfPc, PublishPcs
<1>3. Same(mem, s)
  BY <1>2, SetStepSame DEF Steps, StepStatuses
<1>4. /\ m \in StateType
      /\ m.job = mem.job /\ m.type = mem.type /\ m.status = mem.status
      /\ mem.errors => m.errors
      /\ ~allowed => m.errors
  BY <1>3, AddErrorSame DEF Same
<1>5. /\ t \in ThreadType /\ t.pc \in {"publish", "endPublish"}
      /\ t.before = thread.before
  BY <1>2 DEF ThreadType, Pcs, ChildSteps
<1> HIDE DEF m, t
<1>6. truth.wrong \/ ~allowed => m.errors
  BY <1>1, <1>4, AtWork DEF Noted, TwsePcs, SectionPcs
<1>7. Follows(m, t, ~allowed)
  BY <1>1, <1>2, <1>4, <1>5, <1>6 DEF Follows, TypeOfPc, Noted, PublishPcs, TwsePcs
<1> QED BY <1>1, <1>7, SectionKeeps

LEMMA PublishEndsKeeps ==
  ASSUME Inv, PublishEnds
  PROVE  Inv'
<1> DEFINE s == SetStep(mem, "publish", StepStatus)
           b == IF child = "timeout" THEN s.modified ELSE formal # thread.before
           n == [s EXCEPT !.modified = b]
           ok == child = "ok"
           m == IF ok THEN n ELSE AddError(n)
           t == [thread EXCEPT !.pc = "endPublish"]
<1>1. thread.pc = "publish" /\ Alive /\ Section(m, t, ~ok)
  BY DEF PublishEnds, Alive
<1>2. mem \in StateType /\ thread \in ThreadType /\ mem.type = "owner-publish"
  BY <1>1, AtWork DEF TypeOfPc, PublishPcs
<1>3. Same(mem, s)
  BY <1>2, SetStepSame DEF Steps, StepStatus, StepStatuses
<1>4. b \in BOOLEAN
  BY <1>3 DEF Same, StateType
<1> HIDE DEF s, b
<1>5. /\ n \in StateType
      /\ n.job = mem.job /\ n.type = mem.type /\ n.status = mem.status
      /\ n.errors = mem.errors
  BY <1>3, <1>4 DEF Same, StateType
<1> HIDE DEF n
<1>6. /\ m \in StateType
      /\ m.job = mem.job /\ m.type = mem.type /\ m.status = mem.status
      /\ mem.errors => m.errors
      /\ ~ok => m.errors
  BY <1>5, AddErrorSame
<1>7. t \in ThreadType /\ t.pc = "endPublish" /\ t.before = thread.before
  BY <1>2 DEF ThreadType, Pcs
<1>8. ok \in BOOLEAN
  OBVIOUS
<1> HIDE DEF m, t, ok
<1>9. truth.wrong \/ ~ok => m.errors
  BY <1>1, <1>6, AtWork DEF Noted, TwsePcs, SectionPcs
<1>10. Follows(m, t, ~ok)
  BY <1>1, <1>2, <1>6, <1>7, <1>8, <1>9 DEF Follows, TypeOfPc, Noted, PublishPcs, TwsePcs
<1> QED BY <1>1, <1>10, SectionKeeps

LEMMA StartChildKeeps ==
  ASSUME Inv, StartChild
  PROVE  Inv'
<1> DEFINE m == SetStep(mem, thread.pc, "RUNNING")
           t == [thread EXCEPT !.stepBefore = formal]
<1>1. /\ thread.pc \in ChildSteps /\ Alive /\ Persist(m) /\ thread' = t
      /\ child' = "working" /\ UNCHANGED <<up, orphan, formal, truth, spent>>
  BY DEF StartChild, Alive, ChildSteps
<1>2. mem \in StateType /\ thread \in ThreadType /\ formal \in [Files -> Nat]
  BY <1>1, AtWork DEF Inv, TypeOK
<1>3. Same(mem, m) /\ m.comps = mem.comps
  BY <1>1, <1>2, SetStepSame DEF Steps, StepStatuses, ChildSteps
<1>4. /\ t \in ThreadType /\ t.pc = thread.pc /\ t.before = thread.before
      /\ t.failures = thread.failures /\ t.unhandled = thread.unhandled
  BY <1>2 DEF ThreadType
<1> HIDE DEF m, t
<1>5. truth.wrong => Noted(m, t)
  BY <1>1, <1>3, <1>4, AtWork DEF Noted, Same, ChildSteps
<1>6. TypeOfPc(m, t)
  BY <1>1, <1>3, <1>4, AtWork DEF TypeOfPc, Same
<1>7. thread.pc \notin {"none", "hash", "end", "preflight", "raised", "noted"}
  BY <1>1 DEF ChildSteps
<1>8. Follows(m, t, FALSE)
  BY <1>3, <1>4, <1>5, <1>6, <1>7 DEF Follows, Same
<1>9. Wrong(FALSE) /\ spent' \in [{"trouble", "changes"} -> Nat]
  BY <1>1, NothingWrong DEF Inv, TypeOK
<1> QED BY <1>1, <1>4, <1>8, <1>9, StepKeeps


LEMMA PublishBaselineKeeps ==
  ASSUME Inv, PublishBaseline
  PROVE  Inv'
<1> DEFINE t == [thread EXCEPT !.pc = "review", !.before = formal]
<1>1. /\ thread.pc = "hash" /\ Alive /\ thread' = t
      /\ UNCHANGED <<up, mem, disk, child, orphan, formal, truth, spent>>
  BY DEF PublishBaseline, Alive
<1>2. thread \in ThreadType /\ formal \in [Files -> Nat] /\ TypeOK /\ up
  BY <1>1 DEF Inv, TypeOK
<1>3. t \in ThreadType /\ t.pc = "review" /\ t.before = formal
  BY <1>2 DEF ThreadType, Pcs
<1>4. child = "none"
  BY <1>1, NoChild DEF ChildSteps
<1> HIDE DEF t
<1>5. TypeOK'
  BY <1>1, <1>2, <1>3, <1>4 DEF TypeOK
<1>6. AliveInv'
  <2>1. mem.type = "owner-publish" /\ (truth.wrong => mem.errors)
    BY <1>1, AtWork DEF TypeOfPc, Noted, PublishPcs, TwsePcs, SectionPcs
  <2>2. TypeOfPc(mem, thread)' /\ (truth.wrong => Noted(mem, thread)')
    BY <1>1, <1>3, <2>1 DEF TypeOfPc, Noted, PublishPcs, TwsePcs
  <2> QED BY <1>1, <1>3, <2>2 DEF Inv, AliveInv
<1>7. WindowInv'
  <2>1. ~truth.foreign
    BY <1>1 DEF Inv, WindowInv
  <2>2. \A f \in Files : t.before[f] <= formal[f]
    BY <1>2, <1>3
  <2> QED BY <1>1, <1>3, <2>1, <2>2 DEF WindowInv
<1>8. VerdictInv' /\ NoSilentFailure' /\ GateInv'
  BY <1>1 DEF Inv, VerdictInv, NoSilentFailure, GateInv, GateOpen
<1> QED BY <1>5, <1>6, <1>7, <1>8 DEF Inv

\* What becomes of a program that a thread waits for does not touch the job.
LEMMA ChildKeeps ==
  ASSUME Inv, thread.pc \in ChildSteps,
         child' \in {"none", "working", "ok", "failed", "timeout"},
         UNCHANGED <<up, mem, disk, thread, orphan, formal, truth, spent>>
  PROVE  Inv'
<1>1. TypeOK'
  BY DEF Inv, TypeOK, Alive
<1>2. AliveInv' /\ WindowInv'
  BY DEF Inv, AliveInv, WindowInv, TypeOfPc, Noted, Unsaid, Seen, InWindow, Alive
<1>3. VerdictInv' /\ NoSilentFailure' /\ GateInv'
  BY DEF Inv, VerdictInv, NoSilentFailure, GateInv, GateOpen
<1> QED BY <1>1, <1>2, <1>3 DEF Inv

LEMMA ChildEndsKeeps ==
  ASSUME Inv, NEW ok \in BOOLEAN, ChildEnds(ok) \/ TimesOut
  PROVE  Inv'
<1>1. thread.pc \in ChildSteps
  BY DEF Inv, TypeOK, ChildEnds, TimesOut
<1>2. /\ child' \in {"none", "working", "ok", "failed", "timeout"}
      /\ UNCHANGED <<up, mem, disk, thread, orphan, formal, truth, spent>>
  BY DEF ChildEnds, TimesOut
<1> QED BY <1>1, <1>2, ChildKeeps

\* A counted change of one formal file.
LEMMA ChangeType ==
  ASSUME Inv, NEW f \in Files, Change(f)
  PROVE  /\ spent' \in [{"trouble", "changes"} -> Nat]
         /\ formal' \in [Files -> Nat]
         /\ formal'[f] = formal[f] + 1
         /\ \A g \in Files : formal[g] <= formal'[g]
BY DEF Inv, TypeOK, Change

\* The publisher of a job may change formal files: the gate knows its type.
LEMMA PublisherWritesKeeps ==
  ASSUME Inv, NEW f \in Files, PublisherWrites(f)
  PROVE  Inv'
<1>1. /\ thread.pc = "publish" /\ Alive /\ Change(f)
      /\ UNCHANGED <<up, mem, disk, thread, child, orphan, truth>>
  BY DEF PublisherWrites, Alive
<1>2. /\ spent' \in [{"trouble", "changes"} -> Nat]
      /\ formal' \in [Files -> Nat]
      /\ \A g \in Files : formal[g] <= formal'[g]
  BY <1>1, ChangeType
<1>3. mem.type = "owner-publish"
  BY <1>1, AtWork DEF TypeOfPc, PublishPcs
<1>4. TypeOK'
  BY <1>1, <1>2 DEF Inv, TypeOK, Alive
<1>5. AliveInv'
  BY <1>1 DEF Inv, AliveInv, TypeOfPc, Noted, Unsaid, Alive
<1>6. WindowInv'
  <2>1. thread.before \in [Files -> Nat] /\ formal \in [Files -> Nat]
    BY DEF Inv, TypeOK, ThreadType
  <2>2. \A g \in Files : thread.before[g] <= formal[g]
    BY <1>1 DEF Inv, WindowInv, InWindow
  <2>3. \A g \in Files : thread.before[g] <= formal'[g]
    BY <1>2, <2>1, <2>2
  <2> QED BY <1>1, <1>3, <2>3 DEF WindowInv, Seen, PublishPcs
<1>7. VerdictInv' /\ NoSilentFailure' /\ GateInv'
  BY <1>1 DEF Inv, VerdictInv, NoSilentFailure, GateInv, GateOpen
<1> QED BY <1>4, <1>5, <1>6, <1>7 DEF Inv

\* A foreign change is seen when it falls between a baseline and its comparison.
LEMMA ForeignChangeKeeps ==
  ASSUME Inv, NEW f \in Files, Change(f),
         truth' = [truth EXCEPT !.foreign = @ \/ InWindow],
         orphan' \in BOOLEAN,
         UNCHANGED <<up, mem, disk, thread, child>>
  PROVE  Inv'
<1>1. /\ spent' \in [{"trouble", "changes"} -> Nat]
      /\ formal' \in [Files -> Nat]
      /\ formal'[f] = formal[f] + 1
      /\ \A g \in Files : formal[g] <= formal'[g]
  BY ChangeType
<1>2. /\ truth' \in [job : Nat, wrong : BOOLEAN, foreign : BOOLEAN, unnoted : BOOLEAN]
      /\ truth'.job = truth.job /\ truth'.wrong = truth.wrong
      /\ truth'.unnoted = truth.unnoted
      /\ truth'.foreign = (truth.foreign \/ InWindow)
  <2> DEFINE b == truth.foreign \/ InWindow
  <2>1. b \in BOOLEAN /\ truth' = [truth EXCEPT !.foreign = b]
    BY DEF Inv, TypeOK
  <2> HIDE DEF b
  <2>2. /\ truth' \in [job : Nat, wrong : BOOLEAN, foreign : BOOLEAN, unnoted : BOOLEAN]
        /\ truth'.job = truth.job /\ truth'.wrong = truth.wrong /\ truth'.foreign = b
        /\ truth'.unnoted = truth.unnoted
    BY <2>1 DEF Inv, TypeOK
  <2> QED BY <2>2 DEF b
<1>3. TypeOK'
  BY <1>1, <1>2 DEF Inv, TypeOK, Alive
<1>4. AliveInv'
  BY <1>2 DEF Inv, AliveInv, TypeOfPc, Noted, Unsaid, Alive
<1>5. thread \in ThreadType /\ formal \in [Files -> Nat]
  BY DEF Inv, TypeOK
<1>6. WindowInv'
  <2>1. CASE InWindow
    <3>1. Alive /\ thread.pc \notin {"none", "end", "hash", "preflight"}
      BY <2>1 DEF InWindow, Alive
    <3>2. \A g \in Files : thread.before[g] <= formal[g]
      BY <2>1, <3>1 DEF Inv, WindowInv
    <3>3. thread.before \in [Files -> Nat]
      BY <1>5 DEF ThreadType
    <3>4. \A g \in Files : thread.before[g] <= formal'[g]
      BY <1>1, <1>5, <3>2, <3>3
    <3>5. thread.before # formal'
      BY <1>1, <1>5, <3>2, <3>3
    <3> QED BY <3>1, <3>4, <3>5 DEF WindowInv, Seen
  <2>2. CASE ~InWindow
    <3>1. thread.pc \in {"none", "hash", "preflight", "end"} /\ ~InWindow'
      BY <2>2 DEF InWindow
    <3>2. truth'.foreign = truth.foreign
      BY <1>2, <2>2 DEF Inv, TypeOK
    <3>3. Alive /\ truth.foreign => thread.pc = "end" /\ Seen(mem, thread)
      BY <3>1 DEF Inv, WindowInv, Alive
    <3>4. Alive /\ truth.foreign => Seen(mem, thread)'
      BY <3>3 DEF Seen
    <3>5. Alive' <=> Alive
      BY DEF Alive
    <3>6. Alive /\ thread.pc \in {"hash", "preflight"} => ~truth.foreign
      BY DEF Inv, WindowInv
    <3> QED BY <3>1, <3>2, <3>4, <3>5, <3>6 DEF WindowInv
  <2> QED BY <2>1, <2>2
<1>7. VerdictInv' /\ NoSilentFailure'
  BY <1>2 DEF Inv, VerdictInv, NoSilentFailure
<1>8. GateInv'
  <2>1. CASE Alive
    <3>1. \A m \in {mem, disk} : m.status \in Verdicts => m.errors \/ Unsaid(m)
      BY <2>1 DEF Inv, AliveInv
    <3> QED BY <3>1 DEF GateInv, GateOpen, Unsaid
  <2>2. CASE ~Alive
    <3>1. truth'.foreign = truth.foreign
      BY <1>2, <2>2 DEF InWindow, Alive, Inv, TypeOK
    <3> QED BY <1>2, <3>1 DEF Inv, GateInv, GateOpen
  <2> QED BY <2>1, <2>2
<1> QED BY <1>3, <1>4, <1>6, <1>7, <1>8 DEF Inv


LEMMA ForeignWritesKeeps ==
  ASSUME Inv, NEW f \in Files, ForeignWrites(f)
  PROVE  Inv'
<1>1. orphan' \in BOOLEAN
  BY DEF ForeignWrites, Inv, TypeOK
<1> QED BY <1>1, ForeignChangeKeeps DEF ForeignWrites

LEMMA OrphanEndsKeeps ==
  ASSUME Inv, OrphanEnds
  PROVE  Inv'
<1>1. orphan' \in BOOLEAN /\ UNCHANGED <<up, mem, disk, thread, child>>
  BY DEF OrphanEnds
<1>2. CASE UNCHANGED <<formal, truth, spent>>
  <2>1. TypeOK'
    BY <1>1, <1>2 DEF Inv, TypeOK, Alive
  <2>2. AliveInv' /\ WindowInv'
    BY <1>1, <1>2 DEF Inv, AliveInv, WindowInv, TypeOfPc, Noted, Unsaid, Seen, InWindow, Alive
  <2>3. VerdictInv' /\ NoSilentFailure' /\ GateInv'
    BY <1>1, <1>2 DEF Inv, VerdictInv, NoSilentFailure, GateInv, GateOpen
  <2> QED BY <2>1, <2>2, <2>3 DEF Inv
<1>3. ASSUME NEW f \in Files, Change(f), truth' = [truth EXCEPT !.foreign = @ \/ InWindow]
      PROVE  Inv'
  BY <1>1, <1>3, ForeignChangeKeeps
<1> QED BY <1>2, <1>3 DEF OrphanEnds

\* A new job starts with a clean state.
LEMMA StartKeeps ==
  ASSUME Inv, NEW type \in JobTypes, Start(type)
  PROVE  Inv'
<1> DEFINE m == NewState(truth.job + 1, type, "RUNNING")
           t == [NoThread EXCEPT !.pc = IF type = "owner-publish" THEN "hash" ELSE "preflight"]
<1>1. /\ up /\ ~Alive /\ mem' = m /\ disk' = m /\ thread' = t
      /\ truth' = [job |-> truth.job + 1, wrong |-> FALSE, foreign |-> FALSE, unnoted |-> FALSE]
      /\ UNCHANGED <<up, child, orphan, formal, spent>>
  BY DEF Start, Persist
<1>2. truth.job \in Nat
  BY DEF Inv, TypeOK
<1>3. /\ m \in StateType
      /\ m.job = truth.job + 1 /\ m.type = type /\ m.status = "RUNNING"
  <2>1. /\ [x \in Steps |-> "none"] \in [Steps -> StepStatuses]
        /\ [c \in Components |-> "none"] \in [Components -> CompStatuses]
    BY DEF StepStatuses, CompStatuses
  <2>2. truth.job + 1 \in Nat
    BY <1>2
  <2>3. type \in JobTypes \union {""}
    OBVIOUS
  <2> QED BY <2>1, <2>2, <2>3 DEF NewState, StateType
<1>4. /\ t \in ThreadType
      /\ t.pc = IF type = "owner-publish" THEN "hash" ELSE "preflight"
  BY DEF NoThread, ThreadType, Pcs
<1>5. child = "none"
  BY <1>1, NoChild DEF Alive, ChildSteps
<1> HIDE DEF m, t
<1>6. TypeOK'
  BY <1>1, <1>2, <1>3, <1>4, <1>5 DEF Inv, TypeOK
<1>7. AliveInv' /\ WindowInv'
  <2>1. TypeOfPc(m, t) /\ m.status \notin Verdicts
    BY <1>3, <1>4 DEF TypeOfPc, PublishPcs, TwsePcs, Verdicts
  <2>2. TypeOfPc(mem, thread)'
    BY <1>1, <2>1 DEF TypeOfPc
  <2>3. AliveInv'
    BY <1>1, <1>3, <1>4, <2>1, <2>2 DEF AliveInv
  <2>4. ~InWindow' /\ ~truth'.foreign
    BY <1>1, <1>4 DEF InWindow
  <2> QED BY <2>3, <2>4 DEF WindowInv
<1>8. VerdictInv' /\ NoSilentFailure' /\ GateInv'
  BY <1>1, <1>3 DEF VerdictInv, NoSilentFailure, GateInv, Verdicts
<1> QED BY <1>6, <1>7, <1>8 DEF Inv

LEMMA RefreshKeeps ==
  ASSUME Inv, Refresh
  PROVE  Inv'
<1>1. /\ up /\ ~Alive /\ mem' = disk
      /\ UNCHANGED <<up, disk, thread, child, orphan, formal, truth, spent>>
  BY DEF Refresh
<1>2. TypeOK' /\ ~Alive'
  BY <1>1 DEF Inv, TypeOK, Alive
<1>3. AliveInv' /\ WindowInv'
  BY <1>2 DEF AliveInv, WindowInv
<1>4. VerdictInv' /\ NoSilentFailure' /\ GateInv'
  BY <1>1 DEF Inv, VerdictInv, NoSilentFailure, GateInv, GateOpen
<1> QED BY <1>2, <1>3, <1>4 DEF Inv

LEMMA AuthorityGitSyncKeeps ==
  ASSUME Inv, AuthorityGitSync
  PROVE  Inv'
<1>1. /\ up /\ disk' = mem
      /\ UNCHANGED <<up, mem, thread, child, orphan, formal, truth, spent>>
  BY DEF AuthorityGitSync
<1>2. TypeOK'
  BY <1>1 DEF Inv, TypeOK, Alive
<1>3. AliveInv' /\ WindowInv'
  BY <1>1 DEF Inv, AliveInv, WindowInv, TypeOfPc, Noted, Unsaid, Seen, InWindow, Alive
<1>4. VerdictInv' /\ NoSilentFailure' /\ GateInv'
  BY <1>1 DEF Inv, VerdictInv, NoSilentFailure, GateInv, GateOpen
<1> QED BY <1>2, <1>3, <1>4 DEF Inv

\* The server is gone: its memory is, and its job has failed.
LEMMA KilledKeeps ==
  ASSUME Inv, NEW torn \in BOOLEAN, Killed(torn)
  PROVE  Inv'
<1>1. /\ up' = FALSE /\ mem' = Blank /\ disk' = (IF torn THEN CutShort ELSE disk)
      /\ thread' = NoThread /\ child' = "none" /\ orphan' \in BOOLEAN
      /\ Wrong(Alive) /\ Trouble /\ UNCHANGED formal
  BY DEF Killed, Inv, TypeOK
<1>2. /\ Blank \in StateType /\ Blank.status = "IDLE"
      /\ CutShort \in StateType /\ CutShort.status = "torn"
  BY DEF Blank, CutShort, NewState, StateType, StepStatuses, CompStatuses
<1>3. NoThread \in ThreadType /\ ~Alive'
  BY <1>1 DEF NoThread, ThreadType, Pcs, Alive
<1>4. /\ truth' \in [job : Nat, wrong : BOOLEAN, foreign : BOOLEAN, unnoted : BOOLEAN]
      /\ truth'.job = truth.job /\ truth'.foreign = truth.foreign
      /\ truth'.unnoted = truth.unnoted
      /\ truth'.wrong = (truth.wrong \/ Alive)
  <2>1. truth' = [truth EXCEPT !.wrong = truth.wrong \/ Alive] /\ Alive \in BOOLEAN
    BY <1>1 DEF Wrong, Alive
  <2> HIDE DEF Alive
  <2> QED BY <2>1 DEF Inv, TypeOK
<1>5. spent' \in [{"trouble", "changes"} -> Nat]
  BY <1>1, TroubleType
<1>6. TypeOK'
  BY <1>1, <1>2, <1>3, <1>4, <1>5 DEF Inv, TypeOK
<1>7. AliveInv' /\ WindowInv'
  BY <1>3 DEF AliveInv, WindowInv
<1>8. VerdictInv' /\ GateInv'
  BY <1>1, <1>2, <1>4 DEF Inv, VerdictInv, GateInv, GateOpen, Verdicts
<1>9. NoSilentFailure'
  <2>1. Alive /\ disk.status \in Verdicts => disk.errors \/ truth.unnoted
    BY DEF Inv, AliveInv, Unsaid
  <2>2. disk.job = truth.job /\ disk.status = "SUCCEEDED" /\ ~disk.errors
          => (~truth.wrong /\ ~Alive) \/ truth.unnoted
    BY <2>1 DEF Inv, NoSilentFailure, Verdicts
  <2> QED BY <1>1, <1>2, <1>4, <2>2 DEF NoSilentFailure
<1> QED BY <1>6, <1>7, <1>8, <1>9 DEF Inv

LEMMA RestartKeeps ==
  ASSUME Inv, Restart
  PROVE  Inv'
<1> DEFINE m == [disk EXCEPT !.status = "INTERRUPTED"]
<1>1. /\ ~up /\ up' = TRUE
      /\ mem' = (IF disk.status \in {"missing", "torn"} THEN Blank
                 ELSE IF disk.status = "RUNNING" THEN m ELSE disk)
      /\ UNCHANGED <<disk, thread, child, orphan, formal, truth, spent>>
  BY DEF Restart
<1>2. TypeOK /\ ~Alive /\ ~Alive'
  BY <1>1 DEF Inv, TypeOK, Alive
<1>3. Blank \in StateType /\ Blank.status = "IDLE"
  BY DEF Blank, NewState, StateType, StepStatuses, CompStatuses
<1>4. m \in StateType /\ m.status = "INTERRUPTED"
  BY <1>2 DEF TypeOK, StateType
<1> HIDE DEF m
<1>5. TypeOK'
  BY <1>1, <1>2, <1>3, <1>4 DEF TypeOK
<1>6. AliveInv' /\ WindowInv'
  BY <1>2 DEF AliveInv, WindowInv
<1>7. mem' = disk \/ mem'.status \in {"IDLE", "INTERRUPTED"}
  BY <1>1, <1>3, <1>4
<1>8. disk.status \in Verdicts => mem' = disk
  BY <1>1 DEF Verdicts
<1>9. VerdictInv' /\ NoSilentFailure' /\ GateInv'
  BY <1>1, <1>7, <1>8 DEF Inv, VerdictInv, NoSilentFailure, GateInv, GateOpen, Verdicts
<1> QED BY <1>5, <1>6, <1>9 DEF Inv

\* Steps that change nothing.
LEMMA StutterKeeps ==
  ASSUME Inv, UNCHANGED vars
  PROVE  Inv'
<1> USE DEF vars
<1>1. TypeOK' /\ AliveInv' /\ WindowInv'
  BY DEF Inv, TypeOK, AliveInv, WindowInv, TypeOfPc, Noted, Unsaid, Seen, InWindow, Alive
<1>2. VerdictInv' /\ NoSilentFailure' /\ GateInv'
  BY DEF Inv, VerdictInv, NoSilentFailure, GateInv, GateOpen
<1> QED BY <1>1, <1>2 DEF Inv

LEMMA InnerKeeps ==
  ASSUME Inv, InnerNext
  PROVE  Inv'
<1>1. ASSUME NEW ok \in BOOLEAN, Preflight(ok) \/ Bootstrap(ok) \/ Candidate(ok)
      PROVE  Inv'
  BY <1>1, PreflightKeeps, BootstrapKeeps, CandidateKeeps
<1>2. ASSUME NEW step \in {"SUCCEEDED", "FAIL_CLOSED"},
             NEW decision \in {"OK", "FAIL_CLOSED"}, ReportTrigger(step, decision)
      PROVE  Inv'
  BY <1>2, ReportTriggerKeeps
<1>3. ASSUME NEW status \in {"NO_NEW_DATA", "DRY_RUN_READY"}, Daily(status)
      PROVE  Inv'
  BY <1>3, DailyKeeps
<1>4. ASSUME NEW status \in {"NO_NEW_DATA", "DRY_RUN_READY", "RECONCILIATION_REQUIRED"},
             NEW onFailure \in {"BLOCKED", "STALE"}, Market(status, onFailure)
      PROVE  Inv'
  BY <1>4, MarketKeeps DEF MarketStatuses
<1>5. ASSUME NEW onFailure \in {"OK", "FAIL_CLOSED"}, Freshness(onFailure)
      PROVE  Inv'
  BY <1>5, FreshnessKeeps
<1>6. ASSUME NEW status \in {"OK", "PARTIAL_FAILURE"}, OfficialIR(status)
      PROVE  Inv'
  BY <1>6, OfficialIRKeeps
<1>7. ASSUME NEW refreshed \in BOOLEAN, NEW healthy \in BOOLEAN,
             RollingBrief(refreshed, healthy)
      PROVE  Inv'
  BY <1>7, RollingBriefKeeps
<1>8. CASE OtherData \/ News \/ CandidateBlocked \/ Finish \/ RefreshState \/ End
  BY <1>8, OtherDataKeeps, NewsKeeps, CandidateBlockedKeeps, FinishKeeps,
     RefreshStateKeeps, EndKeeps
<1> QED BY <1>1, <1>2, <1>3, <1>4, <1>5, <1>6, <1>7, <1>8 DEF InnerNext

LEMMA NextKeeps ==
  ASSUME Inv, [Next]_vars
  PROVE  Inv'
<1>1. CASE RequestNext
  <2>1. ASSUME NEW type \in JobTypes, Start(type) PROVE Inv'
    BY <2>1, StartKeeps
  <2> QED BY <1>1, <2>1, RefreshKeeps, AuthorityGitSyncKeeps DEF RequestNext
<1>2. CASE ThreadNext
  <2>1. CASE PublishNext
    <3>1. ASSUME NEW allowed \in BOOLEAN, PublishReview(allowed) PROVE Inv'
      BY <3>1, PublishReviewKeeps
    <3> QED BY <2>1, <3>1, PublishBaselineKeeps, PublishEndsKeeps, EndPublishKeeps,
               NoteRaisedKeeps, FailNotedKeeps DEF PublishNext
  <2>2. CASE TimesOut
    BY <2>2, ChildEndsKeeps
  <2> QED BY <1>2, <2>1, <2>2, StartChildKeeps, InnerKeeps DEF ThreadNext
<1>3. CASE Environment
  <2>1. ASSUME NEW ok \in BOOLEAN, ChildEnds(ok) PROVE Inv'
    BY <2>1, ChildEndsKeeps
  <2>2. ASSUME NEW f \in Files, PublisherWrites(f) \/ ForeignWrites(f) PROVE Inv'
    BY <2>2, PublisherWritesKeeps, ForeignWritesKeeps
  <2>3. ASSUME NEW torn \in BOOLEAN, Killed(torn) PROVE Inv'
    BY <2>3, KilledKeeps
  <2>4. ASSUME NEW saved \in BOOLEAN, SummaryRaises(saved) PROVE Inv'
    BY <2>4, SummaryRaisesKeeps
  <2> QED BY <1>3, <2>1, <2>2, <2>3, <2>4, OrphanEndsKeeps, RaisesKeeps,
             PublishRaisesKeeps, PublishBaselineRaisesKeeps, RestartKeeps
          DEF Environment
<1> QED BY <1>1, <1>2, <1>3, StutterKeeps DEF Next

\* The invariant holds in every state the server comes to.
LEMMA AlwaysInv == Spec => []Inv
<1>1. Init => Inv
  BY InitInv
<1>2. Inv /\ [Next]_vars => Inv'
  BY NextKeeps
<1> QED BY <1>1, <1>2, PTL DEF Spec


(***************************************************************************)
(* Theorems                                                                *)
(***************************************************************************)
\* The types of the variables; a program runs only for a thread that waits for it,
\* and a thread only in a server (_run_job, subprocess.run with a time limit).
THEOREM TypeCorrect == Spec => []TypeOK
<1>1. Inv => TypeOK
  BY DEF Inv
<1> QED BY <1>1, AlwaysInv, PTL

\* No failure of a step, however it was noted (as an error, a component failure, a
\* step or a component alone), and no death of the server, ends in SUCCEEDED without
\* an error: what _aggregate_current_run_status is for.  Excepted is an owner publish
\* whose last section raised and whose error _add_error has not noted yet, or, its
\* server being killed first, never notes.
THEOREM FailuresAreNoted == Spec => []NoSilentFailure
<1>1. Inv => NoSilentFailure
  BY DEF Inv
<1> QED BY <1>1, AlwaysInv, PTL

\* launcher_gate_status is not open after a job during which a formal file was
\* changed by anything but the job, unless the job is an owner publish that SUCCEEDED,
\* for which it excuses every change: _refresh compares with a baseline taken before
\* the first step, and a change that is taken back again does not count as one.
THEOREM GateSeesForeignChanges == Spec => []ReadyGateUnchanged
<1>1. Inv => ReadyGateUnchanged
  BY DEF Inv, GateInv, ReadyGateUnchanged
<1> QED BY <1>1, AlwaysInv, PTL

\* Without a thread only a new job replaces a verdict.
LEMMA StepKeepsVerdict ==
  ASSUME Inv, Next, ~Alive
  PROVE  (up /\ up' => Kept(mem, mem')) /\ Kept(disk, disk')
<1>1. /\ \A m \in {mem, disk} : m.status \in Verdicts => m.job = truth.job
      /\ up /\ (mem.status \in Verdicts \/ disk.status \in Verdicts) => mem = disk
  BY DEF Inv, VerdictInv, Alive
<1>2. thread.pc = "none" /\ child = "none" /\ truth.job \in Nat
  BY NoChild DEF Alive, ChildSteps, Inv, TypeOK
<1>3. CASE UNCHANGED <<mem, disk>>
  BY <1>3 DEF Kept
<1>4. ASSUME NEW type \in JobTypes, Start(type)
      PROVE  (up /\ up' => Kept(mem, mem')) /\ Kept(disk, disk')
  <2>1. /\ mem' = NewState(truth.job + 1, type, "RUNNING") /\ disk' = mem'
    BY <1>4 DEF Start, Persist
  <2>2. mem'.job = truth.job + 1 /\ disk'.job = truth.job + 1
    BY <2>1 DEF NewState
  <2> QED BY <1>1, <2>2 DEF Kept
<1>5. CASE Refresh
  BY <1>1, <1>5 DEF Refresh, Kept
<1>6. CASE AuthorityGitSync
  BY <1>1, <1>6 DEF AuthorityGitSync, Kept
<1>7. ASSUME NEW torn \in BOOLEAN, Killed(torn)
      PROVE  (up /\ up' => Kept(mem, mem')) /\ Kept(disk, disk')
  BY <1>7 DEF Killed, Kept
<1>8. CASE Restart
  BY <1>8 DEF Restart, Kept
<1>9. ASSUME NEW f \in Files, ForeignWrites(f)
      PROVE  UNCHANGED <<mem, disk>>
  BY <1>9 DEF ForeignWrites
<1>10. CASE OrphanEnds
  BY <1>3, <1>10 DEF OrphanEnds
<1>11. ~ThreadNext
  <2>1. ~InnerNext
    BY <1>2 DEF InnerNext, Preflight, Bootstrap, Candidate, ReportTrigger, Daily, Market,
       Freshness, OtherData, News, OfficialIR, RollingBrief, CandidateBlocked, Finish,
       RefreshState, End
  <2>2. ~PublishNext
    BY <1>2 DEF PublishNext, PublishBaseline, PublishEnds, EndPublish, NoteRaised, FailNoted,
       PublishReview
  <2>3. ~StartChild /\ ~TimesOut
    BY <1>2 DEF StartChild, TimesOut, ChildSteps
  <2> QED BY <2>1, <2>2, <2>3 DEF ThreadNext
<1>12. /\ ~Raises /\ ~PublishRaises /\ ~PublishBaselineRaises
       /\ \A saved \in BOOLEAN : ~SummaryRaises(saved)
       /\ \A ok \in BOOLEAN : ~ChildEnds(ok)
       /\ \A f \in Files : ~PublisherWrites(f)
  BY <1>2 DEF Raises, PublishRaises, SummaryRaises, PublishBaselineRaises, ChildEnds,
     PublisherWrites
<1>13. CASE RequestNext
  BY <1>4, <1>5, <1>6, <1>13 DEF RequestNext
<1>14. CASE Environment
  BY <1>3, <1>7, <1>8, <1>9, <1>10, <1>12, <1>14 DEF Environment
<1> QED BY <1>11, <1>13, <1>14 DEF Next

\* Once its thread has ended, the verdict on a job stays in memory and in the state
\* file until the next job starts: neither refresh_payload, nor _initial_state of a
\* new server, nor refresh_authority_git_sync brings back an older one.
THEOREM VerdictStays == Spec => VerdictKept
<1>1. Inv /\ [Next]_vars
        => [~Alive => (up /\ up' => Kept(mem, mem')) /\ Kept(disk, disk')]_vars
  BY StepKeepsVerdict
<1> QED BY <1>1, AlwaysInv, PTL DEF Spec, VerdictKept


=============================================================================
