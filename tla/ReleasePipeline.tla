-------------------------- MODULE ReleasePipeline --------------------------
(* The offline release pipeline of the fact database (p2_03a_pipeline.py):    *)
(* run_suite evaluates four scenarios, builds a release candidate twice,      *)
(* registers it, and calls the publisher four times, three times to see it    *)
(* refuse: for a role that may not publish, before the owner's approval, and  *)
(* for a tampered copy.  The fourth call must publish.                        *)
(*                                                                            *)
(* A candidate directory is a record: the hash its manifest carries and the   *)
(* version of its data files; the two agree in a candidate as built.  While   *)
(* the suite runs, somebody may edit a file of the candidate, reissue it (edit*)
(* it and write the manifest anew) and put it back as it was, the formal files*)
(* may be published to, and the process may be killed.                        *)
EXTENDS Naturals

CONSTANT None

VARIABLES stage,      \* where the suite is
          call,       \* the publisher call it is at
          callStep,   \* where that call is
          rebuild,    \* the registered candidate's directory, rebuild_a
          tampered,   \* the tampered copy
          manifest,   \* the manifest the call verified
          batch,      \* release_batches: status and registered hash
          approvals,  \* release_approvals: the hashes approved
          attempts,   \* publication_attempts: call and status code
          temp,       \* the copy being published, per call
          released,   \* the directory releases/<id>, per call
          pointer,    \* ACTIVE_RELEASE.json, per call
          protected,  \* version of the formal CSV files and the runtime database
          before,     \* what the suite hashed of them
          summary     \* status of DRY_RUN.json

rvars == <<stage, call, callStep, rebuild, tampered, manifest, batch, approvals,
           attempts, temp, released, pointer, protected, before, summary>>

Calls == <<"nonpublisher", "unapproved", "tampered", "active">>
Roots == {Calls[i] : i \in DOMAIN Calls}
Built == [sha |-> 1, files |-> 1]
Verifies(c) == c.sha = c.files        \* verify_candidate

(* No text, and no candidate, is nothing at all. *)
ASSUME NoneIsNothing ==
    /\ None \notin {"PUBLISHER_ROLE_REQUIRED", "OWNER_APPROVAL_REQUIRED",
                    "MANIFEST_APPROVAL_MISMATCH", "PASS"}
    /\ None \notin [sha : Nat, files : Nat]

PipelineInit ==
    /\ stage = "start" /\ call = 1 /\ callStep = "verify"
    /\ rebuild = None /\ tampered = None /\ manifest = None
    /\ batch = [status |-> None, sha |-> None]
    /\ approvals = {} /\ attempts = {}
    /\ temp = [r \in Roots |-> None]
    /\ released = [r \in Roots |-> None]
    /\ pointer = [r \in Roots |-> None]
    /\ protected = 1 /\ before = None /\ summary = None

-----------------------------------------------------------------------------
(* evaluate_scenario: the first of three tests that a dataset fails blocks    *)
(* the release; the secondary source never takes the place of the primary.    *)
Datasets  == {"DAILY_TEST", "MACRO_TEST", "MASTER_TEST"}
Scenarios == {"READY", "PRIMARY_UNAVAILABLE", "CONFLICT", "STALE"}

PrimaryAvailable(s, d) == ~ (s = "PRIMARY_UNAVAILABLE" /\ d = "DAILY_TEST")
SourcesAgree(s, d)     == ~ (s = "CONFLICT" /\ d = "DAILY_TEST")
Fresh(s, d)            == ~ (s = "STALE" /\ d = "MACRO_TEST")

ReleaseAllowed(s) ==
    \A d \in Datasets :
        PrimaryAvailable(s, d) /\ SourcesAgree(s, d) /\ Fresh(s, d)

Unchanged == UNCHANGED <<rebuild, tampered, manifest, batch, approvals, attempts,
                         temp, released, pointer, protected, before, summary>>

(* The output directory must be new; the formal files are hashed first. *)
StartSuite ==
    /\ stage = "start"
    /\ before' = protected
    /\ stage' = "scenarios"
    /\ UNCHANGED <<call, callStep, rebuild, tampered, manifest, batch, approvals,
                   attempts, temp, released, pointer, protected, summary>>

EvaluateScenarios ==
    /\ stage = "scenarios"
    /\ \A s \in Scenarios : ReleaseAllowed(s) <=> s = "READY"
    /\ stage' = "build"
    /\ Unchanged /\ UNCHANGED <<call, callStep>>

(* Built twice and compared (rebuild_b is not used again), then registered. *)
BuildCandidate ==
    /\ stage = "build"
    /\ rebuild' = Built
    /\ stage' = "register"
    /\ UNCHANGED <<call, callStep, tampered, manifest, batch, approvals, attempts, temp,
                   released, pointer, protected, before, summary>>

RegisterRelease ==
    /\ stage = "register"
    /\ batch' = [status |-> "READY_FOR_REVIEW", sha |-> Built.sha]
    /\ stage' = "publish"
    /\ UNCHANGED <<call, callStep, rebuild, tampered, manifest, approvals, attempts,
                   temp, released, pointer, protected, before, summary>>

-----------------------------------------------------------------------------
(* publish_test, called for Calls[call] with a target directory of its own.   *)
Root      == Calls[call]
Source    == IF Root = "tampered" THEN tampered ELSE rebuild
Publisher == Root # "nonpublisher"
Expected  == CASE Root = "nonpublisher" -> "AuthorizationError"
               [] Root \in {"unapproved", "tampered"} -> "ApprovalError"
               [] Root = "active" -> "none"

At(s) == stage = "publish" /\ callStep = s
CallGoesTo(s) == callStep' = s /\ UNCHANGED <<stage, call>>

(* What run_suite does when the call raised e ("none": it returned): it goes  *)
(* on unless e is an exception it did not expect, and approves the release    *)
(* after the second call.                                                     *)
Returns(e) ==
    IF e \notin {Expected, "none"}
    THEN /\ stage' = "failed"
         /\ UNCHANGED <<call, callStep, batch, approvals, tampered>>
    ELSE /\ callStep' = "verify"
         /\ call' = IF call = 4 THEN call ELSE call + 1
         /\ stage' = IF call = 4 THEN "compare" ELSE stage
         /\ IF Root = "unapproved"
            THEN /\ approvals' = approvals \cup {Built.sha}
                 /\ batch' = [batch EXCEPT !.status = "APPROVED"]
                 /\ tampered' = [rebuild EXCEPT !.files = 0]
            ELSE UNCHANGED <<approvals, batch, tampered>>

Attempt(code) == attempts' = attempts \cup {<<Root, code>>}

(* Mutant: the status of the batch is not asked for.                          *)
RefusalsAnyStatus(m) ==
    IF ~ Publisher THEN <<"PUBLISHER_ROLE_REQUIRED", "AuthorizationError">>
    ELSE IF m.sha \notin approvals \/ batch.sha # m.sha
         THEN <<"MANIFEST_APPROVAL_MISMATCH", "ApprovalError">>
    ELSE <<None, None>>

(* Every refusal is recorded before it is raised.  The registered row is      *)
(* found by the release id, which a reissued manifest keeps.                  *)
Refusals(m) ==
    IF ~ Publisher THEN <<"PUBLISHER_ROLE_REQUIRED", "AuthorizationError">>
    ELSE IF batch.status # "APPROVED" THEN <<"OWNER_APPROVAL_REQUIRED", "ApprovalError">>
    ELSE IF m.sha \notin approvals \/ batch.sha # m.sha
         THEN <<"MANIFEST_APPROVAL_MISMATCH", "ApprovalError">>
    ELSE <<None, None>>

VerifyAndAuthorize ==
    /\ At("verify")
    /\ IF ~ Verifies(Source)
       THEN Attempt("CANDIDATE_HASH_MISMATCH") /\ Returns("ApprovalError")
              /\ UNCHANGED manifest
       ELSE IF Refusals(Source)[1] # None
       THEN Attempt(Refusals(Source)[1]) /\ Returns(Refusals(Source)[2])
              /\ UNCHANGED manifest
       ELSE /\ manifest' = Source
            /\ CallGoesTo("copy")
            /\ UNCHANGED <<attempts, batch, approvals, tampered>>
    /\ UNCHANGED <<rebuild, temp, released, pointer, protected, before, summary>>

CopyTree ==
    /\ At("copy")
    /\ released[Root] = None /\ temp[Root] = None
    /\ temp' = [temp EXCEPT ![Root] = Source]
    /\ CallGoesTo("verify copy")
    /\ UNCHANGED <<rebuild, tampered, manifest, batch, approvals, attempts,
                   released, pointer, protected, before, summary>>

(* Mutant: the copy is put in place unseen.                                   *)
PlaceCopy ==
    /\ At("verify copy")
    /\ released' = [released EXCEPT ![Root] = temp[Root]]
    /\ temp' = [temp EXCEPT ![Root] = None]
    /\ CallGoesTo("pointer")
    /\ UNCHANGED <<batch, approvals, tampered, rebuild, manifest, attempts,
                   pointer, protected, before, summary>>

(* The copy is compared with its own manifest, and stays when it is refused. *)
VerifyCopy ==
    /\ At("verify copy")
    /\ IF Verifies(temp[Root])
       THEN /\ released' = [released EXCEPT ![Root] = temp[Root]]
            /\ temp' = [temp EXCEPT ![Root] = None]
            /\ CallGoesTo("pointer")
            /\ UNCHANGED <<batch, approvals, tampered>>
       ELSE Returns("ApprovalError") /\ UNCHANGED <<released, temp>>
    /\ UNCHANGED <<rebuild, manifest, attempts, pointer, protected, before, summary>>

ReplacePointer ==
    /\ At("pointer")
    /\ pointer' = [pointer EXCEPT ![Root] = manifest.sha]
    /\ CallGoesTo("activate")
    /\ UNCHANGED <<rebuild, tampered, manifest, batch, approvals, attempts, temp,
                   released, protected, before, summary>>

Activate ==
    /\ At("activate")
    /\ batch' = [batch EXCEPT !.status = "ACTIVE"]
    /\ CallGoesTo("attempt")
    /\ UNCHANGED <<rebuild, tampered, manifest, approvals, attempts, temp,
                   released, pointer, protected, before, summary>>

RecordPass ==
    /\ At("attempt")
    /\ Attempt("PASS")
    /\ Returns("none")
    /\ UNCHANGED <<rebuild, manifest, temp, released, pointer, protected, before, summary>>

-----------------------------------------------------------------------------
(* The formal files are hashed again; a summary is only written if they match. *)
Summarise ==
    /\ stage = "compare"
    /\ IF protected = before
       THEN summary' = "PASS" /\ stage' = "done"
       ELSE summary' = summary /\ stage' = "failed"
    /\ UNCHANGED <<call, callStep, rebuild, tampered, manifest, batch, approvals,
                   attempts, temp, released, pointer, protected, before>>

Running == stage \notin {"start", "done", "failed"}

KillSuite ==
    /\ Running
    /\ stage' = "failed"
    /\ Unchanged /\ UNCHANGED <<call, callStep>>

(* An edit, a reissue, or the candidate put back as it was built. *)
EditCandidate ==
    /\ rebuild # None /\ Running
    /\ rebuild' \in {Built, [Built EXCEPT !.files = 2], [sha |-> 2, files |-> 2]}
    /\ UNCHANGED <<stage, call, callStep, tampered, manifest, batch, approvals,
                   attempts, temp, released, pointer, protected, before, summary>>

FormalPublish ==
    /\ protected = 1
    /\ protected' = 2
    /\ UNCHANGED <<stage, call, callStep, rebuild, tampered, manifest, batch,
                   approvals, attempts, temp, released, pointer, before, summary>>

PipelineNext ==
    \/ StartSuite \/ EvaluateScenarios \/ BuildCandidate \/ RegisterRelease
    \/ VerifyAndAuthorize \/ CopyTree \/ VerifyCopy \/ ReplacePointer
    \/ Activate \/ RecordPass \/ Summarise
    \/ KillSuite \/ EditCandidate \/ FormalPublish

ReleaseSpec == PipelineInit /\ [][PipelineNext]_rvars

-----------------------------------------------------------------------------
(* Whatever happens to the candidate between the checks, and wherever the     *)
(* process is killed: a pointer exists only in the directory of the fourth    *)
(* call, names a hash the owner approved, and the release directory beside it *)
(* is complete and agrees with its own manifest.  (Which manifest that is,    *)
(* nothing checks: see the README.)                                           *)
OnlyApprovedIsPointedAt ==
    \A r \in Roots : pointer[r] # None =>
        /\ r = "active"
        /\ pointer[r] \in approvals
        /\ released[r] # None
        /\ Verifies(released[r])

(* A PASS summary says that three calls were refused and the fourth published *)
(* what is registered: run_suite only compares the class of the exception, and*)
(* ApprovalError stands for four of them.  The first and the third refusal    *)
(* have their own reason.  The second may have met an edited file in place of *)
(* the missing approval, when the edit was put back before the fourth call;   *)
(* a mismatch with the approval it cannot have met.                           *)
PassMeansThreeRefusals ==
    summary = "PASS" =>
        /\ \E reason \in {"OWNER_APPROVAL_REQUIRED", "CANDIDATE_HASH_MISMATCH"} :
              attempts = {<<"nonpublisher", "PUBLISHER_ROLE_REQUIRED">>,
                          <<"unapproved", reason>>,
                          <<"tampered", "CANDIDATE_HASH_MISMATCH">>,
                          <<"active", "PASS">>}
        /\ batch.status = "ACTIVE"
        /\ pointer["active"] = batch.sha

-----------------------------------------------------------------------------
============================================================================
