-------------------------- MODULE ReportProduction -------------------------
(* Phase B1: from a resolved trigger and the formal CSVs to an analysis run   *)
(* and from there to a report candidate.  A run directory is named by a hash  *)
(* of the trigger receipt and the authority manifest.  Meanwhile the formal   *)
(* files and their manifest are published and rolled back, another trigger    *)
(* comes to stand, builders overlap, and each may be killed at any step.      *)
EXTENDS Naturals

CONSTANTS Triggers, Quarterly,   \* receipts; those of them about a quarter
          Versions,              \* contents the formal files may have
          Builders,
          MaxChanges,            \* bound on the publishers' changes
          Unset                  \* no run, no hashes yet

VARIABLES authority,   \* the version of the files and the one the manifest states
          changes,     \* how often one of them was changed
          runs,        \* per trigger and manifest version: the run directory
          builder      \* per builder: its step, its run and what it saw before

pvars == <<authority, changes, runs, builder>>

RunIds == Triggers \X Versions
NoRun == [state |-> "none", built |-> Unset, hashes |-> Unset, output |-> FALSE,
          moved |-> FALSE]
IdleBuilder ==
    [pc |-> "idle", id |-> Unset, before |-> Unset, built |-> Unset, replay |-> FALSE,
     moved |-> FALSE]

ProductionInit ==
    /\ \E v \in Versions : authority = [files |-> v, stated |-> v]
    /\ changes = 0
    /\ runs = [id \in RunIds |-> NoRun]
    /\ builder = [b \in Builders |-> IdleBuilder]

-----------------------------------------------------------------------------
(* The publishers replace a formal file, then the manifest; a rollback goes   *)
(* through the same pair.  A builder whose checkpoint one falls into does not *)
(* learn of it (moved is history); for one that records nothing it does not   *)
(* matter.  A hash taken between the two shows one version of each.           *)
Checking == {"rebuilding", "rebuilt"}
Change ==
    /\ changes < MaxChanges
    /\ changes' = changes + 1
    /\ builder' = [b \in Builders |->
                      IF builder[b].pc \in Checking /\ ~ builder[b].replay
                      THEN [builder[b] EXCEPT !.moved = TRUE] ELSE builder[b]]
    /\ UNCHANGED runs

PublishFormalFiles ==
    /\ authority.files = authority.stated
    /\ \E v \in Versions \ {authority.files} : authority' = [authority EXCEPT !.files = v]
    /\ Change

PublishAuthority ==
    /\ authority.files # authority.stated
    /\ \/ authority' = [authority EXCEPT !.stated = authority.files]
       \/ authority' = [authority EXCEPT !.files = authority.stated]
    /\ Change

-----------------------------------------------------------------------------
GiveUp(b) == builder' = [builder EXCEPT ![b] = IdleBuilder]
Step(b, pc) == builder' = [builder EXCEPT ![b].pc = pc]
Run(b) == runs[builder[b].id]
SetRun(b, run) == runs' = [runs EXCEPT ![builder[b].id] = run]

(* load_inputs and deterministic_run_id, for the trigger that stands now. *)
NameRun(b) ==
    /\ builder[b].pc = "idle"
    /\ \E trigger \in Triggers :
          builder' = [builder EXCEPT ![b].pc = "named",
                                     ![b].id = <<trigger, authority.stated>>]
    /\ UNCHANGED <<authority, changes, runs>>

(* build_analysis: a run that is there is looked over and left as it is; a new *)
(* one begins with the hashes of the protected files.  Nobody reads what is   *)
(* written into its directory before the run manifest is.                     *)
OpenRun(b) ==
    /\ builder[b].pc = "named"
    /\ IF Run(b).state # "none"
       THEN GiveUp(b) /\ runs' = runs
       ELSE /\ SetRun(b, [NoRun EXCEPT !.state = "open"])
            /\ builder' = [builder EXCEPT ![b].pc = "opened", ![b].before = authority]
    /\ UNCHANGED <<authority, changes>>

(* The authority adapter refuses a file that its manifest does not state. *)
Analyse(b) ==
    /\ builder[b].pc = "opened"
    /\ IF authority.files # authority.stated
       THEN GiveUp(b)
       ELSE builder' = [builder EXCEPT ![b].pc = "analysed", ![b].built = authority.stated]
    /\ UNCHANGED <<authority, changes, runs>>

HashAfter(b) ==
    /\ builder[b].pc = "analysed"
    /\ IF authority = builder[b].before THEN Step(b, "hashed") ELSE GiveUp(b)
    /\ UNCHANGED <<authority, changes, runs>>

RecordAnalysis(b) ==
    /\ builder[b].pc = "hashed"
    /\ SetRun(b, [Run(b) EXCEPT !.state = "analysis", !.built = builder[b].built,
                                !.hashes = builder[b].before])
    /\ GiveUp(b)
    /\ UNCHANGED <<authority, changes>>

-----------------------------------------------------------------------------
Recorded(run) == run.state \in {"report", "review"}

(* _analysis_run_id and build_report up to its checkpoint: the run found for  *)
(* the trigger must be the one that the present manifest names.  For a        *)
(* quarter the checkpoint begins with what the run's own manifest says.       *)
FindRun(b) ==
    /\ builder[b].pc = "idle"
    /\ \E trigger \in Triggers :
          LET id  == <<trigger, authority.stated>>
              run == runs[id]
          IN  /\ run.state = "analysis" \/ (trigger \in Quarterly /\ Recorded(run))
              /\ builder' = [builder EXCEPT
                     ![b].pc = IF trigger \in Quarterly THEN "read" ELSE "checkpointed",
                     ![b].id = id, ![b].replay = Recorded(run)]
    /\ UNCHANGED <<authority, changes, runs>>

(* Mutant: the label of the run is believed.                                  *)
BelieveLabel(b) ==
    /\ builder[b].pc = "read"
    /\ Step(b, "rebuilding")
    /\ UNCHANGED <<authority, changes, runs>>

(* _validate_quarterly_checkpoint does not believe that label.  It computes   *)
(* the id once more, rebuilds the analysis from the files that are there now, *)
(* hashes the protected files, and compares all of it with the run, each at   *)
(* its own time; an output nobody recorded is a mismatch.  A second hash      *)
(* follows the first and can only refuse what that let pass.                  *)
RecomputeId(b) ==
    /\ builder[b].pc = "read"
    /\ IF authority.stated = builder[b].id[2] THEN Step(b, "rebuilding") ELSE GiveUp(b)
    /\ UNCHANGED <<authority, changes, runs>>

Rebuild(b) ==
    /\ builder[b].pc = "rebuilding"
    /\ IF authority.files = authority.stated /\ Run(b).built = authority.stated
       THEN Step(b, "rebuilt") ELSE GiveUp(b)
    /\ UNCHANGED <<authority, changes, runs>>

HashAgain(b) ==
    /\ builder[b].pc = "rebuilt"
    /\ IF Run(b).hashes = authority /\ Run(b).output = builder[b].replay
       THEN Step(b, "checkpointed") ELSE GiveUp(b)
    /\ UNCHANGED <<authority, changes, runs>>

(* build_report reads the run manifest for itself, and hashes before it       *)
(* compiles.                                                                  *)
HashBefore(b) ==
    /\ builder[b].pc = "checkpointed"
    /\ IF Run(b).state = "analysis" \/ (builder[b].id[1] \in Quarterly /\ Recorded(Run(b)))
       THEN builder' = [builder EXCEPT ![b].pc = "compiling", ![b].before = authority,
                                       ![b].replay = Recorded(Run(b))]
       ELSE GiveUp(b)
    /\ UNCHANGED <<authority, changes, runs>>

(* Mutant: a candidate that is there is written over.                         *)
CompileOver(b) ==
    /\ builder[b].pc = "compiling"
    /\ SetRun(b, [Run(b) EXCEPT !.output = TRUE]) /\ Step(b, "compiled")
    /\ UNCHANGED <<authority, changes>>

(* The candidate is there exactly when the run is replayed; replayed, it is   *)
(* compared and not written.                                                  *)
Compile(b) ==
    /\ builder[b].pc = "compiling"
    /\ IF Run(b).output # builder[b].replay
       THEN GiveUp(b) /\ runs' = runs
       ELSE SetRun(b, [Run(b) EXCEPT !.output = TRUE]) /\ Step(b, "compiled")
    /\ UNCHANGED <<authority, changes>>

(* The monthly builder replaces the hashes taken after the analysis by its    *)
(* own; the quarterly one compares with them.                                 *)
CheckProtected(b) ==
    /\ builder[b].pc = "compiled"
    /\ LET quarterly == builder[b].id[1] \in Quarterly
           same == authority = builder[b].before
       IN  /\ IF quarterly THEN runs' = runs ELSE SetRun(b, [Run(b) EXCEPT !.hashes = authority])
           /\ IF same /\ (quarterly => Run(b).hashes = authority)
              THEN Step(b, "checked") ELSE GiveUp(b)
    /\ UNCHANGED <<authority, changes>>

RecordReport(b) ==
    /\ builder[b].pc = "checked"
    /\ IF builder[b].replay THEN runs' = runs
       ELSE SetRun(b, [Run(b) EXCEPT !.state = "report", !.moved = builder[b].moved])
    /\ IF builder[b].id[1] \in Quarterly THEN Step(b, "recorded") ELSE GiveUp(b)
    /\ UNCHANGED <<authority, changes>>

(* complete_quarterly_report (see ReportLibrary) ends with the run's state. *)
Complete(b) ==
    /\ builder[b].pc = "recorded"
    /\ SetRun(b, [Run(b) EXCEPT !.state = "review"])
    /\ GiveUp(b)
    /\ UNCHANGED <<authority, changes>>

(* A killed or refused builder leaves its directory as it is. *)
KillBuilder(b) ==
    /\ builder[b].pc # "idle"
    /\ GiveUp(b)
    /\ UNCHANGED <<authority, changes, runs>>

ProductionNext ==
    \/ PublishFormalFiles \/ PublishAuthority
    \/ \E b \in Builders :
          \/ NameRun(b) \/ OpenRun(b) \/ Analyse(b) \/ HashAfter(b) \/ RecordAnalysis(b)
          \/ FindRun(b) \/ RecomputeId(b) \/ Rebuild(b) \/ HashAgain(b) \/ HashBefore(b)
          \/ Compile(b) \/ CheckProtected(b) \/ RecordReport(b) \/ Complete(b) \/ KillBuilder(b)

ProductionSpec == ProductionInit /\ [][ProductionNext]_pvars

-----------------------------------------------------------------------------
(* A quarterly report rests on the analysis of the formal files that its run  *)
(* id names, although the id, the hashes and the files are read at different  *)
(* times while publishers replace the files and roll them back: the run may   *)
(* have been named, built and hashed under any of them.  The checkpoint finds *)
(* that out, unless a publisher changes the files or the manifest within the  *)
(* checkpoint itself, between the id and the last hash.  A version that is    *)
(* published again just then passes for what the run is named after.          *)
ReportRestsOnNamedAuthority ==
    \A id \in DOMAIN runs :
        id[1] \in Quarterly /\ Recorded(runs[id]) /\ ~ runs[id].moved
            => runs[id].built = id[2] /\ runs[id].hashes.files = id[2]

(* A candidate under the owner's review is never taken back to an earlier     *)
(* state by a builder that found the run before it was completed.             *)
ReviewIsNotTakenBack ==
    \A id \in DOMAIN runs : runs[id].state = "review" => runs'[id].state = "review"
ReviewIsNeverTakenBack == [][ReviewIsNotTakenBack]_pvars
=============================================================================
