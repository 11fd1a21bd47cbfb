--------------------------- MODULE AuthorityUnit ---------------------------
(***************************************************************************)
(* What a publisher of P1008 promises about the formal authority: the      *)
(* formal CSV files and the entries CSV_AUTHORITY_MANIFEST.json keeps for   *)
(* them (SHA-256, row count) form one unit.  A publish changes the files    *)
(* of a set of targets and their attestations together.                     *)
(*                                                                         *)
(* Break is the one exception: a process that dies between two file         *)
(* operations, or a restoration that fails, leaves files no entry attests.  *)
(* "broken" says that this has happened; it never becomes FALSE again.      *)
(***************************************************************************)

CONSTANTS
  Targets,   \* the formal CSV files
  Contents   \* what a formal CSV file can hold

VARIABLES
  file,      \* what each formal CSV holds
  attested,  \* the content whose digest the manifest records for it
  broken     \* some publisher died or failed to restore

vars == <<file, attested, broken>>

Init ==
  /\ file \in [Targets -> Contents]
  /\ attested = file
  /\ broken = FALSE

\* One publish: the files of S and their attestations change in one step.
Publish(S) ==
  /\ file' \in [Targets -> Contents]
  /\ attested' = [t \in Targets |-> IF t \in S THEN file'[t] ELSE attested[t]]
  /\ \A t \in Targets \ S : file'[t] = file[t]
  /\ UNCHANGED broken

\* A publish of the files of S that died, or whose restoration failed: no promise
\* about these files any more, but none of the others is touched.
Break(S) ==
  /\ file' \in [Targets -> Contents]
  /\ attested' \in [Targets -> Contents]
  /\ \A t \in Targets \ S : file'[t] = file[t] /\ attested'[t] = attested[t]
  /\ broken' = TRUE

Next ==
  \/ \E S \in SUBSET Targets : Publish(S)
  \/ \E S \in SUBSET Targets : Break(S)

Spec == Init /\ [][Next]_vars

============================================================================
