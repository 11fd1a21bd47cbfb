---------------------------- MODULE MCJobManager ----------------------------
(* The bounds of JobManager are numbers and stand in the configurations.      *)
EXTENDS JobManager

============================================================================
