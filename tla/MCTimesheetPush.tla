-------------------------- MODULE MCTimesheetPush --------------------------
(***************************************************************************)
(* Instances of TimesheetPush for TLC; processes are interchangeable.      *)
(***************************************************************************)
EXTENDS TimesheetPush, TLC

ProcessSymmetry == Permutations(Process)
=============================================================================
