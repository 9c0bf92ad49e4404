------------------------------ MODULE MCRunState ------------------------------
(* Model values for RunState. *)
EXTENDS RunState, TLC

TaskSymmetry == Permutations(Tasks)
==============================================================================
