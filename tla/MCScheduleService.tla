-------------------------- MODULE MCScheduleService --------------------------
(***************************************************************************)
(* Instances of ScheduleService for TLC.                                   *)
(***************************************************************************)
EXTENDS ScheduleService, TLC

Symmetry == Permutations(Jobs) \cup Permutations(Runs) \cup Permutations(Ticks)
=============================================================================
