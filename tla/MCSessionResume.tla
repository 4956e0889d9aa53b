-------------------------- MODULE MCSessionResume --------------------------
(***************************************************************************)
(* Small instances of SessionResume for TLC.                               *)
(***************************************************************************)
EXTENDS SessionResume, TLC

\* Runs and jobs are interchangeable identities.
Symmetry == Permutations(Runs) \cup Permutations(Jobs)
=============================================================================
