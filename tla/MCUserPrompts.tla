--------------------------- MODULE MCUserPrompts ---------------------------
(***************************************************************************)
(* Small instances of UserPrompts for TLC.                                 *)
(***************************************************************************)
EXTENDS UserPrompts, TLC

\* Runs and calls are interchangeable identities.
Symmetry == Permutations(Runs) \cup Permutations(Calls)
=============================================================================
