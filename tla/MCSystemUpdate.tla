--------------------------- MODULE MCSystemUpdate ---------------------------
(* Instances of SystemUpdate for TLC. *)
EXTENDS SystemUpdate

=============================================================================
