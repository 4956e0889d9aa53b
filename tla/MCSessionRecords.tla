-------------------------- MODULE MCSessionRecords --------------------------
(***************************************************************************)
(* Small instances of SessionRecords for TLC.                              *)
(***************************************************************************)
EXTENDS SessionRecords

\* Calls of chat() are interchangeable identities.
Symmetry == Permutations(Chats)
=============================================================================
