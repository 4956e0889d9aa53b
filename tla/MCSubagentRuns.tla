--------------------------- MODULE MCSubagentRuns ---------------------------
(***************************************************************************)
(* Small instances of SubagentRuns for TLC.                                *)
(***************************************************************************)
EXTENDS SubagentRuns, TLC

\* One task, so that all calls compete for it.
OneTask == {[label |-> "a", role |-> "x"]}

\* Calls and chats are interchangeable identities, and so are fresh rows.
Symmetry == Permutations(Workers) \cup Permutations(Turns) \cup Permutations(Rows)
=============================================================================
