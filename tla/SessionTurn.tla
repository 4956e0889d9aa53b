---------------------------- MODULE SessionTurn ----------------------------
(***************************************************************************)
(* What a session promises about its turn, the right to run rounds and to  *)
(* call tools on it: one run at a time; a user's chat may take the turn     *)
(* over, a resume takes it only when it is free.                           *)
(***************************************************************************)
CONSTANTS Sessions, Runs, NoRun

VARIABLE turn   \* [Sessions -> [run, resume]]

Free == [run |-> NoRun, resume |-> FALSE]

Init == turn = [s \in Sessions |-> Free]

Elsewhere(s, r) == \E t \in Sessions \ {s} : turn[t].run = r

UserTurn(s, r) ==
    /\ ~Elsewhere(s, r)
    /\ turn' = [turn EXCEPT ![s] = [run |-> r, resume |-> FALSE]]

ResumeTurn(s, r) ==
    /\ turn[s] = Free
    /\ ~Elsewhere(s, r)
    /\ turn' = [turn EXCEPT ![s] = [run |-> r, resume |-> TRUE]]

EndTurn(s) == turn' = [turn EXCEPT ![s] = Free]

Next ==
    \E s \in Sessions :
        \/ \E r \in Runs : UserTurn(s, r) \/ ResumeTurn(s, r)
        \/ EndTurn(s)

Spec == Init /\ [][Next]_turn
=============================================================================
