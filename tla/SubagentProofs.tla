--------------------------- MODULE SubagentProofs ---------------------------
(***************************************************************************)
(* The safety of SubagentRuns, for every set of runs, calls, chats and tasks. *)
(***************************************************************************)
EXTENDS SubagentRuns, TLAPS

-----------------------------------------------------------------------------
(***************************************************************************)
(* What the helpers of the actions return.                                 *)
(***************************************************************************)
LEMMA CutType ==
    ASSUME NEW ws \in [Workers -> Worker], NEW t \in Turns \cup {NoTurn}
    PROVE  Cut(t, ws) \in [Workers -> Worker]
BY ZenonT(30) DEF Cut, Worker

LEMMA AbortChildrenType ==
    ASSUME NEW ws \in [Workers -> Worker], NEW R
    PROVE  AbortChildren(R, ws) \in [Workers -> Worker]
BY DEF AbortChildren, Worker

LEMMA AbortTurnType ==
    ASSUME turns \in [Turns -> TurnRecord], NEW t
    PROVE  AbortTurn(t) \in [Turns -> TurnRecord]
BY DEF AbortTurn, TurnRecord

LEMMA MarkedType ==
    ASSUME rows \in [Rows -> Row], NEW R, NEW status \in Ended
    PROVE  Marked(R, status) \in [Rows -> Row]
BY DEF Marked, Row, Stored

LEMMA IdleType == IdleWorker \in Worker /\ IdleTurn \in TurnRecord
BY DEF IdleWorker, IdleTurn, TurnRecord, Worker, AnyMode

LEMMA TurnEdits ==
    /\ \A ph \in {"idle", "live", "aborted", "stopped"}, k \in Rows \cup {NoRow} :
          [phase |-> ph, wake |-> k] \in TurnRecord
    /\ \A c \in TurnRecord, ph \in {"aborted", "stopped"} : [c EXCEPT !.phase = ph] \in TurnRecord
    /\ \A c \in TurnRecord : c.wake \in Rows \cup {NoRow}
BY DEF TurnRecord

LEMMA WorkerEdits ==
    ASSUME NEW v \in Worker
    PROVE  /\ [v EXCEPT !.pc = "creating"] \in Worker
           /\ [v EXCEPT !.pc = "second"] \in Worker
           /\ [v EXCEPT !.awaited = FALSE] \in Worker
           /\ [v EXCEPT !.turn = NoTurn] \in Worker
           /\ \A c \in {"opening", "open", "aborted", "valid", "invalid"} :
                 [v EXCEPT !.chat = c] \in Worker
           /\ v.kind \in Kinds \cup {NoKind} /\ v.mode \in AnyMode /\ v.cut \in BOOLEAN
           /\ v.row \in Rows \cup {NoRow}
BY DEF Worker

LEMMA EnteringType ==
    ASSUME TypeOK, NEW w \in Workers, NEW r \in Rows
    PROVE  Entering(w, r) \in Worker
<1>1. workers[w] \in Worker
  BY DEF TypeOK
<1>2. \A v \in Worker : [v EXCEPT !.pc = "first"] \in Worker
  BY DEF Worker
<1>3. \A v \in Worker : [v EXCEPT !.row = r] \in Worker
  BY DEF Worker
<1>4. \A v \in Worker, b \in BOOLEAN : [v EXCEPT !.awaited = b] \in Worker
  BY DEF Worker
<1> DEFINE u == [workers[w] EXCEPT !.pc = "first"]
           v == [u EXCEPT !.row = r]
           b == v.awaited /\ workers[w].mode = "foreground"
<1>5. u \in Worker
  BY <1>1, <1>2
<1> HIDE DEF u
<1>6. v \in Worker
  BY <1>3, <1>5
<1> HIDE DEF v
<1>7. [v EXCEPT !.awaited = b] \in Worker
  BY <1>4, <1>6
<1> QED
  BY <1>7, Zenon DEF Entering, u, v

LEMMA CallingType ==
    ASSUME NEW t \in Turns, NEW pc \in {"naming", "renaming"}, NEW r \in Rows \cup {NoRow},
           NEW k \in Kinds, NEW m \in Modes
    PROVE  Calling(t, pc, r, k, m) \in Worker
BY SubagentAssumption DEF Calling, IdleWorker, Worker, AnyMode

LEMMA RowType ==
    ASSUME NEW s \in {"running", "cancelled"}, NEW k \in Kinds \cup {NoKind}, NEW m \in AnyMode
    PROVE  [status |-> s, kind |-> k, mode |-> m] \in Row
BY DEF Row, Ended

LEMMA NoRunType == NoRun \in Row
BY DEF NoRun, Row, AnyMode

LEMMA ListedType ==
    ASSUME indexed \subseteq Rows PROVE Listed \subseteq Rows
BY DEF Listed, Stored

LEMMA NotedType ==
    ASSUME NEW told \in Notices, NEW R, NEW fate \in {"heard", "cleared", "dropped"}
    PROVE  Noted(told, R, fate) \in Notices
BY DEF Noted, Notices

LEMMA UntoldType ==
    ASSUME TypeOK, NEW r \in Rows PROVE Untold(r) \in Notices
BY DEF Untold, TypeOK, Notices

LEMMA NotifyType ==
    ASSUME TypeOK, NEW R \in SUBSET Rows, NEW told \in Notices, Notify(R, told)
    PROVE  /\ turns' \in [Turns -> TurnRecord]
           /\ current' \in Turns \cup {NoTurn}
           /\ deferred' \in SUBSET Rows /\ inFlight' \in SUBSET Rows /\ notice' \in Notices
<1> DEFINE known == Noted(told, R \cap inFlight, "dropped")
<1>1. known \in Notices /\ \A r \in Rows : Noted(known, {r}, "heard") \in Notices
  BY NotedType
<1> HIDE DEF known
<1>2. \/ /\ notice' = known /\ UNCHANGED <<turns, current, inFlight>>
         /\ deferred' = deferred \/ deferred' = deferred \cup (R \ inFlight)
      \/ \E r \in R, t \in Turns :
            /\ turns' = [turns EXCEPT ![t] = [phase |-> "live", wake |-> r]]
            /\ current' = t /\ inFlight' = inFlight \cup {r}
            /\ deferred' = (deferred \cup (R \ inFlight)) \ {r}
            /\ notice' = Noted(known, {r}, "heard")
  BY DEF Notify, FreeTurns, known
<1>3. \A r \in R, t \in Turns :
         [turns EXCEPT ![t] = [phase |-> "live", wake |-> r]] \in [Turns -> TurnRecord]
  BY TurnEdits DEF TypeOK
<1>4. /\ deferred \subseteq Rows /\ inFlight \subseteq Rows
      /\ turns \in [Turns -> TurnRecord] /\ current \in Turns \cup {NoTurn}
  BY DEF TypeOK
<1>5. CASE notice' = known /\ UNCHANGED <<turns, current, inFlight>>
  BY <1>1, <1>2, <1>4, <1>5
<1>6. CASE \E r \in R, t \in Turns :
            /\ turns' = [turns EXCEPT ![t] = [phase |-> "live", wake |-> r]]
            /\ current' = t /\ inFlight' = inFlight \cup {r}
            /\ deferred' = (deferred \cup (R \ inFlight)) \ {r}
            /\ notice' = Noted(known, {r}, "heard")
  BY <1>1, <1>3, <1>4, <1>6
<1> QED
  BY <1>2, <1>4, <1>5, <1>6

LEMMA RegisteredType ==
    ASSUME TypeOK, NEW w \in Workers, NEW r \in Rows, NEW me \in Worker
    PROVE  Registered(w, r, me) \in [Workers -> Worker]
<1>1. AbortChildren({r}, workers) \in [Workers -> Worker]
  BY AbortChildrenType DEF TypeOK
<1>2. [me EXCEPT !.chat = IF me.cut THEN "aborted" ELSE "open"] \in Worker
  BY DEF Worker
<1> QED
  BY <1>1, <1>2 DEF Registered

LEMMA DoneType ==
    ASSUME TypeOK, NEW w \in Workers, Done(w)
    PROVE  workers' \in [Workers -> Worker] /\ chatOf' \in [Rows -> Workers \cup {NoWorker}]
BY IdleType DEF Done, TypeOK

\* A run that ends leaves the parent's session and the children's records alone.
LEMMA SettleType ==
    ASSUME TypeOK, NEW w \in Workers, workers[w].row \in Rows, NEW status \in Ended,
           Settle(w, status), alive' = alive, child' \in [Rows -> {"none", "fresh", "used"}],
           UNCHANGED bounds
    PROVE  TypeOK'
<1>1. workers' \in [Workers -> Worker] /\ chatOf' \in [Rows -> Workers \cup {NoWorker}]
  BY DoneType DEF Settle
<1>2. rows' \in [Rows -> Row] /\ indexed' \subseteq Rows
  BY MarkedType DEF Settle, TypeOK, Stored
<1>3. Background({workers[w].row} \cap Stored) \in SUBSET Rows /\ notice \in Notices
  BY DEF Background, Stored, TypeOK
<1>4. /\ turns' \in [Turns -> TurnRecord] /\ current' \in Turns \cup {NoTurn}
      /\ deferred' \in SUBSET Rows /\ inFlight' \in SUBSET Rows /\ notice' \in Notices
  BY <1>3, NotifyType DEF Settle
<1> QED
  BY <1>1, <1>2, <1>4 DEF TypeOK, bounds

LEMMA ExecuteType ==
    ASSUME TypeOK, NEW w \in Workers, NEW r \in Rows, NEW me \in Worker,
           NEW told \in Notices, Execute(w, r, me, told),
           alive' = alive, indexed' \subseteq Rows,
           child' \in [Rows -> {"none", "fresh", "used"}], UNCHANGED bounds
    PROVE  TypeOK'
<1>1. /\ me.kind \in Kinds \cup {NoKind} /\ me.mode \in AnyMode
      /\ [me EXCEPT !.chat = "opening"] \in Worker
  BY WorkerEdits
<1>2. CASE me.cut
  <2>1. rows' \in [Rows -> Row]
    BY <1>1, <1>2, RowType DEF Execute, TypeOK
  <2>2. workers' \in [Workers -> Worker]
    BY <1>2, IdleType DEF Execute, TypeOK
  <2>3. (IF me.mode = "background" THEN {r} ELSE {}) \in SUBSET Rows
    OBVIOUS
  <2>4. /\ turns' \in [Turns -> TurnRecord] /\ current' \in Turns \cup {NoTurn}
        /\ deferred' \in SUBSET Rows /\ inFlight' \in SUBSET Rows /\ notice' \in Notices
    BY <1>2, <2>3, NotifyType DEF Execute
  <2> QED
    BY <1>2, <2>1, <2>2, <2>4 DEF Execute, TypeOK, bounds
<1>3. CASE ~me.cut
  <2>1. rows' \in [Rows -> Row]
    BY <1>1, <1>3, RowType DEF Execute, TypeOK
  <2>2. workers' \in [Workers -> Worker] /\ chatOf' \in [Rows -> Workers \cup {NoWorker}]
    <3>1. Registered(w, r, me) \in [Workers -> Worker]
      BY RegisteredType
    <3>2. \/ workers' = Registered(w, r, me) /\ chatOf' = [chatOf EXCEPT ![r] = w]
          \/ workers' = [workers EXCEPT ![w] = [me EXCEPT !.chat = "opening"]] /\ UNCHANGED chatOf
      BY <1>3 DEF Execute
    <3> QED
      BY <1>1, <3>1, <3>2 DEF TypeOK
  <2> QED
    BY <1>3, <2>1, <2>2 DEF Execute, TypeOK, bounds
<1> QED
  BY <1>2, <1>3

LEMMA LeaveTurnType ==
    ASSUME TypeOK, NEW t \in Turns, LeaveTurn(t)
    PROVE  TypeOK'
<1>1. turns' \in [Turns -> TurnRecord] /\ current' \in Turns \cup {NoTurn}
  BY IdleType DEF LeaveTurn, TypeOK
<1>2. workers' \in [Workers -> Worker]
  BY WorkerEdits DEF LeaveTurn, TypeOK
<1> QED
  BY <1>1, <1>2 DEF LeaveTurn, rowVars, bounds, TypeOK

\* A step keeps the types, as long as a call that executes has a row.
LEMMA TypeOKStep ==
    ASSUME TypeOK, ExecutesOne, [Next]_vars
    PROVE  TypeOK'
<1>1. ASSUME NEW t \in Turns, OpenChat(t) PROVE TypeOK'
  <2>1. /\ AbortTurn(current) \in [Turns -> TurnRecord] /\ current \in Turns \cup {NoTurn}
        /\ [phase |-> "live", wake |-> NoRow] \in TurnRecord
    BY AbortTurnType, TurnEdits DEF TypeOK
  <2>2. Cut(current, workers) \in [Workers -> Worker]
    BY <2>1, CutType DEF TypeOK
  <2>3. Noted(notice, deferred, "cleared") \in Notices
    BY NotedType DEF TypeOK
  <2> QED
    BY <1>1, <2>1, <2>2, <2>3 DEF OpenChat, ClearBus, rowVars, bounds, TypeOK
<1>2. ASSUME NEW t \in Turns, EndTurn(t) PROVE TypeOK'
  <2>1. LeaveTurn(t)
    BY <1>2 DEF EndTurn
  <2> QED
    BY <2>1, LeaveTurnType
<1>3. ASSUME NEW t \in Turns, Unwind(t) PROVE TypeOK'
  <2>1. /\ AbortChildren(RunningListed, workers) \in [Workers -> Worker]
        /\ Marked(RunningListed, "cancelled") \in [Rows -> Row] /\ Listed \subseteq Rows
        /\ Background(RunningListed) \subseteq Rows
    BY AbortChildrenType, MarkedType, ListedType DEF TypeOK, Ended, Background, RunningListed
  <2>2. turns' \in [Turns -> TurnRecord] /\ current' \in Turns \cup {NoTurn}
    <3> DEFINE stopped == [turns EXCEPT ![t].phase = "stopped"]
    <3>1. stopped \in [Turns -> TurnRecord]
      BY TurnEdits DEF TypeOK
    <3>2. \/ turns' = stopped /\ UNCHANGED current
          \/ \E r \in Rows, u \in Turns :
                turns' = [stopped EXCEPT ![u] = [phase |-> "live", wake |-> r]] /\ current' = u
      <4>1. CASE alive /\ current = NoTurn /\ Background(RunningListed) \ inFlight # {}
        BY <1>3, <2>1, <4>1 DEF Unwind, FreeTurns, TypeOK
      <4>2. CASE ~(alive /\ current = NoTurn /\ Background(RunningListed) \ inFlight # {})
        BY <1>3, <4>2 DEF Unwind
      <4> QED
        BY <4>1, <4>2
    <3> HIDE DEF stopped
    <3> QED
      BY <3>1, <3>2, TurnEdits DEF TypeOK
  <2>3. notice' \in Notices
    <3> DEFINE known == Noted(notice, deferred \cup Background(RunningListed), "cleared")
    <3>1. known \in Notices /\ \A r : Noted(known, {r}, "heard") \in Notices
      BY NotedType DEF TypeOK
    <3>2. notice' = known \/ \E r : notice' = Noted(known, {r}, "heard")
      BY <1>3 DEF Unwind
    <3> QED
      BY <3>1, <3>2
  <2> QED
    BY <1>3, <2>1, <2>2, <2>3 DEF Unwind, bounds, TypeOK
<1>4. ASSUME NEW t \in Turns, LeaveStopped(t) PROVE TypeOK'
  <2>1. LeaveTurn(t)
    BY <1>4 DEF LeaveStopped
  <2> QED
    BY <2>1, LeaveTurnType
<1>5. ASSUME Stop PROVE TypeOK'
  <2>1. /\ AbortChildren(RunningListed, workers) \in [Workers -> Worker]
        /\ Marked(RunningListed, "cancelled") \in [Rows -> Row] /\ Listed \subseteq Rows
        /\ Background(RunningListed) \subseteq Rows
    BY AbortChildrenType, MarkedType, ListedType DEF TypeOK, Ended, Background, RunningListed
  <2>2. /\ AbortTurn(current) \in [Turns -> TurnRecord]
        /\ Cut(current, AbortChildren(RunningListed, workers)) \in [Workers -> Worker]
    BY <2>1, AbortTurnType, CutType DEF TypeOK
  <2>3. workers' \in [Workers -> Worker]
    BY <1>5, <2>1, <2>2 DEF Stop
  <2>4. /\ turns' \in [Turns -> TurnRecord] /\ current' \in Turns \cup {NoTurn}
        /\ deferred' \subseteq Rows /\ inFlight' \subseteq Rows
    <3> DEFINE news == Background(RunningListed)
    <3>1. \/ /\ \E r \in news, t \in FreeTurns :
                  /\ turns' = [turns EXCEPT ![t] = [phase |-> "aborted", wake |-> r]]
                  /\ current' = t
                  /\ inFlight' = {r}
                  /\ deferred' = news \ {r}
          \/ /\ turns' = AbortTurn(current) /\ inFlight' = {} /\ current' = current
             /\ deferred' = news \/ deferred' = {}
      BY <1>5 DEF Stop
    <3>2. news \subseteq Rows /\ current \in Turns \cup {NoTurn}
      BY <2>1 DEF TypeOK
    <3>3. \A r \in Rows, t \in Turns :
             [turns EXCEPT ![t] = [phase |-> "aborted", wake |-> r]] \in [Turns -> TurnRecord]
      BY TurnEdits DEF TypeOK
    <3>4. FreeTurns \subseteq Turns
      BY DEF FreeTurns
    <3> HIDE DEF news
    <3>5. CASE \E r \in news, t \in FreeTurns :
                 /\ turns' = [turns EXCEPT ![t] = [phase |-> "aborted", wake |-> r]]
                 /\ current' = t
                 /\ inFlight' = {r}
                 /\ deferred' = news \ {r}
      <4>1. PICK r \in news, t \in FreeTurns :
                 /\ turns' = [turns EXCEPT ![t] = [phase |-> "aborted", wake |-> r]]
                 /\ current' = t
                 /\ inFlight' = {r}
                 /\ deferred' = news \ {r}
        BY <3>5
      <4>2. r \in Rows /\ t \in Turns
        BY <3>2, <3>4
      <4> QED
        BY <3>2, <3>3, <4>1, <4>2
    <3>6. CASE /\ turns' = AbortTurn(current) /\ inFlight' = {} /\ current' = current
               /\ deferred' = news \/ deferred' = {}
      BY <2>2, <3>2, <3>6
    <3> QED
      BY <3>1, <3>5, <3>6
  <2>5. notice' \in Notices
    <3> DEFINE known == Noted(notice, deferred, "cleared")
    <3>1. known \in Notices /\ \A r : Noted(known, {r}, "heard") \in Notices
      BY NotedType DEF TypeOK
    <3>2. notice' = known \/ \E r : notice' = Noted(known, {r}, "heard")
      BY <1>5 DEF Stop
    <3> QED
      BY <3>1, <3>2
  <2> QED
    BY <1>5, <2>1, <2>3, <2>4, <2>5 DEF Stop, bounds, TypeOK
<1>6. ASSUME NEW r \in Rows, DeferTimer(r) PROVE TypeOK'
  <2>1. /\ turns' \in [Turns -> TurnRecord] /\ current' \in Turns \cup {NoTurn}
        /\ deferred' \subseteq Rows /\ inFlight' \subseteq Rows
    BY <1>6, TurnEdits DEF DeferTimer, FreeTurns, TypeOK
  <2>2. /\ Noted(notice, {r}, "heard") \in Notices
        /\ Noted(notice, {r} \cap inFlight, "dropped") \in Notices
    BY NotedType DEF TypeOK
  <2>3. notice' \in Notices
    BY <1>6, <2>2 DEF DeferTimer
  <2> QED
    BY <1>6, <2>1, <2>3 DEF DeferTimer, rowVars, bounds, TypeOK
<1>7. ASSUME NEW t \in Turns, NEW w \in Workers, NEW k \in Kinds, NEW m \in Modes, CallRun(t, w, k, m) PROVE TypeOK'
  <2>1. Calling(t, "naming", NoRow, k, m) \in Worker
    BY CallingType
  <2> QED
    BY <1>7, <2>1 DEF CallRun, turnVars, rowVars, busVars, bounds, TypeOK
<1>8. ASSUME NEW t \in Turns, NEW w \in Workers, NEW r \in Rows, NEW k \in Kinds, NEW m \in Modes, CallRestart(t, w, r, k, m) PROVE TypeOK'
  <2>1. Calling(t, "renaming", r, k, m) \in Worker
    BY CallingType
  <2> QED
    BY <1>8, <2>1, SubagentAssumption DEF CallRestart, turnVars, rowVars, busVars, bounds, TypeOK
<1>9. ASSUME NEW w \in Workers, Named(w) PROVE TypeOK'
  <2>1. [workers[w] EXCEPT !.pc = "creating"] \in Worker /\ IdleWorker \in Worker
    BY WorkerEdits, IdleType DEF TypeOK
  <2> QED
    BY <1>9, <2>1, ListedType DEF Named, turnVars, rowVars, busVars, bounds, TypeOK
<1>10. ASSUME NEW w \in Workers, Create(w) PROVE TypeOK'
  <2>1. PICK r \in Fresh : /\ indexed' = indexed \cup {r}
                           /\ child' = [child EXCEPT ![r] = "fresh"]
                           /\ Execute(w, r, Entering(w, r), Untold(r))
    BY <1>10 DEF Create
  <2>2. r \in Rows /\ Entering(w, r) \in Worker /\ Untold(r) \in Notices
    BY EnteringType, UntoldType DEF Fresh, TypeOK
  <2>3. /\ alive' = alive /\ indexed' \subseteq Rows /\ UNCHANGED bounds
        /\ child' \in [Rows -> {"none", "fresh", "used"}]
    BY <1>10, <2>1, <2>2 DEF Create, TypeOK
  <2> QED
    BY <2>1, <2>2, <2>3, ExecuteType
<1>11. ASSUME NEW w \in Workers, Restart(w) PROVE TypeOK'
  <2> DEFINE r == workers[w].row
  <2>1. r \in Rows /\ Entering(w, r) \in Worker /\ Untold(r) \in Notices
    BY <1>11, EnteringType, UntoldType DEF Restart, ExecutesOne, TypeOK
  <2>2. alive' = alive /\ child' = child /\ UNCHANGED bounds
    BY <1>11 DEF Restart
  <2>3. CASE r \in Stored
    <3>1. indexed' = indexed \cup {r} /\ Execute(w, r, Entering(w, r), Untold(r))
      BY <1>11, <2>3 DEF Restart
    <3>2. indexed' \subseteq Rows /\ child' \in [Rows -> {"none", "fresh", "used"}]
      BY <2>1, <2>2, <3>1 DEF TypeOK
    <3> HIDE DEF r
    <3> QED
      BY <2>1, <2>2, <3>1, <3>2, ExecuteType
  <2>4. CASE r \notin Stored
    BY <1>11, <2>4, IdleType DEF Restart, turnVars, rowVars, busVars, bounds, TypeOK
  <2> QED
    BY <2>3, <2>4
<1>12. ASSUME NEW w \in Workers, Timeout(w) PROVE TypeOK'
  <2>1. [workers[w] EXCEPT !.awaited = FALSE] \in Worker
    BY WorkerEdits DEF TypeOK
  <2> QED
    BY <1>12, <2>1 DEF Timeout, turnVars, rowVars, busVars, bounds, TypeOK
<1>13. ASSUME NEW w \in Workers, Register(w) PROVE TypeOK'
  <2>1. workers[w].row \in Rows /\ workers[w] \in Worker
    BY <1>13 DEF Register, ExecutesOne, TypeOK
  <2>2. Registered(w, workers[w].row, workers[w]) \in [Workers -> Worker]
    BY <2>1, RegisteredType
  <2> QED
    BY <1>13, <2>1, <2>2 DEF Register, turnVars, rowVars, busVars, bounds, TypeOK
<1>14. ASSUME NEW w \in Workers, Reply(w) PROVE TypeOK'
  <2>1. workers[w].row \in Rows /\ workers[w] \in Worker
    BY <1>14 DEF Reply, ExecutesOne, TypeOK
  <2>2. \A c \in {"valid", "invalid"} : [workers[w] EXCEPT !.chat = c] \in Worker
    BY <2>1, WorkerEdits
  <2> QED
    BY <1>14, <2>1, <2>2 DEF Reply, turnVars, rowVars, busVars, bounds, TypeOK
<1>15. ASSUME NEW w \in Workers, NeedParent(w) PROVE TypeOK'
  <2>1. workers[w].row \in Rows /\ workers[w] \in Worker
    BY <1>15 DEF NeedParent, ExecutesOne, TypeOK
  <2>2. rows' \in [Rows -> Row] /\ Background({workers[w].row}) \in SUBSET Rows
    BY <1>15, <2>1, MarkedType DEF NeedParent, Ended, Background, TypeOK
  <2>3. /\ turns' \in [Turns -> TurnRecord] /\ current' \in Turns \cup {NoTurn}
        /\ deferred' \in SUBSET Rows /\ inFlight' \in SUBSET Rows /\ notice' \in Notices
    BY <1>15, <2>2, NotifyType DEF NeedParent, TypeOK
  <2> QED
    BY <1>15, <2>1, <2>2, <2>3 DEF NeedParent, bounds, TypeOK
<1>16. ASSUME NEW w \in Workers, ReturnValid(w) PROVE TypeOK'
  <2>1. workers[w].row \in Rows /\ workers[w] \in Worker
    BY <1>16 DEF ReturnValid, ExecutesOne, TypeOK, Chatted
  <2>2. /\ Settle(w, "completed") /\ "completed" \in Ended /\ alive' = alive /\ UNCHANGED bounds
        /\ child' \in [Rows -> {"none", "fresh", "used"}]
    BY <1>16, <2>1 DEF ReturnValid, Ended, TypeOK
  <2> QED
    BY <2>1, <2>2, SettleType
<1>17. ASSUME NEW w \in Workers, ReturnHandedOver(w) PROVE TypeOK'
  <2>1. workers[w].row \in Rows /\ workers[w] \in Worker
    BY <1>17 DEF ReturnHandedOver, ExecutesOne, TypeOK, Chatted
  <2>2. workers' \in [Workers -> Worker] /\ chatOf' \in [Rows -> Workers \cup {NoWorker}]
    BY <1>17, DoneType DEF ReturnHandedOver
  <2> QED
    BY <1>17, <2>1, <2>2 DEF ReturnHandedOver, turnVars, rowVars, busVars, bounds, TypeOK
<1>18. ASSUME NEW w \in Workers, Retry(w) PROVE TypeOK'
  <2>1. workers[w].row \in Rows /\ workers[w] \in Worker
    BY <1>18 DEF Retry, ExecutesOne, TypeOK
  <2>2. [workers[w] EXCEPT !.pc = "second"] \in Worker
    BY <2>1, WorkerEdits
  <2>3. Registered(w, workers[w].row, [workers[w] EXCEPT !.pc = "second"]) \in [Workers -> Worker]
    BY <2>1, <2>2, RegisteredType
  <2> QED
    BY <1>18, <2>1, <2>3 DEF Retry, turnVars, rowVars, busVars, bounds, TypeOK
<1>19. ASSUME NEW w \in Workers, ReturnInvalid(w) PROVE TypeOK'
  <2>1. workers[w].row \in Rows /\ workers[w] \in Worker
    BY <1>19 DEF ReturnInvalid, ExecutesOne, TypeOK, Chatted
  <2>2. /\ Settle(w, "failed") /\ "failed" \in Ended /\ alive' = alive /\ UNCHANGED bounds
        /\ child' \in [Rows -> {"none", "fresh", "used"}]
    BY <1>19, <2>1 DEF ReturnInvalid, Ended, TypeOK
  <2> QED
    BY <2>1, <2>2, SettleType
<1>20. ASSUME NEW w \in Workers, Throw(w) PROVE TypeOK'
  <2>1. workers[w].row \in Rows /\ workers[w] \in Worker
    BY <1>20 DEF Throw, ExecutesOne, TypeOK, Chatted
  <2>2. /\ Settle(w, "failed") /\ "failed" \in Ended /\ alive' = alive /\ UNCHANGED bounds
        /\ child' \in [Rows -> {"none", "fresh", "used"}]
    BY <1>20, <2>1 DEF Throw, Ended, TypeOK
  <2> QED
    BY <2>1, <2>2, SettleType
<1>21. ASSUME NEW r \in Rows, Cancel(r) PROVE TypeOK'
  <2>1. rows' \in [Rows -> Row] /\ Background({r}) \in SUBSET Rows
    BY <1>21, MarkedType DEF Cancel, Ended, Background, TypeOK
  <2>2. /\ turns' \in [Turns -> TurnRecord] /\ current' \in Turns \cup {NoTurn}
        /\ deferred' \in SUBSET Rows /\ inFlight' \in SUBSET Rows /\ notice' \in Notices
    BY <1>21, <2>1, NotifyType DEF Cancel, TypeOK
  <2>3. workers' \in [Workers -> Worker]
    BY <1>21, AbortChildrenType DEF Cancel, TypeOK
  <2> QED
    BY <1>21, <2>1, <2>2, <2>3 DEF Cancel, bounds, TypeOK
<1>22. ASSUME NEW r \in Rows, Look(r) PROVE TypeOK'
  BY <1>22 DEF Look, Stored, turnVars, rowVars, busVars, bounds, TypeOK
<1>23. ASSUME List PROVE TypeOK'
  BY <1>23, ListedType DEF List, turnVars, rowVars, busVars, bounds, TypeOK
<1>24. ASSUME DeleteParent PROVE TypeOK'
  <2>1. /\ AbortTurn(current) \in [Turns -> TurnRecord]
        /\ Cut(current, AbortChildren(RunningListed, workers)) \in [Workers -> Worker]
    BY AbortTurnType, AbortChildrenType, CutType DEF TypeOK
  <2>2. /\ rows' \in [Rows -> Row] /\ child' \in [Rows -> {"none", "fresh", "used"}]
        /\ chatOf' \in [Rows -> Workers \cup {NoWorker}]
    BY <1>24, NoRunType DEF DeleteParent, TypeOK
  <2>3. Noted(notice, deferred, "cleared") \in Notices
    BY NotedType DEF TypeOK
  <2> QED
    BY <1>24, <2>1, <2>2, <2>3 DEF DeleteParent, ClearBus, bounds, TypeOK
<1>25. ASSUME Crash PROVE TypeOK'
  BY <1>25, IdleType, SubagentAssumption DEF Crash, TypeOK
<1>26. CASE UNCHANGED vars
  BY <1>26 DEF TypeOK, vars
<1> QED
  BY <1>1, <1>2, <1>3, <1>4, <1>5, <1>6, <1>7, <1>8, <1>9, <1>10, <1>11, <1>12, <1>13, <1>14, <1>15, <1>16, <1>17, <1>18, <1>19, <1>20, <1>21, <1>22, <1>23, <1>24, <1>25, <1>26 DEF Next, Work, Turn


-----------------------------------------------------------------------------
(***************************************************************************)
(* The books of the calls.                                                 *)
(***************************************************************************)
\* One call in ExecutesOne.
RecordOK(v) ==
    /\ v.chat # "none" <=> v.pc \in {"first", "second"}
    /\ v.pc \in {"renaming", "first", "second"} => v.row \in Rows
    /\ v.pc # "idle" => v.kind \in Kinds

\* A call goes on where it was, with an open chat or with that chat aborted, and
\* with its signal or with that signal aborted.
GoesOn(v, u) ==
    /\ u.pc = v.pc /\ u.row = v.row /\ u.kind = v.kind /\ u.mode = v.mode /\ u.turn = v.turn
    /\ u.chat = v.chat \/ (v.chat = "open" /\ u.chat = "aborted")
    /\ \/ u.cut = v.cut /\ u.awaited = v.awaited
       \/ u.cut

LEMMA CutEffect ==
    ASSUME NEW ws \in [Workers -> Worker], NEW t
    PROVE  \A w \in Workers :
              /\ GoesOn(ws[w], Cut(t, ws)[w])
              /\ (ws[w].turn = t /\ t # NoTurn) => Cut(t, ws)[w].cut
BY ZenonT(30) DEF Cut, GoesOn, Worker

LEMMA AbortChildrenEffect ==
    ASSUME NEW ws \in [Workers -> Worker], NEW R
    PROVE  \A w \in Workers :
              /\ GoesOn(ws[w], AbortChildren(R, ws)[w])
              /\ AbortChildren(R, ws)[w].cut = ws[w].cut
              /\ AbortChildren(R, ws)[w].awaited = ws[w].awaited
              /\ (ws[w].row \in R /\ chatOf[ws[w].row] = w) => AbortChildren(R, ws)[w].chat # "open"
BY DEF AbortChildren, GoesOn, Worker

LEMMA GoesOnTwice ==
    ASSUME NEW a, NEW b, NEW c, GoesOn(a, b), GoesOn(b, c)
    PROVE  GoesOn(a, c)
BY DEF GoesOn

LEMMA GoesOnOK ==
    ASSUME NEW a, NEW b, GoesOn(a, b), RecordOK(a)
    PROVE  RecordOK(b)
BY DEF GoesOn, RecordOK

LEMMA RegisteredEffect ==
    ASSUME workers \in [Workers -> Worker], NEW w \in Workers, NEW r \in Rows, NEW me \in Worker
    PROVE  /\ Registered(w, r, me)[w] = [me EXCEPT !.chat = IF me.cut THEN "aborted" ELSE "open"]
           /\ Registered(w, r, me)[w].chat = IF me.cut THEN "aborted" ELSE "open"
           /\ Registered(w, r, me)[w].pc = me.pc /\ Registered(w, r, me)[w].row = me.row
           /\ \A v \in Workers \ {w} :
                 /\ GoesOn(workers[v], Registered(w, r, me)[v])
                 /\ Registered(w, r, me)[v].cut = workers[v].cut
                 /\ Registered(w, r, me)[v].awaited = workers[v].awaited
                 /\ (workers[v].row = r /\ chatOf[r] = v) => Registered(w, r, me)[v].chat # "open"
<1>1. /\ AbortChildren({r}, workers) \in [Workers -> Worker]
      /\ \A v \in Workers \ {w} : Registered(w, r, me)[v] = AbortChildren({r}, workers)[v]
      /\ Registered(w, r, me)[w] = [me EXCEPT !.chat = IF me.cut THEN "aborted" ELSE "open"]
  BY AbortChildrenType DEF Registered
<1>2. /\ Registered(w, r, me)[w].chat = IF me.cut THEN "aborted" ELSE "open"
      /\ Registered(w, r, me)[w].pc = me.pc /\ Registered(w, r, me)[w].row = me.row
  BY <1>1 DEF Worker
<1> QED
  BY <1>1, <1>2, AbortChildrenEffect

LEMMA DoneEffect ==
    ASSUME TypeOK, NEW w \in Workers, Done(w)
    PROVE  /\ workers'[w] = IdleWorker
           /\ \A v \in Workers \ {w} : workers'[v] = workers[v]
           /\ \A r \in Rows : chatOf'[r] = IF chatOf[r] = w THEN NoWorker ELSE chatOf[r]
BY DEF Done, TypeOK

\* A call that reaches its row executes it or, under an aborted signal, is over.
LEMMA ExecuteRecords ==
    ASSUME TypeOK, NEW w \in Workers, workers[w].pc \in {"creating", "renaming"},
           NEW r \in Rows, Entering(w, r).kind \in Kinds,
           NEW told, Execute(w, r, Entering(w, r), told)
    PROVE  /\ RecordOK(workers'[w])
           /\ \A v \in Workers \ {w} : GoesOn(workers[v], workers'[v])
<1> DEFINE me == Entering(w, r)
<1>1. me \in Worker /\ me.pc = "first" /\ me.row = r /\ me.kind \in Kinds
  <2>1. workers[w] \in Worker
    BY DEF TypeOK
  <2>2. me.pc = "first" /\ me.row = r
    BY <2>1 DEF Entering, Worker
  <2> QED
    BY <2>2, EnteringType
<1>2. RecordOK(IdleWorker) /\ \A v \in Workers : GoesOn(workers[v], workers[v])
  BY DEF IdleWorker, RecordOK, GoesOn
<1>3. \A c \in {"opening", "open", "aborted"} : RecordOK([me EXCEPT !.chat = c])
  BY <1>1 DEF RecordOK, Worker
<1>4. \/ workers' = [workers EXCEPT ![w] = IdleWorker]
      \/ workers' = Registered(w, r, me)
      \/ workers' = [workers EXCEPT ![w] = [me EXCEPT !.chat = "opening"]]
  BY DEF Execute
<1> HIDE DEF me
<1>5. CASE workers' = Registered(w, r, me)
  BY <1>1, <1>3, <1>5, RegisteredEffect DEF TypeOK
<1>6. CASE \E n \in {IdleWorker, [me EXCEPT !.chat = "opening"]} : workers' = [workers EXCEPT ![w] = n]
  BY <1>2, <1>3, <1>6 DEF TypeOK
<1> QED
  BY <1>4, <1>5, <1>6

\* In a step every call goes on as it was, or its record is right by itself.
LEMMA RecordsStep ==
    ASSUME TypeOK, ExecutesOne, [Next]_vars
    PROVE  \A v \in Workers : GoesOn(workers[v], workers'[v]) \/ RecordOK(workers'[v])
<1>1. ASSUME NEW t \in Turns, OpenChat(t) PROVE \A v \in Workers : GoesOn(workers[v], workers'[v]) \/ RecordOK(workers'[v])
  BY <1>1, CutEffect DEF OpenChat, TypeOK
<1>2. ASSUME NEW t \in Turns, EndTurn(t) PROVE \A v \in Workers : GoesOn(workers[v], workers'[v]) \/ RecordOK(workers'[v])
  BY <1>2 DEF EndTurn, LeaveTurn, GoesOn, RecordOK, ExecutesOne, TypeOK
<1>3. ASSUME NEW t \in Turns, Unwind(t) PROVE \A v \in Workers : GoesOn(workers[v], workers'[v]) \/ RecordOK(workers'[v])
  BY <1>3, AbortChildrenEffect DEF Unwind, TypeOK
<1>4. ASSUME NEW t \in Turns, LeaveStopped(t) PROVE \A v \in Workers : GoesOn(workers[v], workers'[v]) \/ RecordOK(workers'[v])
  BY <1>4 DEF LeaveStopped, LeaveTurn, GoesOn, RecordOK, ExecutesOne, TypeOK
<1>5. ASSUME Stop PROVE \A v \in Workers : GoesOn(workers[v], workers'[v]) \/ RecordOK(workers'[v])
  <2>1. AbortChildren(RunningListed, workers) \in [Workers -> Worker]
    BY AbortChildrenType DEF TypeOK
  <2>2. \A v \in Workers :
           /\ GoesOn(workers[v], AbortChildren(RunningListed, workers)[v])
           /\ GoesOn(workers[v], Cut(current, AbortChildren(RunningListed, workers))[v])
    BY <2>1, CutEffect, AbortChildrenEffect, GoesOnTwice DEF TypeOK
  <2> QED
    BY <1>5, <2>2 DEF Stop
<1>6. ASSUME NEW r \in Rows, DeferTimer(r) PROVE \A v \in Workers : GoesOn(workers[v], workers'[v]) \/ RecordOK(workers'[v])
  BY <1>6 DEF DeferTimer, GoesOn
<1>7. ASSUME NEW t \in Turns, NEW w \in Workers, NEW k \in Kinds, NEW m \in Modes, CallRun(t, w, k, m) PROVE \A v \in Workers : GoesOn(workers[v], workers'[v]) \/ RecordOK(workers'[v])
  BY <1>7 DEF CallRun, Calling, IdleWorker, GoesOn, RecordOK, TypeOK
<1>8. ASSUME NEW t \in Turns, NEW w \in Workers, NEW r \in Rows, NEW k \in Kinds, NEW m \in Modes, CallRestart(t, w, r, k, m) PROVE \A v \in Workers : GoesOn(workers[v], workers'[v]) \/ RecordOK(workers'[v])
  BY <1>8 DEF CallRestart, Calling, IdleWorker, GoesOn, RecordOK, TypeOK
<1>9. ASSUME NEW w \in Workers, Named(w) PROVE \A v \in Workers : GoesOn(workers[v], workers'[v]) \/ RecordOK(workers'[v])
  <2>1. workers[w] \in Worker /\ workers[w].kind \in Kinds /\ workers[w].chat = "none"
    BY <1>9 DEF Named, ExecutesOne, TypeOK
  <2>2. RecordOK(IdleWorker) /\ RecordOK([workers[w] EXCEPT !.pc = "creating"])
    BY <2>1 DEF IdleWorker, RecordOK, Worker
  <2>3. \A v \in Workers \ {w} : workers'[v] = workers[v]
    BY <1>9 DEF Named, TypeOK
  <2>4. workers'[w] \in {IdleWorker, [workers[w] EXCEPT !.pc = "creating"]}
    BY <1>9 DEF Named, TypeOK
  <2> QED
    BY <2>2, <2>3, <2>4 DEF GoesOn
<1>10. ASSUME NEW w \in Workers, Create(w) PROVE \A v \in Workers : GoesOn(workers[v], workers'[v]) \/ RecordOK(workers'[v])
  <2>1. PICK r \in Fresh : Execute(w, r, Entering(w, r), Untold(r))
    BY <1>10 DEF Create
  <2>2. r \in Rows /\ workers[w].pc = "creating" /\ Entering(w, r).kind \in Kinds
    BY <1>10 DEF Create, Fresh, Entering, ExecutesOne, TypeOK, Worker
  <2> QED
    BY <2>1, <2>2, ExecuteRecords
<1>11. ASSUME NEW w \in Workers, Restart(w) PROVE \A v \in Workers : GoesOn(workers[v], workers'[v]) \/ RecordOK(workers'[v])
  <2>1. workers[w].row \in Rows /\ Entering(w, workers[w].row).kind \in Kinds
    BY <1>11 DEF Restart, Entering, ExecutesOne, TypeOK, Worker
  <2>2. CASE workers[w].row \in Stored
    BY <1>11, <2>1, <2>2, ExecuteRecords DEF Restart
  <2>3. CASE workers[w].row \notin Stored
    BY <1>11, <2>3 DEF Restart, IdleWorker, GoesOn, RecordOK, TypeOK
  <2> QED
    BY <2>2, <2>3
<1>12. ASSUME NEW w \in Workers, Timeout(w) PROVE \A v \in Workers : GoesOn(workers[v], workers'[v]) \/ RecordOK(workers'[v])
  <2>1. workers[w] \in Worker /\ RecordOK(workers[w])
    BY DEF RecordOK, ExecutesOne, TypeOK
  <2>2. RecordOK([workers[w] EXCEPT !.awaited = FALSE])
    BY <2>1 DEF RecordOK, Worker
  <2> QED
    BY <1>12, <2>2 DEF Timeout, GoesOn, TypeOK
<1>13. ASSUME NEW w \in Workers, Register(w) PROVE \A v \in Workers : GoesOn(workers[v], workers'[v]) \/ RecordOK(workers'[v])
  <2> DEFINE me == workers[w]
  <2>1. me.row \in Rows /\ me \in Worker /\ RecordOK(me)
    BY <1>13 DEF Register, ExecutesOne, RecordOK, TypeOK
  <2>2. RecordOK([me EXCEPT !.chat = IF me.cut THEN "aborted" ELSE "open"])
    BY <1>13, <2>1 DEF Register, RecordOK, Worker
  <2>3. workers' = Registered(w, me.row, me)
    BY <1>13 DEF Register
  <2> HIDE DEF me
  <2>4. /\ Registered(w, me.row, me)[w] = [me EXCEPT !.chat = IF me.cut THEN "aborted" ELSE "open"]
        /\ \A v \in Workers \ {w} : GoesOn(workers[v], Registered(w, me.row, me)[v])
    BY <2>1, RegisteredEffect DEF TypeOK
  <2> QED
    BY <2>2, <2>3, <2>4
<1>14. ASSUME NEW w \in Workers, Reply(w) PROVE \A v \in Workers : GoesOn(workers[v], workers'[v]) \/ RecordOK(workers'[v])
  BY <1>14 DEF Reply, GoesOn, RecordOK, ExecutesOne, TypeOK, Worker
<1>15. ASSUME NEW w \in Workers, NeedParent(w) PROVE \A v \in Workers : GoesOn(workers[v], workers'[v]) \/ RecordOK(workers'[v])
  BY <1>15 DEF NeedParent, GoesOn
<1>16. ASSUME NEW w \in Workers, ReturnValid(w) PROVE \A v \in Workers : GoesOn(workers[v], workers'[v]) \/ RecordOK(workers'[v])
  BY <1>16, DoneEffect DEF ReturnValid, Settle, IdleWorker, GoesOn, RecordOK
<1>17. ASSUME NEW w \in Workers, ReturnHandedOver(w) PROVE \A v \in Workers : GoesOn(workers[v], workers'[v]) \/ RecordOK(workers'[v])
  BY <1>17, DoneEffect DEF ReturnHandedOver, IdleWorker, GoesOn, RecordOK
<1>18. ASSUME NEW w \in Workers, Retry(w) PROVE \A v \in Workers : GoesOn(workers[v], workers'[v]) \/ RecordOK(workers'[v])
  <2> DEFINE me == [workers[w] EXCEPT !.pc = "second"]
  <2>1. workers[w].row \in Rows /\ me \in Worker /\ RecordOK(workers[w])
    BY <1>18, WorkerEdits DEF Retry, ExecutesOne, RecordOK, TypeOK
  <2>2. RecordOK([me EXCEPT !.chat = IF me.cut THEN "aborted" ELSE "open"])
    BY <1>18, <2>1 DEF Retry, RecordOK, Worker
  <2>3. workers' = Registered(w, workers[w].row, me)
    BY <1>18 DEF Retry
  <2> HIDE DEF me
  <2>4. /\ Registered(w, workers[w].row, me)[w] = [me EXCEPT !.chat = IF me.cut THEN "aborted" ELSE "open"]
        /\ \A v \in Workers \ {w} : GoesOn(workers[v], Registered(w, workers[w].row, me)[v])
    BY <2>1, RegisteredEffect DEF TypeOK
  <2> QED
    BY <2>2, <2>3, <2>4
<1>19. ASSUME NEW w \in Workers, ReturnInvalid(w) PROVE \A v \in Workers : GoesOn(workers[v], workers'[v]) \/ RecordOK(workers'[v])
  BY <1>19, DoneEffect DEF ReturnInvalid, Settle, IdleWorker, GoesOn, RecordOK
<1>20. ASSUME NEW w \in Workers, Throw(w) PROVE \A v \in Workers : GoesOn(workers[v], workers'[v]) \/ RecordOK(workers'[v])
  BY <1>20, DoneEffect DEF Throw, Settle, IdleWorker, GoesOn, RecordOK
<1>21. ASSUME NEW r \in Rows, Cancel(r) PROVE \A v \in Workers : GoesOn(workers[v], workers'[v]) \/ RecordOK(workers'[v])
  BY <1>21, AbortChildrenEffect DEF Cancel, TypeOK
<1>22. ASSUME NEW r \in Rows, Look(r) PROVE \A v \in Workers : GoesOn(workers[v], workers'[v]) \/ RecordOK(workers'[v])
  BY <1>22 DEF Look, GoesOn
<1>23. ASSUME List PROVE \A v \in Workers : GoesOn(workers[v], workers'[v]) \/ RecordOK(workers'[v])
  BY <1>23 DEF List, GoesOn
<1>24. ASSUME DeleteParent PROVE \A v \in Workers : GoesOn(workers[v], workers'[v]) \/ RecordOK(workers'[v])
  <2>1. AbortChildren(RunningListed, workers) \in [Workers -> Worker]
    BY AbortChildrenType DEF TypeOK
  <2>2. \A v \in Workers :
           /\ GoesOn(workers[v], AbortChildren(RunningListed, workers)[v])
           /\ GoesOn(workers[v], Cut(current, AbortChildren(RunningListed, workers))[v])
    BY <2>1, CutEffect, AbortChildrenEffect, GoesOnTwice DEF TypeOK
  <2> QED
    BY <1>24, <2>2 DEF DeleteParent
<1>25. ASSUME Crash PROVE \A v \in Workers : GoesOn(workers[v], workers'[v]) \/ RecordOK(workers'[v])
  BY <1>25 DEF Crash, IdleWorker, RecordOK
<1>26. CASE UNCHANGED vars
  BY <1>26 DEF vars, GoesOn
<1> QED
  BY <1>1, <1>2, <1>3, <1>4, <1>5, <1>6, <1>7, <1>8, <1>9, <1>10, <1>11, <1>12, <1>13, <1>14, <1>15, <1>16, <1>17, <1>18, <1>19, <1>20, <1>21, <1>22, <1>23, <1>24, <1>25, <1>26 DEF Next, Work, Turn

LEMMA ExecutesOneStep ==
    ASSUME TypeOK, ExecutesOne, [Next]_vars
    PROVE  ExecutesOne'
BY RecordsStep, GoesOnOK DEF ExecutesOne, RecordOK

-----------------------------------------------------------------------------
(***************************************************************************)
(* What runs is executed.                                                  *)
(***************************************************************************)
LEMMA MarkedEffect ==
    ASSUME rows \in [Rows -> Row], NEW R, NEW status
    PROVE  \A r \in Rows : Marked(R, status)[r].status =
                 IF r \in R \cap Stored THEN status ELSE rows[r].status
BY DEF Marked, Row

\* The executions that the calls a make are also made by the calls b.
KeepsExecuting(a, b) ==
    \A v \in Workers : a[v].pc \in {"first", "second"} =>
        b[v].pc \in {"first", "second"} /\ b[v].row = a[v].row

LEMMA GoesOnExecuting ==
    ASSUME NEW a, NEW b, \A v \in Workers : GoesOn(a[v], b[v])
    PROVE  KeepsExecuting(a, b)
BY DEF KeepsExecuting, GoesOn

LEMMA AllExecuted ==
    ASSUME ActiveIsExecuted, crashes' = crashes, KeepsExecuting(workers, workers'),
           \A r \in Rows : rows'[r].status = "running" => rows[r].status = "running"
    PROVE  ActiveIsExecuted'
BY DEF ActiveIsExecuted, KeepsExecuting, Executes

\* The end of an execution settles the row it executed.
LEMMA SettledExecuted ==
    ASSUME ActiveIsExecuted, crashes' = crashes, NEW w \in Workers, NEW p \in Rows,
           workers[w].row = p, \A v \in Workers \ {w} : GoesOn(workers[v], workers'[v]),
           rows'[p].status # "running",
           \A r \in Rows : rows'[r].status = "running" => rows[r].status = "running"
    PROVE  ActiveIsExecuted'
BY DEF ActiveIsExecuted, GoesOn, Executes

LEMMA ExecuteExecuted ==
    ASSUME TypeOK, ExecutesOne, ActiveIsExecuted, crashes' = crashes,
           NEW w \in Workers, workers[w].pc \in {"creating", "renaming"},
           NEW r \in Rows, NEW told, Execute(w, r, Entering(w, r), told)
    PROVE  ActiveIsExecuted'
<1> DEFINE me == Entering(w, r)
<1>1. me \in Worker /\ me.pc = "first" /\ me.row = r
  <2>1. workers[w] \in Worker
    BY DEF TypeOK
  <2>2. me.pc = "first" /\ me.row = r
    BY <2>1 DEF Entering, Worker
  <2> QED
    BY <2>2, EnteringType
<1>2. me.kind \in Kinds
  BY DEF Entering, ExecutesOne, TypeOK, Worker
<1>3. \A v \in Workers \ {w} : GoesOn(workers[v], workers'[v])
  BY <1>2, ExecuteRecords
<1>4. /\ rows \in [Rows -> Row]
      /\ \A q \in Rows \ {r} : rows'[q] = rows[q]
      /\ rows'[r].status = IF me.cut THEN "cancelled" ELSE "running"
  BY DEF Execute, TypeOK
<1>5. ~me.cut => workers'[w].pc = "first" /\ workers'[w].row = r
  <2>1. Registered(w, r, me)[w] = [me EXCEPT !.chat = IF me.cut THEN "aborted" ELSE "open"]
    BY <1>1, RegisteredEffect DEF TypeOK
  <2>2. ~me.cut => workers' \in {Registered(w, r, me), [workers EXCEPT ![w] = [me EXCEPT !.chat = "opening"]]}
    BY DEF Execute
  <2> HIDE DEF me
  <2> QED
    BY <1>1, <2>1, <2>2 DEF TypeOK, Worker
<1> QED
  BY <1>3, <1>4, <1>5 DEF ActiveIsExecuted, Executes, GoesOn

\* Every step keeps a running row executed.
LEMMA ActiveIsExecutedStep ==
    ASSUME TypeOK, ExecutesOne, ActiveIsExecuted, [Next]_vars
    PROVE  ActiveIsExecuted'
<1>1. ASSUME NEW t \in Turns, OpenChat(t) PROVE ActiveIsExecuted'
  <2>1. \A v \in Workers : GoesOn(workers[v], workers'[v])
    BY <1>1, CutEffect DEF OpenChat, GoesOn, TypeOK
  <2>2. rows' = rows /\ crashes' = crashes
    BY <1>1 DEF OpenChat, rowVars, bounds
  <2> QED
    BY <2>1, <2>2, GoesOnExecuting, AllExecuted
<1>2. ASSUME NEW t \in Turns, EndTurn(t) PROVE ActiveIsExecuted'
  <2>1. KeepsExecuting(workers, workers')
    BY <1>2 DEF EndTurn, KeepsExecuting, TypeOK, LeaveTurn
  <2>2. rows' = rows /\ crashes' = crashes
    BY <1>2 DEF EndTurn, rowVars, bounds, LeaveTurn
  <2> QED
    BY <2>1, <2>2, AllExecuted
<1>3. ASSUME NEW t \in Turns, Unwind(t) PROVE ActiveIsExecuted'
  <2>1. \A v \in Workers : GoesOn(workers[v], workers'[v])
    BY <1>3, AbortChildrenEffect DEF Unwind, GoesOn, TypeOK
  <2>2. crashes' = crashes /\ \A q \in Rows : rows'[q].status = "running" => rows[q].status = "running"
    BY <1>3, MarkedEffect DEF Unwind, TypeOK, bounds
  <2> QED
    BY <2>1, <2>2, GoesOnExecuting, AllExecuted
<1>4. ASSUME NEW t \in Turns, LeaveStopped(t) PROVE ActiveIsExecuted'
  <2>1. KeepsExecuting(workers, workers')
    BY <1>4 DEF LeaveStopped, KeepsExecuting, TypeOK, LeaveTurn
  <2>2. rows' = rows /\ crashes' = crashes
    BY <1>4 DEF LeaveStopped, rowVars, bounds, LeaveTurn
  <2> QED
    BY <2>1, <2>2, AllExecuted
<1>5. ASSUME Stop PROVE ActiveIsExecuted'
  <2>1. AbortChildren(RunningListed, workers) \in [Workers -> Worker]
    BY AbortChildrenType DEF TypeOK
  <2>2. \A v \in Workers :
           /\ GoesOn(workers[v], AbortChildren(RunningListed, workers)[v])
           /\ GoesOn(workers[v], Cut(current, AbortChildren(RunningListed, workers))[v])
    BY <2>1, CutEffect, AbortChildrenEffect, GoesOnTwice DEF TypeOK
  <2>3. \A v \in Workers : GoesOn(workers[v], workers'[v])
    BY <1>5, <2>2 DEF Stop
  <2>4. crashes' = crashes /\ \A q \in Rows : rows'[q].status = "running" => rows[q].status = "running"
    BY <1>5, MarkedEffect DEF Stop, TypeOK, bounds
  <2> QED
    BY <2>3, <2>4, GoesOnExecuting, AllExecuted
<1>6. ASSUME NEW r \in Rows, DeferTimer(r) PROVE ActiveIsExecuted'
  <2>1. \A v \in Workers : GoesOn(workers[v], workers'[v])
    BY <1>6 DEF DeferTimer, GoesOn
  <2>2. rows' = rows /\ crashes' = crashes
    BY <1>6 DEF DeferTimer, rowVars, bounds
  <2> QED
    BY <2>1, <2>2, GoesOnExecuting, AllExecuted
<1>7. ASSUME NEW t \in Turns, NEW w \in Workers, NEW k \in Kinds, NEW m \in Modes, CallRun(t, w, k, m) PROVE ActiveIsExecuted'
  <2>1. KeepsExecuting(workers, workers')
    BY <1>7 DEF CallRun, KeepsExecuting, TypeOK, MayCall
  <2>2. rows' = rows /\ crashes' = crashes
    BY <1>7 DEF CallRun, rowVars, bounds
  <2> QED
    BY <2>1, <2>2, AllExecuted
<1>8. ASSUME NEW t \in Turns, NEW w \in Workers, NEW r \in Rows, NEW k \in Kinds, NEW m \in Modes, CallRestart(t, w, r, k, m) PROVE ActiveIsExecuted'
  <2>1. KeepsExecuting(workers, workers')
    BY <1>8 DEF CallRestart, KeepsExecuting, TypeOK, MayCall
  <2>2. rows' = rows /\ crashes' = crashes
    BY <1>8 DEF CallRestart, rowVars, bounds
  <2> QED
    BY <2>1, <2>2, AllExecuted
<1>9. ASSUME NEW w \in Workers, Named(w) PROVE ActiveIsExecuted'
  <2>1. KeepsExecuting(workers, workers')
    BY <1>9 DEF Named, KeepsExecuting, TypeOK
  <2>2. rows' = rows /\ crashes' = crashes
    BY <1>9 DEF Named, rowVars, bounds
  <2> QED
    BY <2>1, <2>2, AllExecuted
<1>10. ASSUME NEW w \in Workers, Create(w) PROVE ActiveIsExecuted'
  <2>1. PICK r \in Fresh : Execute(w, r, Entering(w, r), Untold(r))
    BY <1>10 DEF Create
  <2>2. r \in Rows /\ workers[w].pc = "creating" /\ crashes' = crashes
    BY <1>10 DEF Create, Fresh, bounds
  <2> QED
    BY <2>1, <2>2, ExecuteExecuted
<1>11. ASSUME NEW w \in Workers, Restart(w) PROVE ActiveIsExecuted'
  <2>1. workers[w].row \in Rows /\ crashes' = crashes
    BY <1>11 DEF Restart, bounds, ExecutesOne
  <2>2. CASE workers[w].row \in Stored
    BY <1>11, <2>1, <2>2, ExecuteExecuted DEF Restart
  <2>3. CASE workers[w].row \notin Stored
    <3>1. rows' = rows /\ KeepsExecuting(workers, workers')
      BY <1>11, <2>3 DEF Restart, rowVars, KeepsExecuting, TypeOK
    <3> QED
      BY <2>1, <3>1, AllExecuted
  <2> QED
    BY <2>2, <2>3
<1>12. ASSUME NEW w \in Workers, Timeout(w) PROVE ActiveIsExecuted'
  <2>1. \A v \in Workers : workers'[v].pc = workers[v].pc /\ workers'[v].row = workers[v].row
    BY <1>12 DEF Timeout, TypeOK, Worker
  <2>2. rows' = rows /\ crashes' = crashes
    BY <1>12 DEF Timeout, rowVars, bounds
  <2> QED
    BY <2>1, <2>2, AllExecuted DEF KeepsExecuting
<1>13. ASSUME NEW w \in Workers, Register(w) PROVE ActiveIsExecuted'
  <2> DEFINE me == workers[w]
  <2>1. me \in Worker /\ me.pc \in {"first", "second"} /\ me.row = workers[w].row /\ me.row \in Rows
    <3>1. workers[w] \in Worker /\ RecordOK(workers[w]) /\ workers[w].chat # "none"
      BY <1>13 DEF Register, ExecutesOne, RecordOK, TypeOK
    <3> QED
      BY <3>1 DEF RecordOK, Worker
  <2>2. /\ workers' = Registered(w, me.row, me) /\ rows' = rows /\ crashes' = crashes
    BY <1>13, <2>1 DEF Register, rowVars, bounds
  <2> HIDE DEF me
  <2>3. /\ workers'[w].pc = me.pc /\ workers'[w].row = me.row
        /\ \A v \in Workers \ {w} : GoesOn(workers[v], workers'[v])
    <3>1. /\ Registered(w, me.row, me)[w] = [me EXCEPT !.chat = IF me.cut THEN "aborted" ELSE "open"]
          /\ \A v \in Workers \ {w} : GoesOn(workers[v], Registered(w, me.row, me)[v])
      BY <2>1, RegisteredEffect DEF TypeOK
    <3>2. /\ [me EXCEPT !.chat = IF me.cut THEN "aborted" ELSE "open"].pc = me.pc
          /\ [me EXCEPT !.chat = IF me.cut THEN "aborted" ELSE "open"].row = me.row
      BY <2>1 DEF Worker
    <3> QED
      BY <2>2, <3>1, <3>2
  <2>4. KeepsExecuting(workers, workers')
    BY <2>1, <2>3 DEF KeepsExecuting, GoesOn
  <2> QED
    BY <2>2, <2>4, AllExecuted
<1>14. ASSUME NEW w \in Workers, Reply(w) PROVE ActiveIsExecuted'
  <2>1. \A v \in Workers : workers'[v].pc = workers[v].pc /\ workers'[v].row = workers[v].row
    BY <1>14 DEF Reply, TypeOK, Worker
  <2>2. rows' = rows /\ crashes' = crashes
    BY <1>14 DEF Reply, rowVars, bounds
  <2> QED
    BY <2>1, <2>2, AllExecuted DEF KeepsExecuting
<1>15. ASSUME NEW w \in Workers, NeedParent(w) PROVE ActiveIsExecuted'
  <2>1. \A v \in Workers : GoesOn(workers[v], workers'[v])
    BY <1>15 DEF NeedParent, GoesOn, TypeOK
  <2>2. crashes' = crashes /\ \A q \in Rows : rows'[q].status = "running" => rows[q].status = "running"
    BY <1>15, MarkedEffect DEF NeedParent, TypeOK, bounds
  <2> QED
    BY <2>1, <2>2, GoesOnExecuting, AllExecuted
<1>16. ASSUME NEW w \in Workers, ReturnValid(w) PROVE ActiveIsExecuted'
  <2> DEFINE p == workers[w].row
  <2>1. p \in Rows /\ crashes' = crashes /\ Done(w) /\ rows' = Marked({p}, "completed")
    BY <1>16 DEF ReturnValid, Chatted, Settle, ExecutesOne, TypeOK, bounds
  <2> HIDE DEF p
  <2>2. /\ rows'[p].status # "running"
        /\ \A r \in Rows : rows'[r].status = "running" => rows[r].status = "running"
    BY <2>1, MarkedEffect DEF TypeOK, Stored
  <2>3. \A v \in Workers \ {w} : GoesOn(workers[v], workers'[v])
    BY <2>1, DoneEffect DEF GoesOn
  <2> QED
    BY <2>1, <2>2, <2>3, SettledExecuted DEF p
<1>17. ASSUME NEW w \in Workers, ReturnHandedOver(w) PROVE ActiveIsExecuted'
  <2>1. /\ workers[w].row \in Rows /\ crashes' = crashes /\ Done(w) /\ rows' = rows
        /\ rows[workers[w].row].status # "running"
    BY <1>17 DEF ReturnHandedOver, Chatted, ExecutesOne, TypeOK, bounds, rowVars
  <2>2. \A v \in Workers \ {w} : GoesOn(workers[v], workers'[v])
    BY <2>1, DoneEffect DEF GoesOn
  <2> QED
    BY <2>1, <2>2, SettledExecuted
<1>18. ASSUME NEW w \in Workers, Retry(w) PROVE ActiveIsExecuted'
  <2> DEFINE me == [workers[w] EXCEPT !.pc = "second"]
  <2>1. me \in Worker /\ me.pc \in {"first", "second"} /\ me.row = workers[w].row /\ me.row \in Rows
    <3>1. workers[w] \in Worker /\ RecordOK(workers[w]) /\ workers[w].chat # "none"
      BY <1>18 DEF Retry, ExecutesOne, RecordOK, TypeOK
    <3> QED
      BY <3>1 DEF RecordOK, Worker
  <2>2. /\ workers' = Registered(w, me.row, me) /\ rows' = rows /\ crashes' = crashes
    BY <1>18, <2>1 DEF Retry, rowVars, bounds
  <2> HIDE DEF me
  <2>3. /\ workers'[w].pc = me.pc /\ workers'[w].row = me.row
        /\ \A v \in Workers \ {w} : GoesOn(workers[v], workers'[v])
    <3>1. /\ Registered(w, me.row, me)[w] = [me EXCEPT !.chat = IF me.cut THEN "aborted" ELSE "open"]
          /\ \A v \in Workers \ {w} : GoesOn(workers[v], Registered(w, me.row, me)[v])
      BY <2>1, RegisteredEffect DEF TypeOK
    <3>2. /\ [me EXCEPT !.chat = IF me.cut THEN "aborted" ELSE "open"].pc = me.pc
          /\ [me EXCEPT !.chat = IF me.cut THEN "aborted" ELSE "open"].row = me.row
      BY <2>1 DEF Worker
    <3> QED
      BY <2>2, <3>1, <3>2
  <2>4. KeepsExecuting(workers, workers')
    BY <2>1, <2>3 DEF KeepsExecuting, GoesOn
  <2> QED
    BY <2>2, <2>4, AllExecuted
<1>19. ASSUME NEW w \in Workers, ReturnInvalid(w) PROVE ActiveIsExecuted'
  <2> DEFINE p == workers[w].row
  <2>1. p \in Rows /\ crashes' = crashes /\ Done(w) /\ rows' = Marked({p}, "failed")
    BY <1>19 DEF ReturnInvalid, Chatted, Settle, ExecutesOne, TypeOK, bounds
  <2> HIDE DEF p
  <2>2. /\ rows'[p].status # "running"
        /\ \A r \in Rows : rows'[r].status = "running" => rows[r].status = "running"
    BY <2>1, MarkedEffect DEF TypeOK, Stored
  <2>3. \A v \in Workers \ {w} : GoesOn(workers[v], workers'[v])
    BY <2>1, DoneEffect DEF GoesOn
  <2> QED
    BY <2>1, <2>2, <2>3, SettledExecuted DEF p
<1>20. ASSUME NEW w \in Workers, Throw(w) PROVE ActiveIsExecuted'
  <2> DEFINE p == workers[w].row
  <2>1. p \in Rows /\ crashes' = crashes /\ Done(w) /\ rows' = Marked({p}, "failed")
    BY <1>20 DEF Throw, Chatted, Settle, ExecutesOne, TypeOK, bounds
  <2> HIDE DEF p
  <2>2. /\ rows'[p].status # "running"
        /\ \A r \in Rows : rows'[r].status = "running" => rows[r].status = "running"
    BY <2>1, MarkedEffect DEF TypeOK, Stored
  <2>3. \A v \in Workers \ {w} : GoesOn(workers[v], workers'[v])
    BY <2>1, DoneEffect DEF GoesOn
  <2> QED
    BY <2>1, <2>2, <2>3, SettledExecuted DEF p
<1>21. ASSUME NEW r \in Rows, Cancel(r) PROVE ActiveIsExecuted'
  <2>1. \A v \in Workers : GoesOn(workers[v], workers'[v])
    BY <1>21, AbortChildrenEffect DEF Cancel, GoesOn, TypeOK
  <2>2. crashes' = crashes /\ \A q \in Rows : rows'[q].status = "running" => rows[q].status = "running"
    BY <1>21, MarkedEffect DEF Cancel, TypeOK, bounds
  <2> QED
    BY <2>1, <2>2, GoesOnExecuting, AllExecuted
<1>22. ASSUME NEW r \in Rows, Look(r) PROVE ActiveIsExecuted'
  <2>1. \A v \in Workers : GoesOn(workers[v], workers'[v])
    BY <1>22 DEF Look, GoesOn
  <2>2. rows' = rows /\ crashes' = crashes
    BY <1>22 DEF Look, rowVars, bounds
  <2> QED
    BY <2>1, <2>2, GoesOnExecuting, AllExecuted
<1>23. ASSUME List PROVE ActiveIsExecuted'
  <2>1. \A v \in Workers : GoesOn(workers[v], workers'[v])
    BY <1>23 DEF List, GoesOn
  <2>2. rows' = rows /\ crashes' = crashes
    BY <1>23 DEF List, rowVars, bounds
  <2> QED
    BY <2>1, <2>2, GoesOnExecuting, AllExecuted
<1>24. ASSUME DeleteParent PROVE ActiveIsExecuted'
  <2>1. AbortChildren(RunningListed, workers) \in [Workers -> Worker]
    BY AbortChildrenType DEF TypeOK
  <2>2. \A v \in Workers :
           /\ GoesOn(workers[v], AbortChildren(RunningListed, workers)[v])
           /\ GoesOn(workers[v], Cut(current, AbortChildren(RunningListed, workers))[v])
    BY <2>1, CutEffect, AbortChildrenEffect, GoesOnTwice DEF TypeOK
  <2>3. \A v \in Workers : GoesOn(workers[v], workers'[v])
    BY <1>24, <2>2 DEF DeleteParent
  <2>4. crashes' = crashes /\ \A q \in Rows : rows'[q].status = "running" => rows[q].status = "running"
    BY <1>24 DEF DeleteParent, NoRun, TypeOK, bounds
  <2> QED
    BY <2>3, <2>4, GoesOnExecuting, AllExecuted
<1>25. ASSUME Crash PROVE ActiveIsExecuted'
  BY <1>25, SubagentAssumption DEF Crash, ActiveIsExecuted, TypeOK
<1>26. CASE UNCHANGED vars
  BY <1>26 DEF vars, ActiveIsExecuted, Executes
<1> QED
  BY <1>1, <1>2, <1>3, <1>4, <1>5, <1>6, <1>7, <1>8, <1>9, <1>10, <1>11, <1>12, <1>13, <1>14, <1>15, <1>16, <1>17, <1>18, <1>19, <1>20, <1>21, <1>22, <1>23, <1>24, <1>25, <1>26 DEF Next, Work, Turn

-----------------------------------------------------------------------------
(***************************************************************************)
(* The chats of the children.                                              *)
(***************************************************************************)
LEMMA MarkedStored ==
    ASSUME rows \in [Rows -> Row], NEW R, NEW status \in Ended, rows' = Marked(R, status)
    PROVE  Stored' = Stored
BY MarkedEffect DEF Stored, Ended

\* A call whose chat is open is one whose chat was open.
KeepsOpen(a, b) ==
    \A v \in Workers : b[v].chat = "open" => a[v].chat = "open" /\ b[v].row = a[v].row

LEMMA GoesOnOpen ==
    ASSUME NEW a, NEW b, \A v \in Workers : GoesOn(a[v], b[v])
    PROVE  KeepsOpen(a, b)
BY DEF KeepsOpen, GoesOn

LEMMA ChatsKept ==
    ASSUME OneLiveChat, KeepsOpen(workers, workers'), Stored' \subseteq Stored,
           \A r \in Stored' : chatOf'[r] = chatOf[r]
    PROVE  OneLiveChat'
BY DEF OneLiveChat, KeepsOpen

\* Registering a chat aborts the one known before.
LEMMA RegisteredLive ==
    ASSUME TypeOK, OneLiveChat, NEW w \in Workers, NEW me \in Worker, me.row \in Rows,
           workers' = Registered(w, me.row, me), chatOf' = [chatOf EXCEPT ![me.row] = w],
           Stored' \subseteq Stored
    PROVE  OneLiveChat'
<1>1. /\ Registered(w, me.row, me)[w] = [me EXCEPT !.chat = IF me.cut THEN "aborted" ELSE "open"]
      /\ \A v \in Workers \ {w} :
            /\ GoesOn(workers[v], Registered(w, me.row, me)[v])
            /\ (workers[v].row = me.row /\ chatOf[me.row] = v) => Registered(w, me.row, me)[v].chat # "open"
  BY RegisteredEffect DEF TypeOK
<1>2. workers'[w].row = me.row
  BY <1>1 DEF Worker
<1>3. chatOf'[me.row] = w /\ \A q \in Rows \ {me.row} : chatOf'[q] = chatOf[q]
  BY DEF TypeOK
<1>4. ASSUME NEW v \in Workers \ {w}, workers'[v].chat = "open", workers'[v].row \in Stored'
      PROVE  chatOf'[workers'[v].row] = v
  <2>1. workers[v].chat = "open" /\ workers'[v].row = workers[v].row /\ workers[v].row \in Stored
    BY <1>1, <1>4 DEF GoesOn
  <2>2. chatOf[workers[v].row] = v /\ workers[v].row \in Rows
    BY <2>1 DEF OneLiveChat, Stored
  <2>3. workers[v].row # me.row
    BY <1>1, <1>4, <2>2
  <2> QED
    BY <1>3, <2>1, <2>2, <2>3
<1> QED
  BY <1>2, <1>3, <1>4 DEF OneLiveChat

LEMMA DoneLive ==
    ASSUME TypeOK, OneLiveChat, NEW w \in Workers, Done(w), Stored' \subseteq Stored
    PROVE  OneLiveChat'
<1>1. workers'[w].chat # "open" /\ \A v \in Workers \ {w} : workers'[v] = workers[v]
  BY DoneEffect DEF IdleWorker
<1>2. \A r \in Rows : chatOf[r] # w => chatOf'[r] = chatOf[r]
  BY DoneEffect
<1> QED
  BY <1>1, <1>2 DEF OneLiveChat, Stored

\* Every step leaves at most one chat of a child open, the known one.
LEMMA OneLiveChatStep ==
    ASSUME TypeOK, ExecutesOne, OneLiveChat, [Next]_vars
    PROVE  OneLiveChat'
<1>1. ASSUME NEW t \in Turns, OpenChat(t) PROVE OneLiveChat'
  <2>1. \A v \in Workers : GoesOn(workers[v], workers'[v])
    BY <1>1, CutEffect DEF OpenChat, GoesOn, TypeOK
  <2>2. Stored' \subseteq Stored /\ chatOf' = chatOf
    BY <1>1 DEF OpenChat, rowVars, Stored
  <2> QED
    BY <2>1, <2>2, GoesOnOpen, ChatsKept
<1>2. ASSUME NEW t \in Turns, EndTurn(t) PROVE OneLiveChat'
  <2>1. KeepsOpen(workers, workers')
    BY <1>2 DEF EndTurn, KeepsOpen, TypeOK, LeaveTurn
  <2>2. Stored' \subseteq Stored /\ chatOf' = chatOf
    BY <1>2 DEF EndTurn, rowVars, Stored, LeaveTurn
  <2> QED
    BY <2>1, <2>2, ChatsKept
<1>3. ASSUME NEW t \in Turns, Unwind(t) PROVE OneLiveChat'
  <2>1. \A v \in Workers : GoesOn(workers[v], workers'[v])
    BY <1>3, AbortChildrenEffect DEF Unwind, GoesOn, TypeOK
  <2>2. Stored' \subseteq Stored /\ chatOf' = chatOf
    BY <1>3, MarkedStored DEF Unwind, rowVars, TypeOK, Ended
  <2> QED
    BY <2>1, <2>2, GoesOnOpen, ChatsKept
<1>4. ASSUME NEW t \in Turns, LeaveStopped(t) PROVE OneLiveChat'
  <2>1. KeepsOpen(workers, workers')
    BY <1>4 DEF LeaveStopped, KeepsOpen, TypeOK, LeaveTurn
  <2>2. Stored' \subseteq Stored /\ chatOf' = chatOf
    BY <1>4 DEF LeaveStopped, rowVars, Stored, LeaveTurn
  <2> QED
    BY <2>1, <2>2, ChatsKept
<1>5. ASSUME Stop PROVE OneLiveChat'
  <2>1. AbortChildren(RunningListed, workers) \in [Workers -> Worker]
    BY AbortChildrenType DEF TypeOK
  <2>2. \A v \in Workers :
           /\ GoesOn(workers[v], AbortChildren(RunningListed, workers)[v])
           /\ GoesOn(workers[v], Cut(current, AbortChildren(RunningListed, workers))[v])
    BY <2>1, CutEffect, AbortChildrenEffect, GoesOnTwice DEF TypeOK
  <2>3. \A v \in Workers : GoesOn(workers[v], workers'[v])
    BY <1>5, <2>2 DEF Stop
  <2>4. Stored' = Stored /\ chatOf' = chatOf
    BY <1>5, MarkedStored DEF Stop, TypeOK, Ended
  <2> QED
    BY <2>3, <2>4, GoesOnOpen, ChatsKept
<1>6. ASSUME NEW r \in Rows, DeferTimer(r) PROVE OneLiveChat'
  <2>1. \A v \in Workers : GoesOn(workers[v], workers'[v])
    BY <1>6 DEF DeferTimer, GoesOn
  <2>2. Stored' \subseteq Stored /\ chatOf' = chatOf
    BY <1>6 DEF DeferTimer, rowVars, Stored
  <2> QED
    BY <2>1, <2>2, GoesOnOpen, ChatsKept
<1>7. ASSUME NEW t \in Turns, NEW w \in Workers, NEW k \in Kinds, NEW m \in Modes, CallRun(t, w, k, m) PROVE OneLiveChat'
  <2>1. KeepsOpen(workers, workers')
    BY <1>7 DEF CallRun, KeepsOpen, TypeOK, Calling, IdleWorker
  <2>2. Stored' \subseteq Stored /\ chatOf' = chatOf
    BY <1>7 DEF CallRun, rowVars, Stored
  <2> QED
    BY <2>1, <2>2, ChatsKept
<1>8. ASSUME NEW t \in Turns, NEW w \in Workers, NEW r \in Rows, NEW k \in Kinds, NEW m \in Modes, CallRestart(t, w, r, k, m) PROVE OneLiveChat'
  <2>1. KeepsOpen(workers, workers')
    BY <1>8 DEF CallRestart, KeepsOpen, TypeOK, Calling, IdleWorker
  <2>2. Stored' \subseteq Stored /\ chatOf' = chatOf
    BY <1>8 DEF CallRestart, rowVars, Stored
  <2> QED
    BY <2>1, <2>2, ChatsKept
<1>9. ASSUME NEW w \in Workers, Named(w) PROVE OneLiveChat'
  <2>1. workers[w] \in Worker /\ workers[w].chat = "none"
    BY <1>9 DEF Named, ExecutesOne, TypeOK
  <2>2. KeepsOpen(workers, workers')
    <3>1. IdleWorker.chat # "open" /\ [workers[w] EXCEPT !.pc = "creating"].chat # "open"
      BY <2>1 DEF IdleWorker, Worker
    <3>2. workers'[w].chat # "open" /\ \A v \in Workers \ {w} : workers'[v] = workers[v]
      BY <1>9, <3>1 DEF Named, TypeOK
    <3> QED
      BY <3>2 DEF KeepsOpen
  <2>3. Stored' \subseteq Stored /\ chatOf' = chatOf
    BY <1>9 DEF Named, rowVars, Stored
  <2> QED
    BY <2>2, <2>3, ChatsKept
<1>10. ASSUME NEW w \in Workers, Create(w) PROVE OneLiveChat'
  <2>1. PICK r \in Fresh : Execute(w, r, Entering(w, r), Untold(r))
    BY <1>10 DEF Create
  <2> DEFINE me == Entering(w, r)
  <2>2. r \in Rows /\ me \in Worker /\ child[r] # "used" /\ \A v \in Workers : workers[v].row # r
    BY EnteringType DEF Fresh
  <2>3. /\ workers' \in {[workers EXCEPT ![w] = IdleWorker],
                        [workers EXCEPT ![w] = [me EXCEPT !.chat = "opening"]]}
        /\ chatOf' = chatOf /\ \A q \in Rows \ {r} : rows'[q] = rows[q]
    BY <2>1, <2>2 DEF Execute, TypeOK
  <2> HIDE DEF me
  <2>4. workers'[w].chat # "open" /\ \A v \in Workers \ {w} : workers'[v] = workers[v]
    BY <2>2, <2>3 DEF TypeOK, IdleWorker, Worker
  <2> QED
    BY <2>2, <2>3, <2>4 DEF OneLiveChat, Stored
<1>11. ASSUME NEW w \in Workers, Restart(w) PROVE OneLiveChat'
  <2> DEFINE me == Entering(w, workers[w].row)
  <2>1. workers[w] \in Worker /\ workers[w].row \in Rows
    BY <1>11 DEF Restart, ExecutesOne, TypeOK
  <2>2. me \in Worker /\ me.row = workers[w].row
    BY <2>1, EnteringType, ZenonT(30) DEF Entering, Worker
  <2>3. CASE workers[w].row \in Stored
    <3>1. Stored' \subseteq Stored
      BY <1>11, <2>1, <2>3 DEF Restart, Execute, Stored, TypeOK
    <3>2. \/ /\ workers' \in {[workers EXCEPT ![w] = IdleWorker],
                             [workers EXCEPT ![w] = [me EXCEPT !.chat = "opening"]]}
             /\ chatOf' = chatOf
          \/ workers' = Registered(w, me.row, me) /\ chatOf' = [chatOf EXCEPT ![me.row] = w]
      BY <1>11, <2>2, <2>3 DEF Restart, Execute
    <3> HIDE DEF me
    <3>3. CASE workers' = Registered(w, me.row, me) /\ chatOf' = [chatOf EXCEPT ![me.row] = w]
      BY <2>1, <2>2, <3>1, <3>3, RegisteredLive
    <3>4. CASE /\ workers' \in {[workers EXCEPT ![w] = IdleWorker],
                               [workers EXCEPT ![w] = [me EXCEPT !.chat = "opening"]]}
               /\ chatOf' = chatOf
      <4>1. workers'[w].chat # "open" /\ \A v \in Workers \ {w} : workers'[v] = workers[v]
        BY <2>2, <3>4 DEF TypeOK, IdleWorker, Worker
      <4> QED
        BY <3>1, <3>4, <4>1, ChatsKept DEF KeepsOpen
    <3> QED
      BY <3>2, <3>3, <3>4
  <2>4. CASE workers[w].row \notin Stored
    <3>1. KeepsOpen(workers, workers') /\ Stored' = Stored /\ chatOf' = chatOf
      BY <1>11, <2>4 DEF Restart, KeepsOpen, IdleWorker, TypeOK, rowVars, Stored
    <3> QED
      BY <3>1, ChatsKept
  <2> QED
    BY <2>3, <2>4
<1>12. ASSUME NEW w \in Workers, Timeout(w) PROVE OneLiveChat'
  <2>1. KeepsOpen(workers, workers')
    BY <1>12 DEF Timeout, KeepsOpen, TypeOK, Worker
  <2>2. Stored' \subseteq Stored /\ chatOf' = chatOf
    BY <1>12 DEF Timeout, rowVars, Stored
  <2> QED
    BY <2>1, <2>2, ChatsKept
<1>13. ASSUME NEW w \in Workers, Register(w) PROVE OneLiveChat'
  <2> DEFINE me == workers[w]
  <2>1. me \in Worker /\ me.row = workers[w].row /\ me.row \in Rows
    <3>1. workers[w] \in Worker /\ RecordOK(workers[w]) /\ workers[w].chat # "none"
      BY <1>13 DEF Register, ExecutesOne, RecordOK, TypeOK
    <3> QED
      BY <3>1 DEF RecordOK, Worker
  <2>2. /\ workers' = Registered(w, me.row, me) /\ Stored' = Stored
        /\ chatOf' = [chatOf EXCEPT ![me.row] = w]
    BY <1>13, <2>1 DEF Register, rowVars, Stored
  <2> HIDE DEF me
  <2> QED
    BY <2>1, <2>2, RegisteredLive
<1>14. ASSUME NEW w \in Workers, Reply(w) PROVE OneLiveChat'
  <2>1. KeepsOpen(workers, workers')
    BY <1>14 DEF Reply, KeepsOpen, TypeOK, Worker
  <2>2. Stored' \subseteq Stored /\ chatOf' = chatOf
    BY <1>14 DEF Reply, rowVars, Stored
  <2> QED
    BY <2>1, <2>2, ChatsKept
<1>15. ASSUME NEW w \in Workers, NeedParent(w) PROVE OneLiveChat'
  <2>1. \A v \in Workers : GoesOn(workers[v], workers'[v])
    BY <1>15 DEF NeedParent, GoesOn
  <2>2. Stored' \subseteq Stored /\ chatOf' = chatOf
    BY <1>15, MarkedStored DEF NeedParent, rowVars, TypeOK, Ended
  <2> QED
    BY <2>1, <2>2, GoesOnOpen, ChatsKept
<1>16. ASSUME NEW w \in Workers, ReturnValid(w) PROVE OneLiveChat'
  <2>1. Done(w) /\ Stored' = Stored
    BY <1>16, MarkedStored DEF ReturnValid, Settle, TypeOK, Ended
  <2> QED
    BY <2>1, DoneLive
<1>17. ASSUME NEW w \in Workers, ReturnHandedOver(w) PROVE OneLiveChat'
  <2>1. Done(w) /\ Stored' = Stored
    BY <1>17 DEF ReturnHandedOver, rowVars, Stored
  <2> QED
    BY <2>1, DoneLive
<1>18. ASSUME NEW w \in Workers, Retry(w) PROVE OneLiveChat'
  <2> DEFINE me == [workers[w] EXCEPT !.pc = "second"]
  <2>1. me \in Worker /\ me.row = workers[w].row /\ me.row \in Rows
    <3>1. workers[w] \in Worker /\ RecordOK(workers[w]) /\ workers[w].chat # "none"
      BY <1>18 DEF Retry, ExecutesOne, RecordOK, TypeOK
    <3> QED
      BY <3>1 DEF RecordOK, Worker
  <2>2. /\ workers' = Registered(w, me.row, me) /\ Stored' = Stored
        /\ chatOf' = [chatOf EXCEPT ![me.row] = w]
    BY <1>18, <2>1 DEF Retry, rowVars, Stored
  <2> HIDE DEF me
  <2> QED
    BY <2>1, <2>2, RegisteredLive
<1>19. ASSUME NEW w \in Workers, ReturnInvalid(w) PROVE OneLiveChat'
  <2>1. Done(w) /\ Stored' = Stored
    BY <1>19, MarkedStored DEF ReturnInvalid, Settle, TypeOK, Ended
  <2> QED
    BY <2>1, DoneLive
<1>20. ASSUME NEW w \in Workers, Throw(w) PROVE OneLiveChat'
  <2>1. Done(w) /\ Stored' = Stored
    BY <1>20, MarkedStored DEF Throw, Settle, TypeOK, Ended
  <2> QED
    BY <2>1, DoneLive
<1>21. ASSUME NEW r \in Rows, Cancel(r) PROVE OneLiveChat'
  <2>1. \A v \in Workers : GoesOn(workers[v], workers'[v])
    BY <1>21, AbortChildrenEffect DEF Cancel, GoesOn, TypeOK
  <2>2. Stored' \subseteq Stored /\ chatOf' = chatOf
    BY <1>21, MarkedStored DEF Cancel, rowVars, TypeOK, Ended
  <2> QED
    BY <2>1, <2>2, GoesOnOpen, ChatsKept
<1>22. ASSUME NEW r \in Rows, Look(r) PROVE OneLiveChat'
  <2>1. \A v \in Workers : GoesOn(workers[v], workers'[v])
    BY <1>22 DEF Look, GoesOn
  <2>2. Stored' \subseteq Stored /\ chatOf' = chatOf
    BY <1>22 DEF Look, rowVars, Stored
  <2> QED
    BY <2>1, <2>2, GoesOnOpen, ChatsKept
<1>23. ASSUME List PROVE OneLiveChat'
  <2>1. \A v \in Workers : GoesOn(workers[v], workers'[v])
    BY <1>23 DEF List, GoesOn
  <2>2. Stored' \subseteq Stored /\ chatOf' = chatOf
    BY <1>23 DEF List, rowVars, Stored
  <2> QED
    BY <2>1, <2>2, GoesOnOpen, ChatsKept
<1>24. ASSUME DeleteParent PROVE OneLiveChat'
  <2>1. AbortChildren(RunningListed, workers) \in [Workers -> Worker]
    BY AbortChildrenType DEF TypeOK
  <2>2. \A v \in Workers :
           /\ GoesOn(workers[v], AbortChildren(RunningListed, workers)[v])
           /\ GoesOn(workers[v], Cut(current, AbortChildren(RunningListed, workers))[v])
    BY <2>1, CutEffect, AbortChildrenEffect, GoesOnTwice DEF TypeOK
  <2>3. \A v \in Workers : GoesOn(workers[v], workers'[v])
    BY <1>24, <2>2 DEF DeleteParent
  <2>4. Stored' \subseteq Stored /\ \A r \in Stored' : chatOf'[r] = chatOf[r]
    BY <1>24 DEF DeleteParent, NoRun, Stored, TypeOK
  <2> QED
    BY <2>3, <2>4, GoesOnOpen, ChatsKept
<1>25. ASSUME Crash PROVE OneLiveChat'
  BY <1>25 DEF Crash, OneLiveChat, IdleWorker
<1>26. CASE UNCHANGED vars
  BY <1>26 DEF vars, OneLiveChat, Stored
<1> QED
  BY <1>1, <1>2, <1>3, <1>4, <1>5, <1>6, <1>7, <1>8, <1>9, <1>10, <1>11, <1>12, <1>13, <1>14, <1>15, <1>16, <1>17, <1>18, <1>19, <1>20, <1>21, <1>22, <1>23, <1>24, <1>25, <1>26 DEF Next, Work, Turn

-----------------------------------------------------------------------------
(***************************************************************************)
(* The chats of the parent, and the calls that have not reached their rows. *)
(***************************************************************************)
\* Aborting the registered chat leaves none at work.
LEMMA AbortTurnLive ==
    ASSUME TypeOK, LiveIsCurrent
    PROVE  \A u \in Turns : AbortTurn(current)[u].phase # "live"
BY DEF AbortTurn, LiveIsCurrent, LiveTurn, TypeOK, TurnRecord

LEMMA NotifyLive ==
    ASSUME TypeOK, LiveIsCurrent, NEW R \in SUBSET Rows, NEW told, Notify(R, told), alive' = alive
    PROVE  /\ LiveIsCurrent'
           /\ \A t \in Turns : LiveTurn(t) => turns'[t] = turns[t]
<1>1. CASE alive /\ current = NoTurn /\ R \ inFlight # {}
  <2>1. PICK r \in R \ inFlight, t \in FreeTurns :
            turns' = [turns EXCEPT ![t] = [phase |-> "live", wake |-> r]] /\ current' = t
    BY <1>1 DEF Notify
  <2>2. \A u \in Turns : ~LiveTurn(u)
    BY <1>1, SubagentAssumption DEF LiveIsCurrent
  <2> QED
    BY <1>1, <2>1, <2>2 DEF LiveIsCurrent, LiveTurn, FreeTurns, TypeOK
<1>2. CASE ~(alive /\ current = NoTurn /\ R \ inFlight # {})
  BY <1>2 DEF Notify, LiveIsCurrent, LiveTurn
<1> QED
  BY <1>1, <1>2

LEMMA ExecuteLive ==
    ASSUME TypeOK, LiveIsCurrent, NEW w, NEW r \in Rows, NEW me, NEW told,
           Execute(w, r, me, told), alive' = alive
    PROVE  /\ LiveIsCurrent'
           /\ \A t \in Turns : LiveTurn(t) => turns'[t] = turns[t]
<1>1. CASE me.cut
  <2>1. Notify(IF me.mode = "background" THEN {r} ELSE {}, told)
    BY <1>1 DEF Execute
  <2>2. (IF me.mode = "background" THEN {r} ELSE {}) \in SUBSET Rows
    OBVIOUS
  <2> QED
    BY <2>1, <2>2, NotifyLive
<1>2. CASE ~me.cut
  BY <1>2 DEF Execute, LiveIsCurrent, LiveTurn
<1> QED
  BY <1>1, <1>2

\* Every step leaves the registered chat as the only one that works.
LEMMA LiveIsCurrentStep ==
    ASSUME TypeOK, ExecutesOne, LiveIsCurrent, [Next]_vars
    PROVE  LiveIsCurrent'
<1>1. ASSUME NEW t \in Turns, OpenChat(t) PROVE LiveIsCurrent'
  <2>1. AbortTurn(current) \in [Turns -> TurnRecord]
    BY AbortTurnType DEF TypeOK
  <2> QED
    BY <1>1, <2>1, AbortTurnLive DEF OpenChat, LiveIsCurrent, LiveTurn
<1>2. ASSUME NEW t \in Turns, EndTurn(t) PROVE LiveIsCurrent'
  BY <1>2, SubagentAssumption DEF EndTurn, LeaveTurn, IdleTurn, LiveIsCurrent, LiveTurn, TypeOK
<1>3. ASSUME NEW t \in Turns, Unwind(t) PROVE LiveIsCurrent'
  <2>1. alive' = TRUE /\ ~LiveTurn(t)
    BY <1>3 DEF Unwind, LiveTurn
  <2>2. CASE alive /\ current = NoTurn /\ Background(RunningListed) \ inFlight # {}
    <3>1. \A u \in Turns : ~LiveTurn(u)
      BY <2>2, SubagentAssumption DEF LiveIsCurrent
    <3>2. PICK r \in Background(RunningListed) \ inFlight, u \in FreeTurns :
              /\ turns' = [turns EXCEPT ![t].phase = "stopped", ![u] = [phase |-> "live", wake |-> r]]
              /\ current' = u
      BY <1>3, <2>2 DEF Unwind
    <3> QED
      BY <2>1, <3>1, <3>2 DEF LiveIsCurrent, LiveTurn, FreeTurns, TypeOK, TurnRecord
  <2>3. CASE ~(alive /\ current = NoTurn /\ Background(RunningListed) \ inFlight # {})
    BY <1>3, <2>1, <2>3 DEF Unwind, LiveIsCurrent, LiveTurn, TypeOK, TurnRecord
  <2> QED
    BY <2>2, <2>3
<1>4. ASSUME NEW t \in Turns, LeaveStopped(t) PROVE LiveIsCurrent'
  BY <1>4, SubagentAssumption DEF LeaveStopped, LeaveTurn, IdleTurn, LiveIsCurrent, LiveTurn, TypeOK
<1>5. ASSUME Stop PROVE LiveIsCurrent'
  <2>1. CASE alive /\ current = NoTurn /\ Background(RunningListed) # {}
    <3>1. \A u \in Turns : ~LiveTurn(u)
      BY <2>1, SubagentAssumption DEF LiveIsCurrent
    <3> QED
      BY <1>5, <2>1, <3>1 DEF Stop, LiveIsCurrent, LiveTurn, FreeTurns, TypeOK
  <2>2. CASE ~(alive /\ current = NoTurn /\ Background(RunningListed) # {})
    <3>1. turns' = AbortTurn(current)
      BY <1>5, <2>2 DEF Stop
    <3> QED
      BY <3>1, AbortTurnLive DEF LiveIsCurrent, LiveTurn
  <2> QED
    BY <2>1, <2>2
<1>6. ASSUME NEW r \in Rows, DeferTimer(r) PROVE LiveIsCurrent'
  BY <1>6, SubagentAssumption DEF DeferTimer, FreeTurns, LiveIsCurrent, LiveTurn, TypeOK
<1>7. ASSUME NEW t \in Turns, NEW w \in Workers, NEW k \in Kinds, NEW m \in Modes, CallRun(t, w, k, m) PROVE LiveIsCurrent'
  BY <1>7 DEF CallRun, turnVars, LiveIsCurrent, LiveTurn
<1>8. ASSUME NEW t \in Turns, NEW w \in Workers, NEW r \in Rows, NEW k \in Kinds, NEW m \in Modes, CallRestart(t, w, r, k, m) PROVE LiveIsCurrent'
  BY <1>8 DEF CallRestart, turnVars, LiveIsCurrent, LiveTurn
<1>9. ASSUME NEW w \in Workers, Named(w) PROVE LiveIsCurrent'
  BY <1>9 DEF Named, turnVars, LiveIsCurrent, LiveTurn
<1>10. ASSUME NEW w \in Workers, Create(w) PROVE LiveIsCurrent'
  <2>1. PICK r \in Fresh : Execute(w, r, Entering(w, r), Untold(r))
    BY <1>10 DEF Create
  <2>2. r \in Rows /\ alive' = alive
    BY <1>10 DEF Create, Fresh
  <2> QED
    BY <2>1, <2>2, ExecuteLive
<1>11. ASSUME NEW w \in Workers, Restart(w) PROVE LiveIsCurrent'
  <2>1. workers[w].row \in Rows /\ alive' = alive
    BY <1>11 DEF Restart, ExecutesOne
  <2>2. CASE workers[w].row \in Stored
    BY <1>11, <2>1, <2>2, ExecuteLive DEF Restart
  <2>3. CASE workers[w].row \notin Stored
    BY <1>11, <2>3 DEF Restart, LiveIsCurrent, LiveTurn
  <2> QED
    BY <2>2, <2>3
<1>12. ASSUME NEW w \in Workers, Timeout(w) PROVE LiveIsCurrent'
  BY <1>12 DEF Timeout, turnVars, LiveIsCurrent, LiveTurn
<1>13. ASSUME NEW w \in Workers, Register(w) PROVE LiveIsCurrent'
  BY <1>13 DEF Register, turnVars, LiveIsCurrent, LiveTurn
<1>14. ASSUME NEW w \in Workers, Reply(w) PROVE LiveIsCurrent'
  BY <1>14 DEF Reply, turnVars, LiveIsCurrent, LiveTurn
<1>15. ASSUME NEW w \in Workers, NeedParent(w) PROVE LiveIsCurrent'
  <2>1. Background({workers[w].row}) \in SUBSET Rows /\ alive' = alive
    BY <1>15 DEF NeedParent, Background, ExecutesOne
  <2> QED
    BY <1>15, <2>1, NotifyLive DEF NeedParent
<1>16. ASSUME NEW w \in Workers, ReturnValid(w) PROVE LiveIsCurrent'
  <2>1. Background({workers[w].row} \cap Stored) \in SUBSET Rows /\ alive' = alive
    BY <1>16 DEF ReturnValid, Background, Stored
  <2> QED
    BY <1>16, <2>1, NotifyLive DEF ReturnValid, Settle
<1>17. ASSUME NEW w \in Workers, ReturnHandedOver(w) PROVE LiveIsCurrent'
  BY <1>17 DEF ReturnHandedOver, turnVars, LiveIsCurrent, LiveTurn
<1>18. ASSUME NEW w \in Workers, Retry(w) PROVE LiveIsCurrent'
  BY <1>18 DEF Retry, turnVars, LiveIsCurrent, LiveTurn
<1>19. ASSUME NEW w \in Workers, ReturnInvalid(w) PROVE LiveIsCurrent'
  <2>1. Background({workers[w].row} \cap Stored) \in SUBSET Rows /\ alive' = alive
    BY <1>19 DEF ReturnInvalid, Background, Stored
  <2> QED
    BY <1>19, <2>1, NotifyLive DEF ReturnInvalid, Settle
<1>20. ASSUME NEW w \in Workers, Throw(w) PROVE LiveIsCurrent'
  <2>1. Background({workers[w].row} \cap Stored) \in SUBSET Rows /\ alive' = alive
    BY <1>20 DEF Throw, Background, Stored
  <2> QED
    BY <1>20, <2>1, NotifyLive DEF Throw, Settle
<1>21. ASSUME NEW r \in Rows, Cancel(r) PROVE LiveIsCurrent'
  <2>1. Background({r}) \in SUBSET Rows /\ alive' = alive
    BY <1>21 DEF Cancel, Background
  <2> QED
    BY <1>21, <2>1, NotifyLive DEF Cancel
<1>22. ASSUME NEW r \in Rows, Look(r) PROVE LiveIsCurrent'
  BY <1>22 DEF Look, turnVars, LiveIsCurrent, LiveTurn
<1>23. ASSUME List PROVE LiveIsCurrent'
  BY <1>23 DEF List, turnVars, LiveIsCurrent, LiveTurn
<1>24. ASSUME DeleteParent PROVE LiveIsCurrent'
  BY <1>24, SubagentAssumption DEF DeleteParent, AbortTurn, LiveIsCurrent, LiveTurn, TypeOK, TurnRecord
<1>25. ASSUME Crash PROVE LiveIsCurrent'
  BY <1>25 DEF Crash, IdleTurn, LiveIsCurrent, LiveTurn
<1>26. CASE UNCHANGED vars
  BY <1>26 DEF vars, LiveIsCurrent, LiveTurn
<1> QED
  BY <1>1, <1>2, <1>3, <1>4, <1>5, <1>6, <1>7, <1>8, <1>9, <1>10, <1>11, <1>12, <1>13, <1>14, <1>15, <1>16, <1>17, <1>18, <1>19, <1>20, <1>21, <1>22, <1>23, <1>24, <1>25, <1>26 DEF Next, Work, Turn

\* A call that has not reached its row was there before, and only its look for a
\* duplicate brings it to the title of the child ...
Stays(v) ==
    /\ Early(v)
    /\ workers'[v].kind = workers[v].kind
    /\ \/ workers'[v].cut
       \/ /\ workers'[v].cut = workers[v].cut /\ workers'[v].awaited = workers[v].awaited
          /\ workers'[v].turn = workers[v].turn
          /\ LiveTurn(workers[v].turn) => turns'[workers[v].turn].phase = "live"
    /\ workers'[v].pc = "creating" =>
          \/ workers[v].pc = "creating"
          \/ Duplicates(workers[v].kind) = {} /\ rows' = rows

\* ... or is the call that a working chat makes in this step, which then waits.
Called(v) ==
    /\ workers'[v].pc \in {"naming", "renaming"}
    /\ workers'[v].awaited /\ workers'[v].turn \in Turns
    /\ turns'[workers'[v].turn].phase = "live"
    /\ \A u \in Workers \ {v} :
          /\ workers'[u] = workers[u]
          /\ Early(u) => workers[u].cut

LiveKept == \A t \in Turns : LiveTurn(t) => turns'[t] = turns[t]

LEMMA OthersStay ==
    ASSUME EarlyIsAwaited, LiveKept, NEW w \in Workers,
           \A v \in Workers \ {w} : GoesOn(workers[v], workers'[v]),
           workers'[w].pc \in {"idle", "first", "second"}
    PROVE  \A v \in Workers : Early(v)' => Stays(v)
BY DEF Stays, Early, GoesOn, LiveKept, LiveTurn, EarlyIsAwaited

LEMMA AllStay ==
    ASSUME EarlyIsAwaited, LiveKept, \A v \in Workers : GoesOn(workers[v], workers'[v])
    PROVE  \A v \in Workers : Early(v)' => Stays(v)
BY DEF Stays, Early, GoesOn, LiveKept, LiveTurn, EarlyIsAwaited

LEMMA CutStay ==
    ASSUME LiveIsCurrent, EarlyIsAwaited,
           \A v \in Workers :
              /\ GoesOn(workers[v], workers'[v])
              /\ (workers[v].turn = current /\ current # NoTurn) => workers'[v].cut
    PROVE  \A v \in Workers : Early(v)' => Stays(v)
<1>1. ASSUME NEW v \in Workers, Early(v) PROVE workers'[v].cut
  <2>1. CASE workers[v].cut
    BY <2>1 DEF GoesOn
  <2>2. CASE ~workers[v].cut
    <3>1. workers[v].turn \in Turns /\ LiveTurn(workers[v].turn)
      BY <1>1, <2>2 DEF EarlyIsAwaited
    <3>2. workers[v].turn = current /\ current # NoTurn
      BY <3>1, SubagentAssumption DEF LiveIsCurrent
    <3> QED
      BY <3>2
  <2> QED
    BY <2>1, <2>2
<1>2. ASSUME NEW v \in Workers, Early(v)' PROVE Stays(v)
  <2>1. /\ Early(v) /\ workers'[v].kind = workers[v].kind /\ workers'[v].pc = workers[v].pc
    BY <1>2 DEF GoesOn, Early
  <2>2. workers'[v].cut
    BY <1>1, <2>1
  <2> QED
    BY <2>1, <2>2 DEF Stays
<1> QED
  BY <1>2

LEMMA LeaveStay ==
    ASSUME TypeOK, EarlyIsAwaited, NEW t \in Turns, LeaveTurn(t),
           \A v \in Workers : Early(v) => workers[v].cut \/ workers[v].turn # t
    PROVE  \A v \in Workers : Early(v)' => Stays(v)
<1>1. \A v \in Workers :
         /\ workers'[v].pc = workers[v].pc /\ workers'[v].kind = workers[v].kind
         /\ workers'[v].cut = workers[v].cut /\ workers'[v].awaited = workers[v].awaited
         /\ workers[v].turn # t => workers'[v].turn = workers[v].turn
  BY DEF LeaveTurn, TypeOK, Worker
<1>2. \A u \in Turns : u # t => turns'[u] = turns[u]
  BY DEF LeaveTurn, TypeOK
<1> QED
  BY <1>1, <1>2 DEF Stays, Early, EarlyIsAwaited, LiveTurn

LEMMA ExecuteStay ==
    ASSUME TypeOK, ExecutesOne, LiveIsCurrent, EarlyIsAwaited,
           NEW w \in Workers, workers[w].pc \in {"creating", "renaming"},
           NEW r \in Rows, NEW told, Execute(w, r, Entering(w, r), told), alive' = alive
    PROVE  \A v \in Workers : Early(v)' => Stays(v)
<1> DEFINE me == Entering(w, r)
<1>1. me \in Worker /\ me.pc = "first" /\ me.kind \in Kinds
  <2>1. workers[w] \in Worker /\ workers[w].kind \in Kinds
    BY DEF ExecutesOne, TypeOK
  <2>2. me.pc = "first" /\ me.kind \in Kinds
    BY <2>1 DEF Entering, Worker
  <2> QED
    BY <2>2, EnteringType
<1>2. \A v \in Workers \ {w} : GoesOn(workers[v], workers'[v])
  BY <1>1, ExecuteRecords
<1>3. LiveKept
  BY ExecuteLive DEF LiveKept
<1>4. workers' \in {[workers EXCEPT ![w] = IdleWorker], Registered(w, r, me),
                   [workers EXCEPT ![w] = [me EXCEPT !.chat = "opening"]]}
  BY DEF Execute
<1> HIDE DEF me
<1>5. Registered(w, r, me)[w] = [me EXCEPT !.chat = IF me.cut THEN "aborted" ELSE "open"]
  BY <1>1, RegisteredEffect DEF TypeOK
<1>6. workers'[w].pc \in {"idle", "first"}
  BY <1>1, <1>4, <1>5 DEF TypeOK, IdleWorker, Worker
<1> QED
  BY <1>2, <1>3, <1>6, OthersStay

LEMMA EarlyStep ==
    ASSUME TypeOK, ExecutesOne, LiveIsCurrent, EarlyIsAwaited, [Next]_vars
    PROVE  \A v \in Workers : Early(v)' => Stays(v) \/ Called(v)
<1>1. ASSUME NEW t \in Turns, OpenChat(t) PROVE \A v \in Workers : Early(v)' => Stays(v) \/ Called(v)
  <2>1. workers' = Cut(current, workers)
    BY <1>1 DEF OpenChat
  <2> QED
    BY <2>1, CutEffect, CutStay DEF TypeOK
<1>2. ASSUME NEW t \in Turns, EndTurn(t) PROVE \A v \in Workers : Early(v)' => Stays(v) \/ Called(v)
  <2>1. LeaveTurn(t) /\ \A v \in Workers : Early(v) => workers[v].cut \/ workers[v].turn # t
    BY <1>2 DEF EndTurn, EarlyIsAwaited
  <2> QED
    BY <2>1, LeaveStay
<1>3. ASSUME NEW t \in Turns, Unwind(t) PROVE \A v \in Workers : Early(v)' => Stays(v) \/ Called(v)
  <2>1. \A v \in Workers : GoesOn(workers[v], workers'[v])
    BY <1>3, AbortChildrenEffect DEF Unwind, GoesOn, TypeOK
  <2>2. LiveKept
    <3>1. ~LiveTurn(t)
      BY <1>3 DEF Unwind, LiveTurn
    <3>2. CASE alive /\ current = NoTurn /\ Background(RunningListed) \ inFlight # {}
      BY <3>2, SubagentAssumption DEF LiveIsCurrent, LiveKept
    <3>3. CASE ~(alive /\ current = NoTurn /\ Background(RunningListed) \ inFlight # {})
      BY <1>3, <3>1, <3>3 DEF Unwind, LiveKept, TypeOK
    <3> QED
      BY <3>2, <3>3
  <2> QED
    BY <2>1, <2>2, AllStay
<1>4. ASSUME NEW t \in Turns, LeaveStopped(t) PROVE \A v \in Workers : Early(v)' => Stays(v) \/ Called(v)
  <2>1. LeaveTurn(t) /\ \A v \in Workers : Early(v) => workers[v].cut \/ workers[v].turn # t
    BY <1>4 DEF LeaveStopped, EarlyIsAwaited, LiveTurn
  <2> QED
    BY <2>1, LeaveStay
<1>5. ASSUME Stop PROVE \A v \in Workers : Early(v)' => Stays(v) \/ Called(v)
  <2>1. /\ AbortChildren(RunningListed, workers) \in [Workers -> Worker]
        /\ \A v \in Workers : GoesOn(workers[v], AbortChildren(RunningListed, workers)[v])
    BY AbortChildrenType, AbortChildrenEffect DEF TypeOK
  <2>2. CASE alive /\ current = NoTurn /\ Background(RunningListed) # {}
    <3>1. LiveKept
      BY <2>2, SubagentAssumption DEF LiveIsCurrent, LiveKept
    <3>2. workers' = AbortChildren(RunningListed, workers)
      BY <1>5, <2>2 DEF Stop
    <3> QED
      BY <2>1, <3>1, <3>2, AllStay
  <2>3. CASE ~(alive /\ current = NoTurn /\ Background(RunningListed) # {})
    <3>1. workers' = Cut(current, AbortChildren(RunningListed, workers))
      BY <1>5, <2>3 DEF Stop
    <3>2. \A v \in Workers :
             /\ GoesOn(workers[v], workers'[v])
             /\ (workers[v].turn = current /\ current # NoTurn) => workers'[v].cut
      BY <2>1, <3>1, CutEffect, GoesOnTwice DEF GoesOn
    <3> QED
      BY <3>2, CutStay
  <2> QED
    BY <2>2, <2>3
<1>6. ASSUME NEW r \in Rows, DeferTimer(r) PROVE \A v \in Workers : Early(v)' => Stays(v) \/ Called(v)
  <2>1. \A v \in Workers : GoesOn(workers[v], workers'[v])
    BY <1>6 DEF DeferTimer, GoesOn
  <2>2. LiveKept
    BY <1>6, SubagentAssumption DEF DeferTimer, LiveIsCurrent, LiveKept
  <2> QED
    BY <2>1, <2>2, AllStay
<1>7. ASSUME NEW t \in Turns, NEW w \in Workers, NEW k \in Kinds, NEW m \in Modes, CallRun(t, w, k, m) PROVE \A v \in Workers : Early(v)' => Stays(v) \/ Called(v)
  <2>1. /\ workers' = [workers EXCEPT ![w] = Calling(t, "naming", NoRow, k, m)] /\ turns' = turns
        /\ LiveTurn(t) /\ \A v \in Workers : workers[v].turn = t => ~workers[v].awaited
    BY <1>7 DEF CallRun, MayCall, turnVars
  <2>2. /\ workers'[w].pc = "naming" /\ workers'[w].awaited /\ workers'[w].turn = t
        /\ \A v \in Workers \ {w} : workers'[v] = workers[v]
    BY <2>1 DEF TypeOK, Calling, IdleWorker
  <2>3. \A v \in Workers : Early(v) => workers[v].cut
    BY <2>1 DEF EarlyIsAwaited, LiveIsCurrent
  <2>4. Called(w)
    BY <2>1, <2>2, <2>3 DEF Called, LiveTurn
  <2>5. \A v \in Workers \ {w} : Early(v)' => Stays(v)
    BY <2>1, <2>2, <2>3 DEF Stays, Early
  <2> QED
    BY <2>4, <2>5
<1>8. ASSUME NEW t \in Turns, NEW w \in Workers, NEW r \in Rows, NEW k \in Kinds, NEW m \in Modes, CallRestart(t, w, r, k, m) PROVE \A v \in Workers : Early(v)' => Stays(v) \/ Called(v)
  <2>1. /\ workers' = [workers EXCEPT ![w] = Calling(t, "renaming", r, k, m)] /\ turns' = turns
        /\ LiveTurn(t) /\ \A v \in Workers : workers[v].turn = t => ~workers[v].awaited
    BY <1>8 DEF CallRestart, MayCall, turnVars
  <2>2. /\ workers'[w].pc = "renaming" /\ workers'[w].awaited /\ workers'[w].turn = t
        /\ \A v \in Workers \ {w} : workers'[v] = workers[v]
    BY <2>1 DEF TypeOK, Calling, IdleWorker
  <2>3. \A v \in Workers : Early(v) => workers[v].cut
    BY <2>1 DEF EarlyIsAwaited, LiveIsCurrent
  <2>4. Called(w)
    BY <2>1, <2>2, <2>3 DEF Called, LiveTurn
  <2>5. \A v \in Workers \ {w} : Early(v)' => Stays(v)
    BY <2>1, <2>2, <2>3 DEF Stays, Early
  <2> QED
    BY <2>4, <2>5
<1>9. ASSUME NEW w \in Workers, Named(w) PROVE \A v \in Workers : Early(v)' => Stays(v) \/ Called(v)
  <2>1. workers[w] \in Worker /\ Early(w)
    BY <1>9 DEF Named, TypeOK, Early
  <2>2. turns' = turns /\ rows' = rows /\ \A v \in Workers \ {w} : workers'[v] = workers[v]
    BY <1>9 DEF Named, turnVars, TypeOK
  <2>3. \A v \in Workers \ {w} : Early(v)' => Stays(v)
    BY <2>2 DEF Stays, Early, LiveTurn
  <2>4. CASE Duplicates(workers[w].kind) # {}
    <3>1. workers'[w] = IdleWorker
      BY <1>9, <2>4 DEF Named, TypeOK
    <3>2. ~Early(w)'
      BY <3>1 DEF Early, IdleWorker
    <3> QED
      BY <2>3, <3>2
  <2>5. CASE Duplicates(workers[w].kind) = {}
    <3>1. workers'[w] = [workers[w] EXCEPT !.pc = "creating"]
      BY <1>9, <2>5 DEF Named, TypeOK
    <3>2. /\ workers'[w].kind = workers[w].kind /\ workers'[w].cut = workers[w].cut
          /\ workers'[w].awaited = workers[w].awaited /\ workers'[w].turn = workers[w].turn
      BY <2>1, <3>1 DEF Worker
    <3>3. Stays(w)
      BY <2>1, <2>2, <2>5, <3>2 DEF Stays, LiveTurn
    <3> QED
      BY <2>3, <3>3
  <2> QED
    BY <2>4, <2>5
<1>10. ASSUME NEW w \in Workers, Create(w) PROVE \A v \in Workers : Early(v)' => Stays(v) \/ Called(v)
  <2>1. PICK r \in Fresh : Execute(w, r, Entering(w, r), Untold(r))
    BY <1>10 DEF Create
  <2>2. r \in Rows /\ workers[w].pc = "creating" /\ alive' = alive
    BY <1>10 DEF Create, Fresh
  <2> QED
    BY <2>1, <2>2, ExecuteStay
<1>11. ASSUME NEW w \in Workers, Restart(w) PROVE \A v \in Workers : Early(v)' => Stays(v) \/ Called(v)
  <2>1. workers[w].row \in Rows /\ alive' = alive /\ workers[w].pc = "renaming"
    BY <1>11 DEF Restart, ExecutesOne
  <2>2. CASE workers[w].row \in Stored
    BY <1>11, <2>1, <2>2, ExecuteStay DEF Restart
  <2>3. CASE workers[w].row \notin Stored
    <3>1. /\ workers'[w].pc = "idle" /\ turns' = turns
          /\ \A v \in Workers \ {w} : workers'[v] = workers[v]
      BY <1>11, <2>3 DEF Restart, IdleWorker, TypeOK
    <3> QED
      BY <3>1, OthersStay DEF GoesOn, LiveKept
  <2> QED
    BY <2>2, <2>3
<1>12. ASSUME NEW w \in Workers, Timeout(w) PROVE \A v \in Workers : Early(v)' => Stays(v) \/ Called(v)
  <2>1. /\ turns' = turns /\ workers'[w].pc \in {"first", "second"}
        /\ \A v \in Workers \ {w} : workers'[v] = workers[v]
    BY <1>12 DEF Timeout, turnVars, ExecutesOne, TypeOK, Worker
  <2> QED
    BY <2>1, OthersStay DEF GoesOn, LiveKept
<1>13. ASSUME NEW w \in Workers, Register(w) PROVE \A v \in Workers : Early(v)' => Stays(v) \/ Called(v)
  <2> DEFINE me == workers[w]
  <2>1. me \in Worker /\ me.row = workers[w].row /\ me.row \in Rows /\ me.pc \in {"first", "second"}
    <3>1. workers[w] \in Worker /\ RecordOK(workers[w]) /\ workers[w].chat # "none"
      BY <1>13 DEF Register, ExecutesOne, RecordOK, TypeOK
    <3> QED
      BY <3>1 DEF RecordOK, Worker
  <2>2. workers' = Registered(w, me.row, me) /\ turns' = turns
    BY <1>13, <2>1 DEF Register, turnVars
  <2> HIDE DEF me
  <2>3. /\ Registered(w, me.row, me)[w] = [me EXCEPT !.chat = IF me.cut THEN "aborted" ELSE "open"]
        /\ \A v \in Workers \ {w} : GoesOn(workers[v], Registered(w, me.row, me)[v])
    BY <2>1, RegisteredEffect DEF TypeOK
  <2>4. workers'[w].pc \in {"first", "second"}
    BY <2>1, <2>2, <2>3 DEF Worker
  <2> QED
    BY <2>2, <2>3, <2>4, OthersStay DEF LiveKept
<1>14. ASSUME NEW w \in Workers, Reply(w) PROVE \A v \in Workers : Early(v)' => Stays(v) \/ Called(v)
  <2>1. /\ turns' = turns /\ workers'[w].pc \in {"first", "second"}
        /\ \A v \in Workers \ {w} : workers'[v] = workers[v]
    BY <1>14 DEF Reply, turnVars, ExecutesOne, TypeOK, Worker
  <2> QED
    BY <2>1, OthersStay DEF GoesOn, LiveKept
<1>15. ASSUME NEW w \in Workers, NeedParent(w) PROVE \A v \in Workers : Early(v)' => Stays(v) \/ Called(v)
  <2>1. \A v \in Workers : GoesOn(workers[v], workers'[v])
    BY <1>15 DEF NeedParent, GoesOn
  <2>2. LiveKept
    <3>1. Background({workers[w].row}) \in SUBSET Rows /\ alive' = alive
      BY <1>15 DEF NeedParent, Background, ExecutesOne
    <3> QED
      BY <1>15, <3>1, NotifyLive DEF NeedParent, LiveKept
  <2> QED
    BY <2>1, <2>2, AllStay
<1>16. ASSUME NEW w \in Workers, ReturnValid(w) PROVE \A v \in Workers : Early(v)' => Stays(v) \/ Called(v)
  <2>1. LiveKept
    <3>1. Background({workers[w].row} \cap Stored) \in SUBSET Rows /\ alive' = alive
      BY <1>16 DEF ReturnValid, Background, Stored
    <3> QED
      BY <1>16, <3>1, NotifyLive DEF ReturnValid, Settle, LiveKept
  <2>2. workers'[w].pc = "idle" /\ \A v \in Workers \ {w} : GoesOn(workers[v], workers'[v])
    BY <1>16, DoneEffect DEF ReturnValid, Settle, IdleWorker, GoesOn
  <2> QED
    BY <2>1, <2>2, OthersStay
<1>17. ASSUME NEW w \in Workers, ReturnHandedOver(w) PROVE \A v \in Workers : Early(v)' => Stays(v) \/ Called(v)
  <2>1. turns' = turns /\ workers'[w].pc = "idle" /\ \A v \in Workers \ {w} : GoesOn(workers[v], workers'[v])
    BY <1>17, DoneEffect DEF ReturnHandedOver, turnVars, IdleWorker, GoesOn
  <2> QED
    BY <2>1, OthersStay DEF LiveKept
<1>18. ASSUME NEW w \in Workers, Retry(w) PROVE \A v \in Workers : Early(v)' => Stays(v) \/ Called(v)
  <2> DEFINE me == [workers[w] EXCEPT !.pc = "second"]
  <2>1. me \in Worker /\ me.row = workers[w].row /\ me.row \in Rows /\ me.pc \in {"first", "second"}
    <3>1. workers[w] \in Worker /\ RecordOK(workers[w]) /\ workers[w].chat # "none"
      BY <1>18 DEF Retry, ExecutesOne, RecordOK, TypeOK
    <3> QED
      BY <3>1 DEF RecordOK, Worker
  <2>2. workers' = Registered(w, me.row, me) /\ turns' = turns
    BY <1>18, <2>1 DEF Retry, turnVars
  <2> HIDE DEF me
  <2>3. /\ Registered(w, me.row, me)[w] = [me EXCEPT !.chat = IF me.cut THEN "aborted" ELSE "open"]
        /\ \A v \in Workers \ {w} : GoesOn(workers[v], Registered(w, me.row, me)[v])
    BY <2>1, RegisteredEffect DEF TypeOK
  <2>4. workers'[w].pc \in {"first", "second"}
    BY <2>1, <2>2, <2>3 DEF Worker
  <2> QED
    BY <2>2, <2>3, <2>4, OthersStay DEF LiveKept
<1>19. ASSUME NEW w \in Workers, ReturnInvalid(w) PROVE \A v \in Workers : Early(v)' => Stays(v) \/ Called(v)
  <2>1. LiveKept
    <3>1. Background({workers[w].row} \cap Stored) \in SUBSET Rows /\ alive' = alive
      BY <1>19 DEF ReturnInvalid, Background, Stored
    <3> QED
      BY <1>19, <3>1, NotifyLive DEF ReturnInvalid, Settle, LiveKept
  <2>2. workers'[w].pc = "idle" /\ \A v \in Workers \ {w} : GoesOn(workers[v], workers'[v])
    BY <1>19, DoneEffect DEF ReturnInvalid, Settle, IdleWorker, GoesOn
  <2> QED
    BY <2>1, <2>2, OthersStay
<1>20. ASSUME NEW w \in Workers, Throw(w) PROVE \A v \in Workers : Early(v)' => Stays(v) \/ Called(v)
  <2>1. LiveKept
    <3>1. Background({workers[w].row} \cap Stored) \in SUBSET Rows /\ alive' = alive
      BY <1>20 DEF Throw, Background, Stored
    <3> QED
      BY <1>20, <3>1, NotifyLive DEF Throw, Settle, LiveKept
  <2>2. workers'[w].pc = "idle" /\ \A v \in Workers \ {w} : GoesOn(workers[v], workers'[v])
    BY <1>20, DoneEffect DEF Throw, Settle, IdleWorker, GoesOn
  <2> QED
    BY <2>1, <2>2, OthersStay
<1>21. ASSUME NEW r \in Rows, Cancel(r) PROVE \A v \in Workers : Early(v)' => Stays(v) \/ Called(v)
  <2>1. \A v \in Workers : GoesOn(workers[v], workers'[v])
    BY <1>21, AbortChildrenEffect DEF Cancel, GoesOn, TypeOK
  <2>2. LiveKept
    <3>1. Background({r}) \in SUBSET Rows /\ alive' = alive
      BY <1>21 DEF Cancel, Background
    <3> QED
      BY <1>21, <3>1, NotifyLive DEF Cancel, LiveKept
  <2> QED
    BY <2>1, <2>2, AllStay
<1>22. ASSUME NEW r \in Rows, Look(r) PROVE \A v \in Workers : Early(v)' => Stays(v) \/ Called(v)
  <2>1. \A v \in Workers : GoesOn(workers[v], workers'[v])
    BY <1>22 DEF Look, GoesOn
  <2>2. LiveKept
    BY <1>22 DEF Look, turnVars, LiveKept
  <2> QED
    BY <2>1, <2>2, AllStay
<1>23. ASSUME List PROVE \A v \in Workers : Early(v)' => Stays(v) \/ Called(v)
  <2>1. \A v \in Workers : GoesOn(workers[v], workers'[v])
    BY <1>23 DEF List, GoesOn
  <2>2. LiveKept
    BY <1>23 DEF List, turnVars, LiveKept
  <2> QED
    BY <2>1, <2>2, AllStay
<1>24. ASSUME DeleteParent PROVE \A v \in Workers : Early(v)' => Stays(v) \/ Called(v)
  <2>1. /\ AbortChildren(RunningListed, workers) \in [Workers -> Worker]
        /\ \A v \in Workers : GoesOn(workers[v], AbortChildren(RunningListed, workers)[v])
    BY AbortChildrenType, AbortChildrenEffect DEF TypeOK
  <2>2. workers' = Cut(current, AbortChildren(RunningListed, workers))
    BY <1>24 DEF DeleteParent
  <2>3. \A v \in Workers :
           /\ GoesOn(workers[v], workers'[v])
           /\ (workers[v].turn = current /\ current # NoTurn) => workers'[v].cut
    BY <2>1, <2>2, CutEffect, GoesOnTwice DEF GoesOn
  <2> QED
    BY <2>3, CutStay
<1>25. ASSUME Crash PROVE \A v \in Workers : Early(v)' => Stays(v) \/ Called(v)
  BY <1>25 DEF Crash, Early, IdleWorker
<1>26. CASE UNCHANGED vars
  BY <1>26 DEF vars, Stays, Early, LiveTurn
<1> QED
  BY <1>1, <1>2, <1>3, <1>4, <1>5, <1>6, <1>7, <1>8, <1>9, <1>10, <1>11, <1>12, <1>13, <1>14, <1>15, <1>16, <1>17, <1>18, <1>19, <1>20, <1>21, <1>22, <1>23, <1>24, <1>25, <1>26 DEF Next, Work, Turn

LEMMA EarlyIsAwaitedStep ==
    ASSUME TypeOK, ExecutesOne, LiveIsCurrent, EarlyIsAwaited, [Next]_vars
    PROVE  EarlyIsAwaited'
<1>1. \A v \in Workers : Early(v)' => Stays(v) \/ Called(v)
  BY EarlyStep
<1>2. ASSUME NEW v \in Workers, Early(v)'
      PROVE  workers'[v].cut \/ (workers'[v].awaited /\ workers'[v].turn \in Turns
                                /\ turns'[workers'[v].turn].phase = "live")
  BY <1>1, <1>2 DEF Stays, Called, EarlyIsAwaited, LiveTurn
<1>3. ASSUME NEW v \in Workers, NEW w \in Workers, Early(v)', Early(w)',
             ~workers'[v].cut, ~workers'[w].cut
      PROVE  v = w
  <2>1. ASSUME NEW u \in Workers, Stays(u), ~workers'[u].cut PROVE Early(u) /\ ~workers[u].cut
    BY <2>1 DEF Stays
  <2>2. ASSUME NEW u \in Workers, NEW x \in Workers, Called(x), Early(u)', ~workers'[u].cut PROVE u = x
    <3>1. SUFFICES ASSUME u # x PROVE FALSE
      OBVIOUS
    <3>2. workers'[u] = workers[u] /\ (Early(u) => workers[u].cut)
      BY <2>2, <3>1 DEF Called
    <3>3. Early(u) /\ ~workers[u].cut
      BY <2>2, <3>2 DEF Early
    <3> QED
      BY <3>2, <3>3
  <2> QED
    BY <1>1, <1>3, <2>1, <2>2 DEF EarlyIsAwaited
<1> QED
  BY <1>2, <1>3 DEF EarlyIsAwaited, LiveTurn

-----------------------------------------------------------------------------
(***************************************************************************)
(* The index, duplicates, and the deletion of the parent.                  *)
(***************************************************************************)
\* A warm index lists every row.
LEMMA WarmLists ==
    ASSUME TypeOK, IndexIsWarm, crashes = 0
    PROVE  /\ Stored \subseteq Listed
           /\ RunningListed = {r \in Rows : rows[r].status = "running"}
<1>1. Stored \subseteq Listed /\ Listed \subseteq Rows
  BY ListedType DEF IndexIsWarm, Listed, TypeOK
<1> QED
  BY <1>1 DEF RunningListed, Stored

\* A running row was running before, for the same task, or is started in this step
\* by a call that had not reached it and whose signal is not aborted.
Starts(w, r) ==
    /\ Early(w) /\ ~workers[w].cut
    /\ workers[w].pc \in {"creating", "renaming"}
    /\ rows'[r].kind = workers[w].kind
    /\ workers[w].pc = "creating" \/ r \in Stored
    /\ \A q \in Rows \ {r} : rows'[q] = rows[q]
    /\ ~(workers'[w].pc \in {"naming", "creating", "renaming"})

RunningKept == \A r \in Rows : rows'[r].status = "running" =>
                   rows[r].status = "running" /\ rows'[r].kind = rows[r].kind

LEMMA MarkedRunning ==
    ASSUME TypeOK, NEW R, NEW status \in Ended, rows' = Marked(R, status)
    PROVE  RunningKept
BY DEF RunningKept, Marked, TypeOK, Row, Ended, Stored

LEMMA ExecuteStarts ==
    ASSUME TypeOK, ExecutesOne, NEW w \in Workers, workers[w].pc \in {"creating", "renaming"},
           NEW r \in Rows, NEW told, Execute(w, r, Entering(w, r), told),
           workers[w].pc = "creating" \/ r \in Stored
    PROVE  RunningKept \/ Starts(w, r)
<1> DEFINE me == Entering(w, r)
<1>1. me \in Worker /\ me.pc = "first" /\ me.kind = workers[w].kind /\ me.cut = workers[w].cut
  <2>1. workers[w] \in Worker
    BY DEF TypeOK
  <2>2. me.pc = "first" /\ me.kind = workers[w].kind /\ me.cut = workers[w].cut
    BY <2>1 DEF Entering, Worker
  <2> QED
    BY <2>2, EnteringType
<1>2. CASE me.cut
  <2>1. rows' = [rows EXCEPT ![r] = [status |-> "cancelled", kind |-> me.kind, mode |-> me.mode]]
    BY <1>2 DEF Execute
  <2> QED
    BY <2>1 DEF RunningKept, TypeOK
<1>3. CASE ~me.cut
  <2>1. rows' = [rows EXCEPT ![r] = [status |-> "running", kind |-> me.kind, mode |-> me.mode]]
    BY <1>3 DEF Execute
  <2>2. rows'[r].kind = me.kind /\ \A q \in Rows \ {r} : rows'[q] = rows[q]
    BY <2>1 DEF TypeOK
  <2>3. workers' \in {Registered(w, r, me), [workers EXCEPT ![w] = [me EXCEPT !.chat = "opening"]]}
    BY <1>3 DEF Execute
  <2>4. Registered(w, r, me)[w] = [me EXCEPT !.chat = IF me.cut THEN "aborted" ELSE "open"]
    BY <1>1, RegisteredEffect DEF TypeOK
  <2> HIDE DEF me
  <2>5. workers'[w].pc = "first"
    BY <1>1, <2>3, <2>4 DEF TypeOK, Worker
  <2> QED
    BY <1>1, <1>3, <2>2, <2>5 DEF Starts, Early
<1> QED
  BY <1>2, <1>3

LEMMA RunningStep ==
    ASSUME TypeOK, ExecutesOne, [Next]_vars
    PROVE  RunningKept \/ \E v \in Workers, p \in Rows : Starts(v, p)
<1>1. ASSUME NEW t \in Turns, OpenChat(t) PROVE RunningKept \/ \E v \in Workers, p \in Rows : Starts(v, p)
  BY <1>1 DEF OpenChat, rowVars, RunningKept
<1>2. ASSUME NEW t \in Turns, EndTurn(t) PROVE RunningKept \/ \E v \in Workers, p \in Rows : Starts(v, p)
  BY <1>2 DEF EndTurn, rowVars, RunningKept, LeaveTurn
<1>3. ASSUME NEW t \in Turns, Unwind(t) PROVE RunningKept \/ \E v \in Workers, p \in Rows : Starts(v, p)
  BY <1>3, MarkedRunning DEF Unwind, Ended
<1>4. ASSUME NEW t \in Turns, LeaveStopped(t) PROVE RunningKept \/ \E v \in Workers, p \in Rows : Starts(v, p)
  BY <1>4 DEF LeaveStopped, rowVars, RunningKept, LeaveTurn
<1>5. ASSUME Stop PROVE RunningKept \/ \E v \in Workers, p \in Rows : Starts(v, p)
  BY <1>5, MarkedRunning DEF Stop, Ended
<1>6. ASSUME NEW r \in Rows, DeferTimer(r) PROVE RunningKept \/ \E v \in Workers, p \in Rows : Starts(v, p)
  BY <1>6 DEF DeferTimer, rowVars, RunningKept
<1>7. ASSUME NEW t \in Turns, NEW w \in Workers, NEW k \in Kinds, NEW m \in Modes, CallRun(t, w, k, m) PROVE RunningKept \/ \E v \in Workers, p \in Rows : Starts(v, p)
  BY <1>7 DEF CallRun, rowVars, RunningKept
<1>8. ASSUME NEW t \in Turns, NEW w \in Workers, NEW r \in Rows, NEW k \in Kinds, NEW m \in Modes, CallRestart(t, w, r, k, m) PROVE RunningKept \/ \E v \in Workers, p \in Rows : Starts(v, p)
  BY <1>8 DEF CallRestart, rowVars, RunningKept
<1>9. ASSUME NEW w \in Workers, Named(w) PROVE RunningKept \/ \E v \in Workers, p \in Rows : Starts(v, p)
  BY <1>9 DEF Named, rowVars, RunningKept
<1>10. ASSUME NEW w \in Workers, Create(w) PROVE RunningKept \/ \E v \in Workers, p \in Rows : Starts(v, p)
  <2>1. PICK r \in Fresh : Execute(w, r, Entering(w, r), Untold(r))
    BY <1>10 DEF Create
  <2>2. r \in Rows /\ workers[w].pc = "creating"
    BY <1>10 DEF Create, Fresh
  <2> QED
    BY <2>1, <2>2, ExecuteStarts
<1>11. ASSUME NEW w \in Workers, Restart(w) PROVE RunningKept \/ \E v \in Workers, p \in Rows : Starts(v, p)
  <2>1. workers[w].row \in Rows /\ workers[w].pc = "renaming"
    BY <1>11 DEF Restart, ExecutesOne
  <2>2. CASE workers[w].row \in Stored
    BY <1>11, <2>1, <2>2, ExecuteStarts DEF Restart
  <2>3. CASE workers[w].row \notin Stored
    BY <1>11, <2>3 DEF Restart, rowVars, RunningKept
  <2> QED
    BY <2>2, <2>3
<1>12. ASSUME NEW w \in Workers, Timeout(w) PROVE RunningKept \/ \E v \in Workers, p \in Rows : Starts(v, p)
  BY <1>12 DEF Timeout, rowVars, RunningKept
<1>13. ASSUME NEW w \in Workers, Register(w) PROVE RunningKept \/ \E v \in Workers, p \in Rows : Starts(v, p)
  BY <1>13 DEF Register, rowVars, RunningKept
<1>14. ASSUME NEW w \in Workers, Reply(w) PROVE RunningKept \/ \E v \in Workers, p \in Rows : Starts(v, p)
  BY <1>14 DEF Reply, rowVars, RunningKept
<1>15. ASSUME NEW w \in Workers, NeedParent(w) PROVE RunningKept \/ \E v \in Workers, p \in Rows : Starts(v, p)
  BY <1>15, MarkedRunning DEF NeedParent, Ended
<1>16. ASSUME NEW w \in Workers, ReturnValid(w) PROVE RunningKept \/ \E v \in Workers, p \in Rows : Starts(v, p)
  BY <1>16, MarkedRunning DEF ReturnValid, Settle, Ended
<1>17. ASSUME NEW w \in Workers, ReturnHandedOver(w) PROVE RunningKept \/ \E v \in Workers, p \in Rows : Starts(v, p)
  BY <1>17 DEF ReturnHandedOver, rowVars, RunningKept
<1>18. ASSUME NEW w \in Workers, Retry(w) PROVE RunningKept \/ \E v \in Workers, p \in Rows : Starts(v, p)
  BY <1>18 DEF Retry, rowVars, RunningKept
<1>19. ASSUME NEW w \in Workers, ReturnInvalid(w) PROVE RunningKept \/ \E v \in Workers, p \in Rows : Starts(v, p)
  BY <1>19, MarkedRunning DEF ReturnInvalid, Settle, Ended
<1>20. ASSUME NEW w \in Workers, Throw(w) PROVE RunningKept \/ \E v \in Workers, p \in Rows : Starts(v, p)
  BY <1>20, MarkedRunning DEF Throw, Settle, Ended
<1>21. ASSUME NEW r \in Rows, Cancel(r) PROVE RunningKept \/ \E v \in Workers, p \in Rows : Starts(v, p)
  BY <1>21, MarkedRunning DEF Cancel, Ended
<1>22. ASSUME NEW r \in Rows, Look(r) PROVE RunningKept \/ \E v \in Workers, p \in Rows : Starts(v, p)
  BY <1>22 DEF Look, rowVars, RunningKept
<1>23. ASSUME List PROVE RunningKept \/ \E v \in Workers, p \in Rows : Starts(v, p)
  BY <1>23 DEF List, rowVars, RunningKept
<1>24. ASSUME DeleteParent PROVE RunningKept \/ \E v \in Workers, p \in Rows : Starts(v, p)
  BY <1>24 DEF DeleteParent, NoRun, RunningKept, TypeOK
<1>25. ASSUME Crash PROVE RunningKept \/ \E v \in Workers, p \in Rows : Starts(v, p)
  BY <1>25 DEF Crash, rowVars, RunningKept
<1>26. CASE UNCHANGED vars
  BY <1>26 DEF vars, RunningKept
<1> QED
  BY <1>1, <1>2, <1>3, <1>4, <1>5, <1>6, <1>7, <1>8, <1>9, <1>10, <1>11, <1>12, <1>13, <1>14, <1>15, <1>16, <1>17, <1>18, <1>19, <1>20, <1>21, <1>22, <1>23, <1>24, <1>25, <1>26 DEF Next, Work, Turn

LEMMA StoredStep ==
    ASSUME TypeOK, ExecutesOne, IndexIsWarm, crashes = 0, crashes' = 0, Stored \subseteq indexed, [Next]_vars
    PROVE  Stored' \subseteq indexed'
<1>1. ASSUME NEW t \in Turns, OpenChat(t) PROVE Stored' \subseteq indexed'
  BY <1>1 DEF OpenChat, rowVars, Stored
<1>2. ASSUME NEW t \in Turns, EndTurn(t) PROVE Stored' \subseteq indexed'
  BY <1>2 DEF EndTurn, rowVars, Stored, LeaveTurn
<1>3. ASSUME NEW t \in Turns, Unwind(t) PROVE Stored' \subseteq indexed'
  BY <1>3, WarmLists, MarkedStored DEF Unwind, Ended, TypeOK
<1>4. ASSUME NEW t \in Turns, LeaveStopped(t) PROVE Stored' \subseteq indexed'
  BY <1>4 DEF LeaveStopped, rowVars, Stored, LeaveTurn
<1>5. ASSUME Stop PROVE Stored' \subseteq indexed'
  BY <1>5, WarmLists, MarkedStored DEF Stop, Ended, TypeOK
<1>6. ASSUME NEW r \in Rows, DeferTimer(r) PROVE Stored' \subseteq indexed'
  BY <1>6 DEF DeferTimer, rowVars, Stored
<1>7. ASSUME NEW t \in Turns, NEW w \in Workers, NEW k \in Kinds, NEW m \in Modes, CallRun(t, w, k, m) PROVE Stored' \subseteq indexed'
  BY <1>7 DEF CallRun, rowVars, Stored
<1>8. ASSUME NEW t \in Turns, NEW w \in Workers, NEW r \in Rows, NEW k \in Kinds, NEW m \in Modes, CallRestart(t, w, r, k, m) PROVE Stored' \subseteq indexed'
  BY <1>8 DEF CallRestart, rowVars, Stored
<1>9. ASSUME NEW w \in Workers, Named(w) PROVE Stored' \subseteq indexed'
  BY <1>9, WarmLists DEF Named, Stored
<1>10. ASSUME NEW w \in Workers, Create(w) PROVE Stored' \subseteq indexed'
  <2>1. PICK r \in Fresh : /\ indexed' = indexed \cup {r}
                           /\ Execute(w, r, Entering(w, r), Untold(r))
    BY <1>10 DEF Create
  <2>2. \A q \in Rows \ {r} : rows'[q] = rows[q]
    BY <2>1 DEF Execute, TypeOK
  <2> QED
    BY <2>1, <2>2 DEF Stored
<1>11. ASSUME NEW w \in Workers, Restart(w) PROVE Stored' \subseteq indexed'
  <2>1. CASE workers[w].row \in Stored
    <3>1. \A q \in Rows \ {workers[w].row} : rows'[q] = rows[q]
      BY <1>11, <2>1 DEF Restart, Execute, TypeOK
    <3> QED
      BY <1>11, <2>1, <3>1 DEF Restart, Stored
  <2>2. CASE workers[w].row \notin Stored
    BY <1>11, <2>2 DEF Restart, rowVars, Stored
  <2> QED
    BY <2>1, <2>2
<1>12. ASSUME NEW w \in Workers, Timeout(w) PROVE Stored' \subseteq indexed'
  BY <1>12 DEF Timeout, rowVars, Stored
<1>13. ASSUME NEW w \in Workers, Register(w) PROVE Stored' \subseteq indexed'
  BY <1>13 DEF Register, rowVars, Stored
<1>14. ASSUME NEW w \in Workers, Reply(w) PROVE Stored' \subseteq indexed'
  BY <1>14 DEF Reply, rowVars, Stored
<1>15. ASSUME NEW w \in Workers, NeedParent(w) PROVE Stored' \subseteq indexed'
  BY <1>15, MarkedStored DEF NeedParent, Ended, TypeOK
<1>16. ASSUME NEW w \in Workers, ReturnValid(w) PROVE Stored' \subseteq indexed'
  BY <1>16, MarkedStored DEF ReturnValid, Settle, Ended, TypeOK
<1>17. ASSUME NEW w \in Workers, ReturnHandedOver(w) PROVE Stored' \subseteq indexed'
  BY <1>17 DEF ReturnHandedOver, rowVars, Stored
<1>18. ASSUME NEW w \in Workers, Retry(w) PROVE Stored' \subseteq indexed'
  BY <1>18 DEF Retry, rowVars, Stored
<1>19. ASSUME NEW w \in Workers, ReturnInvalid(w) PROVE Stored' \subseteq indexed'
  BY <1>19, MarkedStored DEF ReturnInvalid, Settle, Ended, TypeOK
<1>20. ASSUME NEW w \in Workers, Throw(w) PROVE Stored' \subseteq indexed'
  BY <1>20, MarkedStored DEF Throw, Settle, Ended, TypeOK
<1>21. ASSUME NEW r \in Rows, Cancel(r) PROVE Stored' \subseteq indexed'
  BY <1>21, MarkedStored DEF Cancel, Ended, TypeOK
<1>22. ASSUME NEW r \in Rows, Look(r) PROVE Stored' \subseteq indexed'
  BY <1>22 DEF Look, rowVars, Stored
<1>23. ASSUME List PROVE Stored' \subseteq indexed'
  BY <1>23, WarmLists DEF List, Stored
<1>24. ASSUME DeleteParent PROVE Stored' \subseteq indexed'
  BY <1>24, WarmLists DEF DeleteParent, Stored, NoRun, TypeOK
<1>25. ASSUME Crash PROVE Stored' \subseteq indexed'
  BY <1>25 DEF Crash, TypeOK
<1>26. CASE UNCHANGED vars
  BY <1>26 DEF vars, Stored
<1> QED
  BY <1>1, <1>2, <1>3, <1>4, <1>5, <1>6, <1>7, <1>8, <1>9, <1>10, <1>11, <1>12, <1>13, <1>14, <1>15, <1>16, <1>17, <1>18, <1>19, <1>20, <1>21, <1>22, <1>23, <1>24, <1>25, <1>26 DEF Next, Work, Turn

\* The restarts of the process are never forgotten.
LEMMA CrashesStep ==
    ASSUME TypeOK, [Next]_vars
    PROVE  crashes' = 0 => crashes = 0
<1>1. ASSUME NEW t \in Turns, OpenChat(t) PROVE crashes' = 0 => crashes = 0
  BY <1>1 DEF OpenChat, bounds
<1>2. ASSUME NEW t \in Turns, EndTurn(t) PROVE crashes' = 0 => crashes = 0
  BY <1>2 DEF EndTurn, bounds, LeaveTurn
<1>3. ASSUME NEW t \in Turns, Unwind(t) PROVE crashes' = 0 => crashes = 0
  BY <1>3 DEF Unwind, bounds
<1>4. ASSUME NEW t \in Turns, LeaveStopped(t) PROVE crashes' = 0 => crashes = 0
  BY <1>4 DEF LeaveStopped, bounds, LeaveTurn
<1>5. ASSUME Stop PROVE crashes' = 0 => crashes = 0
  BY <1>5 DEF Stop, bounds
<1>6. ASSUME NEW r \in Rows, DeferTimer(r) PROVE crashes' = 0 => crashes = 0
  BY <1>6 DEF DeferTimer, bounds
<1>7. ASSUME NEW t \in Turns, NEW w \in Workers, NEW k \in Kinds, NEW m \in Modes, CallRun(t, w, k, m) PROVE crashes' = 0 => crashes = 0
  BY <1>7 DEF CallRun, bounds
<1>8. ASSUME NEW t \in Turns, NEW w \in Workers, NEW r \in Rows, NEW k \in Kinds, NEW m \in Modes, CallRestart(t, w, r, k, m) PROVE crashes' = 0 => crashes = 0
  BY <1>8 DEF CallRestart
<1>9. ASSUME NEW w \in Workers, Named(w) PROVE crashes' = 0 => crashes = 0
  BY <1>9 DEF Named, bounds
<1>10. ASSUME NEW w \in Workers, Create(w) PROVE crashes' = 0 => crashes = 0
  BY <1>10 DEF Create, bounds
<1>11. ASSUME NEW w \in Workers, Restart(w) PROVE crashes' = 0 => crashes = 0
  BY <1>11 DEF Restart, bounds
<1>12. ASSUME NEW w \in Workers, Timeout(w) PROVE crashes' = 0 => crashes = 0
  BY <1>12 DEF Timeout, bounds
<1>13. ASSUME NEW w \in Workers, Register(w) PROVE crashes' = 0 => crashes = 0
  BY <1>13 DEF Register, bounds
<1>14. ASSUME NEW w \in Workers, Reply(w) PROVE crashes' = 0 => crashes = 0
  BY <1>14 DEF Reply, bounds
<1>15. ASSUME NEW w \in Workers, NeedParent(w) PROVE crashes' = 0 => crashes = 0
  BY <1>15 DEF NeedParent, bounds
<1>16. ASSUME NEW w \in Workers, ReturnValid(w) PROVE crashes' = 0 => crashes = 0
  BY <1>16 DEF ReturnValid, bounds
<1>17. ASSUME NEW w \in Workers, ReturnHandedOver(w) PROVE crashes' = 0 => crashes = 0
  BY <1>17 DEF ReturnHandedOver, bounds
<1>18. ASSUME NEW w \in Workers, Retry(w) PROVE crashes' = 0 => crashes = 0
  BY <1>18 DEF Retry, bounds
<1>19. ASSUME NEW w \in Workers, ReturnInvalid(w) PROVE crashes' = 0 => crashes = 0
  BY <1>19 DEF ReturnInvalid, bounds
<1>20. ASSUME NEW w \in Workers, Throw(w) PROVE crashes' = 0 => crashes = 0
  BY <1>20 DEF Throw, bounds
<1>21. ASSUME NEW r \in Rows, Cancel(r) PROVE crashes' = 0 => crashes = 0
  BY <1>21 DEF Cancel, bounds
<1>22. ASSUME NEW r \in Rows, Look(r) PROVE crashes' = 0 => crashes = 0
  BY <1>22 DEF Look, bounds
<1>23. ASSUME List PROVE crashes' = 0 => crashes = 0
  BY <1>23 DEF List, bounds
<1>24. ASSUME DeleteParent PROVE crashes' = 0 => crashes = 0
  BY <1>24 DEF DeleteParent, bounds
<1>25. ASSUME Crash PROVE crashes' = 0 => crashes = 0
  BY <1>25 DEF Crash, TypeOK
<1>26. CASE UNCHANGED vars
  BY <1>26 DEF vars
<1> QED
  BY <1>1, <1>2, <1>3, <1>4, <1>5, <1>6, <1>7, <1>8, <1>9, <1>10, <1>11, <1>12, <1>13, <1>14, <1>15, <1>16, <1>17, <1>18, <1>19, <1>20, <1>21, <1>22, <1>23, <1>24, <1>25, <1>26 DEF Next, Work, Turn

LEMMA IndexIsWarmStep ==
    ASSUME TypeOK, TypeOK', ExecutesOne, LiveIsCurrent, EarlyIsAwaited, IndexIsWarm, [Next]_vars
    PROVE  IndexIsWarm'
<1> SUFFICES ASSUME crashes' = 0 PROVE IndexIsWarm'
  BY DEF IndexIsWarm
<1>1. crashes = 0 /\ Stored \subseteq indexed
  BY CrashesStep DEF IndexIsWarm
<1>2. Stored' \subseteq indexed'
  BY <1>1, StoredStep
<1>3. RunningListed' \subseteq {r \in Rows : rows'[r].status = "running"}
  BY DEF RunningListed, Listed, Stored, TypeOK
<1>4. ASSUME NEW v \in Workers, workers'[v].pc = "creating", ~workers'[v].cut
      PROVE  Duplicates(workers[v].kind) = {} /\ workers'[v].kind = workers[v].kind
             /\ Early(v) /\ ~workers[v].cut /\ (RunningKept \/ rows' = rows)
  <2>1. Stays(v)
    BY <1>4, EarlyStep DEF Early, Called
  <2>2. Early(v) /\ ~workers[v].cut /\ workers'[v].kind = workers[v].kind
    BY <1>4, <2>1 DEF Stays
  <2>3. Duplicates(workers[v].kind) = {}
    BY <1>1, <1>4, <2>1, <2>2 DEF Stays, IndexIsWarm
  <2>4. ASSUME NEW u \in Workers, NEW p \in Rows, Starts(u, p) PROVE FALSE
    <3>1. u = v
      BY <2>2, <2>4 DEF Starts, EarlyIsAwaited
    <3> QED
      BY <1>4, <2>4, <3>1 DEF Starts
  <2> QED
    BY <2>2, <2>3, <2>4, RunningStep
<1>5. ASSUME NEW v \in Workers, workers'[v].pc = "creating", ~workers'[v].cut,
             NEW r \in Rows, rows'[r].status = "running", SameTask(rows'[r].kind, workers'[v].kind)
      PROVE  FALSE
  <2>1. rows[r].status = "running" /\ rows'[r].kind = rows[r].kind
    BY <1>4, <1>5 DEF RunningKept
  <2>2. r \in Duplicates(workers[v].kind)
    BY <1>1, <1>4, <1>5, <2>1, WarmLists DEF Duplicates
  <2> QED
    BY <1>4, <1>5, <2>2
<1>6. ASSUME NEW v \in Workers, workers'[v].pc = "creating", ~workers'[v].cut
      PROVE  Duplicates(workers[v].kind)' = {}
  BY <1>3, <1>5, <1>6 DEF Duplicates, SameTask
<1> QED
  BY <1>2, <1>6 DEF IndexIsWarm

LEMMA NotifyDead ==
    ASSUME ~alive, deferred = {}, inFlight = {}, NEW R, NEW told, Notify(R, told)
    PROVE  deferred' = {} /\ inFlight' = {}
BY DEF Notify

\* Nothing is noticed on behalf of a session that is deleted.
LEMMA BusStep ==
    ASSUME ~alive, deferred = {}, inFlight = {}, [Next]_vars
    PROVE  deferred' = {} /\ inFlight' = {}
<1>1. ASSUME NEW t \in Turns, OpenChat(t) PROVE deferred' = {} /\ inFlight' = {}
  BY <1>1 DEF OpenChat, busVars, ClearBus
<1>2. ASSUME NEW t \in Turns, EndTurn(t) PROVE deferred' = {} /\ inFlight' = {}
  BY <1>2 DEF EndTurn, busVars, LeaveTurn
<1>3. ASSUME NEW t \in Turns, Unwind(t) PROVE deferred' = {} /\ inFlight' = {}
  BY <1>3 DEF Unwind, busVars
<1>4. ASSUME NEW t \in Turns, LeaveStopped(t) PROVE deferred' = {} /\ inFlight' = {}
  BY <1>4 DEF LeaveStopped, busVars, LeaveTurn
<1>5. ASSUME Stop PROVE deferred' = {} /\ inFlight' = {}
  BY <1>5 DEF Stop, busVars
<1>6. ASSUME NEW r \in Rows, DeferTimer(r) PROVE deferred' = {} /\ inFlight' = {}
  BY <1>6 DEF DeferTimer, busVars
<1>7. ASSUME NEW t \in Turns, NEW w \in Workers, NEW k \in Kinds, NEW m \in Modes, CallRun(t, w, k, m) PROVE deferred' = {} /\ inFlight' = {}
  BY <1>7 DEF CallRun, busVars
<1>8. ASSUME NEW t \in Turns, NEW w \in Workers, NEW r \in Rows, NEW k \in Kinds, NEW m \in Modes, CallRestart(t, w, r, k, m) PROVE deferred' = {} /\ inFlight' = {}
  BY <1>8 DEF CallRestart, busVars
<1>9. ASSUME NEW w \in Workers, Named(w) PROVE deferred' = {} /\ inFlight' = {}
  BY <1>9 DEF Named, busVars
<1>10. ASSUME NEW w \in Workers, Create(w) PROVE deferred' = {} /\ inFlight' = {}
  BY <1>10, NotifyDead DEF Create, Execute
<1>11. ASSUME NEW w \in Workers, Restart(w) PROVE deferred' = {} /\ inFlight' = {}
  BY <1>11, NotifyDead DEF Restart, Execute, busVars
<1>12. ASSUME NEW w \in Workers, Timeout(w) PROVE deferred' = {} /\ inFlight' = {}
  BY <1>12 DEF Timeout, busVars
<1>13. ASSUME NEW w \in Workers, Register(w) PROVE deferred' = {} /\ inFlight' = {}
  BY <1>13 DEF Register, busVars
<1>14. ASSUME NEW w \in Workers, Reply(w) PROVE deferred' = {} /\ inFlight' = {}
  BY <1>14 DEF Reply, busVars
<1>15. ASSUME NEW w \in Workers, NeedParent(w) PROVE deferred' = {} /\ inFlight' = {}
  BY <1>15, NotifyDead DEF NeedParent
<1>16. ASSUME NEW w \in Workers, ReturnValid(w) PROVE deferred' = {} /\ inFlight' = {}
  BY <1>16, NotifyDead DEF ReturnValid, Settle
<1>17. ASSUME NEW w \in Workers, ReturnHandedOver(w) PROVE deferred' = {} /\ inFlight' = {}
  BY <1>17 DEF ReturnHandedOver, busVars
<1>18. ASSUME NEW w \in Workers, Retry(w) PROVE deferred' = {} /\ inFlight' = {}
  BY <1>18 DEF Retry, busVars
<1>19. ASSUME NEW w \in Workers, ReturnInvalid(w) PROVE deferred' = {} /\ inFlight' = {}
  BY <1>19, NotifyDead DEF ReturnInvalid, Settle
<1>20. ASSUME NEW w \in Workers, Throw(w) PROVE deferred' = {} /\ inFlight' = {}
  BY <1>20, NotifyDead DEF Throw, Settle
<1>21. ASSUME NEW r \in Rows, Cancel(r) PROVE deferred' = {} /\ inFlight' = {}
  BY <1>21, NotifyDead DEF Cancel
<1>22. ASSUME NEW r \in Rows, Look(r) PROVE deferred' = {} /\ inFlight' = {}
  BY <1>22 DEF Look, busVars
<1>23. ASSUME List PROVE deferred' = {} /\ inFlight' = {}
  BY <1>23 DEF List, busVars
<1>24. ASSUME DeleteParent PROVE deferred' = {} /\ inFlight' = {}
  BY <1>24 DEF DeleteParent, busVars, ClearBus
<1>25. ASSUME Crash PROVE deferred' = {} /\ inFlight' = {}
  BY <1>25 DEF Crash
<1>26. CASE UNCHANGED vars
  BY <1>26 DEF vars
<1> QED
  BY <1>1, <1>2, <1>3, <1>4, <1>5, <1>6, <1>7, <1>8, <1>9, <1>10, <1>11, <1>12, <1>13, <1>14, <1>15, <1>16, <1>17, <1>18, <1>19, <1>20, <1>21, <1>22, <1>23, <1>24, <1>25, <1>26 DEF Next, Work, Turn

\* Only a deletion of the session takes its record away.
LEMMA DeletingStep ==
    ASSUME alive, [Next]_vars
    PROVE  alive' \/ DeleteParent
<1>1. ASSUME NEW t \in Turns, OpenChat(t) PROVE alive' \/ DeleteParent
  BY <1>1 DEF OpenChat, turnVars
<1>2. ASSUME NEW t \in Turns, EndTurn(t) PROVE alive' \/ DeleteParent
  BY <1>2 DEF EndTurn, LeaveTurn
<1>3. ASSUME NEW t \in Turns, Unwind(t) PROVE alive' \/ DeleteParent
  BY <1>3 DEF Unwind, turnVars
<1>4. ASSUME NEW t \in Turns, LeaveStopped(t) PROVE alive' \/ DeleteParent
  BY <1>4 DEF LeaveStopped, LeaveTurn
<1>5. ASSUME Stop PROVE alive' \/ DeleteParent
  BY <1>5 DEF Stop, turnVars
<1>6. ASSUME NEW r \in Rows, DeferTimer(r) PROVE alive' \/ DeleteParent
  BY <1>6 DEF DeferTimer, turnVars
<1>7. ASSUME NEW t \in Turns, NEW w \in Workers, NEW k \in Kinds, NEW m \in Modes, CallRun(t, w, k, m) PROVE alive' \/ DeleteParent
  BY <1>7 DEF CallRun, turnVars
<1>8. ASSUME NEW t \in Turns, NEW w \in Workers, NEW r \in Rows, NEW k \in Kinds, NEW m \in Modes, CallRestart(t, w, r, k, m) PROVE alive' \/ DeleteParent
  BY <1>8 DEF CallRestart, turnVars
<1>9. ASSUME NEW w \in Workers, Named(w) PROVE alive' \/ DeleteParent
  BY <1>9 DEF Named, turnVars
<1>10. ASSUME NEW w \in Workers, Create(w) PROVE alive' \/ DeleteParent
  BY <1>10 DEF Create, turnVars
<1>11. ASSUME NEW w \in Workers, Restart(w) PROVE alive' \/ DeleteParent
  BY <1>11 DEF Restart, turnVars
<1>12. ASSUME NEW w \in Workers, Timeout(w) PROVE alive' \/ DeleteParent
  BY <1>12 DEF Timeout, turnVars
<1>13. ASSUME NEW w \in Workers, Register(w) PROVE alive' \/ DeleteParent
  BY <1>13 DEF Register, turnVars
<1>14. ASSUME NEW w \in Workers, Reply(w) PROVE alive' \/ DeleteParent
  BY <1>14 DEF Reply, turnVars
<1>15. ASSUME NEW w \in Workers, NeedParent(w) PROVE alive' \/ DeleteParent
  BY <1>15 DEF NeedParent, turnVars
<1>16. ASSUME NEW w \in Workers, ReturnValid(w) PROVE alive' \/ DeleteParent
  BY <1>16 DEF ReturnValid, turnVars
<1>17. ASSUME NEW w \in Workers, ReturnHandedOver(w) PROVE alive' \/ DeleteParent
  BY <1>17 DEF ReturnHandedOver, turnVars
<1>18. ASSUME NEW w \in Workers, Retry(w) PROVE alive' \/ DeleteParent
  BY <1>18 DEF Retry, turnVars
<1>19. ASSUME NEW w \in Workers, ReturnInvalid(w) PROVE alive' \/ DeleteParent
  BY <1>19 DEF ReturnInvalid, turnVars
<1>20. ASSUME NEW w \in Workers, Throw(w) PROVE alive' \/ DeleteParent
  BY <1>20 DEF Throw, turnVars
<1>21. ASSUME NEW r \in Rows, Cancel(r) PROVE alive' \/ DeleteParent
  BY <1>21 DEF Cancel, turnVars
<1>22. ASSUME NEW r \in Rows, Look(r) PROVE alive' \/ DeleteParent
  BY <1>22 DEF Look, turnVars
<1>23. ASSUME List PROVE alive' \/ DeleteParent
  BY <1>23 DEF List, turnVars
<1>24. ASSUME DeleteParent PROVE alive' \/ DeleteParent
  BY <1>24
<1>25. ASSUME Crash PROVE alive' \/ DeleteParent
  BY <1>25 DEF Crash, turnVars
<1>26. CASE UNCHANGED vars
  BY <1>26 DEF vars
<1> QED
  BY <1>1, <1>2, <1>3, <1>4, <1>5, <1>6, <1>7, <1>8, <1>9, <1>10, <1>11, <1>12, <1>13, <1>14, <1>15, <1>16, <1>17, <1>18, <1>19, <1>20, <1>21, <1>22, <1>23, <1>24, <1>25, <1>26 DEF Next, Work, Turn

NothingLeft ==
    (\A q \in Rows : rows[q].status = "none") /\ deferred = {} /\ inFlight = {}

\* A session is only deleted together with all its runs and notices.
LEMMA DeletionStep ==
    ASSUME TypeOK, IndexIsWarm, crashes = 0, alive, [Next]_vars
    PROVE  alive' \/ NothingLeft'
<1> SUFFICES ASSUME DeleteParent PROVE NothingLeft'
  BY DeletingStep
<1>1. Stored \subseteq Listed
  BY WarmLists
<1>2. \A r \in Rows : rows'[r].status = "none"
  BY <1>1 DEF DeleteParent, NoRun, Stored, TypeOK
<1> QED
  BY <1>2 DEF DeleteParent, ClearBus, NothingLeft

LEMMA DeadParentStep ==
    ASSUME TypeOK, ExecutesOne, LiveIsCurrent, EarlyIsAwaited, IndexIsWarm,
           DeadParentRunsNothing, [Next]_vars
    PROVE  DeadParentRunsNothing'
<1> SUFFICES ASSUME ~alive', crashes' = 0 PROVE DeadParentRunsNothing'
  BY DEF DeadParentRunsNothing
<1>1. crashes = 0
  BY CrashesStep
<1>2. CASE alive
  BY <1>1, <1>2, DeletionStep DEF DeadParentRunsNothing, NothingLeft
<1>3. CASE ~alive
  <2>1. deferred = {} /\ inFlight = {} /\ \A r \in Rows : rows[r].status # "running"
    BY <1>1, <1>3 DEF DeadParentRunsNothing
  <2>2. ASSUME NEW w \in Workers, NEW p \in Rows, Starts(w, p) PROVE FALSE
    BY <1>3, <2>2 DEF Starts, EarlyIsAwaited, LiveIsCurrent
  <2>3. RunningKept
    BY <2>2, RunningStep
  <2>4. deferred' = {} /\ inFlight' = {}
    BY <1>3, <2>1, BusStep
  <2> QED
    BY <2>1, <2>3, <2>4 DEF RunningKept, DeadParentRunsNothing
<1> QED
  BY <1>2, <1>3

\* The step that creates a run beside no other one for the same task.
LEMMA NoDuplicateStep ==
    ASSUME TypeOK, ExecutesOne, LiveIsCurrent, EarlyIsAwaited, IndexIsWarm, [Next]_vars,
           NEW r \in Rows, NEW q \in Rows,
           rows[r].status = "none", rows'[r].status = "running",
           rows[q].status = "running", crashes = 0
    PROVE  ~SameTask(rows[q].kind, rows'[r].kind)
<1>1. PICK w \in Workers, p \in Rows : Starts(w, p)
  BY RunningStep DEF RunningKept
<1>2. p = r
  BY <1>1 DEF Starts
<1>3. workers[w].pc = "creating" /\ ~workers[w].cut /\ rows'[r].kind = workers[w].kind
  BY <1>1, <1>2 DEF Starts, Stored
<1>4. Duplicates(workers[w].kind) = {}
  BY <1>3 DEF IndexIsWarm
<1>5. q \in RunningListed
  BY WarmLists
<1> QED
  BY <1>3, <1>4, <1>5 DEF Duplicates

-----------------------------------------------------------------------------
(***************************************************************************)
(* The theorems.                                                           *)
(***************************************************************************)
Safe == TypeOK /\ Bookkeeping /\ ActiveIsExecuted /\ OneLiveChat /\ DeadParentRunsNothing

LEMMA SafeInit == Init => Safe
BY SubagentAssumption, IdleType, NoRunType
   DEF Init, Safe, TypeOK, Bookkeeping, ExecutesOne, LiveIsCurrent, LiveTurn, EarlyIsAwaited, Early,
       IndexIsWarm, Stored, ActiveIsExecuted, OneLiveChat, DeadParentRunsNothing,
       IdleWorker, IdleTurn, NoRun, Notices

LEMMA SafeStep ==
    ASSUME Safe, [Next]_vars
    PROVE  Safe'
<1>1. /\ TypeOK /\ ExecutesOne /\ LiveIsCurrent /\ EarlyIsAwaited /\ IndexIsWarm
      /\ ActiveIsExecuted /\ OneLiveChat /\ DeadParentRunsNothing
  BY DEF Safe, Bookkeeping
<1>2. TypeOK' /\ ExecutesOne'
  BY <1>1, TypeOKStep, ExecutesOneStep
<1>3. LiveIsCurrent' /\ EarlyIsAwaited'
  BY <1>1, LiveIsCurrentStep, EarlyIsAwaitedStep
<1>4. IndexIsWarm'
  BY <1>1, <1>2, IndexIsWarmStep
<1>5. ActiveIsExecuted' /\ OneLiveChat' /\ DeadParentRunsNothing'
  BY <1>1, ActiveIsExecutedStep, OneLiveChatStep, DeadParentStep
<1> QED
  BY <1>2, <1>3, <1>4, <1>5 DEF Safe, Bookkeeping

\* All of it together is an inductive invariant.
THEOREM SafeInvariant == Spec => []Safe
BY SafeInit, SafeStep, PTL DEF Spec

\* The variables keep their types.
THEOREM TypesCorrect == Spec => []TypeOK
<1>1. Safe => TypeOK
  BY DEF Safe
<1> QED
  BY <1>1, SafeInvariant, PTL

\* Calls, chats and the index stay as the runner and the engine rely on.
THEOREM BooksKept == Spec => []Bookkeeping
<1>1. Safe => Bookkeeping
  BY DEF Safe
<1> QED
  BY <1>1, SafeInvariant, PTL

\* A run that is shown as running is executed, until the process restarts.
THEOREM RunningIsExecuted == Spec => []ActiveIsExecuted
<1>1. Safe => ActiveIsExecuted
  BY DEF Safe
<1> QED
  BY <1>1, SafeInvariant, PTL

\* The child of a run has at most one open chat, and cancelling the run reaches it,
\* however often the run is restarted, retried or cancelled.
THEOREM ChildHasOneChat == Spec => []OneLiveChat
<1>1. Safe => OneLiveChat
  BY DEF Safe
<1> QED
  BY <1>1, SafeInvariant, PTL

\* Once its session is deleted nothing runs for it.
THEOREM DeletionStopsAll == Spec => []DeadParentRunsNothing
<1>1. Safe => DeadParentRunsNothing
  BY DEF Safe
<1> QED
  BY <1>1, SafeInvariant, PTL

\* No run is created beside a running one for the same task.
THEOREM NoDuplicates == Spec => CreatesNoDuplicate
<1> DEFINE NoDuplicate ==
        \A r, q \in Rows :
          (rows[r].status = "none" /\ rows'[r].status = "running"
             /\ rows[q].status = "running" /\ crashes = 0) => ~SameTask(rows[q].kind, rows'[r].kind)
<1>1. Safe /\ [Next]_vars => [NoDuplicate]_vars
  BY NoDuplicateStep DEF Safe, Bookkeeping
<1> QED
  BY <1>1, SafeInvariant, PTL DEF Spec, CreatesNoDuplicate

\* Deleting the session deletes every run of it, until the process restarts.
THEOREM DeletionReachesEvery == Spec => DeletionReachesAll
<1> DEFINE Reached ==
        (alive /\ ~alive' /\ crashes = 0) => \A r \in Rows : rows'[r].status = "none"
<1>1. Safe /\ [Next]_vars => [Reached]_vars
  BY DeletionStep DEF Safe, Bookkeeping, NothingLeft
<1> QED
  BY <1>1, SafeInvariant, PTL DEF Spec, DeletionReachesAll
=============================================================================
