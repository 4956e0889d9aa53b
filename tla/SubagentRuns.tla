---------------------------- MODULE SubagentRuns ----------------------------
(***************************************************************************)
(* The sub-agents of one parent session: runs delegated by run_subagent,   *)
(* each with a chat of its own on a child session, and the notices that    *)
(* continue the parent when a background run ends.                         *)
(*                                                                         *)
(*   subagents/registry    rows (persisted), indexed (the memory index)    *)
(*   subagents/runner      workers: one call of runSubagent with the       *)
(*                         executeRun it starts                            *)
(*   engine.chat           turns and current for the parent; chatOf, child *)
(*                         and the chat field of a worker for the children *)
(*   jobs/resume-bus       deferred, inFlight, for the keys of this parent *)
(*                                                                         *)
(* One action is one task of the event loop up to its next await.  A row   *)
(* is "queued" only inside such a task: executeRun is entered without an   *)
(* await after create and update, so the model knows it as "running".      *)
(* Every chat of the parent is a registered one.                           *)
(***************************************************************************)
EXTENDS Naturals, FiniteSets

CONSTANTS
    Rows,         \* run ids, and the child sessions created with them
    Workers,      \* calls of runSubagent in progress, identities reused
    Turns,        \* chats of the parent session, identities reused
    Kinds,        \* the [label, role] pairs the parent delegates
    Modes,        \* the modes it delegates them in
    NoRow, NoTurn, NoWorker, NoKind,
    MaxRestarts,  \* bound: restarts by restart_run_id
    MaxCrashes,   \* bound: restarts of the server process
    Timeouts,     \* whether a tool call may outlast MCP_TOOL_CALL_TIMEOUT_MS
    Deletions     \* whether the parent session may be deleted

ASSUME SubagentAssumption ==
    /\ NoRow \notin Rows /\ NoTurn \notin Turns
    /\ NoWorker \notin Workers /\ NoKind \notin Kinds
    /\ Modes \subseteq {"foreground", "background"}
    /\ MaxRestarts \in Nat /\ MaxCrashes \in Nat
    /\ Timeouts \in BOOLEAN /\ Deletions \in BOOLEAN

VARIABLES
    alive,     \* the parent session has a record
    turns,     \* [Turns -> chat of the parent]
    current,   \* the parent's entry in session-chat-runs
    rows,      \* [Rows -> [status, kind, mode]]
    indexed,   \* rows in byId and byParent
    child,     \* [Rows -> "none", "fresh" (no message saved) or "used"]
    chatOf,    \* [Rows -> the worker whose chat the engine knows on the child]
    workers,   \* [Workers -> call of runSubagent]
    deferred,  \* rows with a busy-defer timer
    inFlight,  \* rows whose resume key is in flight
    notice,    \* history: what became of the notice of each row's end
    restarts,  \* history: restarts made
    crashes    \* history: crashes so far

turnVars == <<alive, turns, current>>
rowVars == <<rows, indexed>>
busVars == <<deferred, inFlight, notice>>
bounds == <<restarts, crashes>>
vars == <<alive, turns, current, rows, indexed, child, chatOf, workers,
          deferred, inFlight, notice, restarts, crashes>>

Ended == {"completed", "failed", "cancelled", "needs_parent_action"}
AnyMode == {"foreground", "background"}
Notices == [Rows -> {"none", "heard", "cleared", "dropped"}]

Row == [status : Ended \cup {"none", "running"}, kind : Kinds \cup {NoKind}, mode : AnyMode]

TurnRecord == [phase : {"idle", "live", "aborted", "stopped"}, wake : Rows \cup {NoRow}]

Worker ==
    [pc : {"idle", "naming", "creating", "renaming", "first", "second"},
     row : Rows \cup {NoRow}, kind : Kinds \cup {NoKind}, mode : AnyMode,
     turn : Turns \cup {NoTurn},   \* the chat whose signal the call was given
     cut : BOOLEAN,                \* that signal is aborted
     awaited : BOOLEAN,            \* the chat waits for the answer of the call
     chat : {"none", "opening", "open", "aborted", "valid", "invalid"}]

NoRun == [status |-> "none", kind |-> NoKind, mode |-> "foreground"]
IdleTurn == [phase |-> "idle", wake |-> NoRow]
IdleWorker == [pc |-> "idle", row |-> NoRow, kind |-> NoKind, mode |-> "foreground",
               turn |-> NoTurn, cut |-> FALSE, awaited |-> FALSE, chat |-> "none"]

Init ==
    /\ alive = TRUE
    /\ turns = [t \in Turns |-> IdleTurn]
    /\ current = NoTurn
    /\ rows = [r \in Rows |-> NoRun]
    /\ indexed = {}
    /\ child = [r \in Rows |-> "none"]
    /\ chatOf = [r \in Rows |-> NoWorker]
    /\ workers = [w \in Workers |-> IdleWorker]
    /\ deferred = {} /\ inFlight = {} /\ notice = [r \in Rows |-> "none"]
    /\ restarts = 0 /\ crashes = 0

-----------------------------------------------------------------------------
\* The registry.

Stored == {r \in Rows : rows[r].status # "none"}

\* listByParent: the memory index, and the store only while that is empty.
Listed == IF indexed # {} THEN indexed ELSE Stored

\* listRunningByParent
RunningListed == {r \in Listed : rows[r].status = "running"}

Background(R) == {r \in R : rows[r].mode = "background"}

SameTask(k, l) == k.label = l.label \/ k.role = l.role

\* findActiveDuplicate
Duplicates(k) == {r \in RunningListed : SameTask(rows[r].kind, k)}

\* setStatus on the rows of R that exist.
Marked(R, status) ==
    [r \in Rows |-> IF r \in R \cap Stored THEN [rows[r] EXCEPT !.status = status] ELSE rows[r]]

-----------------------------------------------------------------------------
\* Chats.

FreeTurns == {t \in Turns : turns[t].phase = "idle"}
LiveTurn(t) == turns[t].phase = "live"

Executes(w, r) == workers[w].pc \in {"first", "second"} /\ workers[w].row = r

\* The signal of turn t is aborted: its call in progress is given up, and the
\* child chats that listen to it are aborted with it.
Cut(t, ws) ==
    [w \in Workers |->
        IF ws[w].turn = t /\ t # NoTurn
        THEN [ws[w] EXCEPT !.cut = TRUE, !.awaited = FALSE,
                           !.chat = IF @ = "open" THEN "aborted" ELSE @]
        ELSE ws[w]]

AbortTurn(t) ==
    [u \in Turns |-> IF u = t /\ turns[u].phase = "live"
                     THEN [turns[u] EXCEPT !.phase = "aborted"] ELSE turns[u]]

\* chatAbortBySession.get(child)?.abort() for the children of R.
AbortChildren(R, ws) ==
    [w \in Workers |->
        IF ws[w].chat = "open" /\ ws[w].row \in R /\ chatOf[ws[w].row] = w
        THEN [ws[w] EXCEPT !.chat = "aborted"] ELSE ws[w]]

\* chat() on the child of row r reaches its first round: the chat known there is
\* aborted and replaced.  `me` is the worker's record with its new pc.
Registered(w, r, me) ==
    [AbortChildren({r}, workers) EXCEPT
        ![w] = [me EXCEPT !.chat = IF me.cut THEN "aborted" ELSE "open"]]

-----------------------------------------------------------------------------
\* The resume bus.

\* What becomes of a notice: "heard" when it resumed the parent, "cleared" when
\* clearSessionJobWaitsAndWatches removed it, "dropped" when enqueue found its key
\* in flight.  Once the parent has heard of an end it knows of it.
Noted(told, R, fate) ==
    [r \in Rows |-> IF r \in R /\ told[r] # "heard" THEN fate ELSE told[r]]

\* A run that starts has an end to tell again.
Untold(r) == [notice EXCEPT ![r] = "none"]

\* notifyParentOnBackgroundTerminal for the rows of R, as the bus finds them: the
\* first to be enqueued on an idle parent resumes it, the others find it busy.
\* `told` is the history before the notices.
Notify(R, told) ==
    LET fresh == R \ inFlight
        known == Noted(told, R \cap inFlight, "dropped")
    IN
    IF alive /\ current = NoTurn /\ fresh # {}
    THEN \E r \in fresh, t \in FreeTurns :
            /\ turns' = [turns EXCEPT ![t] = [phase |-> "live", wake |-> r]]
            /\ current' = t
            /\ inFlight' = inFlight \cup {r}
            /\ deferred' = (deferred \cup fresh) \ {r}
            /\ notice' = Noted(known, {r}, "heard")
    ELSE /\ deferred' = IF alive THEN deferred \cup fresh ELSE deferred
         /\ notice' = known
         /\ UNCHANGED <<turns, current, inFlight>>

\* clearSessionJobWaitsAndWatches of the parent
ClearBus ==
    /\ deferred' = {} /\ inFlight' = {}
    /\ notice' = Noted(notice, deferred, "cleared")

-----------------------------------------------------------------------------
\* The parent's chats.

\* POST /chat/stream: the registered chat is aborted and replaced.
OpenChat(t) ==
    /\ alive /\ t \in FreeTurns
    /\ turns' = [AbortTurn(current) EXCEPT ![t] = [phase |-> "live", wake |-> NoRow]]
    /\ current' = t
    /\ workers' = Cut(current, workers)
    /\ ClearBus
    /\ UNCHANGED <<alive, rowVars, child, chatOf, bounds>>

\* Slip: the key of whatever resumed the chat is taken again instead of freed.
LeaveTurnHolding(t) ==
    /\ turns' = [turns EXCEPT ![t] = IdleTurn]
    /\ current' = IF current = t THEN NoTurn ELSE current
    /\ workers' = [w \in Workers |->
                      IF workers[w].turn = t THEN [workers[w] EXCEPT !.turn = NoTurn]
                      ELSE workers[w]]
    /\ inFlight' = inFlight \cup {turns[t].wake}
    /\ UNCHANGED <<alive, rowVars, child, chatOf, deferred, notice, bounds>>

\* A chat returns: its entry is cleared, a resume frees its key, and its signal
\* cannot be aborted any more.
LeaveTurn(t) ==
    /\ turns' = [turns EXCEPT ![t] = IdleTurn]
    /\ current' = IF current = t THEN NoTurn ELSE current
    /\ workers' = [w \in Workers |->
                      IF workers[w].turn = t THEN [workers[w] EXCEPT !.turn = NoTurn]
                      ELSE workers[w]]
    /\ inFlight' = inFlight \ {turns[t].wake}
    /\ UNCHANGED <<alive, rowVars, child, chatOf, deferred, notice, bounds>>

\* A reply or an error, once no tool call is in progress.
EndTurn(t) ==
    /\ LiveTurn(t)
    /\ \A w \in Workers : workers[w].turn = t => ~workers[w].awaited
    /\ LeaveTurn(t)

\* finalizeCancelled: the running children are cancelled, whichever chat started
\* them, the notices of that are cleared, and the record is saved.
Unwind(t) ==
    LET gone == RunningListed
        news == Background(gone) \ inFlight
        known == Noted(notice, deferred \cup Background(gone), "cleared")
    IN
    /\ turns[t].phase = "aborted"
    /\ workers' = AbortChildren(gone, workers)
    /\ rows' = Marked(gone, "cancelled")
    /\ indexed' = Listed
    /\ IF alive /\ current = NoTurn /\ news # {}
       THEN \E r \in news, u \in FreeTurns :
               /\ turns' = [turns EXCEPT ![t].phase = "stopped",
                                         ![u] = [phase |-> "live", wake |-> r]]
               /\ current' = u
               /\ notice' = Noted(known, {r}, "heard")
       ELSE /\ turns' = [turns EXCEPT ![t].phase = "stopped"]
            /\ notice' = known
            /\ UNCHANGED current
    /\ deferred' = {} /\ inFlight' = {}
    /\ alive' = TRUE
    /\ UNCHANGED <<child, chatOf, bounds>>

LeaveStopped(t) == turns[t].phase = "stopped" /\ LeaveTurn(t)

\* POST /chat/cancel: the waits are cleared, the running children cancelled, the
\* notices of that enqueued, and the registered chat aborted, even when it is the
\* resume that the first of these notices just started.
Stop ==
    LET gone == RunningListed
        news == Background(gone)
        stopped == AbortChildren(gone, workers)
        known == Noted(notice, deferred, "cleared")
    IN
    /\ rows' = Marked(gone, "cancelled")
    /\ indexed' = Listed
    /\ IF alive /\ current = NoTurn /\ news # {}
       THEN \E r \in news, t \in FreeTurns :
               /\ turns' = [turns EXCEPT ![t] = [phase |-> "aborted", wake |-> r]]
               /\ current' = t
               /\ inFlight' = {r}
               /\ deferred' = news \ {r}
               /\ notice' = Noted(known, {r}, "heard")
               /\ workers' = stopped
       ELSE /\ turns' = AbortTurn(current)
            /\ workers' = Cut(current, stopped)
            /\ inFlight' = {}
            /\ deferred' = IF alive THEN news ELSE {}
            /\ notice' = known
            /\ UNCHANGED current
    /\ UNCHANGED <<alive, child, chatOf, bounds>>

\* Slip: a timer that finds the parent busy is not armed again.
DeferTimerOnce(r) ==
    /\ r \in deferred
    /\ deferred' = deferred \ {r}
    /\ IF alive /\ current = NoTurn /\ r \notin inFlight
       THEN \E t \in FreeTurns :
               /\ turns' = [turns EXCEPT ![t] = [phase |-> "live", wake |-> r]]
               /\ current' = t
               /\ inFlight' = inFlight \cup {r}
               /\ notice' = Noted(notice, {r}, "heard")
       ELSE UNCHANGED <<turns, current, inFlight, notice>>
    /\ UNCHANGED <<alive, rowVars, workers, child, chatOf, bounds>>

\* A busy-defer timer of the bus expires.
DeferTimer(r) ==
    /\ r \in deferred
    /\ IF alive /\ current = NoTurn /\ r \notin inFlight
       THEN \E t \in FreeTurns :
               /\ turns' = [turns EXCEPT ![t] = [phase |-> "live", wake |-> r]]
               /\ current' = t
               /\ inFlight' = inFlight \cup {r}
               /\ notice' = Noted(notice, {r}, "heard")
               /\ deferred' = deferred \ {r}
       ELSE /\ deferred' = IF alive /\ r \notin inFlight THEN deferred ELSE deferred \ {r}
            /\ notice' = Noted(notice, {r} \cap inFlight, "dropped")
            /\ UNCHANGED <<turns, current, inFlight>>
    /\ UNCHANGED <<alive, rowVars, workers, child, chatOf, bounds>>

-----------------------------------------------------------------------------
\* run_subagent, a serial tool: one call of a chat at a time.

MayCall(t, w) ==
    /\ LiveTurn(t) /\ workers[w].pc = "idle"
    /\ \A v \in Workers : workers[v].turn = t => ~workers[v].awaited

Calling(t, pc, r, k, m) ==
    [IdleWorker EXCEPT !.pc = pc, !.row = r, !.kind = k, !.mode = m,
                       !.turn = t, !.awaited = TRUE]

Fresh == {r \in Rows : /\ rows[r].status = "none" /\ child[r] = "none"
                       /\ \A v \in Workers : workers[v].row # r}

\* runSubagent up to the await of the label, as long as Rows has a row for it.
CallRun(t, w, k, m) ==
    /\ alive /\ MayCall(t, w)
    /\ Cardinality({v \in Workers : workers[v].pc \in {"naming", "creating"}}) < Cardinality(Fresh)
    /\ workers' = [workers EXCEPT ![w] = Calling(t, "naming", NoRow, k, m)]
    /\ UNCHANGED <<turnVars, rowVars, child, chatOf, busVars, bounds>>

\* restartSubagentRun up to the await of the label: the only look at the status.
CallRestart(t, w, r, k, m) ==
    /\ alive /\ MayCall(t, w)
    /\ restarts < MaxRestarts
    /\ rows[r].status \in {"failed", "cancelled", "needs_parent_action"}
    /\ workers' = [workers EXCEPT ![w] = Calling(t, "renaming", r, k, m)]
    /\ indexed' = indexed \cup {r}
    /\ restarts' = restarts + 1
    /\ UNCHANGED <<turnVars, rows, child, chatOf, busVars, crashes>>

\* Slip: the duplicate is looked for before the label is awaited.
NamedUnseen(w) ==
    /\ workers[w].pc = "naming"
    /\ workers' = [workers EXCEPT ![w].pc = "creating"]
    /\ indexed' = Listed
    /\ UNCHANGED <<turnVars, rows, child, chatOf, busVars, bounds>>

\* The label is there: a duplicate answers the call, or the title of the child
\* session is awaited.
Named(w) ==
    /\ workers[w].pc = "naming"
    /\ workers' = [workers EXCEPT ![w] =
                      IF Duplicates(workers[w].kind) # {} THEN IdleWorker
                      ELSE [@ EXCEPT !.pc = "creating"]]
    /\ indexed' = Listed
    /\ UNCHANGED <<turnVars, rows, child, chatOf, busVars, bounds>>

\* executeRun of row r by w up to its first await, whose record on entry is
\* `me`: cancelled at once under an aborted signal, else the first chat begins.  A
\* child whose first message was never saved has a title to await before the
\* engine knows the chat.  `told` is the history before the run.
Execute(w, r, me, told) ==
    IF me.cut
    THEN /\ rows' = [rows EXCEPT ![r] = [status |-> "cancelled", kind |-> me.kind, mode |-> me.mode]]
         /\ workers' = [workers EXCEPT ![w] = IdleWorker]
         /\ Notify(IF me.mode = "background" THEN {r} ELSE {}, told)
         /\ UNCHANGED chatOf
    ELSE /\ rows' = [rows EXCEPT ![r] = [status |-> "running", kind |-> me.kind, mode |-> me.mode]]
         /\ IF child[r] = "used"
            THEN /\ workers' = Registered(w, r, me)
                 /\ chatOf' = [chatOf EXCEPT ![r] = w]
            ELSE /\ workers' = [workers EXCEPT ![w] = [me EXCEPT !.chat = "opening"]]
                 /\ UNCHANGED chatOf
         /\ notice' = told
         /\ UNCHANGED <<turns, current, deferred, inFlight>>

\* A background call answers as soon as the run is under way.
Entering(w, r) ==
    [workers[w] EXCEPT !.pc = "first", !.row = r,
                       !.awaited = @ /\ workers[w].mode = "foreground"]

\* Slip: the new row is written to the store only.
CreateStoredOnly(w) ==
    /\ workers[w].pc = "creating"
    /\ \E r \in Fresh :
        /\ UNCHANGED indexed
        /\ child' = [child EXCEPT ![r] = "fresh"]
        /\ Execute(w, r, Entering(w, r), Untold(r))
    /\ UNCHANGED <<alive, bounds>>

\* The title is there: child session, row and execution, without an await.
Create(w) ==
    /\ workers[w].pc = "creating"
    /\ \E r \in Fresh :
        /\ indexed' = indexed \cup {r}
        /\ child' = [child EXCEPT ![r] = "fresh"]
        /\ Execute(w, r, Entering(w, r), Untold(r))
    /\ UNCHANGED <<alive, bounds>>

\* The label of a restart is there: whatever the row is by now, it runs again.
Restart(w) ==
    LET r == workers[w].row IN
    /\ workers[w].pc = "renaming"
    /\ IF r \in Stored
       THEN indexed' = indexed \cup {r} /\ Execute(w, r, Entering(w, r), Untold(r))
       ELSE /\ workers' = [workers EXCEPT ![w] = IdleWorker]
            /\ UNCHANGED <<turns, current, rowVars, chatOf, busVars>>
    /\ UNCHANGED <<alive, child, bounds>>

\* The call outlasts MCP_TOOL_CALL_TIMEOUT_MS: the chat is given an error and goes
\* on, and so does the run.
Timeout(w) ==
    /\ Timeouts
    /\ workers[w].awaited /\ workers[w].pc \in {"first", "second"}
    /\ workers' = [workers EXCEPT ![w].awaited = FALSE]
    /\ UNCHANGED <<turnVars, rowVars, child, chatOf, busVars, bounds>>

-----------------------------------------------------------------------------
\* executeRun.

\* Slip: the chat known on the child is replaced without being aborted.
RegisterBesides(w) ==
    LET r == workers[w].row IN
    /\ workers[w].chat = "opening"
    /\ workers' = [workers EXCEPT ![w].chat = IF workers[w].cut THEN "aborted" ELSE "open"]
    /\ chatOf' = [chatOf EXCEPT ![r] = w]
    /\ child' = [child EXCEPT ![r] = "used"]
    /\ UNCHANGED <<turnVars, rowVars, busVars, bounds>>

\* The awaits before the rounds of a first chat are over; its record is saved.
Register(w) ==
    LET r == workers[w].row IN
    /\ workers[w].chat = "opening"
    /\ workers' = Registered(w, r, workers[w])
    /\ chatOf' = [chatOf EXCEPT ![r] = w]
    /\ child' = [child EXCEPT ![r] = "used"]
    /\ UNCHANGED <<turnVars, rowVars, busVars, bounds>>

\* The child replies, in a form that satisfies result_schema or not.
Reply(w) ==
    /\ workers[w].chat = "open"
    /\ \E c \in {"valid", "invalid"} : workers' = [workers EXCEPT ![w].chat = c]
    /\ child' = [child EXCEPT ![workers[w].row] = "used"]
    /\ UNCHANGED <<turnVars, rowVars, chatOf, busVars, bounds>>

\* A confirmation the child may not ask for: markRunNeedsParentAction.
NeedParent(w) ==
    LET r == workers[w].row IN
    /\ workers[w].chat = "open"
    /\ rows[r].status \in {"running", "needs_parent_action"}
    /\ rows' = Marked({r}, "needs_parent_action")
    /\ indexed' = indexed \cup {r}
    /\ Notify(Background({r}), notice)
    /\ UNCHANGED <<alive, child, chatOf, workers, bounds>>

\* The worker returns; its chat is forgotten by the engine if it is still there.
Done(w) ==
    /\ workers' = [workers EXCEPT ![w] = IdleWorker]
    /\ chatOf' = [r \in Rows |-> IF chatOf[r] = w THEN NoWorker ELSE chatOf[r]]

\* The end of a run: setStatus without a look at the status, and the notice.
Settle(w, status) ==
    LET r == workers[w].row IN
    /\ rows' = Marked({r}, status)
    /\ indexed' = indexed \cup ({r} \cap Stored)
    /\ Notify(Background({r} \cap Stored), notice)
    /\ Done(w)

Chatted(w) == workers[w].chat \in {"valid", "invalid", "aborted"}

\* A chat returned and its reply satisfies the contract.
ReturnValid(w) ==
    /\ workers[w].chat = "valid"
    /\ rows[workers[w].row].status # "needs_parent_action"
    /\ Settle(w, "completed")
    /\ UNCHANGED <<alive, child, bounds>>

\* afterFirst, afterRetry: the run was handed to the parent meanwhile.
ReturnHandedOver(w) ==
    /\ Chatted(w)
    /\ rows[workers[w].row].status = "needs_parent_action"
    /\ Done(w)
    /\ child' = [child EXCEPT ![workers[w].row] = "used"]
    /\ UNCHANGED <<turnVars, rowVars, busVars, bounds>>

\* The reply of the first chat does not satisfy the contract - the reply of a
\* chat that was aborted never does - and the child is asked once more.  Its
\* record is there: every chat that returns has saved it.
Retry(w) ==
    LET r == workers[w].row IN
    /\ workers[w].pc = "first" /\ workers[w].chat \in {"invalid", "aborted"}
    /\ rows[r].status # "needs_parent_action"
    /\ workers' = Registered(w, r, [workers[w] EXCEPT !.pc = "second"])
    /\ chatOf' = [chatOf EXCEPT ![r] = w]
    /\ child' = [child EXCEPT ![r] = "used"]
    /\ UNCHANGED <<turnVars, rowVars, busVars, bounds>>

\* Nor does that of the second chat.
ReturnInvalid(w) ==
    /\ workers[w].pc = "second" /\ workers[w].chat \in {"invalid", "aborted"}
    /\ rows[workers[w].row].status # "needs_parent_action"
    /\ Settle(w, "failed")
    /\ child' = [child EXCEPT ![workers[w].row] = "used"]
    /\ UNCHANGED <<alive, bounds>>

\* Slip: the error is reported, the status left.
ThrowUnsettled(w) ==
    /\ workers[w].chat = "open"
    /\ Done(w)
    /\ UNCHANGED <<turnVars, rowVars, child, busVars, bounds>>

\* A chat that was not aborted throws.
Throw(w) ==
    /\ workers[w].chat = "open"
    /\ Settle(w, "failed")
    /\ UNCHANGED <<alive, child, bounds>>

-----------------------------------------------------------------------------
\* Requests about runs and about the parent session.

\* cancel_subagent and POST /sessions/:id/subagents/:runId/cancel
Cancel(r) ==
    /\ alive
    /\ rows[r].status \in {"running", "needs_parent_action"}
    /\ workers' = AbortChildren({r}, workers)
    /\ rows' = Marked({r}, "cancelled")
    /\ indexed' = indexed \cup {r}
    /\ Notify(Background({r}), notice)
    /\ UNCHANGED <<alive, child, chatOf, bounds>>

\* get_subagent and the other lookups of one run load it into the index.
Look(r) ==
    /\ r \in Stored
    /\ indexed' = indexed \cup {r}
    /\ UNCHANGED <<turnVars, rows, child, chatOf, workers, busVars, bounds>>

\* list_subagents, GET /sessions/:id/subagents
List ==
    /\ alive
    /\ indexed' = Listed
    /\ UNCHANGED <<turnVars, rows, child, chatOf, workers, busVars, bounds>>

\* Slip: the parent's own chat is not aborted.
DeleteParentOnly ==
    /\ Deletions /\ alive
    /\ alive' = FALSE
    /\ workers' = AbortChildren(RunningListed, workers)
    /\ chatOf' = [r \in Rows |-> IF r \in Listed THEN NoWorker ELSE chatOf[r]]
    /\ child' = [r \in Rows |-> IF r \in Listed THEN "none" ELSE child[r]]
    /\ rows' = [r \in Rows |-> IF r \in Listed THEN NoRun ELSE rows[r]]
    /\ indexed' = {}
    /\ ClearBus
    /\ UNCHANGED <<turns, current, bounds>>

\* DELETE /sessions/:id, deleteSession: every listed run is cancelled if it runs
\* and deleted with its child session, then the parent's chat is aborted.
DeleteParent ==
    /\ Deletions /\ alive
    /\ alive' = FALSE
    /\ turns' = AbortTurn(current)
    /\ workers' = Cut(current, AbortChildren(RunningListed, workers))
    /\ chatOf' = [r \in Rows |-> IF r \in Listed THEN NoWorker ELSE chatOf[r]]
    /\ child' = [r \in Rows |-> IF r \in Listed THEN "none" ELSE child[r]]
    /\ rows' = [r \in Rows |-> IF r \in Listed THEN NoRun ELSE rows[r]]
    /\ indexed' = {}
    /\ ClearBus
    /\ UNCHANGED <<current, bounds>>

\* The server process restarts: what it only held in memory is gone.
Crash ==
    /\ crashes < MaxCrashes
    /\ crashes' = crashes + 1
    /\ turns' = [t \in Turns |-> IdleTurn]
    /\ current' = NoTurn
    /\ indexed' = {}
    /\ chatOf' = [r \in Rows |-> NoWorker]
    /\ workers' = [w \in Workers |-> IdleWorker]
    /\ deferred' = {} /\ inFlight' = {}
    /\ UNCHANGED <<alive, rows, child, notice, restarts>>

-----------------------------------------------------------------------------
\* What brings a call, and what brings a chat of the parent, nearer to its end.
Work(w) ==
    \/ Named(w) \/ Create(w) \/ Restart(w)
    \/ Register(w) \/ Reply(w) \/ Throw(w)
    \/ ReturnValid(w) \/ ReturnHandedOver(w) \/ Retry(w) \/ ReturnInvalid(w)

Turn(t) == EndTurn(t) \/ Unwind(t) \/ LeaveStopped(t)

Next ==
    \/ \E w \in Workers : Work(w) \/ NeedParent(w) \/ Timeout(w)
    \/ \E t \in Turns :
        \/ OpenChat(t) \/ Turn(t)
        \/ \E w \in Workers, k \in Kinds, m \in Modes :
            CallRun(t, w, k, m) \/ \E r \in Rows : CallRestart(t, w, r, k, m)
    \/ \E r \in Rows : DeferTimer(r) \/ Cancel(r) \/ Look(r)
    \/ Stop \/ List \/ DeleteParent \/ Crash

Spec == Init /\ [][Next]_vars

\* Chats and name look-ups end; a busy-defer timer looks every ten seconds and is
\* assumed not to miss for ever the moments at which no chat runs.
Fairness ==
    /\ \A w \in Workers : WF_vars(Work(w))
    /\ \A t \in Turns : WF_vars(Turn(t))
    /\ \A r \in Rows : SF_vars(DeferTimer(r))

FairSpec == Spec /\ Fairness

-----------------------------------------------------------------------------
TypeOK ==
    /\ alive \in BOOLEAN
    /\ turns \in [Turns -> TurnRecord]
    /\ current \in Turns \cup {NoTurn}
    /\ rows \in [Rows -> Row]
    /\ indexed \subseteq Rows
    /\ child \in [Rows -> {"none", "fresh", "used"}]
    /\ chatOf \in [Rows -> Workers \cup {NoWorker}]
    /\ workers \in [Workers -> Worker]
    /\ deferred \subseteq Rows /\ inFlight \subseteq Rows
    /\ notice \in Notices
    /\ restarts \in 0 .. MaxRestarts /\ crashes \in 0 .. MaxCrashes

\* A call has a chat while it executes a run, and a run from then on.
ExecutesOne ==
    \A w \in Workers :
        /\ workers[w].chat # "none" <=> workers[w].pc \in {"first", "second"}
        /\ workers[w].pc \in {"renaming", "first", "second"} => workers[w].row \in Rows
        /\ workers[w].pc # "idle" => workers[w].kind \in Kinds

\* The chat that works is the registered one, and belongs to a session.
LiveIsCurrent == \A t \in Turns : LiveTurn(t) => alive /\ current = t

Early(w) == workers[w].pc \in {"naming", "creating", "renaming"}

\* A call that has not reached its row is the one its working chat waits for, or
\* has an aborted signal: nothing it starts outlives its check of the signal.
EarlyIsAwaited ==
    /\ \A w \in Workers : Early(w) =>
          workers[w].cut \/ (workers[w].awaited /\ workers[w].turn \in Turns
                               /\ LiveTurn(workers[w].turn))
    /\ \A v, w \in Workers :
          (Early(v) /\ Early(w) /\ ~workers[v].cut /\ ~workers[w].cut) => v = w

\* Before the process restarts, the index knows every row, and what a call found
\* out about duplicates is still true when it creates its row.
IndexIsWarm ==
    crashes = 0 =>
        /\ Stored \subseteq indexed
        /\ \A w \in Workers : workers[w].pc = "creating" =>
              workers[w].cut \/ Duplicates(workers[w].kind) = {}

Bookkeeping == ExecutesOne /\ LiveIsCurrent /\ EarlyIsAwaited /\ IndexIsWarm

\* Until the process restarts, a run shown as running is being executed: otherwise
\* it runs for ever, answers every later call for the same task
\* (findActiveDuplicate) and cannot be restarted (runner.ts:287).
ActiveIsExecuted ==
    crashes = 0 => \A r \in Rows :
        rows[r].status = "running" => \E w \in Workers : Executes(w, r)

\* The child session of a run has at most one chat that is not aborted, and the
\* engine knows it: whoever cancels the run reaches it (engine.ts:1830).
OneLiveChat ==
    \A w \in Workers :
        (workers[w].chat = "open" /\ workers[w].row \in Stored) => chatOf[workers[w].row] = w

\* Once the parent is deleted, and until a chat that outlives the deletion saves
\* it again, none of its runs is running and no notice is kept for it, not even by
\* a call that was waiting for a label (runner.ts:437, 454).
DeadParentRunsNothing ==
    (~alive /\ crashes = 0) =>
              /\ \A r \in Rows : rows[r].status # "running"
              /\ deferred = {} /\ inFlight = {}

\* A new run never starts besides one for the same task, in spite of the awaits
\* between the look for a duplicate and the row (runner.ts:437, 454).
CreatesNoDuplicate ==
    [][\A r, q \in Rows :
          (rows[r].status = "none" /\ rows'[r].status = "running"
             /\ rows[q].status = "running" /\ crashes = 0) => ~SameTask(rows[q].kind, rows'[r].kind)]_vars

\* Deleting the parent deletes every run of it (cascade.ts:18), those included that
\* were created, restarted or looked up since the index was read last; after a
\* restart of the process the index may know only some of them (registry.ts:81).
DeletionReachesAll ==
    [][(alive /\ ~alive' /\ crashes = 0) => \A r \in Rows : rows'[r].status = "none"]_vars

\* Every run ends, however it is restarted, cancelled, retried or handed over, and
\* whatever its earlier executions still do to it, unless the process restarts.
RunsEnd ==
    \A r \in Rows :
        rows[r].status = "running" ~> (rows[r].status # "running" \/ crashes > 0)

\* The end of a background run reaches the parent, through chats that keep it busy,
\* however often the run is restarted: unless the user has cleared the notice, the
\* resume by an earlier end of the run was still at work and the bus dropped it, or
\* the process restarts.
EndsReachParent ==
    \A r \in Rows :
        (rows[r].mode = "background" /\ rows[r].status \in Ended) ~>
            (notice[r] # "none" \/ ~alive \/ rows[r].status \notin Ended \/ crashes > 0)

\* Background terminal states notify the parent (runner.ts:214), those of a run
\* that was restarted included, unless the user has cleared the notice.
EveryEndIsHeard ==
    \A r \in Rows :
        (rows[r].mode = "background" /\ rows[r].status \in Ended) ~>
            (notice[r] \in {"heard", "cleared"} \/ ~alive \/ rows[r].status \notin Ended)
=============================================================================
