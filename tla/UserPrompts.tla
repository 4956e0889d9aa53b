---------------------------- MODULE UserPrompts ----------------------------
(***************************************************************************)
(* How the agent asks its user and how the user talks into a running chat: *)
(*                                                                         *)
(*   user-prompt.ts            the bridge: who waits for an answer  bridge  *)
(*   create-approval-queue.ts  the list of open questions           open    *)
(*   steer-bridge.ts           remarks for the running chat         steer   *)
(*   engine.ts                 the chats that ask, on top of ChatRuns       *)
(*                                                                         *)
(* A question is asked by ask_user, inside a round of the chat, or by the  *)
(* handler of a tool, on the other side of the tool broker.  The broker    *)
(* gives a call up when it times out or its chat is aborted; the handler   *)
(* goes on, and may still ask, or be asked to wait, on its own.            *)
(***************************************************************************)
EXTENDS ChatRuns

CONSTANTS
    Calls,      \* identities of tool calls, reused; the id of the question a call asks
    Messages,   \* identities of steering remarks, reused
    MaxPending  \* MAX_PENDING of the approval queue, 64 in the code

ASSUME PromptAssumption == MaxPending \in Nat

VARIABLES
    thrown,  \* runs whose question was cancelled: the round throws ChatCancelledError
    stage,   \* [Runs -> where a run is in its rounds]
    bound,   \* [Sessions -> the run whose workspace bridge serves the tools, or NoRun]
    calls,   \* [Calls -> a tool call, or FreeCall]
    bridge,  \* UserPromptBridge.pending: calls whose question can be answered
    open,    \* calls whose question has a pending record in the approval queue
    steer    \* [Messages -> a remark in the queue of its session, or NoSteer; run is history:
             \* the chat that has a round to come when the remark is accepted]

askVars == <<calls, bridge, open>>
vars == <<alive, runs, chatRun, engineRun, thrown, stage, bound, calls, bridge, open, steer>>

\* A call works until its question is asked (at most one per call: a handler that asks
\* again is another call), and has then its answer or is refused one.
Call ==
    [state : {"free", "working", "asking", "answered", "refused"},
     kind : {"none", "round", "tool"},
     session : Sessions \cup {NoSession},
     run : Runs \cup {NoRun},  \* whose signal the call holds; NoRun once that run returned
     attached : BOOLEAN,       \* the chat waits for the call
     cut : BOOLEAN]            \* the signal has been aborted

FreeCall ==
    [state |-> "free", kind |-> "none", session |-> NoSession, run |-> NoRun,
     attached |-> FALSE, cut |-> FALSE]

NoSteer == [session |-> NoSession, run |-> NoRun]

TypeOK ==
    /\ ChatTypeOK
    /\ thrown \subseteq Runs
    /\ stage \in [Runs -> {"entry", "model", "tools"}]
    /\ bound \in [Sessions -> Runs \cup {NoRun}]
    /\ calls \in [Calls -> Call]
    /\ bridge \subseteq Calls
    /\ open \subseteq Calls
    /\ steer \in [Messages -> [session : Sessions \cup {NoSession}, run : Runs \cup {NoRun}]]

Init ==
    /\ ChatInit
    /\ thrown = {}
    /\ stage = [r \in Runs |-> "entry"]
    /\ bound = [s \in Sessions |-> NoRun]
    /\ calls = [c \in Calls |-> FreeCall]
    /\ bridge = {}
    /\ open = {}
    /\ steer = [m \in Messages |-> NoSteer]

-----------------------------------------------------------------------------
\* The bridge.

\* A run that goes through its rounds: throwIfAborted has let it pass.
AtWork(r) == Working(r) /\ r \notin thrown

AttachedTo(r) == {c \in Calls : calls[c].run = r /\ calls[c].attached}
CallsOf(s) == {c \in Calls : calls[c].session = s}

\* The waits that end when the runs of R are aborted, by the listeners on their
\* signals, and those of the sessions S are cancelled, by cancelSession.
Rejected(R, S) ==
    {c \in bridge : calls[c].run \in R \ {NoRun} \/ calls[c].session \in S}

\* The abort of the runs of R, on the signals that calls hold.
Signalled(R) ==
    [c \in Calls |->
        IF calls[c].run \in R \ {NoRun} THEN [calls[c] EXCEPT !.cut = TRUE] ELSE calls[c]]

\* Slip: entries are removed without being rejected.
AfterRejectSilent(R, S) == Signalled(R)

\* A rejected handler goes on with an error, a rejected round throws.
AfterReject(R, S) ==
    [c \in Calls |->
        IF c \in Rejected(R, S)
        THEN [Signalled(R)[c] EXCEPT !.state = "refused"]
        ELSE Signalled(R)[c]]

\* Slip: the error of a handler ends the round, too.
ThrownByAny(R, S) == {calls[c].run : c \in Rejected(R, S)}

ThrownBy(R, S) == {calls[c].run : c \in {d \in Rejected(R, S) : calls[d].kind = "round"}}

Reject(R, S) ==
    /\ calls' = AfterReject(R, S)
    /\ bridge' = bridge \ Rejected(R, S)
    /\ thrown' = thrown \cup ThrownBy(R, S)

-----------------------------------------------------------------------------
\* The approval queue.

\* track: a full queue refuses the record, and nobody is told.
Tracked(c) == IF Cardinality(open) < MaxPending THEN open \cup {c} ELSE open

-----------------------------------------------------------------------------
\* The life of a call.

\* A call that is over is remembered as long as its record is open.
Over(c) ==
    IF c \in open
    THEN [FreeCall EXCEPT !.session = calls[c].session, !.kind = calls[c].kind]
    ELSE FreeCall

\* The chat of r gives its calls up: a round of its own ends with it, handlers go on.
GivenUp(cs, r) ==
    [c \in Calls |->
        IF cs[c].run # r THEN cs[c]
        ELSE IF cs[c].kind = "round" THEN FreeCall
        ELSE [cs[c] EXCEPT !.attached = FALSE]]

\* The run of a call returns: nobody holds its controller any more.
Orphaned(cs, r) ==
    [c \in Calls |-> IF cs[c].run = r THEN [cs[c] EXCEPT !.run = NoRun] ELSE cs[c]]

\* Slip: unbinding does not compare the generation.
UnboundAny(r) == [bound EXCEPT ![runs[r].session] = NoRun]

\* unbindWorkspaceToolBridge
Unbound(r) ==
    LET s == runs[r].session IN [bound EXCEPT ![s] = IF @ = r THEN NoRun ELSE @]

\* SteerBridge.clear and consume
Emptied(s) == [m \in Messages |-> IF steer[m].session = s THEN NoSteer ELSE steer[m]]

\* The remarks meant for a run that is over are nobody's in particular.
Unaddressed(r) ==
    [m \in Messages |-> IF steer[m].run = r THEN [steer[m] EXCEPT !.run = NoRun] ELSE steer[m]]

-----------------------------------------------------------------------------
\* Chats.

StartStream(s, r) ==
    /\ "stream" \in UserKinds /\ s \in alive
    /\ OpenStream(s, r)
    /\ Reject({chatRun[s]}, {})
    /\ UNCHANGED <<stage, bound, open, steer>>

StartDirect(s, r) ==
    /\ "direct" \in UserKinds /\ s \in alive
    /\ OpenDirect(s, r)
    /\ UNCHANGED <<thrown, stage, bound, askVars, steer>>

\* A turn wake or the end of a command, on a session that does not look busy.
Resume(s, r) ==
    /\ s \in alive /\ ~Busy(s)
    /\ OpenResume(s, r, NoJob)
    /\ Reject({engineRun[s]}, {})
    /\ bound' = [bound EXCEPT ![s] = r]
    /\ UNCHANGED <<stage, open, steer>>

\* The chat enters its rounds and binds the bridge of its tools.
Activate(r) ==
    /\ EnterRounds(r)
    /\ Reject({engineRun[runs[r].session]}, {})
    /\ bound' = [bound EXCEPT ![runs[r].session] = r]
    /\ UNCHANGED <<stage, open, steer>>

\* Slip: the queue is consumed once, before the first round.
RoundDeaf(r) ==
    /\ AtWork(r)
    /\ AttachedTo(r) = {}
    /\ stage' = [stage EXCEPT ![r] = "model"]
    /\ steer' = IF stage[r] = "entry" THEN Emptied(runs[r].session) ELSE steer
    /\ UNCHANGED <<chatVars, thrown, bound, askVars>>

\* The next round begins: the remarks of the session are taken out of the queue
\* and added to the messages (an unattended chat drops them), then the model is asked.
Round(r) ==
    /\ AtWork(r)
    /\ AttachedTo(r) = {}
    /\ stage' = [stage EXCEPT ![r] = "model"]
    /\ steer' = Emptied(runs[r].session)
    /\ UNCHANGED <<chatVars, thrown, bound, askVars>>

\* chat() returns or throws; its callers free what is still theirs.
Depart(r) ==
    /\ Leave(r)
    /\ calls' = Orphaned(calls, r)
    /\ bound' = Unbound(r)
    /\ stage' = [stage EXCEPT ![r] = "entry"]
    /\ steer' = Unaddressed(r)
    /\ UNCHANGED <<thrown, bridge, open>>

RejectStart(r) == runs[r].phase = "starting" /\ Depart(r)

\* The model cannot be reached.  A failing tool is a result of the round instead.
Throw(r) == AtWork(r) /\ AttachedTo(r) = {} /\ Depart(r)

\* The model answers without calling a tool.
Reply(r) ==
    /\ AtWork(r) /\ stage[r] = "model"
    /\ SaveReply(r)
    /\ UNCHANGED <<thrown, stage, bound, askVars, steer>>

Finish(r) == runs[r].phase \in {"replying", "cancelling"} /\ Depart(r)

\* The stopped reply of a chat that was aborted, or whose question was cancelled.
SaveGivenUp(r) ==
    LET s == runs[r].session IN
    /\ runs[r].phase = "active" /\ (runs[r].aborted \/ r \in thrown)
    /\ runs' = [runs EXCEPT ![r].phase = "cancelling"]
    /\ engineRun' = [engineRun EXCEPT ![s] = IF @ = r THEN NoRun ELSE @]
    /\ alive' = alive \cup {s}
    /\ UNCHANGED chatRun

\* The chat gets out of its rounds, which it cannot while a question of its own
\* keeps it waiting: the inner finally, then finalizeCancelled, which cancels the
\* questions and remarks of the whole session.
Unwind(r) ==
    LET s == runs[r].session IN
    /\ \A c \in AttachedTo(r) : calls[c].kind = "round" => calls[c].state # "asking"
    /\ SaveGivenUp(r)
    /\ calls' = GivenUp(AfterReject({}, {s}), r)
    /\ bridge' = bridge \ Rejected({}, {s})
    /\ thrown' = (thrown \cup ThrownBy({}, {s})) \ {r}
    /\ open' = open \ CallsOf(s)
    /\ bound' = Unbound(r)
    /\ steer' = Emptied(s)
    /\ UNCHANGED stage

-----------------------------------------------------------------------------
\* Tool calls and questions.

NewCall(r, kind, state) ==
    [state |-> state, kind |-> kind, session |-> runs[r].session, run |-> r,
     attached |-> TRUE, cut |-> FALSE]

Unused(c) == calls[c].state = "free" /\ c \notin open

\* Between two rounds, once the model has asked for tools.
InTools(r) == AtWork(r) /\ stage[r] # "entry"

\* A call through the broker.  Calls of one batch run side by side, a question of
\* the round has a batch of its own.
StartTool(r, c) ==
    /\ InTools(r)
    /\ \A d \in AttachedTo(r) : calls[d].kind = "tool"
    /\ Unused(c)
    /\ calls' = [calls EXCEPT ![c] = NewCall(r, "tool", "working")]
    /\ stage' = [stage EXCEPT ![r] = "tools"]
    /\ UNCHANGED <<chatVars, thrown, bound, bridge, open, steer>>

\* ask_user in a round: the record first, then the wait.
AskUser(r, c) ==
    /\ InTools(r)
    /\ AttachedTo(r) = {}
    /\ Unused(c)
    /\ calls' = [calls EXCEPT ![c] = NewCall(r, "round", "asking")]
    /\ bridge' = bridge \cup {c}
    /\ open' = Tracked(c)
    /\ stage' = [stage EXCEPT ![r] = "tools"]
    /\ UNCHANGED <<chatVars, thrown, bound, steer>>

\* A handler asks (confirm, askUser, askSecret), whether or not its call has been
\* given up: the record is made in any case, the wait only if the signal is not aborted.
ToolAsks(c) ==
    /\ calls[c].kind = "tool" /\ calls[c].state = "working"
    /\ open' = Tracked(c)
    /\ calls' = [calls EXCEPT ![c].state = IF calls[c].cut THEN "refused" ELSE "asking"]
    /\ bridge' = IF calls[c].cut THEN bridge ELSE bridge \cup {c}
    /\ UNCHANGED <<chatVars, thrown, stage, bound, steer>>

\* The broker's timeout: the round goes on, the handler too.
ToolTimeout(c) ==
    /\ calls[c].kind = "tool" /\ calls[c].attached
    /\ calls' = [calls EXCEPT ![c].attached = FALSE]
    /\ UNCHANGED <<chatVars, thrown, stage, bound, bridge, open, steer>>

\* The handler returns, or the round has its answer.
Return(c) ==
    /\ \/ calls[c].state = "answered"
       \/ calls[c].kind = "tool" /\ calls[c].state \in {"working", "refused"}
    /\ calls' = [calls EXCEPT ![c] = Over(c)]
    /\ UNCHANGED <<chatVars, thrown, stage, bound, bridge, open, steer>>

-----------------------------------------------------------------------------
\* Requests of users.

\* UserPromptBridge.submit
Submit(c) ==
    /\ bridge' = bridge \ {c}
    /\ calls' = [calls EXCEPT ![c].state = "answered"]

\* Slip: the record is not resolved with the answer.
AnswerBridgeOnly(c) ==
    /\ c \in bridge
    /\ Submit(c)
    /\ UNCHANGED <<chatVars, thrown, stage, bound, open, steer>>

\* POST /chat/user-prompt: resolveUserPrompt answers the wait and then closes the record.
Answer(c) ==
    /\ c \in bridge
    /\ Submit(c)
    /\ open' = open \ {c}
    /\ UNCHANGED <<chatVars, thrown, stage, bound, steer>>

\* POST /platform/approvals/:id/resolve: the record first, then whoever waits.
ResolveApproval(c) ==
    /\ c \in open
    /\ open' = open \ {c}
    /\ IF c \in bridge THEN Submit(c) ELSE UNCHANGED <<calls, bridge>>
    /\ UNCHANGED <<chatVars, thrown, stage, bound, steer>>

\* POST /platform/sessions/:id/approvals/cancel: records only.
CancelApprovals(s) ==
    /\ CallsOf(s) \cap open # {}
    /\ open' = open \ CallsOf(s)
    /\ UNCHANGED <<chatVars, thrown, stage, bound, calls, bridge, steer>>

\* POST /chat/cancel: the registered chat, every wait and the remarks; the records
\* are left to the chat that unwinds.
Stop(s) ==
    /\ AbortRegistered(s)
    /\ Reject({chatRun[s]}, {s})
    /\ steer' = Emptied(s)
    /\ UNCHANGED <<stage, bound, open>>

\* The close of the response of a stream.
Disconnect(s) ==
    /\ Busy(s) /\ runs[chatRun[s]].kind = "stream"
    /\ AbortRegistered(s)
    /\ Reject({chatRun[s]}, {})
    /\ UNCHANGED <<stage, bound, open, steer>>

DeleteSession(s) ==
    /\ DropSession(s)
    /\ Reject({engineRun[s]}, {s})
    /\ open' = open \ CallsOf(s)
    /\ steer' = Emptied(s)
    /\ UNCHANGED <<stage, bound>>

\* truncateSession, before a message is edited and sent again.  No chat is aborted.
Truncate(s) ==
    /\ Reject({}, {s})
    /\ open' = open \ CallsOf(s)
    /\ steer' = Emptied(s)
    /\ UNCHANGED <<chatVars, stage, bound>>

\* archiveSession: of the state here only the remarks are dropped.
Archive(s) ==
    /\ s \in alive
    /\ steer' = Emptied(s)
    /\ UNCHANGED <<chatVars, thrown, stage, bound, askVars>>

\* POST /chat/steer, accepted while the session looks busy.  The remark is meant for
\* the registered chat if that has another round to come for certain.
Steer(s, m) ==
    LET r == chatRun[s] IN
    /\ Busy(s)
    /\ steer[m] = NoSteer
    /\ steer' = [steer EXCEPT ![m] =
           [session |-> s,
            run |-> IF runs[r].phase = "starting" \/ (AtWork(r) /\ stage[r] # "model")
                    THEN r ELSE NoRun]]
    /\ UNCHANGED <<chatVars, thrown, stage, bound, askVars>>

-----------------------------------------------------------------------------
ChatStep(r) ==
    Activate(r) \/ RejectStart(r) \/ Round(r) \/ Throw(r) \/ Reply(r) \/ Finish(r) \/ Unwind(r)

CallStep(c) == ToolAsks(c) \/ ToolTimeout(c) \/ Return(c)

UserStep(c) == Answer(c) \/ ResolveApproval(c)

SessionStep(s) ==
    \/ CancelApprovals(s) \/ Stop(s) \/ Disconnect(s) \/ DeleteSession(s)
    \/ Truncate(s) \/ Archive(s)
    \/ \E m \in Messages : Steer(s, m)
    \/ \E r \in Runs : StartStream(s, r) \/ StartDirect(s, r) \/ Resume(s, r)

Next ==
    \/ \E r \in Runs : ChatStep(r)
    \/ \E r \in Runs, c \in Calls : StartTool(r, c) \/ AskUser(r, c)
    \/ \E c \in Calls : CallStep(c) \/ UserStep(c)
    \/ \E s \in Sessions : SessionStep(s)

Spec == Init /\ [][Next]_vars

-----------------------------------------------------------------------------
\* Properties.

\* Whoever waits for an answer can be given one: the bridge holds exactly the waits
\* in progress, so that no answer, cancellation or abort takes an entry out without
\* waking its handler, and none leaves one behind.
AskersArePending == bridge = {c \in Calls : calls[c].state = "asking"}

\* No question outlives its chat's abort, whether it was asked before or is asked by a
\* handler that goes on; and no question of a round keeps a chat from unwinding.
AbortedDoNotAsk ==
    \A c \in bridge :
        /\ ~calls[c].cut
        /\ calls[c].run # NoRun => ~runs[calls[c].run].aborted
        /\ calls[c].kind = "round" => calls[c].run \notin thrown

\* approval-tracker.ts: resolving either side completes the wait.  A question that has
\* been answered, on whichever side, is open on neither.
ClosedOnBothSides == \A c \in Calls : calls[c].state = "answered" => c \notin bridge \cup open

\* A question of ask_user that is listed as open is waited for, unless its chat is
\* about to unwind and to close it.  (Handlers leave records behind.)
ListedIsAsked ==
    \A c \in open :
        \/ c \in bridge
        \/ calls[c].kind = "tool"
        \/ calls[c].kind = "round" /\ (runs[calls[c].run].aborted \/ calls[c].run \in thrown)

\* Nobody is asked on behalf of a deleted session, except by handlers whose call was
\* given up before.
DeadSessionsAskNothing ==
    \A c \in bridge : calls[c].attached => calls[c].session \in alive

\* The tools of a chat at work find its own workspace bridge, whatever older chats
\* of the session unbind on their way out.
WorkersAreBound == \A r \in Runs : Working(r) => bound[runs[r].session] = r

\* A remark accepted while the registered chat waits to begin or is between two
\* rounds is taken up by a round: that chat does not reply before.
SteerIsHeard ==
    [][\A r \in Runs, m \in Messages :
          runs[r].phase = "active" /\ runs'[r].phase = "replying" => steer[m].run # r]_vars
=============================================================================
