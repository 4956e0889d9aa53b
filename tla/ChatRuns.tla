------------------------------ MODULE ChatRuns ------------------------------
(***************************************************************************)
(* The chats running on a session, as two tables that do not know of each  *)
(* other see them:                                                         *)
(*                                                                         *)
(*   chatRun    the server's registry (session-chat-runs.ts), which decides *)
(*              whether a session is busy;                                 *)
(*   engineRun  the engine's chatAbortBySession, the run whose             *)
(*              AbortController a later chat or a deletion aborts.         *)
(*                                                                         *)
(* A run is one call of agent.chat().  It is "starting" while it waits for *)
(* attachments and for the title, "active" in its rounds, "replying" once  *)
(* the reply is saved and only the done event is awaited, and "cancelling" *)
(* after finalizeCancelled did its clean-up.                               *)
(***************************************************************************)
EXTENDS ResumeTypes

VARIABLES
    alive,      \* sessions that have a record in the store
    runs,       \* [Runs -> a call of agent.chat(), or IdleRun]
    chatRun,    \* [Sessions -> Runs \cup {NoRun}]
    engineRun   \* [Sessions -> Runs \cup {NoRun}]

chatVars == <<alive, runs, chatRun, engineRun>>

Phases == {"idle", "starting", "active", "replying", "cancelling"}

Run ==
    [phase : Phases, session : Sessions \cup {NoSession},
     kind : {"none", "stream", "direct", "resume"},
     aborted : BOOLEAN, job : Jobs \cup {NoJob}]

IdleRun ==
    [phase |-> "idle", session |-> NoSession, kind |-> "none", aborted |-> FALSE, job |-> NoJob]

ChatTypeOK ==
    /\ alive \subseteq Sessions
    /\ runs \in [Runs -> Run]
    /\ \A r \in Runs : runs[r].phase # "idle" => runs[r].session \in Sessions
    /\ chatRun \in [Sessions -> Runs \cup {NoRun}]
    /\ engineRun \in [Sessions -> Runs \cup {NoRun}]

ChatInit ==
    /\ alive = Sessions
    /\ runs = [r \in Runs |-> IdleRun]
    /\ chatRun = [s \in Sessions |-> NoRun]
    /\ engineRun = [s \in Sessions |-> NoRun]

-----------------------------------------------------------------------------
Idle(r) == runs[r].phase = "idle"
Live(r) == ~Idle(r)

\* A run in its rounds whose signal has not been aborted: the only runs that
\* call tools, since throwIfAborted guards every call and an abort rejects the
\* tool call it finds in progress.
Working(r) == runs[r].phase = "active" /\ ~runs[r].aborted

\* hasActiveSessionChat
Busy(s) == chatRun[s] # NoRun

\* AbortController.abort() on the runs of R (R may hold NoRun: nobody to abort).
Aborted(R) ==
    [r \in Runs |-> IF r \in R THEN [runs[r] EXCEPT !.aborted = TRUE] ELSE runs[r]]

NewRun(s, kind, phase, job) ==
    [phase |-> phase, session |-> s, kind |-> kind, aborted |-> FALSE, job |-> job]

\* Bound: users open a chat only while enough run identities are left for
\* every session to resume by itself.
RoomForUser == Cardinality({r \in Runs : Idle(r)}) > Cardinality(Sessions)

\* POST /chat/stream: registerSessionChat aborts and replaces the registered
\* run, and the chat begins to wait for its attachments and title.
OpenStream(s, r) ==
    /\ Idle(r)
    /\ runs' = [Aborted({chatRun[s]}) EXCEPT ![r] = NewRun(s, "stream", "starting", NoJob)]
    /\ chatRun' = [chatRun EXCEPT ![s] = r]
    /\ UNCHANGED <<alive, engineRun>>

\* POST /chat, a channel message, a scheduled task: agent.chat() without
\* registering it, so the session does not look busy.
OpenDirect(s, r) ==
    /\ Idle(r)
    /\ runs' = [runs EXCEPT ![r] = NewRun(s, "direct", "starting", NoJob)]
    /\ UNCHANGED <<alive, chatRun, engineRun>>

\* resumeSessionChat: registered, and chat() of a resume message reaches its
\* first round without awaiting anything.
OpenResume(s, r, job) ==
    /\ Idle(r)
    /\ runs' = [Aborted({chatRun[s], engineRun[s]}) EXCEPT
                    ![r] = NewRun(s, "resume", "active", job)]
    /\ chatRun' = [chatRun EXCEPT ![s] = r]
    /\ engineRun' = [engineRun EXCEPT ![s] = r]
    /\ alive' = alive \cup {s}

\* Slip: the run known to the engine is replaced without being aborted.
EnterRoundsBesides(r) ==
    LET s == runs[r].session IN
    /\ runs[r].phase = "starting"
    /\ runs' = [runs EXCEPT ![r].phase = "active"]
    /\ engineRun' = [engineRun EXCEPT ![s] = r]
    /\ alive' = alive \cup {s}
    /\ UNCHANGED chatRun

\* The awaits before the first round are over: the user message is saved and
\* whichever run the engine knew is aborted, whether it is older or newer.
EnterRounds(r) ==
    LET s == runs[r].session IN
    /\ runs[r].phase = "starting"
    /\ runs' = [Aborted({engineRun[s]}) EXCEPT ![r].phase = "active"]
    /\ engineRun' = [engineRun EXCEPT ![s] = r]
    /\ alive' = alive \cup {s}
    /\ UNCHANGED chatRun

\* The reply is saved; aborting the run has no effect from here on.
SaveReply(r) ==
    /\ Working(r)
    /\ runs' = [runs EXCEPT ![r].phase = "replying"]
    /\ alive' = alive \cup {runs[r].session}
    /\ UNCHANGED <<chatRun, engineRun>>

\* An aborted run gets out of its rounds: the inner finally forgets its
\* controller and finalizeCancelled saves the stopped reply.
SaveStopped(r) ==
    LET s == runs[r].session IN
    /\ runs[r].phase = "active" /\ runs[r].aborted
    /\ runs' = [runs EXCEPT ![r].phase = "cancelling"]
    /\ engineRun' = [engineRun EXCEPT ![s] = IF @ = r THEN NoRun ELSE @]
    /\ alive' = alive \cup {s}
    /\ UNCHANGED chatRun

\* Slip: clearSessionChat does not compare the controller.
LeaveAny(r) ==
    LET s == runs[r].session IN
    /\ runs' = [runs EXCEPT ![r] = IdleRun]
    /\ chatRun' = [chatRun EXCEPT ![s] = NoRun]
    /\ engineRun' = [engineRun EXCEPT ![s] = IF @ = r THEN NoRun ELSE @]
    /\ UNCHANGED alive

\* agent.chat() returns or throws: the inner finally and clearSessionChat, each
\* removing only an entry that is still this run's.
Leave(r) ==
    LET s == runs[r].session IN
    /\ runs' = [runs EXCEPT ![r] = IdleRun]
    /\ chatRun' = [chatRun EXCEPT ![s] = IF @ = r THEN NoRun ELSE @]
    /\ engineRun' = [engineRun EXCEPT ![s] = IF @ = r THEN NoRun ELSE @]
    /\ UNCHANGED alive

\* cancelSessionChat, or the close of the response of a stream.
AbortRegistered(s) ==
    /\ runs' = Aborted({chatRun[s]})
    /\ UNCHANGED <<alive, chatRun, engineRun>>

\* The chat part of deleteSession: the engine's run is aborted, the server's
\* registry is left alone.
DropSession(s) ==
    /\ s \in alive
    /\ runs' = Aborted({engineRun[s]})
    /\ engineRun' = [engineRun EXCEPT ![s] = NoRun]
    /\ alive' = alive \ {s}
    /\ UNCHANGED chatRun
=============================================================================
