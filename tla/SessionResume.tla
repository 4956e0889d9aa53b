--------------------------- MODULE SessionResume ---------------------------
(***************************************************************************)
(* How a session continues by itself: the end of a background command, or  *)
(* a timer the agent set, starts a chat on the session, at a moment when no *)
(* chat runs on it.  Everything lives in the memory of one Node process:   *)
(*                                                                         *)
(*   agent-workspace  background shell commands             jobs           *)
(*   jobs/registry, jobs/watch-registry                     watches        *)
(*   jobs/resume-bus                                        deferred,      *)
(*                                                          inFlight       *)
(*   turn-wake                                              wakes          *)
(*   session-chat-runs, engine.chat                         ChatRuns       *)
(*                                                                         *)
(* One action is one macrotask of the event loop (a request, a timer, an   *)
(* awaited answer) up to its next await; the two continuations the code    *)
(* queues as microtasks are actions of their own and run before anything   *)
(* else (Quiet).                                                           *)
(***************************************************************************)
EXTENDS ChatRuns

VARIABLES
    jobs,       \* [Jobs -> [state, session]]: shell-command-job.ts and its registry snapshot
    watches,    \* jobs with an entry in the watch registry (byDedupe)
    detaching,  \* jobs whose onJobTerminal microtask is queued
    clearing,   \* cancelled jobs whose canceller has not continued after its await
    deferred,   \* keys of the bus with a busy-defer timer
    inFlight,   \* keys of the bus with a resume running
    wakes,      \* [Sessions -> number of pending turn wakes]
    fate        \* history: what became of the promise to resume after the job

jobVars == <<jobs, watches, detaching, clearing>>
busVars == <<deferred, inFlight>>
vars == <<alive, runs, chatRun, engineRun, jobs, watches, detaching, clearing,
          deferred, inFlight, wakes, fate>>

TypeOK ==
    /\ ChatTypeOK
    /\ jobs \in [Jobs -> [state : {"unborn", "running", "ended"},
                          session : Sessions \cup {NoSession}]]
    /\ watches \subseteq Jobs
    /\ detaching \subseteq Jobs
    /\ clearing \subseteq Jobs
    /\ deferred \subseteq Jobs
    /\ inFlight \subseteq Jobs
    /\ wakes \in [Sessions -> 0 .. MaxWakes]
    /\ fate \in [Jobs -> {"none", "owed", "delivered", "forgotten"}]

Init ==
    /\ ChatInit
    /\ jobs = [j \in Jobs |-> [state |-> "unborn", session |-> NoSession]]
    /\ watches = {}
    /\ detaching = {}
    /\ clearing = {}
    /\ deferred = {}
    /\ inFlight = {}
    /\ wakes = [s \in Sessions |-> 0]
    /\ fate = [j \in Jobs |-> "none"]

-----------------------------------------------------------------------------
JobsOf(s) == {j \in Jobs : jobs[j].session = s}
RunningOf(s) == {j \in JobsOf(s) : jobs[j].state = "running"}

\* No microtask is queued: the event loop takes the next macrotask.
Quiet == detaching = {} /\ clearing = {}

\* clearSessionTurnWakes
ClearTurnWakes(s) == wakes' = [wakes EXCEPT ![s] = 0]

\* clearSessionJobWaitsAndWatches: the watches of the session, its defer timers
\* and its in-flight keys.  What was still owed to the session is given up.
ClearWaits(s) ==
    /\ watches' = watches \ JobsOf(s)
    /\ deferred' = deferred \ JobsOf(s)
    /\ inFlight' = inFlight \ JobsOf(s)
    /\ fate' = [j \in Jobs |->
                  IF j \in JobsOf(s) /\ fate[j] = "owed" THEN "forgotten" ELSE fate[j]]

\* Slip: a resume of a busy session is dropped.
EnqueueOrDrop(s, j, timers) ==
    IF j \in inFlight \/ s \notin alive \/ Busy(s) THEN
        /\ deferred' = timers
        /\ fate' = [fate EXCEPT ![j] = "owed"]
        /\ UNCHANGED <<chatVars, inFlight>>
    ELSE
        /\ \E r \in Runs : OpenResume(s, r, j)
        /\ deferred' = timers \ {j}
        /\ fate' = [fate EXCEPT ![j] = "delivered"]
        /\ inFlight' = inFlight \cup {j}

\* Slip: the resume fires and leaves a timer armed.
EnqueueRearmed(s, j, timers) ==
    IF j \in inFlight \/ s \notin alive \/ Busy(s) THEN
        /\ deferred' = timers \cup {j}
        /\ fate' = [fate EXCEPT ![j] = "owed"]
        /\ UNCHANGED <<chatVars, inFlight>>
    ELSE
        /\ \E r \in Runs : OpenResume(s, r, j)
        /\ deferred' = timers \cup {j}
        /\ fate' = [fate EXCEPT ![j] = "delivered"]
        /\ inFlight' = inFlight \cup {j}

\* SessionResumeBus.enqueue for job j of session s, when the armed defer timers
\* are `timers`: dropped, deferred while the session looks busy, or fired.
Enqueue(s, j, timers) ==
    IF j \in inFlight \/ s \notin alive \/ Busy(s) THEN
        /\ deferred' = IF j \notin inFlight /\ s \in alive THEN timers \cup {j} ELSE timers
        /\ fate' = [fate EXCEPT ![j] = "owed"]
        /\ UNCHANGED <<chatVars, inFlight>>
    ELSE
        /\ \E r \in Runs : OpenResume(s, r, j)
        /\ deferred' = timers \ {j}
        /\ fate' = [fate EXCEPT ![j] = "delivered"]
        /\ inFlight' = inFlight \cup {j}

-----------------------------------------------------------------------------
\* Chats opened by users, and what they clear on entry.

StartStream(s, r) ==
    /\ Quiet
    /\ "stream" \in UserKinds /\ RoomForUser
    /\ s \in alive
    /\ OpenStream(s, r)
    /\ ClearTurnWakes(s)
    /\ ClearWaits(s)
    /\ UNCHANGED <<jobs, detaching, clearing>>

StartDirect(s, r) ==
    /\ Quiet
    /\ "direct" \in UserKinds /\ RoomForUser
    /\ s \in alive
    /\ OpenDirect(s, r)
    /\ ClearTurnWakes(s)
    /\ ClearWaits(s)
    /\ UNCHANGED <<jobs, detaching, clearing>>

\* An attachment is not ready or not supported: chat() returns before its rounds.
RejectStart(r) ==
    /\ Quiet
    /\ runs[r].phase = "starting"
    /\ Leave(r)
    /\ UNCHANGED <<jobVars, busVars, wakes, fate>>

Activate(r) ==
    /\ Quiet
    /\ EnterRounds(r)
    /\ UNCHANGED <<jobVars, busVars, wakes, fate>>

-----------------------------------------------------------------------------
\* What the tools of a working run do.

\* attach() for a job of session s that is in flight: a full watch table refuses it.
Attach(s, j) ==
    watches' = IF Cardinality(watches \cap JobsOf(s)) < MaxWatches
               THEN watches \cup {j} ELSE watches

\* opptrix_run with background: startShellCommandJob, then the auto-watch of its
\* result, with only microtasks in between.
StartJob(r, j) ==
    LET s == runs[r].session IN
    /\ Quiet
    /\ Working(r)
    /\ jobs[j].state = "unborn"
    /\ Cardinality(RunningOf(s)) < MaxJobsInFlight
    /\ jobs' = [jobs EXCEPT ![j] = [state |-> "running", session |-> s]]
    /\ Attach(s, j)
    /\ fate' = [fate EXCEPT ![j] = "owed"]
    /\ UNCHANGED <<chatVars, detaching, clearing, busVars, wakes>>

\* Slip: attach() keeps a watch on a job that has ended already.
StartFailedJobWatched(r, j) ==
    LET s == runs[r].session IN
    /\ Quiet
    /\ Working(r)
    /\ jobs[j].state = "unborn"
    /\ Cardinality(RunningOf(s)) < MaxJobsInFlight
    /\ jobs' = [jobs EXCEPT ![j] = [state |-> "ended", session |-> s]]
    /\ watches' = watches \cup {j}
    /\ fate' = [fate EXCEPT ![j] = "owed"]
    /\ UNCHANGED <<chatVars, detaching, clearing, busVars, wakes>>

\* The command fails before the result reaches the auto-watch: the snapshot is
\* terminal by then, so attach() keeps no watch and enqueues at once.
StartFailedJob(r, j) ==
    LET s == runs[r].session IN
    /\ Quiet
    /\ Working(r)
    /\ jobs[j].state = "unborn"
    /\ Cardinality(RunningOf(s)) < MaxJobsInFlight
    /\ jobs' = [jobs EXCEPT ![j] = [state |-> "ended", session |-> s]]
    /\ Enqueue(s, j, deferred)
    /\ UNCHANGED <<watches, detaching, clearing, wakes>>

\* Slip: no cap.
ScheduleTurnWakeUncapped(r) ==
    LET s == runs[r].session IN
    /\ Quiet
    /\ Working(r)
    /\ s \in alive
    /\ wakes' = [wakes EXCEPT ![s] = @ + 1]
    /\ UNCHANGED <<chatVars, jobVars, busVars, fate>>

\* schedule_turn_wake
ScheduleTurnWake(r) ==
    LET s == runs[r].session IN
    /\ Quiet
    /\ Working(r)
    /\ s \in alive
    /\ wakes[s] < MaxWakes
    /\ wakes' = [wakes EXCEPT ![s] = @ + 1]
    /\ UNCHANGED <<chatVars, jobVars, busVars, fate>>

-----------------------------------------------------------------------------
\* The end of a job and the microtasks it queues.

\* markTerminal: the snapshot becomes terminal and the event is emitted once;
\* onJobTerminal queues the detach of the job's watch, if it has one.
MarkTerminal(j) ==
    /\ jobs' = [jobs EXCEPT ![j].state = "ended"]
    /\ detaching' = IF j \in watches THEN {j} ELSE {}

\* The command exits, fails, times out or is killed with its chat's signal.
EndJob(j) ==
    /\ Quiet
    /\ jobs[j].state = "running"
    /\ MarkTerminal(j)
    /\ UNCHANGED <<chatVars, watches, clearing, busVars, wakes, fate>>

\* POST /sessions/:id/jobs/:jobId/cancel and cancel_job, up to their await of
\* requestCancel.  Any session may cancel any running job.
CancelJob(s, j) ==
    /\ Quiet
    /\ s \in alive
    /\ jobs[j].state = "running"
    /\ MarkTerminal(j)
    /\ clearing' = IF jobs[j].session = s THEN {j} ELSE {}
    /\ UNCHANGED <<chatVars, watches, busVars, wakes, fate>>

\* The microtask of onJobTerminal: remove the watch if it is still there and
\* enqueue the resume.
Detach(j) ==
    /\ j \in detaching
    /\ detaching' = detaching \ {j}
    /\ IF j \in watches
       THEN watches' = watches \ {j} /\ Enqueue(jobs[j].session, j, deferred)
       ELSE UNCHANGED <<watches, fate, busVars, chatVars>>
    /\ UNCHANGED <<jobs, clearing, wakes>>

\* The canceller continues, after the microtask queued during its call: clearByJob.
ClearByJob(j) ==
    /\ j \in clearing /\ detaching = {}
    /\ clearing' = clearing \ {j}
    /\ watches' = watches \ {j}
    /\ fate' = IF j \in watches THEN [fate EXCEPT ![j] = "forgotten"] ELSE fate
    /\ UNCHANGED <<chatVars, jobs, detaching, busVars, wakes>>

-----------------------------------------------------------------------------
\* Timers.  Time is abstract: an armed timer may fire at any moment.

DeferTimer(j) ==
    /\ Quiet
    /\ j \in deferred
    /\ Enqueue(jobs[j].session, j, deferred \ {j})
    /\ UNCHANGED <<jobVars, wakes>>

\* Slip: the wake fires whether or not a chat runs.
WakeTimerAnyway(s) ==
    /\ Quiet
    /\ wakes[s] > 0
    /\ wakes' = [wakes EXCEPT ![s] = @ - 1]
    /\ IF s \in alive
       THEN \E r \in Runs : OpenResume(s, r, NoJob)
       ELSE UNCHANGED chatVars
    /\ UNCHANGED <<jobVars, busVars, fate>>

\* onTimerFire: dropped on a dead session, put back while it looks busy, or fired.
WakeTimer(s) ==
    /\ Quiet
    /\ wakes[s] > 0
    /\ IF s \in alive /\ Busy(s)
       THEN UNCHANGED wakes
       ELSE wakes' = [wakes EXCEPT ![s] = @ - 1]
    /\ IF s \in alive /\ ~Busy(s)
       THEN \E r \in Runs : OpenResume(s, r, NoJob)
       ELSE UNCHANGED chatVars
    /\ UNCHANGED <<jobVars, busVars, fate>>

-----------------------------------------------------------------------------
\* How a run ends.

Reply(r) ==
    /\ Quiet
    /\ SaveReply(r)
    /\ UNCHANGED <<jobVars, busVars, wakes, fate>>

\* The chat returns to its caller; a resume's caller is the bus, whose finally
\* frees the key.
Finish(r) ==
    /\ Quiet
    /\ runs[r].phase \in {"replying", "cancelling"}
    /\ Leave(r)
    /\ inFlight' = inFlight \ {runs[r].job}
    /\ UNCHANGED <<jobVars, deferred, wakes, fate>>

\* An error that is not an abort leaves the rounds without any clean-up.
Throw(r) ==
    /\ Quiet
    /\ Working(r)
    /\ Leave(r)
    /\ inFlight' = inFlight \ {runs[r].job}
    /\ UNCHANGED <<jobVars, deferred, wakes, fate>>

\* finalizeCancelled: an aborted run clears the waits of its session, whoever
\* set them.
Unwind(r) ==
    LET s == runs[r].session IN
    /\ Quiet
    /\ SaveStopped(r)
    /\ ClearTurnWakes(s)
    /\ ClearWaits(s)
    /\ UNCHANGED <<jobs, detaching, clearing>>

-----------------------------------------------------------------------------
\* Requests that interrupt.

\* POST /chat/cancel
Stop(s) ==
    /\ Quiet
    /\ AbortRegistered(s)
    /\ ClearTurnWakes(s)
    /\ ClearWaits(s)
    /\ UNCHANGED <<jobs, detaching, clearing>>

\* The client of a stream goes away.
Disconnect(s) ==
    /\ Quiet
    /\ Busy(s) /\ runs[chatRun[s]].kind = "stream"
    /\ AbortRegistered(s)
    /\ UNCHANGED <<jobVars, busVars, wakes, fate>>

\* Slip: the turn wakes of the session are left.
DeleteSessionButWakes(s) ==
    /\ Quiet
    /\ DropSession(s)
    /\ ClearWaits(s)
    /\ jobs' = [j \in Jobs |->
                  IF j \in RunningOf(s) THEN [jobs[j] EXCEPT !.state = "ended"] ELSE jobs[j]]
    /\ UNCHANGED <<detaching, clearing, wakes>>

\* DELETE /sessions/:id: the waits are cleared first, so that the commands
\* killed by workspaceService.clearSession find no watch to detach.
DeleteSession(s) ==
    /\ Quiet
    /\ DropSession(s)
    /\ ClearTurnWakes(s)
    /\ ClearWaits(s)
    /\ jobs' = [j \in Jobs |->
                  IF j \in RunningOf(s) THEN [jobs[j] EXCEPT !.state = "ended"] ELSE jobs[j]]
    /\ UNCHANGED <<detaching, clearing>>

-----------------------------------------------------------------------------
\* Everything that brings a run nearer to its return.
Progress(r) ==
    RejectStart(r) \/ Activate(r) \/ Reply(r) \/ Finish(r) \/ Throw(r) \/ Unwind(r)

Next ==
    \/ \E s \in Sessions :
        \/ \E r \in Runs : StartStream(s, r) \/ StartDirect(s, r)
        \/ \E j \in Jobs : CancelJob(s, j)
        \/ WakeTimer(s)
        \/ Stop(s) \/ Disconnect(s) \/ DeleteSession(s)
    \/ \E r \in Runs :
        \/ Progress(r)
        \/ ScheduleTurnWake(r)
        \/ \E j \in Jobs : StartJob(r, j) \/ StartFailedJob(r, j)
    \/ \E j \in Jobs : EndJob(j) \/ Detach(j) \/ ClearByJob(j) \/ DeferTimer(j)

Spec == Init /\ [][Next]_vars

\* Timers expire, commands have a wall clock limit, the rounds of a chat are
\* bounded and the microtask queue is drained.  A busy-defer timer only looks at
\* the session every ten seconds, so that it is assumed not to miss for ever the
\* moments at which no chat runs (strong fairness).
Fairness ==
    /\ \A r \in Runs : WF_vars(Progress(r))
    /\ \A j \in Jobs : /\ WF_vars(EndJob(j))
                       /\ WF_vars(Detach(j))
                       /\ WF_vars(ClearByJob(j))
                       /\ SF_vars(DeferTimer(j))

FairSpec == Spec /\ Fairness

-----------------------------------------------------------------------------
(***************************************************************************)
(* Safety.                                                                 *)
(***************************************************************************)

\* A command started in the background is never forgotten by accident: until its
\* session is resumed or its waits are cleared, its watch is in place and the end
\* of the command is still to come (or its microtask queued), or a defer timer is
\* armed (watch-registry.ts, resume-bus.ts).
OwedIsTracked ==
    \A j \in Jobs : fate[j] = "owed" =>
        \/ j \in watches /\ (jobs[j].state = "running" \/ j \in detaching)
        \/ j \in deferred /\ jobs[j].state = "ended"

\* And nothing is tracked that is not owed any more: no watch and no timer is
\* left behind by a delivered resume, a Stop, a deletion or a cancelled chat.
TrackedIsOwed == \A j \in watches \cup deferred : fate[j] = "owed"

\* A job waits in one place only: its watch, its defer timer or its running resume.
OneTracker ==
    /\ watches \cap deferred = {}
    /\ watches \cap inFlight = {}
    /\ deferred \cap inFlight = {}

\* At most one run of a session is in its rounds with a live signal, and the
\* engine's table points at it: the run a new chat or a deletion has to abort.
OneWorker ==
    \A r \in Runs : Working(r) =>
        engineRun[runs[r].session] = r /\ runs[r].session \in alive

\* No table keeps the entry of a chat that has returned, nor of another session's.
TablesNameLiveRuns ==
    \A s \in Sessions :
        /\ chatRun[s] # NoRun => Live(chatRun[s]) /\ runs[chatRun[s]].session = s
        /\ engineRun[s] # NoRun => Live(engineRun[s]) /\ runs[engineRun[s]].session = s

\* An in-flight key belongs to a resume that has not returned, so that it is
\* freed in the end.
InFlightIsRunning ==
    \A j \in inFlight : \E r \in Runs :
        Live(r) /\ runs[r].kind = "resume" /\ runs[r].job = j

\* A deleted session holds no timer, no watch and no running command, until a
\* chat that outlives the deletion saves its record again.
DeadSessionsHoldNothing ==
    \A s \in Sessions \ alive :
        /\ wakes[s] = 0
        /\ engineRun[s] = NoRun
        /\ RunningOf(s) = {}
        /\ JobsOf(s) \cap (watches \cup deferred \cup inFlight) = {}

\* A job is owed nothing before it starts and something ever after, its terminal
\* event follows its terminal snapshot, and an in-flight key is that of a resume
\* which was fired.
JobsInOrder ==
    /\ \A j \in Jobs : /\ fate[j] = "none" <=> jobs[j].state = "unborn"
                       /\ jobs[j].state # "unborn" => jobs[j].session \in Sessions
    /\ \A j \in detaching : jobs[j].state = "ended"
    /\ \A j \in inFlight : fate[j] = "delivered"

\* A resume has no attachments and no title to wait for.
ResumesStartActive == \A r \in Runs : runs[r].phase = "starting" => runs[r].kind # "resume"

\* What the invariants above rest on: the terminal snapshot is in place before the
\* terminal event is emitted (registry.ts), and no resume waits before its rounds.
Bookkeeping == JobsInOrder /\ ResumesStartActive

\* The end of a job resumes its session at most once, and not at all once the
\* waits of the session were cleared, however long a timer of the bus or a queued
\* microtask outlives that.
ResumeAtMostOnce ==
    [][\A r \in Runs : (Idle(r) /\ Live(r)' /\ runs'[r].job \in Jobs) =>
          fate[runs'[r].job] \notin {"delivered", "forgotten"}]_vars

\* A resume or a wake never aborts a chat that is at work: turn-wake.ts:4.
ResumeNeverAborts ==
    [][\A q \in Runs : (Idle(q) /\ Live(q)' /\ runs'[q].kind = "resume") =>
          \A r \in Runs : (Working(r) /\ runs'[r].session = runs'[q].session)
                             => ~runs'[r].aborted]_vars

-----------------------------------------------------------------------------
\* Liveness: once a command runs in the background, its session is resumed or
\* the wait is cleared.
EndedJobsResume == \A j \in Jobs : fate[j] = "owed" ~> fate[j] # "owed"

-----------------------------------------------------------------------------
(***************************************************************************)
(* Who holds the turn of a session: the run the engine points at, until it *)
(* is aborted.  Where every user chat is registered, this is SessionTurn.  *)
(***************************************************************************)
TurnOf(s) ==
    IF engineRun[s] # NoRun /\ ~runs[engineRun[s]].aborted
    THEN [run |-> engineRun[s], resume |-> runs[engineRun[s]].kind = "resume"]
    ELSE [run |-> NoRun, resume |-> FALSE]

Turns == INSTANCE SessionTurn WITH turn <- [s \in Sessions |-> TurnOf(s)]

\* The implementation keeps the promise of SessionTurn (UserKinds = {"stream"}).
TurnSpec == Turns!Spec
=============================================================================
