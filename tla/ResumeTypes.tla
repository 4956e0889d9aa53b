---------------------------- MODULE ResumeTypes ----------------------------
(***************************************************************************)
(* Constants shared by the modules of the session-resume machinery: the    *)
(* background jobs of a chat session, the chats running on it, and the     *)
(* timers and watches that continue the session by themselves.             *)
(***************************************************************************)
EXTENDS Naturals, FiniteSets

CONSTANTS
    Sessions,         \* chat sessions
    Runs,             \* identities of concurrent agent.chat() calls, reused once a call has returned
    Jobs,             \* background shell commands, each started at most once
    NoRun,            \* "the map has no entry for this session"
    NoSession,        \* the session of an idle run or of a job not started yet
    NoJob,            \* the run was not started by the end of a job
    UserKinds,        \* how chats are opened here: "stream" (registered) and/or "direct" (not)
    MaxJobsInFlight,  \* SHELL_BG_MAX_IN_FLIGHT_PER_SESSION, 2 in the code
    MaxWatches,       \* JOB_WATCH_MAX_PER_SESSION, 8 in the code
    MaxWakes          \* TURN_WAKE_MAX_PER_SESSION, 8 in the code

ASSUME ResumeAssumption ==
    /\ NoRun \notin Runs
    /\ NoSession \notin Sessions
    /\ NoJob \notin Jobs
    /\ IsFiniteSet(Jobs)
    /\ UserKinds \subseteq {"stream", "direct"}
    /\ MaxJobsInFlight \in Nat
    /\ MaxWatches \in Nat
    /\ MaxWakes \in Nat
    \* 2 <= 8: the reason why the watch table has room for every running command.
    /\ MaxJobsInFlight <= MaxWatches
=============================================================================
