--------------------------- MODULE ScheduleService ---------------------------
(***************************************************************************)
(* Scheduled jobs: the tables scheduled_jobs and scheduled_job_runs         *)
(* (user-store/src/schedule.ts), which survive the process, and the service *)
(* that scans them, claims what is due and executes one run at a time       *)
(* (schedule/src/service.ts), which does not.                               *)
(*                                                                         *)
(* An action is one macrotask up to its next await.  A scan that is not     *)
(* waiting for a run is between two awaits: nothing else happens until it   *)
(* waits or ends (Quiet).                                                   *)
(*                                                                         *)
(* Time is abstract: a next_run_at is known by the schedule it was computed *)
(* from, and lies ahead until it is due; a lease is fresh until it is old.  *)
(* A time that is written always lies ahead of the clock, so that it never  *)
(* equals the next_run_at of a snapshot taken before.                       *)
(***************************************************************************)
EXTENDS Naturals, FiniteSets, Sequences

CONSTANTS
    Jobs,         \* job ids, never reused
    Runs,         \* run ids, reused once nothing knows of a run any more
    Ticks,        \* scans that may be in progress at a time
    Schedules,    \* the schedules a job may have
    OnceAt,       \* those of them that name one moment
    NeverAt,      \* those without any occurrence: an expression that is not valid
    NoTime,       \* next_run_at is null
    Retry,        \* next_run_at is the provisional "a day from now" of a claim
    NoRun, NoJob,
    MaxRestarts   \* bound on the restarts of the process

ASSUME ScheduleAssumption ==
    /\ IsFiniteSet(Jobs) /\ IsFiniteSet(Runs)
    /\ OnceAt \subseteq Schedules /\ NeverAt \subseteq Schedules \ OnceAt
    /\ NoTime \notin Schedules /\ Retry \notin Schedules /\ NoTime # Retry
    /\ NoRun \notin Runs /\ NoJob \notin Jobs
    /\ MaxRestarts \in Nat

VARIABLES
    master,     \* settings.master_enabled
    jobs,       \* scheduled_jobs
    leases,     \* rows of scheduled_job_runs with status 'running'
    old,        \* those of them older than SCHEDULE_STALE_RUN_MS
    runs,       \* what is captured for each run: its job, as it was then, and the trigger
    queue,      \* the promise chain: its head is being executed
    asked,      \* the run for which the agent executing the head waits, or NoRun
    ticks,      \* per scan, the jobs still to look at and the run it waits for
    restarts,
    paused      \* history: the jobs that were last disabled on request

dbVars == <<master, jobs, leases, old>>
vars == <<master, jobs, leases, old, runs, queue, asked, ticks, restarts, paused>>

IdleRun == [job |-> NoJob, schedule |-> NoTime, enabled |-> FALSE, timed |-> FALSE]
IdleTick == [due |-> {}, waits |-> NoRun]
Unborn == [state |-> "unborn", enabled |-> FALSE, schedule |-> NoTime,
           past |-> FALSE, next |-> NoTime, due |-> FALSE]

\* past: the moment of a schedule of OnceAt has passed.
Job == [state : {"kept", "deleted"}, enabled : BOOLEAN, schedule : Schedules,
        past : BOOLEAN, next : Schedules \cup {NoTime, Retry}, due : BOOLEAN]

Run == [job : Jobs, schedule : Schedules, enabled : BOOLEAN, timed : BOOLEAN]

Tick == [due : SUBSET Jobs, waits : Runs \cup {NoRun}]

Queued == {queue[i] : i \in DOMAIN queue}

TypeOK ==
    /\ master \in BOOLEAN
    /\ jobs \in [Jobs -> Job \cup {Unborn}]
    /\ leases \subseteq Runs
    /\ old \subseteq leases
    /\ runs \in [Runs -> Run \cup {IdleRun}]
    /\ queue \in Seq(Runs)
    /\ asked \in Runs \cup {NoRun}
    /\ ticks \in [Ticks -> Tick]
    /\ restarts \in 0 .. MaxRestarts
    /\ paused \subseteq Jobs

Init ==
    /\ master = TRUE
    /\ jobs = [j \in Jobs |-> Unborn]
    /\ leases = {}
    /\ old = {}
    /\ runs = [r \in Runs |-> IdleRun]
    /\ queue = <<>>
    /\ asked = NoRun
    /\ ticks = [t \in Ticks |-> IdleTick]
    /\ restarts = 0
    /\ paused = {}

-----------------------------------------------------------------------------
Kept(j) == jobs[j].state = "kept"

\* listActiveRunsForJob
Active(j) == \E r \in leases : runs[r].job = j

\* listDueJobs
DueJobs == {j \in Jobs : Kept(j) /\ jobs[j].enabled /\ jobs[j].next # NoTime /\ jobs[j].due}

\* A scan is between two awaits.
Ready(t) == ticks[t].due # {} /\ ticks[t].waits = NoRun
Quiet == \A t \in Ticks : ~Ready(t)

Free == Runs \ (leases \cup Queued)

\* Bound: jobs are run by hand, and the leases of queued runs grow old, only while
\* enough run ids are left for every job to be claimed.
Spare == Cardinality(Free) > Cardinality(Jobs)

\* computeNextRunAt: a time ahead, or none for a moment that has passed and for an
\* expression that is not valid.
NextRunAt(s, past) == IF s \in NeverAt \/ (s \in OnceAt /\ past) THEN NoTime ELSE s

\* What a claim may write: computed from the clock of the scan's start, when a moment
\* other than the one that is due may still have been ahead; a day later for none.
Provisional(j) ==
    LET s == jobs[j].schedule IN
    {IF n = NoTime THEN Retry ELSE n :
        n \in {NextRunAt(s, jobs[j].past)}
                 \cup IF jobs[j].next = s THEN {} ELSE {NextRunAt(s, FALSE)}}

\* The run ids outside R are free again.
Known(R) == [r \in Runs |-> IF r \in R THEN runs[r] ELSE IdleRun]

\* Slip: the claim does not compare next_run_at with the snapshot's.
MatchedAnyway(j) == ticks

\* The scans when next_run_at of job j has been written: their snapshots of j do
\* not match any more, tryClaimDueJob would update no row.
Mismatched(j) == [t \in Ticks |-> [ticks[t] EXCEPT !.due = @ \ {j}]]

\* updateJob of schedule or of enabled, with the next_run_at that goes with it.
Write(j, row, next) ==
    /\ jobs' = [jobs EXCEPT ![j] = [row EXCEPT !.next = next, !.due = FALSE]]
    /\ ticks' = Mismatched(j)

-----------------------------------------------------------------------------
\* What the agent's tools, the jobs facade and the settings do.

CreateJob(j, s, on) ==
    /\ Quiet
    /\ jobs[j] = Unborn
    /\ s \notin NeverAt
    /\ jobs' = [jobs EXCEPT ![j] = [state |-> "kept", enabled |-> on, schedule |-> s,
                                    past |-> FALSE, next |-> s, due |-> FALSE]]
    /\ UNCHANGED <<master, leases, old, runs, queue, asked, ticks, restarts, paused>>

\* The moment of a new schedule may have passed already, and its expression may not be
\* valid: only createJob checks them.
UpdateSchedule(j, s, past) ==
    /\ Quiet
    /\ Kept(j)
    /\ past => s \in OnceAt
    /\ Write(j, [jobs[j] EXCEPT !.schedule = s, !.past = past], NextRunAt(s, past))
    /\ UNCHANGED <<master, leases, old, runs, queue, asked, restarts, paused>>

\* Slip: next_run_at is not computed again.
EnableAsItWas(j) ==
    /\ Quiet
    /\ Kept(j)
    /\ jobs' = [jobs EXCEPT ![j].enabled = TRUE]
    /\ paused' = paused \ {j}
    /\ UNCHANGED <<master, leases, old, runs, queue, asked, ticks, restarts>>

EnableJob(j) ==
    /\ Quiet
    /\ Kept(j)
    /\ Write(j, [jobs[j] EXCEPT !.enabled = TRUE], NextRunAt(jobs[j].schedule, jobs[j].past))
    /\ paused' = paused \ {j}
    /\ UNCHANGED <<master, leases, old, runs, queue, asked, restarts>>

DisableJob(j) ==
    /\ Quiet
    /\ Kept(j)
    /\ jobs' = [jobs EXCEPT ![j].enabled = FALSE]
    /\ paused' = paused \cup {j}
    /\ UNCHANGED <<master, leases, old, runs, queue, asked, ticks, restarts>>

\* The rows of the runs go with the job; what is queued stays queued.
DeleteJob(j) ==
    LET kept == {r \in leases : runs[r].job # j} IN
    /\ Quiet
    /\ Kept(j)
    /\ jobs' = [jobs EXCEPT ![j].state = "deleted"]
    /\ leases' = kept
    /\ old' = old \cap kept
    /\ runs' = Known(kept \cup Queued)
    /\ paused' = paused \ {j}
    /\ UNCHANGED <<master, queue, asked, ticks, restarts>>

\* Only tests and the client's settings page ask for this at present.
SetMaster(on) ==
    /\ Quiet
    /\ master' = on
    /\ UNCHANGED <<jobs, leases, old, runs, queue, asked, ticks, restarts, paused>>

-----------------------------------------------------------------------------
\* startRun and queueExecute for the job as it is now.
Enqueue(j, r, timed) ==
    /\ r \in Free
    /\ leases' = leases \cup {r}
    /\ runs' = [runs EXCEPT ![r] = [job |-> j, schedule |-> jobs[j].schedule,
                                    enabled |-> jobs[j].enabled, timed |-> timed]]
    /\ queue' = Append(queue, r)

\* Slip: the job is not looked up first.
RunMissing(j, r) ==
    /\ Quiet
    /\ Spare
    /\ Enqueue(j, r, FALSE)
    /\ asked' \in IF asked = NoRun /\ queue # <<>> THEN {NoRun, r} ELSE {asked}
    /\ UNCHANGED <<master, jobs, old, ticks, restarts, paused>>

\* runNow, called by the agent of any chat; that of the head of the queue then waits
\* for a run which is behind its own.
RunNow(j, r) ==
    /\ Quiet
    /\ Spare
    /\ Kept(j)
    /\ Enqueue(j, r, FALSE)
    /\ asked' \in IF asked = NoRun /\ queue # <<>> THEN {NoRun, r} ELSE {asked}
    /\ UNCHANGED <<master, jobs, old, ticks, restarts, paused>>

\* The tool call of that agent times out.
ToolTimeout ==
    /\ Quiet
    /\ asked # NoRun
    /\ asked' = NoRun
    /\ UNCHANGED <<dbVars, runs, queue, ticks, restarts, paused>>

-----------------------------------------------------------------------------
\* The scan.

\* Slip: stale leases are not looked for.
StartTickOnly(t) ==
    /\ Quiet
    /\ ticks[t] = IdleTick
    /\ ticks' = [ticks EXCEPT ![t].due = IF master THEN DueJobs ELSE {}]
    /\ UNCHANGED <<dbVars, runs, queue, asked, restarts, paused>>

\* reconcileStaleRuns, and the snapshot of the due jobs.
StartTick(t) ==
    /\ Quiet
    /\ ticks[t] = IdleTick
    /\ leases' = leases \ old
    /\ old' = {}
    /\ runs' = Known((leases \ old) \cup Queued)
    /\ ticks' = [ticks EXCEPT ![t].due = IF master THEN DueJobs ELSE {}]
    /\ UNCHANGED <<master, jobs, queue, asked, restarts, paused>>

TickSkip(t, j) ==
    /\ Ready(t) /\ j \in ticks[t].due
    /\ Active(j) \/ ~Kept(j) \/ ~jobs[j].enabled
    /\ ticks' = [ticks EXCEPT ![t].due = @ \ {j}]
    /\ UNCHANGED <<dbVars, runs, queue, asked, restarts, paused>>

\* Slip: an active run of the job is no obstacle.
TickClaimActive(t, j, r) ==
    /\ Ready(t) /\ j \in ticks[t].due
    /\ Kept(j) /\ jobs[j].enabled
    /\ Enqueue(j, r, TRUE)
    /\ \E next \in Provisional(j) :
          jobs' = [jobs EXCEPT ![j] = [@ EXCEPT !.next = next, !.due = FALSE]]
    /\ ticks' = [Mismatched(j) EXCEPT ![t].waits = r]
    /\ UNCHANGED <<master, old, asked, restarts, paused>>

\* tryClaimDueJob (its reconcileStaleRuns finds nothing that the scan has not found),
\* and the scan waits for the run.
TickClaim(t, j, r) ==
    /\ Ready(t) /\ j \in ticks[t].due
    /\ ~Active(j) /\ Kept(j) /\ jobs[j].enabled
    /\ Enqueue(j, r, TRUE)
    /\ \E next \in Provisional(j) :
          jobs' = [jobs EXCEPT ![j] = [@ EXCEPT !.next = next, !.due = FALSE]]
    /\ ticks' = [Mismatched(j) EXCEPT ![t].waits = r]
    /\ UNCHANGED <<master, old, asked, restarts, paused>>

-----------------------------------------------------------------------------
\* executeRun.

\* The job as the end of a run writes it: from what was captured when the run was
\* created.
Written(run, ok) ==
    IF run.schedule \in OnceAt
    THEN [jobs[run.job] EXCEPT !.enabled = FALSE, !.next = NoTime, !.due = FALSE]
    ELSE [jobs[run.job] EXCEPT !.enabled = IF ok THEN @ ELSE run.enabled,
                               !.next = NextRunAt(run.schedule, FALSE), !.due = FALSE]

\* The run at the head returns or throws: its row is finished, the job is written if
\* it still exists, and the scan that waits for the run goes on.
Finish(ok) ==
    LET r == Head(queue)
        j == runs[r].job IN
    /\ Quiet
    /\ queue # <<>> /\ asked = NoRun
    /\ queue' = Tail(queue)
    /\ leases' = leases \ {r}
    /\ old' = old \ {r}
    /\ runs' = Known((leases \cup Queued) \ {r})
    /\ jobs' = IF Kept(j) THEN [jobs EXCEPT ![j] = Written(runs[r], ok)] ELSE jobs
    /\ ticks' = [t \in Ticks |->
                   [due |-> Mismatched(j)[t].due,
                    waits |-> IF ticks[t].waits = r THEN NoRun ELSE ticks[t].waits]]
    /\ UNCHANGED <<master, asked, restarts, paused>>

-----------------------------------------------------------------------------
\* Time, and the end of the process.

\* next_run_at comes due, or the moment of the schedule passes while next_run_at is
\* another.
Elapse(j) ==
    /\ Quiet
    /\ Kept(j)
    /\ \/ /\ jobs[j].next # NoTime /\ ~jobs[j].due
          /\ jobs' = [jobs EXCEPT ![j].due = TRUE,
                         ![j].past = @ \/ (jobs[j].schedule \in OnceAt /\ jobs[j].next = jobs[j].schedule)]
       \/ /\ jobs[j].schedule \in OnceAt /\ ~jobs[j].past /\ jobs[j].next # jobs[j].schedule
          /\ jobs' = [jobs EXCEPT ![j].past = TRUE]
    /\ UNCHANGED <<master, leases, old, runs, queue, asked, ticks, restarts, paused>>

LeaseExpires(r) ==
    /\ r \in leases \ old
    /\ r \in Queued => Spare
    /\ old' = old \cup {r}
    /\ UNCHANGED <<master, jobs, leases, runs, queue, asked, ticks, restarts, paused>>

\* A crash or a shutdown, and the next start: the tables are left as they are.
Restart ==
    /\ restarts < MaxRestarts
    /\ restarts' = restarts + 1
    /\ queue' = <<>>
    /\ asked' = NoRun
    /\ ticks' = [t \in Ticks |-> IdleTick]
    /\ runs' = Known(leases)
    /\ UNCHANGED <<dbVars, paused>>

-----------------------------------------------------------------------------
Scan == \E t \in Ticks, j \in Jobs : TickSkip(t, j) \/ \E r \in Runs : TickClaim(t, j, r)

Next ==
    \/ \E j \in Jobs :
        \/ \E s \in Schedules, flag \in BOOLEAN : CreateJob(j, s, flag) \/ UpdateSchedule(j, s, flag)
        \/ EnableJob(j) \/ DisableJob(j) \/ DeleteJob(j)
        \/ \E r \in Runs : RunNow(j, r)
        \/ Elapse(j)
    \/ \E on \in BOOLEAN : SetMaster(on)
    \/ \E t \in Ticks : StartTick(t)
    \/ Scan
    \/ \E ok \in BOOLEAN : Finish(ok)
    \/ \E r \in Runs : LeaseExpires(r)
    \/ ToolTimeout
    \/ Restart

Spec == Init /\ [][Next]_vars

\* The interval timer goes on whatever happens, and executions and tool calls end. A
\* scan keeps the event loop for a moment only: what is possible between the steps of
\* scans happens in the end (strong fairness).
Fairness ==
    /\ SF_vars(\E t \in Ticks : StartTick(t))
    /\ WF_vars(Scan)
    /\ SF_vars(\E ok \in BOOLEAN : Finish(ok))
    /\ SF_vars(ToolTimeout)
    /\ \A r \in Runs : WF_vars(LeaseExpires(r))

FairSpec == Spec /\ Fairness

-----------------------------------------------------------------------------
(***************************************************************************)
(* Properties.                                                             *)
(***************************************************************************)

\* A running row has its job, whatever is queued when the job is deleted: the rows
\* are deleted first, and the end of a queued run inserts none (schedule.ts, deleteJob).
RowsHaveJobs == \A r \in leases : runs[r].job \in Jobs /\ Kept(runs[r].job)

\* However many scans overlap and however often the process restarts, a job has one
\* running row that was claimed by a scan (tryClaimDueJob).
OneTimerLease ==
    \A q, r \in leases : (runs[q].timed /\ runs[r].timed /\ runs[q].job = runs[r].job) => q = r

\* As long as the process lives, a running row is that of a run which is still to end:
\* no way out of executeRun leaves one behind.
LeasesAreQueued == restarts = 0 => leases \subseteq Queued

\* A scan waits for a run that is still to end, and no two scans for the same.
ScansWaitForQueued ==
    \A t \in Ticks : ticks[t].waits # NoRun =>
        /\ ticks[t].waits \in Queued
        /\ \A u \in Ticks : ticks[u].waits = ticks[t].waits => u = t

\* An enabled job with a repeating schedule always has a next time, whatever edits,
\* late ends of older runs and restarts come together (executeRun, enableJob, updateJob):
\* schedule.ts:620.  This holds as long as no expression is invalid.
EnabledRepeats ==
    \A j \in Jobs : (Kept(j) /\ jobs[j].enabled /\ jobs[j].schedule \notin OnceAt \cup NeverAt)
                        => jobs[j].next # NoTime

\* The promise chain holds a run once.
Distinct == \A m, n \in DOMAIN queue : queue[m] = queue[n] => m = n

\* A run is queued once, and what it captured is kept as long as it is queued.
QueueOK ==
    /\ Distinct
    /\ \A r \in Queued : runs[r] # IdleRun

\* What a scan has still to look at is due as its snapshot says, or gone.
SnapshotsHold ==
    \A t \in Ticks : \A j \in ticks[t].due :
        jobs[j] # Unborn /\ (Kept(j) => (jobs[j].next # NoTime /\ jobs[j].due))

\* What the other invariants rest on: the promise chain holds each run once, and no
\* writer of next_run_at is overtaken by a scan with an older snapshot.
Bookkeeping == QueueOK /\ SnapshotsHold

\* A scan claims the job j.
Claimed(j) == \E r \in leases' \ leases : runs'[r].timed /\ runs'[r].job = j

\* An occurrence is claimed once: a scan never claims a job that is not enabled and
\* due at that moment, however old its snapshot is (tryClaimDueJob).
ClaimsAreDue == [][\A j \in Jobs : Claimed(j) => j \in DueJobs]_vars

\* A job that was disabled on request stays disabled until it is enabled again:
\* tool-meta.ts:880.
PausedStaysOff == \A j \in paused : ~jobs[j].enabled

\* An enabled job that is due is claimed in the end, also when the process died while
\* it held the job's lease (service.ts:236); unless the job is just being executed,
\* because somebody runs it by hand all the time.
DueIsClaimed ==
    \A j \in Jobs : (master /\ j \in DueJobs) ~>
        \/ ~master
        \/ j \notin DueJobs
        \/ queue # <<>> /\ runs[Head(queue)].job = j /\ asked = NoRun
=============================================================================
