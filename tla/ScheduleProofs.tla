--------------------------- MODULE ScheduleProofs ---------------------------
(***************************************************************************)
(* The safety of ScheduleService, for every set of jobs, runs and scans and *)
(* any number of restarts.                                                 *)
(***************************************************************************)
EXTENDS ScheduleService, TLAPS

-----------------------------------------------------------------------------
(***************************************************************************)
(* The promise chain.                                                      *)
(***************************************************************************)
LEMMA QueueAppend ==
    ASSUME queue \in Seq(Runs), NEW r \in Runs, queue' = Append(queue, r)
    PROVE  /\ queue' \in Seq(Runs)
           /\ Queued' = Queued \cup {r}
           /\ (Distinct /\ r \notin Queued) => Distinct'
<1>1. /\ queue' \in Seq(Runs)
      /\ Len(queue') = Len(queue) + 1 /\ Len(queue) \in Nat
      /\ queue'[Len(queue) + 1] = r
      /\ \A i \in 1 .. Len(queue) : queue'[i] = queue[i]
      /\ DOMAIN queue = 1 .. Len(queue) /\ DOMAIN queue' = 1 .. (Len(queue) + 1)
  OBVIOUS
<1>2. Queued' = Queued \cup {r}
  BY <1>1 DEF Queued
<1>3. ASSUME Distinct, r \notin Queued PROVE Distinct'
  BY <1>1, <1>3 DEF Distinct, Queued
<1> QED
  BY <1>1, <1>2, <1>3

LEMMA QueueTail ==
    ASSUME queue \in Seq(Runs), queue # <<>>, Distinct, queue' = Tail(queue)
    PROVE  /\ queue' \in Seq(Runs)
           /\ Head(queue) \in Queued
           /\ Queued' = Queued \ {Head(queue)}
           /\ Distinct'
<1>1. /\ queue' \in Seq(Runs)
      /\ Len(queue) \in Nat /\ Len(queue) > 0 /\ Len(queue') = Len(queue) - 1
      /\ \A i \in 1 .. Len(queue) - 1 : queue'[i] = queue[i + 1]
      /\ DOMAIN queue = 1 .. Len(queue) /\ DOMAIN queue' = 1 .. (Len(queue) - 1)
      /\ Head(queue) = queue[1]
  OBVIOUS
<1>2. Head(queue) \in Queued
  BY <1>1 DEF Queued
<1>3. Queued' \subseteq Queued \ {Head(queue)}
  BY <1>1 DEF Queued, Distinct
<1>4. ASSUME NEW r \in Queued, r # Head(queue) PROVE r \in Queued'
  <2>1. PICK i \in 1 .. Len(queue) : queue[i] = r
    BY <1>1 DEF Queued
  <2>2. i # 1 /\ i - 1 \in 1 .. (Len(queue) - 1) /\ queue'[i - 1] = r
    BY <1>1, <1>4, <2>1
  <2> QED
    BY <1>1, <2>2 DEF Queued
<1>5. Distinct'
  BY <1>1 DEF Distinct
<1> QED
  BY <1>1, <1>2, <1>3, <1>4, <1>5

LEMMA QueuedType == queue \in Seq(Runs) => Queued \subseteq Runs
BY DEF Queued

-----------------------------------------------------------------------------
(***************************************************************************)
(* Types, and the queue.                                                   *)
(***************************************************************************)
\* What is known of a run is a run of a job, or nothing.
LEMMA KnownType ==
    ASSUME runs \in [Runs -> Run \cup {IdleRun}], NEW R
    PROVE  /\ Known(R) \in [Runs -> Run \cup {IdleRun}]
           /\ \A r \in Runs : r \in R => Known(R)[r] = runs[r]
BY DEF Known

\* A snapshot only gets smaller when the job is written.
LEMMA MismatchedType ==
    ASSUME ticks \in [Ticks -> Tick], NEW j \in Jobs
    PROVE  /\ Mismatched(j) \in [Ticks -> Tick]
           /\ \A t \in Ticks : /\ Mismatched(j)[t].due = ticks[t].due \ {j}
                               /\ Mismatched(j)[t].waits = ticks[t].waits
BY DEF Mismatched, Tick

\* A job that is kept has a row of the table, with its type.
LEMMA KeptType ==
    ASSUME jobs \in [Jobs -> Job \cup {Unborn}], NEW j \in Jobs, Kept(j)
    PROVE  jobs[j] \in Job
BY DEF Kept, Job, Unborn

\* The schedule of a run that is queued is one of the schedules, its job one of the jobs.
LEMMA CapturedType ==
    ASSUME TypeOK, QueueOK, NEW r \in Queued
    PROVE  r \in Runs /\ runs[r] \in Run /\ runs[r].job \in Jobs
<1>1. r \in Runs
  BY QueuedType DEF TypeOK
<1>2. runs[r] \in Run \cup {IdleRun} /\ runs[r] # IdleRun
  BY <1>1 DEF TypeOK, QueueOK
<1> QED
  BY <1>1, <1>2 DEF Run

\* What is computed as the next time of a schedule has its type.
LEMMA NextRunAtType ==
    ASSUME NEW s \in Schedules, NEW past
    PROVE  NextRunAt(s, past) \in Schedules \cup {NoTime}
BY DEF NextRunAt

\* The row that the end of a run writes has its type.
LEMMA WrittenType ==
    ASSUME TypeOK, NEW run \in Run, Kept(run.job), NEW ok \in BOOLEAN
    PROVE  Written(run, ok) \in Job
<1>1. jobs[run.job] \in Job /\ run.schedule \in Schedules /\ run.enabled \in BOOLEAN
  BY KeptType DEF TypeOK, Run
<1> QED
  BY <1>1, NextRunAtType DEF Written, Job

LEMMA ProvisionalType ==
    ASSUME TypeOK, NEW j \in Jobs, Kept(j), NEW next \in Provisional(j)
    PROVE  next \in Schedules \cup {Retry} /\ next # NoTime
<1>1. jobs[j].schedule \in Schedules
  BY KeptType DEF TypeOK, Job
<1> QED
  BY <1>1, NextRunAtType, ScheduleAssumption DEF Provisional

LEMMA WriteType ==
    ASSUME TypeOK, NEW j \in Jobs, NEW row \in Job, NEW next \in Schedules \cup {NoTime},
           Write(j, row, next)
    PROVE  /\ jobs' \in [Jobs -> Job \cup {Unborn}]
           /\ ticks' \in [Ticks -> Tick]
<1>1. [row EXCEPT !.next = next, !.due = FALSE] \in Job
  BY DEF Job
<1> QED
  BY <1>1, MismatchedType DEF TypeOK, Write

LEMMA EnqueueType ==
    ASSUME TypeOK, QueueOK, NEW j \in Jobs, Kept(j), NEW r \in Runs, NEW timed \in BOOLEAN,
           Enqueue(j, r, timed)
    PROVE  /\ r \notin leases /\ r \notin Queued
           /\ leases' = leases \cup {r}
           /\ queue' \in Seq(Runs) /\ Queued' = Queued \cup {r} /\ Distinct'
           /\ runs' \in [Runs -> Run \cup {IdleRun}]
           /\ \A q \in Runs : q # r => runs'[q] = runs[q]
           /\ runs'[r] \in Run /\ runs'[r].job = j /\ runs'[r].timed = timed
<1>1. jobs[j] \in Job
  BY KeptType DEF TypeOK
<1> DEFINE n == [job |-> j, schedule |-> jobs[j].schedule, enabled |-> jobs[j].enabled,
                 timed |-> timed]
<1>2. n \in Run /\ n.job = j /\ n.timed = timed
  BY <1>1 DEF Run, Job
<1>3. runs' = [runs EXCEPT ![r] = n]
  BY DEF Enqueue
<1> HIDE DEF n
<1>4. /\ runs' \in [Runs -> Run \cup {IdleRun}]
      /\ \A q \in Runs : q # r => runs'[q] = runs[q]
      /\ runs'[r] = n
  BY <1>2, <1>3 DEF TypeOK
<1>5. r \notin leases /\ r \notin Queued /\ leases' = leases \cup {r} /\ queue' = Append(queue, r)
  BY DEF Enqueue, Free
<1>6. queue' \in Seq(Runs) /\ Queued' = Queued \cup {r} /\ Distinct'
  BY <1>5, QueueAppend DEF TypeOK, QueueOK
<1> QED
  BY <1>2, <1>4, <1>5, <1>6

\* The end of a run, in the words the invariants use.
LEMMA FinishFacts ==
    ASSUME TypeOK, QueueOK, NEW ok \in BOOLEAN, Finish(ok)
    PROVE  LET r == Head(queue)
               j == runs[r].job
           IN  /\ r \in Runs /\ r \in Queued /\ runs[r] \in Run /\ j \in Jobs
               /\ queue' \in Seq(Runs) /\ Queued' = Queued \ {r} /\ Distinct'
               /\ leases' = leases \ {r} /\ old' = old \ {r}
               /\ runs' \in [Runs -> Run \cup {IdleRun}]
               /\ \A q \in Runs : q \in (leases \cup Queued) \ {r} => runs'[q] = runs[q]
               /\ jobs' = IF Kept(j) THEN [jobs EXCEPT ![j] = Written(runs[r], ok)] ELSE jobs
               /\ jobs' \in [Jobs -> Job \cup {Unborn}]
               /\ ticks' \in [Ticks -> Tick]
               /\ \A t \in Ticks :
                    /\ ticks'[t].due = ticks[t].due \ {j}
                    /\ ticks'[t].waits = IF ticks[t].waits = r THEN NoRun ELSE ticks[t].waits
               /\ UNCHANGED <<master, asked, restarts, paused>>
<1> DEFINE r == Head(queue)
           j == runs[r].job
<1>1. /\ queue' \in Seq(Runs) /\ r \in Queued /\ Queued' = Queued \ {r} /\ Distinct'
  BY QueueTail DEF Finish, TypeOK, QueueOK
<1>2. r \in Runs /\ runs[r] \in Run /\ j \in Jobs
  BY <1>1, CapturedType
<1>3. runs' = Known((leases \cup Queued) \ {r})
  BY DEF Finish
<1>4. /\ runs' \in [Runs -> Run \cup {IdleRun}]
      /\ \A q \in Runs : q \in (leases \cup Queued) \ {r} => runs'[q] = runs[q]
  BY <1>3, KnownType DEF TypeOK
<1>5. jobs' = IF Kept(j) THEN [jobs EXCEPT ![j] = Written(runs[r], ok)] ELSE jobs
  BY DEF Finish
<1>6. jobs' \in [Jobs -> Job \cup {Unborn}]
  BY <1>2, <1>5, WrittenType DEF TypeOK
<1>7. ticks' = [t \in Ticks |->
                  [due |-> Mismatched(j)[t].due,
                   waits |-> IF ticks[t].waits = r THEN NoRun ELSE ticks[t].waits]]
  BY DEF Finish
<1>8. \A t \in Ticks : /\ ticks[t].due \subseteq Jobs /\ ticks[t].waits \in Runs \cup {NoRun}
                       /\ Mismatched(j)[t].due = ticks[t].due \ {j}
  BY <1>2, MismatchedType DEF TypeOK, Tick
<1>9. /\ ticks' \in [Ticks -> Tick]
      /\ \A t \in Ticks :
           /\ ticks'[t].due = ticks[t].due \ {j}
           /\ ticks'[t].waits = IF ticks[t].waits = r THEN NoRun ELSE ticks[t].waits
  BY <1>7, <1>8 DEF Tick
<1>10. leases' = leases \ {r} /\ old' = old \ {r} /\ UNCHANGED <<master, asked, restarts, paused>>
  BY DEF Finish
<1> QED
  BY <1>1, <1>2, <1>4, <1>5, <1>6, <1>9, <1>10

\* A claim, in the same words.
LEMMA ClaimFacts ==
    ASSUME TypeOK, QueueOK, NEW t \in Ticks, NEW j \in Jobs, NEW r \in Runs, TickClaim(t, j, r)
    PROVE  /\ Kept(j) /\ ~Active(j) /\ j \in ticks[t].due /\ ticks[t].waits = NoRun
           /\ Enqueue(j, r, TRUE)
           /\ jobs' \in [Jobs -> Job \cup {Unborn}]
           /\ \A i \in Jobs : i # j => jobs'[i] = jobs[i]
           /\ jobs'[j].state = "kept" /\ jobs'[j].next # NoTime
           /\ ticks' \in [Ticks -> Tick]
           /\ \A u \in Ticks : /\ ticks'[u].due = ticks[u].due \ {j}
                               /\ ticks'[u].waits = IF u = t THEN r ELSE ticks[u].waits
           /\ UNCHANGED <<master, old, asked, restarts, paused>>
<1>1. PICK next \in Provisional(j) :
         jobs' = [jobs EXCEPT ![j] = [@ EXCEPT !.next = next, !.due = FALSE]]
  BY DEF TickClaim
<1>2. Kept(j) /\ jobs[j] \in Job /\ next \in Schedules \cup {Retry} /\ next # NoTime
  BY KeptType, ProvisionalType DEF TypeOK, TickClaim
<1> DEFINE n == [jobs[j] EXCEPT !.next = next, !.due = FALSE]
<1>3. n \in Job /\ n.state = "kept" /\ n.next # NoTime
  BY <1>2 DEF Job, Kept
<1>4. jobs' = [jobs EXCEPT ![j] = n]
  BY <1>1
<1> HIDE DEF n
<1>5. /\ jobs' \in [Jobs -> Job \cup {Unborn}]
      /\ \A i \in Jobs : i # j => jobs'[i] = jobs[i]
      /\ jobs'[j].state = "kept" /\ jobs'[j].next # NoTime
  BY <1>3, <1>4 DEF TypeOK
<1>6. ticks' = [Mismatched(j) EXCEPT ![t].waits = r]
  BY DEF TickClaim
<1>7. /\ Mismatched(j) \in [Ticks -> Tick]
      /\ \A u \in Ticks : /\ Mismatched(j)[u].due = ticks[u].due \ {j}
                          /\ Mismatched(j)[u].waits = ticks[u].waits
  BY MismatchedType DEF TypeOK
<1>8. /\ ticks' \in [Ticks -> Tick]
      /\ \A u \in Ticks : /\ ticks'[u].due = ticks[u].due \ {j}
                          /\ ticks'[u].waits = IF u = t THEN r ELSE ticks[u].waits
  BY <1>6, <1>7 DEF Tick
<1> QED
  BY <1>2, <1>5, <1>8 DEF TickClaim, Ready

\* A scan's start and its steps over jobs it leaves out.
LEMMA StartFacts ==
    ASSUME TypeOK, NEW t \in Ticks, StartTick(t)
    PROVE  /\ leases' = leases \ old /\ old' = {}
           /\ runs' \in [Runs -> Run \cup {IdleRun}]
           /\ \A q \in Runs : q \in (leases \ old) \cup Queued => runs'[q] = runs[q]
           /\ ticks' \in [Ticks -> Tick]
           /\ \A u \in Ticks :
                /\ u # t => ticks'[u] = ticks[u]
                /\ ticks'[u].waits = ticks[u].waits
           /\ ticks'[t].due \subseteq DueJobs
           /\ UNCHANGED <<master, jobs, queue, asked, restarts, paused>>
<1>1. runs' = Known((leases \ old) \cup Queued)
  BY DEF StartTick
<1>2. /\ runs' \in [Runs -> Run \cup {IdleRun}]
      /\ \A q \in Runs : q \in (leases \ old) \cup Queued => runs'[q] = runs[q]
  BY <1>1, KnownType DEF TypeOK
<1> DEFINE d == IF master THEN DueJobs ELSE {}
<1>3. d \subseteq DueJobs /\ d \subseteq Jobs
  BY DEF DueJobs
<1>4. ticks' = [ticks EXCEPT ![t].due = d]
  BY DEF StartTick
<1> HIDE DEF d
<1>5. /\ ticks' \in [Ticks -> Tick]
      /\ \A u \in Ticks : /\ u # t => ticks'[u] = ticks[u]
                          /\ ticks'[u].waits = ticks[u].waits
      /\ ticks'[t].due = d
  BY <1>3, <1>4 DEF TypeOK, Tick
<1> QED
  BY <1>2, <1>3, <1>5 DEF StartTick

LEMMA SkipFacts ==
    ASSUME TypeOK, NEW t \in Ticks, NEW j \in Jobs, TickSkip(t, j)
    PROVE  /\ ticks' \in [Ticks -> Tick]
           /\ \A u \in Ticks : /\ ticks'[u].due \subseteq ticks[u].due
                               /\ ticks'[u].waits = ticks[u].waits
           /\ UNCHANGED <<dbVars, runs, queue, asked, restarts, paused>>
BY DEF TypeOK, TickSkip, Tick

\* The deletion of a job.
LEMMA DeleteFacts ==
    ASSUME TypeOK, NEW j \in Jobs, DeleteJob(j)
    PROVE  /\ leases' = {r \in leases : runs[r].job # j} /\ old' = old \cap leases'
           /\ runs' \in [Runs -> Run \cup {IdleRun}]
           /\ \A q \in Runs : q \in leases' \cup Queued => runs'[q] = runs[q]
           /\ jobs' \in [Jobs -> Job \cup {Unborn}]
           /\ \A i \in Jobs : i # j => jobs'[i] = jobs[i]
           /\ jobs'[j].state = "deleted"
           /\ UNCHANGED <<master, queue, asked, ticks, restarts>> /\ paused' = paused \ {j}
<1>1. leases' = {r \in leases : runs[r].job # j} /\ runs' = Known(leases' \cup Queued)
  BY DEF DeleteJob
<1>2. /\ runs' \in [Runs -> Run \cup {IdleRun}]
      /\ \A q \in Runs : q \in leases' \cup Queued => runs'[q] = runs[q]
  BY <1>1, KnownType DEF TypeOK
<1>3. jobs[j] \in Job
  BY KeptType DEF TypeOK, DeleteJob
<1>4. /\ jobs' \in [Jobs -> Job \cup {Unborn}]
      /\ \A i \in Jobs : i # j => jobs'[i] = jobs[i]
      /\ jobs'[j].state = "deleted"
  BY <1>3 DEF DeleteJob, TypeOK, Job
<1> QED
  BY <1>1, <1>2, <1>4 DEF DeleteJob

\* A restart.
LEMMA RestartFacts ==
    ASSUME TypeOK, Restart
    PROVE  /\ queue' = <<>> /\ Queued' = {} /\ restarts' \in 1 .. MaxRestarts
           /\ runs' \in [Runs -> Run \cup {IdleRun}]
           /\ \A q \in Runs : q \in leases => runs'[q] = runs[q]
           /\ asked' = NoRun
           /\ ticks' = [u \in Ticks |-> IdleTick]
           /\ UNCHANGED <<dbVars, paused>>
<1>1. runs' = Known(leases) /\ queue' = <<>> /\ restarts' \in 1 .. MaxRestarts
  BY ScheduleAssumption DEF Restart, TypeOK
<1>2. Queued' = {}
  BY <1>1 DEF Queued
<1> QED
  BY <1>1, <1>2, KnownType DEF TypeOK, Restart

-----------------------------------------------------------------------------
(***************************************************************************)
(* The actions that write one job and nothing else of the tables.          *)
(***************************************************************************)
\* The row of an enabled job that repeats has a next time, if no expression is invalid.
Lasts(row) ==
    (NeverAt = {} /\ row.enabled /\ row.schedule \notin OnceAt) => row.next # NoTime

Repeats == \A j \in Jobs : Kept(j) => Lasts(jobs[j])

Edit(j) ==
    \/ \E s \in Schedules, flag \in BOOLEAN : CreateJob(j, s, flag) \/ UpdateSchedule(j, s, flag)
    \/ EnableJob(j) \/ DisableJob(j) \/ Elapse(j)

\* What they have in common: the job is written with a row that has a next time if it
\* must, and is in no snapshot unless it is due.
Edited(j) ==
    /\ UNCHANGED <<master, leases, old, runs, queue, asked, restarts>>
    /\ paused' \subseteq Jobs
    /\ jobs' \in [Jobs -> Job \cup {Unborn}]
    /\ \A i \in Jobs : i # j => jobs'[i] = jobs[i]
    /\ jobs'[j].state = "kept"
    /\ Lasts(jobs'[j])
    /\ ticks' \in [Ticks -> Tick]
    /\ \A u \in Ticks :
         /\ ticks'[u].waits = ticks[u].waits
         /\ ticks'[u].due \subseteq ticks[u].due
         /\ j \in ticks'[u].due => (jobs'[j].next # NoTime /\ jobs'[j].due)

LEMMA EditedBy ==
    ASSUME TypeOK, NEW j \in Jobs, NEW n \in Job, n.state = "kept",
           Lasts(n),
           jobs' = [jobs EXCEPT ![j] = n],
           \/ ticks' = Mismatched(j)
           \/ ticks' = ticks /\ \A u \in Ticks : j \in ticks[u].due => (n.next # NoTime /\ n.due),
           UNCHANGED <<master, leases, old, runs, queue, asked, restarts>>,
           paused' \subseteq Jobs
    PROVE  Edited(j)
<1>1. /\ jobs' \in [Jobs -> Job \cup {Unborn}] /\ jobs'[j] = n
      /\ \A i \in Jobs : i # j => jobs'[i] = jobs[i]
  BY DEF TypeOK
<1>2. CASE ticks' = Mismatched(j)
  BY <1>1, <1>2, MismatchedType DEF TypeOK, Edited
<1>3. CASE ticks' = ticks /\ \A u \in Ticks : j \in ticks[u].due => (n.next # NoTime /\ n.due)
  BY <1>1, <1>3 DEF TypeOK, Edited
<1> QED
  BY <1>2, <1>3

LEMMA EditFacts ==
    ASSUME TypeOK, Repeats, SnapshotsHold, NEW j \in Jobs, Edit(j)
    PROVE  Edited(j)
<1>1. ASSUME Kept(j)
      PROVE  /\ jobs[j] \in Job /\ jobs[j].state = "kept"
             /\ Lasts(jobs[j])
             /\ \A u \in Ticks : j \in ticks[u].due => (jobs[j].next # NoTime /\ jobs[j].due)
  BY <1>1, KeptType DEF TypeOK, Repeats, SnapshotsHold, Kept
<1>2. ASSUME NEW s \in Schedules, NEW on \in BOOLEAN, CreateJob(j, s, on)
      PROVE  Edited(j)
  <2> DEFINE n == [state |-> "kept", enabled |-> on, schedule |-> s,
                   past |-> FALSE, next |-> s, due |-> FALSE]
  <2>1. n \in Job /\ n.state = "kept" /\ n.next # NoTime
    BY ScheduleAssumption DEF Job
  <2>2. jobs' = [jobs EXCEPT ![j] = n]
    BY <1>2 DEF CreateJob
  <2>3. \A u \in Ticks : j \notin ticks[u].due
    BY <1>2 DEF CreateJob, SnapshotsHold
  <2> HIDE DEF n
  <2> QED
    BY <1>2, <2>1, <2>2, <2>3, EditedBy DEF CreateJob, TypeOK, Lasts
<1>3. ASSUME NEW row \in Job, NEW next \in Schedules \cup {NoTime}, Write(j, row, next),
             row.state = "kept", (row.enabled /\ row.schedule \notin OnceAt /\ NeverAt = {}) => next # NoTime,
             UNCHANGED <<master, leases, old, runs, queue, asked, restarts>>,
             paused' \subseteq Jobs
      PROVE  Edited(j)
  <2> DEFINE n == [row EXCEPT !.next = next, !.due = FALSE]
  <2>1. n \in Job /\ n.state = "kept" /\ Lasts(n)
    BY <1>3 DEF Job, Lasts
  <2>2. jobs' = [jobs EXCEPT ![j] = n] /\ ticks' = Mismatched(j)
    BY <1>3 DEF Write
  <2> HIDE DEF n
  <2> QED
    BY <1>3, <2>1, <2>2, EditedBy
<1>4. ASSUME NEW s \in Schedules, NEW past \in BOOLEAN, UpdateSchedule(j, s, past)
      PROVE  Edited(j)
  <2> DEFINE row == [jobs[j] EXCEPT !.schedule = s, !.past = past]
             next == NextRunAt(s, past)
  <2>1. Kept(j) /\ Write(j, row, next)
    BY <1>4 DEF UpdateSchedule
  <2>2. row \in Job /\ row.state = "kept" /\ row.schedule = s
    BY <1>1, <2>1 DEF Job
  <2>3. next \in Schedules \cup {NoTime} /\ (s \notin OnceAt \cup NeverAt => next # NoTime)
    BY ScheduleAssumption DEF NextRunAt
  <2>4. UNCHANGED <<master, leases, old, runs, queue, asked, restarts>> /\ paused' \subseteq Jobs
    BY <1>4 DEF UpdateSchedule, TypeOK
  <2> HIDE DEF row, next
  <2> QED
    BY <1>3, <2>1, <2>2, <2>3, <2>4
<1>5. ASSUME EnableJob(j) PROVE Edited(j)
  <2> DEFINE row == [jobs[j] EXCEPT !.enabled = TRUE]
             next == NextRunAt(jobs[j].schedule, jobs[j].past)
  <2>1. Kept(j) /\ Write(j, row, next)
    BY <1>5 DEF EnableJob
  <2>2. row \in Job /\ row.state = "kept" /\ row.schedule = jobs[j].schedule /\ row.schedule \in Schedules
    BY <1>1, <2>1 DEF Job
  <2>3. next \in Schedules \cup {NoTime} /\ (row.schedule \notin OnceAt \cup NeverAt => next # NoTime)
    BY <2>2, ScheduleAssumption DEF NextRunAt
  <2>4. UNCHANGED <<master, leases, old, runs, queue, asked, restarts>> /\ paused' \subseteq Jobs
    BY <1>5 DEF EnableJob, TypeOK
  <2> HIDE DEF row, next
  <2> QED
    BY <1>3, <2>1, <2>2, <2>3, <2>4
<1>6. ASSUME DisableJob(j) PROVE Edited(j)
  <2> DEFINE n == [jobs[j] EXCEPT !.enabled = FALSE]
  <2>1. Kept(j)
    BY <1>6 DEF DisableJob
  <2>2. /\ n \in Job /\ n.state = "kept" /\ ~n.enabled
        /\ \A u \in Ticks : j \in ticks[u].due => (n.next # NoTime /\ n.due)
    BY <1>1, <2>1 DEF Job
  <2>3. jobs' = [jobs EXCEPT ![j] = n]
    BY <1>6 DEF DisableJob
  <2> HIDE DEF n
  <2> QED
    BY <1>6, <2>2, <2>3, EditedBy DEF DisableJob, TypeOK, Lasts
<1>7. ASSUME Elapse(j) PROVE Edited(j)
  <2> DEFINE m == [jobs[j] EXCEPT !.due = TRUE,
                     !.past = @ \/ (jobs[j].schedule \in OnceAt /\ jobs[j].next = jobs[j].schedule)]
             n == [jobs[j] EXCEPT !.past = TRUE]
  <2>1. Kept(j)
    BY <1>7 DEF Elapse
  <2>2. /\ m \in Job /\ m.state = "kept" /\ m.due /\ m.next = jobs[j].next
        /\ m.enabled = jobs[j].enabled /\ m.schedule = jobs[j].schedule
    BY <1>1, <2>1 DEF Job
  <2>3. /\ n \in Job /\ n.state = "kept" /\ n.due = jobs[j].due /\ n.next = jobs[j].next
        /\ n.enabled = jobs[j].enabled /\ n.schedule = jobs[j].schedule
    BY <1>1, <2>1 DEF Job
  <2>4. /\ jobs' = [jobs EXCEPT ![j] = m] \/ jobs' = [jobs EXCEPT ![j] = n]
        /\ ticks' = ticks /\ paused' \subseteq Jobs
        /\ UNCHANGED <<master, leases, old, runs, queue, asked, restarts>>
    BY <1>7 DEF Elapse, TypeOK
  <2> HIDE DEF m, n
  <2>5. CASE jobs' = [jobs EXCEPT ![j] = m]
    BY <1>1, <2>1, <2>2, <2>4, <2>5, EditedBy DEF Lasts
  <2>6. CASE jobs' = [jobs EXCEPT ![j] = n]
    BY <1>1, <2>1, <2>3, <2>4, <2>6, EditedBy DEF Lasts
  <2> QED
    BY <2>4, <2>5, <2>6
<1> QED
  BY <1>2, <1>4, <1>5, <1>6, <1>7 DEF Edit

-----------------------------------------------------------------------------
(***************************************************************************)
(* The inductive invariant.                                                *)
(***************************************************************************)
SInv ==
    /\ TypeOK
    /\ Bookkeeping
    /\ RowsHaveJobs
    /\ OneTimerLease
    /\ LeasesAreQueued
    /\ ScansWaitForQueued
    /\ Repeats

LEMMA InitSInv == Init => SInv
<1> SUFFICES ASSUME Init PROVE SInv
  OBVIOUS
<1>1. Queued = {} /\ leases = {}
  BY DEF Init, Queued
<1>2. TypeOK
  BY ScheduleAssumption DEF Init, TypeOK, Tick, IdleTick
<1>3. Bookkeeping
  BY <1>1 DEF Init, Bookkeeping, QueueOK, Distinct, SnapshotsHold, IdleTick
<1>4. RowsHaveJobs /\ OneTimerLease /\ LeasesAreQueued
  BY <1>1 DEF RowsHaveJobs, OneTimerLease, LeasesAreQueued
<1>5. ScansWaitForQueued /\ Repeats
  BY DEF Init, ScansWaitForQueued, Repeats, IdleTick, Kept, Unborn
<1> QED
  BY <1>2, <1>3, <1>4, <1>5 DEF SInv

\* A job is written.
LEMMA EditStep ==
    ASSUME SInv, NEW j \in Jobs, Edit(j)
    PROVE  SInv'
<1>1. Edited(j)
  BY EditFacts DEF SInv, Bookkeeping
<1>2. Queued' = Queued
  BY <1>1 DEF Edited, Queued
<1>3. TypeOK'
  BY <1>1 DEF SInv, TypeOK, Edited
<1>4. QueueOK'
  BY <1>1, <1>2 DEF SInv, Bookkeeping, QueueOK, Distinct, Edited
<1>5. jobs'[j] # Unborn
  BY <1>1 DEF Edited, Unborn
<1>6. SnapshotsHold'
  <2> SUFFICES ASSUME NEW t \in Ticks, NEW i \in ticks'[t].due
               PROVE  jobs'[i] # Unborn /\ (Kept(i)' => (jobs'[i].next # NoTime /\ jobs'[i].due))
    BY DEF SnapshotsHold
  <2>1. CASE i = j
    BY <1>1, <1>5, <2>1 DEF Edited
  <2>2. CASE i # j
    <3>1. i \in ticks[t].due /\ i \in Jobs
      BY <1>1 DEF Edited, SInv, TypeOK, Tick
    <3>2. jobs'[i] = jobs[i]
      BY <1>1, <2>2, <3>1 DEF Edited
    <3> QED
      BY <3>1, <3>2 DEF SInv, Bookkeeping, SnapshotsHold, Kept
  <2> QED
    BY <2>1, <2>2
<1>7. RowsHaveJobs'
  BY <1>1 DEF SInv, RowsHaveJobs, Edited, Kept
<1>8. OneTimerLease' /\ LeasesAreQueued'
  BY <1>1, <1>2 DEF SInv, OneTimerLease, LeasesAreQueued, Edited
<1>9. ScansWaitForQueued'
  BY <1>1, <1>2 DEF SInv, ScansWaitForQueued, Edited
<1>10. Repeats'
  BY <1>1 DEF SInv, Repeats, Edited, Kept
<1> QED
  BY <1>3, <1>4, <1>6, <1>7, <1>8, <1>9, <1>10 DEF SInv, Bookkeeping

\* A job is deleted.
LEMMA DeleteStep ==
    ASSUME SInv, NEW j \in Jobs, DeleteJob(j)
    PROVE  SInv'
<1>1. /\ leases' = {r \in leases : runs[r].job # j} /\ old' = old \cap leases'
      /\ runs' \in [Runs -> Run \cup {IdleRun}]
      /\ \A q \in Runs : q \in leases' \cup Queued => runs'[q] = runs[q]
      /\ jobs' \in [Jobs -> Job \cup {Unborn}]
      /\ \A i \in Jobs : i # j => jobs'[i] = jobs[i]
      /\ jobs'[j].state = "deleted"
      /\ UNCHANGED <<master, queue, asked, ticks, restarts>> /\ paused' = paused \ {j}
  BY DeleteFacts DEF SInv
<1>2. Queued' = Queued /\ Queued \subseteq Runs /\ leases' \subseteq leases /\ leases \subseteq Runs
  BY <1>1, QueuedType DEF Queued, SInv, TypeOK
<1>3. \A r \in leases' : runs'[r] = runs[r]
  BY <1>1, <1>2
<1>4. TypeOK'
  BY <1>1, <1>2 DEF SInv, TypeOK
<1>5. QueueOK'
  BY <1>1, <1>2 DEF SInv, Bookkeeping, QueueOK, Distinct
<1>6. jobs'[j] # Unborn /\ ~Kept(j)'
  BY <1>1 DEF Unborn, Kept
<1>7. \A i \in Jobs : i # j => (jobs'[i] = jobs[i] /\ (Kept(i)' <=> Kept(i)))
  BY <1>1 DEF Kept
<1>8. SnapshotsHold'
  BY <1>1, <1>6, <1>7 DEF SInv, TypeOK, Tick, Bookkeeping, SnapshotsHold
<1>9. RowsHaveJobs'
  BY <1>1, <1>3, <1>7 DEF SInv, RowsHaveJobs
<1>10. OneTimerLease' /\ LeasesAreQueued'
  BY <1>1, <1>2, <1>3 DEF SInv, OneTimerLease, LeasesAreQueued
<1>11. ScansWaitForQueued'
  BY <1>1, <1>2 DEF SInv, ScansWaitForQueued
<1>12. Repeats'
  BY <1>6, <1>7 DEF SInv, Repeats
<1> QED
  BY <1>4, <1>5, <1>8, <1>9, <1>10, <1>11, <1>12 DEF SInv, Bookkeeping

\* A run is created by hand.
LEMMA RunNowStep ==
    ASSUME SInv, NEW j \in Jobs, NEW r \in Runs, RunNow(j, r)
    PROVE  SInv'
<1>1. Kept(j) /\ Enqueue(j, r, FALSE) /\ UNCHANGED <<master, jobs, old, ticks, restarts, paused>>
  BY DEF RunNow
<1>2. /\ r \notin leases /\ r \notin Queued
      /\ leases' = leases \cup {r}
      /\ queue' \in Seq(Runs) /\ Queued' = Queued \cup {r} /\ Distinct'
      /\ runs' \in [Runs -> Run \cup {IdleRun}]
      /\ \A q \in Runs : q # r => runs'[q] = runs[q]
      /\ runs'[r] \in Run /\ runs'[r].job = j /\ runs'[r].timed = FALSE
  BY <1>1, EnqueueType DEF SInv, Bookkeeping
<1>3. asked' \in Runs \cup {NoRun}
  BY DEF RunNow, SInv, TypeOK
<1>4. TypeOK'
  BY <1>1, <1>2, <1>3 DEF SInv, TypeOK
<1>5. Queued \subseteq Runs /\ leases \subseteq Runs
  BY QueuedType DEF SInv, TypeOK
<1>6. QueueOK'
  <2>1. runs'[r] # IdleRun
    BY <1>2, ScheduleAssumption DEF Run, IdleRun
  <2> QED
    BY <1>2, <1>5, <2>1 DEF SInv, Bookkeeping, QueueOK
<1>7. SnapshotsHold' /\ Repeats'
  BY <1>1 DEF SInv, Bookkeeping, SnapshotsHold, Repeats, Kept
<1>8. RowsHaveJobs'
  BY <1>1, <1>2, <1>5 DEF SInv, RowsHaveJobs, Kept
<1>9. OneTimerLease' /\ LeasesAreQueued'
  BY <1>1, <1>2, <1>5 DEF SInv, OneTimerLease, LeasesAreQueued
<1>10. ScansWaitForQueued'
  BY <1>1, <1>2 DEF SInv, ScansWaitForQueued
<1> QED
  BY <1>4, <1>6, <1>7, <1>8, <1>9, <1>10 DEF SInv, Bookkeeping

\* A run is claimed by a scan.
LEMMA ClaimStep ==
    ASSUME SInv, NEW t \in Ticks, NEW j \in Jobs, NEW r \in Runs, TickClaim(t, j, r)
    PROVE  SInv'
<1>1. /\ Kept(j) /\ ~Active(j) /\ j \in ticks[t].due /\ ticks[t].waits = NoRun
      /\ Enqueue(j, r, TRUE)
      /\ jobs' \in [Jobs -> Job \cup {Unborn}]
      /\ \A i \in Jobs : i # j => jobs'[i] = jobs[i]
      /\ jobs'[j].state = "kept" /\ jobs'[j].next # NoTime
      /\ ticks' \in [Ticks -> Tick]
      /\ \A u \in Ticks : /\ ticks'[u].due = ticks[u].due \ {j}
                          /\ ticks'[u].waits = IF u = t THEN r ELSE ticks[u].waits
      /\ UNCHANGED <<master, old, asked, restarts, paused>>
  BY ClaimFacts DEF SInv, Bookkeeping
<1>2. /\ r \notin leases /\ r \notin Queued
      /\ leases' = leases \cup {r}
      /\ queue' \in Seq(Runs) /\ Queued' = Queued \cup {r} /\ Distinct'
      /\ runs' \in [Runs -> Run \cup {IdleRun}]
      /\ \A q \in Runs : q # r => runs'[q] = runs[q]
      /\ runs'[r] \in Run /\ runs'[r].job = j /\ runs'[r].timed = TRUE
  BY <1>1, EnqueueType DEF SInv, Bookkeeping
<1>3. Queued \subseteq Runs /\ leases \subseteq Runs
  BY QueuedType DEF SInv, TypeOK
<1>4. TypeOK'
  BY <1>1, <1>2 DEF SInv, TypeOK
<1>5. QueueOK'
  <2>1. runs'[r] # IdleRun
    BY <1>2, ScheduleAssumption DEF Run, IdleRun
  <2> QED
    BY <1>2, <1>3, <2>1 DEF SInv, Bookkeeping, QueueOK
<1>6. \A i \in Jobs : i # j => (jobs'[i] = jobs[i] /\ (Kept(i)' <=> Kept(i)))
  BY <1>1 DEF Kept
<1>7. SnapshotsHold'
  BY <1>1, <1>6 DEF SInv, TypeOK, Tick, Bookkeeping, SnapshotsHold
<1>8. Repeats'
  BY <1>1, <1>6 DEF SInv, Repeats, Lasts
<1>9. RowsHaveJobs'
  BY <1>1, <1>2, <1>3 DEF SInv, RowsHaveJobs, Kept
<1>10. OneTimerLease'
  BY <1>1, <1>2, <1>3 DEF SInv, OneTimerLease, Active
<1>11. LeasesAreQueued'
  BY <1>1, <1>2 DEF SInv, LeasesAreQueued
<1>12. ScansWaitForQueued'
  BY <1>1, <1>2, ScheduleAssumption DEF SInv, ScansWaitForQueued
<1> QED
  BY <1>4, <1>5, <1>7, <1>8, <1>9, <1>10, <1>11, <1>12 DEF SInv, Bookkeeping

\* A scan starts, and releases what is stale.
LEMMA StartStep ==
    ASSUME SInv, NEW t \in Ticks, StartTick(t)
    PROVE  SInv'
<1>1. /\ leases' = leases \ old /\ old' = {}
      /\ runs' \in [Runs -> Run \cup {IdleRun}]
      /\ \A q \in Runs : q \in (leases \ old) \cup Queued => runs'[q] = runs[q]
      /\ ticks' \in [Ticks -> Tick]
      /\ \A u \in Ticks : /\ u # t => ticks'[u] = ticks[u]
                          /\ ticks'[u].waits = ticks[u].waits
      /\ ticks'[t].due \subseteq DueJobs
      /\ UNCHANGED <<master, jobs, queue, asked, restarts, paused>>
  BY StartFacts DEF SInv
<1>2. Queued' = Queued /\ Queued \subseteq Runs /\ leases' \subseteq leases /\ leases \subseteq Runs
  BY <1>1, QueuedType DEF Queued, SInv, TypeOK
<1>3. \A r \in leases' : runs'[r] = runs[r]
  BY <1>1, <1>2
<1>4. TypeOK'
  BY <1>1, <1>2 DEF SInv, TypeOK
<1>5. QueueOK'
  BY <1>1, <1>2 DEF SInv, Bookkeeping, QueueOK, Distinct
<1>6. SnapshotsHold'
  <2> SUFFICES ASSUME NEW u \in Ticks, NEW i \in ticks'[u].due
               PROVE  jobs[i] # Unborn /\ (Kept(i) => (jobs[i].next # NoTime /\ jobs[i].due))
    BY <1>1 DEF SnapshotsHold, Kept
  <2>1. CASE u = t
    BY <1>1, <2>1 DEF DueJobs, Kept, Unborn
  <2>2. CASE u # t
    BY <1>1, <2>2 DEF SInv, Bookkeeping, SnapshotsHold
  <2> QED
    BY <2>1, <2>2
<1>7. RowsHaveJobs'
  BY <1>1, <1>2, <1>3 DEF SInv, RowsHaveJobs, Kept
<1>8. OneTimerLease' /\ LeasesAreQueued'
  BY <1>1, <1>2, <1>3 DEF SInv, OneTimerLease, LeasesAreQueued
<1>9. ScansWaitForQueued'
  BY <1>1, <1>2 DEF SInv, ScansWaitForQueued
<1>10. Repeats'
  BY <1>1 DEF SInv, Repeats, Kept
<1> QED
  BY <1>4, <1>5, <1>6, <1>7, <1>8, <1>9, <1>10 DEF SInv, Bookkeeping

\* A scan leaves a job out.
LEMMA SkipStep ==
    ASSUME SInv, NEW t \in Ticks, NEW j \in Jobs, TickSkip(t, j)
    PROVE  SInv'
<1>1. /\ ticks' \in [Ticks -> Tick]
      /\ \A u \in Ticks : /\ ticks'[u].due \subseteq ticks[u].due
                          /\ ticks'[u].waits = ticks[u].waits
      /\ UNCHANGED <<master, jobs, leases, old, runs, queue, asked, restarts, paused>>
  BY SkipFacts DEF SInv, dbVars
<1>2. Queued' = Queued
  BY <1>1 DEF Queued
<1>3. TypeOK'
  BY <1>1 DEF SInv, TypeOK
<1>4. QueueOK' /\ SnapshotsHold'
  BY <1>1, <1>2 DEF SInv, Bookkeeping, QueueOK, Distinct, SnapshotsHold, Kept
<1>5. RowsHaveJobs' /\ OneTimerLease' /\ LeasesAreQueued' /\ Repeats'
  BY <1>1, <1>2 DEF SInv, RowsHaveJobs, OneTimerLease, LeasesAreQueued, Repeats, Kept
<1>6. ScansWaitForQueued'
  BY <1>1, <1>2 DEF SInv, ScansWaitForQueued
<1> QED
  BY <1>3, <1>4, <1>5, <1>6 DEF SInv, Bookkeeping

\* A run ends.
LEMMA FinishStep ==
    ASSUME SInv, NEW ok \in BOOLEAN, Finish(ok)
    PROVE  SInv'
<1>1. PICK r \in Runs, j \in Jobs : r = Head(queue) /\ j = runs[r].job
  BY FinishFacts DEF SInv, Bookkeeping
<1>2. /\ r \in Queued /\ runs[r] \in Run
      /\ queue' \in Seq(Runs) /\ Queued' = Queued \ {r} /\ Distinct'
      /\ leases' = leases \ {r} /\ old' = old \ {r}
      /\ runs' \in [Runs -> Run \cup {IdleRun}]
      /\ \A q \in Runs : q \in (leases \cup Queued) \ {r} => runs'[q] = runs[q]
      /\ jobs' = IF Kept(j) THEN [jobs EXCEPT ![j] = Written(runs[r], ok)] ELSE jobs
      /\ jobs' \in [Jobs -> Job \cup {Unborn}]
      /\ ticks' \in [Ticks -> Tick]
      /\ \A t \in Ticks :
           /\ ticks'[t].due = ticks[t].due \ {j}
           /\ ticks'[t].waits = IF ticks[t].waits = r THEN NoRun ELSE ticks[t].waits
      /\ UNCHANGED <<master, asked, restarts, paused>>
  BY <1>1, FinishFacts DEF SInv, Bookkeeping
<1>3. Queued \subseteq Runs /\ leases \subseteq Runs
  BY QueuedType DEF SInv, TypeOK
<1>4. TypeOK'
  BY <1>2 DEF SInv, TypeOK
<1>5. QueueOK'
  BY <1>2, <1>3 DEF SInv, Bookkeeping, QueueOK
<1>6. \A i \in Jobs : i # j => jobs'[i] = jobs[i]
  BY <1>2
<1>7. ~Kept(j) => jobs' = jobs
  BY <1>2
<1>8. ASSUME Kept(j)
      PROVE  jobs'[j].state = "kept" /\ Lasts(jobs'[j])
  <2> DEFINE n == Written(runs[r], ok)
  <2>1. jobs[j] \in Job /\ jobs[j].state = "kept"
    BY <1>8, KeptType DEF SInv, TypeOK, Kept
  <2>2. runs[r].schedule \in Schedules /\ runs[r].schedule # NoTime
    BY <1>2, ScheduleAssumption DEF Run
  <2>3. n.state = "kept" /\ Lasts(n)
    BY <1>1, <2>1, <2>2 DEF Written, Job, Lasts, NextRunAt
  <2>4. jobs'[j] = n
    BY <1>2, <1>8 DEF SInv, TypeOK
  <2> QED
    BY <2>3, <2>4
<1>9. SnapshotsHold'
  BY <1>2, <1>6 DEF SInv, TypeOK, Tick, Bookkeeping, SnapshotsHold, Kept
<1>10. Repeats'
  BY <1>6, <1>7, <1>8 DEF SInv, Repeats, Kept
<1>11. \A q \in leases' : q \in leases /\ q # r /\ runs'[q] = runs[q]
  BY <1>2, <1>3
<1>12. \A i \in Jobs : Kept(i) => Kept(i)'
  BY <1>6, <1>8 DEF Kept
<1>13. RowsHaveJobs'
  BY <1>11, <1>12 DEF SInv, RowsHaveJobs
<1>14. OneTimerLease'
  BY <1>11 DEF SInv, OneTimerLease
<1>15. LeasesAreQueued'
  BY <1>2, <1>11 DEF SInv, LeasesAreQueued
<1>16. ScansWaitForQueued'
  BY <1>2, ScheduleAssumption DEF SInv, ScansWaitForQueued
<1> QED
  BY <1>4, <1>5, <1>9, <1>10, <1>13, <1>14, <1>15, <1>16 DEF SInv, Bookkeeping

\* The process starts anew.
LEMMA RestartStep ==
    ASSUME SInv, Restart
    PROVE  SInv'
<1>1. /\ queue' = <<>> /\ Queued' = {} /\ restarts' \in 1 .. MaxRestarts
      /\ runs' \in [Runs -> Run \cup {IdleRun}]
      /\ \A q \in Runs : q \in leases => runs'[q] = runs[q]
      /\ asked' = NoRun
      /\ ticks' = [u \in Ticks |-> IdleTick]
      /\ UNCHANGED <<master, jobs, leases, old, paused>>
  BY RestartFacts DEF SInv, dbVars
<1>2. \A u \in Ticks : ticks'[u].due = {} /\ ticks'[u].waits = NoRun /\ ticks'[u] \in Tick
  BY <1>1 DEF IdleTick, Tick
<1>3. TypeOK'
  BY <1>1, <1>2, ScheduleAssumption DEF SInv, TypeOK
<1>4. QueueOK' /\ SnapshotsHold' /\ ScansWaitForQueued'
  BY <1>1, <1>2 DEF QueueOK, Distinct, SnapshotsHold, ScansWaitForQueued
<1>5. \A q \in leases : runs'[q] = runs[q]
  BY <1>1 DEF SInv, TypeOK
<1>6. RowsHaveJobs' /\ OneTimerLease' /\ Repeats'
  BY <1>1, <1>5 DEF SInv, RowsHaveJobs, OneTimerLease, Repeats, Kept
<1>7. LeasesAreQueued'
  BY <1>1, ScheduleAssumption DEF LeasesAreQueued
<1> QED
  BY <1>3, <1>4, <1>6, <1>7 DEF SInv, Bookkeeping

\* Nothing changes but the switch, the age of a lease or the run an agent waits for.
LEMMA SmallStep ==
    ASSUME SInv, \/ \E on \in BOOLEAN : SetMaster(on)
                 \/ \E r \in Runs : LeaseExpires(r)
                 \/ ToolTimeout
                 \/ UNCHANGED vars
    PROVE  SInv'
<1>1. /\ UNCHANGED <<jobs, leases, runs, queue, ticks, restarts, paused>>
      /\ master' \in BOOLEAN /\ old' \subseteq leases /\ asked' \in Runs \cup {NoRun}
  BY DEF SInv, TypeOK, SetMaster, LeaseExpires, ToolTimeout, vars, dbVars
<1>2. Queued' = Queued
  BY <1>1 DEF Queued
<1>3. TypeOK'
  BY <1>1 DEF SInv, TypeOK
<1>4. QueueOK' /\ SnapshotsHold' /\ ScansWaitForQueued'
  BY <1>1, <1>2 DEF SInv, Bookkeeping, QueueOK, Distinct, SnapshotsHold, ScansWaitForQueued, Kept
<1>5. RowsHaveJobs' /\ OneTimerLease' /\ LeasesAreQueued' /\ Repeats'
  BY <1>1, <1>2 DEF SInv, RowsHaveJobs, OneTimerLease, LeasesAreQueued, Repeats, Kept
<1> QED
  BY <1>3, <1>4, <1>5 DEF SInv, Bookkeeping

LEMMA NextSInv == SInv /\ [Next]_vars => SInv'
<1> SUFFICES ASSUME SInv, [Next]_vars PROVE SInv'
  OBVIOUS
<1>1. CASE \E j \in Jobs : Edit(j) \/ DeleteJob(j) \/ \E r \in Runs : RunNow(j, r)
  BY <1>1, EditStep, DeleteStep, RunNowStep
<1>2. CASE \E t \in Ticks : StartTick(t)
  BY <1>2, StartStep
<1>3. CASE Scan
  BY <1>3, SkipStep, ClaimStep DEF Scan
<1>4. CASE \E ok \in BOOLEAN : Finish(ok)
  BY <1>4, FinishStep
<1>5. CASE Restart
  BY <1>5, RestartStep
<1>6. CASE \/ \E on \in BOOLEAN : SetMaster(on)
           \/ \E r \in Runs : LeaseExpires(r)
           \/ ToolTimeout
           \/ UNCHANGED vars
  BY <1>6, SmallStep
<1> QED
  BY <1>1, <1>2, <1>3, <1>4, <1>5, <1>6 DEF Next, Edit

LEMMA AlwaysSInv == Spec => []SInv
BY InitSInv, NextSInv, PTL DEF Spec

-----------------------------------------------------------------------------
(***************************************************************************)
(* The theorems.                                                           *)
(***************************************************************************)
\* Every variable keeps its type.
THEOREM ScheduleTypes == Spec => []TypeOK
<1>1. SInv => TypeOK
  BY DEF SInv
<1> QED
  BY <1>1, AlwaysSInv, PTL

\* A running row has its job: deleting a job takes its rows with it (user-store schedule.ts).
THEOREM RowsHaveTheirJob == Spec => []RowsHaveJobs
<1>1. SInv => RowsHaveJobs
  BY DEF SInv
<1> QED
  BY <1>1, AlwaysSInv, PTL

\* One row of a job at most was claimed by a scan, however many scans overlap (schedule.ts,
\* tryClaimDueJob).
THEOREM LeasesSound == Spec => []OneTimerLease
<1>1. SInv => OneTimerLease
  BY DEF SInv
<1> QED
  BY <1>1, AlwaysSInv, PTL

\* As long as the process lives a running row is that of a queued run (service.ts).
THEOREM LeasesEnd == Spec => []LeasesAreQueued
<1>1. SInv => LeasesAreQueued
  BY DEF SInv
<1> QED
  BY <1>1, AlwaysSInv, PTL

\* The queue holds a run once, and what a scan has still to look at is due or deleted.
THEOREM BooksKept == Spec => []Bookkeeping
<1>1. SInv => Bookkeeping
  BY DEF SInv
<1> QED
  BY <1>1, AlwaysSInv, PTL

\* A scan waits for a run that is still to end, which no other scan waits for.
THEOREM ScansEnd == Spec => []ScansWaitForQueued
<1>1. SInv => ScansWaitForQueued
  BY DEF SInv
<1> QED
  BY <1>1, AlwaysSInv, PTL

\* An enabled job that repeats never loses its next time, as long as no expression is
\* invalid.
THEOREM RepeatsForever ==
    ASSUME NeverAt = {}
    PROVE  Spec => []EnabledRepeats
<1>1. SInv => EnabledRepeats
  BY DEF SInv, Repeats, Lasts, EnabledRepeats
<1> QED
  BY <1>1, AlwaysSInv, PTL

\* What a scan claims is enabled and due when it is claimed.
THEOREM ClaimedOnce == Spec => ClaimsAreDue
<1>1. ASSUME SInv, Next, NEW j \in Jobs, Claimed(j) PROVE j \in DueJobs
  <2>1. PICK r \in leases' \ leases : runs'[r].timed /\ runs'[r].job = j
    BY <1>1 DEF Claimed
  <2>2. CASE \E t \in Ticks, i \in Jobs, q \in Runs : TickClaim(t, i, q)
    <3>1. PICK t \in Ticks, i \in Jobs, q \in Runs : TickClaim(t, i, q)
      BY <2>2
    <3>2. i \in ticks[t].due /\ Kept(i) /\ jobs[i].enabled /\ Enqueue(i, q, TRUE)
      BY <3>1 DEF TickClaim
    <3>3. leases' = leases \cup {q} /\ runs'[q].job = i
      BY <1>1, <3>2, EnqueueType DEF SInv, Bookkeeping
    <3>4. i = j
      BY <2>1, <3>3
    <3> QED
      BY <1>1, <3>2, <3>4 DEF SInv, Bookkeeping, SnapshotsHold, DueJobs
  <2>3. CASE \E i \in Jobs, q \in Runs : RunNow(i, q)
    <3>1. PICK i \in Jobs, q \in Runs : RunNow(i, q)
      BY <2>3
    <3>2. Kept(i) /\ Enqueue(i, q, FALSE)
      BY <3>1 DEF RunNow
    <3>3. leases' = leases \cup {q} /\ runs'[q].timed = FALSE
      BY <1>1, <3>2, EnqueueType DEF SInv, Bookkeeping
    <3> QED
      BY <2>1, <3>3
  <2>4. CASE ~(\E t \in Ticks, i \in Jobs, q \in Runs : TickClaim(t, i, q))
             /\ ~(\E i \in Jobs, q \in Runs : RunNow(i, q))
    <3>1. leases' \subseteq leases
      BY <1>1, <2>4 DEF Next, Scan, CreateJob, UpdateSchedule, EnableJob, DisableJob, DeleteJob,
           Elapse, SetMaster, StartTick, TickSkip, Finish, LeaseExpires, ToolTimeout, Restart, dbVars
    <3> QED
      BY <2>1, <3>1
  <2> QED
    BY <2>2, <2>3, <2>4
<1>2. SInv /\ [Next]_vars => [\A j \in Jobs : Claimed(j) => j \in DueJobs]_vars
  BY <1>1
<1> QED
  BY <1>2, AlwaysSInv, PTL DEF Spec, ClaimsAreDue
=============================================================================
