------------------------- MODULE SessionResumeSafety -------------------------
(***************************************************************************)
(* The safety of SessionResume, for every number of sessions, runs and      *)
(* jobs: an inductive invariant, and the action properties that follow from *)
(* it.                                                                      *)
(***************************************************************************)
EXTENDS SessionResumeProofs

-----------------------------------------------------------------------------
(***************************************************************************)
(* The runs of a session and the two tables.                               *)
(***************************************************************************)
ChatInv == ChatTypeOK /\ OneWorker /\ TablesNameLiveRuns

\* What a run keeps while another one is opened and those of R are aborted.
Bystander(q, R) ==
    /\ runs'[q].phase = runs[q].phase
    /\ runs'[q].session = runs[q].session
    /\ runs'[q].kind = runs[q].kind
    /\ runs'[q].job = runs[q].job
    /\ ~runs'[q].aborted => (~runs[q].aborted /\ q \notin R)

LEMMA OpenStreamRuns ==
    ASSUME ChatTypeOK, NEW s, NEW r \in Runs, OpenStream(s, r)
    PROVE  /\ runs'[r] = NewRun(s, "stream", "starting", NoJob)
           /\ \A q \in Runs : q # r => Bystander(q, {chatRun[s]})
<1> DEFINE A == Aborted({chatRun[s]})
           n == NewRun(s, "stream", "starting", NoJob)
<1>1. /\ A \in [Runs -> Run]
      /\ \A q \in Runs : /\ A[q].phase = runs[q].phase
                         /\ A[q].session = runs[q].session
                         /\ A[q].kind = runs[q].kind
                         /\ A[q].job = runs[q].job
                         /\ runs[q].aborted => A[q].aborted
                         /\ q \in {chatRun[s]} => A[q].aborted
  BY AbortedType DEF ChatTypeOK
<1>2. runs' = [A EXCEPT ![r] = n]
  BY DEF OpenStream
<1> HIDE DEF A, n
<1>3. runs'[r] = n /\ \A q \in Runs : q # r => runs'[q] = A[q]
  BY <1>1, <1>2
<1> QED
  BY <1>1, <1>3 DEF n, Bystander

LEMMA OpenResumeRuns ==
    ASSUME ChatTypeOK, NEW s, NEW r \in Runs, NEW job, OpenResume(s, r, job)
    PROVE  /\ runs'[r] = NewRun(s, "resume", "active", job)
           /\ \A q \in Runs : q # r => Bystander(q, {chatRun[s], engineRun[s]})
<1> DEFINE A == Aborted({chatRun[s], engineRun[s]})
           n == NewRun(s, "resume", "active", job)
<1>1. /\ A \in [Runs -> Run]
      /\ \A q \in Runs : /\ A[q].phase = runs[q].phase
                         /\ A[q].session = runs[q].session
                         /\ A[q].kind = runs[q].kind
                         /\ A[q].job = runs[q].job
                         /\ runs[q].aborted => A[q].aborted
                         /\ q \in {chatRun[s], engineRun[s]} => A[q].aborted
  BY AbortedType DEF ChatTypeOK
<1>2. runs' = [A EXCEPT ![r] = n]
  BY DEF OpenResume
<1> HIDE DEF A, n
<1>3. runs'[r] = n /\ \A q \in Runs : q # r => runs'[q] = A[q]
  BY <1>1, <1>2
<1> QED
  BY <1>1, <1>3 DEF n, Bystander

LEMMA OpenStreamChat ==
    ASSUME ChatInv, NEW s \in Sessions, NEW r \in Runs, OpenStream(s, r)
    PROVE  OneWorker' /\ TablesNameLiveRuns'
<1>1. /\ runs'[r] = NewRun(s, "stream", "starting", NoJob)
      /\ \A q \in Runs : q # r => /\ runs'[q].phase = runs[q].phase
                                  /\ runs'[q].session = runs[q].session
                                  /\ ~runs'[q].aborted => ~runs[q].aborted
  BY OpenStreamRuns DEF ChatInv, Bystander
<1>2. runs'[r].phase = "starting" /\ runs'[r].session = s
  BY <1>1 DEF NewRun
<1>3. /\ ~Live(r)
      /\ \A t \in Sessions : chatRun'[t] = IF t = s THEN r ELSE chatRun[t]
      /\ engineRun' = engineRun /\ alive' = alive
  BY DEF OpenStream, Live, ChatInv, ChatTypeOK
<1>4. /\ ~Working(r)' /\ Live(r)'
      /\ \A q \in Runs : q # r => (Working(q)' => Working(q)) /\ (Live(q)' <=> Live(q))
  BY <1>1, <1>2 DEF Working, Live, Idle
<1>5. OneWorker'
  BY <1>1, <1>3, <1>4 DEF ChatInv, OneWorker
<1>6. TablesNameLiveRuns'
  BY <1>1, <1>2, <1>3, <1>4 DEF ChatInv, ChatTypeOK, TablesNameLiveRuns
<1> QED
  BY <1>5, <1>6

LEMMA OpenDirectChat ==
    ASSUME ChatInv, NEW s \in Sessions, NEW r \in Runs, OpenDirect(s, r)
    PROVE  OneWorker' /\ TablesNameLiveRuns'
<1>1. /\ runs'[r] = NewRun(s, "direct", "starting", NoJob)
      /\ \A q \in Runs : q # r => runs'[q] = runs[q]
  BY DEF OpenDirect, ChatInv, ChatTypeOK
<1>2. OneWorker'
  BY <1>1 DEF OpenDirect, ChatInv, OneWorker, Working, NewRun
<1>3. TablesNameLiveRuns'
  BY <1>1 DEF OpenDirect, ChatInv, ChatTypeOK, TablesNameLiveRuns, Live, Idle, NewRun
<1> QED
  BY <1>2, <1>3

LEMMA OpenResumeChat ==
    ASSUME ChatInv, NEW s \in Sessions, NEW r \in Runs, NEW job, OpenResume(s, r, job)
    PROVE  OneWorker' /\ TablesNameLiveRuns'
<1>1. /\ runs'[r] = NewRun(s, "resume", "active", job)
      /\ \A q \in Runs : q # r => /\ runs'[q].phase = runs[q].phase
                                  /\ runs'[q].session = runs[q].session
                                  /\ ~runs'[q].aborted => (~runs[q].aborted /\ q # engineRun[s])
  BY OpenResumeRuns DEF ChatInv, Bystander
<1>2. runs'[r].phase = "active" /\ runs'[r].session = s
  BY <1>1 DEF NewRun
<1>3. /\ ~Live(r)
      /\ \A t \in Sessions : /\ chatRun'[t] = IF t = s THEN r ELSE chatRun[t]
                             /\ engineRun'[t] = IF t = s THEN r ELSE engineRun[t]
      /\ alive' = alive \cup {s}
  BY DEF OpenResume, Live, ChatInv, ChatTypeOK
<1>4. /\ Live(r)'
      /\ \A q \in Runs : q # r => /\ Working(q)' => (Working(q) /\ q # engineRun[s])
                                  /\ Live(q)' <=> Live(q)
  BY <1>1, <1>2 DEF Working, Live, Idle
<1>5. \A q \in Runs : Working(q) => runs[q].session \in Sessions
  BY DEF Working, ChatInv, ChatTypeOK
<1>6. OneWorker'
  BY <1>1, <1>2, <1>3, <1>4, <1>5 DEF ChatInv, OneWorker
<1>7. TablesNameLiveRuns'
  BY <1>1, <1>2, <1>3, <1>4 DEF ChatInv, ChatTypeOK, TablesNameLiveRuns
<1> QED
  BY <1>6, <1>7

LEMMA EnterRoundsChat ==
    ASSUME ChatInv, NEW r \in Runs, EnterRounds(r)
    PROVE  OneWorker' /\ TablesNameLiveRuns'
<1> DEFINE s == runs[r].session
           A == Aborted({engineRun[s]})
<1>1. s \in Sessions
  BY DEF EnterRounds, ChatInv, ChatTypeOK
<1>2. /\ A \in [Runs -> Run]
      /\ \A q \in Runs : /\ A[q].phase = runs[q].phase
                         /\ A[q].session = runs[q].session
                         /\ runs[q].aborted => A[q].aborted
                         /\ (q = engineRun[s]) => A[q].aborted
  BY AbortedType DEF ChatInv, ChatTypeOK
<1>3. runs' = [A EXCEPT ![r].phase = "active"]
  BY DEF EnterRounds
<1> HIDE DEF A
<1>4. \A q \in Runs : /\ runs'[q].phase = IF q = r THEN "active" ELSE runs[q].phase
                      /\ runs'[q].session = runs[q].session
                      /\ ~runs'[q].aborted => (~runs[q].aborted /\ q # engineRun[s])
  BY <1>2, <1>3 DEF Run
<1>5. runs[r].phase = "starting"
  BY DEF EnterRounds
<1>6. /\ Live(r)
      /\ \A q \in Runs : /\ Working(q)' => (q = r \/ (Working(q) /\ q # engineRun[s]))
                         /\ Live(q)' <=> Live(q)
  BY <1>4, <1>5 DEF Working, Live, Idle
<1>7. /\ \A t \in Sessions : engineRun'[t] = IF t = s THEN r ELSE engineRun[t]
      /\ chatRun' = chatRun /\ alive' = alive \cup {s}
  BY DEF EnterRounds, ChatInv, ChatTypeOK
<1>8. \A q \in Runs : Working(q) => runs[q].session \in Sessions
  BY DEF Working, ChatInv, ChatTypeOK
<1>9. OneWorker'
  BY <1>1, <1>4, <1>6, <1>7, <1>8 DEF ChatInv, OneWorker
<1>10. TablesNameLiveRuns'
  BY <1>1, <1>4, <1>6, <1>7 DEF ChatInv, ChatTypeOK, TablesNameLiveRuns
<1> QED
  BY <1>9, <1>10

LEMMA SaveReplyChat ==
    ASSUME ChatInv, NEW r \in Runs, SaveReply(r)
    PROVE  OneWorker' /\ TablesNameLiveRuns'
<1>1. \A q \in Runs : /\ runs'[q].phase = IF q = r THEN "replying" ELSE runs[q].phase
                      /\ runs'[q].session = runs[q].session
                      /\ runs'[q].aborted = runs[q].aborted
  BY DEF SaveReply, ChatInv, ChatTypeOK, Run
<1> QED
  BY <1>1 DEF SaveReply, ChatInv, ChatTypeOK, OneWorker, TablesNameLiveRuns, Working, Live, Idle

LEMMA SaveStoppedChat ==
    ASSUME ChatInv, NEW r \in Runs, SaveStopped(r)
    PROVE  OneWorker' /\ TablesNameLiveRuns'
<1>1. \A q \in Runs : /\ runs'[q].phase = IF q = r THEN "cancelling" ELSE runs[q].phase
                      /\ runs'[q].session = runs[q].session
                      /\ runs'[q].aborted = runs[q].aborted
  BY DEF SaveStopped, ChatInv, ChatTypeOK, Run
<1>2. runs[r].session \in Sessions
  BY DEF SaveStopped, ChatInv, ChatTypeOK
<1>3. \A t \in Sessions : engineRun'[t] = engineRun[t] \/ (engineRun[t] = r /\ engineRun'[t] = NoRun)
  BY <1>2 DEF SaveStopped, ChatInv, ChatTypeOK
<1>4. \A q \in Runs : Working(q)' => (Working(q) /\ q # r)
  BY <1>1 DEF SaveStopped, Working
<1>5. \A q \in Runs : Live(q)' <=> Live(q)
  BY <1>1 DEF SaveStopped, Live, Idle
<1>6. \A q \in Runs : Working(q) => runs[q].session \in Sessions
  BY DEF Working, ChatInv, ChatTypeOK
<1>7. alive \subseteq alive' /\ chatRun' = chatRun
  BY DEF SaveStopped
<1>8. OneWorker'
  BY <1>1, <1>3, <1>4, <1>6, <1>7 DEF ChatInv, OneWorker
<1>9. TablesNameLiveRuns'
  BY <1>1, <1>3, <1>5, <1>7 DEF ChatInv, ChatTypeOK, TablesNameLiveRuns
<1> QED
  BY <1>8, <1>9

LEMMA LeaveChat ==
    ASSUME ChatInv, NEW r \in Runs, Leave(r), Live(r)
    PROVE  OneWorker' /\ TablesNameLiveRuns'
<1>1. /\ runs'[r] = IdleRun
      /\ \A q \in Runs : q # r => runs'[q] = runs[q]
  BY DEF Leave, ChatInv, ChatTypeOK
<1>2. runs[r].session \in Sessions
  BY DEF Live, Idle, ChatInv, ChatTypeOK
<1>3. \A t \in Sessions :
          /\ engineRun'[t] = IF t = runs[r].session /\ engineRun[t] = r THEN NoRun ELSE engineRun[t]
          /\ chatRun'[t] = IF t = runs[r].session /\ chatRun[t] = r THEN NoRun ELSE chatRun[t]
  BY <1>2 DEF Leave, ChatInv, ChatTypeOK
<1>4. OneWorker'
  BY <1>1, <1>3 DEF Leave, ChatInv, ChatTypeOK, OneWorker, Working, IdleRun
<1>5. TablesNameLiveRuns'
  BY <1>1, <1>3 DEF Leave, ChatInv, ChatTypeOK, TablesNameLiveRuns, Live, Idle
<1> QED
  BY <1>4, <1>5

LEMMA AbortRegisteredChat ==
    ASSUME ChatInv, NEW s \in Sessions, AbortRegistered(s)
    PROVE  OneWorker' /\ TablesNameLiveRuns'
<1>1. \A q \in Runs : /\ runs'[q].phase = runs[q].phase
                      /\ runs'[q].session = runs[q].session
                      /\ runs[q].aborted => runs'[q].aborted
  BY AbortedType DEF AbortRegistered, ChatInv, ChatTypeOK
<1>2. \A q \in Runs : /\ Working(q)' => Working(q)
                      /\ Live(q)' <=> Live(q)
  BY <1>1 DEF Working, Live, Idle
<1>3. chatRun' = chatRun /\ engineRun' = engineRun /\ alive' = alive
  BY DEF AbortRegistered
<1> QED
  BY <1>1, <1>2, <1>3 DEF ChatInv, ChatTypeOK, OneWorker, TablesNameLiveRuns

LEMMA DropSessionChat ==
    ASSUME ChatInv, NEW s \in Sessions, DropSession(s)
    PROVE  OneWorker' /\ TablesNameLiveRuns'
<1>1. \A q \in Runs : /\ runs'[q].phase = runs[q].phase
                      /\ runs'[q].session = runs[q].session
                      /\ runs[q].aborted => runs'[q].aborted
                      /\ q = engineRun[s] => runs'[q].aborted
  BY AbortedType DEF DropSession, ChatInv, ChatTypeOK
<1>2. \A q \in Runs : /\ Working(q)' => (Working(q) /\ q # engineRun[s])
                      /\ Live(q)' <=> Live(q)
  BY <1>1 DEF Working, Live, Idle
<1>3. /\ \A t \in Sessions : engineRun'[t] = IF t = s THEN NoRun ELSE engineRun[t]
      /\ chatRun' = chatRun /\ alive' = alive \ {s}
  BY DEF DropSession, ChatInv, ChatTypeOK
<1>4. \A q \in Runs : Working(q) => runs[q].session \in Sessions
  BY DEF Working, ChatInv, ChatTypeOK
<1>5. OneWorker'
  BY <1>1, <1>2, <1>3, <1>4 DEF ChatInv, OneWorker
<1>6. TablesNameLiveRuns'
  BY <1>1, <1>2, <1>3 DEF ChatInv, ChatTypeOK, TablesNameLiveRuns
<1> QED
  BY <1>5, <1>6

-----------------------------------------------------------------------------
(***************************************************************************)
(* The whole invariant.  JobInv speaks of the jobs and their trackers only. *)
(***************************************************************************)
JobInv == OwedIsTracked /\ TrackedIsOwed /\ OneTracker /\ JobsInOrder

SafeInv ==
    /\ TypeOK
    /\ OneWorker
    /\ TablesNameLiveRuns
    /\ JobInv
    /\ DeadSessionsHoldNothing
    /\ InFlightIsRunning
    /\ ResumesStartActive

LEMMA SafeInit == Init => SafeInv
<1> SUFFICES ASSUME Init PROVE SafeInv
  OBVIOUS
<1>1. TypeOK
  BY TypeInit
<1>2. OneWorker /\ TablesNameLiveRuns /\ InFlightIsRunning /\ ResumesStartActive
  BY <1>1 DEF Init, ChatInit, OneWorker, TablesNameLiveRuns, InFlightIsRunning,
              ResumesStartActive, Working, IdleRun
<1>3. JobInv
  BY DEF Init, JobInv, OwedIsTracked, TrackedIsOwed, OneTracker, JobsInOrder
<1>4. DeadSessionsHoldNothing
  BY DEF Init, ChatInit, DeadSessionsHoldNothing
<1> QED
  BY <1>1, <1>2, <1>3, <1>4 DEF SafeInv

\* What a step does to the runs and their tables.
ChatAction ==
    \/ \E s \in Sessions, r \in Runs :
           OpenStream(s, r) \/ ("direct" \in UserKinds /\ OpenDirect(s, r))
    \/ \E s \in Sessions, r \in Runs, job \in Jobs \cup {NoJob} :
           ~Busy(s) /\ OpenResume(s, r, job)
    \/ \E r \in Runs :
           EnterRounds(r) \/ SaveReply(r) \/ SaveStopped(r) \/ (Live(r) /\ Leave(r))
    \/ \E s \in Sessions : AbortRegistered(s) \/ DropSession(s)

LEMMA ChatActions == SafeInv /\ [Next]_vars => ChatAction \/ UNCHANGED chatVars
<1> DEFINE Goal == ChatAction \/ UNCHANGED chatVars
<1> SUFFICES ASSUME SafeInv, [Next]_vars PROVE Goal
  OBVIOUS
<1>1. CASE UNCHANGED chatVars
  BY <1>1
<1>2. ASSUME NEW s \in Sessions, NEW j \in Jobs, NEW timers, Enqueue(s, j, timers) PROVE Goal
  BY <1>2 DEF Enqueue, ChatAction
<1>3. ASSUME NEW s \in Sessions, NEW r \in Runs, StartStream(s, r) \/ StartDirect(s, r)
      PROVE  Goal
  BY <1>3 DEF StartStream, StartDirect, ChatAction
<1>4. ASSUME NEW s \in Sessions,
             WakeTimer(s) \/ Stop(s) \/ Disconnect(s) \/ DeleteSession(s)
      PROVE  Goal
  BY <1>4 DEF WakeTimer, Stop, Disconnect, DeleteSession, ChatAction
<1>5. ASSUME NEW r \in Runs, Progress(r) PROVE Goal
  BY <1>5 DEF Progress, RejectStart, Activate, Reply, Finish, Throw, Unwind, Working,
              Live, Idle, ChatAction
<1>6. ASSUME NEW r \in Runs, NEW j \in Jobs, StartFailedJob(r, j) PROVE Goal
  <2>1. runs[r].session \in Sessions
    BY <1>6 DEF StartFailedJob, Working, SafeInv, TypeOK, ChatTypeOK
  <2> QED
    BY <1>2, <1>6, <2>1 DEF StartFailedJob
<1>7. ASSUME NEW j \in Jobs, j \in watches \cup deferred PROVE jobs[j].session \in Sessions
  BY <1>7 DEF SafeInv, JobInv, TrackedIsOwed, JobsInOrder
<1>8. ASSUME NEW j \in Jobs, Detach(j) \/ DeferTimer(j) PROVE Goal
  BY <1>2, <1>7, <1>8 DEF Detach, DeferTimer
<1> QED
  <2>1. CASE UNCHANGED vars
    BY <2>1 DEF vars, chatVars
  <2>2. CASE Next
    <3> HIDE DEF Goal
    <3>1. UNCHANGED chatVars => Goal
      BY DEF Goal
    <3> QED
      BY <1>3, <1>4, <1>5, <1>6, <1>8, <2>2, <3>1
         DEF Next, CancelJob, ScheduleTurnWake, StartJob, EndJob, ClearByJob
  <2> QED
    BY <2>1, <2>2

LEMMA ChatStep == SafeInv /\ [Next]_vars => OneWorker' /\ TablesNameLiveRuns'
<1> SUFFICES ASSUME SafeInv, [Next]_vars PROVE OneWorker' /\ TablesNameLiveRuns'
  OBVIOUS
<1>1. ChatInv
  BY DEF SafeInv, TypeOK, ChatInv
<1>2. CASE UNCHANGED chatVars
  BY <1>1, <1>2 DEF ChatInv, OneWorker, TablesNameLiveRuns, Working, Live, Idle, chatVars
<1>3. CASE ChatAction
  BY <1>1, <1>3, OpenStreamChat, OpenDirectChat, OpenResumeChat, EnterRoundsChat,
     SaveReplyChat, SaveStoppedChat, LeaveChat, AbortRegisteredChat, DropSessionChat
     DEF ChatAction
<1> QED
  BY <1>2, <1>3, ChatActions

-----------------------------------------------------------------------------
(***************************************************************************)
(* The jobs and what tracks them.                                          *)
(***************************************************************************)

\* Clearing the waits of s gives up everything that was owed to it, also when the
\* commands of s are killed right after.
LEMMA ClearWaitsJobs ==
    ASSUME TypeOK, JobInv, NEW s \in Sessions, ClearWaits(s),
           detaching = {}, detaching' = {},
           \A j \in Jobs :
               \/ jobs'[j] = jobs[j]
               \/ j \in JobsOf(s) /\ jobs[j].state = "running"
                  /\ jobs'[j].state = "ended" /\ jobs'[j].session = jobs[j].session
    PROVE  JobInv'
<1> USE DEF JobInv, TypeOK
<1>1. \A j \in Jobs :
          /\ j \in watches' <=> (j \in watches /\ j \notin JobsOf(s))
          /\ j \in deferred' <=> (j \in deferred /\ j \notin JobsOf(s))
          /\ j \in inFlight' <=> (j \in inFlight /\ j \notin JobsOf(s))
          /\ fate'[j] = IF j \in JobsOf(s) /\ fate[j] = "owed" THEN "forgotten" ELSE fate[j]
  BY DEF ClearWaits
<1>2. watches' \subseteq watches /\ deferred' \subseteq deferred /\ inFlight' \subseteq inFlight
  BY DEF ClearWaits
<1>3. JobsInOrder'
  BY <1>1, <1>2 DEF JobsInOrder
<1>4. TrackedIsOwed'
  BY <1>1, <1>2 DEF TrackedIsOwed
<1>5. OneTracker'
  BY <1>2 DEF OneTracker
<1>6. OwedIsTracked'
  BY <1>1 DEF OwedIsTracked
<1> QED
  BY <1>3, <1>4, <1>5, <1>6

\* The bus is asked to resume after job j, which nothing tracks from then on but
\* the bus: the resume is deferred or fired.
LEMMA EnqueueJobs ==
    ASSUME TypeOK, JobInv, NEW s \in alive, NEW j \in Jobs, j \notin inFlight,
           Enqueue(s, j, deferred \ {j}),
           jobs'[j].state = "ended", jobs'[j].session \in Sessions,
           \A k \in Jobs : k # j => jobs'[k] = jobs[k],
           watches' = watches \ {j}, detaching' = detaching \ {j}
    PROVE  JobInv'
<1> USE DEF JobInv, TypeOK
<1>1. CASE Busy(s)
  <2>1. deferred' = deferred \cup {j} /\ inFlight' = inFlight
    BY <1>1 DEF Enqueue
  <2>2. \A k \in Jobs : fate'[k] = IF k = j THEN "owed" ELSE fate[k]
    BY <1>1 DEF Enqueue
  <2>3. JobsInOrder'
    BY <2>1, <2>2 DEF JobsInOrder
  <2>4. OwedIsTracked'
    BY <2>1, <2>2 DEF OwedIsTracked
  <2>5. TrackedIsOwed'
    BY <2>1, <2>2 DEF TrackedIsOwed
  <2>6. OneTracker'
    BY <2>1 DEF OneTracker
  <2> QED
    BY <2>3, <2>4, <2>5, <2>6
<1>2. CASE ~Busy(s)
  <2>1. deferred' = deferred \ {j} /\ inFlight' = inFlight \cup {j}
    BY <1>2 DEF Enqueue
  <2>2. \A k \in Jobs : fate'[k] = IF k = j THEN "delivered" ELSE fate[k]
    BY <1>2 DEF Enqueue
  <2>3. JobsInOrder'
    BY <2>1, <2>2 DEF JobsInOrder
  <2>4. OwedIsTracked'
    BY <2>1, <2>2 DEF OwedIsTracked
  <2>5. TrackedIsOwed'
    BY <2>1, <2>2 DEF TrackedIsOwed
  <2>6. OneTracker'
    BY <2>1 DEF OneTracker
  <2> QED
    BY <2>3, <2>4, <2>5, <2>6
<1> QED
  BY <1>1, <1>2

\* The watch table always has room: a watched job is a running one while no
\* microtask is queued, and the cap on running commands is the smaller one.
LEMMA RoomToWatch ==
    ASSUME TypeOK, JobInv, Quiet, NEW s \in Sessions,
           Cardinality(RunningOf(s)) < MaxJobsInFlight
    PROVE  Cardinality(watches \cap JobsOf(s)) < MaxWatches
<1>1. watches \cap JobsOf(s) \subseteq RunningOf(s)
  BY DEF JobInv, TrackedIsOwed, OwedIsTracked, OneTracker, Quiet, JobsOf, RunningOf, TypeOK
<1>2. IsFiniteSet(RunningOf(s))
  BY ResumeAssumption, FS_Subset DEF RunningOf, JobsOf
<1>3. /\ IsFiniteSet(watches \cap JobsOf(s))
      /\ Cardinality(watches \cap JobsOf(s)) <= Cardinality(RunningOf(s))
  BY <1>1, <1>2, FS_Subset
<1>4. Cardinality(watches \cap JobsOf(s)) \in Nat /\ Cardinality(RunningOf(s)) \in Nat
  BY <1>2, <1>3, FS_CardinalityType
<1> QED
  BY <1>3, <1>4, ResumeAssumption

LEMMA JobStep == SafeInv /\ [Next]_vars => JobInv'
<1> SUFFICES ASSUME SafeInv, [Next]_vars PROVE JobInv'
  OBVIOUS
<1>0. TypeOK /\ JobInv
  BY DEF SafeInv
<1>1. CASE UNCHANGED <<jobs, watches, detaching, deferred, inFlight, fate>>
  BY <1>0, <1>1 DEF JobInv, OwedIsTracked, TrackedIsOwed, OneTracker, JobsInOrder
<1>2. ASSUME NEW s \in Sessions, ClearWaits(s), UNCHANGED <<jobs, detaching>>, Quiet
      PROVE  JobInv'
  BY <1>0, <1>2, ClearWaitsJobs DEF Quiet
<1>3. ASSUME NEW s \in Sessions, DeleteSession(s) PROVE JobInv'
  <2>1. ClearWaits(s) /\ detaching = {} /\ detaching' = {}
    BY <1>3 DEF DeleteSession, Quiet
  <2>2. \A j \in Jobs :
            \/ jobs'[j] = jobs[j]
            \/ j \in JobsOf(s) /\ jobs[j].state = "running"
               /\ jobs'[j].state = "ended" /\ jobs'[j].session = jobs[j].session
    BY <1>0, <1>3 DEF DeleteSession, TypeOK, RunningOf
  <2> QED
    BY <1>0, <2>1, <2>2, ClearWaitsJobs
<1>4. ASSUME NEW j \in Jobs, Quiet, jobs[j].state = "running", MarkTerminal(j),
             UNCHANGED <<watches, deferred, inFlight, fate>>
      PROVE  JobInv'
  <2>1. \A k \in Jobs : jobs'[k].state = IF k = j THEN "ended" ELSE jobs[k].state
    BY <1>0, <1>4 DEF MarkTerminal, TypeOK
  <2>2. \A k \in Jobs : jobs'[k].session = jobs[k].session
    BY <1>0, <1>4 DEF MarkTerminal, TypeOK
  <2>3. detaching' = (IF j \in watches THEN {j} ELSE {}) /\ detaching = {}
    BY <1>4 DEF MarkTerminal, Quiet
  <2> QED
    BY <1>0, <1>4, <2>1, <2>2, <2>3
       DEF TypeOK, JobInv, OwedIsTracked, TrackedIsOwed, OneTracker, JobsInOrder
<1>5. ASSUME NEW r \in Runs, NEW j \in Jobs, StartJob(r, j) PROVE JobInv'
  <2> DEFINE s == runs[r].session
  <2>1. s \in Sessions
    BY <1>0, <1>5 DEF StartJob, Working, TypeOK, ChatTypeOK
  <2>2. watches' = watches \cup {j}
    BY <1>0, <1>5, <2>1, RoomToWatch DEF StartJob, Attach
  <2>3. \A k \in Jobs :
            /\ jobs'[k] = IF k = j THEN [state |-> "running", session |-> s] ELSE jobs[k]
            /\ fate'[k] = IF k = j THEN "owed" ELSE fate[k]
    BY <1>0, <1>5 DEF StartJob, TypeOK
  <2>4. UNCHANGED <<detaching, deferred, inFlight>> /\ jobs[j].state = "unborn"
    BY <1>5 DEF StartJob, busVars
  <2>5. fate[j] = "none"
    BY <1>0, <2>4 DEF JobInv, JobsInOrder
  <2> HIDE DEF s
  <2> QED
    BY <1>0, <2>1, <2>2, <2>3, <2>4, <2>5
       DEF TypeOK, JobInv, OwedIsTracked, TrackedIsOwed, OneTracker, JobsInOrder
<1>6. ASSUME NEW r \in Runs, NEW j \in Jobs, StartFailedJob(r, j) PROVE JobInv'
  <2>1. runs[r].session \in alive
    BY <1>6 DEF StartFailedJob, SafeInv, OneWorker
  <2>2. runs[r].session \in Sessions
    BY <1>0, <2>1 DEF TypeOK, ChatTypeOK
  <2>3. fate[j] = "none"
    BY <1>0, <1>6 DEF StartFailedJob, JobInv, JobsInOrder
  <2>4. j \notin watches /\ j \notin deferred /\ j \notin inFlight /\ j \notin detaching
    BY <1>0, <1>6, <2>3 DEF StartFailedJob, JobInv, TrackedIsOwed, JobsInOrder
  <2>5. \A k \in Jobs : jobs'[k] = IF k = j THEN [state |-> "ended", session |-> runs[r].session]
                                   ELSE jobs[k]
    BY <1>0, <1>6 DEF StartFailedJob, TypeOK
  <2>6. deferred \ {j} = deferred /\ watches' = watches \ {j} /\ detaching' = detaching \ {j}
    BY <1>6, <2>4 DEF StartFailedJob
  <2>7. Enqueue(runs[r].session, j, deferred \ {j})
    BY <1>6, <2>6 DEF StartFailedJob
  <2> QED
    BY <1>0, <2>1, <2>2, <2>4, <2>5, <2>6, <2>7, EnqueueJobs
<1>7. ASSUME NEW j \in Jobs, j \in watches \cup deferred
      PROVE  jobs[j].session \in alive /\ jobs[j].session \in Sessions /\ j \notin inFlight
  <2>1. jobs[j].session \in Sessions /\ j \notin inFlight
    BY <1>0, <1>7 DEF JobInv, TrackedIsOwed, JobsInOrder, OneTracker
  <2> QED
    BY <1>7, <2>1 DEF SafeInv, DeadSessionsHoldNothing, JobsOf
<1>8. ASSUME NEW j \in Jobs, Detach(j) PROVE JobInv'
  <2>1. CASE j \in watches
    <3>1. deferred \ {j} = deferred
      BY <1>0, <2>1 DEF JobInv, OneTracker
    <3>2. jobs[j].state = "ended"
      BY <1>0, <1>8 DEF Detach, JobInv, JobsInOrder
    <3>3. /\ Enqueue(jobs[j].session, j, deferred \ {j})
          /\ jobs' = jobs /\ watches' = watches \ {j} /\ detaching' = detaching \ {j}
      BY <1>8, <2>1, <3>1 DEF Detach
    <3> QED
      BY <1>0, <1>7, <2>1, <3>2, <3>3, EnqueueJobs
  <2>2. CASE j \notin watches
    BY <1>0, <1>8, <2>2
       DEF Detach, busVars, JobInv, OwedIsTracked, TrackedIsOwed, OneTracker, JobsInOrder
  <2> QED
    BY <2>1, <2>2
<1>9. ASSUME NEW j \in Jobs, ClearByJob(j) PROVE JobInv'
  <2>1. \A k \in Jobs : fate'[k] = IF k = j /\ j \in watches THEN "forgotten" ELSE fate[k]
    BY <1>0, <1>9 DEF ClearByJob, TypeOK
  <2>2. watches' = watches \ {j} /\ UNCHANGED <<jobs, detaching, deferred, inFlight>>
    BY <1>9 DEF ClearByJob, busVars
  <2> QED
    BY <1>0, <2>1, <2>2
       DEF TypeOK, JobInv, OwedIsTracked, TrackedIsOwed, OneTracker, JobsInOrder
<1>10. ASSUME NEW j \in Jobs, DeferTimer(j) PROVE JobInv'
  <2>1. j \in deferred /\ Enqueue(jobs[j].session, j, deferred \ {j})
    BY <1>10 DEF DeferTimer
  <2>2. UNCHANGED <<jobs, watches, detaching>> /\ detaching = {}
    BY <1>10 DEF DeferTimer, jobVars, Quiet
  <2>3. watches' = watches \ {j} /\ detaching' = detaching \ {j}
    BY <1>0, <2>1, <2>2 DEF JobInv, OneTracker
  <2>4. jobs[j].state = "ended"
    BY <1>0, <2>1 DEF JobInv, OwedIsTracked, TrackedIsOwed, OneTracker
  <2> QED
    BY <1>0, <1>7, <2>1, <2>2, <2>3, <2>4, EnqueueJobs
<1>11. ASSUME NEW r \in Runs, Finish(r) \/ Throw(r) PROVE JobInv'
  BY <1>0, <1>11 DEF Finish, Throw, jobVars, JobInv, OwedIsTracked, TrackedIsOwed,
                     OneTracker, JobsInOrder
<1>12. ASSUME NEW r \in Runs, Unwind(r) PROVE JobInv'
  <2>1. runs[r].session \in Sessions
    BY <1>0, <1>12 DEF Unwind, SaveStopped, TypeOK, ChatTypeOK
  <2> QED
    BY <1>2, <1>12, <2>1 DEF Unwind
<1> QED
  <2>1. CASE UNCHANGED vars
    BY <1>1, <2>1 DEF vars
  <2>2. ASSUME NEW s \in Sessions, NEW r \in Runs, StartStream(s, r) \/ StartDirect(s, r)
        PROVE  JobInv'
    BY <1>2, <2>2 DEF StartStream, StartDirect
  <2>3. ASSUME NEW s \in Sessions, NEW j \in Jobs, CancelJob(s, j) PROVE JobInv'
    BY <1>4, <2>3 DEF CancelJob, busVars
  <2>4. ASSUME NEW s \in Sessions, WakeTimer(s) \/ Stop(s) \/ Disconnect(s) PROVE JobInv'
    BY <1>1, <1>2, <2>4 DEF WakeTimer, Stop, Disconnect, jobVars, busVars
  <2>5. ASSUME NEW r \in Runs, RejectStart(r) \/ Activate(r) \/ Reply(r) \/ ScheduleTurnWake(r)
        PROVE  JobInv'
    BY <1>1, <2>5 DEF RejectStart, Activate, Reply, ScheduleTurnWake, jobVars, busVars
  <2>6. ASSUME NEW j \in Jobs, EndJob(j) PROVE JobInv'
    BY <1>4, <2>6 DEF EndJob, busVars
  <2> QED
    BY <1>3, <1>5, <1>6, <1>8, <1>9, <1>10, <1>11, <1>12,
       <2>1, <2>2, <2>3, <2>4, <2>5, <2>6 DEF Next, Progress

-----------------------------------------------------------------------------
(***************************************************************************)
(* Deleted sessions.                                                       *)
(***************************************************************************)

\* A session that stays dead gets nothing.
LEMMA DeadStays ==
    ASSUME DeadSessionsHoldNothing,
           \A t \in Sessions \ alive' :
               /\ t \notin alive
               /\ wakes'[t] = wakes[t] \/ wakes'[t] = 0
               /\ engineRun'[t] = engineRun[t] \/ engineRun'[t] = NoRun
               /\ \A j \in Jobs : jobs'[j].session = t =>
                      /\ jobs[j].session = t
                      /\ jobs'[j].state = "running" => jobs[j].state = "running"
                      /\ j \in watches' => j \in watches
                      /\ j \in deferred' => j \in deferred
                      /\ j \in inFlight' => j \in inFlight
    PROVE  DeadSessionsHoldNothing'
BY DEF DeadSessionsHoldNothing, RunningOf, JobsOf

LEMMA EnqueueDead ==
    ASSUME ChatTypeOK, DeadSessionsHoldNothing, NEW s \in alive, NEW j \in Jobs, NEW timers,
           Enqueue(s, j, timers), timers \subseteq deferred, jobs'[j].session = s,
           \A k \in Jobs : k # j => jobs'[k] = jobs[k],
           watches' \subseteq watches, wakes' = wakes
    PROVE  DeadSessionsHoldNothing'
<1>1. /\ alive \subseteq alive' /\ s \in Sessions
      /\ \A t \in Sessions : t # s => engineRun'[t] = engineRun[t]
  <2>1. CASE UNCHANGED chatVars
    BY <2>1 DEF chatVars, ChatTypeOK
  <2>2. CASE \E r \in Runs : OpenResume(s, r, j)
    BY <2>2 DEF OpenResume, ChatTypeOK
  <2> QED
    BY <2>1, <2>2 DEF Enqueue
<1>2. deferred' \subseteq deferred \cup {j} /\ inFlight' \subseteq inFlight \cup {j}
  BY DEF Enqueue
<1> QED
  BY <1>1, <1>2, DeadStays

LEMMA DeadStep == SafeInv /\ [Next]_vars => DeadSessionsHoldNothing'
<1> SUFFICES ASSUME SafeInv, [Next]_vars PROVE DeadSessionsHoldNothing'
  OBVIOUS
<1>0. TypeOK /\ ChatTypeOK /\ DeadSessionsHoldNothing
  BY DEF SafeInv, TypeOK
<1>1. CASE UNCHANGED <<alive, engineRun, jobs, watches, deferred, inFlight, wakes>>
  BY <1>0, <1>1, DeadStays
<1>2. ASSUME NEW s \in Sessions, ClearWaits(s), ClearTurnWakes(s)
      PROVE  /\ \A t \in Sessions : wakes'[t] = wakes[t] \/ wakes'[t] = 0
             /\ watches' \subseteq watches /\ deferred' \subseteq deferred
             /\ inFlight' \subseteq inFlight
  BY <1>0, <1>2 DEF ClearWaits, ClearTurnWakes, TypeOK
<1>3. ASSUME NEW s \in Sessions, NEW r \in Runs, StartStream(s, r) \/ StartDirect(s, r)
      PROVE  DeadSessionsHoldNothing'
  BY <1>0, <1>2, <1>3, DeadStays DEF StartStream, StartDirect, OpenStream, OpenDirect
<1>4. ASSUME NEW s \in Sessions, NEW j \in Jobs, CancelJob(s, j) PROVE DeadSessionsHoldNothing'
  BY <1>0, <1>4, DeadStays DEF CancelJob, MarkTerminal, TypeOK, chatVars, busVars
<1>5. ASSUME NEW j \in Jobs, EndJob(j) PROVE DeadSessionsHoldNothing'
  BY <1>0, <1>5, DeadStays DEF EndJob, MarkTerminal, TypeOK, chatVars, busVars
<1>6. ASSUME NEW s \in Sessions, WakeTimer(s) PROVE DeadSessionsHoldNothing'
  <2>1. s \notin alive => wakes[s] = 0
    BY <1>0 DEF DeadSessionsHoldNothing
  <2>2. s \in alive
    BY <1>6, <2>1, 0 \in Nat DEF WakeTimer
  <2>3. \A t \in Sessions : t # s => wakes'[t] = wakes[t]
    BY <1>0, <1>6 DEF WakeTimer, TypeOK
  <2>4. /\ alive \subseteq alive'
        /\ \A t \in Sessions : t # s => engineRun'[t] = engineRun[t]
    BY <1>0, <1>6 DEF WakeTimer, OpenResume, ChatTypeOK, chatVars
  <2>5. UNCHANGED <<jobs, watches, deferred, inFlight>>
    BY <1>6 DEF WakeTimer, jobVars, busVars
  <2> QED
    BY <1>0, <2>2, <2>3, <2>4, <2>5, DeadStays
<1>7. ASSUME NEW s \in Sessions, Stop(s) \/ Disconnect(s) PROVE DeadSessionsHoldNothing'
  <2>1. CASE Stop(s)
    BY <1>0, <1>2, <2>1, DeadStays DEF Stop, AbortRegistered
  <2>2. CASE Disconnect(s)
    BY <1>1, <2>2 DEF Disconnect, AbortRegistered, jobVars, busVars
  <2> QED
    BY <1>7, <2>1, <2>2
<1>8. ASSUME NEW s \in Sessions, DeleteSession(s) PROVE DeadSessionsHoldNothing'
  <2>1. /\ alive' = alive \ {s}
        /\ \A t \in Sessions : engineRun'[t] = IF t = s THEN NoRun ELSE engineRun[t]
        /\ \A t \in Sessions : wakes'[t] = IF t = s THEN 0 ELSE wakes[t]
    BY <1>0, <1>8 DEF DeleteSession, DropSession, ClearTurnWakes, TypeOK, ChatTypeOK
  <2>2. \A j \in Jobs : /\ jobs'[j].session = jobs[j].session
                        /\ jobs'[j].state = IF j \in RunningOf(s) THEN "ended" ELSE jobs[j].state
    BY <1>0, <1>8 DEF DeleteSession, TypeOK
  <2>3. /\ watches' = watches \ JobsOf(s)
        /\ deferred' = deferred \ JobsOf(s)
        /\ inFlight' = inFlight \ JobsOf(s)
    BY <1>8 DEF DeleteSession, ClearWaits
  <2>4. ASSUME NEW t \in Sessions \ alive'
        PROVE  /\ wakes'[t] = 0 /\ engineRun'[t] = NoRun
               /\ RunningOf(t)' = {}
               /\ JobsOf(t)' \cap (watches' \cup deferred' \cup inFlight') = {}
    <3>1. CASE t = s
      BY <2>1, <2>2, <2>3, <3>1 DEF RunningOf, JobsOf
    <3>2. CASE t # s
      BY <1>0, <2>1, <2>2, <2>3, <2>4, <3>2 DEF DeadSessionsHoldNothing, RunningOf, JobsOf
    <3> QED
      BY <3>1, <3>2
  <2> QED
    BY <2>4 DEF DeadSessionsHoldNothing
<1>9. ASSUME NEW r \in Runs, Progress(r) PROVE DeadSessionsHoldNothing'
  <2>1. CASE RejectStart(r) \/ Finish(r) \/ Throw(r)
    <3>1. \A t \in Sessions : engineRun'[t] = engineRun[t] \/ engineRun'[t] = NoRun
      BY <1>0, <2>1 DEF RejectStart, Finish, Throw, Leave, ChatTypeOK
    <3> QED
      BY <1>0, <2>1, <3>1, DeadStays
         DEF RejectStart, Finish, Throw, Leave, jobVars, busVars
  <2>2. CASE Activate(r)
    <3>1. /\ alive' = alive \cup {runs[r].session}
          /\ \A t \in Sessions : t # runs[r].session => engineRun'[t] = engineRun[t]
      BY <1>0, <2>2 DEF Activate, EnterRounds, ChatTypeOK
    <3>2. UNCHANGED <<jobs, watches, deferred, inFlight, wakes>>
      BY <2>2 DEF Activate, jobVars, busVars
    <3> QED
      BY <1>0, <3>1, <3>2, DeadStays
  <2>3. CASE Reply(r)
    BY <1>0, <2>3, DeadStays DEF Reply, SaveReply, jobVars, busVars
  <2>4. CASE Unwind(r)
    <3>1. runs[r].session \in Sessions
      BY <1>0, <2>4 DEF Unwind, SaveStopped, ChatTypeOK
    <3>2. /\ alive' = alive \cup {runs[r].session}
          /\ \A t \in Sessions : engineRun'[t] = engineRun[t] \/ engineRun'[t] = NoRun
      BY <1>0, <2>4 DEF Unwind, SaveStopped, ChatTypeOK
    <3> QED
      BY <1>0, <1>2, <2>4, <3>1, <3>2, DeadStays DEF Unwind
  <2> QED
    BY <1>9, <2>1, <2>2, <2>3, <2>4 DEF Progress
<1>10. ASSUME NEW r \in Runs, ScheduleTurnWake(r) PROVE DeadSessionsHoldNothing'
  <2>1. \A t \in Sessions : t # runs[r].session => wakes'[t] = wakes[t]
    BY <1>0, <1>10 DEF ScheduleTurnWake, TypeOK
  <2> QED
    BY <1>0, <1>10, <2>1, DeadStays DEF ScheduleTurnWake, chatVars, jobVars, busVars
<1>11. ASSUME NEW r \in Runs, Working(r) PROVE runs[r].session \in alive
  BY <1>11 DEF SafeInv, OneWorker
<1>12. ASSUME NEW r \in Runs, NEW j \in Jobs, StartJob(r, j) PROVE DeadSessionsHoldNothing'
  <2>1. runs[r].session \in alive
    BY <1>11, <1>12 DEF StartJob
  <2>2. \A k \in Jobs :
            jobs'[k] = IF k = j THEN [state |-> "running", session |-> runs[r].session]
                       ELSE jobs[k]
    BY <1>0, <1>12 DEF StartJob, TypeOK
  <2>3. watches' \subseteq watches \cup {j}
    BY <1>12 DEF StartJob, Attach
  <2>4. UNCHANGED <<alive, engineRun, deferred, inFlight, wakes>>
    BY <1>12 DEF StartJob, chatVars, busVars
  <2> QED
    BY <1>0, <2>1, <2>2, <2>3, <2>4, DeadStays
<1>13. ASSUME NEW r \in Runs, NEW j \in Jobs, StartFailedJob(r, j)
       PROVE  DeadSessionsHoldNothing'
  <2>1. runs[r].session \in alive
    BY <1>11, <1>13 DEF StartFailedJob
  <2>2. \A k \in Jobs :
            jobs'[k] = IF k = j THEN [state |-> "ended", session |-> runs[r].session]
                       ELSE jobs[k]
    BY <1>0, <1>13 DEF StartFailedJob, TypeOK
  <2> QED
    BY <1>0, <1>13, <2>1, <2>2, EnqueueDead DEF StartFailedJob
<1>14. ASSUME NEW j \in Jobs, j \in watches \cup deferred PROVE jobs[j].session \in alive
  BY <1>0, <1>14 DEF SafeInv, JobInv, TrackedIsOwed, JobsInOrder, DeadSessionsHoldNothing, JobsOf
<1>15. ASSUME NEW j \in Jobs, Detach(j) PROVE DeadSessionsHoldNothing'
  <2>1. CASE j \in watches
    <3>1. jobs' = jobs /\ wakes' = wakes /\ watches' \subseteq watches
      BY <1>15, <2>1 DEF Detach
    <3>2. Enqueue(jobs[j].session, j, deferred)
      BY <1>15, <2>1 DEF Detach
    <3> QED
      BY <1>0, <1>14, <2>1, <3>1, <3>2, EnqueueDead
  <2>2. CASE j \notin watches
    BY <1>1, <1>15, <2>2 DEF Detach, chatVars, busVars
  <2> QED
    BY <2>1, <2>2
<1>16. ASSUME NEW j \in Jobs, ClearByJob(j) PROVE DeadSessionsHoldNothing'
  BY <1>0, <1>16, DeadStays DEF ClearByJob, chatVars, busVars
<1>17. ASSUME NEW j \in Jobs, DeferTimer(j) PROVE DeadSessionsHoldNothing'
  <2>1. /\ j \in deferred /\ Enqueue(jobs[j].session, j, deferred \ {j})
        /\ jobs' = jobs /\ watches' = watches /\ wakes' = wakes
    BY <1>17 DEF DeferTimer, jobVars
  <2> QED
    BY <1>0, <1>14, <2>1, EnqueueDead
<1> QED
  <2>1. CASE UNCHANGED vars
    BY <1>1, <2>1 DEF vars
  <2> QED
    BY <1>3, <1>4, <1>5, <1>6, <1>7, <1>8, <1>9, <1>10, <1>12, <1>13, <1>15, <1>16,
       <1>17, <2>1 DEF Next

-----------------------------------------------------------------------------
(***************************************************************************)
(* The runs that resume after a job.                                       *)
(***************************************************************************)

\* Run q goes on and is started for the same reason.
GoesOn(q) ==
    /\ Live(q) => Live(q)'
    /\ runs'[q].kind = runs[q].kind
    /\ runs'[q].job = runs[q].job
    /\ runs'[q].phase = "starting" => runs[q].phase = "starting"

\* The keys of runs that go on stay justified.
LEMMA GoingOn ==
    ASSUME InFlightIsRunning, ResumesStartActive, inFlight' \subseteq inFlight,
           \A q \in Runs : GoesOn(q)
    PROVE  InFlightIsRunning' /\ ResumesStartActive'
BY DEF InFlightIsRunning, ResumesStartActive, GoesOn, Live

LEMMA AbortedGoOn ==
    ASSUME ChatTypeOK, NEW R, runs' = Aborted(R)
    PROVE  \A q \in Runs : GoesOn(q)
<1>1. \A q \in Runs : /\ runs'[q].phase = runs[q].phase
                      /\ runs'[q].kind = runs[q].kind
                      /\ runs'[q].job = runs[q].job
  BY AbortedType DEF ChatTypeOK
<1> QED
  BY <1>1 DEF GoesOn, Live, Idle

LEMMA OpenResumeKeys ==
    ASSUME ChatTypeOK, InFlightIsRunning, ResumesStartActive,
           NEW s \in Sessions, NEW r \in Runs, NEW job, OpenResume(s, r, job),
           inFlight' \subseteq inFlight \cup {job}
    PROVE  InFlightIsRunning' /\ ResumesStartActive'
<1>1. /\ runs'[r] = NewRun(s, "resume", "active", job)
      /\ \A q \in Runs : q # r => GoesOn(q)
  BY OpenResumeRuns DEF Bystander, GoesOn, Live, Idle
<1>2. Live(r)' /\ runs'[r].phase # "starting" /\ runs'[r].kind = "resume" /\ runs'[r].job = job
  BY <1>1 DEF NewRun, Live, Idle
<1>3. ~Live(r)
  BY DEF OpenResume, Live
<1>4. InFlightIsRunning'
  <2> SUFFICES ASSUME NEW j \in inFlight'
               PROVE  \E q \in Runs : Live(q)' /\ runs'[q].kind = "resume" /\ runs'[q].job = j
    BY DEF InFlightIsRunning
  <2>1. CASE j = job
    BY <1>2, <2>1
  <2>2. CASE j \in inFlight
    <3>1. PICK q \in Runs : Live(q) /\ runs[q].kind = "resume" /\ runs[q].job = j
      BY <2>2 DEF InFlightIsRunning
    <3> QED
      BY <1>1, <1>3, <3>1 DEF GoesOn
  <2> QED
    BY <2>1, <2>2
<1>5. ResumesStartActive'
  BY <1>1, <1>2 DEF ResumesStartActive, GoesOn
<1> QED
  BY <1>4, <1>5

LEMMA LeaveKeys ==
    ASSUME ChatTypeOK, InFlightIsRunning, ResumesStartActive, NEW r \in Runs, Leave(r),
           inFlight' \subseteq inFlight,
           runs[r].kind # "resume" \/ runs[r].job \notin inFlight'
    PROVE  InFlightIsRunning' /\ ResumesStartActive'
<1>1. /\ runs'[r] = IdleRun
      /\ \A q \in Runs : q # r => runs'[q] = runs[q]
  BY DEF Leave, ChatTypeOK
<1>2. InFlightIsRunning'
  <2> SUFFICES ASSUME NEW j \in inFlight'
               PROVE  \E q \in Runs : Live(q)' /\ runs'[q].kind = "resume" /\ runs'[q].job = j
    BY DEF InFlightIsRunning
  <2>1. PICK q \in Runs : Live(q) /\ runs[q].kind = "resume" /\ runs[q].job = j
    BY DEF InFlightIsRunning
  <2> QED
    BY <1>1, <2>1 DEF Live, Idle
<1>3. ResumesStartActive'
  BY <1>1 DEF ResumesStartActive, IdleRun
<1> QED
  BY <1>2, <1>3

LEMMA EnqueueKeys ==
    ASSUME ChatTypeOK, InFlightIsRunning, ResumesStartActive, NEW s \in Sessions,
           NEW j \in Jobs, NEW timers, Enqueue(s, j, timers)
    PROVE  InFlightIsRunning' /\ ResumesStartActive'
<1>1. CASE UNCHANGED <<chatVars, inFlight>>
  BY <1>1 DEF chatVars, InFlightIsRunning, ResumesStartActive, Live, Idle
<1>2. CASE /\ inFlight' = inFlight \cup {j}
           /\ \E r \in Runs : OpenResume(s, r, j)
  BY <1>2, OpenResumeKeys
<1> QED
  BY <1>1, <1>2 DEF Enqueue

LEMMA RunStep == SafeInv /\ [Next]_vars => InFlightIsRunning' /\ ResumesStartActive'
<1> DEFINE Goal == InFlightIsRunning' /\ ResumesStartActive'
<1> SUFFICES ASSUME SafeInv, [Next]_vars PROVE Goal
  OBVIOUS
<1>0. ChatTypeOK /\ InFlightIsRunning /\ ResumesStartActive
  BY DEF SafeInv, TypeOK
<1>1. ASSUME UNCHANGED chatVars, inFlight' \subseteq inFlight PROVE Goal
  BY <1>0, <1>1 DEF chatVars, InFlightIsRunning, ResumesStartActive, Live, Idle
<1>2. ASSUME NEW s \in Sessions, ClearWaits(s) PROVE inFlight' \subseteq inFlight
  BY <1>2 DEF ClearWaits
<1>3. ASSUME NEW s \in Sessions, NEW r \in Runs, StartStream(s, r) PROVE Goal
  <2>1. /\ runs'[r] = NewRun(s, "stream", "starting", NoJob)
        /\ \A q \in Runs : q # r => GoesOn(q)
    BY <1>0, <1>3, OpenStreamRuns DEF StartStream, Bystander, GoesOn, Live, Idle
  <2>2. runs'[r].phase = "starting" /\ runs'[r].kind = "stream" /\ ~Live(r)
    BY <1>3, <2>1 DEF StartStream, OpenStream, NewRun, Live
  <2>3. inFlight' \subseteq inFlight
    BY <1>2, <1>3 DEF StartStream
  <2> QED
    BY <1>0, <2>1, <2>2, <2>3 DEF InFlightIsRunning, ResumesStartActive, GoesOn
<1>4. ASSUME NEW s \in Sessions, NEW r \in Runs, StartDirect(s, r) PROVE Goal
  <2>1. /\ runs'[r] = NewRun(s, "direct", "starting", NoJob)
        /\ \A q \in Runs : q # r => runs'[q] = runs[q]
    BY <1>0, <1>4 DEF StartDirect, OpenDirect, ChatTypeOK
  <2>2. runs'[r].kind = "direct" /\ ~Live(r)
    BY <1>4, <2>1 DEF StartDirect, OpenDirect, NewRun, Live
  <2>3. inFlight' \subseteq inFlight
    BY <1>2, <1>4 DEF StartDirect
  <2> QED
    BY <1>0, <2>1, <2>2, <2>3 DEF InFlightIsRunning, ResumesStartActive, Live, Idle
<1>5. ASSUME NEW s \in Sessions, WakeTimer(s) PROVE Goal
  <2>1. inFlight' = inFlight
    BY <1>5 DEF WakeTimer, busVars
  <2> QED
    BY <1>0, <1>1, <1>5, <2>1, OpenResumeKeys DEF WakeTimer
<1>6. ASSUME NEW s \in Sessions, Stop(s) \/ Disconnect(s) \/ DeleteSession(s) PROVE Goal
  <2>1. inFlight' \subseteq inFlight
    BY <1>2, <1>6 DEF Stop, Disconnect, DeleteSession, busVars
  <2>2. \A q \in Runs : GoesOn(q)
    BY <1>0, <1>6, AbortedGoOn
       DEF Stop, Disconnect, DeleteSession, AbortRegistered, DropSession
  <2> QED
    BY <1>0, <2>1, <2>2, GoingOn
<1>7. ASSUME NEW r \in Runs, Progress(r) PROVE Goal
  <2>1. CASE RejectStart(r)
    <3>1. runs[r].kind # "resume" /\ inFlight' = inFlight
      BY <1>0, <2>1 DEF RejectStart, ResumesStartActive, busVars
    <3> QED
      BY <1>0, <2>1, <3>1, LeaveKeys DEF RejectStart
  <2>2. CASE Finish(r) \/ Throw(r)
    BY <1>0, <2>2, LeaveKeys DEF Finish, Throw
  <2>3. CASE Activate(r)
    <3> DEFINE A == Aborted({engineRun[runs[r].session]})
    <3>1. /\ A \in [Runs -> Run]
          /\ \A q \in Runs : /\ A[q].phase = runs[q].phase
                             /\ A[q].kind = runs[q].kind
                             /\ A[q].job = runs[q].job
      BY <1>0, AbortedType DEF ChatTypeOK
    <3>2. runs' = [A EXCEPT ![r].phase = "active"] /\ inFlight' = inFlight
      BY <2>3 DEF Activate, EnterRounds, busVars
    <3> HIDE DEF A
    <3>3. \A q \in Runs : /\ runs'[q].phase = IF q = r THEN "active" ELSE runs[q].phase
                          /\ runs'[q].kind = runs[q].kind
                          /\ runs'[q].job = runs[q].job
      BY <3>1, <3>2 DEF Run
    <3>4. \A q \in Runs : GoesOn(q)
      BY <3>3 DEF GoesOn, Live, Idle
    <3> QED
      BY <1>0, <3>2, <3>4, GoingOn
  <2>4. CASE Reply(r) \/ Unwind(r)
    <3>1. \A q \in Runs : /\ runs'[q].phase \in {"replying", "cancelling"}
                             \/ runs'[q].phase = runs[q].phase
                          /\ runs'[q].kind = runs[q].kind
                          /\ runs'[q].job = runs[q].job
      BY <1>0, <2>4 DEF Reply, Unwind, SaveReply, SaveStopped, ChatTypeOK, Run
    <3>2. \A q \in Runs : GoesOn(q)
      BY <3>1 DEF GoesOn, Live, Idle
    <3>3. inFlight' \subseteq inFlight
      BY <2>4 DEF Reply, Unwind, ClearWaits, busVars
    <3> QED
      BY <1>0, <3>2, <3>3, GoingOn
  <2> QED
    BY <1>7, <2>1, <2>2, <2>3, <2>4 DEF Progress
<1>8. ASSUME NEW r \in Runs, NEW j \in Jobs, StartFailedJob(r, j) PROVE Goal
  <2>1. runs[r].session \in Sessions
    BY <1>0, <1>8 DEF StartFailedJob, Working, ChatTypeOK
  <2> QED
    BY <1>0, <1>8, <2>1, EnqueueKeys DEF StartFailedJob
<1>9. ASSUME NEW j \in Jobs, j \in watches \cup deferred PROVE jobs[j].session \in Sessions
  BY <1>9 DEF SafeInv, JobInv, TrackedIsOwed, JobsInOrder
<1>10. ASSUME NEW j \in Jobs, Detach(j) PROVE Goal
  <2>1. CASE j \in watches
    BY <1>0, <1>9, <1>10, <2>1, EnqueueKeys DEF Detach
  <2>2. CASE j \notin watches
    BY <1>1, <1>10, <2>2 DEF Detach, busVars
  <2> QED
    BY <2>1, <2>2
<1>11. ASSUME NEW j \in Jobs, DeferTimer(j) PROVE Goal
  BY <1>0, <1>9, <1>11, EnqueueKeys DEF DeferTimer
<1> QED
  <2>1. CASE UNCHANGED vars
    BY <1>1, <2>1 DEF vars, chatVars
  <2>2. ASSUME NEW s \in Sessions, NEW j \in Jobs, CancelJob(s, j) PROVE Goal
    BY <1>1, <2>2 DEF CancelJob, busVars
  <2>3. ASSUME NEW r \in Runs, NEW j \in Jobs, StartJob(r, j) PROVE Goal
    BY <1>1, <2>3 DEF StartJob, busVars
  <2>4. ASSUME NEW r \in Runs, ScheduleTurnWake(r) PROVE Goal
    BY <1>1, <2>4 DEF ScheduleTurnWake, busVars
  <2>5. ASSUME NEW j \in Jobs, EndJob(j) \/ ClearByJob(j) PROVE Goal
    BY <1>1, <2>5 DEF EndJob, ClearByJob, busVars
  <2> HIDE DEF Goal
  <2> QED
    BY <1>3, <1>4, <1>5, <1>6, <1>7, <1>8, <1>10, <1>11, <2>1, <2>2, <2>3, <2>4, <2>5 DEF Next

-----------------------------------------------------------------------------
(***************************************************************************)
(* Theorems.                                                               *)
(***************************************************************************)

LEMMA SafeStep == SafeInv /\ [Next]_vars => SafeInv'
<1>1. SafeInv /\ [Next]_vars => TypeOK'
  BY TypeStep DEF SafeInv
<1> QED
  BY <1>1, ChatStep, JobStep, DeadStep, RunStep DEF SafeInv

LEMMA SafeAlways == Spec => []SafeInv
BY SafeInit, SafeStep, PTL DEF Spec

\* A command whose end is owed to its session is watched, or its defer timer is armed
\* (watch-registry.ts, resume-bus.ts).
THEOREM PromiseKept == Spec => []OwedIsTracked
<1>1. SafeInv => OwedIsTracked
  BY DEF SafeInv, JobInv
<1> QED
  BY <1>1, SafeAlways, PTL

\* No watch or timer outlives the resume it was for, a Stop or a deletion.
THEOREM TrackersAreNeeded == Spec => []TrackedIsOwed
<1>1. SafeInv => TrackedIsOwed
  BY DEF SafeInv, JobInv
<1> QED
  BY <1>1, SafeAlways, PTL

\* A job waits in one place: its watch, its timer or its running resume.
THEOREM TrackedOnce == Spec => []OneTracker
<1>1. SafeInv => OneTracker
  BY DEF SafeInv, JobInv
<1> QED
  BY <1>1, SafeAlways, PTL

\* One run at a time works on a session, and the engine's table names it (engine.ts).
THEOREM OneWorkerPerSession == Spec => []OneWorker
<1>1. SafeInv => OneWorker
  BY DEF SafeInv
<1> QED
  BY <1>1, SafeAlways, PTL

\* The two tables that know of runs name only live runs of their session (engine.ts,
\* session-chat-runs.ts).
THEOREM TablesAreCurrent == Spec => []TablesNameLiveRuns
<1>1. SafeInv => TablesNameLiveRuns
  BY DEF SafeInv
<1> QED
  BY <1>1, SafeAlways, PTL

\* A deleted session holds no timer, watch or running command.
THEOREM NothingLeftBehind == Spec => []DeadSessionsHoldNothing
<1>1. SafeInv => DeadSessionsHoldNothing
  BY DEF SafeInv
<1> QED
  BY <1>1, SafeAlways, PTL

\* An in-flight key is that of a resume which has not returned.
THEOREM KeysAreFreed == Spec => []InFlightIsRunning
<1>1. SafeInv => InFlightIsRunning
  BY DEF SafeInv
<1> QED
  BY <1>1, SafeAlways, PTL

\* The terminal event of a job follows its terminal snapshot, an in-flight key is that
\* of a resume which was fired, and no resume waits before its rounds.
THEOREM BooksKept == Spec => []Bookkeeping
<1>1. SafeInv => Bookkeeping
  BY DEF SafeInv, JobInv, Bookkeeping
<1> QED
  BY <1>1, SafeAlways, PTL

-----------------------------------------------------------------------------
(***************************************************************************)
(* A job resumes its session at most once.                                 *)
(***************************************************************************)

\* Only three actions open a run that answers for a job.
LEMMA JobOfOpened ==
    ASSUME ChatTypeOK, Next, NEW q \in Runs, Idle(q), Live(q)', runs'[q].job \in Jobs
    PROVE  \E j \in Jobs :
               /\ runs'[q].job = j
               /\ \/ \E r \in Runs : StartFailedJob(r, j)
                  \/ Detach(j) /\ j \in watches
                  \/ DeferTimer(j)
<1>1. ASSUME UNCHANGED chatVars PROVE FALSE
  BY <1>1 DEF chatVars, Live, Idle
<1>2. ASSUME NEW R, runs' = Aborted(R) PROVE FALSE
  BY <1>2, AbortedType DEF ChatTypeOK, Live, Idle
<1>3. ASSUME NEW s, NEW job, NEW r \in Runs, OpenResume(s, r, job) PROVE runs'[q].job = job
  <2>1. /\ runs'[r] = NewRun(s, "resume", "active", job)
        /\ \A p \in Runs : p # r => runs'[p].phase = runs[p].phase
    <3>1. \A p \in Runs : p # r => Bystander(p, {chatRun[s], engineRun[s]})
      BY <1>3, OpenResumeRuns
    <3>2. runs'[r] = NewRun(s, "resume", "active", job)
      BY <1>3, OpenResumeRuns
    <3> QED
      BY <3>1, <3>2 DEF Bystander
  <2>2. q = r
    BY <2>1 DEF Live, Idle
  <2> QED
    BY <2>1, <2>2 DEF NewRun
<1>4. ASSUME NEW s \in Sessions, NEW r \in Runs, StartStream(s, r) \/ StartDirect(s, r)
      PROVE  FALSE
  <2>1. /\ \A p \in Runs : p # r => runs'[p].phase = runs[p].phase
        /\ runs'[r].job = NoJob
    <3>1. CASE StartStream(s, r)
      <4>1. /\ runs'[r] = NewRun(s, "stream", "starting", NoJob)
            /\ \A p \in Runs : p # r => Bystander(p, {chatRun[s]})
        BY <3>1, OpenStreamRuns DEF StartStream
      <4> QED
        BY <4>1 DEF Bystander, NewRun
    <3>2. CASE StartDirect(s, r)
      BY <3>2 DEF StartDirect, OpenDirect, NewRun, ChatTypeOK
    <3> QED
      BY <1>4, <3>1, <3>2
  <2> QED
    BY <2>1, ResumeAssumption DEF Live, Idle
<1>5. ASSUME NEW s \in Sessions,
             Stop(s) \/ Disconnect(s) \/ DeleteSession(s)
      PROVE  FALSE
  BY <1>2, <1>5 DEF Stop, Disconnect, DeleteSession, AbortRegistered, DropSession
<1>6. ASSUME NEW r \in Runs, Progress(r) PROVE FALSE
  <2>1. Live(r)
    BY <1>6 DEF Progress, RejectStart, Activate, Reply, Finish, Throw, Unwind, EnterRounds,
                SaveReply, SaveStopped, Working, Live, Idle
  <2>2. \A p \in Runs : p # r => runs'[p].phase = runs[p].phase
    <3>1. CASE Activate(r)
      <4> DEFINE A == Aborted({engineRun[runs[r].session]})
      <4>1. A \in [Runs -> Run] /\ \A p \in Runs : A[p].phase = runs[p].phase
        BY AbortedType DEF ChatTypeOK
      <4>2. runs' = [A EXCEPT ![r].phase = "active"]
        BY <3>1 DEF Activate, EnterRounds
      <4> HIDE DEF A
      <4> QED
        BY <4>1, <4>2
    <3>2. CASE RejectStart(r) \/ Finish(r) \/ Throw(r)
      BY <3>2 DEF RejectStart, Finish, Throw, Leave, ChatTypeOK
    <3>3. CASE Reply(r) \/ Unwind(r)
      BY <3>3 DEF Reply, Unwind, SaveReply, SaveStopped, ChatTypeOK
    <3> QED
      BY <1>6, <3>1, <3>2, <3>3 DEF Progress
  <2> QED
    BY <2>1, <2>2 DEF Live, Idle
<1>7. ASSUME NEW s \in Sessions, WakeTimer(s) PROVE FALSE
  BY <1>1, <1>3, <1>7, ResumeAssumption DEF WakeTimer
<1>8. ASSUME NEW s, NEW j \in Jobs, NEW timers, Enqueue(s, j, timers) PROVE runs'[q].job = j
  BY <1>1, <1>3, <1>8 DEF Enqueue
<1>9. ASSUME NEW r \in Runs, NEW j \in Jobs, StartFailedJob(r, j) PROVE runs'[q].job = j
  BY <1>8, <1>9 DEF StartFailedJob
<1>10. ASSUME NEW j \in Jobs, Detach(j) PROVE j \in watches /\ runs'[q].job = j
  BY <1>1, <1>8, <1>10 DEF Detach
<1>11. ASSUME NEW j \in Jobs, DeferTimer(j) PROVE runs'[q].job = j
  BY <1>8, <1>11 DEF DeferTimer
<1>12. ASSUME NEW s \in Sessions, NEW j \in Jobs, CancelJob(s, j) PROVE FALSE
  BY <1>1, <1>12 DEF CancelJob
<1>13. ASSUME NEW r \in Runs, ScheduleTurnWake(r) PROVE FALSE
  BY <1>1, <1>13 DEF ScheduleTurnWake
<1>14. ASSUME NEW r \in Runs, NEW j \in Jobs, StartJob(r, j) PROVE FALSE
  BY <1>1, <1>14 DEF StartJob
<1>15. ASSUME NEW j \in Jobs, EndJob(j) \/ ClearByJob(j) PROVE FALSE
  BY <1>1, <1>15 DEF EndJob, ClearByJob
<1> QED
  BY <1>4, <1>5, <1>6, <1>7, <1>9, <1>10, <1>11, <1>12, <1>13, <1>14, <1>15 DEF Next

\* The end of a job resumes its session at most once, and never after the waits of
\* the session were cleared (resume-bus.ts).
THEOREM ResumedOnce == Spec => ResumeAtMostOnce
<1>1. SafeInv /\ [Next]_vars =>
          [\A r \in Runs : (Idle(r) /\ Live(r)' /\ runs'[r].job \in Jobs) =>
              fate[runs'[r].job] \notin {"delivered", "forgotten"}]_vars
  <2> SUFFICES ASSUME SafeInv, Next, NEW r \in Runs,
                      Idle(r), Live(r)', runs'[r].job \in Jobs
               PROVE  fate[runs'[r].job] \notin {"delivered", "forgotten"}
    OBVIOUS
  <2>1. PICK j \in Jobs :
            /\ runs'[r].job = j
            /\ \/ \E q \in Runs : StartFailedJob(q, j)
               \/ Detach(j) /\ j \in watches
               \/ DeferTimer(j)
    BY JobOfOpened DEF SafeInv, TypeOK
  <2>2. fate[j] \in {"none", "owed"}
    BY <2>1 DEF StartFailedJob, DeferTimer, SafeInv, JobInv, JobsInOrder, TrackedIsOwed
  <2> QED
    BY <2>1, <2>2
<1> QED
  BY <1>1, SafeAlways, PTL DEF Spec, ResumeAtMostOnce
=============================================================================
