------------------------ MODULE SessionResumeProofs ------------------------
(***************************************************************************)
(* Proofs about SessionResume, for every number of sessions, runs and jobs. *)
(***************************************************************************)
EXTENDS SessionResume, FiniteSetTheorems, TLAPS

-----------------------------------------------------------------------------
(***************************************************************************)
(* Types.                                                                  *)
(***************************************************************************)

\* Aborting runs changes neither which runs there are nor what they run for.
LEMMA AbortedType ==
    ASSUME runs \in [Runs -> Run], NEW R
    PROVE  /\ Aborted(R) \in [Runs -> Run]
           /\ \A r \in Runs : /\ Aborted(R)[r].phase = runs[r].phase
                              /\ Aborted(R)[r].session = runs[r].session
                              /\ Aborted(R)[r].kind = runs[r].kind
                              /\ Aborted(R)[r].job = runs[r].job
                              /\ runs[r].aborted => Aborted(R)[r].aborted
                              /\ Aborted(R)[r].aborted => (runs[r].aborted \/ r \in R)
                              /\ (r \in R) => Aborted(R)[r].aborted
BY DEF Aborted, Run

LEMMA OpenResumeType ==
    ASSUME ChatTypeOK, NEW s \in Sessions, NEW r \in Runs, NEW job \in Jobs \cup {NoJob},
           OpenResume(s, r, job)
    PROVE  ChatTypeOK'
<1>1. Aborted({chatRun[s], engineRun[s]}) \in [Runs -> Run]
  BY AbortedType DEF ChatTypeOK
<1>2. \A q \in Runs : Aborted({chatRun[s], engineRun[s]})[q].phase = runs[q].phase
                      /\ Aborted({chatRun[s], engineRun[s]})[q].session = runs[q].session
  BY AbortedType DEF ChatTypeOK
<1>3. NewRun(s, "resume", "active", job) \in Run
  BY DEF NewRun, Run, Phases
<1> QED
  BY <1>1, <1>2, <1>3 DEF OpenResume, ChatTypeOK, NewRun

LEMMA EnqueueType ==
    ASSUME TypeOK, NEW s, NEW j \in Jobs, NEW timers \in SUBSET Jobs, Enqueue(s, j, timers)
    PROVE  /\ ChatTypeOK'
           /\ (deferred \subseteq Jobs)'
           /\ (inFlight \subseteq Jobs)'
           /\ (fate \in [Jobs -> {"none", "owed", "delivered", "forgotten"}])'
<1>1. CASE j \in inFlight \/ s \notin alive \/ Busy(s)
  BY <1>1 DEF Enqueue, TypeOK, ChatTypeOK, chatVars
<1>2. CASE ~(j \in inFlight \/ s \notin alive \/ Busy(s))
  <2>1. PICK r \in Runs : OpenResume(s, r, j)
    BY <1>2 DEF Enqueue
  <2>2. s \in Sessions
    BY <1>2 DEF TypeOK, ChatTypeOK
  <2>3. ChatTypeOK'
    BY <2>1, <2>2, OpenResumeType DEF TypeOK
  <2> QED
    BY <1>2, <2>3 DEF Enqueue, TypeOK
<1> QED
  BY <1>1, <1>2

LEMMA ClearType ==
    ASSUME TypeOK, NEW s \in Sessions, ClearTurnWakes(s), ClearWaits(s)
    PROVE  /\ (watches \subseteq Jobs)'
           /\ (deferred \subseteq Jobs)'
           /\ (inFlight \subseteq Jobs)'
           /\ (fate \in [Jobs -> {"none", "owed", "delivered", "forgotten"}])'
           /\ (wakes \in [Sessions -> 0 .. MaxWakes])'
<1>1. 0 \in 0 .. MaxWakes
  BY ResumeAssumption
<1>2. (wakes \in [Sessions -> 0 .. MaxWakes])'
  BY <1>1 DEF ClearTurnWakes, TypeOK
<1> QED
  BY <1>2 DEF ClearWaits, TypeOK

LEMMA LeaveType ==
    ASSUME ChatTypeOK, NEW r \in Runs, Leave(r)
    PROVE  ChatTypeOK'
<1>1. IdleRun \in Run
  BY DEF IdleRun, Run, Phases
<1> QED
  BY <1>1 DEF Leave, ChatTypeOK, IdleRun

LEMMA TypeInit == Init => TypeOK
<1> SUFFICES ASSUME Init PROVE TypeOK
  OBVIOUS
<1>1. ChatTypeOK
  BY DEF Init, ChatInit, ChatTypeOK, IdleRun, Run, Phases
<1>2. 0 \in 0 .. MaxWakes
  BY ResumeAssumption
<1> QED
  BY <1>1, <1>2 DEF Init, TypeOK

LEMMA TypeStep == TypeOK /\ [Next]_vars => TypeOK'
<1> SUFFICES ASSUME TypeOK, [Next]_vars PROVE TypeOK'
  OBVIOUS
<1>1. ASSUME NEW s \in Sessions, NEW r \in Runs, StartStream(s, r) PROVE TypeOK'
  <2>1. ChatTypeOK'
    <3>1. /\ Aborted({chatRun[s]}) \in [Runs -> Run]
          /\ \A q \in Runs : /\ Aborted({chatRun[s]})[q].phase = runs[q].phase
                             /\ Aborted({chatRun[s]})[q].session = runs[q].session
      BY AbortedType DEF TypeOK, ChatTypeOK
    <3>2. NewRun(s, "stream", "starting", NoJob) \in Run
      BY DEF NewRun, Run, Phases
    <3> QED
      BY <1>1, <3>1, <3>2 DEF StartStream, OpenStream, TypeOK, ChatTypeOK, NewRun
  <2> QED
    BY <1>1, <2>1, ClearType DEF StartStream, TypeOK
<1>2. ASSUME NEW s \in Sessions, NEW r \in Runs, StartDirect(s, r) PROVE TypeOK'
  <2>1. ChatTypeOK'
    <3>1. NewRun(s, "direct", "starting", NoJob) \in Run
      BY DEF NewRun, Run, Phases
    <3> QED
      BY <1>2, <3>1 DEF StartDirect, OpenDirect, TypeOK, ChatTypeOK, NewRun
  <2> QED
    BY <1>2, <2>1, ClearType DEF StartDirect, TypeOK
<1>3. ASSUME NEW s \in Sessions, NEW j \in Jobs, CancelJob(s, j) PROVE TypeOK'
  BY <1>3 DEF CancelJob, MarkTerminal, TypeOK, ChatTypeOK, chatVars, busVars
<1>4. ASSUME NEW s \in Sessions, WakeTimer(s) PROVE TypeOK'
  <2>1. ChatTypeOK'
    <3>1. CASE s \in alive /\ ~Busy(s)
      BY <1>4, <3>1, OpenResumeType DEF WakeTimer, TypeOK
    <3>2. CASE ~(s \in alive /\ ~Busy(s))
      BY <1>4, <3>2 DEF WakeTimer, TypeOK, ChatTypeOK, chatVars
    <3> QED
      BY <3>1, <3>2
  <2>2. (wakes \in [Sessions -> 0 .. MaxWakes])'
    BY <1>4, ResumeAssumption DEF WakeTimer, TypeOK
  <2> QED
    BY <1>4, <2>1, <2>2 DEF WakeTimer, TypeOK, jobVars, busVars
<1>5. ASSUME NEW s \in Sessions, Stop(s) PROVE TypeOK'
  <2>1. ChatTypeOK'
    BY <1>5, AbortedType DEF Stop, AbortRegistered, TypeOK, ChatTypeOK
  <2> QED
    BY <1>5, <2>1, ClearType DEF Stop, TypeOK
<1>6. ASSUME NEW s \in Sessions, Disconnect(s) PROVE TypeOK'
  <2>1. ChatTypeOK'
    <3>1. /\ Aborted({chatRun[s]}) \in [Runs -> Run]
          /\ \A q \in Runs : /\ Aborted({chatRun[s]})[q].phase = runs[q].phase
                             /\ Aborted({chatRun[s]})[q].session = runs[q].session
      BY AbortedType DEF TypeOK, ChatTypeOK
    <3> QED
      BY <1>6, <3>1 DEF Disconnect, AbortRegistered, TypeOK, ChatTypeOK
  <2> QED
    BY <1>6, <2>1 DEF Disconnect, TypeOK, jobVars, busVars
<1>7. ASSUME NEW s \in Sessions, DeleteSession(s) PROVE TypeOK'
  <2>1. ChatTypeOK'
    BY <1>7, AbortedType DEF DeleteSession, DropSession, TypeOK, ChatTypeOK
  <2>2. (jobs \in [Jobs -> [state : {"unborn", "running", "ended"},
                            session : Sessions \cup {NoSession}]])'
    BY <1>7 DEF DeleteSession, TypeOK
  <2> QED
    BY <1>7, <2>1, <2>2, ClearType DEF DeleteSession, TypeOK
<1>8. ASSUME NEW r \in Runs, Progress(r) PROVE TypeOK'
  <2>1. CASE RejectStart(r)
    BY <2>1, LeaveType DEF RejectStart, TypeOK, jobVars, busVars
  <2>2. CASE Activate(r)
    <3>1. ChatTypeOK'
      <4> DEFINE s == runs[r].session
                 A == Aborted({engineRun[s]})
      <4>1. s \in Sessions
        BY <2>2 DEF Activate, EnterRounds, TypeOK, ChatTypeOK
      <4>2. /\ A \in [Runs -> Run]
            /\ \A q \in Runs : A[q].phase = runs[q].phase /\ A[q].session = runs[q].session
        BY AbortedType DEF TypeOK, ChatTypeOK
      <4>3. [A EXCEPT ![r].phase = "active"] \in [Runs -> Run]
        BY <4>2 DEF Run, Phases
      <4>4. runs' = [A EXCEPT ![r].phase = "active"]
        BY <2>2 DEF Activate, EnterRounds
      <4>5. \A q \in Runs : runs'[q].session = runs[q].session
                             /\ (q # r => runs'[q].phase = runs[q].phase)
        BY <4>2, <4>4 DEF Run
      <4> HIDE DEF A
      <4> QED
        BY <2>2, <4>1, <4>3, <4>4, <4>5 DEF Activate, EnterRounds, TypeOK, ChatTypeOK
    <3> QED
      BY <2>2, <3>1 DEF Activate, TypeOK, jobVars, busVars
  <2>3. CASE Reply(r)
    <3>1. ChatTypeOK'
      <4>1. runs[r].phase # "idle" /\ runs \in [Runs -> Run]
        BY <2>3 DEF Reply, SaveReply, Working, TypeOK, ChatTypeOK
      <4>2. [runs EXCEPT ![r].phase = "replying"] \in [Runs -> Run]
        BY <4>1 DEF Run, Phases
      <4>3. runs' = [runs EXCEPT ![r].phase = "replying"] /\ alive' = alive \cup {runs[r].session}
        BY <2>3 DEF Reply, SaveReply
      <4>4. \A q \in Runs : runs'[q].session = runs[q].session
                             /\ (q # r => runs'[q].phase = runs[q].phase)
        BY <4>1, <4>3 DEF Run
      <4> QED
        BY <2>3, <4>1, <4>2, <4>3, <4>4 DEF Reply, SaveReply, TypeOK, ChatTypeOK
    <3> QED
      BY <2>3, <3>1 DEF Reply, TypeOK, jobVars, busVars
  <2>4. CASE Finish(r)
    BY <2>4, LeaveType DEF Finish, TypeOK, jobVars
  <2>5. CASE Throw(r)
    BY <2>5, LeaveType DEF Throw, TypeOK, jobVars
  <2>6. CASE Unwind(r)
    <3>1. ChatTypeOK'
      BY <2>6, SMTT(30) DEF Unwind, SaveStopped, TypeOK, ChatTypeOK, Run, Phases
    <3>2. runs[r].session \in Sessions
      BY <2>6 DEF Unwind, SaveStopped, TypeOK, ChatTypeOK
    <3> QED
      BY <2>6, <3>1, <3>2, ClearType DEF Unwind, TypeOK
  <2> QED
    BY <1>8, <2>1, <2>2, <2>3, <2>4, <2>5, <2>6 DEF Progress
<1>9. ASSUME NEW r \in Runs, ScheduleTurnWake(r) PROVE TypeOK'
  <2>1. (wakes \in [Sessions -> 0 .. MaxWakes])'
    <3>1. runs[r].session \in Sessions
      BY <1>9 DEF ScheduleTurnWake, Working, TypeOK, ChatTypeOK
    <3>2. wakes[runs[r].session] + 1 \in 0 .. MaxWakes
      BY <1>9, <3>1, ResumeAssumption DEF ScheduleTurnWake, TypeOK
    <3> QED
      BY <1>9, <3>2 DEF ScheduleTurnWake, TypeOK
  <2> QED
    BY <1>9, <2>1 DEF ScheduleTurnWake, TypeOK, ChatTypeOK, chatVars, jobVars, busVars
<1>10. ASSUME NEW r \in Runs, NEW j \in Jobs, StartJob(r, j) PROVE TypeOK'
  <2>1. runs[r].session \in Sessions
    BY <1>10 DEF StartJob, Working, TypeOK, ChatTypeOK
  <2> QED
    BY <1>10, <2>1 DEF StartJob, Attach, TypeOK, ChatTypeOK, chatVars, busVars
<1>11. ASSUME NEW r \in Runs, NEW j \in Jobs, StartFailedJob(r, j) PROVE TypeOK'
  <2>1. runs[r].session \in Sessions
    BY <1>11 DEF StartFailedJob, Working, TypeOK, ChatTypeOK
  <2>2. /\ ChatTypeOK'
        /\ (deferred \subseteq Jobs)'
        /\ (inFlight \subseteq Jobs)'
        /\ (fate \in [Jobs -> {"none", "owed", "delivered", "forgotten"}])'
    BY <1>11, EnqueueType DEF StartFailedJob, TypeOK
  <2> QED
    BY <1>11, <2>1, <2>2 DEF StartFailedJob, TypeOK
<1>12. ASSUME NEW j \in Jobs, EndJob(j) PROVE TypeOK'
  BY <1>12 DEF EndJob, MarkTerminal, TypeOK, ChatTypeOK, chatVars, busVars
<1>13. ASSUME NEW j \in Jobs, Detach(j) PROVE TypeOK'
  <2>1. CASE j \in watches
    BY <1>13, <2>1, EnqueueType DEF Detach, TypeOK
  <2>2. CASE j \notin watches
    BY <1>13, <2>2 DEF Detach, TypeOK, ChatTypeOK, chatVars, busVars
  <2> QED
    BY <2>1, <2>2
<1>14. ASSUME NEW j \in Jobs, ClearByJob(j) PROVE TypeOK'
  BY <1>14 DEF ClearByJob, TypeOK, ChatTypeOK, chatVars, busVars
<1>15. ASSUME NEW j \in Jobs, DeferTimer(j) PROVE TypeOK'
  <2>1. deferred \ {j} \in SUBSET Jobs
    BY DEF TypeOK
  <2>2. Enqueue(jobs[j].session, j, deferred \ {j})
    BY <1>15 DEF DeferTimer
  <2> QED
    BY <1>15, <2>1, <2>2, EnqueueType DEF DeferTimer, TypeOK, jobVars
<1>16. CASE UNCHANGED vars
  BY <1>16 DEF vars, TypeOK, ChatTypeOK
<1> QED
  BY <1>1, <1>2, <1>3, <1>4, <1>5, <1>6, <1>7, <1>8, <1>9, <1>10, <1>11, <1>12,
     <1>13, <1>14, <1>15, <1>16 DEF Next

\* Every variable keeps its type: no table names a run, a session or a job that
\* does not exist, and a session never has more wakes than the cap.
THEOREM TypeCorrect == Spec => []TypeOK
BY TypeInit, TypeStep, PTL DEF Spec
=============================================================================
