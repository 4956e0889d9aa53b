-------------------------- MODULE SessionTurnProofs --------------------------
(***************************************************************************)
(* Where every chat of a user is registered (POST /chat/stream), a resume   *)
(* never interrupts a chat, and SessionResume implements SessionTurn.       *)
(***************************************************************************)
EXTENDS SessionResumeSafety

\* The registered run of a session is the only one that is not aborted.
Registered == \A r \in Runs : Live(r) => (runs[r].aborted \/ chatRun[runs[r].session] = r)

LEMMA RegisteredInit == Init => Registered
BY DEF Init, ChatInit, Registered, Live, Idle, IdleRun

LEMMA RegisteredStep ==
    ASSUME UserKinds = {"stream"}
    PROVE  SafeInv /\ Registered /\ [Next]_vars => Registered'
<1> SUFFICES ASSUME SafeInv, Registered, [Next]_vars PROVE Registered'
  OBVIOUS
<1>0. ChatTypeOK /\ ChatInv
  BY DEF SafeInv, TypeOK, ChatInv
<1>1. CASE UNCHANGED chatVars
  BY <1>1 DEF Registered, Live, Idle, chatVars
<1>2. ASSUME NEW s \in Sessions, NEW r \in Runs, OpenStream(s, r) PROVE Registered'
  <2>1. /\ runs'[r] = NewRun(s, "stream", "starting", NoJob)
        /\ \A q \in Runs : q # r => Bystander(q, {chatRun[s]})
    BY <1>0, <1>2, OpenStreamRuns
  <2>2. runs'[r].session = s
    BY <2>1 DEF NewRun
  <2>3. \A t \in Sessions : chatRun'[t] = IF t = s THEN r ELSE chatRun[t]
    BY <1>0, <1>2 DEF OpenStream, ChatTypeOK
  <2>4. \A q \in Runs : Live(q) => runs[q].session \in Sessions
    BY <1>0 DEF ChatTypeOK, Live, Idle
  <2> QED
    BY <2>1, <2>2, <2>3, <2>4 DEF Registered, Bystander, Live, Idle
<1>3. ASSUME NEW s \in Sessions, NEW r \in Runs, NEW job, OpenResume(s, r, job)
      PROVE  Registered'
  <2>1. /\ runs'[r] = NewRun(s, "resume", "active", job)
        /\ \A q \in Runs : q # r => Bystander(q, {chatRun[s], engineRun[s]})
    BY <1>0, <1>3, OpenResumeRuns
  <2>2. runs'[r].session = s
    BY <2>1 DEF NewRun
  <2>3. \A t \in Sessions : chatRun'[t] = IF t = s THEN r ELSE chatRun[t]
    BY <1>0, <1>3 DEF OpenResume, ChatTypeOK
  <2>4. \A q \in Runs : Live(q) => runs[q].session \in Sessions
    BY <1>0 DEF ChatTypeOK, Live, Idle
  <2> QED
    BY <2>1, <2>2, <2>3, <2>4 DEF Registered, Bystander, Live, Idle
<1>4. ASSUME chatRun' = chatRun,
             \A q \in Runs : /\ Live(q)' => Live(q)
                             /\ runs'[q].session = runs[q].session
                             /\ runs[q].aborted => runs'[q].aborted
      PROVE  Registered'
  BY <1>4 DEF Registered
<1>5. ASSUME NEW r \in Runs, Leave(r), Live(r) PROVE Registered'
  <2>1. /\ ~Live(r)'
        /\ \A q \in Runs : q # r => runs'[q] = runs[q]
    BY <1>0, <1>5 DEF Leave, IdleRun, ChatTypeOK, Live, Idle
  <2>2. \A t \in Sessions : chatRun[t] # r => chatRun'[t] = chatRun[t]
    BY <1>0, <1>5 DEF Leave, ChatTypeOK
  <2>3. \A q \in Runs : Live(q) => runs[q].session \in Sessions
    BY <1>0 DEF ChatTypeOK, Live, Idle
  <2> QED
    BY <2>1, <2>2, <2>3 DEF Registered, Live, Idle
<1>6. ASSUME NEW r \in Runs, EnterRounds(r) PROVE Registered'
  <2> DEFINE A == Aborted({engineRun[runs[r].session]})
  <2>1. /\ A \in [Runs -> Run]
        /\ \A q \in Runs : /\ A[q].phase = runs[q].phase
                           /\ A[q].session = runs[q].session
                           /\ runs[q].aborted => A[q].aborted
    BY <1>0, AbortedType DEF ChatTypeOK
  <2>2. runs' = [A EXCEPT ![r].phase = "active"] /\ runs[r].phase = "starting" /\ chatRun' = chatRun
    BY <1>6 DEF EnterRounds
  <2> HIDE DEF A
  <2>3. \A q \in Runs : /\ q # r => runs'[q].phase = runs[q].phase
                        /\ runs'[q].session = runs[q].session
                        /\ runs[q].aborted => runs'[q].aborted
    BY <2>1, <2>2 DEF Run
  <2>4. \A q \in Runs : Live(q)' => Live(q)
    BY <2>2, <2>3 DEF Live, Idle
  <2> QED
    BY <1>4, <2>2, <2>3, <2>4
<1>7. ASSUME NEW r \in Runs, SaveReply(r) \/ SaveStopped(r) PROVE Registered'
  <2>1. \A q \in Runs : /\ q # r => runs'[q].phase = runs[q].phase
                        /\ runs'[q].session = runs[q].session
                        /\ runs'[q].aborted = runs[q].aborted
    BY <1>0, <1>7 DEF SaveReply, SaveStopped, ChatTypeOK, Run
  <2>2. runs[r].phase = "active" /\ chatRun' = chatRun
    BY <1>7 DEF SaveReply, SaveStopped, Working
  <2>3. \A q \in Runs : Live(q)' => Live(q)
    BY <2>1, <2>2 DEF Live, Idle
  <2> QED
    BY <1>4, <2>1, <2>2, <2>3
<1>8. ASSUME NEW R, runs' = Aborted(R), chatRun' = chatRun PROVE Registered'
  <2>1. \A q \in Runs : /\ runs'[q].phase = runs[q].phase
                        /\ runs'[q].session = runs[q].session
                        /\ runs[q].aborted => runs'[q].aborted
    BY <1>0, <1>8, AbortedType DEF ChatTypeOK
  <2> QED
    BY <1>4, <1>8, <2>1 DEF Live, Idle
<1>9. CASE ChatAction
  BY <1>2, <1>3, <1>5, <1>6, <1>7, <1>8, <1>9 DEF ChatAction, AbortRegistered, DropSession
<1> QED
  BY <1>1, <1>9, ChatActions

LEMMA RegisteredAlways ==
    ASSUME UserKinds = {"stream"}
    PROVE  Spec => [](SafeInv /\ Registered)
BY RegisteredInit, RegisteredStep, SafeInit, SafeStep, PTL DEF Spec

-----------------------------------------------------------------------------
\* A resume or a wake never aborts a chat at work (turn-wake.ts:4), provided that no
\* chat is opened without being registered.
THEOREM ResumeIsPolite ==
    ASSUME UserKinds = {"stream"}
    PROVE  Spec => ResumeNeverAborts
<1>1. SafeInv /\ Registered /\ [Next]_vars =>
          [\A q \in Runs : (Idle(q) /\ Live(q)' /\ runs'[q].kind = "resume") =>
              \A r \in Runs : (Working(r) /\ runs'[r].session = runs'[q].session)
                                 => ~runs'[r].aborted]_vars
  <2> SUFFICES ASSUME SafeInv, Registered, [Next]_vars,
                      NEW q \in Runs, Idle(q), Live(q)', runs'[q].kind = "resume",
                      NEW p \in Runs, Working(p), runs'[p].session = runs'[q].session
               PROVE  ~runs'[p].aborted
    OBVIOUS
  <2>0. ChatTypeOK
    BY DEF SafeInv, TypeOK
  <2>1. ASSUME \A r \in Runs : runs'[r].phase = runs[r].phase PROVE FALSE
    BY <2>1 DEF Live, Idle
  <2>2. ASSUME NEW R, runs' = Aborted(R) PROVE FALSE
    BY <2>0, <2>1, <2>2, AbortedType DEF ChatTypeOK
  <2>3. ASSUME NEW s \in Sessions, NEW r \in Runs, OpenStream(s, r) PROVE FALSE
    <3>1. /\ runs'[r] = NewRun(s, "stream", "starting", NoJob)
          /\ \A x \in Runs : x # r => Bystander(x, {chatRun[s]})
      BY <2>0, <2>3, OpenStreamRuns
    <3> QED
      BY <3>1 DEF NewRun, Bystander, Live, Idle
  <2>4. ASSUME NEW s \in Sessions, NEW r \in Runs, NEW job, ~Busy(s), OpenResume(s, r, job)
        PROVE  FALSE
    <3>1. /\ runs'[r] = NewRun(s, "resume", "active", job)
          /\ \A x \in Runs : x # r => Bystander(x, {chatRun[s], engineRun[s]})
      BY <2>0, <2>4, OpenResumeRuns
    <3>2. q = r /\ p # r
      BY <3>1 DEF Bystander, Live, Idle, Working
    <3>3. runs[p].session = s
      BY <3>1, <3>2 DEF Bystander, NewRun
    <3>4. chatRun[s] = p
      BY <3>3 DEF Registered, Working, Live, Idle
    <3> QED
      BY <2>4, <3>4, ResumeAssumption DEF Busy
  <2>5. ASSUME NEW r \in Runs,
               EnterRounds(r) \/ SaveReply(r) \/ SaveStopped(r) \/ (Live(r) /\ Leave(r))
        PROVE  FALSE
    <3>1. Live(r)
      BY <2>5 DEF EnterRounds, SaveReply, SaveStopped, Working, Live, Idle
    <3>2. \A x \in Runs : x # r => runs'[x].phase = runs[x].phase
      <4>1. CASE EnterRounds(r)
        <5> DEFINE A == Aborted({engineRun[runs[r].session]})
        <5>1. A \in [Runs -> Run] /\ \A x \in Runs : A[x].phase = runs[x].phase
          BY <2>0, AbortedType DEF ChatTypeOK
        <5>2. runs' = [A EXCEPT ![r].phase = "active"]
          BY <4>1 DEF EnterRounds
        <5> HIDE DEF A
        <5> QED
          BY <5>1, <5>2
      <4>2. CASE SaveReply(r) \/ SaveStopped(r) \/ Leave(r)
        BY <2>0, <4>2 DEF SaveReply, SaveStopped, Leave, ChatTypeOK
      <4> QED
        BY <2>5, <4>1, <4>2
    <3> QED
      BY <3>1, <3>2 DEF Live, Idle
  <2>6. ASSUME UNCHANGED chatVars PROVE FALSE
    BY <2>1, <2>6 DEF chatVars
  <2>7. ASSUME ChatAction PROVE FALSE
    BY <2>2, <2>3, <2>4, <2>5, <2>7 DEF ChatAction, AbortRegistered, DropSession
  <2> QED
    BY <2>6, <2>7, ChatActions
<1> QED
  BY <1>1, RegisteredAlways, PTL DEF Spec, ResumeNeverAborts

-----------------------------------------------------------------------------
(***************************************************************************)
(* The refinement of SessionTurn.                                          *)
(***************************************************************************)
Turn == [s \in Sessions |-> TurnOf(s)]

\* Only the turn of s changes.
LEMMA TurnOfOne ==
    ASSUME NEW s \in Sessions, NEW v, TurnOf(s)' = v,
           \A t \in Sessions : t # s => TurnOf(t)' = TurnOf(t)
    PROVE  Turn' = [Turn EXCEPT ![s] = v]
BY DEF Turn

\* A turn depends on its run's signal and kind.
LEMMA TurnKept ==
    ASSUME NEW t \in Sessions, engineRun'[t] = engineRun[t],
           engineRun[t] # NoRun =>
               /\ runs'[engineRun[t]].aborted = runs[engineRun[t]].aborted
               /\ runs'[engineRun[t]].kind = runs[engineRun[t]].kind
    PROVE  TurnOf(t)' = TurnOf(t)
BY DEF TurnOf

\* A session whose engine run is aborted or gone is free.
LEMMA TurnFree ==
    ASSUME NEW t \in Sessions, engineRun'[t] = NoRun \/ runs'[engineRun'[t]].aborted
    PROVE  TurnOf(t)' = Turns!Free
BY DEF TurnOf, Turns!Free

\* The turn of s ends or stays as it is.
LEMMA TurnEnds ==
    ASSUME NEW s \in Sessions,
           \A t \in Sessions : t # s => TurnOf(t)' = TurnOf(t),
           TurnOf(s)' = TurnOf(s) \/ TurnOf(s)' = Turns!Free
    PROVE  Turns!Next \/ Turn' = Turn
<1>1. CASE TurnOf(s)' = TurnOf(s)
  BY <1>1 DEF Turn
<1>2. CASE TurnOf(s)' = Turns!Free
  <2>1. Turns!EndTurn(s)
    BY <1>2, TurnOfOne DEF Turn, Turns!EndTurn
  <2> QED
    BY <2>1 DEF Turns!Next
<1> QED
  BY <1>1, <1>2

LEMMA RefineOpenStream ==
    ASSUME ChatInv, NEW s \in Sessions, NEW r \in Runs, OpenStream(s, r)
    PROVE  Turns!Next \/ Turn' = Turn
<1>1. \A q \in Runs : q # r => Bystander(q, {chatRun[s]})
  BY OpenStreamRuns DEF ChatInv
<1>2. engineRun' = engineRun /\ ~Live(r)
  BY DEF OpenStream, Live
<1>3. \A q \in Runs : (q # r /\ q # chatRun[s]) => runs'[q].aborted = runs[q].aborted
  <2> DEFINE A == Aborted({chatRun[s]})
             n == NewRun(s, "stream", "starting", NoJob)
  <2>1. A \in [Runs -> Run] /\ \A q \in Runs : q # chatRun[s] => A[q] = runs[q]
    BY AbortedType DEF ChatInv, ChatTypeOK, Aborted
  <2>2. runs' = [A EXCEPT ![r] = n]
    BY DEF OpenStream
  <2> HIDE DEF A, n
  <2> QED
    BY <2>1, <2>2
<1>4. ASSUME NEW t \in Sessions, engineRun[t] # NoRun, engineRun[t] # chatRun[s]
      PROVE  TurnOf(t)' = TurnOf(t)
  <2>1. engineRun[t] \in Runs /\ engineRun[t] # r
    BY <1>2, <1>4 DEF ChatInv, ChatTypeOK, TablesNameLiveRuns
  <2> QED
    BY <1>1, <1>2, <1>3, <1>4, <2>1, TurnKept DEF Bystander
<1>5. ASSUME NEW t \in Sessions, engineRun[t] = NoRun PROVE TurnOf(t)' = TurnOf(t)
  BY <1>2, <1>5, TurnKept
<1>6. ASSUME engineRun[s] = chatRun[s], engineRun[s] # NoRun PROVE TurnOf(s)' = Turns!Free
  <2>1. engineRun[s] \in Runs /\ engineRun[s] # r
    BY <1>2, <1>6 DEF ChatInv, ChatTypeOK, TablesNameLiveRuns
  <2>2. runs'[engineRun[s]].aborted \in BOOLEAN
    <3>1. ChatTypeOK'
      <4>1. /\ Aborted({chatRun[s]}) \in [Runs -> Run]
            /\ \A q \in Runs : /\ Aborted({chatRun[s]})[q].phase = runs[q].phase
                               /\ Aborted({chatRun[s]})[q].session = runs[q].session
        BY AbortedType DEF ChatInv, ChatTypeOK
      <4>2. NewRun(s, "stream", "starting", NoJob) \in Run
        BY DEF NewRun, Run, Phases
      <4> QED
        BY <4>1, <4>2 DEF OpenStream, ChatInv, ChatTypeOK, NewRun
    <3> QED
      BY <2>1, <3>1 DEF ChatTypeOK, Run
  <2> QED
    BY <1>1, <1>2, <1>6, <2>1, <2>2, TurnFree DEF Bystander
<1>7. \A t \in Sessions : t # s => TurnOf(t)' = TurnOf(t)
  <2> SUFFICES ASSUME NEW t \in Sessions, t # s PROVE TurnOf(t)' = TurnOf(t)
    OBVIOUS
  <2>1. engineRun[t] # NoRun => engineRun[t] # chatRun[s]
    BY DEF ChatInv, TablesNameLiveRuns
  <2> QED
    BY <1>4, <1>5, <2>1
<1>8. TurnOf(s)' = TurnOf(s) \/ TurnOf(s)' = Turns!Free
  BY <1>4, <1>5, <1>6
<1> QED
  BY <1>7, <1>8, TurnEnds

\* The turn of another session does not notice that runs of s are aborted or started.
LEMMA OtherTurns ==
    ASSUME ChatInv, NEW s \in Sessions,
           \A q \in Runs : (Live(q) /\ runs[q].session # s) => runs'[q] = runs[q],
           \A t \in Sessions : t # s => engineRun'[t] = engineRun[t]
    PROVE  \A t \in Sessions : t # s => TurnOf(t)' = TurnOf(t)
<1> SUFFICES ASSUME NEW t \in Sessions, t # s PROVE TurnOf(t)' = TurnOf(t)
  OBVIOUS
<1>1. CASE engineRun[t] = NoRun
  BY <1>1, TurnKept
<1>2. CASE engineRun[t] # NoRun
  <2>1. engineRun[t] \in Runs /\ Live(engineRun[t]) /\ runs[engineRun[t]].session = t
    BY <1>2 DEF ChatInv, ChatTypeOK, TablesNameLiveRuns
  <2> QED
    BY <2>1, TurnKept
<1> QED
  BY <1>1, <1>2

\* The run that takes the turn of s holds no other turn.
LEMMA NotElsewhere ==
    ASSUME ChatInv, NEW s \in Sessions, NEW r \in Runs, Live(r) => runs[r].session = s
    PROVE  ~Turns!Elsewhere(s, r)
BY ResumeAssumption DEF Turns!Elsewhere, TurnOf, ChatInv, TablesNameLiveRuns

LEMMA RefineOpenResume ==
    ASSUME ChatInv, Registered, NEW s \in Sessions, ~Busy(s), NEW r \in Runs, NEW job,
           OpenResume(s, r, job)
    PROVE  Turns!Next
<1> DEFINE A == Aborted({chatRun[s], engineRun[s]})
           n == NewRun(s, "resume", "active", job)
<1>1. A \in [Runs -> Run] /\ \A q \in Runs : q \notin {chatRun[s], engineRun[s]} => A[q] = runs[q]
  BY AbortedType DEF ChatInv, ChatTypeOK, Aborted
<1>2. runs' = [A EXCEPT ![r] = n] /\ ~Live(r)
  BY DEF OpenResume, Live
<1>3. n.aborted = FALSE /\ n.kind = "resume"
  BY DEF NewRun
<1>4. engineRun'[s] = r /\ \A t \in Sessions : t # s => engineRun'[t] = engineRun[t]
  BY DEF OpenResume, ChatInv, ChatTypeOK
<1> HIDE DEF A, n
<1>5. runs'[r] = n /\ \A q \in Runs : (q # r /\ q \notin {chatRun[s], engineRun[s]}) => runs'[q] = runs[q]
  BY <1>1, <1>2
<1>6. \A q \in Runs : (Live(q) /\ runs[q].session # s) => runs'[q] = runs[q]
  BY <1>2, <1>5, ResumeAssumption DEF ChatInv, TablesNameLiveRuns
<1>7. TurnOf(s) = Turns!Free
  <2>1. ASSUME engineRun[s] # NoRun PROVE runs[engineRun[s]].aborted
    BY <2>1 DEF ChatInv, ChatTypeOK, TablesNameLiveRuns, Registered, Busy
  <2> QED
    BY <2>1 DEF TurnOf, Turns!Free
<1>8. TurnOf(s)' = [run |-> r, resume |-> TRUE]
  BY <1>3, <1>4, <1>5, ResumeAssumption DEF TurnOf
<1>9. Turn' = [Turn EXCEPT ![s] = [run |-> r, resume |-> TRUE]]
  BY <1>4, <1>6, <1>8, OtherTurns, TurnOfOne
<1>10. Turns!ResumeTurn(s, r)
  BY <1>2, <1>7, <1>9, NotElsewhere DEF Turn, Turns!ResumeTurn
<1> QED
  BY <1>10 DEF Turns!Next

LEMMA RefineEnterRounds ==
    ASSUME ChatInv, ResumesStartActive, NEW r \in Runs, EnterRounds(r)
    PROVE  Turns!Next \/ Turn' = Turn
<1>0. PICK s \in Sessions : s = runs[r].session
  BY DEF EnterRounds, ChatInv, ChatTypeOK
<1> DEFINE A == Aborted({engineRun[s]})
<1>1. runs[r].kind # "resume"
  BY DEF EnterRounds, ResumesStartActive
<1>2. /\ A \in [Runs -> Run]
      /\ \A q \in Runs : A[q].kind = runs[q].kind
      /\ \A q \in Runs : q # engineRun[s] => A[q] = runs[q]
  BY AbortedType DEF ChatInv, ChatTypeOK, Aborted
<1>3. runs' = [A EXCEPT ![r].phase = "active"]
  BY <1>0 DEF EnterRounds
<1>4. engineRun'[s] = r /\ \A t \in Sessions : t # s => engineRun'[t] = engineRun[t]
  BY <1>0 DEF EnterRounds, ChatInv, ChatTypeOK
<1> HIDE DEF A
<1>5. /\ runs'[r].kind = runs[r].kind
      /\ \A q \in Runs : (q # r /\ q # engineRun[s]) => runs'[q] = runs[q]
  BY <1>2, <1>3
<1>6. \A q \in Runs : (Live(q) /\ runs[q].session # s) => runs'[q] = runs[q]
  BY <1>0, <1>5, ResumeAssumption DEF ChatInv, TablesNameLiveRuns
<1>7. \A t \in Sessions : t # s => TurnOf(t)' = TurnOf(t)
  BY <1>4, <1>6, OtherTurns
<1>8. CASE runs'[r].aborted
  <2>1. TurnOf(s)' = Turns!Free
    BY <1>4, <1>8, TurnFree
  <2> QED
    BY <1>7, <2>1, TurnEnds
<1>9. CASE ~runs'[r].aborted
  <2>1. TurnOf(s)' = [run |-> r, resume |-> FALSE]
    BY <1>1, <1>4, <1>5, <1>9, ResumeAssumption DEF TurnOf
  <2>2. Turn' = [Turn EXCEPT ![s] = [run |-> r, resume |-> FALSE]]
    BY <1>7, <2>1, TurnOfOne
  <2>3. Turns!UserTurn(s, r)
    BY <1>0, <2>2, NotElsewhere DEF Turn, Turns!UserTurn
  <2> QED
    BY <2>3 DEF Turns!Next
<1> QED
  BY <1>8, <1>9

\* A run of s gets on, leaves its rounds or returns: nobody else's run is touched, and
\* the engine's entry of s stays or goes.
LEMMA RefineEnd ==
    ASSUME ChatInv, NEW s \in Sessions,
           \A q \in Runs : (Live(q) /\ runs[q].session # s) => runs'[q] = runs[q],
           \A t \in Sessions : t # s => engineRun'[t] = engineRun[t],
           \/ engineRun'[s] = NoRun
           \/ engineRun'[s] = engineRun[s] /\
              \A q \in Runs : q = engineRun[s] => \/ runs'[q].aborted
                                                 \/ /\ runs'[q].aborted = runs[q].aborted
                                                    /\ runs'[q].kind = runs[q].kind
    PROVE  Turns!Next \/ Turn' = Turn
<1>1. \A t \in Sessions : t # s => TurnOf(t)' = TurnOf(t)
  BY OtherTurns
<1>2. TurnOf(s)' = TurnOf(s) \/ TurnOf(s)' = Turns!Free
  <2>1. CASE engineRun'[s] = NoRun
    BY <2>1, TurnFree
  <2>2. CASE engineRun'[s] # NoRun
    <3>1. engineRun'[s] = engineRun[s] /\ engineRun[s] \in Runs
      BY <2>2 DEF ChatInv, ChatTypeOK
    <3> QED
      BY <3>1, TurnFree, TurnKept
  <2> QED
    BY <2>1, <2>2
<1> QED
  BY <1>1, <1>2, TurnEnds

LEMMA RefineLeave ==
    ASSUME ChatInv, NEW r \in Runs, Live(r), SaveReply(r) \/ SaveStopped(r) \/ Leave(r)
    PROVE  Turns!Next \/ Turn' = Turn
<1>1. PICK s \in Sessions : s = runs[r].session
  BY DEF ChatInv, ChatTypeOK, Live, Idle
<1>2. \A q \in Runs : q # r => runs'[q] = runs[q]
  BY DEF SaveReply, SaveStopped, Leave, ChatInv, ChatTypeOK
<1>3. \A t \in Sessions : t # s => engineRun'[t] = engineRun[t]
  BY <1>1 DEF SaveReply, SaveStopped, Leave, ChatInv, ChatTypeOK
<1>4. engineRun'[s] \in {engineRun[s], NoRun}
  BY <1>1 DEF SaveReply, SaveStopped, Leave, ChatInv, ChatTypeOK
<1>5. engineRun[s] = r => \/ engineRun'[s] = NoRun
                          \/ /\ runs'[r].aborted = runs[r].aborted
                             /\ runs'[r].kind = runs[r].kind
  BY <1>1 DEF SaveReply, SaveStopped, Leave, ChatInv, ChatTypeOK, Run
<1> QED
  BY <1>1, <1>2, <1>3, <1>4, <1>5, RefineEnd

LEMMA RefineAbort ==
    ASSUME ChatInv, NEW s \in Sessions, AbortRegistered(s) \/ DropSession(s)
    PROVE  Turns!Next \/ Turn' = Turn
<1>1. PICK x \in {chatRun[s], engineRun[s]} : runs' = Aborted({x})
  BY DEF AbortRegistered, DropSession
<1>2. \A q \in Runs : (q # x => runs'[q] = runs[q]) /\ (q = x => runs'[q].aborted)
  BY <1>1 DEF Aborted, ChatInv, ChatTypeOK, Run
<1>3. \A q \in Runs : (Live(q) /\ runs[q].session # s) => runs'[q] = runs[q]
  BY <1>2, ResumeAssumption DEF ChatInv, TablesNameLiveRuns
<1>4. /\ \A t \in Sessions : t # s => engineRun'[t] = engineRun[t]
      /\ engineRun'[s] \in {engineRun[s], NoRun}
  BY DEF AbortRegistered, DropSession, ChatInv, ChatTypeOK
<1> QED
  BY <1>2, <1>3, <1>4, RefineEnd

LEMMA TurnInit == Init => Turns!Init
BY DEF Init, ChatInit, Turns!Init, Turns!Free, TurnOf

LEMMA TurnStep ==
    ASSUME UserKinds = {"stream"}
    PROVE  SafeInv /\ Registered /\ [Next]_vars => [Turns!Next]_Turn
<1> SUFFICES ASSUME SafeInv, Registered, [Next]_vars PROVE Turns!Next \/ Turn' = Turn
  OBVIOUS
<1>1. ChatInv /\ ResumesStartActive
  BY DEF SafeInv, TypeOK, ChatInv
<1>2. CASE UNCHANGED chatVars
  BY <1>2 DEF Turn, TurnOf, chatVars
<1>3. CASE ChatAction
  BY <1>1, <1>3, RefineOpenStream, RefineOpenResume, RefineEnterRounds, RefineLeave, RefineAbort
     DEF ChatAction, SaveReply, SaveStopped, Working, Live, Idle
<1> QED
  BY <1>2, <1>3, ChatActions

\* SessionResume keeps the promise of SessionTurn where every chat of a user is
\* registered: one run at a time holds the turn of a session (engine.ts, session-chat-runs.ts),
\* and a resume only takes it when it is free.
THEOREM ImplementsTurn ==
    ASSUME UserKinds = {"stream"}
    PROVE  Spec => TurnSpec
BY RegisteredAlways, TurnInit, TurnStep, PTL DEF Spec, TurnSpec, Turns!Spec, Turn
=============================================================================
