-------------------------- MODULE UserPromptProofs --------------------------
(***************************************************************************)
(* The safety of UserPrompts, for every set of sessions, chats, calls and   *)
(* remarks and every size of the approval queue.                           *)
(***************************************************************************)
EXTENDS UserPrompts, TLAPS

-----------------------------------------------------------------------------
(***************************************************************************)
(* The inductive invariant.                                                *)
(***************************************************************************)
\* The two tables name chats of their sessions, the chat at work is the engine's and
\* the tools', and a chat whose question was cancelled has yet to unwind.
ChatsFit ==
    /\ \A s \in Sessions, r \in Runs :
          (chatRun[s] = r \/ engineRun[s] = r) => Live(r) /\ runs[r].session = s
    /\ \A r \in Runs :
          Working(r) => engineRun[runs[r].session] = r /\ runs[r].session \in alive
    /\ WorkersAreBound
    /\ \A r \in thrown : runs[r].phase = "active"

\* What is known of a call: while its chat runs, its signal is that chat's; a round
\* waits for its own question as long as there is one.
CallFits(k) ==
    /\ k.run # NoRun =>
          /\ Live(k.run) /\ runs[k.run].session = k.session /\ k.state # "free"
          /\ k.cut <=> runs[k.run].aborted
    /\ k.attached => k.run # NoRun /\ runs[k.run].phase = "active" /\ stage[k.run] = "tools"
    /\ k.state = "free" => k.kind # "round"
    /\ k.state # "free" => k.kind # "none"
    /\ k.kind = "round" => k.attached
    /\ k.state = "working" => k.kind = "tool"
    /\ k.kind = "round" /\ k.state = "refused" => runs[k.run].aborted \/ k.run \in thrown

\* Nobody waits in vain: no waiting signal is aborted, no waiting round has thrown.
AskersGoOn ==
    \A c \in bridge : ~calls[c].cut /\ (calls[c].kind = "round" => calls[c].run \notin thrown)

QuestionsFit ==
    /\ \A c \in Calls : CallFits(calls[c])
    /\ AskersArePending
    /\ ClosedOnBothSides
    /\ AskersGoOn
    /\ \A c \in open : calls[c].kind # "none"

\* A remark meant for a chat has a round of that chat before it.
RemarksFit ==
    /\ \A m \in Messages, r \in Runs :
          steer[m].run = r =>
             /\ runs[r].session = steer[m].session
             /\ runs[r].phase = "starting"
                \/ (runs[r].phase = "active" /\ (AtWork(r) => stage[r] # "model"))
    /\ \A r \in Runs : runs[r].phase \in {"idle", "starting"} => stage[r] = "entry"

Safe == TypeOK /\ ChatsFit /\ QuestionsFit /\ RemarksFit

-----------------------------------------------------------------------------
(***************************************************************************)
(* What the helpers return.                                                *)
(***************************************************************************)

\* Aborting runs changes nothing but the mark on their signals.
LEMMA AbortedEffect ==
    ASSUME runs \in [Runs -> Run], NEW R
    PROVE  /\ Aborted(R) \in [Runs -> Run]
           /\ \A r \in Runs : /\ Aborted(R)[r].phase = runs[r].phase
                              /\ Aborted(R)[r].session = runs[r].session
                              /\ Aborted(R)[r].aborted <=> (runs[r].aborted \/ r \in R)
BY DEF Aborted, Run

LEMMA NewRunType ==
    ASSUME NEW s \in Sessions, NEW kind \in {"stream", "direct", "resume"},
           NEW phase \in {"starting", "active"}
    PROVE  /\ NewRun(s, kind, phase, NoJob) \in Run
           /\ NewRun(s, kind, phase, NoJob).phase = phase
           /\ NewRun(s, kind, phase, NoJob).session = s
           /\ NewRun(s, kind, phase, NoJob).aborted = FALSE
BY DEF NewRun, Run, Phases

LEMMA IdleRunType == IdleRun \in Run /\ IdleRun.phase = "idle"
BY DEF IdleRun, Run, Phases

LEMMA OverType ==
    ASSUME TypeOK, NEW c \in Calls
    PROVE  FreeCall \in Call /\ Over(c) \in Call
BY DEF Over, FreeCall, Call, TypeOK

LEMMA NewCallType ==
    ASSUME NEW r \in Runs, runs[r].session \in Sessions,
           NEW kind \in {"round", "tool"}, NEW state \in {"working", "asking"}
    PROVE  NewCall(r, kind, state) \in Call
BY DEF NewCall, Call

LEMMA CallEdits ==
    ASSUME NEW k \in Call
    PROVE  /\ \A q \in {"asking", "answered", "refused"} : [k EXCEPT !.state = q] \in Call
           /\ [k EXCEPT !.attached = FALSE] \in Call
           /\ [k EXCEPT !.run = NoRun] \in Call
           /\ k.run \in Runs \cup {NoRun} /\ k.session \in Sessions \cup {NoSession}
BY DEF Call

\* What the rejection of waits does to a call.
LEMMA RejectEffect ==
    ASSUME TypeOK, NEW R, NEW S
    PROVE  /\ AfterReject(R, S) \in [Calls -> Call]
           /\ \A c \in Calls :
                 /\ AfterReject(R, S)[c].kind = calls[c].kind
                 /\ AfterReject(R, S)[c].session = calls[c].session
                 /\ AfterReject(R, S)[c].run = calls[c].run
                 /\ AfterReject(R, S)[c].attached = calls[c].attached
                 /\ AfterReject(R, S)[c].cut <=> (calls[c].cut \/ calls[c].run \in R \ {NoRun})
                 /\ AfterReject(R, S)[c].state =
                       IF c \in Rejected(R, S) THEN "refused" ELSE calls[c].state
<1>1. ASSUME NEW c \in Calls
      PROVE  LET e == Signalled(R)[c]
             IN  /\ e \in Call
                 /\ e.kind = calls[c].kind /\ e.session = calls[c].session
                 /\ e.run = calls[c].run /\ e.attached = calls[c].attached
                 /\ e.state = calls[c].state
                 /\ e.cut <=> (calls[c].cut \/ calls[c].run \in R \ {NoRun})
  BY DEF Signalled, TypeOK, Call
<1>2. ASSUME NEW k \in Call
      PROVE  LET e == [k EXCEPT !.state = "refused"]
             IN  /\ e \in Call
                 /\ e.kind = k.kind /\ e.session = k.session /\ e.run = k.run
                 /\ e.attached = k.attached /\ e.state = "refused" /\ e.cut = k.cut
  BY DEF Call
<1>3. ASSUME NEW c \in Calls
      PROVE  AfterReject(R, S)[c] = IF c \in Rejected(R, S)
                                    THEN [Signalled(R)[c] EXCEPT !.state = "refused"]
                                    ELSE Signalled(R)[c]
  BY DEF AfterReject
<1>4. AfterReject(R, S) \in [Calls -> Call]
  BY <1>1, <1>2 DEF AfterReject
<1>5. ASSUME NEW c \in Calls
      PROVE  LET e == AfterReject(R, S)[c]
             IN  /\ e.kind = calls[c].kind /\ e.session = calls[c].session
                 /\ e.run = calls[c].run /\ e.attached = calls[c].attached
                 /\ e.cut <=> (calls[c].cut \/ calls[c].run \in R \ {NoRun})
                 /\ e.state = IF c \in Rejected(R, S) THEN "refused" ELSE calls[c].state
  <2>1. CASE c \in Rejected(R, S)
    <3> DEFINE k == Signalled(R)[c]
    <3>1. /\ k \in Call /\ k.kind = calls[c].kind /\ k.session = calls[c].session
          /\ k.run = calls[c].run /\ k.attached = calls[c].attached
          /\ k.cut <=> (calls[c].cut \/ calls[c].run \in R \ {NoRun})
          /\ AfterReject(R, S)[c] = [k EXCEPT !.state = "refused"]
      BY <1>1, <1>3, <2>1
    <3> HIDE DEF k
    <3> QED
      BY <2>1, <3>1 DEF Call
  <2>2. CASE c \notin Rejected(R, S)
    BY <1>1, <1>3, <2>2
  <2> QED
    BY <2>1, <2>2
<1> QED
  BY <1>4, <1>5

\* The runs that throw are those of the rounds that waited: they are in their rounds.
LEMMA ThrownEffect ==
    ASSUME TypeOK, QuestionsFit, NEW R, NEW S
    PROVE  \A r \in ThrownBy(R, S) : r \in Runs /\ runs[r].phase = "active"
<1> SUFFICES ASSUME NEW c \in Rejected(R, S), calls[c].kind = "round"
             PROVE  calls[c].run \in Runs /\ runs[calls[c].run].phase = "active"
  BY DEF ThrownBy
<1>1. c \in Calls /\ calls[c] \in Call
  BY DEF Rejected, TypeOK
<1>2. CallFits(calls[c])
  BY <1>1 DEF QuestionsFit
<1> QED
  BY <1>1, <1>2, CallEdits DEF CallFits

-----------------------------------------------------------------------------
(***************************************************************************)
(* What the steps of ChatRuns do to the runs.                              *)
(***************************************************************************)

\* No run returns or leaves its rounds, and exactly the runs of R are aborted.
Kept(R) ==
    \A r \in Runs :
        Live(r) =>
           /\ runs'[r].phase # "idle"
           /\ runs[r].phase = "active" => runs'[r].phase = "active"
           /\ runs'[r].session = runs[r].session
           /\ runs'[r].aborted <=> (runs[r].aborted \/ r \in R)

LEMMA OpenStreamEffect ==
    ASSUME ChatTypeOK, NEW s \in Sessions, NEW r \in Runs, OpenStream(s, r)
    PROVE  ChatTypeOK' /\ Kept({chatRun[s]})
<1> DEFINE old == Aborted({chatRun[s]})
           new == NewRun(s, "stream", "starting", NoJob)
<1>1. /\ old \in [Runs -> Run]
      /\ \A q \in Runs : /\ old[q].phase = runs[q].phase /\ old[q].session = runs[q].session
                         /\ old[q].aborted <=> (runs[q].aborted \/ q \in {chatRun[s]})
  BY AbortedEffect DEF ChatTypeOK
<1>2. new \in Run /\ new.phase = "starting" /\ new.session = s /\ new.aborted = FALSE
  BY NewRunType
<1>3. runs[r].phase = "idle" /\ runs' = [old EXCEPT ![r] = new]
      /\ chatRun' = [chatRun EXCEPT ![s] = r] /\ alive' = alive /\ engineRun' = engineRun
  BY DEF OpenStream, Idle
<1> HIDE DEF old, new
<1>4. ChatTypeOK'
  BY <1>1, <1>2, <1>3 DEF ChatTypeOK
<1>5. Kept({chatRun[s]})
  BY <1>1, <1>3 DEF Kept, Live, Idle
<1> QED
  BY <1>4, <1>5

LEMMA OpenDirectEffect ==
    ASSUME ChatTypeOK, NEW s \in Sessions, NEW r \in Runs, OpenDirect(s, r)
    PROVE  ChatTypeOK' /\ Kept({})
<1> DEFINE new == NewRun(s, "direct", "starting", NoJob)
<1>1. new \in Run /\ new.phase = "starting" /\ new.session = s /\ new.aborted = FALSE
  BY NewRunType
<1>2. runs[r].phase = "idle" /\ runs' = [runs EXCEPT ![r] = new]
      /\ alive' = alive /\ engineRun' = engineRun /\ chatRun' = chatRun
  BY DEF OpenDirect, Idle
<1> HIDE DEF new
<1>3. ChatTypeOK'
  BY <1>1, <1>2 DEF ChatTypeOK
<1>4. Kept({})
  BY <1>2 DEF Kept, Live, Idle, ChatTypeOK
<1> QED
  BY <1>3, <1>4

LEMMA OpenResumeEffect ==
    ASSUME ChatTypeOK, NEW s \in Sessions, NEW r \in Runs, OpenResume(s, r, NoJob), ~Busy(s)
    PROVE  ChatTypeOK' /\ Kept({engineRun[s]})
<1> DEFINE old == Aborted({chatRun[s], engineRun[s]})
           new == NewRun(s, "resume", "active", NoJob)
<1>1. /\ old \in [Runs -> Run]
      /\ \A q \in Runs : /\ old[q].phase = runs[q].phase /\ old[q].session = runs[q].session
                         /\ old[q].aborted <=> (runs[q].aborted \/ q \in {chatRun[s], engineRun[s]})
  BY AbortedEffect DEF ChatTypeOK
<1>2. new \in Run /\ new.phase = "active" /\ new.session = s /\ new.aborted = FALSE
  BY NewRunType
<1>3. /\ runs[r].phase = "idle" /\ runs' = [old EXCEPT ![r] = new]
      /\ chatRun' = [chatRun EXCEPT ![s] = r] /\ engineRun' = [engineRun EXCEPT ![s] = r]
      /\ alive' = alive \cup {s}
  BY DEF OpenResume, Idle
<1>4. chatRun[s] \notin Runs
  BY ResumeAssumption DEF Busy
<1> HIDE DEF old, new
<1>5. ChatTypeOK'
  BY <1>1, <1>2, <1>3 DEF ChatTypeOK
<1>6. Kept({engineRun[s]})
  BY <1>1, <1>3, <1>4 DEF Kept, Live, Idle
<1> QED
  BY <1>5, <1>6

LEMMA EnterRoundsEffect ==
    ASSUME ChatTypeOK, NEW r \in Runs, EnterRounds(r)
    PROVE  ChatTypeOK' /\ Kept({engineRun[runs[r].session]})
<1> DEFINE s == runs[r].session
           old == Aborted({engineRun[s]})
<1>1. /\ old \in [Runs -> Run]
      /\ \A q \in Runs : /\ old[q].phase = runs[q].phase /\ old[q].session = runs[q].session
                         /\ old[q].aborted <=> (runs[q].aborted \/ q \in {engineRun[s]})
  BY AbortedEffect DEF ChatTypeOK
<1>2. /\ runs[r].phase = "starting" /\ runs' = [old EXCEPT ![r].phase = "active"]
      /\ engineRun' = [engineRun EXCEPT ![s] = r] /\ alive' = alive \cup {s}
      /\ chatRun' = chatRun
  BY DEF EnterRounds
<1>3. s \in Sessions
  BY <1>2 DEF ChatTypeOK
<1> HIDE DEF old, s
<1>4. runs' \in [Runs -> Run]
  BY <1>1, <1>2 DEF Run, Phases
<1>5. \A q \in Runs : /\ runs'[q].session = runs[q].session
                      /\ runs'[q].aborted <=> (runs[q].aborted \/ q \in {engineRun[s]})
                      /\ runs'[q].phase = IF q = r THEN "active" ELSE runs[q].phase
  BY <1>1, <1>2 DEF Run
<1>6. ChatTypeOK'
  BY <1>2, <1>3, <1>4, <1>5 DEF ChatTypeOK
<1>7. Kept({engineRun[s]})
  BY <1>2, <1>5 DEF Kept, Live, Idle
<1> QED
  BY <1>6, <1>7 DEF s

LEMMA AbortRegisteredEffect ==
    ASSUME ChatTypeOK, NEW s \in Sessions, AbortRegistered(s)
    PROVE  ChatTypeOK' /\ Kept({chatRun[s]})
<1>1. runs' = Aborted({chatRun[s]}) /\ UNCHANGED <<alive, chatRun, engineRun>>
  BY DEF AbortRegistered
<1> QED
  BY <1>1, AbortedEffect DEF ChatTypeOK, Kept, Live, Idle

LEMMA DropSessionEffect ==
    ASSUME ChatTypeOK, NEW s \in Sessions, DropSession(s)
    PROVE  ChatTypeOK' /\ Kept({engineRun[s]})
<1>1. /\ runs' = Aborted({engineRun[s]}) /\ engineRun' = [engineRun EXCEPT ![s] = NoRun]
      /\ alive' = alive \ {s} /\ chatRun' = chatRun
  BY DEF DropSession
<1> QED
  BY <1>1, AbortedEffect DEF ChatTypeOK, Kept, Live, Idle

\* A chat moves on from its rounds, or returns, and takes its own entries with it.
LEMMA SaveReplyEffect ==
    ASSUME ChatTypeOK, NEW r \in Runs, SaveReply(r)
    PROVE  /\ ChatTypeOK'
           /\ \A q \in Runs : /\ runs'[q].session = runs[q].session
                              /\ runs'[q].aborted = runs[q].aborted
                              /\ runs'[q].phase = IF q = r THEN "replying" ELSE runs[q].phase
<1>1. runs[r].phase = "active" /\ runs' = [runs EXCEPT ![r].phase = "replying"]
      /\ alive' = alive \cup {runs[r].session} /\ UNCHANGED <<chatRun, engineRun>>
  BY DEF SaveReply, Working
<1> QED
  BY <1>1 DEF ChatTypeOK, Run, Phases

LEMMA SaveGivenUpEffect ==
    ASSUME ChatTypeOK, NEW r \in Runs, SaveGivenUp(r)
    PROVE  /\ ChatTypeOK'
           /\ \A q \in Runs : /\ runs'[q].session = runs[q].session
                              /\ runs'[q].aborted = runs[q].aborted
                              /\ runs'[q].phase = IF q = r THEN "cancelling" ELSE runs[q].phase
<1>1. runs[r].phase = "active" /\ runs' = [runs EXCEPT ![r].phase = "cancelling"]
      /\ engineRun' = [engineRun EXCEPT ![runs[r].session] = IF @ = r THEN NoRun ELSE @]
      /\ alive' = alive \cup {runs[r].session} /\ UNCHANGED chatRun
  BY DEF SaveGivenUp
<1> QED
  BY <1>1 DEF ChatTypeOK, Run, Phases

LEMMA LeaveEffect ==
    ASSUME ChatTypeOK, NEW r \in Runs, Leave(r)
    PROVE  /\ ChatTypeOK'
           /\ \A q \in Runs : runs'[q] = IF q = r THEN IdleRun ELSE runs[q]
<1>1. ChatTypeOK'
  BY IdleRunType DEF Leave, ChatTypeOK
<1> QED
  BY <1>1 DEF Leave, ChatTypeOK

-----------------------------------------------------------------------------
(***************************************************************************)
(* Questions.                                                              *)
(***************************************************************************)

\* A call of a step that leaves it alone keeps what is known of it.
LEMMA RejectKeeps ==
    ASSUME TypeOK, QuestionsFit, NEW R, NEW S, Reject(R, S), Kept(R),
           open' \subseteq open, stage' = stage
    PROVE  QuestionsFit'
<1>1. /\ calls' = AfterReject(R, S) /\ bridge' = bridge \ Rejected(R, S)
      /\ thrown' = thrown \cup ThrownBy(R, S)
  BY DEF Reject
<1>2. ASSUME NEW c \in Calls
      PROVE  /\ calls'[c].kind = calls[c].kind /\ calls'[c].session = calls[c].session
             /\ calls'[c].run = calls[c].run /\ calls'[c].attached = calls[c].attached
             /\ calls'[c].cut <=> (calls[c].cut \/ calls[c].run \in R \ {NoRun})
             /\ calls'[c].state = IF c \in Rejected(R, S) THEN "refused" ELSE calls[c].state
  BY <1>1, RejectEffect
<1>3. ASSUME NEW c \in Calls
      PROVE  calls[c].run \in Runs \cup {NoRun} /\ CallFits(calls[c])
  BY CallEdits DEF TypeOK, QuestionsFit
<1>4. \A c \in Rejected(R, S) : c \in Calls /\ c \in bridge /\ calls[c].state = "asking"
  BY DEF Rejected, TypeOK, QuestionsFit, AskersArePending
<1>5. ASSUME NEW c \in Calls, calls[c].run # NoRun
      PROVE  /\ runs'[calls[c].run].phase # "idle" /\ runs'[calls[c].run].session = runs[calls[c].run].session
             /\ runs[calls[c].run].phase = "active" => runs'[calls[c].run].phase = "active"
             /\ runs'[calls[c].run].aborted <=> (runs[calls[c].run].aborted \/ calls[c].run \in R)
  <2>1. calls[c].run \in Runs /\ Live(calls[c].run)
    BY <1>3, <1>5 DEF CallFits
  <2> QED
    BY <2>1 DEF Kept
<1>6. ASSUME NEW c \in Calls PROVE CallFits(calls[c])'
  <2>1. CASE c \in Rejected(R, S)
    <3>1. calls[c].kind = "round" => calls[c].run \in thrown'
      BY <1>1, <2>1 DEF ThrownBy
    <3> QED
      BY <1>2, <1>3, <1>4, <1>5, <2>1, <3>1 DEF CallFits, Live, Idle
  <2>2. CASE c \notin Rejected(R, S)
    <3>1. thrown \subseteq thrown'
      BY <1>1
    <3> QED
      BY <1>2, <1>3, <1>5, <2>2, <3>1 DEF CallFits, Live, Idle
  <2> QED
    BY <2>1, <2>2
<1>7. AskersArePending' /\ ClosedOnBothSides'
  BY <1>1, <1>2, <1>4 DEF QuestionsFit, AskersArePending, ClosedOnBothSides
<1>8. AskersGoOn'
  <2> SUFFICES ASSUME NEW c \in bridge'
               PROVE  ~calls'[c].cut /\ (calls'[c].kind = "round" => calls'[c].run \notin thrown')
    BY DEF AskersGoOn
  <2>1. c \in Calls /\ c \in bridge /\ c \notin Rejected(R, S)
    BY <1>1 DEF TypeOK
  <2>2. calls[c].run \notin R \ {NoRun} /\ calls[c].session \notin S
    BY <2>1 DEF Rejected
  <2>3. ~calls'[c].cut
    BY <1>2, <2>1, <2>2 DEF QuestionsFit, AskersGoOn
  <2>4. calls[c].kind = "round" => calls[c].run \notin ThrownBy(R, S)
    <3> SUFFICES ASSUME calls[c].kind = "round",
                        NEW d \in Rejected(R, S), calls[d].kind = "round",
                        calls[c].run = calls[d].run
                 PROVE  FALSE
      BY DEF ThrownBy
    <3>1. d \in Calls /\ (calls[d].run \in R \ {NoRun} \/ calls[d].session \in S)
      BY <1>4 DEF Rejected
    <3>2. calls[d].session = runs[calls[d].run].session /\ calls[c].session = runs[calls[c].run].session
      BY <1>3, <2>1, <3>1 DEF CallFits
    <3> QED
      BY <2>2, <3>1, <3>2
  <2> QED
    BY <1>1, <1>2, <2>1, <2>3, <2>4 DEF QuestionsFit, AskersGoOn
<1>9. (\A c \in open : calls[c].kind # "none")'
  BY <1>2 DEF QuestionsFit, TypeOK
<1> QED
  BY <1>6, <1>7, <1>8, <1>9 DEF QuestionsFit

LEMMA DepartKeeps ==
    ASSUME TypeOK, QuestionsFit, NEW r \in Runs, Depart(r), AttachedTo(r) = {}
    PROVE  QuestionsFit'
<1>1. \A q \in Runs : runs'[q] = IF q = r THEN IdleRun ELSE runs[q]
  BY LeaveEffect DEF Depart, TypeOK
<1>2. calls' = Orphaned(calls, r) /\ UNCHANGED <<thrown, bridge, open>>
      /\ stage' = [stage EXCEPT ![r] = "entry"]
  BY DEF Depart
<1>3. ASSUME NEW c \in Calls
      PROVE  calls'[c] = IF calls[c].run = r THEN [calls[c] EXCEPT !.run = NoRun] ELSE calls[c]
  BY <1>2 DEF Orphaned
<1>4. ASSUME NEW c \in Calls
      PROVE  /\ calls[c].run \in Runs \cup {NoRun} /\ calls[c] \in Call /\ CallFits(calls[c])
             /\ calls[c].run = r => ~calls[c].attached
  BY CallEdits DEF TypeOK, QuestionsFit, AttachedTo
<1>5. ASSUME NEW c \in Calls
      PROVE  /\ calls'[c].state = calls[c].state /\ calls'[c].kind = calls[c].kind
             /\ calls'[c].cut = calls[c].cut /\ calls'[c].attached = calls[c].attached
             /\ calls'[c].run = IF calls[c].run = r THEN NoRun ELSE calls[c].run
             /\ calls'[c].session = calls[c].session
  BY <1>3, <1>4 DEF Call
<1>6. ASSUME NEW c \in Calls PROVE CallFits(calls[c])'
  <2>1. CASE calls[c].run = r
    BY <1>4, <1>5, <2>1 DEF CallFits
  <2>2. CASE calls[c].run # r
    <3>1. calls[c].run # NoRun => /\ runs'[calls[c].run] = runs[calls[c].run]
                                  /\ stage'[calls[c].run] = stage[calls[c].run]
      BY <1>1, <1>2, <1>4, <2>2 DEF TypeOK
    <3> QED
      BY <1>2, <1>4, <1>5, <2>2, <3>1 DEF CallFits, Live, Idle
  <2> QED
    BY <2>1, <2>2
<1>7. AskersGoOn'
  <2> SUFFICES ASSUME NEW c \in bridge
               PROVE  ~calls'[c].cut /\ (calls'[c].kind = "round" => calls'[c].run \notin thrown)
    BY <1>2 DEF AskersGoOn
  <2>1. c \in Calls
    BY DEF TypeOK
  <2>2. calls[c].kind = "round" => calls[c].run # r
    BY <1>4, <2>1 DEF CallFits
  <2> QED
    BY <1>5, <2>1, <2>2 DEF QuestionsFit, AskersGoOn
<1>8. AskersArePending' /\ ClosedOnBothSides' /\ (\A c \in open : calls[c].kind # "none")'
  BY <1>2, <1>5 DEF QuestionsFit, AskersArePending, ClosedOnBothSides, TypeOK
<1> QED
  BY <1>6, <1>7, <1>8 DEF QuestionsFit

\* The chat that unwinds takes its round and every wait and record of the session with it.
LEMMA UnwindKeeps ==
    ASSUME TypeOK, QuestionsFit, NEW r \in Runs, Unwind(r)
    PROVE  QuestionsFit'
<1> DEFINE s == runs[r].session
           old == AfterReject({}, {s})
<1>1. \A q \in Runs : /\ runs'[q].session = runs[q].session
                      /\ runs'[q].aborted = runs[q].aborted
                      /\ runs'[q].phase = IF q = r THEN "cancelling" ELSE runs[q].phase
  BY SaveGivenUpEffect DEF Unwind, TypeOK
<1>2. /\ calls' = GivenUp(old, r) /\ bridge' = bridge \ Rejected({}, {s})
      /\ thrown' = (thrown \cup ThrownBy({}, {s})) \ {r}
      /\ open' = open \ CallsOf(s) /\ stage' = stage
      /\ \A c \in AttachedTo(r) : calls[c].kind = "round" => calls[c].state # "asking"
  BY DEF Unwind
<1>3. ASSUME NEW c \in Calls
      PROVE  /\ old[c] \in Call
             /\ old[c].kind = calls[c].kind /\ old[c].session = calls[c].session
             /\ old[c].run = calls[c].run /\ old[c].attached = calls[c].attached
             /\ old[c].cut <=> calls[c].cut
             /\ old[c].state = IF c \in Rejected({}, {s}) THEN "refused" ELSE calls[c].state
  BY RejectEffect
<1>4. \A c \in Calls : c \in Rejected({}, {s}) <=> (c \in bridge /\ calls[c].session = s)
  BY DEF Rejected
<1> HIDE DEF old, s
<1>5. ASSUME NEW c \in Calls
      PROVE  /\ calls[c].run \in Runs \cup {NoRun} /\ calls[c] \in Call /\ CallFits(calls[c])
             /\ calls[c].run = r => calls[c].session = s
             /\ c \in bridge <=> calls[c].state = "asking"
  <2>1. calls[c].run \in Runs \cup {NoRun} /\ calls[c] \in Call
    BY CallEdits DEF TypeOK
  <2>2. CallFits(calls[c])
    BY DEF QuestionsFit
  <2>3. calls[c].run = r => calls[c].session = s
    BY <2>2, ResumeAssumption DEF CallFits, s
  <2>4. c \in bridge <=> calls[c].state = "asking"
    BY DEF QuestionsFit, AskersArePending
  <2> QED
    BY <2>1, <2>2, <2>3, <2>4
<1>6. ASSUME NEW c \in Calls, calls[c].run # r
      PROVE  /\ calls'[c] = old[c]
             /\ calls[c].run # NoRun =>
                   /\ runs'[calls[c].run].phase = runs[calls[c].run].phase
                   /\ runs'[calls[c].run].session = runs[calls[c].run].session
                   /\ runs'[calls[c].run].aborted = runs[calls[c].run].aborted
  BY <1>1, <1>2, <1>3, <1>5, <1>6 DEF GivenUp
<1>7. ASSUME NEW c \in Calls, calls[c].run = r, calls[c].kind = "round"
      PROVE  calls'[c] = FreeCall
  BY <1>2, <1>3, <1>7 DEF GivenUp
<1>8. ASSUME NEW c \in Calls, calls[c].run = r, calls[c].kind # "round"
      PROVE  /\ calls'[c].attached = FALSE /\ calls'[c].run = r
             /\ calls'[c].kind = calls[c].kind /\ calls'[c].session = s
             /\ calls'[c].cut <=> calls[c].cut
             /\ calls'[c].state = old[c].state
  <2>1. calls'[c] = [old[c] EXCEPT !.attached = FALSE]
    BY <1>2, <1>3, <1>8 DEF GivenUp
  <2> QED
    BY <1>3, <1>5, <1>8, <2>1 DEF Call
<1>9. FreeCall.state = "free" /\ FreeCall.kind = "none" /\ FreeCall.run = NoRun /\ ~FreeCall.attached
  BY DEF FreeCall
<1>10. ASSUME NEW c \in Calls PROVE CallFits(calls[c])'
  <2>1. CASE calls[c].run = r /\ calls[c].kind = "round"
    BY <1>7, <1>9, <2>1 DEF CallFits
  <2>2. CASE calls[c].run = r /\ calls[c].kind # "round"
    <3>1. runs'[r].phase # "idle" /\ runs'[r].session = s /\ runs'[r].aborted = runs[r].aborted
      BY <1>1 DEF s
    <3>2. calls[c].state # "free" /\ (calls[c].cut <=> runs[r].aborted) /\ calls[c].kind # "none"
      BY <1>5, <2>2, ResumeAssumption DEF CallFits
    <3>3. calls'[c].state # "free" /\ (calls'[c].state = "working" => calls'[c].kind = "tool")
      <4>1. calls'[c].state = (IF c \in Rejected({}, {s}) THEN "refused" ELSE calls[c].state)
            /\ calls'[c].kind = calls[c].kind
        BY <1>3, <1>8, <2>2
      <4>2. calls[c].state = "working" => calls[c].kind = "tool"
        BY <1>5 DEF CallFits
      <4> QED
        BY <3>2, <4>1, <4>2
    <3>4. /\ calls'[c].attached = FALSE /\ calls'[c].run = r /\ calls'[c].session = s
          /\ calls'[c].kind # "none" /\ calls'[c].kind # "round"
          /\ calls'[c].cut <=> runs[r].aborted
      BY <1>8, <2>2, <3>2
    <3> QED
      BY <3>1, <3>3, <3>4 DEF CallFits, Live, Idle
  <2>3. CASE calls[c].run # r
    <3>1. c \in Rejected({}, {s}) /\ calls[c].kind = "round" => calls[c].run \in thrown'
      BY <1>2, <2>3 DEF ThrownBy
    <3>2. calls[c].run \in thrown => calls[c].run \in thrown'
      BY <1>2, <2>3
    <3> DEFINE k == calls[c]
               e == calls'[c]
               q == calls[c].run
    <3>5. /\ e.kind = k.kind /\ e.session = k.session /\ e.run = q /\ e.attached = k.attached
          /\ e.cut <=> k.cut
          /\ e.state = IF c \in Rejected({}, {s}) THEN "refused" ELSE k.state
      BY <1>3, <1>6, <2>3, SMTT(30)
    <3>6. /\ CallFits(k) /\ stage' = stage
          /\ c \in Rejected({}, {s}) => k.state = "asking"
          /\ q # NoRun => /\ runs'[q].phase = runs[q].phase
                          /\ runs'[q].session = runs[q].session
                          /\ runs'[q].aborted = runs[q].aborted
      BY <1>2, <1>4, <1>5, <1>6, <2>3
    <3> HIDE DEF k, e, q
    <3>3. CASE c \in Rejected({}, {s})
      BY <3>5, <3>6, <3>1, <3>3 DEF CallFits, Live, Idle, k, e, q
    <3>4. CASE c \notin Rejected({}, {s})
      BY <3>5, <3>6, <3>2, <3>4 DEF CallFits, Live, Idle, k, e, q
    <3> QED
      BY <3>3, <3>4
  <2> QED
    BY <2>1, <2>2, <2>3
<1>11. ASSUME NEW c \in Calls
       PROVE  c \in bridge' <=> calls'[c].state = "asking"
  <2>1. CASE calls[c].run = r /\ calls[c].kind = "round"
    <3>1. calls[c].state # "asking"
      BY <1>2, <1>5, <2>1, ResumeAssumption DEF CallFits, AttachedTo
    <3> QED
      BY <1>2, <1>5, <1>7, <1>9, <2>1, <3>1
  <2>2. CASE calls[c].run = r /\ calls[c].kind # "round"
    <3>1. calls'[c].state = IF c \in Rejected({}, {s}) THEN "refused" ELSE calls[c].state
      BY <1>3, <1>8, <2>2
    <3>2. c \in bridge' <=> (c \in bridge /\ c \notin Rejected({}, {s}))
      BY <1>2
    <3> QED
      BY <1>5, <3>1, <3>2
  <2>3. CASE calls[c].run # r
    BY <1>2, <1>3, <1>4, <1>5, <1>6, <2>3
  <2> QED
    BY <2>1, <2>2, <2>3
<1>12. AskersArePending'
  BY <1>2, <1>11 DEF AskersArePending, TypeOK
<1>13. ASSUME NEW c \in Calls, calls'[c].state = "answered"
       PROVE  c \notin bridge' /\ c \notin open'
  <2>1. c \notin bridge'
    BY <1>11, <1>13
  <2>2. calls[c].state = "answered"
    BY <1>3, <1>6, <1>7, <1>8, <1>9, <1>13, ZenonT(30)
  <2> QED
    BY <1>2, <2>1, <2>2 DEF QuestionsFit, ClosedOnBothSides
<1>14. AskersGoOn'
  <2> SUFFICES ASSUME NEW c \in bridge'
               PROVE  ~calls'[c].cut /\ (calls'[c].kind = "round" => calls'[c].run \notin thrown')
    BY DEF AskersGoOn
  <2>1. c \in Calls /\ c \in bridge /\ calls[c].session # s
    BY <1>2, <1>4 DEF TypeOK
  <2>2. calls'[c] = old[c] /\ ~calls[c].cut /\ (calls[c].kind = "round" => calls[c].run \notin thrown)
    BY <1>5, <1>6, <2>1 DEF QuestionsFit, AskersGoOn
  <2>3. calls[c].kind = "round" => calls[c].run \notin ThrownBy({}, {s})
    <3> SUFFICES ASSUME calls[c].kind = "round",
                        NEW d \in Rejected({}, {s}), calls[d].kind = "round",
                        calls[c].run = calls[d].run
                 PROVE  FALSE
      BY DEF ThrownBy
    <3>1. d \in Calls /\ calls[d].session = s
      BY <1>4 DEF Rejected, TypeOK
    <3>2. calls[d].session = runs[calls[d].run].session /\ calls[c].session = runs[calls[c].run].session
      BY <1>5, <2>1, <3>1 DEF CallFits
    <3> QED
      BY <2>1, <3>1, <3>2
  <2> QED
    BY <1>2, <1>3, <2>1, <2>2, <2>3
<1>15. ASSUME NEW c \in open' PROVE calls'[c].kind # "none"
  <2>1. c \in Calls /\ c \in open /\ calls[c].session # s
    BY <1>2 DEF TypeOK, CallsOf
  <2> QED
    BY <1>3, <1>5, <1>6, <2>1 DEF QuestionsFit
<1> QED
  BY <1>10, <1>12, <1>13, <1>14, <1>15 DEF QuestionsFit, ClosedOnBothSides

\* A step of one call, and of its own question.
LEMMA EditKeeps ==
    ASSUME TypeOK, QuestionsFit, NEW c \in Calls, NEW k \in Call,
           calls' = [calls EXCEPT ![c] = k], UNCHANGED <<runs, thrown>>,
           \A r \in Runs : stage'[r] = stage[r] \/ stage'[r] = "tools",
           CallFits(k)',
           bridge' = IF k.state = "asking" THEN bridge \cup {c} ELSE bridge \ {c},
           k.state = "asking" => ~k.cut /\ (k.kind = "round" => k.run \notin thrown),
           open' \subseteq open \cup {c},
           c \in open' => k.kind # "none" /\ k.state # "answered"
    PROVE  QuestionsFit'
<1>1. \A d \in Calls : calls'[d] = IF d = c THEN k ELSE calls[d]
  BY DEF TypeOK
<1>2. ASSUME NEW d \in Calls PROVE CallFits(calls[d])'
  <2>1. CASE d = c
    BY <1>1, <2>1 DEF CallFits
  <2>2. CASE d # c
    <3>1. calls'[d] = calls[d] /\ CallFits(calls[d]) /\ calls[d].run \in Runs \cup {NoRun}
      BY <1>1, <2>2, CallEdits DEF QuestionsFit, TypeOK
    <3> QED
      BY <3>1 DEF CallFits, Live, Idle
  <2> QED
    BY <2>1, <2>2
<1>3. AskersArePending'
  BY <1>1 DEF QuestionsFit, AskersArePending
<1>4. ClosedOnBothSides'
  BY <1>1, <1>3 DEF QuestionsFit, AskersArePending, ClosedOnBothSides
<1>5. AskersGoOn'
  <2> SUFFICES ASSUME NEW d \in bridge'
               PROVE  ~calls'[d].cut /\ (calls'[d].kind = "round" => calls'[d].run \notin thrown')
    BY DEF AskersGoOn
  <2>1. CASE d = c
    BY <1>1, <2>1
  <2>2. CASE d # c
    <3>1. d \in bridge /\ d \in Calls
      BY <2>2 DEF TypeOK
    <3> QED
      BY <1>1, <2>2, <3>1 DEF QuestionsFit, AskersGoOn
  <2> QED
    BY <2>1, <2>2
<1>6. (\A d \in open : calls[d].kind # "none")'
  BY <1>1 DEF QuestionsFit, TypeOK
<1> QED
  BY <1>2, <1>3, <1>4, <1>5, <1>6 DEF QuestionsFit

LEMMA SessionOf ==
    ASSUME TypeOK, NEW r \in Runs, Live(r)
    PROVE  runs[r].session \in Sessions
BY DEF TypeOK, ChatTypeOK, Live, Idle

LEMMA NewQuestionKeeps ==
    ASSUME TypeOK, QuestionsFit, NEW r \in Runs, NEW c \in Calls, StartTool(r, c) \/ AskUser(r, c)
    PROVE  QuestionsFit'
<1>1. /\ runs[r].phase = "active" /\ ~runs[r].aborted /\ r \notin thrown
      /\ calls[c].state = "free" /\ c \notin open /\ UNCHANGED <<runs, thrown>>
      /\ stage' = [stage EXCEPT ![r] = "tools"]
  BY DEF StartTool, AskUser, InTools, AtWork, Working, Unused, chatVars
<1>2. runs[r].session \in Sessions
  BY <1>1, SessionOf DEF Live, Idle
<1>3. c \notin bridge
  BY <1>1 DEF QuestionsFit, AskersArePending
<1>4. /\ \A q \in Runs : stage'[q] = stage[q] \/ stage'[q] = "tools"
      /\ stage'[r] = "tools"
  BY <1>1 DEF TypeOK
<1>5. CASE StartTool(r, c)
  <2>1. PICK k \in Call : k = NewCall(r, "tool", "working")
    BY <1>2, NewCallType
  <2>2. k.state = "working" /\ k.kind = "tool" /\ k.session = runs[r].session
        /\ k.run = r /\ k.attached = TRUE /\ k.cut = FALSE
    BY <2>1 DEF NewCall
  <2>3. calls' = [calls EXCEPT ![c] = k] /\ bridge' = bridge /\ open' = open
    BY <1>5, <2>1 DEF StartTool
  <2>4. CallFits(k)'
    BY <1>1, <1>4, <2>2, ResumeAssumption DEF CallFits, Live, Idle
  <2> QED
    BY <1>1, <1>3, <1>4, <2>2, <2>3, <2>4, EditKeeps
<1>6. CASE AskUser(r, c)
  <2>1. PICK k \in Call : k = NewCall(r, "round", "asking")
    BY <1>2, NewCallType
  <2>2. k.state = "asking" /\ k.kind = "round" /\ k.session = runs[r].session
        /\ k.run = r /\ k.attached = TRUE /\ k.cut = FALSE
    BY <2>1 DEF NewCall
  <2>3. calls' = [calls EXCEPT ![c] = k] /\ bridge' = bridge \cup {c} /\ open' \subseteq open \cup {c}
    BY <1>6, <2>1 DEF AskUser, Tracked
  <2>4. CallFits(k)'
    BY <1>1, <1>4, <2>2, ResumeAssumption DEF CallFits, Live, Idle
  <2> QED
    BY <1>1, <1>4, <2>2, <2>3, <2>4, EditKeeps
<1> QED
  BY <1>5, <1>6

LEMMA CallStepKeeps ==
    ASSUME TypeOK, QuestionsFit, NEW c \in Calls, CallStep(c)
    PROVE  QuestionsFit'
<1>1. /\ calls[c] \in Call /\ CallFits(calls[c]) /\ calls[c].run \in Runs \cup {NoRun}
      /\ c \in bridge <=> calls[c].state = "asking"
      /\ c \in open => calls[c].kind # "none" /\ calls[c].state # "answered"
      /\ c \in bridge => ~calls[c].cut /\ (calls[c].kind = "round" => calls[c].run \notin thrown)
  BY CallEdits DEF TypeOK, QuestionsFit, AskersArePending, ClosedOnBothSides, AskersGoOn
<1>2. UNCHANGED <<runs, thrown, stage>>
  BY DEF CallStep, ToolAsks, ToolTimeout, Return, chatVars
<1>3. CASE ToolAsks(c)
  <2>1. PICK k \in Call :
          k = [calls[c] EXCEPT !.state = IF calls[c].cut THEN "refused" ELSE "asking"]
    BY <1>1, CallEdits
  <2>2. /\ calls[c].kind = "tool" /\ calls[c].state = "working"
        /\ k.state = (IF calls[c].cut THEN "refused" ELSE "asking")
        /\ k.kind = "tool" /\ k.session = calls[c].session
        /\ k.run = calls[c].run /\ k.attached = calls[c].attached /\ k.cut = calls[c].cut
    BY <1>1, <1>3, <2>1 DEF ToolAsks, Call
  <2>3. /\ calls' = [calls EXCEPT ![c] = k] /\ open' \subseteq open \cup {c}
        /\ bridge' = IF k.state = "asking" THEN bridge \cup {c} ELSE bridge \ {c}
    BY <1>1, <1>3, <2>1, <2>2 DEF ToolAsks, Tracked
  <2>4. CallFits(k)'
    BY <1>1, <1>2, <2>2 DEF CallFits, Live, Idle
  <2> QED
    BY <1>2, <2>2, <2>3, <2>4, EditKeeps
<1>4. CASE ToolTimeout(c)
  <2>1. PICK k \in Call : k = [calls[c] EXCEPT !.attached = FALSE]
    BY <1>1, CallEdits
  <2>2. /\ calls[c].kind = "tool" /\ k.state = calls[c].state
        /\ k.kind = "tool" /\ k.session = calls[c].session
        /\ k.run = calls[c].run /\ k.attached = FALSE /\ k.cut = calls[c].cut
    BY <1>1, <1>4, <2>1 DEF ToolTimeout, Call
  <2>3. /\ calls' = [calls EXCEPT ![c] = k] /\ open' \subseteq open \cup {c}
        /\ bridge' = IF k.state = "asking" THEN bridge \cup {c} ELSE bridge \ {c}
    BY <1>1, <1>4, <2>1, <2>2 DEF ToolTimeout
  <2>4. CallFits(k)'
    BY <1>1, <1>2, <2>2 DEF CallFits, Live, Idle
  <2>5. open' = open
    BY <1>4 DEF ToolTimeout
  <2> QED
    BY <1>1, <1>2, <2>2, <2>3, <2>4, <2>5, EditKeeps
<1>5. CASE Return(c)
  <2>1. PICK k \in Call : k = Over(c)
    BY <1>1, OverType
  <2>2. calls' = [calls EXCEPT ![c] = k] /\ open' = open /\ bridge' = bridge /\ c \notin bridge
    BY <1>1, <1>5, <2>1 DEF Return
  <2>3. /\ k.state = "free" /\ k.run = NoRun /\ k.attached = FALSE
        /\ k.kind = IF c \in open THEN calls[c].kind ELSE "none"
    BY <2>1 DEF Over, FreeCall
  <2>4. c \in open => calls[c].kind = "tool"
    BY <1>1, <1>5 DEF Return
  <2>5. CallFits(k)'
    BY <2>3, <2>4 DEF CallFits
  <2> QED
    BY <1>2, <2>2, <2>3, <2>4, <2>5, EditKeeps
<1> QED
  BY <1>3, <1>4, <1>5 DEF CallStep

LEMMA UserStepKeeps ==
    ASSUME TypeOK, QuestionsFit, NEW c \in Calls, UserStep(c)
    PROVE  QuestionsFit'
<1>1. /\ calls[c] \in Call /\ CallFits(calls[c]) /\ calls[c].run \in Runs \cup {NoRun}
      /\ c \in bridge <=> calls[c].state = "asking"
  BY CallEdits DEF TypeOK, QuestionsFit, AskersArePending
<1>2. UNCHANGED <<runs, thrown, stage>> /\ open' = open \ {c}
  BY DEF UserStep, Answer, ResolveApproval, chatVars
<1>3. CASE c \in bridge
  <2>1. PICK k \in Call : k = [calls[c] EXCEPT !.state = "answered"]
    BY <1>1, CallEdits
  <2>2. /\ k.state = "answered" /\ k.kind = calls[c].kind /\ k.session = calls[c].session
        /\ k.run = calls[c].run /\ k.attached = calls[c].attached /\ k.cut = calls[c].cut
    BY <2>1 DEF Call
  <2>3. calls' = [calls EXCEPT ![c] = k] /\ bridge' = bridge \ {c}
    BY <1>3, <2>1 DEF UserStep, Answer, ResolveApproval, Submit
  <2>4. CallFits(k)'
    BY <1>1, <1>2, <1>3, <2>2 DEF CallFits, Live, Idle
  <2> QED
    BY <1>2, <2>2, <2>3, <2>4, EditKeeps
<1>4. CASE c \notin bridge
  <2>1. UNCHANGED <<calls, bridge>>
    BY <1>4 DEF UserStep, Answer, ResolveApproval
  <2> QED
    BY <1>2, <2>1 DEF QuestionsFit, CallFits, Live, Idle, AskersArePending, ClosedOnBothSides,
                      AskersGoOn
<1> QED
  BY <1>3, <1>4

\* The steps that leave the questions alone.
LEMMA StillKeeps ==
    ASSUME TypeOK, QuestionsFit, UNCHANGED <<runs, thrown, calls, bridge>>, open' \subseteq open,
           \A c \in Calls : calls[c].attached => stage'[calls[c].run] = stage[calls[c].run]
    PROVE  QuestionsFit'
BY DEF QuestionsFit, CallFits, Live, Idle, AskersArePending, ClosedOnBothSides, AskersGoOn

LEMMA QuestionStep == TypeOK /\ QuestionsFit /\ [Next]_vars => QuestionsFit'
<1> SUFFICES ASSUME TypeOK, QuestionsFit, [Next]_vars PROVE QuestionsFit'
  OBVIOUS
<1> USE DEF TypeOK
<1>1. ASSUME NEW s \in Sessions, NEW r \in Runs, StartStream(s, r) PROVE QuestionsFit'
  BY <1>1, OpenStreamEffect, RejectKeeps DEF StartStream
<1>2. ASSUME NEW s \in Sessions, NEW r \in Runs, StartDirect(s, r) PROVE QuestionsFit'
  <2>1. Kept({}) /\ UNCHANGED <<thrown, calls, bridge, open, stage>>
    BY <1>2, OpenDirectEffect DEF StartDirect, askVars
  <2>2. ASSUME NEW c \in Calls PROVE CallFits(calls[c])'
    <3>1. CallFits(calls[c]) /\ calls[c].run \in Runs \cup {NoRun}
      BY CallEdits DEF QuestionsFit
    <3>2. calls[c].run # NoRun => Live(calls[c].run)
      BY <3>1 DEF CallFits
    <3>3. calls[c].run # NoRun =>
             /\ runs'[calls[c].run].phase # "idle"
             /\ runs[calls[c].run].phase = "active" => runs'[calls[c].run].phase = "active"
             /\ runs'[calls[c].run].session = runs[calls[c].run].session
             /\ runs'[calls[c].run].aborted <=> runs[calls[c].run].aborted
      BY <2>1, <3>1, <3>2 DEF Kept
    <3>4. calls[c].kind = "round" => calls[c].run # NoRun
      BY <3>1 DEF CallFits
    <3> QED
      BY <2>1, <3>1, <3>3, <3>4 DEF CallFits, Live, Idle
  <2> QED
    BY <2>1, <2>2 DEF QuestionsFit, AskersArePending, ClosedOnBothSides, AskersGoOn
<1>3. ASSUME NEW s \in Sessions, NEW r \in Runs, Resume(s, r) PROVE QuestionsFit'
  BY <1>3, OpenResumeEffect, RejectKeeps DEF Resume
<1>4. ASSUME NEW r \in Runs, Activate(r) PROVE QuestionsFit'
  BY <1>4, EnterRoundsEffect, RejectKeeps DEF Activate
<1>5. ASSUME NEW r \in Runs, Round(r) PROVE QuestionsFit'
  <2>1. \A c \in Calls : calls[c].attached => calls[c].run # r
    BY <1>5 DEF Round, AttachedTo
  <2> QED
    BY <1>5, <2>1, StillKeeps DEF Round, chatVars, askVars
<1>6. ASSUME NEW r \in Runs, RejectStart(r) \/ Throw(r) \/ Finish(r) PROVE QuestionsFit'
  <2>1. Depart(r) /\ (runs[r].phase # "active" \/ AttachedTo(r) = {})
    BY <1>6 DEF RejectStart, Throw, Finish
  <2>2. runs[r].phase # "active" => AttachedTo(r) = {}
    BY DEF AttachedTo, QuestionsFit, CallFits
  <2> QED
    BY <2>1, <2>2, DepartKeeps
<1>7. ASSUME NEW r \in Runs, Reply(r) PROVE QuestionsFit'
  <2>1. \A q \in Runs : /\ runs'[q].session = runs[q].session
                        /\ runs'[q].aborted = runs[q].aborted
                        /\ runs'[q].phase = IF q = r THEN "replying" ELSE runs[q].phase
    BY <1>7, SaveReplyEffect DEF Reply
  <2>2. UNCHANGED <<thrown, calls, bridge, open, stage>> /\ stage[r] = "model"
    BY <1>7 DEF Reply, askVars
  <2>3. ASSUME NEW c \in Calls PROVE CallFits(calls[c])'
    <3>1. CallFits(calls[c]) /\ calls[c].run \in Runs \cup {NoRun}
      BY CallEdits DEF QuestionsFit
    <3>2. calls[c].attached => calls[c].run # r
      BY <2>2, <3>1 DEF CallFits
    <3> QED
      BY <2>1, <2>2, <3>1, <3>2 DEF CallFits, Live, Idle
  <2> QED
    BY <2>2, <2>3 DEF QuestionsFit, AskersArePending, ClosedOnBothSides, AskersGoOn
<1>8. ASSUME NEW r \in Runs, Unwind(r) PROVE QuestionsFit'
  BY <1>8, UnwindKeeps
<1>9. ASSUME NEW r \in Runs, NEW c \in Calls, StartTool(r, c) \/ AskUser(r, c) PROVE QuestionsFit'
  BY <1>9, NewQuestionKeeps
<1>10. ASSUME NEW c \in Calls, CallStep(c) \/ UserStep(c) PROVE QuestionsFit'
  BY <1>10, CallStepKeeps, UserStepKeeps
<1>11. ASSUME NEW s \in Sessions, CancelApprovals(s) PROVE QuestionsFit'
  BY <1>11, StillKeeps DEF CancelApprovals, chatVars
<1>12. ASSUME NEW s \in Sessions, Stop(s) PROVE QuestionsFit'
  BY <1>12, AbortRegisteredEffect, RejectKeeps DEF Stop
<1>13. ASSUME NEW s \in Sessions, Disconnect(s) PROVE QuestionsFit'
  BY <1>13, AbortRegisteredEffect, RejectKeeps DEF Disconnect
<1>14. ASSUME NEW s \in Sessions, DeleteSession(s) PROVE QuestionsFit'
  BY <1>14, DropSessionEffect, RejectKeeps DEF DeleteSession
<1>15. ASSUME NEW s \in Sessions, Truncate(s) PROVE QuestionsFit'
  <2>1. Kept({})
    BY <1>15 DEF Truncate, chatVars, Kept, Live, Idle
  <2> QED
    BY <1>15, <2>1, RejectKeeps DEF Truncate
<1>16. ASSUME NEW s \in Sessions, Archive(s) \/ \E m \in Messages : Steer(s, m) PROVE QuestionsFit'
  BY <1>16, StillKeeps DEF Archive, Steer, chatVars, askVars
<1>17. CASE UNCHANGED vars
  BY <1>17, StillKeeps DEF vars, askVars
<1> QED
  BY <1>1, <1>2, <1>3, <1>4, <1>5, <1>6, <1>7, <1>8, <1>9, <1>10, <1>11, <1>12, <1>13, <1>14,
     <1>15, <1>16, <1>17 DEF Next, ChatStep, SessionStep

-----------------------------------------------------------------------------
(***************************************************************************)
(* Types.                                                                  *)
(***************************************************************************)
LEMMA RejectType ==
    ASSUME TypeOK, QuestionsFit, NEW R, NEW S, Reject(R, S)
    PROVE  /\ calls' \in [Calls -> Call] /\ bridge' \subseteq Calls /\ thrown' \subseteq Runs
BY RejectEffect, ThrownEffect DEF Reject, TypeOK

LEMMA EmptiedType ==
    ASSUME TypeOK, NEW s
    PROVE  Emptied(s) \in [Messages -> [session : Sessions \cup {NoSession}, run : Runs \cup {NoRun}]]
BY DEF Emptied, NoSteer, TypeOK

LEMMA UnboundType ==
    ASSUME TypeOK, NEW r \in Runs
    PROVE  Unbound(r) \in [Sessions -> Runs \cup {NoRun}]
BY DEF Unbound, TypeOK

LEMMA DepartType ==
    ASSUME TypeOK, NEW r \in Runs, Depart(r)
    PROVE  TypeOK'
<1>1. ChatTypeOK'
  BY LeaveEffect DEF Depart, TypeOK
<1>2. calls' \in [Calls -> Call]
  BY CallEdits DEF Depart, Orphaned, TypeOK
<1>3. steer' \in [Messages -> [session : Sessions \cup {NoSession}, run : Runs \cup {NoRun}]]
  BY DEF Depart, Unaddressed, TypeOK
<1>4. bound' \in [Sessions -> Runs \cup {NoRun}]
  BY UnboundType DEF Depart
<1> QED
  BY <1>1, <1>2, <1>3, <1>4 DEF Depart, TypeOK

LEMMA UnwindType ==
    ASSUME TypeOK, QuestionsFit, NEW r \in Runs, Unwind(r)
    PROVE  TypeOK'
<1>1. ChatTypeOK'
  BY SaveGivenUpEffect DEF Unwind, TypeOK
<1>2. calls' \in [Calls -> Call]
  <2>1. \A c \in Calls : AfterReject({}, {runs[r].session})[c] \in Call
    BY RejectEffect
  <2> QED
    BY <2>1, CallEdits, OverType DEF Unwind, GivenUp
<1>3. steer' \in [Messages -> [session : Sessions \cup {NoSession}, run : Runs \cup {NoRun}]]
  BY EmptiedType DEF Unwind
<1>4. bound' \in [Sessions -> Runs \cup {NoRun}]
  BY UnboundType DEF Unwind
<1>5. thrown' \subseteq Runs
  BY ThrownEffect DEF Unwind, TypeOK
<1> QED
  BY <1>1, <1>2, <1>3, <1>4, <1>5 DEF Unwind, TypeOK

LEMMA TypeStep == TypeOK /\ QuestionsFit /\ [Next]_vars => TypeOK'
<1> SUFFICES ASSUME TypeOK, QuestionsFit, [Next]_vars PROVE TypeOK'
  OBVIOUS
<1>1. ASSUME NEW s \in Sessions, NEW r \in Runs, StartStream(s, r) PROVE TypeOK'
  BY <1>1, OpenStreamEffect, RejectType DEF StartStream, TypeOK
<1>2. ASSUME NEW s \in Sessions, NEW r \in Runs, StartDirect(s, r) PROVE TypeOK'
  BY <1>2, OpenDirectEffect DEF StartDirect, TypeOK, askVars
<1>3. ASSUME NEW s \in Sessions, NEW r \in Runs, Resume(s, r) PROVE TypeOK'
  <2>1. ChatTypeOK'
    BY <1>3, OpenResumeEffect DEF Resume, TypeOK
  <2> QED
    BY <1>3, <2>1, RejectType DEF Resume, TypeOK
<1>4. ASSUME NEW r \in Runs, Activate(r) PROVE TypeOK'
  <2>1. ChatTypeOK'
    BY <1>4, EnterRoundsEffect DEF Activate, TypeOK
  <2> QED
    BY <1>4, <2>1, RejectType DEF Activate, TypeOK
<1>5. ASSUME NEW r \in Runs, Round(r) PROVE TypeOK'
  BY <1>5, EmptiedType DEF Round, TypeOK, ChatTypeOK, chatVars, askVars
<1>6. ASSUME NEW r \in Runs, RejectStart(r) \/ Throw(r) \/ Finish(r) PROVE TypeOK'
  BY <1>6, DepartType DEF RejectStart, Throw, Finish
<1>7. ASSUME NEW r \in Runs, Reply(r) PROVE TypeOK'
  <2>1. ChatTypeOK'
    BY <1>7, SaveReplyEffect DEF Reply, TypeOK
  <2> QED
    BY <1>7, <2>1 DEF Reply, TypeOK, askVars
<1>8. ASSUME NEW r \in Runs, Unwind(r) PROVE TypeOK'
  BY <1>8, UnwindType
<1>9. ASSUME NEW r \in Runs, NEW c \in Calls, StartTool(r, c) \/ AskUser(r, c) PROVE TypeOK'
  <2>1. runs[r].session \in Sessions
    BY <1>9, SessionOf DEF StartTool, AskUser, InTools, AtWork, Working, Live, Idle
  <2>2. calls' \in [Calls -> Call]
    BY <1>9, <2>1, NewCallType DEF StartTool, AskUser, TypeOK
  <2> QED
    BY <1>9, <2>2 DEF StartTool, AskUser, Tracked, TypeOK, ChatTypeOK, chatVars
<1>10. ASSUME NEW c \in Calls, CallStep(c) \/ UserStep(c) PROVE TypeOK'
  <2>1. calls' \in [Calls -> Call]
    <3> DEFINE k == calls[c]
    <3>. /\ [k EXCEPT !.state = "asking"] \in Call /\ [k EXCEPT !.state = "refused"] \in Call
         /\ [k EXCEPT !.state = "answered"] \in Call /\ [k EXCEPT !.attached = FALSE] \in Call
         /\ calls \in [Calls -> Call]
      BY CallEdits DEF TypeOK
    <3>1. CASE ToolAsks(c) \/ ToolTimeout(c)
      BY <3>1 DEF ToolAsks, ToolTimeout
    <3>2. CASE Return(c)
      BY <3>2, OverType DEF Return, TypeOK
    <3>3. CASE UserStep(c)
      BY <3>3 DEF UserStep, Answer, ResolveApproval, Submit
    <3> QED
      BY <1>10, <3>1, <3>2, <3>3 DEF CallStep
  <2>2. bridge' \subseteq Calls /\ open' \subseteq Calls
        /\ UNCHANGED <<alive, runs, chatRun, engineRun, thrown, stage, bound, steer>>
    BY <1>10 DEF CallStep, UserStep, ToolAsks, ToolTimeout, Return, Answer, ResolveApproval, Submit,
                 Tracked, TypeOK, chatVars
  <2> QED
    BY <2>1, <2>2 DEF TypeOK, ChatTypeOK
<1>11. ASSUME NEW s \in Sessions, CancelApprovals(s) PROVE TypeOK'
  BY <1>11 DEF CancelApprovals, TypeOK, ChatTypeOK, chatVars
<1>12. ASSUME NEW s \in Sessions, Stop(s) PROVE TypeOK'
  BY <1>12, AbortRegisteredEffect, RejectType, EmptiedType DEF Stop, TypeOK
<1>13. ASSUME NEW s \in Sessions, Disconnect(s) PROVE TypeOK'
  BY <1>13, AbortRegisteredEffect, RejectType DEF Disconnect, TypeOK
<1>14. ASSUME NEW s \in Sessions, DeleteSession(s) PROVE TypeOK'
  BY <1>14, DropSessionEffect, RejectType, EmptiedType DEF DeleteSession, TypeOK
<1>15. ASSUME NEW s \in Sessions, Truncate(s) PROVE TypeOK'
  BY <1>15, RejectType, EmptiedType DEF Truncate, TypeOK, ChatTypeOK, chatVars
<1>16. ASSUME NEW s \in Sessions, Archive(s) \/ \E m \in Messages : Steer(s, m) PROVE TypeOK'
  <2>1. steer' \in [Messages -> [session : Sessions \cup {NoSession}, run : Runs \cup {NoRun}]]
    BY <1>16, EmptiedType DEF Archive, Steer, TypeOK, ChatTypeOK
  <2> QED
    BY <1>16, <2>1 DEF Archive, Steer, TypeOK, ChatTypeOK, chatVars, askVars
<1>17. CASE UNCHANGED vars
  BY <1>17 DEF vars, askVars, TypeOK, ChatTypeOK
<1> QED
  BY <1>1, <1>2, <1>3, <1>4, <1>5, <1>6, <1>7, <1>8, <1>9, <1>10, <1>11, <1>12, <1>13, <1>14,
     <1>15, <1>16, <1>17 DEF Next, ChatStep, SessionStep

-----------------------------------------------------------------------------
(***************************************************************************)
(* Chats.                                                                  *)
(***************************************************************************)

\* Steps that touch no chat.
LEMMA ChatsStill ==
    ASSUME ChatsFit, UNCHANGED chatVars, UNCHANGED <<thrown, bound>>
    PROVE  ChatsFit'
BY DEF ChatsFit, Live, Idle, Working, WorkersAreBound, chatVars

\* Aborts.
LEMMA ChatsAborted ==
    ASSUME TypeOK, QuestionsFit, ChatsFit, NEW s \in Sessions, NEW S,
           \/ AbortRegistered(s) /\ Reject({chatRun[s]}, S)
           \/ DropSession(s) /\ Reject({engineRun[s]}, S)
           \/ UNCHANGED chatVars /\ Reject({}, S),
           bound' = bound
    PROVE  ChatsFit'
<1>1. \A r \in Runs : /\ runs'[r].phase = runs[r].phase /\ runs'[r].session = runs[r].session
                      /\ runs[r].aborted => runs'[r].aborted
  BY AbortedEffect DEF TypeOK, ChatTypeOK, AbortRegistered, DropSession, chatVars
<1>2. chatRun' = chatRun
  BY DEF AbortRegistered, DropSession, chatVars
<1>3. \/ engineRun' = engineRun /\ alive' = alive
      \/ /\ engineRun' = [engineRun EXCEPT ![s] = NoRun] /\ alive' = alive \ {s}
         /\ \A r \in Runs : r = engineRun[s] => runs'[r].aborted
  BY AbortedEffect DEF TypeOK, ChatTypeOK, AbortRegistered, DropSession, chatVars
<1>4. \A r \in Runs : Working(r)' => Working(r)
  BY <1>1 DEF Working
<1>5. (\A q \in Sessions, r \in Runs :
          (chatRun[q] = r \/ engineRun[q] = r) => Live(r) /\ runs[r].session = q)'
  BY <1>1, <1>2, <1>3, ResumeAssumption DEF ChatsFit, Live, Idle, TypeOK, ChatTypeOK
<1>6. ASSUME NEW r \in Runs, Working(r)'
      PROVE  engineRun'[runs'[r].session] = r /\ runs'[r].session \in alive'
  <2>1. engineRun[runs[r].session] = r /\ runs[r].session \in alive /\ ~runs'[r].aborted
    BY <1>4, <1>6 DEF ChatsFit, Working
  <2> QED
    BY <1>1, <1>3, <2>1 DEF TypeOK, ChatTypeOK
<1>7. WorkersAreBound'
  BY <1>1, <1>4 DEF ChatsFit, WorkersAreBound
<1>8. ASSUME NEW r \in thrown' PROVE runs'[r].phase = "active"
  BY <1>1, <1>8, ThrownEffect DEF Reject, ChatsFit, TypeOK
<1> QED
  BY <1>5, <1>6, <1>7, <1>8 DEF ChatsFit

\* A chat that begins to wait: no table but the server's may name it.
LEMMA ChatsOpened ==
    ASSUME TypeOK, QuestionsFit, ChatsFit, NEW s \in Sessions, NEW r \in Runs,
           StartStream(s, r) \/ StartDirect(s, r)
    PROVE  ChatsFit'
<1>1. /\ runs[r].phase = "idle" /\ UNCHANGED <<alive, engineRun, bound>>
      /\ chatRun' = chatRun \/ chatRun' = [chatRun EXCEPT ![s] = r]
  BY DEF StartStream, StartDirect, OpenStream, OpenDirect, Idle
<1>2. \A q \in Runs : IF q = r
                      THEN runs'[q].phase = "starting" /\ runs'[q].session = s
                      ELSE /\ runs'[q].phase = runs[q].phase
                           /\ runs'[q].session = runs[q].session
                           /\ runs[q].aborted => runs'[q].aborted
  <2>1. CASE StartStream(s, r)
    <3>1. runs' = [Aborted({chatRun[s]}) EXCEPT ![r] = NewRun(s, "stream", "starting", NoJob)]
      BY <2>1 DEF StartStream, OpenStream
    <3> QED
      BY <3>1, AbortedEffect DEF TypeOK, ChatTypeOK, NewRun
  <2>2. CASE StartDirect(s, r)
    BY <2>2 DEF StartDirect, OpenDirect, TypeOK, ChatTypeOK, NewRun
  <2> QED
    BY <2>1, <2>2
<1>3. ASSUME NEW q \in Runs, Working(q)'
      PROVE  Working(q) /\ runs'[q].session = runs[q].session
  BY <1>2, <1>3 DEF Working
<1>4. (\A q \in Sessions, x \in Runs :
          (chatRun[q] = x \/ engineRun[q] = x) => Live(x) /\ runs[x].session = q)'
  BY <1>1, <1>2 DEF ChatsFit, Live, Idle, TypeOK, ChatTypeOK
<1>5. \A q \in Runs : Working(q)' => engineRun'[runs'[q].session] = q /\ runs'[q].session \in alive'
  BY <1>1, <1>3 DEF ChatsFit
<1>6. WorkersAreBound'
  BY <1>1, <1>3 DEF ChatsFit, WorkersAreBound
<1>7. ASSUME NEW q \in thrown' PROVE runs'[q].phase = "active"
  <2>1. q \in Runs /\ runs[q].phase = "active"
    BY <1>7, ThrownEffect DEF StartStream, StartDirect, Reject, ChatsFit, TypeOK
  <2> QED
    BY <1>1, <1>2, <2>1
<1> QED
  BY <1>4, <1>5, <1>6, <1>7 DEF ChatsFit

\* A chat that goes to work: its predecessor in the engine's table stops working.
LEMMA ChatsEntered ==
    ASSUME TypeOK, QuestionsFit, ChatsFit, NEW s \in Sessions, NEW r \in Runs,
           Resume(s, r) \/ (Activate(r) /\ runs[r].session = s)
    PROVE  ChatsFit'
<1>1. /\ runs[r].phase \in {"idle", "starting"} /\ alive' = alive \cup {s}
      /\ engineRun' = [engineRun EXCEPT ![s] = r] /\ bound' = [bound EXCEPT ![s] = r]
      /\ chatRun' = chatRun \/ chatRun' = [chatRun EXCEPT ![s] = r]
      /\ Reject({engineRun[s]}, {})
  BY DEF Resume, Activate, OpenResume, EnterRounds, Idle
<1>2. \A q \in Runs : IF q = r
                      THEN runs'[q].phase = "active" /\ runs'[q].session = s
                      ELSE /\ runs'[q].phase = runs[q].phase
                           /\ runs'[q].session = runs[q].session
                           /\ (runs[q].aborted \/ q = engineRun[s]) => runs'[q].aborted
  <2>1. CASE Resume(s, r)
    <3>1. runs' = [Aborted({chatRun[s], engineRun[s]}) EXCEPT ![r] = NewRun(s, "resume", "active", NoJob)]
      BY <2>1 DEF Resume, OpenResume
    <3> QED
      BY <3>1, AbortedEffect DEF TypeOK, ChatTypeOK, NewRun
  <2>2. CASE Activate(r) /\ runs[r].session = s
    <3>1. runs' = [Aborted({engineRun[s]}) EXCEPT ![r].phase = "active"]
      BY <2>2 DEF Activate, EnterRounds
    <3>2. \A x \in Run : /\ [x EXCEPT !.phase = "active"].phase = "active"
                         /\ [x EXCEPT !.phase = "active"].session = x.session
      BY DEF Run
    <3> QED
      BY <2>2, <3>1, <3>2, AbortedEffect DEF TypeOK, ChatTypeOK
  <2> QED
    BY <2>1, <2>2
<1>3. ASSUME NEW q \in Runs, Working(q)', q # r
      PROVE  /\ Working(q) /\ runs'[q].session = runs[q].session /\ runs[q].session # s
             /\ engineRun[runs[q].session] = q /\ runs[q].session \in alive
             /\ runs[q].session \in Sessions
  <2>1. Working(q) /\ runs'[q].session = runs[q].session /\ q # engineRun[s]
    BY <1>2, <1>3 DEF Working
  <2> QED
    BY <2>1, SessionOf DEF ChatsFit, Working, Live, Idle
<1>4. (\A q \in Sessions, x \in Runs :
          (chatRun[q] = x \/ engineRun[q] = x) => Live(x) /\ runs[x].session = q)'
  <2> SUFFICES ASSUME NEW q \in Sessions, NEW x \in Runs, chatRun'[q] = x \/ engineRun'[q] = x
               PROVE  runs'[x].phase # "idle" /\ runs'[x].session = q
    BY DEF Live, Idle
  <2>1. (q = s /\ x = r) \/ chatRun[q] = x \/ engineRun[q] = x
    BY <1>1 DEF TypeOK, ChatTypeOK
  <2>2. CASE q = s /\ x = r
    BY <1>2, <2>2
  <2>3. CASE chatRun[q] = x \/ engineRun[q] = x
    <3>1. runs[x].phase # "idle" /\ runs[x].session = q
      BY <2>3 DEF ChatsFit, Live, Idle
    <3>2. x = r => q = s
      <4>1. CASE Resume(s, r)
        BY <3>1, <4>1 DEF Resume, OpenResume, Idle
      <4>2. CASE runs[r].session = s
        BY <3>1, <4>2
      <4> QED
        BY <4>1, <4>2
    <3> QED
      BY <1>2, <3>1, <3>2
  <2> QED
    BY <2>1, <2>2, <2>3
<1>5. ASSUME NEW q \in Runs, Working(q)'
      PROVE  engineRun'[runs'[q].session] = q /\ runs'[q].session \in alive'
  <2>1. CASE q = r
    BY <1>1, <1>2, <2>1 DEF TypeOK, ChatTypeOK
  <2>2. CASE q # r
    BY <1>1, <1>3, <1>5, <2>2 DEF TypeOK, ChatTypeOK
  <2> QED
    BY <2>1, <2>2
<1>6. ASSUME NEW q \in Runs, Working(q)' PROVE bound'[runs'[q].session] = q
  <2>1. CASE q = r
    BY <1>1, <1>2, <2>1 DEF TypeOK
  <2>2. CASE q # r
    BY <1>1, <1>3, <1>6, <2>2 DEF TypeOK, ChatsFit, WorkersAreBound
  <2> QED
    BY <2>1, <2>2
<1>7. ASSUME NEW q \in thrown' PROVE runs'[q].phase = "active"
  <2>1. q \in Runs /\ runs[q].phase = "active"
    BY <1>1, <1>7, ThrownEffect DEF Reject, ChatsFit, TypeOK
  <2> QED
    BY <1>1, <1>2, <2>1
<1> QED
  BY <1>4, <1>5, <1>6, <1>7 DEF ChatsFit, WorkersAreBound

\* A chat that leaves its rounds, or returns: nobody's entry goes with it but its own.
LEMMA ChatsLeft ==
    ASSUME TypeOK, QuestionsFit, ChatsFit, NEW r \in Runs,
           (Depart(r) /\ r \notin thrown) \/ Reply(r) \/ Unwind(r)
    PROVE  ChatsFit'
<1> DEFINE s == runs[r].session
<1>1. \A q \in Runs : /\ q # r => /\ runs'[q].phase = runs[q].phase
                                  /\ runs'[q].session = runs[q].session
                                  /\ runs'[q].aborted = runs[q].aborted
                      /\ q = r => runs'[q].phase # "active"
  BY LeaveEffect, IdleRunType, SaveReplyEffect, SaveGivenUpEffect DEF Depart, Reply, Unwind, TypeOK
<1>2. runs'[r].phase = "idle" \/ runs'[r].session = s
  BY LeaveEffect, IdleRunType, SaveReplyEffect, SaveGivenUpEffect DEF Depart, Reply, Unwind, TypeOK
<1>3. /\ engineRun' = engineRun \/ engineRun' = [engineRun EXCEPT ![s] = IF @ = r THEN NoRun ELSE @]
      /\ chatRun' = chatRun \/ chatRun' = [chatRun EXCEPT ![s] = IF @ = r THEN NoRun ELSE @]
      /\ bound' = bound \/ bound' = [bound EXCEPT ![s] = IF @ = r THEN NoRun ELSE @]
      /\ alive \subseteq alive'
  BY DEF Depart, Reply, Unwind, Leave, SaveReply, SaveGivenUp, Unbound
<1>4. runs'[r].phase = "idle" =>
         /\ engineRun' = [engineRun EXCEPT ![s] = IF @ = r THEN NoRun ELSE @]
         /\ chatRun' = [chatRun EXCEPT ![s] = IF @ = r THEN NoRun ELSE @]
  BY SaveReplyEffect, SaveGivenUpEffect DEF Depart, Reply, Unwind, Leave, TypeOK
<1> HIDE DEF s
<1>5. (\A q \in Sessions, x \in Runs :
          (chatRun[q] = x \/ engineRun[q] = x) => Live(x) /\ runs[x].session = q)'
  <2> SUFFICES ASSUME NEW q \in Sessions, NEW x \in Runs, chatRun'[q] = x \/ engineRun'[q] = x
               PROVE  runs'[x].phase # "idle" /\ runs'[x].session = q
    BY DEF Live, Idle
  <2>1. chatRun[q] = x \/ engineRun[q] = x
    BY <1>3, ResumeAssumption DEF TypeOK, ChatTypeOK
  <2>2. runs[x].phase # "idle" /\ runs[x].session = q
    BY <2>1 DEF ChatsFit, Live, Idle
  <2>3. x = r => runs'[r].phase # "idle"
    BY <1>4, <2>2, ResumeAssumption DEF TypeOK, ChatTypeOK, s
  <2> QED
    BY <1>1, <1>2, <2>2, <2>3 DEF s
<1>6. ASSUME NEW q \in Runs, Working(q)'
      PROVE  /\ q # r /\ Working(q) /\ runs'[q].session = runs[q].session
             /\ engineRun[runs[q].session] = q /\ runs[q].session \in alive
             /\ bound[runs[q].session] = q /\ runs[q].session \in Sessions
  BY <1>1, <1>6, SessionOf DEF ChatsFit, Working, Live, Idle, WorkersAreBound
<1>7. ASSUME NEW q \in Runs, Working(q)'
      PROVE  /\ engineRun'[runs'[q].session] = q /\ runs'[q].session \in alive'
             /\ bound'[runs'[q].session] = q
  BY <1>3, <1>6, <1>7 DEF TypeOK, ChatTypeOK
<1>8. ASSUME NEW q \in thrown' PROVE runs'[q].phase = "active"
  <2>1. q \in Runs /\ runs[q].phase = "active"
    BY <1>8, ThrownEffect DEF Depart, Reply, Unwind, ChatsFit, TypeOK
  <2>2. q # r
    BY <1>8 DEF Depart, Reply, Unwind, AtWork
  <2> QED
    BY <1>1, <2>1, <2>2
<1> QED
  BY <1>5, <1>7, <1>8 DEF ChatsFit, WorkersAreBound

LEMMA ChatsStep == TypeOK /\ QuestionsFit /\ ChatsFit /\ [Next]_vars => ChatsFit'
<1> SUFFICES ASSUME TypeOK, QuestionsFit, ChatsFit, [Next]_vars PROVE ChatsFit'
  OBVIOUS
<1>1. ASSUME NEW s \in Sessions, NEW r \in Runs, StartStream(s, r) \/ StartDirect(s, r)
      PROVE  ChatsFit'
  BY <1>1, ChatsOpened
<1>2. ASSUME NEW s \in Sessions, NEW r \in Runs, Resume(s, r) PROVE ChatsFit'
  BY <1>2, ChatsEntered
<1>3. ASSUME NEW r \in Runs, Activate(r) PROVE ChatsFit'
  <2>1. runs[r].session \in Sessions
    BY <1>3, SessionOf DEF Activate, EnterRounds, Live, Idle
  <2> QED
    BY <1>3, <2>1, ChatsEntered
<1>4. ASSUME NEW r \in Runs, RejectStart(r) \/ Throw(r) \/ Finish(r) PROVE ChatsFit'
  <2>1. Depart(r) /\ r \notin thrown
    BY <1>4 DEF RejectStart, Throw, Finish, AtWork, ChatsFit
  <2> QED
    BY <2>1, ChatsLeft
<1>5. ASSUME NEW r \in Runs, Reply(r) \/ Unwind(r) PROVE ChatsFit'
  BY <1>5, ChatsLeft
<1>6. ASSUME NEW s \in Sessions, Stop(s) \/ Disconnect(s) \/ DeleteSession(s) \/ Truncate(s)
      PROVE  ChatsFit'
  <2>1. CASE Stop(s)
    BY <2>1, ChatsAborted DEF Stop
  <2>2. CASE Disconnect(s)
    BY <2>2, ChatsAborted DEF Disconnect
  <2>3. CASE DeleteSession(s)
    BY <2>3, ChatsAborted DEF DeleteSession
  <2>4. CASE Truncate(s)
    BY <2>4, ChatsAborted DEF Truncate
  <2> QED
    BY <1>6, <2>1, <2>2, <2>3, <2>4
<1>7. ASSUME NEW r \in Runs, Round(r) PROVE ChatsFit'
  BY <1>7, ChatsStill DEF Round
<1>8. ASSUME NEW r \in Runs, NEW c \in Calls, StartTool(r, c) \/ AskUser(r, c) PROVE ChatsFit'
  BY <1>8, ChatsStill DEF StartTool, AskUser
<1>9. ASSUME NEW c \in Calls, CallStep(c) \/ UserStep(c) PROVE ChatsFit'
  BY <1>9, ChatsStill DEF CallStep, UserStep, ToolAsks, ToolTimeout, Return, Answer, ResolveApproval
<1>10. ASSUME NEW s \in Sessions, CancelApprovals(s) \/ Archive(s) \/ \E m \in Messages : Steer(s, m)
       PROVE  ChatsFit'
  BY <1>10, ChatsStill DEF CancelApprovals, Archive, Steer
<1>11. CASE UNCHANGED vars
  BY <1>11, ChatsStill DEF vars, chatVars
<1> QED
  BY <1>1, <1>2, <1>3, <1>4, <1>5, <1>6, <1>7, <1>8, <1>9, <1>10, <1>11
     DEF Next, ChatStep, SessionStep

-----------------------------------------------------------------------------
(***************************************************************************)
(* Remarks.                                                                *)
(***************************************************************************)

\* A run that is neither opened nor left, nor asks its model, keeps its remarks.
LEMMA RemarkKeeps ==
    ASSUME RemarksFit, NEW q \in Runs, NEW m \in Messages,
           steer[m].run = q, steer'[m] = steer[m],
           runs'[q].session = runs[q].session, runs'[q].phase = runs[q].phase,
           AtWork(q)' => AtWork(q), stage'[q] # "model" \/ stage'[q] = stage[q]
    PROVE  /\ runs'[q].session = steer'[m].session
           /\ runs'[q].phase = "starting"
              \/ (runs'[q].phase = "active" /\ (AtWork(q)' => stage'[q] # "model"))
BY DEF RemarksFit

LEMMA RemarksOpened ==
    ASSUME TypeOK, RemarksFit, NEW s \in Sessions, NEW r \in Runs,
           StartStream(s, r) \/ StartDirect(s, r) \/ Resume(s, r) \/ Activate(r)
    PROVE  RemarksFit'
<1>1. /\ runs[r].phase \in {"idle", "starting"} /\ UNCHANGED <<stage, steer>>
      /\ thrown \subseteq thrown'
  BY DEF StartStream, StartDirect, Resume, Activate, OpenStream, OpenDirect, OpenResume, EnterRounds,
         Idle, Reject
<1>2. /\ \A q \in Runs \ {r} : /\ runs'[q].phase = runs[q].phase
                               /\ runs'[q].session = runs[q].session
                               /\ runs[q].aborted => runs'[q].aborted
      /\ runs'[r].phase \in {"starting", "active"}
      /\ runs[r].phase = "starting" => runs'[r].session = runs[r].session
  <2>1. CASE StartStream(s, r)
    <3>1. /\ runs' = [Aborted({chatRun[s]}) EXCEPT ![r] = NewRun(s, "stream", "starting", NoJob)]
          /\ runs[r].phase = "idle"
      BY <2>1 DEF StartStream, OpenStream, Idle
    <3> QED
      BY <3>1, AbortedEffect DEF TypeOK, ChatTypeOK, NewRun
  <2>2. CASE StartDirect(s, r)
    BY <2>2 DEF StartDirect, OpenDirect, TypeOK, ChatTypeOK, NewRun, Idle
  <2>3. CASE Resume(s, r)
    <3>1. /\ runs' = [Aborted({chatRun[s], engineRun[s]}) EXCEPT
                         ![r] = NewRun(s, "resume", "active", NoJob)]
          /\ runs[r].phase = "idle"
      BY <2>3 DEF Resume, OpenResume, Idle
    <3> QED
      BY <3>1, AbortedEffect DEF TypeOK, ChatTypeOK, NewRun
  <2>4. CASE Activate(r)
    <3>1. runs' = [Aborted({engineRun[runs[r].session]}) EXCEPT ![r].phase = "active"]
      BY <2>4 DEF Activate, EnterRounds
    <3>2. \A x \in Run : /\ [x EXCEPT !.phase = "active"].phase = "active"
                         /\ [x EXCEPT !.phase = "active"].session = x.session
      BY DEF Run
    <3> QED
      BY <3>1, <3>2, AbortedEffect DEF TypeOK, ChatTypeOK
  <2> QED
    BY <2>1, <2>2, <2>3, <2>4
<1>3. stage[r] = "entry"
  BY <1>1 DEF RemarksFit
<1>4. \A q \in Runs : runs'[q].phase \in {"idle", "starting"} => stage'[q] = "entry"
  BY <1>1, <1>2, <1>3 DEF RemarksFit
<1>5. ASSUME NEW m \in Messages, NEW q \in Runs, steer'[m].run = q
      PROVE  /\ runs'[q].session = steer'[m].session
             /\ runs'[q].phase = "starting"
                \/ (runs'[q].phase = "active" /\ (AtWork(q)' => stage'[q] # "model"))
  <2>1. CASE q = r
    <3>1. runs[r].session = steer[m].session /\ runs[r].phase = "starting"
      BY <1>1, <1>5, <2>1 DEF RemarksFit
    <3> QED
      BY <1>1, <1>2, <1>3, <2>1, <3>1
  <2>2. CASE q # r
    <3>1. AtWork(q)' => AtWork(q)
      BY <1>1, <1>2, <2>2 DEF AtWork, Working
    <3> QED
      BY <1>1, <1>2, <1>5, <2>2, <3>1, RemarkKeeps
  <2> QED
    BY <2>1, <2>2
<1> QED
  BY <1>4, <1>5 DEF RemarksFit

\* The rounds of one chat, and its way out.
LEMMA RemarksMoved ==
    ASSUME TypeOK, RemarksFit, NEW r \in Runs,
           Round(r) \/ Reply(r) \/ Unwind(r) \/ Depart(r)
    PROVE  RemarksFit'
<1>1. \A q \in Runs \ {r} : /\ runs'[q].phase = runs[q].phase
                            /\ runs'[q].session = runs[q].session
                            /\ runs'[q].aborted = runs[q].aborted
                            /\ stage'[q] = stage[q]
                            /\ q \in thrown => q \in thrown'
  <2>1. stage' = stage \/ \E g \in {"model", "entry"} : stage' = [stage EXCEPT ![r] = g]
    BY DEF Round, Reply, Unwind, Depart
  <2>2. \A q \in Runs \ {r} : stage'[q] = stage[q] /\ (q \in thrown => q \in thrown')
    BY <2>1 DEF Round, Reply, Unwind, Depart, TypeOK
  <2>3. CASE Round(r)
    BY <2>2, <2>3 DEF Round, chatVars
  <2>4. CASE Reply(r) \/ Unwind(r)
    BY <2>2, <2>4, SaveReplyEffect, SaveGivenUpEffect DEF Reply, Unwind, TypeOK
  <2>5. CASE Depart(r)
    BY <2>2, <2>5, LeaveEffect DEF Depart, TypeOK
  <2> QED
    BY <2>3, <2>4, <2>5
<1>2. runs'[r].phase \in {"idle", "starting"} => stage'[r] = "entry"
  <2>1. CASE Round(r)
    BY <2>1 DEF Round, AtWork, Working, chatVars
  <2>2. CASE Reply(r) \/ Unwind(r)
    BY <2>2, SaveReplyEffect, SaveGivenUpEffect DEF Reply, Unwind, TypeOK
  <2>3. CASE Depart(r)
    BY <2>3 DEF Depart, TypeOK
  <2> QED
    BY <2>1, <2>2, <2>3
<1>3. ASSUME NEW m \in Messages, NEW q \in Runs, steer'[m].run = q
      PROVE  steer'[m] = steer[m] /\ q # r
  <2>1. CASE Round(r) \/ Unwind(r)
    <3>1. steer' = Emptied(runs[r].session)
      BY <2>1 DEF Round, Unwind
    <3>2. steer'[m] = steer[m] /\ steer[m].session # runs[r].session
      BY <1>3, <3>1, ResumeAssumption DEF Emptied, NoSteer
    <3> QED
      BY <1>3, <3>2 DEF RemarksFit
  <2>2. CASE Reply(r)
    <3>1. steer' = steer /\ AtWork(r) /\ stage[r] = "model" /\ runs[r].phase = "active"
      BY <2>2 DEF Reply, AtWork, Working
    <3> QED
      BY <1>3, <3>1 DEF RemarksFit
  <2>3. CASE Depart(r)
    <3>1. steer'[m] = IF steer[m].run = r THEN [steer[m] EXCEPT !.run = NoRun] ELSE steer[m]
      BY <2>3 DEF Depart, Unaddressed
    <3> QED
      BY <1>3, <3>1, ResumeAssumption DEF TypeOK
  <2> QED
    BY <2>1, <2>2, <2>3
<1>4. ASSUME NEW m \in Messages, NEW q \in Runs, steer'[m].run = q
      PROVE  /\ runs'[q].session = steer'[m].session
             /\ runs'[q].phase = "starting"
                \/ (runs'[q].phase = "active" /\ (AtWork(q)' => stage'[q] # "model"))
  <2>1. steer'[m] = steer[m] /\ q # r
    BY <1>3, <1>4
  <2>2. AtWork(q)' => AtWork(q)
    BY <1>1, <2>1 DEF AtWork, Working
  <2> QED
    BY <1>1, <1>4, <2>1, <2>2, RemarkKeeps
<1>5. \A q \in Runs : runs'[q].phase \in {"idle", "starting"} => stage'[q] = "entry"
  BY <1>1, <1>2 DEF RemarksFit
<1> QED
  BY <1>4, <1>5 DEF RemarksFit

\* All other steps leave runs in their phase and take remarks, if anything, away.
LEMMA RemarksKept ==
    ASSUME TypeOK, RemarksFit,
           \A q \in Runs : /\ runs'[q].phase = runs[q].phase
                           /\ runs'[q].session = runs[q].session
                           /\ runs[q].aborted => runs'[q].aborted
                           /\ stage'[q] = stage[q]
                              \/ (stage'[q] = "tools" /\ runs[q].phase = "active"),
           thrown \subseteq thrown',
           \A m \in Messages : steer'[m] = steer[m] \/ steer'[m].run = NoRun
    PROVE  RemarksFit'
<1>1. ASSUME NEW m \in Messages, NEW q \in Runs, steer'[m].run = q
      PROVE  /\ runs'[q].session = steer'[m].session
             /\ runs'[q].phase = "starting"
                \/ (runs'[q].phase = "active" /\ (AtWork(q)' => stage'[q] # "model"))
  <2>1. steer'[m] = steer[m]
    BY <1>1, ResumeAssumption
  <2>2. AtWork(q)' => AtWork(q)
    BY DEF AtWork, Working
  <2> QED
    BY <1>1, <2>1, <2>2, RemarkKeeps
<1>2. \A q \in Runs : runs'[q].phase \in {"idle", "starting"} => stage'[q] = "entry"
  BY DEF RemarksFit
<1> QED
  BY <1>1, <1>2 DEF RemarksFit

LEMMA RemarksStep == TypeOK /\ ChatsFit /\ RemarksFit /\ [Next]_vars => RemarksFit'
<1> SUFFICES ASSUME TypeOK, ChatsFit, RemarksFit, [Next]_vars PROVE RemarksFit'
  OBVIOUS
<1>1. ASSUME NEW s \in Sessions, NEW r \in Runs, StartStream(s, r) \/ StartDirect(s, r) \/ Resume(s, r)
      PROVE  RemarksFit'
  BY <1>1, RemarksOpened
<1>2. ASSUME NEW r \in Runs, Activate(r) PROVE RemarksFit'
  <2>1. runs[r].session \in Sessions
    BY <1>2, SessionOf DEF Activate, EnterRounds, Live, Idle
  <2> QED
    BY <1>2, <2>1, RemarksOpened
<1>3. ASSUME NEW r \in Runs,
             RejectStart(r) \/ Throw(r) \/ Finish(r) \/ Round(r) \/ Reply(r) \/ Unwind(r)
      PROVE  RemarksFit'
  BY <1>3, RemarksMoved DEF RejectStart, Throw, Finish
<1>4. ASSUME NEW r \in Runs, NEW c \in Calls, StartTool(r, c) \/ AskUser(r, c) PROVE RemarksFit'
  <2>1. /\ UNCHANGED <<runs, thrown, steer>> /\ stage' = [stage EXCEPT ![r] = "tools"]
        /\ runs[r].phase = "active"
    BY <1>4 DEF StartTool, AskUser, InTools, AtWork, Working, chatVars
  <2> QED
    BY <2>1, RemarksKept DEF TypeOK
<1>5. ASSUME NEW c \in Calls, CallStep(c) \/ UserStep(c) PROVE RemarksFit'
  <2>1. UNCHANGED <<runs, thrown, steer, stage>>
    BY <1>5 DEF CallStep, UserStep, ToolAsks, ToolTimeout, Return, Answer, ResolveApproval, chatVars
  <2> QED
    BY <2>1, RemarksKept
<1>6. ASSUME NEW s \in Sessions,
             \/ Stop(s) \/ Disconnect(s) \/ DeleteSession(s) \/ Truncate(s) \/ CancelApprovals(s)
             \/ Archive(s)
      PROVE  RemarksFit'
  <2>1. \A q \in Runs : /\ runs'[q].phase = runs[q].phase /\ runs'[q].session = runs[q].session
                        /\ runs[q].aborted => runs'[q].aborted
    <3>1. runs' = runs \/ \E R : runs' = Aborted(R)
      BY <1>6 DEF Stop, Disconnect, DeleteSession, Truncate, CancelApprovals, Archive,
                  AbortRegistered, DropSession, chatVars
    <3> QED
      BY <3>1, AbortedEffect DEF TypeOK, ChatTypeOK
  <2>2. steer' = steer \/ steer' = Emptied(s)
    BY <1>6 DEF Stop, Disconnect, DeleteSession, Truncate, CancelApprovals, Archive
  <2>3. \A m \in Messages : steer'[m] = steer[m] \/ steer'[m].run = NoRun
    BY <2>2 DEF Emptied, NoSteer
  <2>4. stage' = stage /\ thrown \subseteq thrown'
    BY <1>6 DEF Stop, Disconnect, DeleteSession, Truncate, CancelApprovals, Archive, Reject
  <2> QED
    BY <2>1, <2>3, <2>4, RemarksKept
<1>7. ASSUME NEW s \in Sessions, NEW n \in Messages, Steer(s, n) PROVE RemarksFit'
  <2> DEFINE r == chatRun[s]
             new == IF runs[r].phase = "starting" \/ (AtWork(r) /\ stage[r] # "model")
                    THEN r ELSE NoRun
  <2>1. /\ r \in Runs /\ runs[r].session = s
        /\ steer' = [steer EXCEPT ![n] = [session |-> s, run |-> new]]
        /\ UNCHANGED <<runs, thrown, stage>>
    BY <1>7 DEF Steer, Busy, TypeOK, ChatTypeOK, ChatsFit, chatVars
  <2>2. ASSUME NEW m \in Messages, NEW q \in Runs, steer'[m].run = q
        PROVE  /\ runs'[q].session = steer'[m].session
               /\ runs'[q].phase = "starting"
                  \/ (runs'[q].phase = "active" /\ (AtWork(q)' => stage'[q] # "model"))
    <3>1. CASE m = n
      <4>1. steer'[m].session = s /\ steer'[m].run = new
        BY <2>1, <3>1 DEF TypeOK
      <4>2. q = r /\ (runs[r].phase = "starting" \/ (AtWork(r) /\ stage[r] # "model"))
        BY <2>2, <4>1, ResumeAssumption
      <4> QED
        BY <2>1, <4>1, <4>2 DEF AtWork, Working
    <3>2. CASE m # n
      <4>1. steer'[m] = steer[m]
        BY <2>1, <3>2 DEF TypeOK
      <4> QED
        BY <2>1, <2>2, <4>1 DEF RemarksFit, AtWork, Working
    <3> QED
      BY <3>1, <3>2
  <2> QED
    BY <2>1, <2>2 DEF RemarksFit
<1>8. CASE UNCHANGED vars
  BY <1>8, RemarksKept DEF vars
<1> QED
  BY <1>1, <1>2, <1>3, <1>4, <1>5, <1>6, <1>7, <1>8 DEF Next, ChatStep, SessionStep

-----------------------------------------------------------------------------
(***************************************************************************)
(* Theorems.                                                               *)
(***************************************************************************)
LEMMA SafeInit == Init => Safe
<1> SUFFICES ASSUME Init PROVE Safe
  OBVIOUS
<1>1. TypeOK
  <2>1. ChatTypeOK
    BY IdleRunType DEF Init, ChatInit, ChatTypeOK, IdleRun
  <2> QED
    BY <2>1 DEF Init, TypeOK, FreeCall, Call, NoSteer
<1>2. ChatsFit
  BY ResumeAssumption DEF Init, ChatInit, ChatsFit, Working, WorkersAreBound, IdleRun
<1>3. QuestionsFit
  BY DEF Init, QuestionsFit, CallFits, FreeCall, AskersArePending, ClosedOnBothSides, AskersGoOn
<1>4. RemarksFit
  BY ResumeAssumption DEF Init, RemarksFit, NoSteer
<1> QED
  BY <1>1, <1>2, <1>3, <1>4 DEF Safe

LEMMA SafeStep == Safe /\ [Next]_vars => Safe'
BY TypeStep, ChatsStep, QuestionStep, RemarksStep DEF Safe

\* The conjunction of types, chats, questions and remarks is an invariant.
THEOREM SafeInvariant == Spec => []Safe
BY SafeInit, SafeStep, PTL DEF Spec

\* Every variable keeps its type, whatever asks, answers, aborts and timeouts there are.
THEOREM PromptTypes == Spec => []TypeOK
<1>1. Safe => TypeOK
  BY DEF Safe
<1> QED
  BY <1>1, SafeInvariant, PTL

\* The bridge holds exactly the waits in progress: an answer or an abort finds its
\* handler, and none is left waiting without an entry (UserPromptBridge).
THEOREM NobodyWaitsInVain == Spec => []AskersArePending
<1>1. Safe => AskersArePending
  BY DEF Safe, QuestionsFit
<1> QED
  BY <1>1, SafeInvariant, PTL

\* No question outlives the abort of its chat (waitForAnswer and its signal).
THEOREM AbortEndsQuestions == Spec => []AbortedDoNotAsk
<1>1. Safe => AbortedDoNotAsk
  <2> SUFFICES ASSUME Safe, NEW c \in bridge
               PROVE  /\ ~calls[c].cut
                      /\ calls[c].run # NoRun => ~runs[calls[c].run].aborted
                      /\ calls[c].kind = "round" => calls[c].run \notin thrown
    BY DEF AbortedDoNotAsk
  <2>1. CallFits(calls[c])
    BY DEF Safe, QuestionsFit, TypeOK
  <2> QED
    BY <2>1 DEF Safe, QuestionsFit, AskersGoOn, CallFits
<1> QED
  BY <1>1, SafeInvariant, PTL

\* A question answered on either side is open on neither (approval-tracker.ts).
THEOREM BothSidesClose == Spec => []ClosedOnBothSides
<1>1. Safe => ClosedOnBothSides
  BY DEF Safe, QuestionsFit
<1> QED
  BY <1>1, SafeInvariant, PTL

\* What ask_user lists as open is waited for, or its chat is about to close it.
THEOREM ListIsCurrent == Spec => []ListedIsAsked
<1>1. Safe => ListedIsAsked
  <2> SUFFICES ASSUME Safe, NEW c \in open, c \notin bridge, calls[c].kind # "tool"
               PROVE  calls[c].kind = "round" /\ (runs[calls[c].run].aborted \/ calls[c].run \in thrown)
    BY DEF ListedIsAsked
  <2>1. c \in Calls /\ calls[c] \in Call /\ CallFits(calls[c]) /\ calls[c].kind # "none"
    BY DEF Safe, QuestionsFit, TypeOK
  <2>2. calls[c].state # "asking" /\ calls[c].state # "answered"
    BY <2>1 DEF Safe, QuestionsFit, AskersArePending, ClosedOnBothSides
  <2>3. calls[c].kind = "round"
        /\ calls[c].state \in {"free", "working", "asking", "answered", "refused"}
    BY <2>1 DEF Call
  <2> QED
    BY <2>1, <2>2, <2>3 DEF CallFits
<1> QED
  BY <1>1, SafeInvariant, PTL

\* Calls that a chat waits for ask on behalf of sessions that exist (deleteSession).
THEOREM DeletionEndsQuestions == Spec => []DeadSessionsAskNothing
<1>1. Safe => DeadSessionsAskNothing
  <2> SUFFICES ASSUME Safe, NEW c \in bridge, calls[c].attached
               PROVE  calls[c].session \in alive
    BY DEF DeadSessionsAskNothing
  <2>1. CallFits(calls[c]) /\ ~calls[c].cut /\ calls[c] \in Call
    BY DEF Safe, QuestionsFit, AskersGoOn, TypeOK
  <2>2. calls[c].run \in Runs /\ Working(calls[c].run) /\ runs[calls[c].run].session = calls[c].session
    BY <2>1, CallEdits DEF CallFits, Working
  <2> QED
    BY <2>2 DEF Safe, ChatsFit
<1> QED
  BY <1>1, SafeInvariant, PTL

\* The tools of a chat at work find its own workspace bridge (unbindWorkspaceToolBridge).
THEOREM ToolsFindTheirChat == Spec => []WorkersAreBound
<1>1. Safe => WorkersAreBound
  BY DEF Safe, ChatsFit
<1> QED
  BY <1>1, SafeInvariant, PTL

\* A remark accepted with a round of its chat to come is taken up by a round (SteerBridge).
THEOREM RemarksAreHeard == Spec => SteerIsHeard
<1>1. Safe /\ [Next]_vars =>
         [\A r \in Runs, m \in Messages :
             runs[r].phase = "active" /\ runs'[r].phase = "replying" => steer[m].run # r]_vars
  <2> SUFFICES ASSUME Safe, [Next]_vars, NEW r \in Runs, NEW m \in Messages,
                      runs[r].phase = "active", runs'[r].phase = "replying", steer[m].run = r
               PROVE  FALSE
    OBVIOUS
  <2> USE DEF Safe, TypeOK
  <2>1. AtWork(r) => stage[r] # "model"
    BY DEF RemarksFit
  <2>2. ASSUME NEW s \in Sessions, NEW q \in Runs, StartStream(s, q) \/ StartDirect(s, q) \/ Resume(s, q)
        PROVE  FALSE
    <3>1. r # q
      BY <2>2 DEF StartStream, StartDirect, Resume, OpenStream, OpenDirect, OpenResume, Idle
    <3>2. \E old \in {runs, Aborted({chatRun[s]}), Aborted({chatRun[s], engineRun[s]})} :
             \E new : runs' = [old EXCEPT ![q] = new]
      BY <2>2 DEF StartStream, StartDirect, Resume, OpenStream, OpenDirect, OpenResume
    <3>3. \A old \in {runs, Aborted({chatRun[s]}), Aborted({chatRun[s], engineRun[s]})} :
             old \in [Runs -> Run] /\ old[r].phase = runs[r].phase
      BY AbortedEffect DEF ChatTypeOK
    <3>4. runs'[r].phase = runs[r].phase
      BY <3>1, <3>2, <3>3
    <3> QED
      BY <3>4
  <2>3. ASSUME NEW q \in Runs, Activate(q) PROVE FALSE
    <3>1. q # r /\ runs' = [Aborted({engineRun[runs[q].session]}) EXCEPT ![q].phase = "active"]
      BY <2>3 DEF Activate, EnterRounds
    <3> QED
      BY <3>1, AbortedEffect DEF ChatTypeOK
  <2>4. ASSUME NEW q \in Runs, Reply(q) PROVE FALSE
    <3>1. q = r
      BY <2>4, SaveReplyEffect DEF Reply
    <3> QED
      BY <2>1, <2>4, <3>1 DEF Reply
  <2>5. ASSUME NEW q \in Runs, RejectStart(q) \/ Throw(q) \/ Finish(q) \/ Unwind(q) PROVE FALSE
    <3>1. CASE Unwind(q)
      BY <3>1, SaveGivenUpEffect DEF Unwind
    <3>2. CASE Depart(q)
      BY <3>2, LeaveEffect, IdleRunType DEF Depart
    <3> QED
      BY <2>5, <3>1, <3>2 DEF RejectStart, Throw, Finish
  <2>6. ASSUME NEW s \in Sessions, Stop(s) \/ Disconnect(s) \/ DeleteSession(s) PROVE FALSE
    BY <2>6, AbortedEffect DEF Stop, Disconnect, DeleteSession, AbortRegistered, DropSession, ChatTypeOK
  <2>7. CASE UNCHANGED runs
    BY <2>7
  <2> QED
    BY <2>2, <2>3, <2>4, <2>5, <2>6, <2>7
       DEF Next, ChatStep, SessionStep, CallStep, UserStep, Round, StartTool, AskUser, ToolAsks,
           ToolTimeout, Return, Answer, ResolveApproval, CancelApprovals, Truncate, Archive, Steer,
           chatVars, vars
<1> QED
  BY <1>1, SafeInvariant, PTL DEF Spec, SteerIsHeard
=============================================================================
