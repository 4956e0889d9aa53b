--------------------------- MODULE SessionRecords ---------------------------
(***************************************************************************)
(* The record of one session, and what the model is shown of it:           *)
(*                                                                         *)
(*   sessions.ts                   the document and the cuts made in it    *)
(*   context/*.ts                  soft cap, compaction, projection        *)
(*   llm/messages.ts               repair and tail of a transcript         *)
(*   engine.ts                     chats, which hold a copy and save it    *)
(*                                                                         *)
(* Whoever works on a session reads its document into a copy of its own    *)
(* and saves that copy whole: there is no lock, and no merge.  Rows stand  *)
(* for messages by who pushed them; all results of a round are one row.    *)
(***************************************************************************)
EXTENDS Integers, FiniteSets, SequencesExt

CONSTANTS
    Chats,       \* calls of chat(), each made once
    Past,        \* author of the rows that are there at the start
    NoChat,      \* nobody in chatAbortBySession
    Tuner,       \* the call of setSessionModel as a holder of a copy
    KeepRecent,  \* rows kept by a compaction, 16 in the code
    KeepTight,   \* rows kept by the retry after an overflow, 8 in the code
    Trigger,     \* turns above which a save trims, 500 in the code
    KeepTurns,   \* turns a trim keeps, 200 in the code
    MaxCalls,    \* bound: rounds of tool calls per chat
    MaxEvents    \* bound: remarks, drafts, overflows, cuts, changes of the model, crashes

ASSUME RecordAssumption ==
    /\ {Past, NoChat, Tuner} \cap Chats = {}
    /\ Past # NoChat /\ Tuner # Past
    /\ {KeepRecent, KeepTight, Trigger, KeepTurns} \subseteq Nat \ {0}
    /\ {MaxCalls, MaxEvents} \subseteq Nat
    /\ KeepTurns <= Trigger

VARIABLES
    store,   \* what get() returns: the document, with the projection of the file beside it
    chats,   \* [Chats -> a call of chat() with its copy of the record]
    known,   \* chatAbortBySession: the chat a later one aborts, or NoChat
    tuner,   \* setSessionModel between its two saves
    fresh,   \* history: holders nobody has saved after since they read or saved
    events   \* how many of the events that MaxEvents bounds have happened

vars == <<store, chats, known, tuner, fresh, events>>

\* "call" is an assistant message with tool calls, "draft" one kept for the evidence
\* check; the other three rows are also turns, which is what the user sees.
Kinds == {"user", "steer", "reply", "call", "results", "draft"}
Row == [by : Chats \cup {Past}, kind : Kinds, round : Nat]
Turn == {row \in Row : row.kind \in {"user", "steer", "reply"}}

\* "prefix" stands for coveredCount and for the hash of the rows it covers.
Projection == [kind : {"none", "micro", "memory"}, prefix : Seq(Row)]
NoProjection == [kind |-> "none", prefix |-> <<>>]

\* "memory" is sessionMemory, as the set of chats it sums up.  History: "dropped" are the
\* chats the soft cap took rows of, "skewed" says that a cut has counted rows that
\* are not turns, or was made at positions which the soft cap had moved.
Record ==
    [rows : Seq(Row), turns : Seq(Turn), memory : SUBSET (Chats \cup {Past}),
     projection : Projection, dropped : SUBSET (Chats \cup {Past}), skewed : BOOLEAN]

NewRecord ==
    [rows |-> <<>>, turns |-> <<>>, memory |-> {}, projection |-> NoProjection,
     dropped |-> {}, skewed |-> FALSE]

\* "round" awaits the head of a round, "budget" its compaction, "asking" the model,
\* "tools" the results.  mBase and tBase are messagesBeforeAssistant and
\* turnsBeforeAssistant; "trimmed" is history: the soft cap cut this chat's copy.
Chat ==
    [phase : {"none", "opening", "round", "budget", "asking", "tools", "done"},
     rec : Record, mBase : Nat, tBase : Nat, aborted : BOOLEAN, calls : Nat,
     steered : Nat, drafted : BOOLEAN, tight : BOOLEAN, trimmed : BOOLEAN]

NewChat ==
    [phase |-> "none", rec |-> NewRecord, mBase |-> 0, tBase |-> 0, aborted |-> FALSE,
     calls |-> 0, steered |-> 0, drafted |-> FALSE, tight |-> FALSE, trimmed |-> FALSE]

DoneChat == [NewChat EXCEPT !.phase = "done"]

Idle == [busy |-> FALSE, rec |-> NewRecord]

Entered(c) == chats[c].phase \in {"round", "budget", "asking", "tools"}
Holding(c) == Entered(c) \/ chats[c].phase = "opening"

\* A session is new, or has an answered question from before the process started.
PastRow(kind) == [by |-> Past, kind |-> kind, round |-> 0]
PastRecord ==
    LET both == <<PastRow("user"), PastRow("reply")>>
    IN  [NewRecord EXCEPT !.rows = both, !.turns = both]

Init ==
    /\ store \in {NewRecord, PastRecord}
    /\ chats = [c \in Chats |-> NewChat]
    /\ known = NoChat
    /\ tuner = Idle
    /\ fresh = {}
    /\ events = 0

-----------------------------------------------------------------------------
\* What is read out of a transcript.

IsTurn(row) == row.kind \in {"user", "steer", "reply"}

\* isDisplayMessage, which cannot tell a draft from a reply
IsDisplay(row) == row.kind \notin {"call", "results"}

\* The elements of a sequence at some of its places, in their order.
Pick(seq, places) ==
    LET upTo[i \in 0..Len(seq)] ==
          IF i = 0 THEN <<>>
          ELSE IF i \in places THEN Append(upTo[i - 1], seq[i])
          ELSE upTo[i - 1]
    IN  upTo[Len(seq)]

\* The place of the k-th display row, 0 if there are fewer.
DisplayAt(rows, k) ==
    LET at == {i \in DOMAIN rows : IsDisplay(rows[i])
                 /\ Cardinality({j \in 1..i : IsDisplay(rows[j])}) = k}
    IN  IF at = {} THEN 0 ELSE CHOOSE i \in at : TRUE

\* repairToolCallSequences: calls without all their results, and results without their
\* call, are not shown.
Matched(rows, i) ==
    /\ rows[i].kind = "call" =>
          i < Len(rows) /\ rows[i + 1] = [rows[i] EXCEPT !.kind = "results"]
    /\ rows[i].kind = "results" =>
          i > 1 /\ rows[i - 1] = [rows[i] EXCEPT !.kind = "call"]

Repaired(rows) == Pick(rows, {i \in DOMAIN rows : Matched(rows, i)})

\* Slip: the tail starts where "max" rows are left, be it at results.
SlipTailForLlm(rows, max) ==
    LET all == Repaired(rows)
    IN  SubSeq(all, IF Len(all) <= max THEN 1 ELSE Len(all) - max + 1, Len(all))

\* tailMessagesForLlm: whole groups from the end, until there are "max" rows
TailForLlm(rows, max) ==
    LET all == Repaired(rows)
        first == IF Len(all) <= max THEN 1 ELSE Len(all) - max + 1
        start == IF first > 1 /\ all[first].kind = "results" THEN first - 1 ELSE first
    IN  SubSeq(all, start, Len(all))

\* Slip: the length is compared, and not the hash.
SlipValid(rec) ==
    /\ rec.projection.prefix # <<>>
    /\ Len(rec.projection.prefix) <= Len(Repaired(rec.rows))

\* projectionValid
Valid(rec) ==
    /\ rec.projection.prefix # <<>>
    /\ IsPrefix(rec.projection.prefix, Repaired(rec.rows))

\* assembleModelView: the rows the model is shown, after the memory
View(rec, keep) ==
    LET prefix == rec.projection.prefix
        all == Repaired(rec.rows)
        shown == IF rec.projection.kind = "micro" THEN prefix ELSE <<>>
    IN  IF Valid(rec)
        THEN shown \o TailForLlm(SubSeq(all, Len(prefix) + 1, Len(all)), keep)
        ELSE TailForLlm(rec.rows, keep)

-----------------------------------------------------------------------------
\* What is written.

Push(rec, row) ==
    [rec EXCEPT !.rows = Append(@, row),
                !.turns = IF IsTurn(row) THEN Append(@, row) ELSE @]

\* A cut that is placed by counting display rows goes wrong where a draft is one.
Skewed(rec) == rec.skewed \/ \E i \in DOMAIN rec.rows : rec.rows[i].kind = "draft"

\* applySessionPersistSoftCap, in its last step: the oldest turns go, and the rows before
\* the first one that stays (messageIndexForTurnKeepFrom)
Trimmed(rec) ==
    LET drop == Len(rec.turns) - KeepTurns
        place == DisplayAt(rec.rows, drop + 1)
        displays == Cardinality({i \in DOMAIN rec.rows : IsDisplay(rec.rows[i])})
        share == (drop * Len(rec.rows)) \div (IF displays = 0 THEN 1 ELSE displays)
        cut == IF place > 0 THEN place - 1 ELSE share
    IN  [rec EXCEPT !.rows = SubSeq(@, cut + 1, Len(@)),
                    !.turns = SubSeq(@, drop + 1, Len(@)),
                    !.dropped = @ \cup {rec.rows[i].by : i \in (1..cut) \cap DOMAIN rec.rows},
                    !.skewed = Skewed(rec)]

\* writeRecord: a save trims above the trigger, and may above what a trim keeps, where
\* the transcript exceeds 8 MB.
Saved(rec) ==
    IF Len(rec.turns) > Trigger THEN {Trimmed(rec)}
    ELSE IF Len(rec.turns) > KeepTurns THEN {rec, Trimmed(rec)}
    ELSE {rec}

\* What ensureContextBudget makes of a copy: old tool results are shortened in a
\* projection (only if there are any), or older rows are summed up in the memory.
Cut(rows, keep) == IF Len(rows) > keep THEN SubSeq(rows, 1, Len(rows) - keep) ELSE <<>>

Micro(rec, keep) ==
    LET prefix == Cut(Repaired(rec.rows), keep)
    IN  {[rec EXCEPT !.projection = [kind |-> "micro", prefix |-> prefix]] :
            x \in {i \in DOMAIN prefix : prefix[i].kind = "results"}}

Structured(rec, keep) ==
    LET all == Repaired(rec.rows)
        prefix == Cut(all, keep)
    IN  IF Len(all) <= keep + 2 THEN {}
        ELSE {[rec EXCEPT !.projection = [kind |-> "memory", prefix |-> prefix],
                          !.memory = @ \cup {row.by : row \in ToSet(prefix)}]}

\* Without a model to ask, the shortened projection is written whether it shortens or not.
WithoutModel(rec) ==
    LET prefix == Cut(Repaired(rec.rows), KeepTight)
    IN  IF prefix = <<>> THEN {}
        ELSE {[rec EXCEPT !.projection = [kind |-> "micro", prefix |-> prefix]]}

-----------------------------------------------------------------------------
\* Chats.

Event == events < MaxEvents /\ events' = events + 1

\* Slip: what is trimmed is the document, and not the copy.
SlipSave(c, next) ==
    /\ store' \in Saved(next.rec)
    /\ chats' = [chats EXCEPT ![c] = next]
    /\ fresh' = {c}

\* The chat goes on as "next", whose copy it saves.
Save(c, next) ==
    \E rec \in Saved(next.rec) :
        /\ store' = rec
        /\ chats' = [chats EXCEPT ![c] = [next EXCEPT !.rec = rec, !.trimmed = @ \/ rec # next.rec]]
        /\ fresh' = {c}

\* Slip: the controller stays in the table.
SlipForget(c) == UNCHANGED known

\* The inner finally removes the chat's own controller only.
Forget(c) == known' = IF known = c THEN NoChat ELSE known

\* The chat saves its copy and returns.
SaveLast(c, rec) ==
    /\ store' \in Saved(rec)
    /\ chats' = [chats EXCEPT ![c] = DoneChat]
    /\ Forget(c)
    /\ fresh' = {}

\* chat() reads the record, then waits for attachments and for the title.
Open(c) ==
    /\ chats[c].phase = "none"
    /\ chats' = [chats EXCEPT ![c] = [NewChat EXCEPT !.phase = "opening", !.rec = store]]
    /\ fresh' = fresh \cup {c}
    /\ UNCHANGED <<store, known, tuner, events>>

\* An attachment is refused: nothing is saved.
Refuse(c) ==
    /\ chats[c].phase = "opening"
    /\ chats' = [chats EXCEPT ![c] = DoneChat]
    /\ fresh' = fresh \ {c}
    /\ UNCHANGED <<store, known, tuner, events>>

\* Slip: measured before the question is pushed.
SlipMessagesBefore(rec) == Len(rec.rows)

\* messagesBeforeAssistant, for the record the question is about to be pushed to
MessagesBefore(rec) == Len(rec.rows) + 1

\* The question is pushed and saved, and the chat that was known is aborted.
Enter(c) ==
    /\ chats[c].phase = "opening"
    /\ LET old == chats[c].rec
           new == Push(old, [by |-> c, kind |-> "user", round |-> 0])
       IN  \E rec \in Saved(new) :
             /\ store' = rec
             /\ chats' = [d \in Chats |->
                    IF d = c
                    THEN [chats[c] EXCEPT !.phase = "round", !.rec = rec,
                              !.mBase = MessagesBefore(old), !.tBase = Len(old.turns),
                              !.trimmed = rec # new]
                    ELSE [chats[d] EXCEPT !.aborted = @ \/ known = d]]
    /\ known' = c
    /\ fresh' = {c}
    /\ UNCHANGED <<tuner, events>>

\* The head of a round: the remarks of the user are pushed, and saved if there are any.
BeginRound(c) ==
    /\ chats[c].phase = "round" /\ ~chats[c].aborted
    /\ LET next == [chats[c] EXCEPT !.phase = "budget", !.tight = FALSE]
       IN  \/ /\ chats' = [chats EXCEPT ![c] = next]
              /\ UNCHANGED <<store, fresh, events>>
           \/ /\ Event
              /\ Save(c, [next EXCEPT !.steered = @ + 1,
                            !.rec = Push(@, [by |-> c, kind |-> "steer",
                                             round |-> chats[c].steered + 1])])
    /\ UNCHANGED <<known, tuner>>

\* applyContextBudget, which an abort does not keep from saving; the model is asked for
\* a summary only by a chat that is not aborted.
Keep(c) == IF chats[c].tight THEN KeepTight ELSE KeepRecent

Compacted(c) ==
    Micro(chats[c].rec, Keep(c))
    \cup IF chats[c].aborted THEN {} ELSE Structured(chats[c].rec, Keep(c))

Budget(c) ==
    /\ chats[c].phase = "budget"
    /\ \/ /\ chats' = [chats EXCEPT ![c].phase = "asking"]
          /\ UNCHANGED <<store, fresh>>
       \/ \E rec \in Compacted(c) : Save(c, [chats[c] EXCEPT !.phase = "asking", !.rec = rec])
    /\ UNCHANGED <<known, tuner, events>>

Asking(c) == chats[c].phase = "asking" /\ ~chats[c].aborted

\* The model refuses a view that is too long: one tighter attempt per round.
Overflow(c) ==
    /\ Asking(c) /\ ~chats[c].tight
    /\ chats' = [chats EXCEPT ![c].phase = "budget", ![c].tight = TRUE]
    /\ Event
    /\ UNCHANGED <<store, known, tuner, fresh>>

CallTools(c) ==
    /\ Asking(c) /\ chats[c].calls < MaxCalls
    /\ Save(c, [chats[c] EXCEPT !.phase = "tools", !.calls = @ + 1,
                  !.rec = Push(@, [by |-> c, kind |-> "call", round |-> chats[c].calls + 1])])
    /\ UNCHANGED <<known, tuner, events>>

Results(c) ==
    /\ chats[c].phase = "tools" /\ ~chats[c].aborted
    /\ Save(c, [chats[c] EXCEPT !.phase = "round",
                  !.rec = Push(@, [by |-> c, kind |-> "results", round |-> chats[c].calls])])
    /\ UNCHANGED <<known, tuner, events>>

\* The reply is kept as a draft, and its evidence is checked in one more round.
Draft(c) ==
    /\ Asking(c) /\ ~chats[c].drafted /\ chats[c].calls > 0
    /\ Save(c, [chats[c] EXCEPT !.phase = "round", !.drafted = TRUE,
                  !.rec = Push(@, [by |-> c, kind |-> "draft", round |-> chats[c].calls])])
    /\ Event
    /\ UNCHANGED <<known, tuner>>

Reply(c) ==
    /\ Asking(c)
    /\ SaveLast(c, Push(chats[c].rec, [by |-> c, kind |-> "reply", round |-> chats[c].calls]))
    /\ UNCHANGED <<tuner, events>>

\* Any other error leaves the record as it was last saved.
Throw(c) ==
    /\ chats[c].phase \in {"round", "asking", "tools"} /\ ~chats[c].aborted
    /\ chats' = [chats EXCEPT ![c] = DoneChat]
    /\ Forget(c)
    /\ fresh' = fresh \ {c}
    /\ UNCHANGED <<store, tuner, events>>

\* slice(0, n)
Slice(seq, n) == SubSeq(seq, 1, IF n < Len(seq) THEN n ELSE Len(seq))

\* Slip: the question's own turn goes, too.
SlipTurnsKept(chat) == Slice(chat.rec.turns, chat.tBase)

TurnsKept(chat) == Slice(chat.rec.turns, chat.tBase + 1)

\* finalizeCancelled: back to the question, with the remark that the chat was stopped.
Cancelled(c) ==
    Push([chats[c].rec EXCEPT !.rows = Slice(@, chats[c].mBase),
                              !.turns = TurnsKept(chats[c]),
                              !.skewed = @ \/ chats[c].trimmed],
         [by |-> c, kind |-> "reply", round |-> chats[c].calls])

\* A question of a tool that is cancelled ends the chat without an abort.
Finalize(c) ==
    /\ chats[c].phase \in {"round", "asking", "tools"}
    /\ chats[c].aborted \/ chats[c].phase = "tools"
    /\ SaveLast(c, Cancelled(c))
    /\ UNCHANGED <<tuner, events>>

\* POST /chat/cancel, or the connection is closed.
Stop(c) ==
    /\ chats[c].phase = "opening" \/ known = c
    /\ ~chats[c].aborted
    /\ chats' = [chats EXCEPT ![c].aborted = TRUE]
    /\ UNCHANGED <<store, known, tuner, fresh, events>>

-----------------------------------------------------------------------------
\* Requests that change the record while chats may hold copies of it.

\* Slip: the memory outlives what it sums up.
SlipCutTo(rows, turns) ==
    [store EXCEPT !.rows = rows, !.turns = turns, !.projection = NoProjection,
                  !.dropped = {}, !.skewed = Skewed(store)]

\* What the cuts made for the user have in common.
CutTo(rows, turns) ==
    [store EXCEPT !.rows = rows, !.turns = turns, !.memory = {}, !.projection = NoProjection,
                  !.dropped = {}, !.skewed = Skewed(store)]

Rewrite(rec) ==
    /\ store' \in Saved(rec)
    /\ fresh' = {}
    /\ Event
    /\ UNCHANGED <<chats, known, tuner>>

\* truncateFromDisplayIndex: the k-th turn, one of the user's, goes with all that follows.
Truncate ==
    \E k \in DOMAIN store.turns :
        LET place == DisplayAt(store.rows, k)
        IN  /\ store.turns[k].kind # "reply"
            /\ place > 0
            /\ Rewrite(CutTo(SubSeq(store.rows, 1, place - 1), SubSeq(store.turns, 1, k - 1)))

\* applyCheckpoint with a number of turns to keep; where rows are missing they are
\* rebuilt from the turns.
RestoreCheckpoint ==
    \E keep \in 0..Len(store.turns) - 1 :
        LET turns == SubSeq(store.turns, 1, keep)
            place == DisplayAt(store.rows, keep)
            rows == IF keep > 0 /\ place = 0 THEN turns ELSE SubSeq(store.rows, 1, place)
        IN  Rewrite(CutTo(rows, turns))

\* setSessionModel saves the record, then waits for the budget of the new model with the
\* copy it saved, ...
SetModel ==
    /\ ~tuner.busy
    /\ \E rec \in Saved(store) :
          /\ store' = rec
          /\ tuner' = [busy |-> TRUE, rec |-> rec]
    /\ fresh' = {Tuner}
    /\ Event
    /\ UNCHANGED <<chats, known>>

\* ... and saves that copy again if it had to be compacted.
SetModelBudget ==
    /\ tuner.busy
    /\ tuner' = Idle
    /\ \/ UNCHANGED store /\ fresh' = fresh \ {Tuner}
       \/ /\ \E rec \in UNION {Micro(tuner.rec, KeepRecent), Structured(tuner.rec, KeepRecent),
                               WithoutModel(tuner.rec)} : store' \in Saved(rec)
          /\ fresh' = {}
    /\ UNCHANGED <<chats, known, events>>

\* The process stops.  The projection file is written before the document: a save that
\* was under way may leave its projection beside the document of an earlier one.
Underway ==
    {store.projection, NoProjection}
    \cup {chats[c].rec.projection : c \in {d \in Chats : Holding(d)}}
    \cup UNION {{rec.projection : rec \in Compacted(c)} :
                    c \in {d \in Chats : chats[d].phase = "budget"}}

Crash ==
    /\ \E p \in Underway : store' = [store EXCEPT !.projection = p]
    /\ chats' = [c \in Chats |-> IF Holding(c) THEN DoneChat ELSE chats[c]]
    /\ known' = NoChat
    /\ tuner' = Idle
    /\ fresh' = {}
    /\ Event

-----------------------------------------------------------------------------
Next ==
    \/ \E c \in Chats :
          \/ Open(c) \/ Refuse(c) \/ Enter(c)
          \/ BeginRound(c) \/ Budget(c) \/ Overflow(c)
          \/ CallTools(c) \/ Results(c) \/ Draft(c)
          \/ Reply(c) \/ Throw(c) \/ Finalize(c) \/ Stop(c)
    \/ Truncate \/ RestoreCheckpoint
    \/ SetModel \/ SetModelBudget
    \/ Crash

Spec == Init /\ [][Next]_vars

-----------------------------------------------------------------------------
\* Properties

TypeOK ==
    /\ store \in Record
    /\ chats \in [Chats -> Chat]
    /\ known \in Chats \cup {NoChat}
    /\ known # NoChat => Entered(known)
    /\ tuner \in [busy : BOOLEAN, rec : Record]
    /\ fresh \subseteq Chats \cup {Tuner}
    /\ events \in 0..MaxEvents

Copies == {store} \cup {chats[c].rec : c \in Chats} \cup {tuner.rec}

\* The turns a transcript tells of.
TurnsOf(rows) == Pick(rows, {i \in DOMAIN rows : IsTurn(rows[i])})

\* What the user sees is what the model was told: in the document and in every copy the
\* turns are the questions, remarks and replies among the messages, in their order.
TurnsFollowRows == \A rec \in Copies : ~rec.skewed => TurnsOf(rec.rows) = rec.turns

\* The copy of a chat that nobody overlapped is what is stored: whatever it pushed, summed
\* up or cut has been saved, so that a crash or the next reader loses nothing of it.
UndisturbedIsSaved ==
    /\ \A c \in Chats : c \in fresh => chats[c].rec = store
    /\ Tuner \in fresh => tuner.rec = store

\* A cancelled chat takes back what it did and nothing else: the rows and turns kept by
\* its bases end with its own question, and hold all that others have written.
BasesHold ==
    \A c \in Chats :
        Entered(c) /\ ~chats[c].trimmed =>
            LET rows == chats[c].rec.rows
                turns == chats[c].rec.turns
                own == [by |-> c, kind |-> "user", round |-> 0]
            IN  /\ chats[c].mBase \in DOMAIN rows /\ chats[c].tBase + 1 \in DOMAIN turns
                /\ \A i \in DOMAIN rows : rows[i] = own <=> i = chats[c].mBase
                /\ \A i \in DOMAIN rows : rows[i].by = c <=> i >= chats[c].mBase
                /\ \A i \in DOMAIN turns : turns[i].by = c <=> i >= chats[c].tBase + 1

\* The memory sums up what is in the transcript, or what the soft cap took out of it: no
\* question that was edited away, and none of a transcript that was replaced.
MemoryIsOfRecord ==
    \A rec \in Copies : rec.memory \subseteq {row.by : row \in ToSet(rec.rows)} \cup rec.dropped

ViewOf(c) == View(chats[c].rec, Keep(c))

\* A projection in use ends with a call whose results it does not cover.
Splits(rec) == Valid(rec) /\ Last(rec.projection.prefix).kind = "call"

\* What a model is sent is well formed: each call is followed by its results, and no results
\* come without their call (a provider rejects anything else).
ViewsAreSendable ==
    \A c \in Chats :
        Asking(c) /\ ~(Splits(chats[c].rec) /\ chats[c].rec.projection.kind = "micro") =>
            \A i \in DOMAIN ViewOf(c) : Matched(ViewOf(c), i)

\* What a model is sent is the transcript of its chat: rows of it in their order, none that
\* was taken back, ending with the newest.  The soft cap leaves none to send where a skewed
\* cut has left more turns than rows.
ViewsAreHonest ==
    \A c \in Chats :
        Asking(c) =>
            LET rec == chats[c].rec
                view == ViewOf(c)
            IN  /\ Pick(rec.rows, {i \in DOMAIN rec.rows : rec.rows[i] \in ToSet(view)}) = view
                /\ \/ Splits(rec)
                   \/ rec.skewed /\ Repaired(rec.rows) = <<>>
                   \/ view # <<>> /\ Last(view) = Last(rec.rows)
=============================================================================
