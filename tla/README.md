# Research Canvas: verification development

Research Canvas is a self-hosted research assistant: one Node process (`apps/server`) serves chat
sessions whose agent (`packages/agent`) runs tools, starts background commands
(`packages/agent-workspace`), delegates to sub-agents, waits for the user, is started by schedules and
channels, and updates itself. This directory holds TLA+ models of the parts of that process whose
correctness depends on the order in which things happen, TLC configurations for small instances, and
TLAPS proofs. Everything is translated from the source; the line of each definition is in
`PROJECT.json` under `map`.

## 1. Inventory

### 1.1 Components that carry the program's own logic

| component | where | state | operations | what must hold |
|---|---|---|---|---|
| Chat registry | `apps/server/src/session-chat-runs.ts` | `running`: session -> AbortController | register (abort and replace), cancel, has, clear (only the own controller) | a session looks busy exactly while a registered chat runs; nobody unregisters another's chat |
| Chat engine | `packages/agent/src/engine.ts` `chat()`, `deleteSession()` | `chatAbortBySession`, session records, pending steers and prompts | wait for attachments and title, rounds of tool calls, reply, cancel, delete | one run works on a session at a time; the newer chat wins; a cancelled chat cleans up its own things |
| Background commands | `agent-workspace/src/shell/shell-command-job.ts`, `agent/src/jobs/registry.ts` | job map, registry snapshots | start (2 per session), end, cancel, clear with the session | a job ends once; the terminal event is emitted once |
| Watches and resume bus | `agent/src/jobs/watch-registry.ts`, `resume-bus.ts`, `auto-watch.ts` | watches, defer timers, in-flight keys | attach, detach on the terminal event (a microtask), enqueue, defer while busy, fire, clear | the end of a job resumes its session once: neither lost, nor doubled, nor while the user chats |
| Turn wakes | `agent/src/turn-wake.ts` | timers per session (at most 8) | schedule, fire, defer while busy, clear | as above, for timers |
| Sub-agents | `agent/src/subagents/*` | run registry (memory and store), host bindings | run, restart, cancel, cascade, notify the parent | a cancelled run stays cancelled; each terminal state of a background run is notified |
| Schedules | `packages/schedule/src/*`, `user-store/src/schedule.ts` | jobs and runs in SQLite, a serial queue | tick (claim, lease), run now, execute, finish, reconcile stale leases, edit | one occurrence is executed once; an edit made during a run survives it; a crash does not block a job for ever |
| User prompts and approvals | `agent/src/user-prompt.ts`, `approval-tracker.ts`, `apps/server/src/platform/approval` | pending prompts, mirrored queue (at most 64) | wait, submit, resolve from either side, cancel | a waiting tool call is answered or cancelled once, from whichever side |
| Steer | `agent/src/loop/steer-bridge.ts` | messages per session | enqueue, consume before a round, clear | an accepted steer is consumed by the run it was meant for |
| Session records | `agent/src/sessions.ts`, `user-store` | one document per session | read, save whole, delete, archive | no lost update between two holders of a record; a deleted session stays deleted |
| System update | `packages/system-update/src/*`, `apps/server/src/system-update-*.ts` | `state.json`, the boot and backup pointers, version slots | download, set pending, activate, first-boot hooks, roll back | the boot pointer always names a valid slot, whatever step a crash interrupts |
| Capability gate, hands, memory, store | `apps/server/src/platform/*` | in-memory tables | submit, deny, dispatch | best-effort observation next to the engine |
| Extension host | `apps/server/src/platform/extensions/*` | loaded extensions, child processes | load, enable, disable, call | calls in flight when a host stops are settled |
| Event bus | `packages/event-bus` | listener lists | on, dispatch by priority, stop propagation | an unsubscribed listener is not called again |
| Document library | `packages/doc-library/src/*` | ingest, embedding and model jobs | enqueue, parse, embed, prune | a document is indexed once |
| Market data, hub, news | `a-stock-layer`, `market-data-*`, `research-hub`, `search-hub`, `news-feed` | caches, throttles | fetch, cache, fall back | mostly data transformation |
| Client | `client-ui` | React state, research-canvas reducers | - | user interface |

### 1.2 How they interact

A user's message reaches `engine.chat()` through one of two doors: `POST /chat/stream` registers the
run with the chat registry, while `POST /chat`, channel messages, scheduled tasks and sub-agents call
`chat()` without registering it. The rounds of a chat call tools; `opptrix_run` with `background`
starts a command, whose result attaches a watch before the next macrotask. When the command ends, the
registry's terminal event queues a microtask that removes the watch and asks the resume bus to continue
the session; the bus looks at the chat *registry* (not at the engine) and fires, or tries again ten
seconds later. A turn wake does the same for a timer. Opening a chat, Stop, deleting the session and the
end of a cancelled chat all clear the watches, the defer timers and the wakes of the session.

The behaviours that make this hard: two tables say which chats run and they disagree for unregistered
chats and while a chat still waits for its attachments; an abort is noticed only at the next check; the
clean-up of a cancelled chat runs after the next chat has started; the detach of a watch is a microtask
later than the event that causes it; a deletion overlaps chats that save the record again.

### 1.3 Hazards

`PROJECT.json` lists them under `hazards`, at the line where each one bites, with the properties that
would catch it going wrong, or a note saying why none does.

## 2. Plan

What the development consists of, in the order in which it was built:

1. `ResumeTypes`, `ChatRuns`, `SessionResume`, the core, with the abstract `SessionTurn` it implements
   (section 3).
2. `ScheduleService` (section 4).
3. `SubagentRuns` (section 5).
4. `SystemUpdate` (section 6).
5. `UserPrompts`, on top of `ChatRuns` (section 7).
6. `SessionRecords` (section 8).

Each has an MC module and one run or more; what is proved of which is in section 9. What is left: an
abstract specification for schedules (an occurrence is claimed at most once) and its refinement, the
composition of `SubagentRuns` with `SessionResume` (the former has the part of the resume bus it needs as
operators of its own), and the parts listed in section 10.

Bounds: one or two sessions, two to four chats, one or two jobs, calls or rows, and counters of at most 3.

## 3. The model of session resume

### 3.1 Modules

| module | models | state |
|---|---|---|
| `ResumeTypes` | shared constants and their assumption | - |
| `ChatRuns` | the calls of `engine.chat()` and the two tables that know of them | `alive`, `runs`, `chatRun` (the server's `running`), `engineRun` (`chatAbortBySession`) |
| `SessionResume` | background commands, watches, bus, wakes, and the requests that act on a session | `jobs`, `watches`, `detaching`, `clearing`, `deferred`, `inFlight`, `wakes`, and the history variable `fate` |
| `SessionTurn` | abstract: who holds the turn of a session | `turn` |
| `MCSessionResume` | symmetry for TLC | - |
| `SessionResumeProofs` | theorem: types | - |
| `SessionResumeSafety` | theorems: the inductive invariant and what follows from it | - |
| `SessionTurnProofs` | theorems: a resume never interrupts, and the refinement of `SessionTurn` | - |

**Actions are macrotasks.** JavaScript runs one task at a time, up to its next `await`; an action is
such a stretch. What the code queues as a microtask runs before any other task: those continuations are
`Detach` (the microtask of `onJobTerminal`) and `ClearByJob` (the rest of a canceller after its
`await`), and every other action requires `Quiet`. Where an `await` only ever resolves in microtasks
(the result of `opptrix_run` on its way to the auto-watch; a resume on its way to its first round) no
other task can come between, and the stretch is one action. A command that fails within those
microtasks, so that the watch is asked for after the terminal event, is `StartFailedJob`.

**A run** is `starting` from the entry of `chat()` while it waits for attachments, transcriptions and
the title; `active` from the moment it replaces the engine's controller; `replying` once the reply is
saved; `cancelling` once `finalizeCancelled` has run. `Working` means active with a signal that is not
aborted: only such a run calls tools, since every call is preceded by `throwIfAborted` and the tool
broker rejects a call when the signal fires. A resume is active at once, because nothing on its path to the
first round awaits.

**`fate`** is a history variable: a job is `owed` a resume from its start, until it is `delivered` (a
resume of it was fired) or `forgotten` (the waits of its session were cleared). No guard reads it.

| action | code |
|---|---|
| `StartStream`, `StartDirect` | `POST /chat/stream` with `registerSessionChat`; `POST /chat`, channels, schedules; both clear wakes and waits (`engine.ts:1688`) |
| `RejectStart`, `Activate` | an attachment is refused; the engine's controller is replaced (`engine.ts:1831`) |
| `StartJob`, `StartFailedJob`, `ScheduleTurnWake`, `CancelJob` | the tools of a working run, and the cancel route |
| `EndJob`, `Detach`, `ClearByJob` | terminal event, its microtask, the canceller's continuation |
| `DeferTimer`, `WakeTimer` | busy-defer timer of the bus; `onTimerFire` |
| `Reply`, `Finish`, `Throw`, `Unwind` | the ways out of `chat()`; `Unwind` is the inner `finally` followed by `finalizeCancelled` |
| `Stop`, `Disconnect`, `DeleteSession` | `POST /chat/cancel`, the stream's `close`, `DELETE /sessions/:id` |

The definitions whose comment starts with "Slip" are mutations of their neighbour, used to see that each
property can fail; no specification uses them.

### 3.2 Bounds

`RoomForUser` is the only bound inside the model: users open a chat only while more run identities are
free than there are sessions, so that every session always finds an identity for its resume. Run
identities are reused, so that behaviours are unbounded; jobs are started once each. `MaxWakes` is 1 in
the configurations (8 in the code), `MaxJobsInFlight` and `MaxWatches` are 2 (2 and 8 in the code; all
that matters is the assumption `MaxJobsInFlight <= MaxWatches`). Four runs on one session are enough for a superseded run
still unwinding, a working one, a starting one and a resume; two jobs for the end of one racing the
cancellation of the other. Both runs have one session, which is what fits into a few minutes: that a
session cancels a job of another, and everything else about several sessions, is covered by the proofs.

The process never restarts within the model: nothing here is persisted except the session record, and a
restart empties every table.

### 3.3 Runs

| run | instance | what it shows |
|---|---|---|
| `resume_mixed` | 1 session, 4 runs, 2 jobs, registered and unregistered chats | types; no owed resume is lost; one working run per session; deleted sessions hold nothing; a job resumes at most once and never after its waits were cleared |
| `resume_stream` | 1 session, 3 runs, 2 jobs, registered chats only, fair | a resume or wake never aborts a working chat, the whole machinery implements `SessionTurn`, and every owed resume is delivered or its wait is cleared |

Deadlock is not checked: once its sessions are deleted and its chats have returned, the process really has nothing to do.

**Fairness** (`FairSpec`): weak fairness for the progress of a run (rounds are bounded by
`resolveMaxSafetyRounds`, awaits are bounded by timeouts), for the end of a command (a wall clock limit
of 30 minutes) and for the two microtasks. Strong fairness for the defer timer of a job: it looks at the
session every ten seconds, and could miss each idle moment of a session whose user never pauses; it is
assumed not to do so for ever. Nothing is assumed of users, Stop, wakes or deletions.

### 3.4 Known deviations

Three things the repository's comments rule out are possible in the code, and the model takes them as they
are. `isChatBusy` asks the registry of `/chat/stream` only: a turn wake, documented as never aborting the
current turn (`turn-wake.ts:4`), fires into a chat opened by `POST /chat`, a channel or a schedule, and the
engine aborts that chat. `ResumeNeverAborts` and `TurnSpec` are therefore stated for registered chats
(`UserKinds = {"stream"}`). A chat superseded while it still waits for its attachments aborts, on entering
its rounds, the very chat that superseded it: `OneWorker` holds, but the one that works is not the newest.
And a superseded chat's `finalizeCancelled`, which runs after its successor has started, clears the
successor's watches, so that the end of a command started by the successor resumes nobody
(`agent-prompt-guide.ts:412` promises the resume); `OwedIsTracked` counts such a wait as cleared.

### 3.5 What is left out of this model

Sub-agents, prompts, approvals and steer (sections 5 and 7 model them on their own), the text of messages, models and titles, the pruning of old job snapshots, the `python-install` job kind
(no adapter registers it today), tool handlers that keep running after their call was abandoned by a
timeout, chats opened on a session id that does not exist (they create a new session), and the moment
a chat's answer is delivered to its client.

## 4. The model of schedules

### 4.1 Module

`ScheduleService` models the two tables of `user-store/src/schedule.ts`, which survive a restart, and
the service of `schedule/src/service.ts`, which does not. `MCScheduleService` adds symmetry for TLC,
`ScheduleProofs` the theorems.

| variable | code |
|---|---|
| `master` | `master_enabled` of the settings |
| `jobs` | `scheduled_jobs`: enabled, schedule, and next time with whether it is due; ids are not reused |
| `leases`, `old` | rows of `scheduled_job_runs` that are `running`, and those older than 45 minutes |
| `runs` | what `executeRun` holds of a run: its job as it was when the run was created, and the trigger |
| `queue` | the promise chain of `queueExecute`; the head is being executed |
| `asked` | the run an agent waits for that itself works for the head (`run_scheduled_job_now`) |
| `ticks` | per scan in progress, what is left of its snapshot and the run it waits for |
| `restarts`, `paused` | a bound, and a history variable: jobs last disabled on request |

| action | code |
|---|---|
| `CreateJob`, `UpdateSchedule`, `EnableJob`, `DisableJob`, `DeleteJob`, `SetMaster` | the methods of that name, called by the agent's tools (`mcp/schedule-tools.ts`) and the settings |
| `RunNow`, `ToolTimeout` | `runNow`; the broker's timeout of the tool call |
| `StartTick` | the interval timer: `reconcileStaleRuns`, the switch, `listDueJobs` |
| `TickSkip`, `TickClaim` | one turn of the loop of `tick`: a job left out, or `tryClaimDueJob` and waiting for its run |
| `Finish` | `executeRun` returns or throws, with the writes of either path; the scan that waits goes on |
| `Elapse`, `LeaseExpires` | time |
| `Restart` | a crash or a shutdown, and the next start |

**Actions are macrotasks** here too. A scan that does not wait for a run is between two awaits, and every
other action but a crash and the clock of leases waits for it (`Quiet`). A scan that waits is long: the
interval timer starts further scans meanwhile.

**Time is abstract.** A next time is named by the schedule it was computed from, lies ahead when it is
written and comes due at any later moment; `Retry` is the "a day from now" of a claim without a next
time. A time that is written is later than the clock it was computed from, hence later than any next
time a scan has read as due: an old snapshot never equals a next time written later, and the comparison in
`tryClaimDueJob` fails. This is `Mismatched`. A claim computes from the clock of the scan's start, so
that what it writes may be past already (`Provisional`).

### 4.2 Bounds

`Spare` keeps enough run ids free that every job can be claimed, whatever is run by hand;
`MaxRestarts` is 1. Run ids are reused, so behaviours are unbounded. Two scans suffice for one that comes back
to an old snapshot and for two with the same snapshot; three runs for a stale run, the next claim of
the job and one by hand, which wait for each other in the serial queue. There is one job: that
scans and runs of several jobs do not disturb the invariants and the claims is proved (section 9).

### 4.3 Runs

| run | instance | what it shows |
|---|---|---|
| `schedule_safe` | 1 job, 3 runs, 2 scans, a one-off and a daily schedule, 1 restart, fair | types; one claimed row per job; an enabled repeating job has a next time; a claim is of a job that is enabled and due; an enabled job that is due is claimed in the end |
| `schedule_paused` | 1 job | *violation*: a job disabled during a failing run is enabled again |

**Fairness**: weak for the steps of a scan and the age of a lease; strong for the start of a scan (the timer fires every
20 seconds), the end of an execution (the rounds of a chat and its tool calls are bounded, a script is
killed after 120 seconds) and the timeout of a tool call, because another scan's steps disable all of them for
a moment. Nothing is assumed of users. Without `ToolTimeout` an agent that runs a job now from within a
scheduled chat would wait for ever, since its run is behind its own in the chain: the timeout of the tool
call is the only way out. The exception in `DueIsClaimed` is a job that is just being executed: one that
somebody runs by hand again and again always has an active row when a scan looks.

### 4.4 Finding and known deviations

State is read before an await and used after it: `executeRun` writes the job back from the copy captured
when the run was created. On the error path that restores the enabled flag (`schedule_paused`, the
finding). On both paths it writes the next time of the schedule as it was before an edit made during the run. The
latter has a lasting form: `updateJob` stores a cron expression that `createJob` refuses, and a run
created meanwhile writes a null next time over the repaired job, which nothing computes again;
`EnabledRepeats` is therefore conditional on the schedules that never become invalid.

### 4.5 What is left out

The arithmetic of intervals and cron fields, payloads, notifications, the retired system scheduler
(`os-sync.ts`), rows of ended runs and their pruning (a running row is pruned only after a hundred later
rows of its job), a missing executor (it is set before the timer starts), and a crash between the two
statements of a claim or a deletion. `SetMaster` is in the model because the service offers it
(`patchSettings`) and `tick` asks for the switch; the route the client calls for it is not registered in this
server. A scan reads the switch once, so that it finishes its snapshot after the switch was turned off.

## 5. The model of sub-agents

### 5.1 Module

`SubagentRuns` models one parent session, the runs it delegates with `run_subagent`, the child sessions
those run on and the notices that continue the parent. `MCSubagentRuns` adds definitions for TLC,
`SubagentProofs` the theorems.

| variable | code |
|---|---|
| `rows`, `indexed` | the stored rows of `subagents/registry.ts` and its memory index (`byId`, `byParent`) |
| `child` | the child session of a row, and whether a message of it was ever saved |
| `workers` | calls of `runSubagent` with the `executeRun` they start (`runner.ts`), each with the chat it has open |
| `chatOf` | `chatAbortBySession` on the child sessions |
| `alive`, `turns`, `current` | the parent's record, its chats, its entry in `session-chat-runs` |
| `deferred`, `inFlight` | the busy-defer timers and in-flight keys of the resume bus, for this parent |
| `notice` | history: what became of the notice of a row's end: none yet, heard, cleared, dropped |
| `restarts`, `crashes` | history and bounds |

| action | code |
|---|---|
| `CallRun`, `CallRestart`, `Named`, `Create`, `Restart` | `runSubagent`, up to its three awaits: the label, the title, the row |
| `Register`, `Reply`, `NeedParent`, `Throw` | the chat of a child: its entry into the engine's table, its answer, a confirmation it may not ask for, an error |
| `ReturnValid`, `ReturnHandedOver`, `Retry`, `ReturnInvalid` | `executeRun` after a chat: the contract, the second attempt, `setStatus` and the notice |
| `Cancel`, `Look`, `List` | the tools and routes of that name; a look loads a row into the index |
| `OpenChat`, `EndTurn`, `Stop`, `Unwind`, `LeaveStopped`, `DeleteParent` | the parent's chats, `POST /chat/cancel`, `finalizeCancelled` with its cascade, `deleteSession` |
| `DeferTimer`, `Timeout`, `Crash` | the bus's timer, the broker's timeout of the tool call, a restart of the process |

An action is one task up to its next `await`. A row is `queued` only inside such a task. `run_subagent` is a
serial tool (`loop/tool-parallel.ts`), and a superseded chat's call finds its signal aborted: that is why the
look for a duplicate cannot be outrun by a second call (`CreatesNoDuplicate`, resting on `EarlyIsAwaited`).

### 5.2 Bounds, runs, fairness

| run | instance | what it shows |
|---|---|---|
| `subagents_safe` | 2 rows, 2 workers, 2 turns, background runs, deletion | types; a run shown as running is executed; a deleted parent runs nothing; no duplicate is started; deletion reaches every run |
| `subagents_live` | 1 row, 2 workers, 1 turn, foreground and background, 1 restart, 1 crash, timeouts, fair | a child session has one chat that is not aborted, and the engine knows it; a run that is restarted over its own earlier execution is executed while it is shown as running; every run ends, also such a one; the notice of a background end is not forgotten |
| `subagents_rerun` | 1 row, 1 worker, 1 turn, background, 1 restart, fair | *violation*: the end of a restarted run is told to nobody |

Two rows are enough for a run and its duplicate, or the run that is listed and the one that is not; two
workers for a restart that overtakes the first execution; two turns for a chat and the resume
that follows it. One row is enough for restarts and liveness: the bus has one key per run, and a run waits for no other; the
restart gives an end that was heard and one that follows it. **Fairness** is weak for the
steps of workers and of the parent's turns (rounds, titles and
chats are bounded) and strong for the defer timer, as in section 3. `RunsEnd` and `EndsReachParent` are
checked without deletions. They, and the properties with `crashes = 0`, hold until the
process restarts, because nothing repairs a `running` row afterwards.

A restart resets `notice` to "none", so that every end has to be accounted for anew. `EndsReachParent` accepts three accounts: the notice
resumed the parent ("heard"), the waits of the parent were cleared by Stop, by a new message of the user or
by a chat that unwinds ("cleared"), or `enqueue` found its key in flight ("dropped"). It says that no
notice is lost in a timer; it does not say that the parent learns of every end. `EveryEndIsHeard` leaves
"dropped" out, and the code does not keep it.

### 5.3 Finding and known deviations

**A second notice is dropped** (`subagents_rerun`, the finding). `runner.ts:214` says that background terminal states
notify the parent. `enqueue` returns when the key is in flight (`resume-bus.ts:84`), and the key is that of the run: the
chat that its first end has resumed restarts the run in the background, and when that ends before the chat does,
nobody is told.

Two other sentences of the source are not kept either; no property is about them, the model takes the code as it is:

- `cascade.ts:46` says that Stop cancels every child that runs. The aborted chat of a child returns a "stopped" reply
  instead of throwing; the reply fails the contract, a second chat of the cancelled run is started (`runner.ts:581`) and
  its outcome, completed or failed, written over the status. `RunsEnd` and `OneLiveChat` hold all the same.
- `runner.ts:448` answers that a task in progress is reused. The look for it (`registry.ts:105`) goes by the stored status, which a
  restart of the process leaves at `running`: every later call for the task is answered with a run nobody executes.

Modelled as it is, and not contradicted by a comment: a
foreground call that outlasts the tool timeout leaves a run whose end nobody is told; a chat that outlives
the deletion of its child session saves it again; after a restart the index knows only some rows, so
that a deletion misses the others; a restart looks at the status before the label is awaited and not after.

### 5.4 What is left out

Prompts, result schemas and models; the text of a deferred notice; `reclaim_subagent`, which only reads
(`Look`); `deleteByParent`, which nothing calls; a `formatChatTitle` slower than the 300 seconds of the
tool timeout; parents whose chats are not registered.

## 6. The model of system update

### 6.1 Module

`SystemUpdate` models `packages/system-update` with the part of the server that drives it
(`system-update-checker.ts`, `-service.ts`, `-import.ts`, `-routes.ts`) and the scripts that run while the
server is down (`system-boot.mjs`, the node supervisor, the container's entry point). `disk` is what
survives a crash: boot and backup pointer, slots, `state.json` and database snapshots. The other
variables are the process: `running`, `hooks`, `check`, `loading`, `importing`, `exiting`, and where the
supervisor is, `pc`. `stale`, `slipped`, `cut` and `crashes` are history and bounds; `image` is the version of the
seed tree.

Every script that writes more than one file is two things: the operator for its last state
(`Seeded`, `Staged`, `Activated`, `RolledBack`, `Extracted`, `Upgraded`, `Failed`) and the set of states a crash leaves
in between (`SeedCut`, `StageCut`, `ActivateCut`, `RollbackCut`, `ExtractCut`, `DoneCut`, `FailCut`). `Cut` takes the
disk to one of the latter.

A slot is the set of what there is of its directory: the directory itself, the marker, the server's entry and
everything else. A complete tree has all four (`Tree`); a copy or a removal that was cut short leaves some of them, in any
combination (`Trees`), since the order of files in `cpSync` and `rmSync` is not stated. The readers differ in what they ask for: a pointer is
followed to any directory (`Exists`); `verifySlotDirectory` is content with the marker or the entry (`Present`); the
supervisor asks for the entry, and a server that starts needs at least that (`Start`). On every other
directory the start fails (`StartFails`): the supervisor throws when the entry is missing
(`opptrix-node-supervisor.mjs:164`) and prepares the next start when the server exits; the container's loop starts
the same slot again (`docker-entrypoint.sh:284`). With the entry and without all of the rest both may happen.

| action | code |
|---|---|
| `UpgradeImage` | a container started from a newer image |
| `SeedCurrentSlot`, `StageSeedVersionAsPending`, `ImageNotNewer` | `system-boot.mjs ensure` |
| `NothingToActivate`, `ActivatePending`, `ActivateThrows` | `activate-pending` |
| `PrintBootThrows`, `StartFails`, `Start` | `print-boot`; the supervisors' start of the server, and its first task up to the first await of the hooks |
| `HooksProgress`, `HooksDone`, `HooksFail` | `runFirstBootHooksIfNeeded` |
| `CheckBegin`, `StartSilentDownload`, `NothingOffered`, `CheckFails`, `Downloaded`, `DownloadFails` | the update check and the silent download |
| `ImportBegin`, `ImportEnd`, `ImportFails`, `ApplyPendingUpdate`, `RollbackUpdate`, `UserWrites` | requests of the user |
| `Exit`, `Crash` | `scheduleSystemUpdateExit`, and a crash of the process |

### 6.2 Bounds, runs, fairness

| run | instance | what it shows |
|---|---|---|
| `update_safe` | 3 versions, images 1 and 2, versions 2 and 3 published, 3 imported, 2 and 3 with hooks that may fail, 2 needing a new base, 1 crash, 1 script cut short, fair, deadlock checked | types; pointers, state file and process agree; no version that failed is run again; the server comes up; the lock on the API is lifted; with the exceptions below; 963,687 states |
| `update_stale` | 2 versions and images, failing hooks, 2 crashes | *violation*: a failed upgrade puts back a snapshot older than what the user wrote |
| `update_staged` | 2 versions and images, 1 crash, 1 script cut short | *violation*: an incomplete tree is activated |

Three versions are enough for one to fall back to, one that fails and one that supersedes it. One cut reaches
every intermediate state of every script. **Fairness**: the supervisor goes on, the exit timer fires, hook
scripts return (they have no timeout, which is an assumption on the scripts). Nothing is assumed of users or the network.

`NoBlockedRuns` has three exceptions: a version that comes with the image, which `ensure` stages whatever is
blocked; a server that has nothing to go back to; and a version that was being imported while its own
hooks failed (`slipped`, section 6.3). `update_safe` violates the property without any one of them. It also exempts
a cut extraction, which the proof needs (`WaysKept`, section 9) and this instance does not.

`StateAgrees` excludes states in which a seed, a stage or a rollback was cut short: there the code does
leave pointer and state file apart. `ComesUp` and `LockIsLifted` have two exceptions, in which the
server does stay down: `PendingGone`, an extraction that was cut short and has taken the slot of the pending
package, so that `activate-pending` throws at every start; and `BootBroken`, a boot pointer at a slot which a cut
staging or extraction left incomplete, so that the start fails. Each names the script that was cut and is a state of
the disk, not a choice of the model, and `update_safe` violates both properties without either of them. A cut seed is no exception:
no boot pointer is there, and `ensure` copies the tree again.

### 6.3 Findings and known deviations

- **An old snapshot is put back** (`update_stale`). The snapshot of a pair of versions is taken only if none exists and is deleted only after success, and
  `ensure` stages an image whose version is blocked again: after a second failure the first snapshot is restored.
- **An incomplete tree is activated** (`update_staged`). `verify.ts:2` is to verify that a slot is a usable runtime tree, and `verify.ts:34`
  asks for the marker or the entry. A staging copy that was cut short after either of them is not copied again
  (`seed.ts:245`), `activatePending` moves the boot pointer to it, and without the entry no supervisor can start it. The phase
  stays at the first-boot hooks, which never run: nothing blocks the version, nothing rolls it back, and the lock stays.

Modelled as they are:

- a crash inside a rollback leaves the boot pointer on the old version and `currentVersion` on the new one;
- a crash between unlink and link of the boot pointer re-seeds the version of the image;
- any restart activates a silently downloaded version, without the confirmation of the wizard;
- a crash during a download leaves its job `running`, since nothing resumes it;
- a blocked version is staged again by `ensure` from a newer image, on a node installation at every start;
- an import during the first-boot hooks resets the phase, and the check that allowed it is older than its end:
  where the hooks of the very version fail meanwhile, `HooksFail` blocks it, `ImportEnd` makes it pending
  all the same, and `activate-pending` does not ask, so that the blocked version is booted once more;
- the package's `README.md:55` calls the pending version an "Extracted slot waiting for activate". Importing it again
  removes its slot first (`extract.ts:160`); a crash before the rename leaves a pending version without a slot, and
  `activate-pending` throws at every start (`PendingGone`);
- a user's rollback asks for no schema check, and one during the hooks makes the next progress mark
  throw, which restores the snapshot and blocks the version.

### 6.4 What is left out

The probe of the CDN at container start and the update CLI, overlapping forced checks (one check at a time),
vendor directories (they do not throw), the content of archives, user writes in the 400 ms before an exit, and
exit codes: both supervisors run `activate-pending` before the next start. The await of
`schemaCompatible` within a rollback is taken as atomic.

## 7. The model of questions and remarks

### 7.1 Module

`UserPrompts` is built on `ChatRuns`, like `SessionResume`: the same chats, here with the questions they
ask and the remarks they are sent. `MCUserPrompts` adds symmetry, `UserPromptProofs` the theorems.

| variable | code |
|---|---|
| `calls` | tool calls, each with the signal it holds, whether its chat still waits for it, and the state of its question |
| `bridge` | `UserPromptBridge.pending` (`user-prompt.ts`) |
| `open` | pending records of the approval queue (`create-approval-queue.ts`) |
| `bound` | the workspace bridge that serves the tools of a session, by generation (`mcp/workspace-tools.ts`) |
| `steer` | the queue of `steer-bridge.ts` |
| `stage`, `thrown` | where a chat is in its rounds, and whether its question was cancelled |

| action | code |
|---|---|
| `AskUser` | `ask_user`, inside a round: `allocateApprovalOwnedPromptId`, then `waitForAnswer` |
| `StartTool`, `ToolAsks`, `ToolTimeout`, `Return` | a call through the broker: its handler may ask (`confirm`, `askUser`, `askSecret`), may outlast its timeout and go on |
| `Answer`, `ResolveApproval`, `CancelApprovals` | `POST /chat/user-prompt`, `POST /platform/approvals/:id/resolve`, `POST .../approvals/cancel` |
| `Stop`, `Disconnect`, `DeleteSession`, `Truncate`, `Archive` | what ends waits, records and remarks from outside, each in its own selection |
| `Steer`, `Round` | `POST /chat/steer`; the head of a round, which takes the remarks |
| `StartStream`, `StartDirect`, `Resume`, `Activate`, `RejectStart`, `Throw`, `Reply`, `Finish`, `Unwind` | the life of a chat, as in section 3, with what each does to questions, bindings and remarks |

A handler asks at most once per call, a second question is another call. Answers are reduced to
"answered". The inner `finally` and `finalizeCancelled` are one step (`Unwind`): when the model call sees the
abort they come in the other order, to the same effect, since the run is aborted. The last safety round
offers no tools, so that a round always follows a tool call. Sessions are root sessions, since a child may
not ask.

### 7.2 Bounds and run

`prompts_safe`: 1 session, 2 runs, 2 calls, 1 remark, registered and unregistered chats, and a queue of
one record (64 in the code), so that a full queue is reached; 693,705 states up to symmetry. Two runs give a
superseded chat that unwinds beside its successor, two calls a question of each, or a timed-out handler beside a
question of the round. It shows: types; whoever waits is in the bridge and nothing else is; an
answer closes both sides; the tools of the chat at work find its own bridge; a remark accepted between rounds is taken up before the chat replies. There is
no fairness and no deadlock check: everything may wait for a user who never comes.

### 7.3 Known deviations

None of these is contradicted by a comment or a test; the model takes them as they are.

- Stop, unwinding and `cancelSession` act on the whole session: a superseded chat's `finalizeCancelled`
  cancels its successor's question, and that chat ends as cancelled though nobody stopped it.
- Stop cancels waits and leaves the records to the chat that unwinds; the record of a handler stays.
- `/approvals/cancel` and a full queue leave a wait without a record; a handler that asks after its abort
  leaves a record without a wait, which counts against the limit.
- A timed-out handler keeps waiting, and acts on an answer given after the model was told of the timeout.
- A remark accepted during the last call of the model is left to the next chat of the session, and a
  chat without a user drops it.

### 7.4 What is left out

The content of questions, decisions and remarks, the vault that keeps secrets, and the client.

## 8. The model of session records

### 8.1 Module

`SessionRecords` models the document of one session (`sessions.ts`), the copies of it that chats work on
(`engine.ts`), the soft cap of a save (`context/session-persist-soft-cap.ts`), compaction and projection
(`context/compact.ts`, `projection.ts`, `session-projection-disk.ts`), and the repair of a transcript for
the model (`llm/messages.ts`). `MCSessionRecords` adds symmetry, `SessionRecordsProofs` the theorems.

A row stands for a message: who pushed it, its kind and the round; all tool messages of a round are one row
"results". A record has `rows` (`messages`), `turns` (what the user sees), the `memory` as the set of chats
it sums up, and the projection as the prefix it covers, of which the code keeps the length and a hash.

| variable | code |
|---|---|
| `store` | the document in the store, with the projection file beside it |
| `chats` | calls of `chat()`: the copy read on entry, where the call is, `messagesBeforeAssistant` and `turnsBeforeAssistant` |
| `known` | `chatAbortBySession` for this session |
| `tuner` | `setSessionModel` between its two saves |
| `fresh`, and `skewed`, `dropped`, `trimmed` in records and chats | history: who was not overlapped; what cuts and the soft cap did |
| `events` | bound |

| action | code |
|---|---|
| `Open`, `Refuse`, `Enter` | the record is read; an attachment is refused; the question is pushed and saved, and the earlier chat aborted |
| `BeginRound`, `Budget`, `Overflow` | the head of a round with the user's remarks; `applyContextBudget`; the one retry after an overflow |
| `CallTools`, `Results`, `Draft`, `Reply`, `Throw` | what a round ends with; a draft is kept for the check of evidence |
| `Finalize`, `Stop` | `finalizeCancelled`; an abort from outside |
| `Truncate`, `RestoreCheckpoint` | `truncateFromDisplayIndex`, `applyCheckpoint` with a turn count |
| `SetModel`, `SetModelBudget` | `setSessionModel` up to its await, and after it |
| `Crash` | the process stops; the projection file may be that of a save that was under way |

Tool calls, replies of the model, sizes and token counts are choices. `Saved` is what a save may write: above
`Trigger` turns it trims to `KeepTurns`; between the two it trims if the document exceeds 8 MB.

### 8.2 Bounds and run

`records_safe`: 2 chats, 1 round of tool calls each, and 2 of the rarer events (remarks, drafts, overflows,
cuts, changes of the model, crashes); 659,527 states up to symmetry. The limits are scaled down so that they are
reached: a compaction keeps 2 rows (16 in the code), the retry 1 (8), a save trims above 4 turns to
4 (500 and 200). A session starts empty or with an answered question. Two chats give a superseded
chat beside its successor, two events a crash after a compaction or a cut beside a chat. It shows:
turns follow the messages; what an undisturbed holder did is saved; the bases of a cancelled chat are where its
own rows begin; the memory is of the transcript; what a model is sent is well formed, and is the transcript.
Deadlock is not checked, since chats end.

Each exemption in a property was found to be necessary: without it TLC finds a violation, and the deviation is
listed below. There is no fairness: nothing here must happen.

### 8.3 Known deviations

- Holders overwrite each other. A chat that reads the record before another one saves takes away what that
  one wrote; it restores a transcript that was truncated, or a model that was changed, while it ran.
  `UndisturbedIsSaved` says what is left: a holder nobody overlapped loses nothing.
- A draft counts as a display row and is not a turn: truncation, checkpoints and the soft cap cut
  at the wrong message afterwards, although `sessions.ts:790` says rows and turns are aligned (`skewed`).
- The soft cap moves the rows a running chat has remembered positions in: its cancellation leaves its own rounds
  in the record (`trimmed`).
- A cancellation at positions that the soft cap has moved, or a cut that counted a draft, may leave more turns than
  rows. Where they are more by as many as the soft cap keeps (200), it finds no row of the first turn that stays,
  and its estimate takes all rows: the model is sent an empty transcript. `records_safe` is too small for that;
  `ViewsAreHonest` excepts it.
- A projection may end between a call and its results. The results are then missing from the view (the repair
  drops them), or, with a projection that shortens, follow as a call without results, which
  `llm/messages.ts:25` means to rule out.
- A memory keeps summing up a chat that was cancelled, if it was made while the chat ran.
- Below the soft limit a model sees the last 16 rows only, whatever the size of its context.

### 8.4 What is left out

The content of results and its shortening by the soft cap (it invalidates the projection, which is then not
used), checkpoints with a snapshot of turns, forks and the context reference (both put rows in front), chats without
a configured model, saves that change a title, a folder or other fields (whole-document saves like `SetModel`),
and deletion, which is in `SessionResume`.

## 9. Proofs

The configurations show the properties on small instances; TLAPS proves them for every value of the
constants: any sets of sessions, runs, calls and rows, any finite set of jobs, any number of restarts and crashes.

| theorem | says | assumes |
|---|---|---|
| `TypeCorrect` | `Spec => []TypeOK` | `ResumeAssumption` |
| `PromiseKept`, `TrackersAreNeeded`, `TrackedOnce` | `OwedIsTracked`, `TrackedIsOwed`, `OneTracker` | `ResumeAssumption` |
| `OneWorkerPerSession`, `TablesAreCurrent` | `OneWorker`, `TablesNameLiveRuns` | `ResumeAssumption` |
| `NothingLeftBehind`, `KeysAreFreed` | `DeadSessionsHoldNothing`, `InFlightIsRunning` | `ResumeAssumption` |
| `ResumedOnce` | `ResumeAtMostOnce` | `ResumeAssumption` |
| `ResumeIsPolite` | `ResumeNeverAborts` | also `UserKinds = {"stream"}` |
| `ImplementsTurn` | `Spec => TurnSpec`, the refinement of `SessionTurn` | also `UserKinds = {"stream"}` |
| `ScheduleTypes` | `TypeOK` of `ScheduleService` | `ScheduleAssumption` |
| `LeasesSound`, `LeasesEnd`, `RowsHaveTheirJob` | `OneTimerLease`, `LeasesAreQueued`, `RowsHaveJobs` | `ScheduleAssumption` |
| `ScansEnd` | `ScansWaitForQueued` | `ScheduleAssumption` |
| `RepeatsForever` | `EnabledRepeats` | also `NeverAt = {}` |
| `ClaimedOnce` | `ClaimsAreDue` | `ScheduleAssumption` |
| `TypesCorrect`, `BooksKept` | `TypeOK` and `Bookkeeping` of `SubagentRuns` | `SubagentAssumption` |
| `RunningIsExecuted`, `ChildHasOneChat`, `DeletionStopsAll` | `ActiveIsExecuted`, `OneLiveChat`, `DeadParentRunsNothing` | `SubagentAssumption` |
| `NoDuplicates`, `DeletionReachesEvery` | `CreatesNoDuplicate`, `DeletionReachesAll` | `SubagentAssumption` |
| `Types`, `Agreement`, `BlockedNeverRuns` | `TypeOK`, `StateAgrees` and `NoBlockedRuns` of `SystemUpdate` | `UpdateAssumption` |
| `PromptTypes`, `NobodyWaitsInVain`, `AbortEndsQuestions`, `BothSidesClose`, `ListIsCurrent`, `DeletionEndsQuestions`, `ToolsFindTheirChat` | the invariants of `UserPrompts` | `ResumeAssumption`, `PromptAssumption` |
| `RemarksAreHeard` | `SteerIsHeard` | the same |
| `TypesAreRight`, `UndisturbedIsAlwaysSaved`, `TurnsAlwaysFollowRows`, `BasesAlwaysHold` | `TypeOK`, `UndisturbedIsSaved`, `TurnsFollowRows` and `BasesHold` of `SessionRecords` | `RecordAssumption` |
| `MemoryIsAlwaysOfRecord`, `ViewsAreAlwaysSendable`, `ViewsAreAlwaysHonest` | `MemoryIsOfRecord`, `ViewsAreSendable`, `ViewsAreHonest` | `RecordAssumption` |

**Assumptions.** `ResumeAssumption` says that the "no entry" values are none of the real ones and that
the limits are natural numbers with `MaxJobsInFlight <= MaxWatches`. The last one carries weight: it
is the reason why `Attach` never refuses the watch of a command that has been started (`RoomToWatch`:
every watched job of a session runs, apart from the one whose detach is queued, and fewer than
`MaxJobsInFlight` of them run). In the code it is `2 <= 8`, two constants in two packages. The two
theorems of `SessionTurnProofs` hold where no chat is opened without being registered; section 3.4 says why
they fail otherwise.

**The inductive invariant** is `SafeInv`, the conjunction of

- `TypeOK`, `OneWorker`, `TablesNameLiveRuns` (together `ChatInv` and the types of the job side): a chat
  that enters its rounds aborts only `engineRun`, so one worker per session is preserved only because the
  one at work is the one in the table;
- `JobInv`: `OwedIsTracked`, `TrackedIsOwed`, `OneTracker`, strengthened by `JobsInOrder`. Without the
  latter an in-flight key could belong to a job that is still owed, whose end would then be dropped by
  `enqueue`, and a queued microtask could belong to a job that still runs;
- `DeadSessionsHoldNothing`, which makes `enqueue`'s silent return on a missing session harmless: a
  session with something owed is alive;
- `InFlightIsRunning`, with `ResumesStartActive`: a resume that waited before its rounds could be
  refused (`RejectStart`) without freeing its key.

Each conjunct was an invariant of TLC's before it was proved. Each has one lemma per group of actions
(`ChatStep`, `JobStep`, `DeadStep`, `RunStep`) with one step per action; `ChatActions` says what an action
of `SessionResume` does to the runs and their tables, so that the properties about chats are proved per
operation of `ChatRuns` and not per action. `ResumedOnce` follows from the invariant: a run with the key
of a job is opened by `Enqueue` only (`JobOfOpened`), for a job that is being detached or has a timer,
which is still owed.

`SessionTurnProofs` adds `Registered`, for which registration of all user chats is needed: the
registered run of a session is its only run that is not aborted. A session that looks idle then has only aborted
runs, so that a resume interrupts nobody and finds the turn free. The refinement maps the turn of a
session to the run in the engine's table until it is aborted; each operation of `ChatRuns` takes, ends or keeps
the turn of one session (`TurnOfOne`, `OtherTurns`).

**Schedules.** `ScheduleAssumption` says that the "nothing" values are none of the real ones and that a
schedule is not both a moment and invalid. `RepeatsForever` holds where no expression is invalid
(section 4.4). The inductive invariant is `SInv`: the invariants of the table above with `Bookkeeping`, the
strengthening. The queue must hold a run once
(`Distinct`), or the end of a run would leave its second entry without a captured job; and
`SnapshotsHold` says that what a scan has still to look at is due or deleted, from which `ClaimedOnce`
follows at once. `EnabledRepeats` enters as `Repeats`, conditional on valid expressions. What each
action does is stated once in the words of the invariants (`EditFacts`, `ClaimFacts`, `FinishFacts`
and their neighbours), and each of `EditStep`, `ClaimStep`, `FinishStep` ... takes the invariants one by one.

**Sub-agents.** The invariant is `Safe`: types, `ActiveIsExecuted`, `OneLiveChat`, `DeadParentRunsNothing` and
`Bookkeeping`, whose parts say that a worker and a chat belong together (`ExecutesOne`), that the chat in the engine's table is the
live one (`LiveIsCurrent`), that a call before its row exists is awaited by the turn at work (`EarlyIsAwaited`,
from which `NoDuplicates` follows: a second call would need a second turn at work), and that after a look into the
index every run in progress is in it (`IndexIsWarm`). The action properties follow from the same invariant.
For `DeletionReachesAll` only the deletion takes the session's record away (`DeletingStep`), and a warm index
lists every row.

**System update.** `Agreement` needs `Booked`: as long as no seed, stage or rollback was cut short, every slot is
missing or complete unless an extraction was cut (`NoPartialSlot`), a pointer that has moved away from the state file has moved to the pending version, and the
server that runs is the one that was booted. `BlockedNeverRuns` rests on two more invariants. `Packages` says that
no version on its way is blocked, unless it is of the image or slipped: not the pending one, nor one that is
imported, downloaded or offered, and that the hooks which run, and may block their version, are those of
the current version, which is never downloaded or offered. `WaysKept` says, as long as no extraction was cut short, that boot and backup
pointers name slots which are there, so that a failure either goes back to a version that was not blocked or has no way back at all.

**Questions and remarks.** `Safe` is `TypeOK` with `ChatsFit` (tables, bindings and stages belong to the chats),
`QuestionsFit` (calls, bridge and queue belong together and to their chat) and `RemarksFit`. The theorems follow from
it, one step per action; `RemarksAreHeard` from the fact that a chat in its last call has an empty queue of its own.

**Session records.** `Safe` says of the document and of every copy (`Fit`) that the memory sums up rows
that are there or dropped, that turns follow rows unless a cut was skewed, and that no row is by a chat which has
not entered yet; that an undisturbed copy is the stored one; and that a chat in its rounds has its bases where its own
rows begin (`Based`). A save, a push, a compaction, a trim, each cut and a cancellation keep `Fit`
(`FitSaved`, `FitPush`, `FitCompact`, `FitTruncate`, `FitRestore`, `FitCancel`), a push and a save keep a base
(`BasePush`, `BaseSaved`), and the actions are put together from these. The repair of a transcript and the
selection of turns are recursive functions (`Pick`). Since nothing computes with them by induction over an operator,
`Induction` states the principle for sets of numbers, and `PickFacts` what selecting gives: the chosen
elements, in their order, and nothing else. `ViewsAreAlwaysSendable` needs no invariant but the types: it is a fact about
`View` for every record, from the repair (`RepairedIsSendable`) over the tail that does not start at
results (`TailIsSendable`) to the joint of prefix and tail (`JoinIsSendable`).

`ViewsAreAlwaysHonest` needs a second invariant, `Honest`, which rests on `Safe`. `Plain` says of every copy that no row
occurs twice among its messages or its turns, and that none of its messages, turns and covered rows is by a chat which
has not entered yet. Of a chat at work, `Spoken` says that whatever is by it carries a number it has used already, so that what it
pushes next is new even to an outdated projection; and `Newest`, that its copy ends with the call it waits for or with a row
that a repair keeps, which no projection covers. Then a view is a part of the transcript (`ViewIsPart`), a part of a
sequence without duplicates is what is picked at the places of its elements (`PickOfPart`), and it ends with the
newest row (`ViewEnds`): a valid projection stops before that row, and what follows it starts with a whole group. An earlier
form of the property promised a newest row in every case. The attempt to prove it failed, and TLC refuted it with
a soft cap that keeps a single turn; the empty transcript of a skewed record is now an exception of its own (section 8.3).

**Model-checked only:** `EndedJobsResume`, `DueIsClaimed`, `RunsEnd`, `EndsReachParent`, `ComesUp` and
`LockIsLifted`, which need fairness; and the violations. Every safety property of a passing run is a theorem. No
module uses a RECURSIVE operator.

## 10. Not modelled

| part | why |
|---|---|
| harness evolution | scores past sessions offline, and writes nothing a chat reads while it runs |
| capability gate, hands, memory, store (`apps/server/src/platform`) | observers beside the engine that swallow their own errors; the gate's decision is one of the outcomes of a tool call |
| extension host | a child process per extension, reached by calls with timeouts; calls share no state with each other or with sessions |
| event bus | synchronous dispatch to listeners in the order of their priority, with no shared state |
| document library, local inference | job queues around parsers and models; what is hard about them is in the parsers |
| market data, research hub, search, news | fetch, cache and transform; one process, no state that two actors change in steps |
| browser client | user interface |
| routing and guards of tools (`agent/src/mcp`, `loop`) | decides which tools a round offers, from texts; the life of a call is in `UserPrompts` and `SubagentRuns` |
| channels | a source of unregistered chats (`StartDirect`); the rest is protocol adapters |
