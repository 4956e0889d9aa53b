---------------------------- MODULE SystemUpdate ----------------------------
(***************************************************************************)
(* The self-update of the server: versions in slots, the boot and backup   *)
(* pointers, state.json, the scripts that run while the server is down and *)
(* the update service that runs within it.                                 *)
(*                                                                         *)
(* disk stands for everything that survives a crash:                       *)
(*   boot, backup   the directory pointers, None when the link is missing  *)
(*   slot           per version: what there is of its directory, {} when    *)
(*                  it is missing, Tree when it is complete                *)
(*   current, pending, saved, ui, first, job, blocked                      *)
(*                  currentVersion, pendingVersion, backupVersion,         *)
(*                  uiPhase, firstBootUpgrade.version, downloadJob.status, *)
(*                  blockedVersions of state.json                          *)
(*   snaps          the <<from, to>> pairs with a database snapshot        *)
(*                                                                         *)
(* A script or a handler writes files one after the other without yielding *)
(* to others.  It takes the disk to its last state, or a crash leaves one  *)
(* of the states in between (Cut).                                         *)
(***************************************************************************)
EXTENDS Naturals, FiniteSets

CONSTANTS
    Newest,         \* versions are 1 .. Newest, ordered as compareSemver does
    Images,         \* versions of the seed tree, the container image
    Published,      \* versions the update channel announces as its latest
    Imports,        \* versions the user imports from files
    Faulty,         \* versions whose first-boot hooks may throw
    NeedsBase,      \* versions that need a base image of their own version
    MaxCrashes,     \* bound: stops of the server process between two tasks
    MaxCuts         \* bound: scripts cut short

Versions == 1 .. Newest
None == 0
Scripts == {"seed", "stage", "activate", "rollback", "extract", "done"}

\* A slot: its directory, with the marker opptrix-runtime.json, with the server's
\* entry apps/server/dist/index.js, and with everything else.
Tree == {"dir", "marker", "entry", "rest"}
Trees == {t \in SUBSET Tree : t = {} \/ "dir" \in t}

ASSUME UpdateAssumption ==
    /\ Newest \in Nat /\ MaxCrashes \in Nat /\ MaxCuts \in Nat
    /\ Images \subseteq Versions /\ Images # {}
    /\ Published \subseteq Versions /\ Imports \subseteq Versions
    /\ Faulty \subseteq Versions /\ NeedsBase \subseteq Versions

VARIABLES
    disk,       \* what survives
    image,      \* version of the seed tree
    pc,         \* ensure, activate, again (the loop of the entry point),
                \* start, or up
    running,    \* version of the server process
    hooks,      \* runFirstBootHooksIfNeeded: the versions it upgrades between
    check,      \* the versions an update check in flight would accept
    loading,    \* version being downloaded
    importing,  \* version being imported
    exiting,    \* scheduleSystemUpdateExit has been called
    stale,      \* history: snapshots older than something the user wrote
    cut,        \* history: the scripts a crash has cut short
    crashes,    \* history: stops so far
    slipped     \* history: versions blocked while they were being imported

service == <<hooks, check, loading, importing, exiting>>
crashVars == <<cut, crashes, slipped>>
vars == <<disk, image, pc, running, hooks, check, loading, importing, exiting,
          stale, cut, crashes, slipped>>

Idle == [on |-> FALSE, from |-> None, to |-> None]
NoCheck == [on |-> FALSE, offers |-> {}]
Pairs == (Versions \cup {None}) \X Versions

-----------------------------------------------------------------------------
(* layout, verify *)

\* A pointer is followed to any directory, the other uses of a slot ask
\* verifySlotDirectory, for which the marker or the entry is enough.
Exists(d, v) == v # None /\ d.slot[v] # {}
Present(d, v) == v # None /\ d.slot[v] \cap {"marker", "entry"} # {}

\* readBootVersion, readBackupVersion: a dangling link counts as none.
BootVersion(d) == IF Exists(d, d.boot) THEN d.boot ELSE None
BackupVersion(d) == IF Exists(d, d.backup) THEN d.backup ELSE None

\* setDirectoryPointer: unlink, then link.
PointBoot(d, v) == { [d EXCEPT !.boot = None], [d EXCEPT !.boot = v] }
PointBackup(d, v) == { [d EXCEPT !.backup = None], [d EXCEPT !.backup = v] }

\* evaluateRuntimeRequires of the marker, if there is one: the base is as old as
\* the image.
NeedsBaseRefresh(d, v) ==
    v \in NeedsBase /\ v > image /\ "marker" \in d.slot[v]

Locked(d) == d.ui \in {"wizard", "hooks"}

-----------------------------------------------------------------------------
(* blocked-versions *)

\* shouldOfferLatestVersion and assertImportVersionAllowed
\* Slip: the blocked version itself is accepted.
NewerThanSome(d, v) == \A b \in d.blocked : v >= b
NewerThanBlocked(d, v) == \A b \in d.blocked : v > b
Offers(d, current) ==
    {v \in Published : v > current /\ NewerThanBlocked(d, v)}

BlockVersion(d, v) ==
    [d EXCEPT !.blocked = @ \cup {v},
              !.pending = IF @ = v THEN None ELSE @,
              !.ui = IF d.pending = v THEN "normal" ELSE @]

ClearBlockedUpTo(d, v) == [d EXCEPT !.blocked = {b \in @ : b > v}]

ClearBlockedPending(d) ==
    IF d.pending \in d.blocked
    THEN [d EXCEPT !.pending = None, !.ui = "normal"] ELSE d

PackageReady(d) ==
    d.pending \notin {None} \cup d.blocked /\ ~Locked(d)
                                           /\ d.job \notin {"failed", "running"}

-----------------------------------------------------------------------------
(* What each script makes of the disk, and what it leaves when it is cut    *)
(* short.                                                                  *)

WithSlot(d, v, t) == [d EXCEPT !.slot[v] = t]
Copied(d, v) == WithSlot(d, v, Tree)
\* What was there is removed and the new tree copied, file by file.
CopySeedTree(d, v) == { WithSlot(d, v, t) : t \in Trees }

Seeded(d, v) ==
    [Copied(d, v) EXCEPT !.boot = v, !.current = v, !.ui = "normal",
                         !.first = None]
SeedCut(d, v) == CopySeedTree(d, v) \cup PointBoot(Copied(d, v), v)

FlushPendingUpdateState(d) ==
    IF d.pending = None /\ d.job = "none" THEN d
    ELSE [d EXCEPT !.pending = None, !.job = "none",
                   !.ui = IF Locked(d) THEN "normal" ELSE @,
                   !.first = IF d.ui = "hooks" THEN None ELSE @]

SetPendingVersion(d, v) == [d EXCEPT !.pending = v, !.ui = "wizard"]

\* ensureRuntimeMarkerForSeed
Marked(d, v) == WithSlot(d, v, d.slot[v] \cup {"marker"})

\* A slot that passes verification is not copied again, only given its marker.
Staged(d, v) ==
    LET flushed == FlushPendingUpdateState(d)
    IN  SetPendingVersion(
            IF Present(d, v) THEN Marked(flushed, v) ELSE Copied(flushed, v), v)
StageCut(d, v) ==
    LET flushed == FlushPendingUpdateState(d)
    IN  {flushed} \cup IF Present(d, v) THEN {Marked(flushed, v)}
                                       ELSE CopySeedTree(flushed, v)

\* activatePending: the version in use becomes the backup.
Replaces(d) == d.current \notin {None, d.pending}
BacksUp(d) == Replaces(d) /\ Present(d, d.current)
BackedUp(d) == IF BacksUp(d) THEN [d EXCEPT !.backup = d.current] ELSE d
Activated(d) ==
    [BackedUp(d) EXCEPT !.boot = d.pending, !.current = d.pending,
                        !.pending = None,
                        !.saved = IF Replaces(d) THEN d.current ELSE @,
                        !.ui = "hooks", !.first = d.pending]
\* Slip: the state file is written before the pointer is moved.
ActivateCutEarly(d) == { Activated([d EXCEPT !.boot = None]),
                         [Activated(d) EXCEPT !.boot = d.boot] }
ActivateCut(d) ==
    PointBoot(BackedUp(d), d.pending)
        \cup IF BacksUp(d) THEN PointBackup(d, d.current) ELSE {}

\* rollbackToBackup: it throws when this is None.
Fallback(d) ==
    LET b == IF d.saved # None THEN d.saved ELSE BackupVersion(d)
    IN  IF Present(d, b) THEN b ELSE None
RolledBack(d) ==
    [d EXCEPT !.boot = Fallback(d), !.current = Fallback(d), !.pending = None,
              !.saved = Fallback(d), !.ui = "normal", !.first = None]
RollbackCut(d) == PointBoot(d, Fallback(d))

\* extractUpdateArchive, then the patch that makes the package pending.
Extracted(d, v) ==
    [Copied(d, v) EXCEPT !.pending = v, !.ui = "normal", !.job = "done"]
\* A slot of that version is removed first, file by file.
ExtractCut(d, v) ==
    { WithSlot(d, v, t) : t \in {Tree} \cup (Trees \cap SUBSET d.slot[v]) }

\* The end of runFirstBootHooksIfNeeded, after success and in its catch block.
MarkedDone(d) == [d EXCEPT !.ui = "normal", !.first = None]
Upgraded(d, from, to) ==
    [ClearBlockedUpTo(MarkedDone(d), to) EXCEPT !.snaps = @ \ {<<from, to>>}]
DoneCut(d, to) == { MarkedDone(d), ClearBlockedUpTo(MarkedDone(d), to) }

Restored(d) == IF Fallback(d) # None THEN RolledBack(d) ELSE d
\* Slips: the version to block is read from the state, after the rollback has
\* reset it; the lock is left to the rollback, which may have thrown.
FailedOfState(d, to) ==
    [BlockVersion(Restored(d), Restored(d).first) EXCEPT
        !.pending = None, !.ui = "normal", !.first = None]
FailedLocked(d, to) == BlockVersion(Restored(d), to)
Failed(d, to) ==
    [BlockVersion(Restored(d), to) EXCEPT !.pending = None, !.ui = "normal",
                                          !.first = None]
FailCut(d, to) ==
    {d, Restored(d), BlockVersion(Restored(d), to)}
        \cup IF Fallback(d) # None THEN RollbackCut(d) ELSE {}

-----------------------------------------------------------------------------
Init ==
    /\ disk = [boot |-> None, backup |-> None,
               slot |-> [v \in Versions |-> {}],
               current |-> None, pending |-> None, saved |-> None,
               ui |-> "normal", first |-> None, job |-> "none",
               blocked |-> {}, snaps |-> {}]
    /\ image \in Images
    /\ pc = "ensure" /\ running = None
    /\ hooks = Idle /\ check = NoCheck
    /\ loading = None /\ importing = None /\ exiting = FALSE
    /\ stale = {}
    /\ cut = {} /\ crashes = 0 /\ slipped = {}

\* The server process is gone, and what it had in memory.
Gone(next) ==
    /\ pc' \in next
    /\ running' = None /\ hooks' = Idle /\ check' = NoCheck
    /\ loading' = None /\ importing' = None /\ exiting' = FALSE

\* The whole machine stops, or the container, or only the server process: the
\* supervisor of a node installation runs ensure before every start, the loop
\* of the container's entry point does not.
Restart == {"ensure", "again"}

\* A crash cuts a script short (each of them once, MaxCuts in all).
Cut(script, left, next) ==
    /\ script \notin cut /\ Cardinality(cut) < MaxCuts
    /\ cut' = cut \cup {script}
    /\ disk' \in left
    /\ Gone(next)
    /\ UNCHANGED <<image, stale, crashes, slipped>>

Up == pc = "up"

-----------------------------------------------------------------------------
(* The scripts that run while the server is down *)

\* A container is started again from a newer image.
UpgradeImage ==
    /\ pc = "ensure"
    /\ \E v \in Images : v > image /\ image' = v
    /\ UNCHANGED <<disk, pc, running, service, stale, crashVars>>

SeedCurrentSlot ==
    /\ pc = "ensure" /\ BootVersion(disk) = None
    /\ \/ /\ disk' = Seeded(disk, image)
          /\ pc' = "activate"
          /\ UNCHANGED <<image, running, service, stale, crashVars>>
       \/ Cut("seed", SeedCut(disk, image), {"ensure"})

StageSeedVersionAsPending ==
    /\ pc = "ensure" /\ BootVersion(disk) # None /\ image > BootVersion(disk)
    /\ \/ /\ disk' = Staged(disk, image)
          /\ pc' = "activate"
          /\ UNCHANGED <<image, running, service, stale, crashVars>>
       \/ Cut("stage", StageCut(disk, image), {"ensure"})

ImageNotNewer ==
    /\ pc = "ensure" /\ BootVersion(disk) # None /\ image <= BootVersion(disk)
    /\ pc' = "activate"
    /\ UNCHANGED <<disk, image, running, service, stale, crashVars>>

NothingToActivate ==
    /\ pc \in {"activate", "again"}
    /\ disk.pending = None \/ NeedsBaseRefresh(disk, disk.pending)
    /\ pc' = "start"
    /\ UNCHANGED <<disk, image, running, service, stale, crashVars>>

ActivatePending ==
    /\ pc \in {"activate", "again"}
    /\ Present(disk, disk.pending) /\ ~NeedsBaseRefresh(disk, disk.pending)
    /\ \/ /\ disk' = Activated(disk)
          /\ pc' = "start"
          /\ UNCHANGED <<image, running, service, stale, crashVars>>
       \/ Cut("activate", ActivateCut(disk), {"ensure"})

\* The slot does not pass verification: the entry point's loop goes on, all
\* others give up.
ActivateThrows ==
    /\ pc \in {"activate", "again"}
    /\ disk.pending # None /\ ~Present(disk, disk.pending)
    /\ pc' = IF pc = "again" THEN "start" ELSE "ensure"
    /\ UNCHANGED <<disk, image, running, service, stale, crashVars>>

\* print-boot
BootDirectory(d) ==
    IF BootVersion(d) # None THEN BootVersion(d)
    ELSE IF Exists(d, d.current) THEN d.current ELSE None

\* Slip: the entry point's loop goes on.
PrintBootIgnored ==
    /\ pc = "start" /\ BootDirectory(disk) = None
    /\ pc' = "again"
    /\ UNCHANGED <<disk, image, running, service, stale, crashVars>>
PrintBootThrows ==
    /\ pc = "start" /\ BootDirectory(disk) = None
    /\ pc' = "ensure"
    /\ UNCHANGED <<disk, image, running, service, stale, crashVars>>

\* The slot is not complete: the entry is missing, or something it loads.  The
\* supervisor of a node installation throws, or prepares another start; the entry
\* point's loop goes on.
StartFails ==
    /\ pc = "start" /\ BootDirectory(disk) # None
    /\ disk.slot[BootDirectory(disk)] # Tree
    /\ pc' \in Restart
    /\ UNCHANGED <<disk, image, running, service, stale, crashVars>>

\* The server listens, and runs the first-boot hooks up to their first await.
\* A slot with the entry may be complete enough for that.
\* With uiPhase first_boot_hooks alone the first progress mark throws, which
\* HooksFail stands for.
Start ==
    /\ pc = "start" /\ BootDirectory(disk) # None
    /\ "entry" \in disk.slot[BootDirectory(disk)]
    /\ pc' = "up" /\ running' = BootDirectory(disk)
    /\ LET due == disk.first # None \/ disk.ui = "hooks"
           to == IF disk.first # None THEN disk.first ELSE running'
           pair == <<disk.saved, to>>
       IN  /\ hooks' = IF due THEN [on |-> TRUE, from |-> disk.saved, to |-> to]
                       ELSE Idle
           /\ disk' = [disk EXCEPT
                          !.snaps = IF due /\ disk.saved # None
                                    THEN @ \cup {pair} ELSE @,
                          !.ui = IF disk.first # None THEN "hooks" ELSE @]
    /\ UNCHANGED <<image, check, loading, importing, exiting, stale, crashVars>>

-----------------------------------------------------------------------------
(* First-boot hooks *)

\* onProgress: the phase is written again, whoever changed it meanwhile.
HooksProgress ==
    /\ Up /\ hooks.on /\ disk.first # None
    /\ disk' = [disk EXCEPT !.ui = "hooks"]
    /\ UNCHANGED <<image, pc, running, service, stale, crashVars>>

HooksDone ==
    /\ Up /\ hooks.on /\ disk.first # None
    /\ \/ /\ disk' = Upgraded(disk, hooks.from, hooks.to)
          /\ stale' = stale \cap disk'.snaps
          /\ hooks' = Idle /\ exiting' = TRUE
          /\ UNCHANGED <<image, pc, running, check, loading, importing,
                         crashVars>>
       \/ Cut("done", DoneCut(disk, hooks.to), Restart)

\* A hook throws, or there is no firstBootUpgrade left to mark: the snapshot is
\* put back and the version is blocked.
HooksFail ==
    /\ Up /\ hooks.on
    /\ hooks.to \in Faulty \/ disk.first = None
    /\ \/ /\ disk' = Failed(disk, hooks.to)
          /\ hooks' = Idle /\ exiting' = TRUE
          /\ slipped' = slipped \cup ({hooks.to} \cap {importing})
          /\ UNCHANGED <<image, pc, running, check, loading, importing, stale,
                         cut, crashes>>
       \/ Cut("rollback", FailCut(disk, hooks.to), Restart)

-----------------------------------------------------------------------------
(* Checks and downloads *)

CheckBegin ==
    /\ Up /\ ~check.on /\ ~Locked(disk)
    /\ disk' = ClearBlockedPending(disk)
    /\ check' = IF PackageReady(disk') \/ loading # None \/ disk.job = "running"
                THEN NoCheck
                ELSE [on |-> TRUE,
                      offers |-> Offers(disk', IF disk.current # None
                                               THEN disk.current ELSE running)]
    /\ UNCHANGED <<image, pc, running, hooks, loading, importing, exiting, stale,
                   crashVars>>

\* The answer is judged by the state as it was when the check began; a second
\* download is not started.  One that begins within the APPLY_EXIT_DELAY_MS
\* before an exit is taken not to end: only its mark is left.
StartSilentDownload ==
    /\ Up /\ check.on /\ loading = None
    /\ \E v \in check.offers : loading' = IF exiting THEN None ELSE v
    /\ disk' = [disk EXCEPT !.job = "running"]
    /\ check' = NoCheck
    /\ UNCHANGED <<image, pc, running, hooks, importing, exiting, stale, crashVars>>

NothingOffered ==
    /\ Up /\ check.on
    /\ check' = NoCheck
    /\ UNCHANGED <<disk, image, pc, running, hooks, loading, importing, exiting,
                   stale, crashVars>>

CheckFails ==
    /\ Up /\ check.on
    /\ disk' = [disk EXCEPT !.job = "failed"]
    /\ check' = NoCheck
    /\ UNCHANGED <<image, pc, running, hooks, loading, importing, exiting, stale,
                   crashVars>>

Downloaded ==
    /\ Up /\ loading # None
    /\ \/ /\ disk' = Extracted(disk, loading)
          /\ loading' = None
          /\ UNCHANGED <<image, pc, running, hooks, check, importing, exiting,
                         stale, crashVars>>
       \/ Cut("extract", ExtractCut(disk, loading), Restart)

DownloadFails ==
    /\ Up /\ loading # None
    /\ disk' = [disk EXCEPT !.job = "failed"]
    /\ loading' = None
    /\ UNCHANGED <<image, pc, running, hooks, check, importing, exiting, stale,
                   crashVars>>

-----------------------------------------------------------------------------
(* Requests of the user; none of them asks whether hooks are running. *)

ImportBegin ==
    /\ Up /\ importing = None
    /\ importing' \in {v \in Imports : NewerThanBlocked(disk, v)}
    /\ UNCHANGED <<disk, image, pc, running, hooks, check, loading, exiting, stale,
                   crashVars>>

ImportEnd ==
    /\ Up /\ importing # None
    /\ \/ /\ disk' = Extracted(disk, importing)
          /\ importing' = None
          /\ UNCHANGED <<image, pc, running, hooks, check, loading, exiting,
                         stale, crashVars>>
       \/ Cut("extract", ExtractCut(disk, importing), Restart)

ImportFails ==
    /\ Up /\ importing # None
    /\ importing' = None
    /\ UNCHANGED <<disk, image, pc, running, hooks, check, loading, exiting, stale,
                   crashVars>>

ApplyPendingUpdate ==
    /\ Up
    /\ disk.pending \notin disk.blocked
    /\ Present(disk, disk.pending) /\ ~NeedsBaseRefresh(disk, disk.pending)
    /\ disk' = SetPendingVersion(disk, disk.pending)
    /\ exiting' = TRUE
    /\ UNCHANGED <<image, pc, running, hooks, check, loading, importing, stale,
                   crashVars>>

RollbackUpdate ==
    /\ Up /\ Fallback(disk) # None
    /\ \/ /\ disk' = RolledBack(disk)
          /\ exiting' = TRUE
          /\ UNCHANGED <<image, pc, running, hooks, check, loading, importing,
                         stale, crashVars>>
       \/ Cut("rollback", RollbackCut(disk), Restart)

\* The rest of the API is open unless uiPhase locks it.  What is written within
\* APPLY_EXIT_DELAY_MS of an exit is left out.
UserWrites ==
    /\ Up /\ ~Locked(disk) /\ ~exiting
    /\ stale' = disk.snaps
    /\ UNCHANGED <<disk, image, pc, running, service, crashVars>>

-----------------------------------------------------------------------------
\* The timer of scheduleSystemUpdateExit.  Whatever the exit code, both
\* supervisors run activate-pending before the next start.
Exit ==
    /\ Up /\ exiting
    /\ Gone(Restart)
    /\ UNCHANGED <<disk, image, stale, crashVars>>

\* The process dies, or it is stopped and started again.
Crash ==
    /\ Up
    /\ crashes < MaxCrashes
    /\ crashes' = crashes + 1
    /\ Gone(Restart)
    /\ UNCHANGED <<disk, image, stale, cut, slipped>>

Scripted ==
    \/ SeedCurrentSlot \/ StageSeedVersionAsPending \/ ImageNotNewer
    \/ NothingToActivate \/ ActivatePending \/ ActivateThrows
    \/ PrintBootThrows \/ StartFails \/ Start

Served ==
    \/ HooksProgress \/ HooksDone \/ HooksFail
    \/ CheckBegin \/ StartSilentDownload \/ NothingOffered \/ CheckFails
    \/ Downloaded \/ DownloadFails
    \/ ImportBegin \/ ImportEnd \/ ImportFails
    \/ ApplyPendingUpdate \/ RollbackUpdate \/ UserWrites

Next == UpgradeImage \/ Scripted \/ Served \/ Exit \/ Crash

Spec == Init /\ [][Next]_vars

\* The supervisor goes on, the exit timer fires, and hook scripts return.
Fairness == WF_vars(Scripted) /\ WF_vars(Exit) /\ WF_vars(HooksDone \/ HooksFail)

FairSpec == Spec /\ Fairness

-----------------------------------------------------------------------------
(* Properties *)

Disks ==
    [boot : Versions \cup {None}, backup : Versions \cup {None},
     slot : [Versions -> Trees],
     current : Versions \cup {None}, pending : Versions \cup {None},
     saved : Versions \cup {None}, ui : {"normal", "wizard", "hooks"},
     first : Versions \cup {None},
     job : {"none", "running", "done", "failed"},
     blocked : SUBSET Versions, snaps : SUBSET Pairs]

TypeOK ==
    /\ disk \in Disks
    /\ image \in Images
    /\ pc \in {"ensure", "activate", "again", "start", "up"}
    /\ running \in Versions \cup {None}
    /\ hooks \in {Idle} \cup [on : {TRUE}, from : Versions \cup {None},
                              to : Versions]
    /\ check \in [on : BOOLEAN, offers : SUBSET Versions]
    /\ loading \in Versions \cup {None} /\ importing \in Versions \cup {None}
    /\ exiting \in BOOLEAN
    /\ stale \subseteq disk.snaps
    /\ cut \subseteq Scripts /\ crashes \in 0 .. MaxCrashes
    /\ slipped \subseteq Versions

\* The boot pointer, the state file and the server process name one version,
\* wherever a crash has cut an activation, an extraction or the end of the hooks
\* short; and its slot is complete unless it was being extracted again.
StateAgrees ==
    Up /\ ~exiting /\ cut \cap {"seed", "stage", "rollback"} = {} =>
        /\ running = disk.boot
        /\ disk.current = disk.boot
        /\ disk.slot[running] = Tree \/ "extract" \in cut

\* A version whose first boot failed does not run again before a newer one has
\* succeeded, as long as there is another to fall back to (an extraction that is
\* cut short may have taken its slot).  The image may bring it back, and so may
\* an import of it that began before it failed: whether a version is blocked is
\* asked at the start of an import, not at its end and not by activatePending.
NoBlockedRuns ==
    Up /\ ~exiting /\ running \in disk.blocked /\ "extract" \notin cut =>
        running \in Images \cup slipped \/ Fallback(disk) \in {None, running}

\* What the user wrote survives a failed upgrade: the snapshot that is put back
\* is not older than anything the user wrote.
UserDataKept == [][HooksFail => <<hooks.from, hooks.to>> \notin stale]_vars

\* What is activated is a complete tree: "a usable Opptrix runtime tree" is what
\* the check before it is to verify (verify.ts:2).
ActivatedIsUsable ==
    [][disk'.boot \notin {None, disk.boot} => disk'.slot[disk'.boot] = Tree]_vars

\* The pending version is an extracted slot (packages/system-update/README.md:55).
PendingIsExtracted == disk.pending # None => Present(disk, disk.pending)

\* A crash during an extraction has taken the slot of the package to activate.
PendingGone == "extract" \in cut /\ ~PendingIsExtracted

\* The boot pointer is at a slot which a crash left incomplete, during the staging
\* of the image or an extraction.
BootBroken ==
    /\ cut \cap {"stage", "extract"} # {} /\ BootDirectory(disk) # None
    /\ disk.slot[BootDirectory(disk)] # Tree

\* However often it crashes, the server comes up again, with these exceptions.
ComesUp == []<>(Up \/ PendingGone \/ BootBroken)

\* The lock on the API is lifted, with the same exceptions.
LockIsLifted == Locked(disk) ~> (~Locked(disk) \/ PendingGone \/ BootBroken)

=============================================================================
