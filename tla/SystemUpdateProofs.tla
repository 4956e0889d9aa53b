------------------------- MODULE SystemUpdateProofs -------------------------
(***************************************************************************)
(* Proofs about SystemUpdate, for any versions, images, packages, faulty   *)
(* hooks, and any number of crashes: the types, that the boot pointer, the *)
(* state file and the server process agree, and that a version that failed *)
(* does not run again.                                                     *)
(***************************************************************************)
EXTENDS SystemUpdate, TLAPS

USE UpdateAssumption

LEMMA NoneIsNoVersion == None \notin Versions
  BY DEF None, Versions

-----------------------------------------------------------------------------
(* Types of the disk *)

\* Disks with the snapshots of d.
Like(d) == {e \in Disks : e.snaps = d.snaps}

LEMMA Alike ==
  ASSUME NEW d \in Disks, NEW e \in Like(d)
  PROVE  e \in Disks /\ Like(e) = Like(d)
  BY DEF Like

\* d and e differ in their slots at most.
SameButSlots(d, e) ==
    /\ e.boot = d.boot /\ e.backup = d.backup /\ e.current = d.current
    /\ e.pending = d.pending /\ e.saved = d.saved /\ e.ui = d.ui
    /\ e.first = d.first /\ e.job = d.job
    /\ e.blocked = d.blocked /\ e.snaps = d.snaps

LEMMA SlotWrite ==
  ASSUME NEW d \in Disks, NEW v \in Versions, NEW t \in Trees
  PROVE  LET e == WithSlot(d, v, t)
         IN  /\ e \in Like(d) /\ e \in Disks /\ SameButSlots(d, e)
             /\ e.slot = [d.slot EXCEPT ![v] = t]
  <1> DEFINE slot == [d.slot EXCEPT ![v] = t]
  <1>1. slot \in [Versions -> Trees]
    BY DEF Disks
  <1>2. WithSlot(d, v, t) = [d EXCEPT !.slot = slot]
    BY DEF WithSlot
  <1> HIDE DEF slot
  <1>3. WithSlot(d, v, t) \in Disks /\ SameButSlots(d, WithSlot(d, v, t))
        /\ WithSlot(d, v, t).slot = slot
    BY <1>1, <1>2 DEF Disks, SameButSlots
  <1> QED BY <1>3 DEF Like, SameButSlots, slot

LEMMA TreeIsATree == Tree \in Trees /\ {"marker", "entry"} \subseteq Tree
  BY DEF Tree, Trees

\* What a copy, a copy cut short, an extraction cut short and a marker added to a
\* slot that is there make of the disk.
LEMMA SlotWrites ==
  ASSUME NEW d \in Disks, NEW v \in Versions
  PROVE  /\ LET c == Copied(d, v)
            IN  /\ c \in Like(d) /\ c \in Disks /\ SameButSlots(d, c)
                /\ c.slot = [d.slot EXCEPT ![v] = Tree]
         /\ \A e \in CopySeedTree(d, v) \cup ExtractCut(d, v) :
                /\ e \in Like(d) /\ e \in Disks /\ SameButSlots(d, e)
                /\ \E t \in Trees : e.slot = [d.slot EXCEPT ![v] = t]
         /\ Present(d, v) =>
                LET m == Marked(d, v)
                IN  /\ m \in Like(d) /\ m \in Disks /\ SameButSlots(d, m)
                    /\ m.slot = [d.slot EXCEPT ![v] = d.slot[v] \cup {"marker"}]
  <1>1. LET c == Copied(d, v)
        IN  /\ c \in Like(d) /\ c \in Disks /\ SameButSlots(d, c)
            /\ c.slot = [d.slot EXCEPT ![v] = Tree]
    BY SlotWrite, TreeIsATree DEF Copied
  <1>2. ASSUME NEW e \in CopySeedTree(d, v) \cup ExtractCut(d, v)
        PROVE  /\ e \in Like(d) /\ e \in Disks /\ SameButSlots(d, e)
               /\ \E t \in Trees : e.slot = [d.slot EXCEPT ![v] = t]
    <2>1. PICK t \in Trees : e = WithSlot(d, v, t)
      BY TreeIsATree DEF CopySeedTree, ExtractCut
    <2> QED BY <2>1, SlotWrite
  <1>3. ASSUME Present(d, v)
        PROVE  LET m == Marked(d, v)
               IN  /\ m \in Like(d) /\ m \in Disks /\ SameButSlots(d, m)
                   /\ m.slot = [d.slot EXCEPT ![v] = d.slot[v] \cup {"marker"}]
    <2>1. d.slot[v] \in Trees
      BY DEF Disks
    <2>2. d.slot[v] \cup {"marker"} \in Trees
      BY <1>3, <2>1 DEF Present, Trees, Tree
    <2> QED BY <2>2, SlotWrite DEF Marked
  <1> QED BY <1>1, <1>2, <1>3

LEMMA SmallWrites ==
  ASSUME NEW d \in Disks, NEW v \in Versions
  PROVE  /\ Copied(d, v) \in Like(d)
         /\ CopySeedTree(d, v) \subseteq Like(d)
         /\ PointBoot(d, v) \subseteq Like(d)
         /\ PointBackup(d, v) \subseteq Like(d)
         /\ SetPendingVersion(d, v) \in Like(d)
         /\ BlockVersion(d, v) \in Like(d)
         /\ ClearBlockedUpTo(d, v) \in Like(d)
  <1>1. Copied(d, v) \in Like(d)
    BY SlotWrites
  <1>2. CopySeedTree(d, v) \subseteq Like(d)
    BY SlotWrites
  <1>3. PointBoot(d, v) \subseteq Like(d) /\ PointBackup(d, v) \subseteq Like(d)
    BY DEF Disks, Like, PointBoot, PointBackup
  <1>4. SetPendingVersion(d, v) \in Like(d)
    BY DEF Disks, Like, SetPendingVersion
  <1>5. BlockVersion(d, v) \in Like(d)
    BY ZenonT(30) DEF Disks, Like, BlockVersion
  <1>6. ClearBlockedUpTo(d, v) \in Like(d)
    BY DEF Disks, Like, ClearBlockedUpTo
  <1> QED BY <1>1, <1>2, <1>3, <1>4, <1>5, <1>6

LEMMA SeedTypes ==
  ASSUME NEW d \in Disks, NEW v \in Versions
  PROVE  Seeded(d, v) \in Like(d) /\ SeedCut(d, v) \subseteq Like(d)
  <1> DEFINE c == Copied(d, v)
  <1>1. c \in Disks /\ Like(c) = Like(d) /\ c \in Like(d)
    BY SmallWrites, Alike
  <1>2. CopySeedTree(d, v) \subseteq Like(d)
    BY SmallWrites
  <1> HIDE DEF c
  <1>3. [c EXCEPT !.boot = v, !.current = v, !.ui = "normal", !.first = None]
          \in Like(c)
    BY <1>1 DEF Disks, Like
  <1>4. Seeded(d, v) \in Like(d)
    BY <1>1, <1>3 DEF Seeded, c
  <1>5. PointBoot(c, v) \subseteq Like(c)
    BY <1>1, SmallWrites
  <1> QED BY <1>1, <1>2, <1>4, <1>5 DEF SeedCut, c

LEMMA FlushTypes ==
  ASSUME NEW d \in Disks
  PROVE  FlushPendingUpdateState(d) \in Like(d)
  <1> DEFINE f == FlushPendingUpdateState(d)
  <1> DEFINE ui == IF Locked(d) THEN "normal" ELSE d.ui
               first == IF d.ui = "hooks" THEN None ELSE d.first
  <1>1. ui \in {"normal", "wizard", "hooks"} /\ first \in Versions \cup {None}
    BY DEF Disks, Locked
  <1>2. f = d \/ f = [d EXCEPT !.pending = None, !.job = "none", !.ui = ui,
                               !.first = first]
    BY DEF Disks, FlushPendingUpdateState
  <1> SUFFICES f \in Like(d)
    OBVIOUS
  <1> HIDE DEF ui, first, f
  <1>3. CASE f = d
    BY <1>3 DEF Like
  <1>4. CASE f = [d EXCEPT !.pending = None, !.job = "none", !.ui = ui,
                               !.first = first]
    BY <1>1, <1>4 DEF Disks, Like
  <1> QED BY <1>2, <1>3, <1>4

LEMMA StageTypes ==
  ASSUME NEW d \in Disks, NEW v \in Versions
  PROVE  Staged(d, v) \in Like(d) /\ StageCut(d, v) \subseteq Like(d)
  <1> DEFINE f == FlushPendingUpdateState(d)
             g == IF Present(d, v) THEN Marked(f, v) ELSE Copied(f, v)
  <1>1. f \in Like(d)
    BY FlushTypes
  <1>2. f \in Disks /\ Like(f) = Like(d) /\ (Present(f, v) <=> Present(d, v))
    <2>1. f.slot = d.slot
      BY DEF FlushPendingUpdateState, Disks
    <2> QED BY <1>1, <2>1, Alike DEF Present
  <1> HIDE DEF f
  <1>3. g \in Like(d) /\ CopySeedTree(f, v) \subseteq Like(d)
    BY <1>2, SlotWrites
  <1>4. g \in Disks /\ Like(g) = Like(d)
    BY <1>2, <1>3, Alike
  <1>5. StageCut(d, v) \subseteq Like(d)
    BY <1>1, <1>3 DEF StageCut, f
  <1>6. Staged(d, v) = SetPendingVersion(g, v)
    BY DEF Staged, f
  <1> HIDE DEF g
  <1> QED BY <1>4, <1>5, <1>6, SmallWrites

LEMMA ActivateTypes ==
  ASSUME NEW d \in Disks, d.pending \in Versions
  PROVE  Activated(d) \in Like(d) /\ ActivateCut(d) \subseteq Like(d)
  <1> DEFINE b == BackedUp(d)
             saved == IF Replaces(d) THEN d.current ELSE b.saved
  <1>1. (BacksUp(d) => d.current \in Versions)
        /\ (Replaces(d) => d.current \in Versions)
    BY DEF Disks, BacksUp, Replaces
  <1>2. b \in Like(d)
    BY <1>1 DEF Disks, Like, BackedUp
  <1>3. b \in Disks /\ Like(b) = Like(d)
    BY <1>2, Alike
  <1>4. saved \in Versions \cup {None}
    BY <1>1, <1>3 DEF Disks
  <1>5. PointBoot(b, d.pending) \subseteq Like(d)
    BY <1>3, SmallWrites
  <1>6. BacksUp(d) => PointBackup(d, d.current) \subseteq Like(d)
    BY <1>1, SmallWrites
  <1>7. ActivateCut(d) \subseteq Like(d)
    BY <1>5, <1>6 DEF ActivateCut
  <1> HIDE DEF b
  <1>8. Activated(d) = [b EXCEPT !.boot = d.pending, !.current = d.pending,
                                 !.pending = None, !.saved = saved,
                                 !.ui = "hooks", !.first = d.pending]
    BY <1>3 DEF Disks, Activated, b
  <1> HIDE DEF saved
  <1>9. Activated(d) \in Like(b)
    BY <1>3, <1>4, <1>8, ZenonT(30) DEF Disks, Like
  <1> QED BY <1>3, <1>7, <1>9

LEMMA RollbackTypes ==
  ASSUME NEW d \in Disks
  PROVE  /\ Fallback(d) \in Versions \cup {None}
         /\ Fallback(d) # None => /\ RolledBack(d) \in Like(d)
                                  /\ RollbackCut(d) \subseteq Like(d)
         /\ Restored(d) \in Like(d)
  <1>1. Fallback(d) \in Versions \cup {None}
    BY DEF Disks, Like, Fallback, BackupVersion, Exists
  <1>2. ASSUME Fallback(d) # None
        PROVE  RolledBack(d) \in Like(d) /\ RollbackCut(d) \subseteq Like(d)
    <2>1. Fallback(d) \in Versions
      BY <1>1, <1>2
    <2>2. RolledBack(d) \in Like(d)
      BY <2>1 DEF Disks, Like, RolledBack
    <2>3. PointBoot(d, Fallback(d)) \subseteq Like(d)
      BY <2>1, SmallWrites
    <2> QED BY <2>2, <2>3 DEF RollbackCut
  <1>3. d \in Like(d)
    BY DEF Like
  <1> QED BY <1>1, <1>2, <1>3 DEF Restored

LEMMA ExtractTypes ==
  ASSUME NEW d \in Disks, NEW v \in Versions
  PROVE  Extracted(d, v) \in Like(d) /\ ExtractCut(d, v) \subseteq Like(d)
  <1> DEFINE c == Copied(d, v)
  <1>1. c \in Like(d) /\ c \in Disks /\ Like(c) = Like(d)
    BY SmallWrites, Alike
  <1>2. ExtractCut(d, v) \subseteq Like(d)
    BY SlotWrites
  <1> HIDE DEF c
  <1>3. [c EXCEPT !.pending = v, !.ui = "normal", !.job = "done"] \in Like(c)
    BY <1>1 DEF Disks, Like
  <1> QED BY <1>1, <1>2, <1>3 DEF Extracted, c

LEMMA DoneTypes ==
  ASSUME NEW d \in Disks, NEW from, NEW v \in Versions
  PROVE  /\ Upgraded(d, from, v) \in Disks
         /\ Upgraded(d, from, v).snaps \subseteq d.snaps
         /\ DoneCut(d, v) \subseteq Like(d)
  <1> DEFINE m == MarkedDone(d)
             c == ClearBlockedUpTo(m, v)
  <1>1. m \in Like(d)
    BY DEF Disks, Like, MarkedDone
  <1>2. m \in Disks /\ Like(m) = Like(d)
    BY <1>1, Alike
  <1> HIDE DEF m
  <1>3. c \in Like(d)
    BY <1>2, SmallWrites
  <1>4. DoneCut(d, v) \subseteq Like(d)
    BY <1>1, <1>3 DEF DoneCut, m, c
  <1> HIDE DEF c
  <1> DEFINE u == [c EXCEPT !.snaps = @ \ {<<from, v>>}]
  <1>5. u \in Disks /\ u.snaps \subseteq d.snaps
    BY <1>3 DEF Disks, Like
  <1>6. Upgraded(d, from, v) = u
    BY DEF Upgraded, c, m
  <1> QED BY <1>4, <1>5, <1>6

LEMMA FailTypes ==
  ASSUME NEW d \in Disks, NEW v \in Versions
  PROVE  Failed(d, v) \in Like(d) /\ FailCut(d, v) \subseteq Like(d)
  <1> DEFINE r == Restored(d)
             b == BlockVersion(r, v)
  <1>1. r \in Like(d)
    BY RollbackTypes
  <1>2. r \in Disks /\ Like(r) = Like(d)
    BY <1>1, Alike
  <1> HIDE DEF r
  <1>3. b \in Like(d) /\ b \in Disks /\ Like(b) = Like(d)
    <2>1. b \in Like(r)
      BY <1>2, SmallWrites
    <2> HIDE DEF b
    <2> QED BY <1>2, <2>1, Alike
  <1>4. FailCut(d, v) \subseteq Like(d)
    <2>1. d \in Like(d)
      BY DEF Like
    <2> QED BY <1>1, <1>3, <2>1, RollbackTypes DEF FailCut, r, b
  <1> HIDE DEF b
  <1>5. [b EXCEPT !.pending = None, !.ui = "normal", !.first = None] \in Like(b)
    BY <1>3 DEF Disks, Like
  <1> QED BY <1>3, <1>4, <1>5 DEF Failed, b, r

-----------------------------------------------------------------------------
(* Types of the state *)

LEMMA LikeKeepsTypes ==
  ASSUME TypeOK, disk' \in Like(disk), stale' = stale
  PROVE  disk' \in Disks /\ stale' \subseteq disk'.snaps
  BY DEF TypeOK, Like

LEMMA GoneTypes ==
  ASSUME NEW next \in SUBSET Restart, Gone(next)
  PROVE  /\ pc' \in Restart
         /\ pc' \in {"ensure", "activate", "again", "start", "up"}
         /\ running' \in Versions \cup {None}
         /\ hooks' = Idle
         /\ check' \in [on : BOOLEAN, offers : SUBSET Versions]
         /\ loading' \in Versions \cup {None} /\ importing' \in Versions \cup {None}
         /\ exiting' \in BOOLEAN
  BY DEF Gone, Restart, NoCheck

LEMMA CutTypes ==
  ASSUME TypeOK, NEW script \in Scripts, NEW left, left \subseteq Like(disk),
         NEW next \in SUBSET Restart, Cut(script, left, next)
  PROVE  TypeOK'
  <1>1. disk' \in Disks /\ stale' \subseteq disk'.snaps
    BY LikeKeepsTypes DEF Cut
  <1>2. /\ cut' \subseteq Scripts /\ crashes' \in 0 .. MaxCrashes /\ image' \in Images
        /\ slipped' \subseteq Versions
    BY DEF Cut, TypeOK
  <1>3. Gone(next)
    BY DEF Cut
  <1> QED BY <1>1, <1>2, <1>3, GoneTypes DEF TypeOK

LEMMA UpgradesToAVersion ==
  ASSUME TypeOK, hooks.on
  PROVE  hooks.to \in Versions
  <1>1. CASE hooks = Idle
    BY <1>1 DEF Idle
  <1>2. CASE hooks \in [on : {TRUE}, from : Versions \cup {None}, to : Versions]
    BY <1>2
  <1> QED BY <1>1, <1>2 DEF TypeOK

LEMMA InitTypes == Init => TypeOK
  <1> SUFFICES ASSUME Init PROVE TypeOK
    OBVIOUS
  <1>1. disk \in Disks
    BY DEF Init, Disks, Trees
  <1>2. /\ image \in Images /\ pc = "ensure" /\ running = None /\ loading = None
        /\ importing = None /\ exiting = FALSE /\ stale = {} /\ cut = {} /\ crashes = 0
        /\ slipped = {}
    BY DEF Init
  <1>3. hooks = Idle /\ check \in [on : BOOLEAN, offers : SUBSET Versions]
    BY DEF Init, NoCheck
  <1>4. crashes \in 0 .. MaxCrashes
    BY <1>2
  <1>5. hooks \in {Idle} \cup [on : {TRUE}, from : Versions \cup {None}, to : Versions]
    BY <1>3
  <1> QED BY <1>1, <1>2, <1>3, <1>4, <1>5 DEF TypeOK

LEMMA TypesStep ==
  ASSUME TypeOK, [Next]_vars
  PROVE  TypeOK'
  <1>0. /\ disk \in Disks /\ image \in Versions /\ disk \in Like(disk)
        /\ stale \subseteq disk.snaps
        /\ {"ensure"} \in SUBSET Restart /\ Restart \in SUBSET Restart
        /\ "seed" \in Scripts /\ "stage" \in Scripts /\ "activate" \in Scripts
        /\ "rollback" \in Scripts /\ "extract" \in Scripts /\ "done" \in Scripts
    BY DEF TypeOK, Like, Restart, Scripts
  <1>1. CASE UpgradeImage
    BY <1>1 DEF UpgradeImage, TypeOK, service, crashVars
  <1>2. CASE SeedCurrentSlot
    <2>1. Seeded(disk, image) \in Like(disk) /\ SeedCut(disk, image) \subseteq Like(disk)
      BY <1>0, SeedTypes
    <2>2. CASE Cut("seed", SeedCut(disk, image), {"ensure"})
      BY <1>0, <2>1, <2>2, CutTypes
    <2>3. CASE disk' = Seeded(disk, image) /\ pc' = "activate"
               /\ UNCHANGED <<image, running, service, stale, crashVars>>
      BY <2>1, <2>3, LikeKeepsTypes DEF TypeOK, service, crashVars
    <2> QED BY <1>2, <2>2, <2>3 DEF SeedCurrentSlot
  <1>3. CASE StageSeedVersionAsPending
    <2>1. Staged(disk, image) \in Like(disk) /\ StageCut(disk, image) \subseteq Like(disk)
      BY <1>0, StageTypes
    <2>2. CASE Cut("stage", StageCut(disk, image), {"ensure"})
      BY <1>0, <2>1, <2>2, CutTypes
    <2>3. CASE disk' = Staged(disk, image) /\ pc' = "activate"
               /\ UNCHANGED <<image, running, service, stale, crashVars>>
      BY <2>1, <2>3, LikeKeepsTypes DEF TypeOK, service, crashVars
    <2> QED BY <1>3, <2>2, <2>3 DEF StageSeedVersionAsPending
  <1>4. CASE \/ ImageNotNewer \/ NothingToActivate \/ ActivateThrows
             \/ PrintBootThrows \/ StartFails
    BY <1>4 DEF ImageNotNewer, NothingToActivate, ActivateThrows, PrintBootThrows,
                StartFails, Restart, TypeOK, service, crashVars
  <1>5. CASE ActivatePending
    <2>1. disk.pending \in Versions
      BY <1>0, <1>5 DEF ActivatePending, Present, Disks
    <2>2. Activated(disk) \in Like(disk) /\ ActivateCut(disk) \subseteq Like(disk)
      BY <1>0, <2>1, ActivateTypes
    <2>3. CASE Cut("activate", ActivateCut(disk), {"ensure"})
      BY <1>0, <2>2, <2>3, CutTypes
    <2>4. CASE disk' = Activated(disk) /\ pc' = "start"
               /\ UNCHANGED <<image, running, service, stale, crashVars>>
      BY <2>2, <2>4, LikeKeepsTypes DEF TypeOK, service, crashVars
    <2> QED BY <1>5, <2>3, <2>4 DEF ActivatePending
  <1>6. CASE Start
    <2> DEFINE due == disk.first # None \/ disk.ui = "hooks"
               to == IF disk.first # None THEN disk.first ELSE running'
               snaps == IF due /\ disk.saved # None
                        THEN disk.snaps \cup {<<disk.saved, to>>} ELSE disk.snaps
               ui == IF disk.first # None THEN "hooks" ELSE disk.ui
    <2>1. /\ running' = BootDirectory(disk) /\ BootDirectory(disk) # None
          /\ disk' = [disk EXCEPT !.snaps = snaps, !.ui = ui]
          /\ hooks' = IF due THEN [on |-> TRUE, from |-> disk.saved, to |-> to] ELSE Idle
          /\ pc' = "up"
          /\ UNCHANGED <<image, check, loading, importing, exiting, stale, crashVars>>
      BY <1>0, <1>6 DEF Start, Disks
    <2>2. running' \in Versions
      BY <1>0, <2>1 DEF BootDirectory, BootVersion, Exists, Disks
    <2>3. to \in Versions /\ disk.saved \in Versions \cup {None}
      BY <1>0, <2>2 DEF Disks
    <2>4. snaps \in SUBSET Pairs /\ disk.snaps \subseteq snaps
      BY <1>0, <2>3 DEF Disks, Pairs
    <2>5. ui \in {"normal", "wizard", "hooks"}
      BY <1>0 DEF Disks
    <2>6. hooks' \in {Idle} \cup [on : {TRUE}, from : Versions \cup {None}, to : Versions]
      BY <2>1, <2>3
    <2> HIDE DEF due, to, snaps, ui
    <2>7. disk' \in Disks /\ disk'.snaps = snaps
      BY <1>0, <2>1, <2>4, <2>5 DEF Disks
    <2> QED BY <1>0, <2>1, <2>2, <2>4, <2>6, <2>7 DEF TypeOK, crashVars
  <1>7. CASE HooksProgress
    <2>1. disk' \in Like(disk)
      BY <1>0, <1>7 DEF HooksProgress, Like, Disks
    <2> QED BY <1>7, <2>1, LikeKeepsTypes DEF HooksProgress, TypeOK, service, crashVars
  <1>8. CASE HooksDone
    <2>1. hooks.to \in Versions
      BY <1>8, UpgradesToAVersion DEF HooksDone
    <2>2. Upgraded(disk, hooks.from, hooks.to) \in Disks
          /\ DoneCut(disk, hooks.to) \subseteq Like(disk)
      BY <1>0, <2>1, DoneTypes
    <2>3. CASE Cut("done", DoneCut(disk, hooks.to), Restart)
      BY <1>0, <2>2, <2>3, CutTypes
    <2>4. CASE /\ disk' = Upgraded(disk, hooks.from, hooks.to)
               /\ stale' = stale \cap disk'.snaps
               /\ hooks' = Idle /\ exiting' = TRUE
               /\ UNCHANGED <<image, pc, running, check, loading, importing, crashVars>>
      BY <2>2, <2>4 DEF TypeOK, crashVars
    <2> QED BY <1>8, <2>3, <2>4 DEF HooksDone
  <1>9. CASE HooksFail
    <2>1. hooks.to \in Versions
      BY <1>9, UpgradesToAVersion DEF HooksFail
    <2>2. Failed(disk, hooks.to) \in Like(disk) /\ FailCut(disk, hooks.to) \subseteq Like(disk)
      BY <1>0, <2>1, FailTypes
    <2>3. CASE Cut("rollback", FailCut(disk, hooks.to), Restart)
      BY <1>0, <2>2, <2>3, CutTypes
    <2>4. CASE /\ disk' = Failed(disk, hooks.to)
               /\ hooks' = Idle /\ exiting' = TRUE
               /\ slipped' = slipped \cup ({hooks.to} \cap {importing})
               /\ UNCHANGED <<image, pc, running, check, loading, importing, stale,
                              cut, crashes>>
      <3>1. slipped' \subseteq Versions
        BY <2>1, <2>4 DEF TypeOK
      <3> QED BY <2>2, <2>4, <3>1, LikeKeepsTypes DEF TypeOK
    <2> QED BY <1>9, <2>3, <2>4 DEF HooksFail
  <1>10. CASE CheckBegin
    <2>1. disk' \in Like(disk)
      BY <1>0, <1>10 DEF CheckBegin, ClearBlockedPending, Like, Disks
    <2>2. check' \in [on : BOOLEAN, offers : SUBSET Versions]
      BY <1>10 DEF CheckBegin, NoCheck, Offers
    <2> QED BY <1>10, <2>1, <2>2, LikeKeepsTypes DEF CheckBegin, TypeOK, crashVars
  <1>11. CASE StartSilentDownload
    <2>1. disk' \in Like(disk)
      BY <1>0, <1>11 DEF StartSilentDownload, Like, Disks
    <2>2. loading' \in Versions \cup {None}
          /\ check' \in [on : BOOLEAN, offers : SUBSET Versions]
      BY <1>11 DEF StartSilentDownload, TypeOK, NoCheck
    <2> QED BY <1>11, <2>1, <2>2, LikeKeepsTypes DEF StartSilentDownload, TypeOK, crashVars
  <1>12. CASE NothingOffered
    BY <1>12 DEF NothingOffered, TypeOK, NoCheck, crashVars
  <1>13. CASE CheckFails
    <2>1. disk' \in Like(disk)
      BY <1>0, <1>13 DEF CheckFails, Like, Disks
    <2> QED BY <1>13, <2>1, LikeKeepsTypes DEF CheckFails, TypeOK, NoCheck, crashVars
  <1>14. CASE Downloaded
    <2>1. loading \in Versions
      BY <1>14 DEF Downloaded, TypeOK
    <2>2. Extracted(disk, loading) \in Like(disk) /\ ExtractCut(disk, loading) \subseteq Like(disk)
      BY <1>0, <2>1, ExtractTypes
    <2>3. CASE Cut("extract", ExtractCut(disk, loading), Restart)
      BY <1>0, <2>2, <2>3, CutTypes
    <2>4. CASE /\ disk' = Extracted(disk, loading) /\ loading' = None
               /\ UNCHANGED <<image, pc, running, hooks, check, importing, exiting,
                              stale, crashVars>>
      BY <2>2, <2>4, LikeKeepsTypes DEF TypeOK, crashVars
    <2> QED BY <1>14, <2>3, <2>4 DEF Downloaded
  <1>15. CASE DownloadFails
    <2>1. disk' \in Like(disk)
      BY <1>0, <1>15 DEF DownloadFails, Like, Disks
    <2> QED BY <1>15, <2>1, LikeKeepsTypes DEF DownloadFails, TypeOK, crashVars
  <1>16. CASE ImportBegin \/ ImportFails
    BY <1>16 DEF ImportBegin, ImportFails, TypeOK, crashVars
  <1>17. CASE ImportEnd
    <2>1. importing \in Versions
      BY <1>17 DEF ImportEnd, TypeOK
    <2>2. Extracted(disk, importing) \in Like(disk) /\ ExtractCut(disk, importing) \subseteq Like(disk)
      BY <1>0, <2>1, ExtractTypes
    <2>3. CASE Cut("extract", ExtractCut(disk, importing), Restart)
      BY <1>0, <2>2, <2>3, CutTypes
    <2>4. CASE /\ disk' = Extracted(disk, importing) /\ importing' = None
               /\ UNCHANGED <<image, pc, running, hooks, check, loading, exiting,
                              stale, crashVars>>
      BY <2>2, <2>4, LikeKeepsTypes DEF TypeOK, crashVars
    <2> QED BY <1>17, <2>3, <2>4 DEF ImportEnd
  <1>18. CASE ApplyPendingUpdate
    <2>1. disk.pending \in Versions
      BY <1>0, <1>18 DEF ApplyPendingUpdate, Present, Disks
    <2>2. disk' \in Like(disk)
      BY <1>0, <1>18, <2>1, SmallWrites DEF ApplyPendingUpdate
    <2> QED BY <1>18, <2>2, LikeKeepsTypes DEF ApplyPendingUpdate, TypeOK, crashVars
  <1>19. CASE RollbackUpdate
    <2>1. RolledBack(disk) \in Like(disk) /\ RollbackCut(disk) \subseteq Like(disk)
      BY <1>0, <1>19, RollbackTypes DEF RollbackUpdate
    <2>2. CASE Cut("rollback", RollbackCut(disk), Restart)
      BY <1>0, <2>1, <2>2, CutTypes
    <2>3. CASE /\ disk' = RolledBack(disk) /\ exiting' = TRUE
               /\ UNCHANGED <<image, pc, running, hooks, check, loading, importing,
                              stale, crashVars>>
      BY <2>1, <2>3, LikeKeepsTypes DEF TypeOK, crashVars
    <2> QED BY <1>19, <2>2, <2>3 DEF RollbackUpdate
  <1>20. CASE UserWrites
    BY <1>20 DEF UserWrites, TypeOK, service, crashVars
  <1>21. CASE Exit
    BY <1>0, <1>21, GoneTypes DEF Exit, TypeOK, crashVars
  <1>22. CASE Crash
    <2>1. crashes' \in 0 .. MaxCrashes
      BY <1>22 DEF Crash, TypeOK
    <2> QED BY <1>0, <1>22, <2>1, GoneTypes DEF Crash, TypeOK
  <1>23. CASE UNCHANGED vars
    BY <1>23 DEF vars, TypeOK
  <1> QED
    BY <1>1, <1>2, <1>3, <1>4, <1>5, <1>6, <1>7, <1>8, <1>9, <1>10, <1>11, <1>12, <1>13,
       <1>14, <1>15, <1>16, <1>17, <1>18, <1>19, <1>20, <1>21, <1>22, <1>23
       DEF Next, Scripted, Served

\* The variables keep their types.
THEOREM Types == Spec => []TypeOK
  BY InitTypes, TypesStep, PTL DEF Spec

-----------------------------------------------------------------------------
(***************************************************************************)
(* The books.  Only an activation that was cut short moves the boot        *)
(* pointer ahead of the state file, and it leaves its package pending, in  *)
(* its slot and fit for the base: the activation that is run before the    *)
(* next start finds it and finishes.  Everything else writes both, or is   *)
(* one of the scripts InOneGo excludes.                                    *)
(***************************************************************************)
InOneGo == cut \cap {"seed", "stage", "rollback"} = {}

NoPartialSlot ==
    "extract" \notin cut => \A v \in Versions : disk.slot[v] \in {{}, Tree}
MovedIsPending ==
    disk.boot # disk.current =>
        /\ pc \in {"ensure", "activate", "again"}
        /\ Present(disk, disk.pending) /\ ~NeedsBaseRefresh(disk, disk.pending)
RunsTheBooted ==
    Up /\ ~exiting => running = disk.boot /\ Present(disk, running)

Books == NoPartialSlot /\ MovedIsPending /\ RunsTheBooted
Booked == InOneGo => Books

SameBooks(d, e) ==
    e.boot = d.boot /\ e.current = d.current /\ e.slot = d.slot

LEMMA SeedEffect ==
  ASSUME NEW d \in Disks, NEW v \in Versions
  PROVE  /\ Seeded(d, v).boot = v /\ Seeded(d, v).current = v
         /\ Seeded(d, v).slot = [d.slot EXCEPT ![v] = Tree]
  <1> DEFINE c == Copied(d, v)
  <1>1. c \in Disks /\ c.slot = [d.slot EXCEPT ![v] = Tree]
    BY SlotWrites
  <1> HIDE DEF c
  <1> DEFINE e == [c EXCEPT !.boot = v, !.current = v, !.ui = "normal", !.first = None]
  <1>2. e.boot = v /\ e.current = v /\ e.slot = c.slot
    BY <1>1 DEF Disks
  <1>3. Seeded(d, v) = e
    BY DEF Seeded, c
  <1> QED BY <1>1, <1>2, <1>3

\* The slot is copied, or given its marker.
LEMMA StageEffect ==
  ASSUME NEW d \in Disks, NEW v \in Versions
  PROVE  /\ Staged(d, v).boot = d.boot /\ Staged(d, v).current = d.current
         /\ Staged(d, v).pending = v /\ Present(Staged(d, v), v)
         /\ Staged(d, v).slot =
               [d.slot EXCEPT ![v] =
                   IF Present(d, v) THEN d.slot[v] \cup {"marker"} ELSE Tree]
  <1> DEFINE f == FlushPendingUpdateState(d)
             g == IF Present(d, v) THEN Marked(f, v) ELSE Copied(f, v)
             t == IF Present(d, v) THEN d.slot[v] \cup {"marker"} ELSE Tree
  <1>1. f.boot = d.boot /\ f.current = d.current /\ f.slot = d.slot
    BY DEF FlushPendingUpdateState, Disks
  <1>2. f \in Disks /\ (Present(f, v) <=> Present(d, v))
    <2>1. f \in Disks
      BY FlushTypes DEF Like
    <2> QED BY <1>1, <2>1 DEF Present
  <1> HIDE DEF f
  <1>3. g \in Disks /\ g.boot = d.boot /\ g.current = d.current
        /\ g.slot = [d.slot EXCEPT ![v] = t]
    <2>1. CASE Present(d, v)
      <3>1. Marked(f, v) \in Disks /\ SameButSlots(f, Marked(f, v))
            /\ Marked(f, v).slot = [f.slot EXCEPT ![v] = f.slot[v] \cup {"marker"}]
        BY <1>2, <2>1, SlotWrites
      <3> QED BY <1>1, <2>1, <3>1 DEF SameButSlots
    <2>2. CASE ~Present(d, v)
      <3>1. Copied(f, v) \in Disks /\ SameButSlots(f, Copied(f, v))
            /\ Copied(f, v).slot = [f.slot EXCEPT ![v] = Tree]
        BY <1>2, SlotWrites
      <3> QED BY <1>1, <2>2, <3>1 DEF SameButSlots
    <2> QED BY <2>1, <2>2
  <1>4. Staged(d, v) = SetPendingVersion(g, v)
    BY DEF Staged, f
  <1> HIDE DEF g
  <1>5. /\ Staged(d, v).boot = g.boot /\ Staged(d, v).current = g.current
        /\ Staged(d, v).slot = g.slot /\ Staged(d, v).pending = v
    BY <1>3, <1>4 DEF SetPendingVersion, Disks
  <1>6. "marker" \in t
    BY TreeIsATree
  <1>7. Staged(d, v).slot[v] = t
    BY <1>3, <1>5 DEF Disks
  <1> QED BY <1>3, <1>5, <1>6, <1>7, NoneIsNoVersion DEF Present

LEMMA ActivateEffect ==
  ASSUME NEW d \in Disks
  PROVE  /\ Activated(d).boot = Activated(d).current
         /\ Activated(d).slot = d.slot
         /\ \A e \in ActivateCut(d) : e.slot = d.slot /\ e.pending = d.pending
  <1> DEFINE b == BackedUp(d)
             saved == IF Replaces(d) THEN d.current ELSE b.saved
  <1>1. /\ b.slot = d.slot /\ b.pending = d.pending
        /\ b = [d EXCEPT !.backup = b.backup]
    BY DEF BackedUp, Disks
  <1>2. \A e \in ActivateCut(d) : e.slot = d.slot /\ e.pending = d.pending
    <2>1. \A e \in PointBackup(d, d.current) : e.slot = d.slot /\ e.pending = d.pending
      BY DEF PointBackup, Disks
    <2> HIDE DEF b
    <2>2. \A e \in PointBoot(b, d.pending) : e.slot = d.slot /\ e.pending = d.pending
      BY <1>1 DEF PointBoot, Disks
    <2> QED BY <2>1, <2>2 DEF ActivateCut, b
  <1>3. Activated(d) = [b EXCEPT !.boot = d.pending, !.current = d.pending,
                                 !.pending = None, !.saved = saved,
                                 !.ui = "hooks", !.first = d.pending]
    BY DEF Activated, BackedUp, Disks
  <1> HIDE DEF b, saved
  <1> QED BY <1>1, <1>2, <1>3 DEF Disks

LEMMA RollbackEffect ==
  ASSUME NEW d \in Disks, d.boot = d.current
  PROVE  /\ RolledBack(d).boot = RolledBack(d).current /\ RolledBack(d).slot = d.slot
         /\ Restored(d).boot = Restored(d).current /\ Restored(d).slot = d.slot
  <1>1. RolledBack(d).boot = RolledBack(d).current /\ RolledBack(d).slot = d.slot
    BY DEF RolledBack, Disks
  <1> QED BY <1>1 DEF Restored

LEMMA FailEffect ==
  ASSUME NEW d \in Disks, NEW v \in Versions, d.boot = d.current
  PROVE  Failed(d, v).boot = Failed(d, v).current /\ Failed(d, v).slot = d.slot
  <1> DEFINE r == Restored(d)
             b == BlockVersion(r, v)
  <1>1. r \in Disks /\ r.boot = r.current /\ r.slot = d.slot
    BY RollbackTypes, RollbackEffect DEF Like
  <1> HIDE DEF r
  <1>2. b \in Disks /\ b.boot = b.current /\ b.slot = d.slot
    <2>1. b \in Disks
      BY <1>1, SmallWrites DEF Like
    <2>2. b.boot = r.boot /\ b.current = r.current /\ b.slot = r.slot
      BY <1>1 DEF BlockVersion, Disks
    <2> QED BY <1>1, <2>1, <2>2
  <1>3. Failed(d, v) = [b EXCEPT !.pending = None, !.ui = "normal", !.first = None]
    BY DEF Failed, b, r
  <1> HIDE DEF b
  <1> QED BY <1>2, <1>3 DEF Disks

LEMMA ExtractEffect ==
  ASSUME NEW d \in Disks, NEW v \in Versions
  PROVE  /\ Extracted(d, v).boot = d.boot /\ Extracted(d, v).current = d.current
         /\ Extracted(d, v).slot = [d.slot EXCEPT ![v] = Tree]
         /\ \A e \in ExtractCut(d, v) : e.boot = d.boot /\ e.current = d.current
  <1> DEFINE c == Copied(d, v)
  <1>1. c \in Disks /\ SameButSlots(d, c) /\ c.slot = [d.slot EXCEPT ![v] = Tree]
    BY SlotWrites
  <1>2. \A e \in ExtractCut(d, v) : SameButSlots(d, e)
    BY SlotWrites
  <1>3. Extracted(d, v) = [c EXCEPT !.pending = v, !.ui = "normal", !.job = "done"]
    BY DEF Extracted, c
  <1> HIDE DEF c
  <1>4. /\ Extracted(d, v).boot = c.boot /\ Extracted(d, v).current = c.current
        /\ Extracted(d, v).slot = c.slot
    BY <1>1, <1>3 DEF Disks
  <1> QED BY <1>1, <1>2, <1>4 DEF SameButSlots

LEMMA DoneEffect ==
  ASSUME NEW d \in Disks, NEW from, NEW v \in Versions
  PROVE  /\ SameBooks(d, Upgraded(d, from, v))
         /\ \A e \in DoneCut(d, v) : SameBooks(d, e)
  <1> DEFINE m == MarkedDone(d)
             c == ClearBlockedUpTo(m, v)
  <1>1. m \in Disks /\ SameBooks(d, m)
    BY DEF MarkedDone, SameBooks, Disks
  <1> HIDE DEF m
  <1>2. c \in Disks /\ SameBooks(d, c)
    BY <1>1, SmallWrites DEF Like, ClearBlockedUpTo, SameBooks, Disks
  <1>3. \A e \in DoneCut(d, v) : SameBooks(d, e)
    BY <1>1, <1>2 DEF DoneCut, m
  <1>4. Upgraded(d, from, v) = [c EXCEPT !.snaps = @ \ {<<from, v>>}]
    BY DEF Upgraded, m, c
  <1> HIDE DEF c
  <1> QED BY <1>2, <1>3, <1>4 DEF SameBooks, Disks

LEMMA InitBooked == Init => Booked
  <1> SUFFICES ASSUME Init PROVE Books
    BY DEF Booked
  <1>1. /\ disk.boot = disk.current /\ \A v \in Versions : disk.slot[v] = {}
        /\ pc = "ensure"
    BY DEF Init
  <1> QED BY <1>1 DEF Books, NoPartialSlot, MovedIsPending, RunsTheBooted, Up

\* A step of a running server that leaves the pointers, and completes slots.
LEMMA ServedBooks ==
  ASSUME TypeOK, Books, Up, disk' \in Disks,
         disk'.boot = disk.boot, disk'.current = disk.current,
         \/ disk'.slot = disk.slot
         \/ \E v \in Versions : disk'.slot = [disk.slot EXCEPT ![v] = Tree],
         running' = running, exiting' \in {exiting, TRUE}, cut' = cut
  PROVE  Books'
  <1>1. disk.boot = disk.current /\ disk'.boot = disk'.current
    BY DEF Books, MovedIsPending, Up
  <1>2. /\ NoPartialSlot'
        /\ \A u \in Versions : Present(disk, u) => Present(disk', u)
    <2>1. \A u \in Versions : disk'.slot[u] \in {disk.slot[u], Tree}
      BY DEF TypeOK, Disks
    <2> QED BY <2>1, TreeIsATree DEF Books, NoPartialSlot, Present
  <1>3. running \in Versions \cup {None} /\ exiting \in BOOLEAN
    BY DEF TypeOK
  <1>4. Up' /\ ~exiting' => running' = disk'.boot /\ Present(disk', running')
    BY <1>2, <1>3 DEF Books, RunsTheBooted, Present
  <1> QED BY <1>1, <1>2, <1>4 DEF Books, MovedIsPending, RunsTheBooted

\* The server stops between two of its steps, or a script of its is cut short
\* without having touched the pointers.
LEMMA StoppedBooks ==
  ASSUME Books, Up, disk'.boot = disk.boot, disk'.current = disk.current,
         NoPartialSlot', pc' \in Restart
  PROVE  Books'
  <1>1. disk'.boot = disk'.current
    BY DEF Books, MovedIsPending, Up
  <1> QED BY <1>1 DEF Books, MovedIsPending, RunsTheBooted, Up, Restart

\* Both pointers are written to one version, or left as they were.
LEMMA WrittenBooks ==
  ASSUME disk'.boot = disk'.current, NoPartialSlot', pc' = "up" => exiting'
  PROVE  Books'
  BY DEF Books, MovedIsPending, RunsTheBooted, Up

LEMMA ScriptedBooks ==
  ASSUME TypeOK, Booked, InOneGo', Scripted
  PROVE  Books'
  <1>0. /\ disk \in Disks /\ image \in Versions /\ image \in Nat
        /\ disk.slot \in [Versions -> Trees]
    BY DEF TypeOK, Disks, Versions
  <1>1. InOneGo /\ cut \subseteq cut'
    BY DEF InOneGo, Scripted, SeedCurrentSlot, StageSeedVersionAsPending,
           ImageNotNewer, NothingToActivate, ActivatePending, ActivateThrows,
           PrintBootThrows, StartFails, Start, Cut, crashVars
  <1>2. Books /\ NoPartialSlot /\ MovedIsPending
    BY <1>1 DEF Booked, Books
  <1>3. CASE SeedCurrentSlot
    <2>1. ~Cut("seed", SeedCut(disk, image), {"ensure"})
      BY DEF Cut, InOneGo
    <2>2. disk' = Seeded(disk, image) /\ pc' = "activate"
      BY <1>3, <2>1 DEF SeedCurrentSlot
    <2>3. disk'.boot = disk'.current /\ NoPartialSlot'
      <3>1. disk'.boot = disk'.current /\ disk'.slot = [disk.slot EXCEPT ![image] = Tree]
        BY <1>0, <2>2, SeedEffect
      <3> QED BY <1>0, <1>1, <1>2, <3>1 DEF NoPartialSlot
    <2> QED BY <2>2, <2>3, WrittenBooks
  <1>4. CASE StageSeedVersionAsPending
    <2>1. ~Cut("stage", StageCut(disk, image), {"ensure"})
      BY DEF Cut, InOneGo
    <2>2. disk' = Staged(disk, image) /\ pc' = "activate" /\ image' = image
      BY <1>4, <2>1 DEF StageSeedVersionAsPending
    <2>3. NoPartialSlot'
      <3> DEFINE t == IF Present(disk, image) THEN disk.slot[image] \cup {"marker"} ELSE Tree
      <3>1. disk'.slot = [disk.slot EXCEPT ![image] = t]
        BY <1>0, <2>2, StageEffect
      <3>2. disk.slot[image] \in {{}, Tree} => t = Tree
        BY TreeIsATree DEF Present
      <3> HIDE DEF t
      <3> QED BY <1>0, <1>1, <1>2, <3>1, <3>2 DEF NoPartialSlot
    <2>5. disk'.pending = image /\ Present(disk', image)
      BY <1>0, <2>2, StageEffect
    <2>6. ~NeedsBaseRefresh(disk, disk.pending)'
      BY <1>0, <2>2, <2>5 DEF NeedsBaseRefresh
    <2>7. MovedIsPending'
      BY <2>2, <2>5, <2>6 DEF MovedIsPending
    <2> QED BY <2>2, <2>3, <2>7 DEF Books, RunsTheBooted, Up
  <1>5. CASE ImageNotNewer
    BY <1>1, <1>2, <1>5 DEF ImageNotNewer, Books, NoPartialSlot, MovedIsPending, RunsTheBooted,
                      Up, Present, NeedsBaseRefresh
  <1>6. CASE NothingToActivate \/ ActivateThrows
    <2>1. disk' = disk /\ pc' \in {"start", "ensure"}
      BY <1>6 DEF NothingToActivate, ActivateThrows
    <2>2. disk.boot = disk.current
      BY <1>2, <1>6 DEF NothingToActivate, ActivateThrows, MovedIsPending, Present
    <2> QED BY <1>1, <1>2, <2>1, <2>2, WrittenBooks DEF NoPartialSlot
  <1>7. CASE ActivatePending
    <2>1. CASE Cut("activate", ActivateCut(disk), {"ensure"})
      <3>1. /\ disk'.slot = disk.slot /\ disk'.pending = disk.pending
            /\ pc' = "ensure" /\ image' = image
        BY <1>0, <2>1, ActivateEffect DEF Cut, Gone
      <3>2. Present(disk', disk'.pending) /\ ~NeedsBaseRefresh(disk, disk.pending)'
        BY <1>7, <3>1 DEF ActivatePending, Present, NeedsBaseRefresh
      <3> QED BY <1>1, <1>2, <3>1, <3>2 DEF Books, NoPartialSlot, MovedIsPending, RunsTheBooted, Up
    <2>2. CASE disk' = Activated(disk) /\ pc' = "start"
      BY <1>0, <1>1, <1>2, <2>2, ActivateEffect, WrittenBooks DEF NoPartialSlot
    <2> QED BY <1>7, <2>1, <2>2 DEF ActivatePending
  <1>8. CASE PrintBootThrows \/ StartFails
    <2>1. disk' = disk /\ pc' # "up" /\ disk.boot = disk.current
      BY <1>2, <1>8 DEF PrintBootThrows, StartFails, Restart, MovedIsPending
    <2> QED BY <1>1, <1>2, <2>1, WrittenBooks DEF NoPartialSlot
  <1>9. CASE Start
    <2>1. /\ running' = BootDirectory(disk) /\ BootDirectory(disk) # None
          /\ disk.boot = disk.current
      BY <1>2, <1>9 DEF Start, MovedIsPending
    <2>2. /\ disk'.boot = disk.boot /\ disk'.current = disk.current
          /\ disk'.slot = disk.slot
      BY <1>0, <1>9 DEF Start, Disks
    <2>3. running' = disk.boot /\ Present(disk, disk.boot)
      BY <1>9, <2>1 DEF Start, BootDirectory, BootVersion, Exists, Present
    <2> QED BY <1>1, <1>2, <2>1, <2>2, <2>3
            DEF Books, NoPartialSlot, MovedIsPending, RunsTheBooted, Present
  <1> QED BY <1>3, <1>4, <1>5, <1>6, <1>7, <1>8, <1>9 DEF Scripted

LEMMA ServedStep ==
  ASSUME TypeOK, Booked, InOneGo', Served
  PROVE  Books'
  <1>0. disk \in Disks /\ disk.slot \in [Versions -> Trees]
    BY DEF TypeOK, Disks
  <1>1. disk' \in Disks
    BY TypesStep DEF Next, TypeOK
  <1>2. Up
    BY DEF Served, HooksProgress, HooksDone, HooksFail, CheckBegin, StartSilentDownload,
           NothingOffered, CheckFails, Downloaded, DownloadFails, ImportBegin, ImportEnd,
           ImportFails, ApplyPendingUpdate, RollbackUpdate, UserWrites
  <1>3. InOneGo /\ cut \subseteq cut'
    BY DEF InOneGo, Served, HooksProgress, HooksDone, HooksFail, CheckBegin,
           StartSilentDownload, NothingOffered, CheckFails, Downloaded, DownloadFails,
           ImportBegin, ImportEnd, ImportFails, ApplyPendingUpdate, RollbackUpdate,
           UserWrites, Cut, crashVars
  <1>4. Books /\ NoPartialSlot /\ disk.boot = disk.current
    BY <1>2, <1>3 DEF Booked, Books, MovedIsPending, Up
  <1>5. ~Cut("rollback", FailCut(disk, hooks.to), Restart)
        /\ ~Cut("rollback", RollbackCut(disk), Restart)
    BY DEF Cut, InOneGo
  <1>6. ASSUME HooksProgress \/ CheckBegin \/ StartSilentDownload \/ NothingOffered
               \/ CheckFails \/ DownloadFails \/ ImportBegin \/ ImportFails \/ UserWrites
        PROVE  Books'
    <2>1. /\ disk'.boot = disk.boot /\ disk'.current = disk.current
          /\ disk'.slot = disk.slot
      BY <1>0, <1>6 DEF HooksProgress, CheckBegin, ClearBlockedPending,
                 StartSilentDownload, NothingOffered, CheckFails, DownloadFails,
                 ImportBegin, ImportFails, UserWrites, Disks
    <2>2. running' = running /\ exiting' = exiting /\ cut' = cut
      BY <1>6 DEF HooksProgress, CheckBegin, StartSilentDownload, NothingOffered,
                  CheckFails, DownloadFails, ImportBegin, ImportFails, UserWrites, service,
                  crashVars
    <2> QED BY <1>1, <1>2, <1>4, <2>1, <2>2, ServedBooks
  <1>7. CASE HooksDone
    <2>1. hooks.to \in Versions
      BY <1>7, UpgradesToAVersion DEF HooksDone
    <2>2. CASE Cut("done", DoneCut(disk, hooks.to), Restart)
      <3>1. SameBooks(disk, disk') /\ pc' \in Restart
        BY <1>0, <2>1, <2>2, DoneEffect DEF Cut, Gone
      <3> QED BY <1>2, <1>3, <1>4, <3>1, StoppedBooks DEF SameBooks, NoPartialSlot
    <2>3. CASE /\ disk' = Upgraded(disk, hooks.from, hooks.to)
               /\ exiting' = TRUE /\ running' = running /\ cut' = cut
      <3>1. SameBooks(disk, disk')
        BY <1>0, <2>1, <2>3, DoneEffect
      <3> QED BY <1>1, <1>2, <1>4, <2>3, <3>1, ServedBooks DEF SameBooks
    <2> QED BY <1>7, <2>2, <2>3 DEF HooksDone, crashVars
  <1>8. CASE HooksFail
    <2>1. hooks.to \in Versions
      BY <1>8, UpgradesToAVersion DEF HooksFail
    <2>2. disk' = Failed(disk, hooks.to) /\ exiting' = TRUE
      BY <1>5, <1>8 DEF HooksFail
    <2>3. disk'.boot = disk'.current /\ disk'.slot = disk.slot
      BY <1>0, <1>4, <2>1, <2>2, FailEffect
    <2> QED BY <1>3, <1>4, <2>2, <2>3, WrittenBooks DEF NoPartialSlot
  <1>9. ASSUME NEW v \in Versions,
               \/ Cut("extract", ExtractCut(disk, v), Restart)
               \/ disk' = Extracted(disk, v) /\ running' = running /\ exiting' = exiting
                  /\ cut' = cut
        PROVE  Books'
    <2>1. CASE Cut("extract", ExtractCut(disk, v), Restart)
      <3>1. /\ disk'.boot = disk.boot /\ disk'.current = disk.current
            /\ pc' \in Restart
        BY <1>0, <2>1, ExtractEffect DEF Cut, Gone
      <3>2. NoPartialSlot'
        BY <2>1 DEF NoPartialSlot, Cut
      <3> QED BY <1>2, <1>4, <3>1, <3>2, StoppedBooks
    <2>2. CASE disk' = Extracted(disk, v) /\ running' = running /\ exiting' = exiting
               /\ cut' = cut
      <3>1. /\ disk'.boot = disk.boot /\ disk'.current = disk.current
            /\ disk'.slot = [disk.slot EXCEPT ![v] = Tree]
        BY <1>0, <2>2, ExtractEffect
      <3> QED BY <1>1, <1>2, <1>4, <2>2, <3>1, ServedBooks
    <2> QED BY <1>9, <2>1, <2>2
  <1>10. CASE Downloaded
    <2>1. loading \in Versions
      BY <1>10 DEF Downloaded, TypeOK
    <2> QED BY <1>9, <1>10, <2>1 DEF Downloaded, crashVars
  <1>11. CASE ImportEnd
    <2>1. importing \in Versions
      BY <1>11 DEF ImportEnd, TypeOK
    <2> QED BY <1>9, <1>11, <2>1 DEF ImportEnd, crashVars
  <1>12. CASE ApplyPendingUpdate
    <2>1. /\ disk'.boot = disk.boot /\ disk'.current = disk.current
          /\ disk'.slot = disk.slot
      BY <1>0, <1>12 DEF ApplyPendingUpdate, SetPendingVersion, Disks
    <2>2. running' = running /\ exiting' = TRUE /\ cut' = cut
      BY <1>12 DEF ApplyPendingUpdate, crashVars
    <2> QED BY <1>1, <1>2, <1>4, <2>1, <2>2, ServedBooks
  <1>13. CASE RollbackUpdate
    <2>1. disk' = RolledBack(disk) /\ exiting' = TRUE
      BY <1>5, <1>13 DEF RollbackUpdate
    <2>2. disk'.boot = disk'.current /\ disk'.slot = disk.slot
      BY <1>0, <1>4, <2>1, RollbackEffect
    <2> QED BY <1>3, <1>4, <2>1, <2>2, WrittenBooks DEF NoPartialSlot
  <1> QED BY <1>6, <1>7, <1>8, <1>10, <1>11, <1>12, <1>13 DEF Served

LEMMA BookedStep ==
  ASSUME TypeOK, Booked, [Next]_vars
  PROVE  Booked'
  <1> SUFFICES ASSUME InOneGo' PROVE Books'
    BY DEF Booked
  <1>1. CASE Scripted
    BY <1>1, ScriptedBooks
  <1>2. CASE Served
    BY <1>2, ServedStep
  <1>3. CASE UpgradeImage
    <2>1. Books
      BY <1>3 DEF UpgradeImage, crashVars, InOneGo, Booked
    <2>2. \A v \in Versions : NeedsBaseRefresh(disk, v)' => NeedsBaseRefresh(disk, v)
      BY <1>3 DEF UpgradeImage, NeedsBaseRefresh, TypeOK, Versions
    <2>3. /\ disk' = disk /\ pc' = pc /\ running' = running /\ exiting' = exiting
          /\ cut' = cut
          /\ disk.pending \in Versions \cup {None}
      BY <1>3 DEF UpgradeImage, service, crashVars, TypeOK, Disks
    <2>4. MovedIsPending'
      BY <2>1, <2>2, <2>3 DEF Books, MovedIsPending, Present
    <2> QED BY <2>1, <2>3, <2>4 DEF Books, NoPartialSlot, RunsTheBooted, Up, Present
  <1>4. CASE Exit \/ Crash
    <2>1. Books /\ Up /\ disk' = disk /\ pc' \in Restart /\ cut' = cut
      BY <1>4 DEF Exit, Crash, Gone, crashVars, InOneGo, Booked
    <2> QED BY <2>1, StoppedBooks DEF Books, NoPartialSlot
  <1>5. CASE UNCHANGED vars
    BY <1>5 DEF vars, InOneGo, Booked, Books, NoPartialSlot, MovedIsPending,
                RunsTheBooted, Up, Present, NeedsBaseRefresh
  <1> QED BY <1>1, <1>2, <1>3, <1>4, <1>5 DEF Next

\* The boot pointer, the state file and the server process name one version,
\* whatever else is cut short and however often; its slot is complete unless it
\* was being extracted again.
THEOREM Agreement == Spec => []StateAgrees
  <1>1. Init => TypeOK /\ Booked
    BY InitTypes, InitBooked
  <1>2. TypeOK /\ Booked /\ [Next]_vars => TypeOK' /\ Booked'
    BY TypesStep, BookedStep
  <1>3. TypeOK /\ Booked => StateAgrees
    <2> SUFFICES ASSUME TypeOK, Booked, Up, ~exiting, InOneGo
                 PROVE  /\ running = disk.boot /\ disk.current = disk.boot
                        /\ disk.slot[running] = Tree \/ "extract" \in cut
      BY DEF StateAgrees, InOneGo
    <2>1. /\ running = disk.boot /\ disk.current = disk.boot
          /\ Present(disk, running)
      BY DEF Booked, Books, MovedIsPending, RunsTheBooted, Up
    <2>2. running \in Versions
      BY <2>1 DEF TypeOK, Present
    <2> QED BY <2>1, <2>2 DEF Booked, Books, NoPartialSlot, Present, TypeOK, Disks
  <1> QED BY <1>1, <1>2, <1>3, PTL DEF Spec

-----------------------------------------------------------------------------
(***************************************************************************)
(* Blocked versions.  What becomes pending is not blocked, or it is of the *)
(* image or slipped: it was offered or let in by comparing it with every   *)
(* blocked version, and the one version that may be blocked meanwhile is   *)
(* the one whose hooks run, which is in use and so no newer version.       *)
(* firstBootUpgrade names the version in use.                              *)
(***************************************************************************)
Fit == Images \cup slipped

PendingIsFit == disk.pending \in disk.blocked => disk.pending \in Fit
ImportIsFit == importing \in disk.blocked => importing \in slipped
DownloadIsFit ==
    loading \notin disk.blocked /\ (hooks.on => loading # hooks.to)
OffersAreFit ==
    check.on /\ ~exiting =>
        /\ check.offers \cap disk.blocked = {}
        /\ hooks.on => hooks.to \notin check.offers
HooksAreOfCurrent == hooks.on /\ ~exiting => hooks.to = disk.current
DownIsIdle ==
    ~Up => /\ hooks = Idle /\ check = NoCheck /\ loading = None
           /\ importing = None /\ ~exiting

FirstOf(d) ==
    /\ d.first # None => d.first = d.current
    /\ d.ui = "hooks" => d.first # None

Packages ==
    /\ PendingIsFit /\ ImportIsFit /\ DownloadIsFit /\ OffersAreFit
    /\ HooksAreOfCurrent /\ DownIsIdle /\ FirstOf(disk)

\* Writes that block nothing and make nothing pending.
Tame(d, e) ==
    /\ e.pending \in {d.pending, None} /\ e.blocked \subseteq d.blocked
    /\ FirstOf(d) => FirstOf(e)

LEMMA SlotsAreTame ==
  ASSUME NEW d, NEW e, SameButSlots(d, e)
  PROVE  Tame(d, e)
  BY DEF SameButSlots, Tame, FirstOf

LEMMA SeedIsTame ==
  ASSUME NEW d \in Disks, NEW v \in Versions
  PROVE  Tame(d, Seeded(d, v)) /\ \A e \in SeedCut(d, v) : Tame(d, e)
  <1> DEFINE c == Copied(d, v)
  <1>1. c \in Disks /\ c.pending = d.pending /\ c.blocked = d.blocked
        /\ c.current = d.current /\ c.first = d.first /\ c.ui = d.ui
    BY SlotWrites DEF SameButSlots
  <1>2. \A e \in CopySeedTree(d, v) : Tame(d, e)
    BY SlotWrites, SlotsAreTame
  <1> HIDE DEF c
  <1>3. Tame(d, [c EXCEPT !.boot = v, !.current = v, !.ui = "normal", !.first = None])
    BY <1>1 DEF Tame, FirstOf, Disks
  <1>4. Tame(d, c) /\ \A e \in PointBoot(c, v) : Tame(d, e)
    BY <1>1 DEF Tame, FirstOf, Disks, PointBoot
  <1> QED BY <1>2, <1>3, <1>4 DEF Seeded, SeedCut, c

LEMMA FlushIsTame ==
  ASSUME NEW d \in Disks
  PROVE  /\ FlushPendingUpdateState(d) \in Disks
         /\ Tame(d, FlushPendingUpdateState(d))
         /\ FlushPendingUpdateState(d).first \in {d.first, None}
         /\ FlushPendingUpdateState(d).current = d.current
         /\ FlushPendingUpdateState(d).blocked = d.blocked
  <1>1. FlushPendingUpdateState(d) \in Disks
    BY FlushTypes DEF Like
  <1>2. CASE d.pending = None /\ d.job = "none"
    BY <1>1, <1>2 DEF FlushPendingUpdateState, Tame, FirstOf
  <1>3. CASE ~(d.pending = None /\ d.job = "none")
    BY <1>1, <1>3 DEF FlushPendingUpdateState, Tame, FirstOf, Locked, Disks
  <1> QED BY <1>2, <1>3

LEMMA StageIsTame ==
  ASSUME NEW d \in Disks, NEW v \in Versions
  PROVE  /\ Staged(d, v).pending = v /\ Staged(d, v).blocked = d.blocked
         /\ FirstOf(d) => FirstOf(Staged(d, v))
         /\ \A e \in StageCut(d, v) : Tame(d, e)
  <1> DEFINE f == FlushPendingUpdateState(d)
             g == IF Present(d, v) THEN Marked(f, v) ELSE Copied(f, v)
  <1>1. /\ f \in Disks /\ Tame(d, f) /\ f.first \in {d.first, None}
        /\ f.current = d.current /\ f.blocked = d.blocked
    BY FlushIsTame
  <1>2. Present(f, v) <=> Present(d, v)
    <2>1. f.slot = d.slot
      BY DEF FlushPendingUpdateState, Disks
    <2> QED BY <2>1 DEF Present
  <1> HIDE DEF f
  <1>3. g \in Disks /\ SameButSlots(f, g)
    BY <1>1, <1>2, SlotWrites
  <1>4. \A e \in CopySeedTree(f, v) \cup {g} : Tame(d, e)
    <2> SUFFICES ASSUME NEW e \in CopySeedTree(f, v) \cup {g} PROVE Tame(d, e)
      OBVIOUS
    <2>1. SameButSlots(f, e)
      BY <1>1, <1>3, SlotWrites
    <2> QED BY <1>1, <2>1 DEF SameButSlots, Tame, FirstOf
  <1>5. Staged(d, v) = SetPendingVersion(g, v)
    BY DEF Staged, f
  <1>6. StageCut(d, v) \subseteq {f, g} \cup CopySeedTree(f, v)
    BY DEF StageCut, f
  <1> HIDE DEF g
  <1>7. /\ Staged(d, v).pending = v /\ Staged(d, v).blocked = d.blocked
        /\ FirstOf(d) => FirstOf(Staged(d, v))
    BY <1>1, <1>3, <1>5 DEF SetPendingVersion, FirstOf, SameButSlots, Disks
  <1> QED BY <1>1, <1>4, <1>6, <1>7

LEMMA ActivateIsTame ==
  ASSUME NEW d \in Disks, d.pending \in Versions
  PROVE  Tame(d, Activated(d)) /\ \A e \in ActivateCut(d) : Tame(d, e)
  <1> DEFINE b == BackedUp(d)
             saved == IF Replaces(d) THEN d.current ELSE b.saved
  <1>1. b = [d EXCEPT !.backup = b.backup]
    BY DEF BackedUp, Disks
  <1>2. Activated(d) = [b EXCEPT !.boot = d.pending, !.current = d.pending,
                                 !.pending = None, !.saved = saved,
                                 !.ui = "hooks", !.first = d.pending]
    BY DEF Activated, BackedUp, Disks
  <1>3. \A e \in PointBackup(d, d.current) : Tame(d, e)
    BY DEF PointBackup, Tame, FirstOf, Disks
  <1> HIDE DEF b, saved
  <1>4. Tame(d, Activated(d))
    BY <1>1, <1>2, NoneIsNoVersion DEF Tame, FirstOf, Disks
  <1>5. \A e \in PointBoot(b, d.pending) : Tame(d, e)
    BY <1>1 DEF PointBoot, Tame, FirstOf, Disks
  <1> QED BY <1>3, <1>4, <1>5 DEF ActivateCut, b

LEMMA RollbackIsTame ==
  ASSUME NEW d \in Disks
  PROVE  /\ Tame(d, RolledBack(d)) /\ \A e \in RollbackCut(d) : Tame(d, e)
         /\ Tame(d, Restored(d))
  <1>1. Tame(d, RolledBack(d)) /\ Tame(d, d)
    BY DEF RolledBack, Tame, FirstOf, Disks
  <1>2. \A e \in RollbackCut(d) : Tame(d, e)
    BY DEF RollbackCut, PointBoot, Tame, FirstOf, Disks
  <1> QED BY <1>1, <1>2 DEF Restored

LEMMA ExtractIsTame ==
  ASSUME NEW d \in Disks, NEW v \in Versions
  PROVE  /\ Extracted(d, v).pending = v /\ Extracted(d, v).blocked = d.blocked
         /\ FirstOf(d) => FirstOf(Extracted(d, v))
         /\ \A e \in ExtractCut(d, v) : Tame(d, e)
  <1> DEFINE c == Copied(d, v)
  <1>1. c \in Disks /\ SameButSlots(d, c)
    BY SlotWrites
  <1>2. \A e \in ExtractCut(d, v) : Tame(d, e)
    BY SlotWrites, SlotsAreTame
  <1>3. Extracted(d, v) = [c EXCEPT !.pending = v, !.ui = "normal", !.job = "done"]
    BY DEF Extracted, c
  <1> HIDE DEF c
  <1> QED BY <1>1, <1>2, <1>3 DEF FirstOf, SameButSlots, Disks

LEMMA DoneIsTame ==
  ASSUME NEW d \in Disks, NEW from, NEW v \in Versions
  PROVE  Tame(d, Upgraded(d, from, v)) /\ \A e \in DoneCut(d, v) : Tame(d, e)
  <1> DEFINE m == MarkedDone(d)
             c == ClearBlockedUpTo(m, v)
  <1>1. m \in Disks /\ Tame(d, m) /\ m.first = None /\ m.ui = "normal"
    BY ZenonT(30) DEF MarkedDone, Tame, FirstOf, Disks
  <1> HIDE DEF m
  <1>2. c \in Disks
    BY <1>1, SmallWrites DEF Like
  <1>3. Tame(d, c) /\ c.first = None /\ c.ui = "normal"
    BY <1>1 DEF ClearBlockedUpTo, Tame, FirstOf, Disks
  <1>4. Upgraded(d, from, v) = [c EXCEPT !.snaps = @ \ {<<from, v>>}]
    BY DEF Upgraded, m, c
  <1>5. \A e \in DoneCut(d, v) : Tame(d, e)
    BY <1>1, <1>3 DEF DoneCut, m, c
  <1> HIDE DEF c
  <1> QED BY <1>2, <1>3, <1>4, <1>5 DEF Tame, FirstOf, Disks

\* Only the end of failed hooks blocks a version, and that one is not pending.
LEMMA BlockEffect ==
  ASSUME NEW d \in Disks, NEW v \in Versions
  PROVE  /\ BlockVersion(d, v) \in Disks
         /\ BlockVersion(d, v).blocked = d.blocked \cup {v}
         /\ BlockVersion(d, v).pending \in {d.pending, None} \ {v}
         /\ FirstOf(d) => FirstOf(BlockVersion(d, v))
  <1>1. BlockVersion(d, v) \in Disks
    BY SmallWrites DEF Like
  <1> QED BY <1>1, NoneIsNoVersion DEF BlockVersion, FirstOf, Disks

LEMMA FailBlocks ==
  ASSUME NEW d \in Disks, NEW v \in Versions
  PROVE  \A e \in FailCut(d, v) \cup {Failed(d, v)} :
           \/ Tame(d, e)
           \/ /\ e.blocked \subseteq d.blocked \cup {v}
              /\ e.pending \in {d.pending, None} \ {v}
              /\ FirstOf(d) => FirstOf(e)
  <1> DEFINE r == Restored(d)
             b == BlockVersion(r, v)
  <1>1. r \in Disks /\ Tame(d, r) /\ Tame(d, d)
    BY RollbackTypes, RollbackIsTame DEF Like, Tame
  <1> HIDE DEF r
  <1>2. /\ b \in Disks /\ b.blocked \subseteq d.blocked \cup {v}
        /\ b.pending \in {d.pending, None} \ {v}
        /\ FirstOf(d) => FirstOf(b)
    BY <1>1, BlockEffect DEF Tame
  <1>3. Failed(d, v) = [b EXCEPT !.pending = None, !.ui = "normal", !.first = None]
    BY DEF Failed, b, r
  <1>4. FailCut(d, v) \subseteq {d, r, b} \cup RollbackCut(d)
    BY DEF FailCut, b, r
  <1> HIDE DEF b
  <1>5. /\ Failed(d, v).blocked \subseteq d.blocked \cup {v}
        /\ Failed(d, v).pending \in {d.pending, None} \ {v}
        /\ FirstOf(d) => FirstOf(Failed(d, v))
    BY <1>2, <1>3, NoneIsNoVersion DEF FirstOf, Disks
  <1> QED BY <1>1, <1>2, <1>4, <1>5, RollbackIsTame

LEMMA NoneIsNotBlocked ==
  ASSUME TypeOK
  PROVE  None \notin disk.blocked
  BY NoneIsNoVersion DEF TypeOK, Disks

LEMMA NewerIsNotBlocked ==
  ASSUME NEW d, NEW v \in Versions, NewerThanBlocked(d, v)
  PROVE  v \notin d.blocked
  <1> SUFFICES ASSUME v \in d.blocked PROVE FALSE
    OBVIOUS
  <1>1. v > v
    BY DEF NewerThanBlocked
  <1>2. v \in Nat
    BY DEF Versions
  <1> QED BY <1>1, <1>2

\* What is pending stays fit when it was pending, loaded or imported before, or
\* comes with the image.
LEMMA PendingStep ==
  ASSUME TypeOK, TypeOK', Packages, disk'.blocked \subseteq disk.blocked,
         slipped \subseteq slipped',
         disk'.pending \in {disk.pending, None, loading, importing} \cup Images
  PROVE  PendingIsFit'
  BY NoneIsNotBlocked DEF Packages, PendingIsFit, ImportIsFit, DownloadIsFit, Fit

\* A tame step after which the server is not up.
LEMMA DownPackages ==
  ASSUME TypeOK', PendingIsFit', FirstOf(disk'), hooks' = Idle, check' = NoCheck,
         loading' = None, importing' = None, ~exiting'
  PROVE  Packages'
  <1>1. None \notin disk'.blocked
    BY NoneIsNoVersion DEF TypeOK, Disks
  <1> QED BY <1>1 DEF Packages, ImportIsFit, DownloadIsFit, OffersAreFit,
                      HooksAreOfCurrent, DownIsIdle, Idle, NoCheck

\* A step of the running server that blocks nothing and accepts nothing new.
LEMMA UpPackages ==
  ASSUME TypeOK, TypeOK', Packages, Up, Up', slipped' = slipped,
         disk'.blocked \subseteq disk.blocked, FirstOf(disk'),
         disk'.pending \in {disk.pending, None, loading, importing},
         hooks' \in {hooks, Idle}, check' \in {check, NoCheck},
         loading' \in {loading, None}, importing' \in {importing, None},
         exiting' \in {exiting, TRUE}, exiting' \/ disk'.current = disk.current
  PROVE  Packages'
  <1>1. PendingIsFit'
    BY PendingStep
  <1>2. ImportIsFit'
    BY NoneIsNotBlocked DEF Packages, ImportIsFit
  <1>3. hooks.on => hooks.to # None
    BY UpgradesToAVersion, NoneIsNoVersion
  <1>4. DownloadIsFit'
    BY <1>3, NoneIsNotBlocked DEF Packages, DownloadIsFit, Idle
  <1>5. exiting => exiting'
    OBVIOUS
  <1>6. OffersAreFit'
    BY <1>5 DEF Packages, OffersAreFit, NoCheck, Idle
  <1>7. HooksAreOfCurrent'
    BY <1>5 DEF Packages, HooksAreOfCurrent, Idle
  <1> QED BY <1>1, <1>2, <1>4, <1>6, <1>7 DEF Packages, DownIsIdle

LEMMA InitPackages == Init => Packages
  <1> SUFFICES ASSUME Init PROVE Packages
    OBVIOUS
  <1>1. /\ disk.pending = None /\ disk.blocked = {} /\ disk.first = None
        /\ disk.ui = "normal"
    BY DEF Init
  <1>2. /\ hooks = Idle /\ check = NoCheck /\ loading = None /\ importing = None
        /\ ~exiting
    BY DEF Init
  <1> QED BY <1>1, <1>2 DEF Packages, PendingIsFit, ImportIsFit, DownloadIsFit,
             OffersAreFit, HooksAreOfCurrent, DownIsIdle, FirstOf, Idle, NoCheck

LEMMA CutPackages ==
  ASSUME TypeOK, TypeOK', Packages, NEW script, NEW left, NEW next,
         Cut(script, left, next), \A e \in left : Tame(disk, e)
  PROVE  Packages'
  <1>1. Tame(disk, disk') /\ slipped' = slipped /\ Gone(next)
    BY DEF Cut
  <1>2. PendingIsFit' /\ FirstOf(disk')
    BY <1>1, PendingStep DEF Tame, Packages
  <1> QED BY <1>1, <1>2, DownPackages DEF Gone

LEMMA ScriptedPackages ==
  ASSUME TypeOK, TypeOK', Packages, Scripted
  PROVE  Packages'
  <1>0. /\ disk \in Disks /\ image \in Versions /\ image \in Images
        /\ FirstOf(disk)
    BY DEF TypeOK, Packages
  <1>1. /\ hooks = Idle /\ check = NoCheck /\ loading = None
        /\ importing = None /\ ~exiting
    BY DEF Packages, DownIsIdle, Up, Scripted, SeedCurrentSlot,
           StageSeedVersionAsPending, ImageNotNewer, NothingToActivate,
           ActivatePending, ActivateThrows, PrintBootThrows, StartFails, Start
  <1>2. ASSUME Tame(disk, disk'), UNCHANGED <<service, crashVars>>
        PROVE  Packages'
    <2>1. PendingIsFit' /\ FirstOf(disk')
      BY <1>2, PendingStep DEF Tame, Packages, crashVars
    <2> QED BY <1>1, <1>2, <2>1, DownPackages DEF service
  <1>3. Tame(disk, disk)
    BY DEF Tame
  <1>4. CASE SeedCurrentSlot
    BY <1>0, <1>2, <1>4, CutPackages, SeedIsTame DEF SeedCurrentSlot
  <1>5. CASE StageSeedVersionAsPending
    <2>1. CASE Cut("stage", StageCut(disk, image), {"ensure"})
      BY <1>0, <2>1, CutPackages, StageIsTame
    <2>2. CASE disk' = Staged(disk, image) /\ UNCHANGED <<service, crashVars>>
      <3>1. PendingIsFit' /\ FirstOf(disk')
        BY <1>0, <2>2, StageIsTame DEF PendingIsFit, Fit
      <3> QED BY <1>1, <2>2, <3>1, DownPackages DEF service
    <2> QED BY <1>5, <2>1, <2>2 DEF StageSeedVersionAsPending
  <1>6. CASE \/ ImageNotNewer \/ NothingToActivate \/ ActivateThrows
             \/ PrintBootThrows \/ StartFails
    BY <1>2, <1>3, <1>6 DEF ImageNotNewer, NothingToActivate, ActivateThrows,
                            PrintBootThrows, StartFails
  <1>7. CASE ActivatePending
    <2>1. disk.pending \in Versions
      BY <1>0, <1>7 DEF ActivatePending, Present, Disks
    <2> QED BY <1>0, <1>2, <1>7, <2>1, CutPackages, ActivateIsTame DEF ActivatePending
  <1>8. CASE Start
    <2>1. /\ disk'.pending = disk.pending /\ disk'.blocked = disk.blocked
          /\ disk'.first = disk.first /\ disk'.current = disk.current
          /\ disk'.ui = IF disk.first # None THEN "hooks" ELSE disk.ui
      BY <1>0, <1>8 DEF Start, Disks
    <2>2. FirstOf(disk') /\ slipped' = slipped
      BY <1>0, <1>8, <2>1 DEF FirstOf, Start, crashVars
    <2>3. PendingIsFit'
      BY <2>1, <2>2, PendingStep
    <2>4. /\ check' = NoCheck /\ loading' = None /\ importing' = None /\ Up'
      BY <1>1, <1>8 DEF Start, Up
    <2>5. hooks'.on => hooks'.to = disk.current
      BY <1>0, <1>8 DEF Start, Idle, FirstOf
    <2>6. hooks'.on => hooks'.to # None
      <3>1. hooks' \in {Idle} \cup [on : {TRUE}, from : Versions \cup {None}, to : Versions]
        BY DEF TypeOK
      <3>2. CASE hooks' = Idle
        BY <3>2 DEF Idle
      <3>3. CASE hooks' \in [on : {TRUE}, from : Versions \cup {None}, to : Versions]
        BY <3>3, NoneIsNoVersion
      <3> QED BY <3>1, <3>2, <3>3
    <2>7. ImportIsFit' /\ DownloadIsFit'
      <3>1. None \notin disk'.blocked
        BY <2>1, NoneIsNotBlocked
      <3> QED BY <2>4, <2>6, <3>1 DEF ImportIsFit, DownloadIsFit
    <2>8. OffersAreFit' /\ DownIsIdle'
      BY <2>4 DEF OffersAreFit, DownIsIdle, NoCheck
    <2> QED BY <2>1, <2>2, <2>3, <2>5, <2>7, <2>8 DEF Packages, HooksAreOfCurrent
  <1> QED BY <1>4, <1>5, <1>6, <1>7, <1>8 DEF Scripted

LEMMA FailedPackages ==
  ASSUME TypeOK, TypeOK', Packages, HooksFail
  PROVE  Packages'
  <1> DEFINE to == hooks.to
  <1>0. disk \in Disks /\ FirstOf(disk) /\ hooks.on /\ to \in Versions
    BY UpgradesToAVersion DEF HooksFail, TypeOK, Packages
  <1>1. \/ Tame(disk, disk')
        \/ /\ disk'.blocked \subseteq disk.blocked \cup {to}
           /\ disk'.pending \in {disk.pending, None} \ {to}
           /\ FirstOf(disk) => FirstOf(disk')
    BY <1>0, FailBlocks DEF HooksFail, Cut
  <1>2. /\ disk'.blocked \subseteq disk.blocked \cup {to} /\ FirstOf(disk')
        /\ slipped \subseteq slipped' /\ hooks' = Idle
    BY <1>0, <1>1 DEF Tame, HooksFail, Cut, Gone
  <1>3. PendingIsFit'
    <2>1. CASE Tame(disk, disk')
      BY <1>2, <2>1, PendingStep DEF Tame
    <2>2. CASE /\ disk'.blocked \subseteq disk.blocked \cup {to}
               /\ disk'.pending \in {disk.pending, None} \ {to}
      BY <1>2, <2>2, NoneIsNotBlocked DEF Packages, PendingIsFit, Fit
    <2> QED BY <1>1, <2>1, <2>2
  <1>4. CASE Gone(Restart)
    BY <1>2, <1>3, <1>4, DownPackages DEF Gone
  <1>5. CASE /\ exiting' = TRUE
             /\ slipped' = slipped \cup ({to} \cap {importing})
             /\ UNCHANGED <<pc, check, loading, importing>>
    <2>1. ImportIsFit'
      BY <1>2, <1>5 DEF Packages, ImportIsFit
    <2>2. DownloadIsFit'
      BY <1>0, <1>2, <1>5 DEF Packages, DownloadIsFit, Idle
    <2>3. OffersAreFit' /\ HooksAreOfCurrent' /\ DownIsIdle'
      BY <1>5 DEF OffersAreFit, HooksAreOfCurrent, DownIsIdle, Up, HooksFail
    <2> QED BY <1>2, <1>3, <2>1, <2>2, <2>3 DEF Packages
  <1> QED BY <1>4, <1>5 DEF HooksFail, Cut

LEMMA CheckPackages ==
  ASSUME TypeOK, TypeOK', Packages, CheckBegin
  PROVE  Packages'
  <1>0. disk \in Disks /\ FirstOf(disk) /\ Up /\ Up'
    BY DEF CheckBegin, TypeOK, Packages, Up
  <1>1. Tame(disk, disk') /\ disk'.current = disk.current
    BY <1>0 DEF CheckBegin, ClearBlockedPending, Tame, FirstOf, Disks
  <1>2. UNCHANGED <<hooks, loading, importing, exiting, slipped>>
    BY DEF CheckBegin, crashVars
  <1>3. CASE check' = NoCheck
    BY <1>0, <1>1, <1>2, <1>3, UpPackages DEF Tame
  <1>4. CASE check' # NoCheck
    <2>1. check' = [on |-> TRUE,
                    offers |-> Offers(disk', IF disk.current # None
                                             THEN disk.current ELSE running)]
      BY <1>4 DEF CheckBegin
    <2>2. check'.offers \cap disk'.blocked = {}
      <3>1. \A v \in check'.offers : v \in Versions /\ NewerThanBlocked(disk', v)
        BY <2>1 DEF Offers
      <3> QED BY <3>1, NewerIsNotBlocked
    <2>3. ASSUME hooks.on, ~exiting
          PROVE  hooks.to \notin check'.offers
      <3>1. hooks.to = disk.current /\ hooks.to \in Versions
        BY <2>3, UpgradesToAVersion DEF Packages, HooksAreOfCurrent
      <3> QED BY <2>1, <3>1, NoneIsNoVersion DEF Offers, Versions
    <2>4. OffersAreFit'
      BY <1>2, <2>2, <2>3 DEF OffersAreFit
    <2>5. PendingIsFit'
      BY <1>1, <1>2, PendingStep DEF Tame
    <2>6. /\ ImportIsFit' /\ DownloadIsFit' /\ HooksAreOfCurrent' /\ DownIsIdle'
          /\ FirstOf(disk')
      BY <1>0, <1>1, <1>2 DEF Packages, ImportIsFit, DownloadIsFit,
             HooksAreOfCurrent, DownIsIdle, Tame
    <2> QED BY <2>4, <2>5, <2>6 DEF Packages
  <1> QED BY <1>3, <1>4

LEMMA ServedPackages ==
  ASSUME TypeOK, TypeOK', Packages, Served
  PROVE  Packages'
  <1>0. disk \in Disks /\ FirstOf(disk)
    BY DEF TypeOK, Packages
  <1>1. CASE HooksFail
    BY <1>1, FailedPackages
  <1>2. CASE CheckBegin
    BY <1>2, CheckPackages
  <1>3. CASE HooksProgress
    <2>1. Tame(disk, disk') /\ disk'.current = disk.current
      BY <1>0, <1>3 DEF HooksProgress, Tame, FirstOf, Disks
    <2> QED BY <1>0, <1>3, <2>1, UpPackages DEF HooksProgress, Tame, service, crashVars, Up
  <1>4. CASE HooksDone
    <2>1. hooks.to \in Versions
      BY <1>4, UpgradesToAVersion DEF HooksDone
    <2>2. CASE Cut("done", DoneCut(disk, hooks.to), Restart)
      BY <1>0, <2>1, <2>2, CutPackages, DoneIsTame
    <2>3. CASE /\ disk' = Upgraded(disk, hooks.from, hooks.to)
               /\ hooks' = Idle /\ exiting' = TRUE
               /\ UNCHANGED <<pc, check, loading, importing, crashVars>>
      <3>1. Tame(disk, disk')
        BY <1>0, <2>1, <2>3, DoneIsTame
      <3> QED BY <1>0, <1>4, <2>3, <3>1, UpPackages DEF HooksDone, Tame, crashVars, Up
    <2> QED BY <1>4, <2>2, <2>3 DEF HooksDone
  <1>5. CASE StartSilentDownload
    <2>1. /\ Tame(disk, disk') /\ disk'.current = disk.current
          /\ disk'.blocked = disk.blocked
      BY <1>0, <1>5 DEF StartSilentDownload, Tame, FirstOf, Disks
    <2>2. UNCHANGED <<pc, hooks, importing, exiting, slipped>> /\ check' = NoCheck
      BY <1>5 DEF StartSilentDownload, crashVars
    <2>3. PendingIsFit'
      BY <2>1, <2>2, PendingStep DEF Tame
    <2>4. DownloadIsFit'
      <3>1. CASE exiting
        <4>1. loading' = None
          BY <1>5, <3>1 DEF StartSilentDownload
        <4> QED BY <2>1, <2>2, <4>1, UpgradesToAVersion, NoneIsNoVersion,
                   NoneIsNotBlocked DEF DownloadIsFit
      <3>2. CASE ~exiting
        <4>1. check.on /\ loading' \in check.offers
          BY <1>5, <3>2 DEF StartSilentDownload
        <4> QED BY <2>1, <2>2, <3>2, <4>1 DEF Packages, OffersAreFit, DownloadIsFit
      <3> QED BY <3>1, <3>2
    <2>5. /\ ImportIsFit' /\ OffersAreFit' /\ HooksAreOfCurrent' /\ FirstOf(disk')
          /\ DownIsIdle'
      BY <1>0, <1>5, <2>1, <2>2
         DEF Packages, ImportIsFit, OffersAreFit, HooksAreOfCurrent, DownIsIdle,
             NoCheck, Tame, Up, StartSilentDownload
    <2> QED BY <2>3, <2>4, <2>5 DEF Packages
  <1>6. CASE NothingOffered \/ ImportFails \/ UserWrites
    <2>1. Tame(disk, disk) /\ disk' = disk
      BY <1>6 DEF NothingOffered, ImportFails, UserWrites, Tame
    <2> QED BY <1>0, <1>6, <2>1, UpPackages
            DEF NothingOffered, ImportFails, UserWrites, service, crashVars, Up
  <1>7. CASE CheckFails \/ DownloadFails
    <2>1. Tame(disk, disk') /\ disk'.current = disk.current
      BY <1>0, <1>7 DEF CheckFails, DownloadFails, Tame, FirstOf, Disks
    <2> QED BY <1>0, <1>7, <2>1, UpPackages DEF CheckFails, DownloadFails, Tame, crashVars, Up
  <1>8. CASE Downloaded
    <2>1. loading \in Versions
      BY <1>8 DEF Downloaded, TypeOK
    <2>2. CASE Cut("extract", ExtractCut(disk, loading), Restart)
      BY <1>0, <2>1, <2>2, CutPackages, ExtractIsTame
    <2>3. CASE /\ disk' = Extracted(disk, loading) /\ loading' = None
               /\ UNCHANGED <<pc, hooks, check, importing, exiting, crashVars>>
      <3>1. /\ disk'.pending = loading /\ disk'.blocked = disk.blocked /\ FirstOf(disk')
            /\ disk'.current = disk.current
        BY <1>0, <2>1, <2>3, ExtractIsTame, ExtractEffect
      <3> QED BY <1>8, <2>3, <3>1, UpPackages DEF Downloaded, crashVars, Up
    <2> QED BY <1>8, <2>2, <2>3 DEF Downloaded
  <1>9. CASE ImportBegin
    <2>1. importing' \notin disk.blocked
      <3>1. importing' \in Versions /\ NewerThanBlocked(disk, importing')
        BY <1>9 DEF ImportBegin
      <3> QED BY <3>1, NewerIsNotBlocked
    <2>2. UNCHANGED <<disk, pc, hooks, check, loading, exiting, slipped>>
      BY <1>9 DEF ImportBegin, crashVars
    <2> QED BY <1>9, <2>1, <2>2
            DEF Packages, PendingIsFit, Fit, ImportIsFit, DownloadIsFit, OffersAreFit,
                HooksAreOfCurrent, DownIsIdle, Up, ImportBegin
  <1>10. CASE ImportEnd
    <2>1. importing \in Versions
      BY <1>10 DEF ImportEnd, TypeOK
    <2>2. CASE Cut("extract", ExtractCut(disk, importing), Restart)
      BY <1>0, <2>1, <2>2, CutPackages, ExtractIsTame
    <2>3. CASE /\ disk' = Extracted(disk, importing) /\ importing' = None
               /\ UNCHANGED <<pc, hooks, check, loading, exiting, crashVars>>
      <3>1. /\ disk'.pending = importing /\ disk'.blocked = disk.blocked /\ FirstOf(disk')
            /\ disk'.current = disk.current
        BY <1>0, <2>1, <2>3, ExtractIsTame, ExtractEffect
      <3> QED BY <1>10, <2>3, <3>1, UpPackages DEF ImportEnd, crashVars, Up
    <2> QED BY <1>10, <2>2, <2>3 DEF ImportEnd
  <1>11. CASE ApplyPendingUpdate
    <2>1. Tame(disk, disk') /\ disk'.current = disk.current
      BY <1>0, <1>11 DEF ApplyPendingUpdate, SetPendingVersion, Tame, FirstOf, Disks
    <2> QED BY <1>0, <1>11, <2>1, UpPackages DEF ApplyPendingUpdate, Tame, crashVars, Up
  <1>12. CASE RollbackUpdate
    <2>1. CASE Cut("rollback", RollbackCut(disk), Restart)
      BY <1>0, <2>1, CutPackages, RollbackIsTame
    <2>2. CASE /\ disk' = RolledBack(disk) /\ exiting' = TRUE
               /\ UNCHANGED <<pc, hooks, check, loading, importing, crashVars>>
      <3>1. Tame(disk, disk')
        BY <1>0, <2>2, RollbackIsTame
      <3> QED BY <1>0, <1>12, <2>2, <3>1, UpPackages DEF RollbackUpdate, Tame, crashVars, Up
    <2> QED BY <1>12, <2>1, <2>2 DEF RollbackUpdate
  <1> QED BY <1>1, <1>2, <1>3, <1>4, <1>5, <1>6, <1>7, <1>8, <1>9, <1>10, <1>11, <1>12
          DEF Served

LEMMA PackagesStep ==
  ASSUME TypeOK, Packages, [Next]_vars
  PROVE  Packages'
  <1>0. TypeOK'
    BY TypesStep
  <1>1. CASE Scripted
    BY <1>0, <1>1, ScriptedPackages
  <1>2. CASE Served
    BY <1>0, <1>2, ServedPackages
  <1>3. CASE Exit \/ Crash
    <2>1. disk' = disk /\ slipped' = slipped /\ Gone(Restart)
      BY <1>3 DEF Exit, Crash, crashVars
    <2>2. PendingIsFit' /\ FirstOf(disk')
      BY <2>1 DEF Packages, PendingIsFit, Fit
    <2> QED BY <1>0, <2>1, <2>2, DownPackages DEF Gone
  <1>4. CASE UpgradeImage \/ UNCHANGED vars
    <2>1. UNCHANGED <<disk, pc, hooks, check, loading, importing, exiting, slipped>>
      BY <1>4 DEF UpgradeImage, vars, service, crashVars
    <2> QED BY <2>1 DEF Packages, PendingIsFit, Fit, ImportIsFit, DownloadIsFit,
               OffersAreFit, HooksAreOfCurrent, DownIsIdle, Up
  <1> QED BY <1>1, <1>2, <1>3, <1>4 DEF Next

-----------------------------------------------------------------------------
(***************************************************************************)
(* Ways back.  A version in use that is blocked, and not fit, is one the   *)
(* rollback had no alternative to: nothing else is saved or backed up.  An *)
(* activation, which would save it, brings a fit version into use.  The    *)
(* pointers name slots that are there, but for a seeding cut short; the    *)
(* boot pointer differs from the state file after a script cut short, and  *)
(* then names a version of the image, or the saved one, or is overwritten  *)
(* before the next start.                                                  *)
(***************************************************************************)
Barred(v) == v \in disk.blocked \ Fit
Held(d, v) == v # None => Present(d, v)
Unseeded == "seed" \in cut /\ pc = "ensure" /\ BootVersion(disk) = None
WillActivate ==
    \/ /\ pc \in {"ensure", "activate"}
       /\ Present(disk, disk.pending) /\ ~NeedsBaseRefresh(disk, disk.pending)
    \/ pc = "ensure" /\ image > BootVersion(disk)

SlotsAreThere ==
    /\ disk.current = None => disk.saved = None /\ disk.backup = None
    /\ ~Unseeded => Held(disk, disk.boot) /\ Held(disk, disk.current)
    /\ ~Unseeded /\ disk.current \notin Images =>
           Held(disk, disk.saved) /\ (disk.saved = None => Held(disk, disk.backup))
NoWayBack ==
    Barred(disk.current) =>
        /\ disk.saved \in {None, disk.current}
        /\ disk.saved = None => disk.backup \in {None, disk.current}
BootIsKnown ==
    disk.boot \notin {None, disk.current} /\ ~Unseeded =>
        disk.boot \in Images \/ Fallback(disk) = disk.boot \/ WillActivate
RunsDirectory ==
    Up /\ ~exiting =>
        running = IF disk.boot # None THEN disk.boot ELSE disk.current

Ways == SlotsAreThere /\ NoWayBack /\ BootIsKnown /\ RunsDirectory
WaysKept == "extract" \notin cut => Ways

SamePlaces(d, e) ==
    /\ e.boot = d.boot /\ e.current = d.current
    /\ e.saved = d.saved /\ e.backup = d.backup
SlotsGrow(d, e) == \A v \in Versions : Present(d, v) => Present(e, v)
Keeps(d, e) == SamePlaces(d, e) /\ SlotsGrow(d, e)

LEMMA GrowsAt ==
  ASSUME NEW d \in Disks, NEW e \in Disks, NEW v \in Versions,
         Present(d, v) => Present(e, v), NEW t, e.slot = [d.slot EXCEPT ![v] = t]
  PROVE  SlotsGrow(d, e)
  BY DEF SlotsGrow, Present, Disks

LEMMA CopyKeeps ==
  ASSUME NEW d \in Disks, NEW v \in Versions
  PROVE  LET c == Copied(d, v)
         IN  /\ c \in Disks /\ SameButSlots(d, c) /\ Keeps(d, c)
             /\ c.slot[v] = Tree
  <1> DEFINE c == Copied(d, v)
  <1>1. c \in Disks /\ SameButSlots(d, c) /\ c.slot = [d.slot EXCEPT ![v] = Tree]
    BY SlotWrites
  <1> HIDE DEF c
  <1>2. c.slot[v] = Tree
    BY <1>1 DEF Disks
  <1>3. Present(c, v)
    BY <1>2, TreeIsATree, NoneIsNoVersion DEF Present
  <1>4. SlotsGrow(d, c)
    BY <1>1, <1>3, GrowsAt
  <1> QED BY <1>1, <1>2, <1>4 DEF Keeps, SamePlaces, SameButSlots, c

\* A slot is copied only where none passes verification.
LEMMA StageKeeps ==
  ASSUME NEW d \in Disks, NEW v \in Versions
  PROVE  Keeps(d, Staged(d, v)) /\ \A e \in StageCut(d, v) : Keeps(d, e)
  <1> DEFINE f == FlushPendingUpdateState(d)
             g == IF Present(d, v) THEN Marked(f, v) ELSE Copied(f, v)
  <1>1. f \in Disks /\ SamePlaces(d, f) /\ f.slot = d.slot
    <2>1. f \in Disks
      BY FlushTypes DEF Like
    <2>2. f.boot = d.boot /\ f.current = d.current /\ f.saved = d.saved
          /\ f.backup = d.backup /\ f.slot = d.slot
      BY DEF FlushPendingUpdateState, Disks
    <2> QED BY <2>1, <2>2 DEF SamePlaces
  <1>2. \A u : Present(f, u) <=> Present(d, u)
    BY <1>1 DEF Present
  <1>3. \A e : Keeps(f, e) => Keeps(d, e)
    BY <1>1, <1>2 DEF Keeps, SamePlaces, SlotsGrow
  <1>4. StageCut(d, v) \subseteq {f, g} \cup IF Present(d, v) THEN {}
                                             ELSE CopySeedTree(f, v)
    BY DEF StageCut, f
  <1>5. Staged(d, v) = SetPendingVersion(g, v)
    BY DEF Staged, f
  <1> HIDE DEF f
  <1>6. g \in Disks /\ Keeps(f, g)
    <2>1. CASE Present(d, v)
      <3> DEFINE m == Marked(f, v)
      <3>1. /\ m \in Disks /\ SameButSlots(f, m)
            /\ m.slot = [f.slot EXCEPT ![v] = f.slot[v] \cup {"marker"}]
        BY <1>1, <1>2, <2>1, SlotWrites
      <3> HIDE DEF m
      <3>2. m.slot[v] = f.slot[v] \cup {"marker"}
        BY <1>1, <3>1 DEF Disks
      <3>3. Present(m, v)
        BY <3>2, NoneIsNoVersion DEF Present
      <3>4. SlotsGrow(f, m)
        BY <1>1, <3>1, <3>3, GrowsAt
      <3>5. Keeps(f, m)
        BY <3>1, <3>4 DEF Keeps, SamePlaces, SameButSlots
      <3> QED BY <2>1, <3>1, <3>5 DEF m
    <2>2. CASE ~Present(d, v)
      <3>1. Copied(f, v) \in Disks /\ Keeps(f, Copied(f, v))
        BY <1>1, CopyKeeps
      <3> QED BY <2>2, <3>1
    <2> QED BY <2>1, <2>2
  <1>7. ASSUME ~Present(d, v), NEW e \in CopySeedTree(f, v)
        PROVE  Keeps(f, e)
    <2>1. PICK t \in Trees : e = WithSlot(f, v, t)
      BY <1>7 DEF CopySeedTree
    <2>2. /\ e \in Disks /\ SameButSlots(f, e)
          /\ e.slot = [f.slot EXCEPT ![v] = t]
      BY <1>1, <2>1, SlotWrite
    <2>3. SlotsGrow(f, e)
      BY <1>1, <1>2, <1>7, <2>2, GrowsAt
    <2> QED BY <2>2, <2>3 DEF Keeps, SamePlaces, SameButSlots
  <1>8. Keeps(f, f)
    BY DEF Keeps, SamePlaces, SlotsGrow
  <1> HIDE DEF g
  <1>9. Keeps(f, Staged(d, v))
    <2>1. SamePlaces(g, Staged(d, v)) /\ Staged(d, v).slot = g.slot
      BY <1>5, <1>6 DEF SetPendingVersion, SamePlaces, Disks
    <2> QED BY <1>6, <2>1 DEF Keeps, SamePlaces, SlotsGrow, Present
  <1> QED BY <1>3, <1>4, <1>6, <1>7, <1>8, <1>9

LEMMA SeedMoves ==
  ASSUME NEW d \in Disks, NEW v \in Versions
  PROVE  /\ Seeded(d, v).saved = d.saved /\ Seeded(d, v).backup = d.backup
         /\ SlotsGrow(d, Seeded(d, v)) /\ Seeded(d, v).slot[v] = Tree
         /\ \A e \in SeedCut(d, v) :
              /\ e.current = d.current /\ e.saved = d.saved /\ e.backup = d.backup
              /\ \/ e.boot = d.boot
                 \/ e.boot = v /\ e.slot[v] = Tree /\ SlotsGrow(d, e)
                 \/ e.boot = None
  <1> DEFINE c == Copied(d, v)
             s == [c EXCEPT !.boot = v, !.current = v, !.ui = "normal", !.first = None]
             n == [c EXCEPT !.boot = None]
             b == [c EXCEPT !.boot = v]
  <1>1. c \in Disks /\ SamePlaces(d, c) /\ SlotsGrow(d, c) /\ c.slot[v] = Tree
    <2>1. c \in Disks /\ Keeps(d, c) /\ c.slot[v] = Tree
      BY CopyKeeps
    <2> HIDE DEF c
    <2> QED BY <2>1 DEF Keeps
  <1>2. \A e \in CopySeedTree(d, v) : SamePlaces(d, e)
    <2>1. \A e \in CopySeedTree(d, v) : SameButSlots(d, e)
      BY SlotWrites
    <2> QED BY <2>1 DEF SamePlaces, SameButSlots
  <1>3. Seeded(d, v) = s /\ SeedCut(d, v) \subseteq {n, b} \cup CopySeedTree(d, v)
    BY DEF Seeded, SeedCut, PointBoot, c, s, n, b
  <1> HIDE DEF c
  <1>4. /\ s.saved = c.saved /\ s.backup = c.backup /\ s.slot = c.slot
        /\ n.current = c.current /\ n.saved = c.saved /\ n.backup = c.backup
        /\ b.current = c.current /\ b.saved = c.saved /\ b.backup = c.backup
        /\ n.boot = None /\ b.boot = v /\ b.slot = c.slot
    BY <1>1 DEF Disks
  <1> HIDE DEF s, n, b
  <1>5. SlotsGrow(d, s) /\ SlotsGrow(d, b)
    BY <1>1, <1>4 DEF SlotsGrow, Present
  <1> QED BY <1>1, <1>2, <1>3, <1>4, <1>5 DEF SamePlaces

LEMMA ActivateMoves ==
  ASSUME NEW d \in Disks
  PROVE  /\ Activated(d).boot = d.pending /\ Activated(d).current = d.pending
         /\ Activated(d).saved = IF Replaces(d) THEN d.current ELSE d.saved
         /\ ~Replaces(d) => Activated(d).backup = d.backup
         /\ \A e \in ActivateCut(d) :
              /\ e.current = d.current /\ e.saved = d.saved
              /\ e.boot \in {d.boot, None, d.pending}
              /\ \/ e.backup = d.backup
                 \/ BacksUp(d) /\ e.backup \in {None, d.current}
  <1> DEFINE b == BackedUp(d)
             saved == IF Replaces(d) THEN d.current ELSE b.saved
  <1>1. /\ b.current = d.current /\ b.saved = d.saved
        /\ b.backup = d.backup \/ (BacksUp(d) /\ b.backup = d.current)
        /\ b \in Disks
    <2>1. CASE BacksUp(d)
      BY <2>1 DEF BackedUp, BacksUp, Replaces, Disks
    <2>2. CASE ~BacksUp(d)
      <3>1. b = d
        BY <2>2 DEF BackedUp
      <3> HIDE DEF b
      <3> QED BY <3>1
    <2> QED BY <2>1, <2>2
  <1>2. ~Replaces(d) => b.backup = d.backup
    BY DEF BackedUp, BacksUp
  <1>3. Activated(d) = [b EXCEPT !.boot = d.pending, !.current = d.pending,
                                 !.pending = None, !.saved = saved,
                                 !.ui = "hooks", !.first = d.pending]
    BY DEF Activated, BackedUp, Disks
  <1>4. BacksUp(d) => \A e \in PointBackup(d, d.current) :
            /\ e.boot = d.boot /\ e.current = d.current /\ e.saved = d.saved
            /\ e.backup \in {None, d.current}
    BY DEF PointBackup, Disks
  <1> HIDE DEF b
  <1>5. \A e \in PointBoot(b, d.pending) :
            /\ e.current = b.current /\ e.saved = b.saved /\ e.backup = b.backup
            /\ e.boot \in {None, d.pending}
    BY <1>1 DEF PointBoot, Disks
  <1>6. saved = IF Replaces(d) THEN d.current ELSE d.saved
    BY <1>1
  <1> HIDE DEF saved
  <1>7. /\ Activated(d).boot = d.pending /\ Activated(d).current = d.pending
        /\ Activated(d).saved = saved /\ Activated(d).backup = b.backup
    BY <1>1, <1>3 DEF Disks
  <1> QED BY <1>1, <1>2, <1>4, <1>5, <1>6, <1>7 DEF ActivateCut, b

LEMMA RollbackMoves ==
  ASSUME NEW d \in Disks
  PROVE  /\ RolledBack(d).boot = Fallback(d) /\ RolledBack(d).current = Fallback(d)
         /\ RolledBack(d).saved = Fallback(d) /\ RolledBack(d).slot = d.slot
         /\ \A e \in RollbackCut(d) :
              /\ e.current = d.current /\ e.saved = d.saved /\ e.backup = d.backup
              /\ e.slot = d.slot /\ e.blocked = d.blocked
              /\ e.boot \in {None, Fallback(d)}
  BY DEF RolledBack, RollbackCut, PointBoot, Disks

\* Where the pointers are when a rollback is through, with nothing to go back
\* to, and cut short.
Back(d, e) ==
    /\ Fallback(d) # None
    /\ e.boot = Fallback(d) /\ e.current = Fallback(d) /\ e.saved = Fallback(d)
Stuck(d, e) == SamePlaces(d, e) /\ (Fallback(d) = None \/ e.blocked = d.blocked)
Moving(d, e) ==
    /\ Fallback(d) # None /\ e.boot \in {None, Fallback(d)}
    /\ e.current = d.current /\ e.saved = d.saved /\ e.backup = d.backup
    /\ e.blocked = d.blocked

LEMMA FailMoves ==
  ASSUME NEW d \in Disks, NEW v \in Versions
  PROVE  /\ Failed(d, v).slot = d.slot
         /\ Back(d, Failed(d, v)) \/ Stuck(d, Failed(d, v))
         /\ \A e \in FailCut(d, v) :
              e.slot = d.slot /\ (Back(d, e) \/ Stuck(d, e) \/ Moving(d, e))
  <1> DEFINE r == Restored(d)
             b == BlockVersion(r, v)
  <1>1. r \in Disks /\ r.slot = d.slot
        /\ (Back(d, r) \/ (SamePlaces(d, r) /\ Fallback(d) = None))
    <2>1. r \in Disks
      BY RollbackTypes DEF Like
    <2>2. CASE Fallback(d) # None
      <3>1. r = RolledBack(d)
        BY <2>2 DEF Restored
      <3> HIDE DEF r
      <3> QED BY <2>1, <2>2, <3>1, RollbackMoves DEF Back
    <2>3. CASE Fallback(d) = None
      BY <2>1, <2>3 DEF Restored, SamePlaces
    <2> QED BY <2>2, <2>3
  <1>2. d.slot = d.slot /\ Stuck(d, d)
    BY DEF Stuck, SamePlaces
  <1>3. \A e \in RollbackCut(d) : Fallback(d) # None => e.slot = d.slot /\ Moving(d, e)
    BY RollbackMoves DEF Moving
  <1>4. FailCut(d, v) \subseteq {d, r, b} \cup IF Fallback(d) # None
                                               THEN RollbackCut(d) ELSE {}
    BY DEF FailCut, r, b
  <1>5. Failed(d, v) = [b EXCEPT !.pending = None, !.ui = "normal", !.first = None]
    BY DEF Failed, r, b
  <1> HIDE DEF r
  <1>6. b \in Disks /\ b.slot = r.slot /\ SamePlaces(r, b)
    <2>1. b \in Disks
      BY <1>1, SmallWrites DEF Like
    <2> QED BY <1>1, <2>1 DEF BlockVersion, SamePlaces, Disks
  <1> HIDE DEF b
  <1>7. Failed(d, v).slot = b.slot /\ SamePlaces(b, Failed(d, v))
    BY <1>5, <1>6 DEF SamePlaces, Disks
  <1>8. \A e : e.slot = r.slot /\ SamePlaces(r, e) =>
                 e.slot = d.slot /\ (Back(d, e) \/ Stuck(d, e))
    BY <1>1 DEF Back, Stuck, SamePlaces
  <1>9. SamePlaces(r, r) /\ SamePlaces(r, Failed(d, v))
    BY <1>6, <1>7 DEF SamePlaces
  <1> QED BY <1>2, <1>3, <1>4, <1>6, <1>7, <1>8, <1>9

LEMMA ExtractKeeps ==
  ASSUME NEW d \in Disks, NEW v \in Versions
  PROVE  Keeps(d, Extracted(d, v))
  <1> DEFINE c == Copied(d, v)
  <1>1. c \in Disks /\ Keeps(d, c)
    BY CopyKeeps
  <1>2. Extracted(d, v) = [c EXCEPT !.pending = v, !.ui = "normal", !.job = "done"]
    BY DEF Extracted, c
  <1> HIDE DEF c
  <1>3. SamePlaces(c, Extracted(d, v)) /\ Extracted(d, v).slot = c.slot
    BY <1>1, <1>2 DEF SamePlaces, Disks
  <1> QED BY <1>1, <1>3 DEF Keeps, SamePlaces, SlotsGrow, Present

LEMMA DoneKeeps ==
  ASSUME NEW d \in Disks, NEW from, NEW v \in Versions
  PROVE  Keeps(d, Upgraded(d, from, v)) /\ \A e \in DoneCut(d, v) : Keeps(d, e)
  <1> DEFINE m == MarkedDone(d)
             c == ClearBlockedUpTo(m, v)
  <1>1. m \in Disks /\ SamePlaces(d, m) /\ m.slot = d.slot
    BY DEF MarkedDone, SamePlaces, Disks
  <1> HIDE DEF m
  <1>2. c \in Disks /\ SamePlaces(d, c) /\ c.slot = d.slot
    BY <1>1, SmallWrites DEF Like, ClearBlockedUpTo, SamePlaces, Disks
  <1>3. \A e \in DoneCut(d, v) : SamePlaces(d, e) /\ e.slot = d.slot
    BY <1>1, <1>2 DEF DoneCut, m, c
  <1>4. Upgraded(d, from, v) = [c EXCEPT !.snaps = @ \ {<<from, v>>}]
    BY DEF Upgraded, m, c
  <1> HIDE DEF c
  <1>5. SamePlaces(d, Upgraded(d, from, v)) /\ Upgraded(d, from, v).slot = d.slot
    BY <1>2, <1>4 DEF SamePlaces, Disks
  <1> QED BY <1>3, <1>5 DEF Keeps, SlotsGrow, Present

LEMMA HeldGrows ==
  ASSUME NEW d \in Disks, NEW e \in Disks, SlotsGrow(d, e),
         NEW v \in Versions \cup {None}, Held(d, v)
  PROVE  Held(e, v)
  BY DEF Held, SlotsGrow

LEMMA PresentExists ==
  ASSUME NEW d, NEW v, Present(d, v)
  PROVE  Exists(d, v)
  BY DEF Present, Exists

LEMMA FallbackGrows ==
  ASSUME NEW d \in Disks, NEW e \in Disks, SlotsGrow(d, e),
         e.saved = d.saved, e.backup = d.backup, Fallback(d) # None
  PROVE  Fallback(e) = Fallback(d)
  <1>1. d.saved \in Versions \cup {None} /\ d.backup \in Versions \cup {None}
    BY DEF Disks
  <1>2. \A v \in Versions \cup {None} : Present(d, v) => Present(e, v) /\ Exists(e, v)
    BY PresentExists DEF Present, SlotsGrow
  <1>3. CASE d.saved # None
    BY <1>1, <1>2, <1>3 DEF Fallback
  <1>4. CASE d.saved = None
    <2>1. Present(d, d.backup) /\ Exists(d, d.backup)
      BY <1>4, PresentExists DEF Fallback, BackupVersion, Present
    <2> QED BY <1>1, <1>2, <1>4, <2>1 DEF Fallback, BackupVersion
  <1> QED BY <1>3, <1>4

LEMMA KeptBack ==
  ASSUME NoWayBack, disk'.current = disk.current, disk'.saved = disk.saved,
         disk'.backup = disk.backup, disk'.blocked \subseteq disk.blocked,
         slipped \subseteq slipped'
  PROVE  NoWayBack'
  BY DEF NoWayBack, Barred, Fit

LEMMA KeptSlots ==
  ASSUME TypeOK, TypeOK', SlotsAreThere, ~Unseeded, Keeps(disk, disk')
  PROVE  SlotsAreThere'
  <1>1. /\ disk \in Disks /\ disk' \in Disks
        /\ disk.boot \in Versions \cup {None} /\ disk.current \in Versions \cup {None}
        /\ disk.saved \in Versions \cup {None} /\ disk.backup \in Versions \cup {None}
    BY DEF TypeOK, Disks
  <1>2. \A v \in Versions \cup {None} : Held(disk, v) => Held(disk', v)
    BY <1>1, HeldGrows DEF Keeps
  <1> QED BY <1>1, <1>2 DEF SlotsAreThere, Keeps, SamePlaces

LEMMA KeptBoot ==
  ASSUME TypeOK, TypeOK', BootIsKnown, ~Unseeded, Keeps(disk, disk'),
         WillActivate => WillActivate'
  PROVE  BootIsKnown'
  <1>1. disk \in Disks /\ disk' \in Disks
    BY DEF TypeOK
  <1>2. Fallback(disk) # None => Fallback(disk') = Fallback(disk)
    BY <1>1, FallbackGrows DEF Keeps, SamePlaces
  <1> QED BY <1>1, <1>2 DEF BootIsKnown, Keeps, SamePlaces

\* A step that leaves the pointers, takes no slot away and blocks nothing.
LEMMA KeptWays ==
  ASSUME TypeOK, TypeOK', Ways, ~Unseeded, Keeps(disk, disk'),
         disk'.blocked \subseteq disk.blocked, slipped \subseteq slipped',
         WillActivate => WillActivate', RunsDirectory'
  PROVE  Ways'
  BY KeptBack, KeptSlots, KeptBoot DEF Ways, Keeps, SamePlaces

LEMMA UpIsSettled ==
  ASSUME Up
  PROVE  ~Unseeded /\ ~WillActivate
  BY DEF Up, Unseeded, WillActivate

\* Such a step of the server, or its stop.
LEMMA ServedWays ==
  ASSUME TypeOK, TypeOK', Ways, Up, Keeps(disk, disk'),
         disk'.blocked \subseteq disk.blocked, slipped \subseteq slipped',
         \/ pc' = pc /\ running' = running /\ exiting' \in {exiting, TRUE}
         \/ pc' \in Restart
  PROVE  Ways'
  <1>1. RunsDirectory'
    <2>1. CASE pc' \in Restart
      BY <2>1 DEF RunsDirectory, Up, Restart
    <2>2. CASE pc' = pc /\ running' = running /\ exiting' \in {exiting, TRUE}
      BY <2>2 DEF Ways, RunsDirectory, Up, Keeps, SamePlaces, TypeOK
    <2> QED BY <2>1, <2>2
  <1> QED BY <1>1, UpIsSettled, KeptWays

LEMMA FallbackIsThere ==
  ASSUME NEW d \in Disks, Fallback(d) # None
  PROVE  Fallback(d) \in Versions /\ Present(d, Fallback(d))
  <1>1. Fallback(d) \in Versions \cup {None}
    BY RollbackTypes
  <1> QED BY <1>1 DEF Fallback

LEMMA BackWays ==
  ASSUME TypeOK, TypeOK', Back(disk, disk'), disk'.slot = disk.slot,
         Up' => exiting'
  PROVE  Ways'
  <1> DEFINE f == Fallback(disk)
  <1>1. /\ f # None /\ Present(disk', f)
        /\ disk'.boot = f /\ disk'.current = f /\ disk'.saved = f
    BY FallbackIsThere DEF Back, Present, TypeOK
  <1> HIDE DEF f
  <1>2. SlotsAreThere'
    BY <1>1 DEF SlotsAreThere, Held
  <1>3. NoWayBack' /\ BootIsKnown' /\ RunsDirectory'
    BY <1>1 DEF NoWayBack, BootIsKnown, RunsDirectory
  <1> QED BY <1>2, <1>3 DEF Ways

LEMMA StuckWays ==
  ASSUME TypeOK, TypeOK', Ways, Up, Stuck(disk, disk'), disk'.slot = disk.slot,
         slipped \subseteq slipped', Up' => exiting'
  PROVE  Ways'
  <1>1. Keeps(disk, disk') /\ RunsDirectory' /\ ~Unseeded /\ ~WillActivate
    BY UpIsSettled DEF Stuck, Keeps, SlotsGrow, Present, RunsDirectory
  <1>2. CASE disk'.blocked = disk.blocked
    BY <1>1, <1>2, KeptWays
  <1>3. CASE Fallback(disk) = None
    <2>1. SlotsAreThere' /\ BootIsKnown'
      BY <1>1, KeptSlots, KeptBoot DEF Ways
    <2>2. ASSUME disk.current \notin Images
          PROVE  disk.saved = None /\ disk.backup = None
      BY <1>1, <1>3, <2>2, PresentExists
         DEF Ways, SlotsAreThere, Held, Fallback, BackupVersion
    <2>3. NoWayBack'
      BY <1>1, <2>2 DEF NoWayBack, Barred, Fit, Keeps, SamePlaces
    <2> QED BY <1>1, <2>1, <2>3 DEF Ways
  <1> QED BY <1>2, <1>3 DEF Stuck

LEMMA MovingWays ==
  ASSUME TypeOK, TypeOK', Ways, Up, Moving(disk, disk'), disk'.slot = disk.slot,
         slipped \subseteq slipped', ~Up'
  PROVE  Ways'
  <1>1. disk \in Disks /\ disk' \in Disks /\ ~Unseeded
    BY UpIsSettled DEF TypeOK
  <1>2. /\ Present(disk', Fallback(disk))
        /\ \A v \in Versions \cup {None} : Held(disk, v) => Held(disk', v)
    BY <1>1, FallbackIsThere DEF Moving, Present, Held
  <1>3. SlotsAreThere'
    <2>1. Held(disk', disk'.boot)
      BY <1>2 DEF Moving, Held
    <2>2. /\ disk.current \in Versions \cup {None} /\ disk.saved \in Versions \cup {None}
          /\ disk.backup \in Versions \cup {None}
      BY <1>1 DEF Disks
    <2> QED BY <1>1, <1>2, <2>1, <2>2 DEF Ways, SlotsAreThere, Moving
  <1>4. NoWayBack'
    BY KeptBack DEF Ways, Moving
  <1>5. Fallback(disk') = Fallback(disk)
    BY <1>1, FallbackGrows DEF Moving, SlotsGrow, Present
  <1>6. BootIsKnown' /\ RunsDirectory'
    BY <1>5 DEF BootIsKnown, RunsDirectory, Moving
  <1> QED BY <1>3, <1>4, <1>6 DEF Ways

LEMMA SeedWays ==
  ASSUME TypeOK, TypeOK', WaysKept, "extract" \notin cut', SeedCurrentSlot
  PROVE  Ways'
  <1>0. /\ disk \in Disks /\ disk' \in Disks /\ image \in Versions /\ image \in Images
        /\ pc = "ensure" /\ BootVersion(disk) = None /\ image # None
    BY NoneIsNoVersion DEF TypeOK, SeedCurrentSlot
  <1>1. Ways /\ slipped' = slipped
    BY DEF WaysKept, SeedCurrentSlot, Cut, crashVars
  <1>2. CASE disk' = Seeded(disk, image) /\ pc' = "activate"
    <2>1. /\ disk'.boot = image /\ disk'.current = image /\ disk'.slot[image] = Tree
      BY <1>0, <1>2, SeedEffect, SeedMoves
    <2>2. SlotsAreThere'
      BY <1>0, <2>1, TreeIsATree DEF SlotsAreThere, Held, Present
    <2>3. NoWayBack' /\ BootIsKnown' /\ RunsDirectory'
      BY <1>0, <1>2, <2>1 DEF NoWayBack, Barred, Fit, BootIsKnown, RunsDirectory, Up
    <2> QED BY <2>2, <2>3 DEF Ways
  <1>3. CASE Cut("seed", SeedCut(disk, image), {"ensure"})
    <2>1. pc' = "ensure" /\ "seed" \notin cut /\ "seed" \in cut' /\ disk' \in SeedCut(disk, image)
      BY <1>3 DEF Cut, Gone
    <2>2. /\ disk'.current = disk.current /\ disk'.saved = disk.saved
          /\ disk'.backup = disk.backup /\ disk'.blocked \subseteq disk.blocked
          /\ \/ disk'.boot = disk.boot
             \/ disk'.boot = image /\ disk'.slot[image] = Tree /\ SlotsGrow(disk, disk')
             \/ disk'.boot = None
      BY <1>0, <2>1, SeedMoves, SeedIsTame DEF Tame
    <2>3. disk.boot = None
      BY <1>0, <1>1, <2>1, PresentExists
         DEF Ways, SlotsAreThere, Unseeded, Held, BootVersion
    <2>4. NoWayBack' /\ RunsDirectory'
      BY <1>1, <2>1, <2>2, KeptBack DEF Ways, RunsDirectory, Up
    <2>5. CASE disk'.boot = None
      <3>1. Unseeded'
        BY <2>1, <2>5 DEF Unseeded, BootVersion
      <3>2. SlotsAreThere' /\ BootIsKnown'
        BY <1>1, <2>2, <2>5, <3>1 DEF Ways, SlotsAreThere, BootIsKnown
      <3> QED BY <2>4, <3>2 DEF Ways
    <2>6. CASE disk'.boot = image /\ disk'.slot[image] = Tree /\ SlotsGrow(disk, disk')
      <3>1. \A v \in Versions \cup {None} : Held(disk, v) => Held(disk', v)
        BY <1>0, <2>6, HeldGrows
      <3>2. Held(disk', disk'.boot) /\ ~Unseeded
        BY <2>1, <2>6, TreeIsATree DEF Held, Present, Unseeded
      <3>3. /\ disk.current \in Versions \cup {None} /\ disk.saved \in Versions \cup {None}
            /\ disk.backup \in Versions \cup {None}
        BY <1>0 DEF Disks
      <3>4. SlotsAreThere'
        BY <1>1, <2>2, <3>1, <3>2, <3>3 DEF Ways, SlotsAreThere
      <3>5. BootIsKnown'
        BY <1>0, <2>6 DEF BootIsKnown
      <3> QED BY <2>4, <3>4, <3>5 DEF Ways
    <2> QED BY <2>2, <2>3, <2>5, <2>6
  <1> QED BY <1>2, <1>3 DEF SeedCurrentSlot

LEMMA StageWays ==
  ASSUME TypeOK, TypeOK', WaysKept, "extract" \notin cut', StageSeedVersionAsPending
  PROVE  Ways'
  <1>0. /\ disk \in Disks /\ disk' \in Disks /\ image \in Versions /\ image \in Nat
        /\ pc = "ensure" /\ BootVersion(disk) # None /\ image > BootVersion(disk)
        /\ image' = image
    BY DEF TypeOK, StageSeedVersionAsPending, Cut, Versions
  <1>1. Ways /\ ~Unseeded /\ slipped' = slipped
    BY <1>0 DEF WaysKept, StageSeedVersionAsPending, Cut, crashVars, Unseeded
  <1>2. CASE disk' = Staged(disk, image) /\ pc' = "activate"
    <2>1. /\ Keeps(disk, disk') /\ disk'.pending = image /\ Present(disk', image)
          /\ disk'.blocked = disk.blocked
      BY <1>0, <1>2, StageKeeps, StageEffect, StageIsTame
    <2>2. ~NeedsBaseRefresh(disk, image)'
      BY <1>0 DEF NeedsBaseRefresh
    <2>3. WillActivate'
      BY <1>0, <1>2, <2>1, <2>2 DEF WillActivate
    <2>4. RunsDirectory'
      BY <1>2 DEF RunsDirectory, Up
    <2> QED BY <1>1, <2>1, <2>3, <2>4, KeptWays
  <1>3. CASE Cut("stage", StageCut(disk, image), {"ensure"})
    <2>1. pc' = "ensure" /\ disk' \in StageCut(disk, image)
      BY <1>3 DEF Cut, Gone
    <2>2. Keeps(disk, disk') /\ disk'.blocked \subseteq disk.blocked
      BY <1>0, <2>1, StageKeeps, StageIsTame DEF Tame
    <2>3. BootVersion(disk') = BootVersion(disk)
      <3>1. disk.boot \in Versions /\ Present(disk, disk.boot)
        BY <1>0, <1>1 DEF Ways, SlotsAreThere, Held, BootVersion, Disks
      <3>2. Exists(disk, disk.boot) /\ Exists(disk', disk.boot)
        BY <2>2, <3>1, PresentExists DEF Keeps, SlotsGrow
      <3> QED BY <2>2, <3>2 DEF BootVersion, Keeps, SamePlaces
    <2>4. WillActivate'
      BY <1>0, <2>1, <2>3 DEF WillActivate
    <2>5. RunsDirectory'
      BY <2>1 DEF RunsDirectory, Up
    <2> QED BY <1>1, <2>2, <2>4, <2>5, KeptWays
  <1> QED BY <1>2, <1>3 DEF StageSeedVersionAsPending

LEMMA ActivateWays ==
  ASSUME TypeOK, TypeOK', Packages, WaysKept, "extract" \notin cut', ActivatePending
  PROVE  Ways'
  <1> DEFINE p == disk.pending
             c == disk.current
  <1>0. /\ disk \in Disks /\ disk' \in Disks /\ image' = image
        /\ Present(disk, p) /\ ~NeedsBaseRefresh(disk, p) /\ p # None /\ p \in Versions
        /\ pc \in {"activate", "again"}
    BY DEF TypeOK, ActivatePending, Cut, Present, Disks
  <1>1. Ways /\ ~Unseeded /\ slipped' = slipped
    BY <1>0 DEF WaysKept, ActivatePending, Cut, crashVars, Unseeded
  <1>2. /\ Held(disk, disk.boot) /\ Held(disk, c)
        /\ c = None => disk.saved = None /\ disk.backup = None
        /\ c \notin Images => Held(disk, disk.saved)
                              /\ (disk.saved = None => Held(disk, disk.backup))
    BY <1>1 DEF Ways, SlotsAreThere
  <1>3. CASE disk' = Activated(disk) /\ pc' = "start"
    <2>1. /\ disk'.boot = p /\ disk'.current = p /\ disk'.slot = disk.slot
          /\ disk'.saved = IF Replaces(disk) THEN c ELSE disk.saved
          /\ ~Replaces(disk) => disk'.backup = disk.backup
      BY <1>0, <1>3, ActivateEffect, ActivateMoves
    <2>2. \A v : Held(disk, v) => Held(disk', v)
      BY <2>1 DEF Held, Present
    <2>3. Held(disk, p)
      BY <1>0 DEF Held
    <2>4. SlotsAreThere'
      <3>1. CASE Replaces(disk)
        BY <1>0, <1>2, <2>1, <2>2, <2>3, <3>1 DEF SlotsAreThere, Replaces
      <3>2. CASE ~Replaces(disk)
        <4>1. /\ disk'.saved = disk.saved /\ disk'.backup = disk.backup
              /\ c \in {None, p}
          BY <2>1, <3>2 DEF Replaces
        <4>2. Held(disk, None)
          BY DEF Held
        <4> QED BY <1>0, <1>2, <2>1, <2>2, <2>3, <4>1, <4>2 DEF SlotsAreThere
      <3> QED BY <3>1, <3>2
    <2>5. ~Barred(disk.current)'
      <3>1. disk'.blocked \subseteq disk.blocked
        BY <1>0, <1>3, ActivateIsTame DEF Tame
      <3> QED BY <1>1, <2>1, <3>1 DEF Barred, Packages, PendingIsFit, Fit
    <2>6. NoWayBack' /\ BootIsKnown' /\ RunsDirectory'
      BY <1>3, <2>1, <2>5 DEF NoWayBack, BootIsKnown, RunsDirectory, Up
    <2> QED BY <2>4, <2>6 DEF Ways
  <1>4. CASE Cut("activate", ActivateCut(disk), {"ensure"})
    <2>1. pc' = "ensure" /\ disk' \in ActivateCut(disk)
      BY <1>4 DEF Cut, Gone
    <2>2. /\ disk'.current = c /\ disk'.saved = disk.saved
          /\ disk'.boot \in {disk.boot, None, p}
          /\ \/ disk'.backup = disk.backup
             \/ BacksUp(disk) /\ disk'.backup \in {None, c}
          /\ disk'.slot = disk.slot /\ disk'.pending = p
          /\ disk'.blocked \subseteq disk.blocked
      BY <1>0, <2>1, ActivateMoves, ActivateEffect, ActivateIsTame DEF Tame
    <2>3. \A v : Held(disk, v) => Held(disk', v)
      BY <2>2 DEF Held, Present
    <2>4. Held(disk, None) /\ Held(disk, p)
      BY <1>0 DEF Held
    <2>5. BacksUp(disk) => c # None
      BY DEF BacksUp, Replaces
    <2>6. SlotsAreThere'
      BY <1>2, <2>2, <2>3, <2>4, <2>5 DEF SlotsAreThere
    <2>7. NoWayBack'
      <3>1. Barred(c)' => Barred(c)
        BY <1>1, <2>2 DEF Barred, Fit
      <3> QED BY <1>1, <2>2, <3>1 DEF Ways, NoWayBack
    <2>8. WillActivate'
      BY <1>0, <2>1, <2>2 DEF WillActivate, Present, NeedsBaseRefresh
    <2>9. BootIsKnown' /\ RunsDirectory'
      BY <2>1, <2>8 DEF BootIsKnown, RunsDirectory, Up
    <2> QED BY <2>6, <2>7, <2>9 DEF Ways
  <1> QED BY <1>3, <1>4 DEF ActivatePending

LEMMA ScriptedWays ==
  ASSUME TypeOK, TypeOK', Packages, WaysKept, "extract" \notin cut', Scripted
  PROVE  Ways'
  <1>0. disk \in Disks /\ disk' \in Disks /\ image \in Nat /\ BootVersion(disk) \in Nat
    BY DEF TypeOK, Disks, BootVersion, Versions, None
  <1>1. CASE SeedCurrentSlot
    BY <1>1, SeedWays
  <1>2. CASE StageSeedVersionAsPending
    BY <1>2, StageWays
  <1>3. CASE ActivatePending
    BY <1>3, ActivateWays
  <1>4. CASE \/ ImageNotNewer \/ NothingToActivate \/ ActivateThrows
             \/ PrintBootThrows \/ StartFails
    <2>1. /\ disk' = disk /\ image' = image /\ cut' = cut /\ slipped' = slipped
          /\ pc' # "up"
      BY <1>4 DEF ImageNotNewer, NothingToActivate, ActivateThrows, PrintBootThrows,
                  StartFails, Restart, crashVars
    <2>2. Ways
      BY <2>1 DEF WaysKept
    <2>3. ~Unseeded
      BY <1>4 DEF ImageNotNewer, NothingToActivate, ActivateThrows, PrintBootThrows,
                  StartFails, Unseeded
    <2>4. WillActivate => WillActivate'
      <3>1. CASE ImageNotNewer
        BY <1>0, <2>1, <3>1 DEF ImageNotNewer, WillActivate, NeedsBaseRefresh
      <3>2. CASE NothingToActivate \/ ActivateThrows \/ PrintBootThrows \/ StartFails
        BY <3>2 DEF NothingToActivate, ActivateThrows, PrintBootThrows, StartFails,
                    WillActivate, Present
      <3> QED BY <1>4, <3>1, <3>2
    <2>5. Keeps(disk, disk') /\ RunsDirectory'
      BY <2>1 DEF Keeps, SamePlaces, SlotsGrow, RunsDirectory, Up
    <2> QED BY <2>1, <2>2, <2>3, <2>4, <2>5, KeptWays
  <1>5. CASE Start
    <2>1. /\ disk'.boot = disk.boot /\ disk'.current = disk.current
          /\ disk'.saved = disk.saved /\ disk'.backup = disk.backup
          /\ disk'.slot = disk.slot /\ disk'.blocked = disk.blocked
      BY <1>0, <1>5 DEF Start, Disks
    <2>2. /\ running' = BootDirectory(disk) /\ BootDirectory(disk) # None
          /\ pc = "start" /\ cut' = cut /\ slipped' = slipped
      BY <1>5 DEF Start, crashVars
    <2>3. Ways /\ ~Unseeded /\ ~WillActivate
      BY <2>2 DEF WaysKept, Unseeded, WillActivate
    <2>4. Keeps(disk, disk')
      BY <2>1 DEF Keeps, SamePlaces, SlotsGrow, Present
    <2>5. RunsDirectory'
      <3>1. Held(disk, disk.boot)
        BY <2>3 DEF Ways, SlotsAreThere
      <3> QED BY <2>1, <2>2, <3>1, PresentExists
              DEF RunsDirectory, Held, BootDirectory, BootVersion
    <2> QED BY <2>1, <2>2, <2>3, <2>4, <2>5, KeptWays
  <1> QED BY <1>1, <1>2, <1>3, <1>4, <1>5 DEF Scripted

LEMMA ServedKeepWays ==
  ASSUME TypeOK, TypeOK', WaysKept, "extract" \notin cut', Served
  PROVE  Ways'
  <1>0. disk \in Disks
    BY DEF TypeOK
  <1>1. Up /\ "extract" \notin cut
    BY DEF Served, HooksProgress, HooksDone, HooksFail, CheckBegin, StartSilentDownload,
           NothingOffered, CheckFails, Downloaded, DownloadFails, ImportBegin, ImportEnd,
           ImportFails, ApplyPendingUpdate, RollbackUpdate, UserWrites, Cut, crashVars
  <1>2. Ways
    BY <1>1 DEF WaysKept
  <1>3. \A left : ~Cut("extract", left, Restart)
    BY DEF Cut
  <1>4. CASE HooksProgress \/ CheckBegin \/ StartSilentDownload \/ NothingOffered
             \/ CheckFails \/ DownloadFails \/ ImportBegin \/ ImportFails \/ UserWrites
             \/ ApplyPendingUpdate
    <2>1. /\ disk'.boot = disk.boot /\ disk'.current = disk.current
          /\ disk'.saved = disk.saved /\ disk'.backup = disk.backup
          /\ disk'.slot = disk.slot /\ disk'.blocked = disk.blocked
      BY <1>0, <1>4, ZenonT(30) DEF HooksProgress, CheckBegin, ClearBlockedPending,
             StartSilentDownload, NothingOffered, CheckFails, DownloadFails, ImportBegin,
             ImportFails, UserWrites, ApplyPendingUpdate, SetPendingVersion, Disks
    <2>2. /\ pc' = pc /\ running' = running /\ exiting' \in {exiting, TRUE}
          /\ slipped' = slipped
      BY <1>4 DEF HooksProgress, CheckBegin, StartSilentDownload, NothingOffered,
             CheckFails, DownloadFails, ImportBegin, ImportFails, UserWrites,
             ApplyPendingUpdate, service, crashVars
    <2>3. Keeps(disk, disk')
      BY <2>1 DEF Keeps, SamePlaces, SlotsGrow, Present
    <2> QED BY <1>1, <1>2, <2>1, <2>2, <2>3, ServedWays
  <1>5. CASE HooksDone
    <2>1. hooks.to \in Versions
      BY <1>5, UpgradesToAVersion DEF HooksDone
    <2>2. Keeps(disk, disk') /\ disk'.blocked \subseteq disk.blocked
      BY <1>0, <1>5, <2>1, DoneKeeps, DoneIsTame DEF HooksDone, Cut, Tame
    <2>3. /\ slipped' = slipped
          /\ \/ pc' = pc /\ running' = running /\ exiting' = TRUE
             \/ pc' \in Restart
      BY <1>5 DEF HooksDone, Cut, Gone, crashVars
    <2> QED BY <1>1, <1>2, <2>2, <2>3, ServedWays
  <1>6. CASE HooksFail
    <2>1. hooks.to \in Versions
      BY <1>6, UpgradesToAVersion DEF HooksFail
    <2>2. slipped \subseteq slipped' /\ (Up' => exiting')
      BY <1>6 DEF HooksFail, Cut, Gone, Restart, Up
    <2>3. CASE disk' = Failed(disk, hooks.to)
      <3>1. /\ disk'.slot = disk.slot
            /\ Back(disk, disk') \/ Stuck(disk, disk')
        BY <1>0, <2>1, <2>3, FailMoves
      <3> QED BY <1>1, <1>2, <2>2, <3>1, BackWays, StuckWays
    <2>4. CASE Cut("rollback", FailCut(disk, hooks.to), Restart)
      <3>1. /\ disk'.slot = disk.slot
            /\ Back(disk, disk') \/ Stuck(disk, disk') \/ Moving(disk, disk')
        BY <1>0, <2>1, <2>4, FailMoves DEF Cut
      <3>2. ~Up'
        BY <2>4 DEF Cut, Gone, Restart, Up
      <3> QED BY <1>1, <1>2, <2>2, <3>1, <3>2, BackWays, StuckWays, MovingWays
    <2> QED BY <1>6, <2>3, <2>4 DEF HooksFail
  <1>7. CASE RollbackUpdate
    <2>1. Fallback(disk) # None /\ slipped' = slipped
      BY <1>7 DEF RollbackUpdate, Cut, crashVars
    <2>2. CASE disk' = RolledBack(disk) /\ exiting' = TRUE
      <3>1. Back(disk, disk') /\ disk'.slot = disk.slot
        BY <1>0, <2>1, <2>2, RollbackMoves DEF Back
      <3> QED BY <2>2, <3>1, BackWays
    <2>3. CASE Cut("rollback", RollbackCut(disk), Restart)
      <3>1. Moving(disk, disk') /\ disk'.slot = disk.slot
        BY <1>0, <2>1, <2>3, RollbackMoves DEF Cut, Moving
      <3>2. ~Up'
        BY <2>3 DEF Cut, Gone, Restart, Up
      <3> QED BY <1>1, <1>2, <2>1, <3>1, <3>2, MovingWays
    <2> QED BY <1>7, <2>2, <2>3 DEF RollbackUpdate
  <1>8. CASE Downloaded \/ ImportEnd
    <2>1. PICK v \in Versions : disk' = Extracted(disk, v)
      BY <1>3, <1>8 DEF Downloaded, ImportEnd, TypeOK
    <2>2. Keeps(disk, disk') /\ disk'.blocked = disk.blocked
      BY <1>0, <2>1, ExtractKeeps, ExtractIsTame
    <2>3. pc' = pc /\ running' = running /\ exiting' = exiting /\ slipped' = slipped
      BY <1>3, <1>8 DEF Downloaded, ImportEnd, crashVars
    <2> QED BY <1>1, <1>2, <2>2, <2>3, ServedWays
  <1> QED BY <1>4, <1>5, <1>6, <1>7, <1>8 DEF Served

LEMMA WaysStep ==
  ASSUME TypeOK, Packages, WaysKept, [Next]_vars
  PROVE  WaysKept'
  <1> SUFFICES ASSUME "extract" \notin cut' PROVE Ways'
    BY DEF WaysKept
  <1>0. TypeOK'
    BY TypesStep
  <1>1. CASE Scripted
    BY <1>0, <1>1, ScriptedWays
  <1>2. CASE Served
    BY <1>0, <1>2, ServedKeepWays
  <1>3. CASE Exit \/ Crash
    <2>1. /\ Ways /\ Up /\ disk' = disk /\ slipped' = slipped /\ pc' \in Restart
      BY <1>3 DEF Exit, Crash, Gone, crashVars, WaysKept
    <2>2. Keeps(disk, disk')
      BY <2>1 DEF Keeps, SamePlaces, SlotsGrow
    <2> QED BY <1>0, <2>1, <2>2, ServedWays
  <1>4. CASE UpgradeImage
    <2>1. /\ Ways /\ disk' = disk /\ slipped' = slipped /\ pc' = pc /\ cut' = cut
          /\ pc = "ensure" /\ image' > image /\ image \in Nat /\ image' \in Nat
          /\ BootVersion(disk) \in Nat
      BY <1>4 DEF UpgradeImage, service, crashVars, WaysKept, TypeOK, Disks,
                  BootVersion, Versions, None
    <2>2. /\ SlotsAreThere' /\ NoWayBack' /\ RunsDirectory'
          /\ Unseeded' <=> Unseeded
      BY <2>1 DEF Ways, SlotsAreThere, NoWayBack, Barred, Fit, RunsDirectory, Up, Unseeded
    <2>3. WillActivate => WillActivate'
      <3>1. \A v \in Nat : image > v => image' > v
        BY <2>1
      <3>2. disk.pending \in Nat
        BY DEF TypeOK, Disks, Versions, None
      <3>3. \A v \in Nat : v > image' => v > image
        BY <2>1
      <3> QED BY <2>1, <3>1, <3>2, <3>3 DEF WillActivate, NeedsBaseRefresh
    <2>4. BootIsKnown'
      BY <2>1, <2>2, <2>3 DEF Ways, BootIsKnown
    <2> QED BY <2>2, <2>4 DEF Ways
  <1>5. CASE UNCHANGED vars
    BY <1>5 DEF vars, WaysKept, Ways, SlotsAreThere, NoWayBack, Barred, Fit, BootIsKnown,
                RunsDirectory, Unseeded, WillActivate, NeedsBaseRefresh, Up
  <1> QED BY <1>1, <1>2, <1>3, <1>4, <1>5 DEF Next

LEMMA InitWays == Init => WaysKept
  <1> SUFFICES ASSUME Init PROVE Ways
    BY DEF WaysKept
  <1>1. /\ disk.boot = None /\ disk.current = None /\ disk.saved = None
        /\ disk.backup = None /\ disk.blocked = {} /\ pc = "ensure"
    BY DEF Init
  <1> QED BY <1>1 DEF Ways, SlotsAreThere, NoWayBack, Barred, BootIsKnown,
             RunsDirectory, Held, Up

\* A version whose first boot failed does not run again before a newer one has
\* succeeded, as long as there is another to fall back to, unless the image
\* brings it back or an import that began before it failed.
THEOREM BlockedNeverRuns == Spec => []NoBlockedRuns
  <1>1. Init => TypeOK /\ Packages /\ WaysKept
    BY InitTypes, InitPackages, InitWays
  <1>2. TypeOK /\ Packages /\ WaysKept /\ [Next]_vars => TypeOK' /\ Packages' /\ WaysKept'
    BY TypesStep, PackagesStep, WaysStep
  <1>3. TypeOK /\ WaysKept => NoBlockedRuns
    <2> SUFFICES ASSUME TypeOK, Ways, Up, ~exiting, running \in disk.blocked,
                        running \notin Fit
                 PROVE  Fallback(disk) \in {None, running}
      BY DEF NoBlockedRuns, WaysKept, Fit
    <2>1. running = IF disk.boot # None THEN disk.boot ELSE disk.current
      BY DEF Ways, RunsDirectory
    <2>2. CASE running = disk.current
      BY <2>2 DEF Ways, NoWayBack, Barred, Fallback, BackupVersion
    <2>3. CASE running = disk.boot /\ disk.boot \notin {None, disk.current}
      BY <2>3, UpIsSettled DEF Ways, BootIsKnown, Fit
    <2> QED BY <2>1, <2>2, <2>3
  <1> QED BY <1>1, <1>2, <1>3, PTL DEF Spec

=============================================================================
