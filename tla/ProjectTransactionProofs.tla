---------------------- MODULE ProjectTransactionProofs ----------------------
(* Theorems about ProjectTransaction, for any number of writers and readers   *)
(* and whatever bytes they publish.  Three invariants carry them: where the   *)
(* writer that has the guard stands (Base, whatever goes wrong), which pair   *)
(* the directory stands for (OldInv, while no power is lost), and which pairs *)
(* a power loss may choose from (ImageInv, while no sync fails).              *)
EXTENDS ProjectTransaction, TLAPS

Has == disk.pending # NoJournal
Open == Has /\ ~disk.pending.committed
Marked == Has /\ disk.pending.committed

(* One writer has the guard, and no reader of the guard file.                 *)
Guarded ==
    /\ exclusive = {w \in Writers : pc[w] # "idle"}
    /\ \A v, w \in Writers : pc[v] # "idle" /\ pc[w] # "idle" => v = w
    /\ exclusive # {} => shared = {}

(* Places of a publication, from its journal to its end.                      *)
Restoring == {"restoreManifest", "syncRestoredManifest", "restoreLock", "syncRestoredLock"}
Replacing == {"putManifest", "syncManifest", "putLock", "syncLock", "mark"}
Journalling == Replacing \cup {"syncStage", "syncMark", "detach", "undo", "syncUndo"}
Replaced == {"syncLock", "mark", "syncMark", "detach", "syncDetach", "done"}

(* The calls a writer is in.                                                  *)
Calling(w) ==
    /\ pc[w] = "idle" <=> goal[w] = "none"
    /\ goal[w] = "commit" => plan[w] # NoPlan
    /\ pc[w] \in Journalling \cup Cleaning \cup {"stage"} => goal[w] = "commit"

(* The journal at each place.                                                 *)
Journalled(w) ==
    /\ pc[w] \in Restoring \cup Replacing \cup {"syncStage", "syncUndo"} => Open
    /\ pc[w] \in {"discard", "undo"} => Has
    /\ pc[w] \in {"syncMark", "detach"} => Marked
    /\ pc[w] \in {"syncDiscard", "ready", "stage", "syncDetach", "done"} => ~Has
    /\ goal[w] = "undone" => ~Marked

(* The files at each place.                                                   *)
Restored(w) ==
    /\ pc[w] \in {"syncRestoredManifest", "restoreLock", "syncRestoredLock"} =>
          disk.manifest = disk.pending.before.manifest
    /\ pc[w] = "syncRestoredLock" => disk.lock = disk.pending.before.lock
    /\ pc[w] = "discard" /\ Open => PairOf(disk) = disk.pending.before

Published(w) ==
    /\ pc[w] = "stage" => PairOf(disk) = plan[w].base
    /\ pc[w] \in Journalling =>
          /\ disk.pending.before = attempt.before
          /\ attempt.before = plan[w].base /\ attempt.after = plan[w].new
    /\ pc[w] \in {"syncStage", "putManifest"} => PairOf(disk) = attempt.before
    /\ pc[w] \in {"syncManifest", "putLock"} => disk.manifest = attempt.after.manifest
    /\ pc[w] \in Replaced => PairOf(disk) = attempt.after
    /\ pc[w] = "undo" /\ Marked => PairOf(disk) = attempt.after
    /\ Staged(w) => attempt.outcome = "open"

Position(w) == Calling(w) /\ Journalled(w) /\ Restored(w) /\ Published(w)

Base == TypeOK /\ Guarded /\ \A w \in Writers : Position(w)

(* While no power is lost: a journal holds the pair before the last           *)
(* publication, a marked one stands beside the pair after it.                 *)
OldInv ==
    /\ Has => disk.pending.before = attempt.before
    /\ Marked => PairOf(disk) = attempt.after
    /\ ~Has => PairOf(disk) \in {attempt.before, attempt.after}

(* While moreover no marker is stuck, a failure leaves the pair before.       *)
FailedInv ==
    /\ attempt.outcome = "failed" => Accepted(disk) = attempt.before
    /\ \A w \in Writers : goal[w] = "undone" => Accepted(disk) = attempt.before

(* A reader with the guard reads a complete pair.                             *)
Reads ==
    \A r \in Readers :
        /\ r \in shared /\ reading[r] \in {"lock", "guarded", "manifest", "using"} => ~Has
        /\ r \in shared /\ reading[r] = "manifest" => seen[r].lock = disk.lock
        /\ r \in shared /\ reading[r] = "using" => seen[r] \in Pair

(* Journals that speak for the files when they are found.                     *)
Speaks(j) == j # NoJournal /\ ~j.committed
Settled == \E j \in kept.pending : ~Speaks(j)
Single == kept.manifest = {disk.manifest} /\ kept.lock = {disk.lock}

(* What a power loss may find.                                                *)
Found ==
    /\ \A j \in kept.pending : Speaks(j) => j.before \in candidates
    /\ Settled => Single /\ PairOf(disk) \in candidates
    /\ Settled /\ Open => disk.pending.before = PairOf(disk)

Place(w) ==
    /\ pc[w] = "syncStage" =>
          \A j \in kept.pending : SameJournal(j, disk.pending) => j = disk.pending
    /\ pc[w] \in Replacing \cup {"undo"} => kept.pending = {disk.pending}
    /\ pc[w] \in {"restoreLock", "syncRestoredLock", "discard"} =>
          kept.manifest = {disk.manifest}
    /\ pc[w] = "discard" => kept.lock = {disk.lock}
    /\ pc[w] \in {"putManifest", "syncManifest", "putLock"} => kept.lock = {disk.lock}
    /\ pc[w] = "putManifest" => kept.manifest = {disk.manifest}
    /\ pc[w] \in {"putLock", "syncLock", "mark"} => kept.manifest = {disk.manifest}
    /\ pc[w] = "mark" => kept.lock = {disk.lock}
    /\ pc[w] \in Journalling => attempt.after \in candidates
    /\ pc[w] = "undo" => Open
    /\ pc[w] # "syncUndo"
    /\ pc[w] = "syncMark" => \A j \in kept.pending : SameJournal(j, disk.pending)
    /\ pc[w] \in {"detach", "syncDetach", "done"} => \A j \in kept.pending : ~Speaks(j)

Survives(pair) ==
    \A j \in kept.pending : IF Speaks(j) THEN j.before = pair ELSE PairOf(disk) = pair

ImageInv ==
    /\ Found
    /\ \A w \in Writers : Place(w)
    /\ attempt.outcome = "ok" =>
          (\A j \in kept.pending : ~Speaks(j)) /\ PairOf(disk) = attempt.after
    /\ attempt.outcome = "failed" => Survives(attempt.before)
    /\ \A w \in Writers : goal[w] = "undone" => Survives(attempt.before)

-----------------------------------------------------------------------------
(* The three entries of the directory, and what may survive of them.          *)
Disks == [manifest : Manifests, lock : Locks \cup {NoLock}, pending : Journal \cup {NoJournal}]
Kepts == [manifest : SUBSET Manifests, lock : SUBSET (Locks \cup {NoLock}),
          pending : SUBSET (Journal \cup {NoJournal})]
FilesOK == disk \in Disks /\ kept \in Kepts /\ disk \in Images

LEMMA FilesTyped == TypeOK => FilesOK
    BY DEF TypeOK, FilesOK, Disks, Kepts

LEMMA DiskFacts ==
    ASSUME FilesOK
    PROVE  /\ disk.manifest \in Manifests /\ disk.lock \in Locks \cup {NoLock}
           /\ disk.pending \in Journal \cup {NoJournal}
           /\ kept.manifest \in SUBSET Manifests /\ kept.lock \in SUBSET (Locks \cup {NoLock})
           /\ kept.pending \in SUBSET (Journal \cup {NoJournal})
           /\ disk.manifest \in kept.manifest /\ disk.lock \in kept.lock
           /\ disk.pending \in kept.pending
           /\ PairOf(disk) \in Pair
           /\ Has => disk.pending \in Journal /\ disk.pending.before \in Pair
           /\ PairOf(disk).manifest = disk.manifest /\ PairOf(disk).lock = disk.lock
<1>1. /\ disk.manifest \in Manifests /\ disk.lock \in Locks \cup {NoLock}
      /\ disk.pending \in Journal \cup {NoJournal}
    BY DEF FilesOK, Disks
<1>2. /\ kept.manifest \in SUBSET Manifests /\ kept.lock \in SUBSET (Locks \cup {NoLock})
      /\ kept.pending \in SUBSET (Journal \cup {NoJournal})
    BY DEF FilesOK, Kepts
<1>3. /\ disk.manifest \in kept.manifest /\ disk.lock \in kept.lock
      /\ disk.pending \in kept.pending
    BY DEF FilesOK, Images
<1>4. PairOf(disk) \in Pair
    BY <1>1 DEF PairOf, Pair
<1>5. Has => disk.pending \in Journal /\ disk.pending.before \in Pair
    BY <1>1 DEF Has, Journal
<1> QED
    BY <1>1, <1>2, <1>3, <1>4, <1>5 DEF PairOf

LEMMA PutsManifest ==
    ASSUME FilesOK, NEW v \in Manifests, Put("manifest", v)
    PROVE  /\ disk'.manifest = v /\ disk'.lock = disk.lock /\ disk'.pending = disk.pending
           /\ kept'.manifest = kept.manifest \cup {v} /\ kept'.lock = kept.lock
           /\ kept'.pending = kept.pending /\ FilesOK'
<1>1. /\ disk'.manifest = v /\ disk'.lock = disk.lock /\ disk'.pending = disk.pending
      /\ disk' \in Disks
    BY DEF FilesOK, Disks, Put
<1>2. /\ kept'.manifest = kept.manifest \cup {v} /\ kept'.lock = kept.lock
      /\ kept'.pending = kept.pending /\ kept' \in Kepts
    BY DEF FilesOK, Kepts, Put
<1>3. disk' \in Images'
    BY <1>1, <1>2, DiskFacts DEF Images, Disks
<1> QED
    BY <1>1, <1>2, <1>3 DEF FilesOK

LEMMA PutsLock ==
    ASSUME FilesOK, NEW v \in Locks \cup {NoLock}, Put("lock", v)
    PROVE  /\ disk'.manifest = disk.manifest /\ disk'.lock = v /\ disk'.pending = disk.pending
           /\ kept'.manifest = kept.manifest /\ kept'.lock = kept.lock \cup {v}
           /\ kept'.pending = kept.pending /\ FilesOK'
<1>1. /\ disk'.manifest = disk.manifest /\ disk'.lock = v /\ disk'.pending = disk.pending
      /\ disk' \in Disks
    BY DEF FilesOK, Disks, Put
<1>2. /\ kept'.manifest = kept.manifest /\ kept'.lock = kept.lock \cup {v}
      /\ kept'.pending = kept.pending /\ kept' \in Kepts
    BY DEF FilesOK, Kepts, Put
<1>3. disk' \in Images'
    BY <1>1, <1>2, DiskFacts DEF Images, Disks
<1> QED
    BY <1>1, <1>2, <1>3 DEF FilesOK

LEMMA PutsPending ==
    ASSUME FilesOK, NEW v \in Journal \cup {NoJournal}, Put("pending", v)
    PROVE  /\ disk'.manifest = disk.manifest /\ disk'.lock = disk.lock /\ disk'.pending = v
           /\ kept'.manifest = kept.manifest /\ kept'.lock = kept.lock
           /\ kept'.pending = kept.pending \cup {v} /\ FilesOK'
<1>1. /\ disk'.manifest = disk.manifest /\ disk'.lock = disk.lock /\ disk'.pending = v
      /\ disk' \in Disks
    BY DEF FilesOK, Disks, Put
<1>2. /\ kept'.manifest = kept.manifest /\ kept'.lock = kept.lock
      /\ kept'.pending = kept.pending \cup {v} /\ kept' \in Kepts
    BY DEF FilesOK, Kepts, Put
<1>3. disk' \in Images'
    BY <1>1, <1>2, DiskFacts DEF Images, Disks
<1> QED
    BY <1>1, <1>2, <1>3 DEF FilesOK

LEMMA SyncsProject ==
    ASSUME FilesOK, SyncProject, disk' = disk
    PROVE  /\ kept'.manifest = {disk.manifest} /\ kept'.lock = {disk.lock}
           /\ kept'.pending = {j \in kept.pending : SameJournal(j, disk.pending)}
           /\ FilesOK'
<1>1. /\ kept'.manifest = {disk.manifest} /\ kept'.lock = {disk.lock}
      /\ kept'.pending = {j \in kept.pending : SameJournal(j, disk.pending)}
    BY DEF SyncProject
<1>2. kept' \in Kepts
    BY <1>1, DiskFacts DEF SyncProject, Kepts
<1>3. disk.pending \in kept'.pending
    BY <1>1, DiskFacts DEF SameJournal
<1>4. disk' \in Images'
    BY <1>1, <1>3 DEF Images, FilesOK, Disks
<1> QED
    BY <1>1, <1>2, <1>4 DEF FilesOK

LEMMA SyncsJournal ==
    ASSUME FilesOK, SyncJournal, disk' = disk
    PROVE  /\ kept'.manifest = kept.manifest /\ kept'.lock = kept.lock
           /\ kept'.pending =
                 {j \in kept.pending : SameJournal(j, disk.pending) => j = disk.pending}
           /\ FilesOK'
<1>1. /\ kept'.manifest = kept.manifest /\ kept'.lock = kept.lock
      /\ kept'.pending =
            {j \in kept.pending : SameJournal(j, disk.pending) => j = disk.pending}
      /\ kept' \in Kepts
    BY DEF SyncJournal, FilesOK, Kepts
<1>2. disk' \in Images'
    BY <1>1, DiskFacts DEF Images, FilesOK, Disks
<1> QED
    BY <1>1, <1>2 DEF FilesOK

LEMMA LosesPower ==
    ASSUME FilesOK, PowerLoss
    PROVE  /\ disk'.manifest \in kept.manifest /\ disk'.lock \in kept.lock
           /\ disk'.pending \in kept.pending
           /\ kept'.manifest = {disk'.manifest} /\ kept'.lock = {disk'.lock}
           /\ kept'.pending = {disk'.pending} /\ FilesOK'
<1>1. /\ disk'.manifest \in kept.manifest /\ disk'.lock \in kept.lock
      /\ disk'.pending \in kept.pending
      /\ disk' \in Disks
    BY DiskFacts DEF PowerLoss, Images, Disks
<1>2. DOMAIN disk = {"manifest", "lock", "pending"}
    BY DEF FilesOK, Disks
<1>3. kept' = [e \in {"manifest", "lock", "pending"} |-> {disk'[e]}]
    BY <1>2 DEF PowerLoss
<1>4. /\ kept'.manifest = {disk'.manifest} /\ kept'.lock = {disk'.lock}
      /\ kept'.pending = {disk'.pending}
    BY <1>3
<1>5. kept' \in Kepts
    BY <1>1, <1>3, <1>4, DiskFacts DEF Kepts
<1>6. disk' \in Images'
    BY <1>1, <1>4 DEF Images, Disks
<1> QED
    BY <1>1, <1>4, <1>5, <1>6 DEF FilesOK

-----------------------------------------------------------------------------
(* Who moves, and who stands still.                                           *)
LEMMA StandsStill == ASSUME NEW w, pc'[w] = "idle", goal'[w] = "none" PROVE Position(w)'
<1>1. ~Staged(w)'
    BY DEF Staged, Publishing, Cleaning
<1>2. Calling(w)'
    BY DEF Calling, Journalling, Replacing, Cleaning
<1>3. Journalled(w)' /\ Restored(w)'
    BY DEF Journalled, Restored, Restoring, Replacing
<1>4. Published(w)'
    BY <1>1 DEF Published, Journalling, Replacing, Replaced
<1> QED
    BY <1>2, <1>3, <1>4 DEF Position

LEMMA Alone ==
    ASSUME Base, NEW w \in Writers, pc[w] # "idle"
    PROVE  /\ w \in exclusive /\ shared = {}
           /\ \A v \in Writers \ {w} : pc[v] = "idle" /\ goal[v] = "none"
    BY DEF Base, Guarded, Position, Calling

LEMMA Remains ==
    ASSUME Base, NEW w \in Writers, pc[w] # "idle", NEW to \in Steps, to # "idle",
           Goto(w, to), UNCHANGED <<exclusive, shared>>,
           \A v \in Writers \ {w} : goal'[v] = goal[v]
    PROVE  /\ pc'[w] = to /\ pc' \in [Writers -> Steps] /\ Guarded'
           /\ \A v \in Writers \ {w} : Position(v)'
<1>1. pc \in [Writers -> Steps]
    BY DEF Base, TypeOK
<1>2. /\ pc'[w] = to /\ pc' \in [Writers -> Steps]
      /\ \A v \in Writers \ {w} : pc'[v] = pc[v]
    BY <1>1 DEF Goto
<1>3. Guarded'
    BY <1>2 DEF Base, Guarded
<1>4. \A v \in Writers \ {w} : Position(v)'
    BY <1>2, Alone, StandsStill
<1> QED
    BY <1>2, <1>3, <1>4

LEMMA Ends ==
    ASSUME Base, NEW w \in Writers, pc[w] # "idle", Goto(w, "idle"),
           exclusive' = exclusive \ {w}, shared' = shared,
           goal' = [goal EXCEPT ![w] = "none"]
    PROVE  /\ pc' \in [Writers -> Steps]
           /\ goal' \in [Writers -> {"none", "preview", "commit", "undone"}]
           /\ exclusive' \subseteq Writers /\ Guarded' /\ \A v \in Writers : Position(v)'
           /\ \A v \in Writers : pc'[v] = "idle" /\ goal'[v] = "none"
<1>1. /\ pc \in [Writers -> Steps]
      /\ goal \in [Writers -> {"none", "preview", "commit", "undone"}]
      /\ exclusive \subseteq Writers /\ "idle" \in Steps
    BY DEF Base, TypeOK, Steps
<1>2. /\ pc' \in [Writers -> Steps]
      /\ goal' \in [Writers -> {"none", "preview", "commit", "undone"}]
      /\ exclusive' \subseteq Writers
    BY <1>1 DEF Goto
<1>3. \A v \in Writers : pc'[v] = "idle" /\ goal'[v] = "none"
    BY <1>1, Alone DEF Goto
<1>4. Guarded'
    BY <1>3 DEF Base, Guarded
<1>5. \A v \in Writers : Position(v)'
    BY <1>3, StandsStill
<1> QED
    BY <1>2, <1>3, <1>4, <1>5


LEMMA TypeFrame ==
    ASSUME TypeOK, FilesOK', UNCHANGED reader,
           guardFile' \in BOOLEAN, exclusive' \subseteq Writers, shared' \subseteq Readers,
           pc' \in [Writers -> Steps],
           goal' \in [Writers -> {"none", "preview", "commit", "undone"}],
           plan' \in [Writers -> Plan \cup {NoPlan}],
           attempt' \in [before : Pair, after : Pair, outcome : {"open", "ok", "failed", "stuck"}],
           candidates' \subseteq Pair
    PROVE  TypeOK'
    BY DEF TypeOK, FilesOK, Disks, Kepts, reader

LEMMA Stepped ==
    ASSUME Base, NEW w \in Writers, NEW from, NEW to \in Steps, from # "idle", to # "idle",
           Step(w, from, to), FilesOK'
    PROVE  /\ TypeOK' /\ Guarded' /\ \A v \in Writers \ {w} : Position(v)'
           /\ pc[w] = from /\ pc'[w] = to
           /\ UNCHANGED <<goal, plan, attempt, candidates, shared, exclusive>>
           /\ Position(w) /\ FilesOK
<1>1. /\ pc[w] = from /\ Goto(w, to)
      /\ UNCHANGED <<goal, plan, attempt, candidates, shared, exclusive, guardFile>>
      /\ UNCHANGED reader
    BY DEF Step, guards, ghosts
<1>2. /\ Guarded' /\ pc' \in [Writers -> Steps] /\ pc'[w] = to
      /\ \A v \in Writers \ {w} : Position(v)'
    BY <1>1, Remains
<1>3. TypeOK /\ Position(w) /\ FilesOK
    BY FilesTyped DEF Base
<1>4. TypeOK'
    BY <1>1, <1>2, <1>3, TypeFrame DEF TypeOK
<1> QED
    BY <1>1, <1>2, <1>3, <1>4

LEMMA Moved ==
    ASSUME NEW w \in Writers, TypeOK', Guarded', Position(w)',
           \A v \in Writers \ {w} : Position(v)'
    PROVE  Base'
    BY DEF Base

(* Recovery.                                                                  *)
LEMMA RecoveryBase ==
    ASSUME Base, NEW w \in Writers, Recovery(w)
    PROVE  Base'
<1> USE DEF Position, Calling, Journalled, Restored, Published, Staged, Has, Open, Marked, PairOf,
        Restoring, Replacing, Journalling, Replaced, Publishing, Cleaning
<1>0. FilesOK /\ AfterSync["syncDiscard"] = "ready"
    BY FilesTyped DEF Base, AfterSync
<1>s. {"recover", "ready", "discard", "restoreManifest", "syncRestoredManifest", "restoreLock",
       "syncRestoredLock", "syncDiscard"} \subseteq Steps \ {"idle"}
    BY DEF Steps, AfterSync
<1>1. CASE NoRecovery(w)
    <2>1. FilesOK' /\ disk' = disk /\ Step(w, "recover", "ready") /\ ~Has
        BY <1>0, <1>1 DEF NoRecovery, files, FilesOK, Images
    <2>2. Position(w)'
        BY <1>s, <2>1, Stepped
    <2> QED
        BY <1>s, <2>1, <2>2, Stepped, Moved
<1>2. CASE SkipCommitted(w)
    <2>1. FilesOK' /\ disk' = disk /\ Step(w, "recover", "discard") /\ Marked
        BY <1>0, <1>2 DEF SkipCommitted, files, FilesOK, Images
    <2>2. Position(w)'
        BY <1>s, <2>1, Stepped
    <2> QED
        BY <1>s, <2>1, <2>2, Stepped, Moved
<1>3. CASE BeginRestore(w)
    <2>1. FilesOK' /\ disk' = disk /\ Step(w, "recover", "restoreManifest") /\ Open
        BY <1>0, <1>3 DEF BeginRestore, files, FilesOK, Images
    <2>2. Position(w)'
        BY <1>s, <2>1, Stepped
    <2> QED
        BY <1>s, <2>1, <2>2, Stepped, Moved
<1>4. CASE RestoreManifest(w)
    <2>1. Step(w, "restoreManifest", "syncRestoredManifest") /\ Open
        BY <1>4 DEF RestoreManifest, Step, Base
    <2>2. disk.pending.before.manifest \in Manifests
        BY <1>0, <2>1, DiskFacts DEF Pair
    <2>3. FilesOK' /\ disk'.pending = disk.pending
          /\ disk'.manifest = disk.pending.before.manifest
        BY <1>0, <1>4, <2>2, PutsManifest DEF RestoreManifest
    <2>4. Position(w)'
        BY <1>s, <2>1, <2>3, Stepped
    <2> QED
        BY <1>s, <2>1, <2>3, <2>4, Stepped, Moved
<1>5. CASE RestoreLock(w)
    <2>1. Step(w, "restoreLock", "syncRestoredLock") /\ Open
          /\ disk.manifest = disk.pending.before.manifest
        BY <1>5 DEF RestoreLock, Step, Base
    <2>2. disk.pending.before.lock \in Locks \cup {NoLock}
        BY <1>0, <2>1, DiskFacts DEF Pair
    <2>3. FilesOK' /\ disk'.pending = disk.pending /\ disk'.manifest = disk.manifest
          /\ disk'.lock = disk.pending.before.lock
        BY <1>0, <1>5, <2>2, PutsLock DEF RestoreLock
    <2>4. Position(w)'
        BY <1>s, <2>1, <2>3, Stepped
    <2> QED
        BY <1>s, <2>1, <2>3, <2>4, Stepped, Moved
<1>6. CASE Discard(w)
    <2>1. FilesOK' /\ disk'.pending = NoJournal /\ Step(w, "discard", "syncDiscard")
        BY <1>0, <1>6, PutsPending DEF Discard
    <2>2. Position(w)'
        BY <1>s, <2>1, Stepped
    <2> QED
        BY <1>s, <2>1, <2>2, Stepped, Moved
<1> QED
    BY <1>1, <1>2, <1>3, <1>4, <1>5, <1>6 DEF Recovery

(* The end of a call.                                                         *)
LEMMA ReturnBase ==
    ASSUME Base, NEW w \in Writers, pc[w] # "idle", NEW answer, Return(w, answer),
           answer \in {"ok", "failed", "stuck"} \/ ~Staged(w)
    PROVE  /\ Base' /\ UNCHANGED <<disk, kept, candidates>>
           /\ attempt' = IF Staged(w) THEN [attempt EXCEPT !.outcome = answer] ELSE attempt
           /\ attempt'.before = attempt.before /\ attempt'.after = attempt.after
           /\ attempt'.outcome = IF Staged(w) THEN answer ELSE attempt.outcome
           /\ \A v \in Writers : pc'[v] = "idle" /\ goal'[v] = "none"
           /\ UNCHANGED <<shared, reading, seen>>
<1>1. /\ Goto(w, "idle") /\ exclusive' = exclusive \ {w}
      /\ goal' = [goal EXCEPT ![w] = "none"] /\ plan' = [plan EXCEPT ![w] = NoPlan]
      /\ attempt' = IF Staged(w) THEN [attempt EXCEPT !.outcome = answer] ELSE attempt
      /\ UNCHANGED <<disk, kept, guardFile, shared, candidates>> /\ UNCHANGED reader
    BY DEF Return, files
<1>2. /\ pc' \in [Writers -> Steps]
      /\ goal' \in [Writers -> {"none", "preview", "commit", "undone"}]
      /\ exclusive' \subseteq Writers /\ Guarded' /\ \A v \in Writers : Position(v)'
      /\ \A v \in Writers : pc'[v] = "idle" /\ goal'[v] = "none"
    BY <1>1, Ends
<1>3. TypeOK /\ FilesOK'
    BY <1>1, FilesTyped DEF Base, FilesOK, Images
<1>4. attempt' \in [before : Pair, after : Pair, outcome : {"open", "ok", "failed", "stuck"}]
    BY <1>1, <1>3 DEF TypeOK
<1>5. /\ attempt'.before = attempt.before /\ attempt'.after = attempt.after
      /\ attempt'.outcome = IF Staged(w) THEN answer ELSE attempt.outcome
    BY <1>1, <1>3 DEF TypeOK
<1>6. /\ plan' \in [Writers -> Plan \cup {NoPlan}]
      /\ guardFile' \in BOOLEAN /\ shared' \subseteq Readers /\ candidates' \subseteq Pair
    BY <1>1, <1>3 DEF TypeOK
<1>7. TypeOK'
    BY <1>1, <1>2, <1>3, <1>4, <1>6, TypeFrame
<1> QED
    BY <1>1, <1>2, <1>5, <1>7 DEF Base, reader

(* Between recovery and publication.                                          *)
LEMMA CallBase ==
    ASSUME Base, NEW w \in Writers,
           LockForWriting(w) \/ Preview(w) \/ AdmitCommit(w) \/ RefuseStale(w)
              \/ ReportUndone(w) \/ KillWriter(w)
    PROVE  Base'
<1>0. FilesOK /\ TypeOK /\ Position(w) /\ Guarded
    BY FilesTyped DEF Base
<1>1. CASE LockForWriting(w)
    <2>1. /\ pc[w] = "idle" /\ UNCHANGED <<files, shared, candidates, attempt>>
          /\ UNCHANGED reader /\ guardFile' = TRUE
        BY <1>1 DEF LockForWriting, ghosts
    <2>2. FilesOK' /\ UNCHANGED disk
        BY <1>0, <2>1 DEF FilesOK, Images, files
    <2>3. CASE exclusive = {} /\ shared = {}
        <3>1. /\ exclusive' = {w} /\ pc' = [pc EXCEPT ![w] = "recover"] /\ plan' = plan
              /\ goal' = [goal EXCEPT ![w] = IF plan[w] = NoPlan THEN "preview" ELSE "commit"]
            BY <1>1, <2>3 DEF LockForWriting, Goto
        <3>2. \A v \in Writers : pc[v] = "idle" /\ goal[v] = "none"
            BY <2>3 DEF Base, Guarded, Position, Calling
        <3>3. /\ pc' \in [Writers -> Steps]
              /\ goal' \in [Writers -> {"none", "preview", "commit", "undone"}]
              /\ pc'[w] = "recover" /\ goal'[w] \in {"preview", "commit"}
              /\ goal'[w] = "commit" => plan'[w] # NoPlan
              /\ \A v \in Writers \ {w} : pc'[v] = "idle" /\ goal'[v] = "none"
            BY <1>0, <3>1, <3>2 DEF TypeOK, Steps
        <3>4. TypeOK'
            BY <1>0, <2>1, <2>2, <3>1, <3>3, TypeFrame DEF TypeOK
        <3>5. Guarded'
            BY <2>1, <2>3, <3>1, <3>3 DEF Guarded
        <3>6. \A v \in Writers \ {w} : Position(v)'
            BY <3>3, StandsStill
        <3>7. Position(w)'
            BY <3>3 DEF Position, Calling, Journalled, Restored, Published, Staged,
               Restoring, Replacing, Journalling, Replaced, Publishing, Cleaning
        <3> QED
            BY <3>4, <3>5, <3>6, <3>7, Moved
    <2>4. CASE ~(exclusive = {} /\ shared = {})
        <3>1. /\ plan' = [plan EXCEPT ![w] = NoPlan] /\ UNCHANGED <<exclusive, pc, goal>>
            BY <1>1, <2>4 DEF LockForWriting
        <3>2. TypeOK'
            BY <1>0, <2>1, <2>2, <3>1, TypeFrame DEF TypeOK
        <3>3. Guarded'
            BY <1>0, <2>1, <3>1 DEF Guarded
        <3>4. Position(w)'
            <4>1. pc'[w] = "idle" /\ goal'[w] = "none"
                BY <1>0, <2>1, <3>1 DEF Position, Calling
            <4> QED
                BY <4>1, StandsStill
        <3>5. ASSUME NEW v \in Writers \ {w} PROVE Position(v)'
            <4>1. plan'[v] = plan[v] /\ Position(v) /\ pc'[v] = pc[v] /\ goal'[v] = goal[v]
                  /\ attempt' = attempt /\ disk' = disk
                BY <1>0, <2>1, <2>2, <3>1 DEF Base, TypeOK
            <4> QED
                BY <4>1 DEF Position, Calling, Journalled, Restored, Published, Staged, Has, Open,
                   Marked, PairOf
        <3> QED
            BY <3>2, <3>3, <3>4, <3>5, Moved
    <2> QED
        BY <2>3, <2>4
<1>2. CASE Preview(w)
    <2>1. /\ pc[w] = "ready" /\ Goto(w, "idle") /\ exclusive' = exclusive \ {w}
          /\ goal' = [goal EXCEPT ![w] = "none"]
          /\ UNCHANGED <<files, shared, guardFile, attempt, candidates>> /\ UNCHANGED reader
        BY <1>2 DEF Preview, ghosts
    <2>2. PICK new \in [manifest : Manifests, lock : Locks] :
             plan' = [plan EXCEPT ![w] = [base |-> PairOf(disk), new |-> new]]
        BY <1>2 DEF Preview
    <2>3. new \in Pair
        BY DEF Pair
    <2>4. [base |-> PairOf(disk), new |-> new] \in Plan
        BY <1>0, <2>3, DiskFacts DEF Plan
    <2>5. plan' \in [Writers -> Plan \cup {NoPlan}]
        BY <1>0, <2>2, <2>4 DEF TypeOK
    <2>6. FilesOK'
        BY <1>0, <2>1 DEF FilesOK, Images, files
    <2>7. /\ pc' \in [Writers -> Steps]
          /\ goal' \in [Writers -> {"none", "preview", "commit", "undone"}]
          /\ exclusive' \subseteq Writers /\ Guarded' /\ \A v \in Writers : Position(v)'
        BY <2>1, Ends
    <2>8. TypeOK'
        BY <1>0, <2>1, <2>5, <2>6, <2>7, TypeFrame DEF TypeOK
    <2> QED
        BY <2>7, <2>8 DEF Base
<1>3. CASE AdmitCommit(w)
    <2>1. FilesOK' /\ disk' = disk /\ Step(w, "ready", "stage") /\ goal[w] = "commit"
          /\ PairOf(disk) = plan[w].base /\ pc[w] = "ready"
        BY <1>0, <1>3 DEF AdmitCommit, files, FilesOK, Images, Step
    <2>2. "stage" \in Steps
        BY DEF Steps
    <2>3. Position(w)'
        BY <2>1, <2>2, Stepped DEF Position, Calling, Journalled, Restored, Published, Staged, Has,
           Open, Marked, PairOf, Restoring, Replacing, Journalling, Replaced, Publishing, Cleaning
    <2> QED
        BY <2>1, <2>2, <2>3, Stepped, Moved
<1>4. CASE RefuseStale(w)
    <2>1. pc[w] = "ready" /\ ~Staged(w) /\ Return(w, "stale")
        BY <1>4 DEF RefuseStale, Staged, Publishing, Cleaning
    <2> QED
        BY <2>1, ReturnBase
<1>5. CASE ReportUndone(w)
    <2>1. pc[w] = "ready" /\ Return(w, "failed")
        BY <1>5 DEF ReportUndone
    <2> QED
        BY <2>1, ReturnBase
<1>6. CASE KillWriter(w)
    <2>1. /\ Goto(w, "idle") /\ exclusive' = exclusive \ {w}
          /\ goal' = [goal EXCEPT ![w] = "none"] /\ plan' = [plan EXCEPT ![w] = NoPlan]
          /\ UNCHANGED <<files, shared, guardFile, attempt, candidates>> /\ UNCHANGED reader
        BY <1>6 DEF KillWriter, ghosts
    <2>2. FilesOK' /\ plan' \in [Writers -> Plan \cup {NoPlan}] /\ disk' = disk
        BY <1>0, <2>1 DEF FilesOK, Images, files, TypeOK
    <2>3. CASE pc[w] # "idle"
        <3>1. /\ pc' \in [Writers -> Steps]
              /\ goal' \in [Writers -> {"none", "preview", "commit", "undone"}]
              /\ exclusive' \subseteq Writers /\ Guarded' /\ \A v \in Writers : Position(v)'
            BY <2>1, <2>3, Ends
        <3>2. TypeOK'
            BY <1>0, <2>1, <2>2, <3>1, TypeFrame DEF TypeOK
        <3> QED
            BY <3>1, <3>2 DEF Base
    <2>4. CASE pc[w] = "idle"
        <3>1. /\ goal[w] = "none" /\ pc' = pc /\ goal' = goal /\ exclusive' = exclusive
            <4>1. goal[w] = "none" /\ w \notin exclusive
                BY <1>0, <2>4 DEF Position, Calling, Guarded
            <4> QED
                BY <1>0, <2>1, <2>4, <4>1 DEF Goto, TypeOK
        <3>2. TypeOK'
            BY <1>0, <2>1, <2>2, <3>1, TypeFrame DEF TypeOK
        <3>3. Guarded'
            BY <1>0, <2>1, <3>1 DEF Guarded
        <3>4. Position(w)'
            BY <2>4, <3>1, StandsStill
        <3>5. ASSUME NEW v \in Writers \ {w} PROVE Position(v)'
            <4>1. plan'[v] = plan[v] /\ Position(v) /\ pc'[v] = pc[v] /\ goal'[v] = goal[v]
                  /\ attempt' = attempt /\ disk' = disk
                BY <1>0, <2>1, <2>2, <3>1 DEF Base, TypeOK
            <4> QED
                BY <4>1 DEF Position, Calling, Journalled, Restored, Published, Staged, Has, Open,
                   Marked, PairOf
        <3> QED
            BY <3>2, <3>3, <3>4, <3>5, Moved
    <2> QED
        BY <2>3, <2>4
<1> QED
    BY <1>1, <1>2, <1>3, <1>4, <1>5, <1>6

(* Publication.                                                               *)
LEMMA StageEffect ==
    ASSUME Base, NEW w \in Writers, Stage(w)
    PROVE  /\ Base' /\ pc[w] = "stage" /\ pc'[w] = "syncStage" /\ ~Has /\ goal' = goal
           /\ UNCHANGED <<shared, reading, seen>>
           /\ disk'.pending \in Journal /\ disk'.pending # NoJournal
           /\ disk'.pending.before = PairOf(disk) /\ ~disk'.pending.committed
           /\ \A i \in kept.pending \ {NoJournal} : i.id # disk'.pending.id
           /\ kept'.pending = kept.pending \cup {disk'.pending}
           /\ disk'.manifest = disk.manifest /\ disk'.lock = disk.lock
           /\ kept'.manifest = kept.manifest /\ kept'.lock = kept.lock
           /\ attempt' = [before |-> PairOf(disk), after |-> plan[w].new, outcome |-> "open"]
           /\ plan[w].new \in Pair
           /\ candidates' = {Accepted(image) : image \in Images} \cup {plan[w].new}
           /\ PairOf(disk) = plan[w].base
           /\ goal[w] = "commit"
<1>0. FilesOK /\ TypeOK /\ Position(w) /\ Guarded
    BY FilesTyped DEF Base
<1>1. /\ pc[w] = "stage" /\ Goto(w, "syncStage") /\ UNCHANGED <<goal, plan>> /\ UNCHANGED reader
      /\ UNCHANGED <<guardFile, shared, exclusive>>
      /\ attempt' = [before |-> PairOf(disk), after |-> plan[w].new, outcome |-> "open"]
      /\ candidates' = {Accepted(image) : image \in Images} \cup {plan[w].new}
    BY DEF Stage, guards
<1>2. PICK id \in JournalIds :
         /\ \A i \in kept.pending \ {NoJournal} : i.id # id
         /\ Put("pending", [id |-> id, before |-> PairOf(disk), committed |-> FALSE])
    BY DEF Stage
<1>3. /\ ~Has /\ goal[w] = "commit" /\ plan[w] # NoPlan /\ PairOf(disk) = plan[w].base
    BY <1>0, <1>1 DEF Position, Calling, Journalled, Published
<1>4. plan[w].new \in Pair
    BY <1>0, <1>3 DEF TypeOK, Plan, Pair
<1> DEFINE j == [id |-> id, before |-> PairOf(disk), committed |-> FALSE]
<1>5. j \in Journal
    BY <1>0, DiskFacts DEF Journal
<1>6. j # NoJournal
    BY <1>5, ProjectAssumption
<1>7. /\ disk'.manifest = disk.manifest /\ disk'.lock = disk.lock /\ disk'.pending = j
      /\ kept'.manifest = kept.manifest /\ kept'.lock = kept.lock
      /\ kept'.pending = kept.pending \cup {j} /\ FilesOK'
    BY <1>0, <1>2, <1>5, PutsPending
<1>8. \A image \in Images : Accepted(image) \in Pair
    BY <1>0, DiskFacts DEF Images, Accepted, PairOf, Pair, Journal
<1>9. "syncStage" \in Steps
    BY DEF Steps, AfterSync
<1>10. /\ pc'[w] = "syncStage" /\ pc' \in [Writers -> Steps] /\ Guarded'
       /\ \A v \in Writers \ {w} : Position(v)'
    BY <1>1, <1>9, Remains
<1>11. TypeOK'
    <2>1. attempt' \in [before : Pair, after : Pair, outcome : {"open", "ok", "failed", "stuck"}]
        BY <1>0, <1>1, <1>4, DiskFacts
    <2>2. candidates' \subseteq Pair
        BY <1>1, <1>4, <1>8
    <2> QED
        BY <1>0, <1>1, <1>7, <1>10, <2>1, <2>2, TypeFrame DEF TypeOK
<1>12. Position(w)'
    <2>1. /\ disk'.pending # NoJournal /\ disk'.pending.committed = FALSE
          /\ disk'.pending.before = PairOf(disk) /\ PairOf(disk)' = PairOf(disk)
          /\ attempt'.before = PairOf(disk) /\ attempt'.after = plan'[w].new
          /\ attempt'.outcome = "open" /\ plan'[w].base = PairOf(disk)
          /\ goal'[w] = "commit" /\ plan'[w] # NoPlan
        BY <1>1, <1>3, <1>6, <1>7 DEF PairOf
    <2> QED
        BY <1>10, <2>1 DEF Position, Calling, Journalled, Restored, Published, Staged, Has, Open,
           Marked, Restoring, Replacing, Journalling, Replaced, Publishing, Cleaning
<1>13. Base'
    BY <1>10, <1>11, <1>12, Moved
<1>14. /\ disk'.pending.before = PairOf(disk) /\ ~disk'.pending.committed
       /\ \A i \in kept.pending \ {NoJournal} : i.id # disk'.pending.id
       /\ kept'.pending = kept.pending \cup {disk'.pending}
    BY <1>2, <1>7
<1> QED
    BY <1>1, <1>3, <1>4, <1>5, <1>6, <1>7, <1>10, <1>13, <1>14 DEF reader

LEMMA PublicationBase ==
    ASSUME Base, NEW w \in Writers, Publication(w)
    PROVE  Base'
<1> USE DEF Position, Calling, Journalled, Restored, Published, Staged, Has, Open, Marked, PairOf,
        Restoring, Replacing, Journalling, Replaced, Publishing, Cleaning
<1>0. FilesOK /\ TypeOK /\ Position(w)
    BY FilesTyped DEF Base
<1>s. {"putManifest", "syncManifest", "putLock", "syncLock", "mark", "syncMark", "undo", "detach",
       "syncDetach"} \subseteq Steps \ {"idle"}
    BY DEF Steps, AfterSync
<1>p. pc[w] \in Journalling => plan[w] \in Plan /\ plan[w].new.manifest \in Manifests
                               /\ plan[w].new.lock \in Locks
                               /\ plan[w].new = [manifest |-> plan[w].new.manifest,
                                                 lock |-> plan[w].new.lock]
    BY <1>0 DEF TypeOK, Plan
<1>1. CASE Stage(w)
    BY <1>1, StageEffect
<1>2. CASE PutManifest(w)
    <2>1. Step(w, "putManifest", "syncManifest") /\ pc[w] = "putManifest"
        BY <1>2 DEF PutManifest, Step
    <2>2. /\ FilesOK' /\ disk'.pending = disk.pending /\ disk'.manifest = plan[w].new.manifest
          /\ disk'.lock = disk.lock
        BY <1>0, <1>2, <1>p, <2>1, PutsManifest DEF PutManifest
    <2>3. Position(w)'
        BY <1>s, <2>1, <2>2, Stepped
    <2> QED
        BY <1>s, <2>1, <2>2, <2>3, Stepped, Moved
<1>3. CASE PutLock(w)
    <2>1. Step(w, "putLock", "syncLock") /\ pc[w] = "putLock"
        BY <1>3 DEF PutLock, Step
    <2>2. /\ FilesOK' /\ disk'.pending = disk.pending /\ disk'.manifest = disk.manifest
          /\ disk'.lock = plan[w].new.lock
        BY <1>0, <1>3, <1>p, <2>1, PutsLock DEF PutLock
    <2>3. PairOf(disk)' = attempt.after
        <3>1. disk.manifest = plan[w].new.manifest /\ attempt.after = plan[w].new
            BY <1>0, <2>1
        <3> QED
            BY <1>p, <2>1, <2>2, <3>1
    <2>4. Position(w)'
        BY <1>s, <2>1, <2>2, <2>3, Stepped
    <2> QED
        BY <1>s, <2>1, <2>2, <2>4, Stepped, Moved
<1>4. CASE Mark(w)
    <2>1. PICK to \in {"syncMark", "undo"} : Step(w, "mark", to)
        BY <1>4 DEF Mark
    <2>2. pc[w] = "mark" /\ Open /\ disk.pending \in Journal
        BY <1>0, <2>1, DiskFacts DEF Step
    <2> DEFINE j == [disk.pending EXCEPT !.committed = TRUE]
    <2>3. j \in Journal /\ j # NoJournal /\ j.committed /\ j.before = disk.pending.before
        BY <2>2, ProjectAssumption DEF Journal
    <2>4. /\ FilesOK' /\ disk'.pending = j /\ disk'.manifest = disk.manifest
          /\ disk'.lock = disk.lock
        BY <1>0, <1>4, <2>3, PutsPending DEF Mark
    <2> HIDE DEF j
    <2>5. Position(w)'
        BY <1>s, <2>1, <2>2, <2>3, <2>4, Stepped
    <2> QED
        BY <1>s, <2>1, <2>4, <2>5, Stepped, Moved
<1>5. CASE Detach(w)
    <2>1. /\ FilesOK' /\ disk'.pending = NoJournal /\ Step(w, "detach", "syncDetach")
          /\ disk'.manifest = disk.manifest /\ disk'.lock = disk.lock
        BY <1>0, <1>5, PutsPending DEF Detach
    <2>2. Position(w)'
        BY <1>s, <2>1, Stepped
    <2> QED
        BY <1>s, <2>1, <2>2, Stepped, Moved
<1>6. CASE ReportOk(w)
    <2>1. pc[w] # "idle" /\ Return(w, "ok")
        BY <1>6 DEF ReportOk
    <2> QED
        BY <2>1, ReturnBase
<1> QED
    BY <1>1, <1>2, <1>3, <1>4, <1>5, <1>6 DEF Publication

(* Failures, and their recovery.                                              *)
LEMMA Undoes ==
    ASSUME Base, NEW w \in Writers, pc[w] # "idle", Open, Goto(w, "recover"),
           goal' = [goal EXCEPT ![w] = "undone"], FilesOK', disk' = disk,
           UNCHANGED <<guards, plan, reader, ghosts>>, attempt.outcome = "open"
    PROVE  Base'
<1>0. TypeOK /\ "recover" \in Steps
    BY DEF Base, Steps
<1>1. /\ goal' \in [Writers -> {"none", "preview", "commit", "undone"}]
      /\ goal'[w] = "undone" /\ \A v \in Writers \ {w} : goal'[v] = goal[v]
    BY <1>0 DEF TypeOK
<1>2. /\ pc'[w] = "recover" /\ pc' \in [Writers -> Steps] /\ Guarded'
      /\ \A v \in Writers \ {w} : Position(v)'
    BY <1>0, <1>1, Remains DEF guards
<1>3. TypeOK'
    BY <1>0, <1>1, <1>2, TypeFrame DEF TypeOK, guards, ghosts
<1>4. Position(w)'
    BY <1>1, <1>2 DEF Position, Calling, Journalled, Restored, Published, Staged, Has, Open,
       Marked, Restoring, Replacing, Journalling, Replaced, Publishing, Cleaning, ghosts
<1> QED
    BY <1>2, <1>3, <1>4, Moved

LEMMA FailureBase ==
    ASSUME Base, NEW w \in Writers, Failure(w)
    PROVE  Base'
<1> USE DEF Position, Calling, Journalled, Restored, Published, Staged, Has, Open, Marked, PairOf,
        Restoring, Replacing, Journalling, Replaced, Publishing, Cleaning
<1>0. FilesOK /\ TypeOK /\ Position(w)
    BY FilesTyped DEF Base
<1>s. {"undo", "syncUndo"} \subseteq Steps \ {"idle"}
    BY DEF Steps
<1>1. CASE Withdraw(w)
    <2>1. Step(w, "undo", "syncUndo") /\ pc[w] = "undo" /\ Has
        BY <1>0, <1>1 DEF Withdraw, Step
    <2>2. disk.pending \in Journal
        BY <1>0, <2>1, DiskFacts
    <2> DEFINE j == [disk.pending EXCEPT !.committed = FALSE]
    <2>3. j \in Journal /\ j # NoJournal /\ ~j.committed /\ j.before = disk.pending.before
        BY <2>2, ProjectAssumption DEF Journal
    <2>4. /\ FilesOK' /\ disk'.pending = j /\ disk'.manifest = disk.manifest
          /\ disk'.lock = disk.lock
        BY <1>0, <1>1, <2>3, PutsPending DEF Withdraw
    <2> HIDE DEF j
    <2>5. Position(w)'
        BY <1>s, <2>1, <2>3, <2>4, Stepped
    <2> QED
        BY <1>s, <2>1, <2>4, <2>5, Stepped, Moved
<1>2. CASE NothingToWithdraw(w)
    <2>1. pc[w] = "undo" /\ Open /\ attempt.outcome = "open"
        BY <1>0, <1>2 DEF NothingToWithdraw
    <2>2. FilesOK' /\ disk' = disk
        BY <1>0, <1>2 DEF NothingToWithdraw, files, FilesOK, Images
    <2> QED
        BY <1>2, <2>1, <2>2, Undoes DEF NothingToWithdraw
<1>3. CASE KeepMarker(w)
    <2>1. pc[w] # "idle" /\ Return(w, "stuck")
        BY <1>3 DEF KeepMarker
    <2> QED
        BY <2>1, ReturnBase
<1>4. CASE FailPublishing(w)
    <2>1. PICK from \in {"putManifest", "putLock", "mark"} : Step(w, from, "undo")
        BY <1>4 DEF FailPublishing
    <2>2. FilesOK' /\ disk' = disk
        BY <1>0, <1>4 DEF FailPublishing, files, FilesOK, Images
    <2>3. Position(w)'
        BY <1>s, <2>1, <2>2, Stepped
    <2> QED
        BY <1>s, <2>1, <2>2, <2>3, Stepped, Moved
<1>5. CASE FailCall(w)
    <2>1. pc[w] # "idle" /\ Return(w, "failed")
        BY <1>5 DEF FailCall
    <2> QED
        BY <2>1, ReturnBase
<1>6. CASE FailedSync(w)
    <2>1. CASE pc[w] \in {"syncManifest", "syncLock", "syncMark"}
        <3>1. PICK from \in {"syncManifest", "syncLock", "syncMark"} : Step(w, from, "undo")
            BY <1>6, <2>1 DEF FailedSync
        <3>2. FilesOK' /\ disk' = disk
            BY <1>0, <1>6, <2>1 DEF FailedSync, files, FilesOK, Images
        <3>3. Position(w)'
            <4>1. pc[w] = from /\ pc'[w] = "undo" /\ UNCHANGED <<goal, plan, attempt>>
                BY <1>s, <3>1, <3>2, Stepped
            <4>2. CASE from = "syncManifest"
                BY <1>0, <3>2, <4>1, <4>2
            <4>3. CASE from = "syncLock"
                BY <1>0, <3>2, <4>1, <4>3
            <4>4. CASE from = "syncMark"
                BY <1>0, <3>2, <4>1, <4>4
            <4> QED
                BY <4>2, <4>3, <4>4
        <3> QED
            BY <1>s, <3>1, <3>2, <3>3, Stepped, Moved
    <2>2. CASE pc[w] \notin {"syncManifest", "syncLock", "syncMark"}
        <3>1. pc[w] # "idle" /\ Return(w, "failed")
            BY <1>6, <2>2 DEF FailedSync
        <3> QED
            BY <3>1, ReturnBase
    <2> QED
        BY <2>1, <2>2
<1> QED
    BY <1>1, <1>2, <1>3, <1>4, <1>5, <1>6 DEF Failure

(* Directory syncs.                                                           *)
LEMMA SyncBase ==
    ASSUME Base, NEW w \in Writers, SyncedProject(w) \/ SyncedMarker(w) \/ SyncedWithdrawal(w)
    PROVE  Base'
<1> USE DEF Position, Calling, Journalled, Restored, Published, Staged, Has, Open, Marked, PairOf,
        Restoring, Replacing, Journalling, Replaced, Publishing, Cleaning
<1>0. FilesOK /\ TypeOK /\ Position(w)
    BY FilesTyped DEF Base
<1>1. CASE SyncedProject(w)
    <2> DEFINE to == AfterSync[pc[w]]
    <2>1. /\ pc[w] \in {"syncRestoredManifest", "syncRestoredLock", "syncDiscard", "syncStage",
                        "syncManifest", "syncLock", "syncDetach"}
          /\ Step(w, pc[w], to) /\ FilesOK' /\ disk' = disk
        BY <1>0, <1>1, SyncsProject DEF SyncedProject, AfterSync
    <2>2. /\ pc[w] = "syncRestoredManifest" => to = "restoreLock"
          /\ pc[w] = "syncRestoredLock" => to = "discard"
          /\ pc[w] = "syncDiscard" => to = "ready"
          /\ pc[w] = "syncStage" => to = "putManifest"
          /\ pc[w] = "syncManifest" => to = "putLock"
          /\ pc[w] = "syncLock" => to = "mark"
          /\ pc[w] = "syncDetach" => to = "done"
        BY DEF AfterSync
    <2>3. to \in Steps \ {"idle"} /\ pc[w] # "idle"
        BY <2>1, <2>2 DEF Steps
    <2> HIDE DEF to
    <2>4. Position(w)'
        <3>1. pc'[w] = to /\ UNCHANGED <<goal, plan, attempt>>
            BY <2>1, <2>3, Stepped
        <3>2. CASE pc[w] \in {"syncRestoredManifest", "syncDiscard"}
            BY <1>0, <2>1, <2>2, <3>1, <3>2
        <3>7. CASE pc[w] = "syncRestoredLock"
            <4>1. disk.pending.before = PairOf(disk)
                <5>1. disk.pending.before \in Pair
                    BY <1>0, <3>7, DiskFacts
                <5>2. /\ disk.manifest = disk.pending.before.manifest
                      /\ disk.lock = disk.pending.before.lock
                    BY <1>0, <3>7
                <5> QED
                    BY <5>1, <5>2 DEF Pair
            <4> QED
                BY <1>0, <2>1, <2>2, <3>1, <3>7, <4>1
        <3>3. CASE pc[w] = "syncStage"
            BY <1>0, <2>1, <2>2, <3>1, <3>3
        <3>4. CASE pc[w] = "syncManifest"
            BY <1>0, <2>1, <2>2, <3>1, <3>4
        <3>5. CASE pc[w] = "syncLock"
            BY <1>0, <2>1, <2>2, <3>1, <3>5
        <3>6. CASE pc[w] = "syncDetach"
            BY <1>0, <2>1, <2>2, <3>1, <3>6
        <3> QED
            BY <2>1, <3>2, <3>3, <3>4, <3>5, <3>6, <3>7
    <2> QED
        BY <2>1, <2>3, <2>4, Stepped, Moved
<1>2. CASE SyncedMarker(w)
    <2>1. Step(w, "syncMark", "detach") /\ FilesOK' /\ disk' = disk /\ "detach" \in Steps
        BY <1>0, <1>2, SyncsJournal DEF SyncedMarker, Steps
    <2>2. Position(w)'
        BY <2>1, Stepped
    <2> QED
        BY <2>1, <2>2, Stepped, Moved
<1>3. CASE SyncedWithdrawal(w)
    <2>1. pc[w] = "syncUndo" /\ Open /\ attempt.outcome = "open"
        BY <1>0, <1>3 DEF SyncedWithdrawal
    <2>2. FilesOK' /\ disk' = disk
        BY <1>0, <1>3, SyncsJournal DEF SyncedWithdrawal
    <2> QED
        BY <1>3, <2>1, <2>2, Undoes DEF SyncedWithdrawal
<1> QED
    BY <1>1, <1>2, <1>3

(* Readers, and power losses.                                                 *)
LEMMA ReadBase ==
    ASSUME Base, NEW r \in Readers, Read(r)
    PROVE  Base' /\ UNCHANGED <<disk, kept, pc, goal, attempt, candidates>>
<1>0. FilesOK /\ TypeOK /\ Guarded
    BY FilesTyped DEF Base
<1>1. /\ UNCHANGED <<disk, kept, guardFile, exclusive, pc, goal, plan, attempt, candidates>>
      /\ shared' \in {shared, shared \cup {r}, shared \ {r}}
      /\ shared' = shared \cup {r} /\ shared' # shared => exclusive = {}
    BY DEF Read, LockForReading, RequireComplete, FindNoLock, GuardLock, ReadLock,
       ReadManifest, EndReading, ReadStep, LeaveReading, files, writer, ghosts
<1>2. /\ reading' \in [Readers -> ReaderSteps]
      /\ seen' \in [Readers -> [manifest : Manifests \cup {Unseen}, lock : Locks \cup {NoLock, Unseen}]]
    <2>1. reading' \in [Readers -> ReaderSteps]
        BY <1>0 DEF TypeOK, ReaderSteps, Read, LockForReading, RequireComplete, FindNoLock, GuardLock,
           ReadLock, ReadManifest, EndReading, ReadStep, LeaveReading
    <2>2. CASE LockForReading(r) \/ RequireComplete(r) \/ GuardLock(r)
        BY <1>0, <2>1, <2>2 DEF TypeOK, LockForReading, RequireComplete, GuardLock
    <2>6. CASE FindNoLock(r)
        <3>1. [seen[r] EXCEPT !.lock = NoLock]
                 \in [manifest : Manifests \cup {Unseen}, lock : Locks \cup {NoLock, Unseen}]
            BY <1>0 DEF TypeOK
        <3>2. seen' = [seen EXCEPT ![r] = [seen[r] EXCEPT !.lock = NoLock]]
            BY <1>0, <2>6 DEF FindNoLock, TypeOK
        <3> QED
            BY <1>0, <2>1, <3>1, <3>2 DEF TypeOK
    <2>3. CASE ReadLock(r)
        <3>1. Accepted(disk).lock \in Locks \cup {NoLock}
            BY <1>0, DiskFacts DEF Accepted, PairOf, Pair, Has
        <3>2. [seen[r] EXCEPT !.lock = Accepted(disk).lock]
                 \in [manifest : Manifests \cup {Unseen}, lock : Locks \cup {NoLock, Unseen}]
            BY <1>0, <3>1 DEF TypeOK
        <3>3. seen' = [seen EXCEPT ![r] = [seen[r] EXCEPT !.lock = Accepted(disk).lock]]
            BY <1>0, <2>3 DEF ReadLock, TypeOK
        <3> QED
            BY <1>0, <2>1, <3>2, <3>3 DEF TypeOK
    <2>4. CASE ReadManifest(r)
        <3>1. [seen[r] EXCEPT !.manifest = disk.manifest]
                 \in [manifest : Manifests \cup {Unseen}, lock : Locks \cup {NoLock, Unseen}]
            BY <1>0, DiskFacts DEF TypeOK
        <3>2. seen' = [seen EXCEPT ![r] = [seen[r] EXCEPT !.manifest = disk.manifest]]
            BY <1>0, <2>4 DEF ReadManifest, TypeOK
        <3> QED
            BY <1>0, <2>1, <3>1, <3>2 DEF TypeOK
    <2>5. CASE EndReading(r)
        BY <1>0, <2>1, <2>5 DEF TypeOK, EndReading, LeaveReading
    <2> QED
        BY <2>1, <2>2, <2>3, <2>4, <2>5, <2>6 DEF Read
<1>3. TypeOK'
    BY <1>0, <1>1, <1>2 DEF TypeOK, Images
<1>4. Guarded'
    BY <1>0, <1>1 DEF Guarded
<1>5. \A w \in Writers : Position(w)'
    BY <1>1 DEF Base, Position, Calling, Journalled, Restored, Published, Staged, Has, Open,
       Marked, PairOf
<1> QED
    BY <1>1, <1>3, <1>4, <1>5 DEF Base

LEMMA PowerBase ==
    ASSUME Base, PowerLoss
    PROVE  Base' /\ \A w \in Writers : pc'[w] = "idle" /\ goal'[w] = "none"
<1>0. FilesOK /\ TypeOK
    BY FilesTyped DEF Base
<1>1. FilesOK'
    BY <1>0, LosesPower
<1>2. \A w \in Writers : pc'[w] = "idle" /\ goal'[w] = "none"
    BY DEF PowerLoss
<1>3. \A w \in Writers : Position(w)'
    BY <1>2, StandsStill
<1>4. Guarded'
    BY <1>2 DEF PowerLoss, Guarded
<1>5. TypeOK'
    <2>1. /\ pc' \in [Writers -> Steps] /\ plan' \in [Writers -> Plan \cup {NoPlan}]
          /\ goal' \in [Writers -> {"none", "preview", "commit", "undone"}]
        BY DEF PowerLoss, Steps
    <2>2. /\ reading' \in [Readers -> ReaderSteps]
          /\ seen' \in [Readers -> [manifest : Manifests \cup {Unseen},
                                    lock : Locks \cup {NoLock, Unseen}]]
        BY DEF PowerLoss, ReaderSteps
    <2> QED
        BY <1>0, <1>1, <2>1, <2>2 DEF PowerLoss, TypeOK, FilesOK, Disks, Kepts, ghosts
<1> QED
    BY <1>2, <1>3, <1>4, <1>5 DEF Base

LEMMA InitBase == ASSUME Init PROVE Base
<1>1. PICK p \in Pair :
         /\ disk = [manifest |-> p.manifest, lock |-> p.lock, pending |-> NoJournal]
         /\ attempt = [before |-> p, after |-> p, outcome |-> "ok"] /\ candidates = {p}
    BY DEF Init
<1>2. disk \in Disks /\ DOMAIN disk = {"manifest", "lock", "pending"}
    BY <1>1 DEF Disks, Pair
<1>3. kept = [e \in {"manifest", "lock", "pending"} |-> {disk[e]}]
    BY <1>2 DEF Init
<1>4. kept.manifest = {disk.manifest} /\ kept.lock = {disk.lock} /\ kept.pending = {disk.pending}
    BY <1>3
<1>5. kept \in Kepts
    BY <1>2, <1>3 DEF Disks, Kepts
<1>6. disk \in Images
    BY <1>2, <1>4 DEF Images, Disks
<1>7. /\ pc = [w \in Writers |-> "idle"] /\ goal = [w \in Writers |-> "none"]
      /\ exclusive = {} /\ shared = {} /\ guardFile \in BOOLEAN
      /\ plan = [w \in Writers |-> NoPlan] /\ reading = [r \in Readers |-> "idle"]
      /\ seen = [r \in Readers |-> [manifest |-> Unseen, lock |-> Unseen]]
    BY DEF Init
<1>8. TypeOK
    BY <1>1, <1>2, <1>5, <1>6, <1>7 DEF TypeOK, Disks, Kepts, Steps, ReaderSteps
<1>9. Guarded
    BY <1>7 DEF Guarded
<1>10. \A w \in Writers : Position(w)
    BY <1>7 DEF Position, Calling, Journalled, Restored, Published, Staged, Restoring, Replacing,
       Journalling, Replaced, Publishing, Cleaning
<1> QED
    BY <1>8, <1>9, <1>10 DEF Base

LEMMA NextBase ==
    ASSUME Base, [Next]_vars
    PROVE  Base'
<1>1. CASE \E w \in Writers : Write(w)
    <2>1. PICK w \in Writers : Write(w)
        BY <1>1
    <2> QED
        BY <2>1, RecoveryBase, CallBase, PublicationBase, FailureBase, SyncBase DEF Write
<1>2. CASE \E r \in Readers : Read(r)
    BY <1>2, ReadBase
<1>3. CASE PowerLoss
    BY <1>3, PowerBase
<1>4. CASE UNCHANGED vars
    BY <1>4 DEF Base, TypeOK, Images, Guarded, Position, Calling, Journalled, Restored, Published,
       Staged, Has, Open, Marked, PairOf, vars, files, guards, writer, reader, ghosts
<1> QED
    BY <1>1, <1>2, <1>3, <1>4 DEF Next

LEMMA BaseInvariant == Spec => []Base
<1>1. Init => Base
    BY InitBase
<1>2. Base /\ [Next]_vars => Base'
    BY NextBase
<1> QED
    BY <1>1, <1>2, PTL DEF Spec

(* Every variable keeps its type, through every failure, kill and power loss: *)
(* recovery finds a journal wherever it reads one.                            *)
THEOREM TypeCorrect == Spec => []TypeOK
<1>1. Base => TypeOK
    BY DEF Base
<1> QED
    BY <1>1, BaseInvariant, PTL

(* Any number of writers: one publishes over exactly the pair its update was  *)
(* computed from, although it let go of the guard in between.                 *)
THEOREM StaleTheorem == Spec => []NoLostUpdate
<1>1. Base => NoLostUpdate
    <2> SUFFICES ASSUME Base, NEW w \in Writers
                 PROVE  /\ pc[w] = "stage" => Accepted(disk) = plan[w].base
                        /\ pc[w] \in Publishing => attempt.before = plan[w].base
        BY DEF NoLostUpdate
    <2>1. Position(w)
        BY DEF Base
    <2>2. pc[w] = "stage" => Accepted(disk) = plan[w].base
        BY <2>1 DEF Position, Journalled, Published, Has, Accepted
    <2>3. pc[w] \in Publishing => attempt.before = plan[w].base
        BY <2>1 DEF Position, Published, Publishing, Journalling, Replacing
    <2> QED
        BY <2>2, <2>3
<1> QED
    BY <1>1, BaseInvariant, PTL

-----------------------------------------------------------------------------
(* While no power is lost.                                                    *)
SamePublication == attempt'.before = attempt.before /\ attempt'.after = attempt.after
SamePair == disk'.manifest = disk.manifest /\ disk'.lock = disk.lock

(* What a writer's step does to the directory.                                *)
Leaves == disk' = disk /\ SamePublication
Replaces == Open /\ disk'.pending = disk.pending /\ SamePublication
Detaches == /\ Has /\ disk'.pending = NoJournal /\ SamePair /\ SamePublication
            /\ Open => PairOf(disk) = disk.pending.before
Remarks(w) ==
    /\ goal[w] = "commit" /\ attempt.outcome = "open"
    /\ Has /\ disk'.pending \in Journal /\ SamePair /\ SamePublication
    /\ disk'.pending.before = disk.pending.before
    /\ disk'.pending.committed => PairOf(disk) = attempt.after

LEMMA DiskMoves ==
    ASSUME Base, NEW w \in Writers, Write(w)
    PROVE  /\ Leaves \/ (pc[w] # "idle" /\ (Replaces \/ Detaches \/ Remarks(w) \/ Stage(w)))
           /\ UNCHANGED <<shared, reading, seen>>
<1> USE DEF SamePublication
<1>0. FilesOK /\ TypeOK /\ Position(w)
    BY FilesTyped DEF Base
<1>1. CASE LockForWriting(w) \/ NoRecovery(w) \/ SkipCommitted(w) \/ BeginRestore(w) \/ Preview(w)
           \/ AdmitCommit(w) \/ NothingToWithdraw(w) \/ FailPublishing(w) \/ KillWriter(w)
           \/ SyncedProject(w) \/ SyncedMarker(w) \/ SyncedWithdrawal(w)
    BY <1>1 DEF LockForWriting, NoRecovery, SkipCommitted, BeginRestore, Preview, AdmitCommit,
       NothingToWithdraw, FailPublishing, KillWriter, SyncedProject, SyncedMarker,
       SyncedWithdrawal, Step, Leaves, files, guards, reader, ghosts
<1>2. CASE RefuseStale(w) \/ ReportUndone(w) \/ ReportOk(w) \/ KeepMarker(w) \/ FailCall(w)
    <2>1. PICK answer : Return(w, answer)
        BY <1>2 DEF RefuseStale, ReportUndone, ReportOk, KeepMarker, FailCall
    <2>2. attempt' \in {attempt, [attempt EXCEPT !.outcome = answer]}
        BY <2>1 DEF Return
    <2>3. SamePublication
        BY <1>0, <2>2 DEF TypeOK
    <2> QED
        BY <2>1, <2>3 DEF Return, Leaves, files, reader
<1>3. CASE FailedSync(w)
    <2>1. CASE pc[w] \in {"syncManifest", "syncLock", "syncMark"}
        BY <1>3, <2>1 DEF FailedSync, Step, Leaves, files, guards, reader, ghosts
    <2>2. CASE Return(w, "failed")
        <3>1. attempt' \in {attempt, [attempt EXCEPT !.outcome = "failed"]}
            BY <2>2 DEF Return
        <3>2. SamePublication
            BY <1>0, <3>1 DEF TypeOK
        <3> QED
            BY <2>2, <3>2 DEF Return, Leaves, files, reader
    <2> QED
        BY <1>3, <2>1, <2>2 DEF FailedSync
<1>4. CASE RestoreManifest(w) \/ RestoreLock(w) \/ PutManifest(w) \/ PutLock(w)
    <2>1. /\ pc[w] \in {"restoreManifest", "restoreLock", "putManifest", "putLock"} /\ Open
          /\ UNCHANGED <<shared, reading, seen>> /\ SamePublication
        BY <1>0, <1>4 DEF RestoreManifest, RestoreLock, PutManifest, PutLock, Step, guards, reader,
           ghosts, Position, Journalled, Restoring, Replacing
    <2>2. disk'.pending = disk.pending
        BY <1>0, <1>4 DEF RestoreManifest, RestoreLock, PutManifest, PutLock, Put, FilesOK, Disks
    <2> QED
        BY <2>1, <2>2 DEF Replaces
<1>5. CASE Discard(w) \/ Detach(w)
    <2>1. /\ pc[w] \in {"discard", "detach"} /\ Has
          /\ Open => PairOf(disk) = disk.pending.before
          /\ UNCHANGED <<shared, reading, seen>> /\ SamePublication
        BY <1>0, <1>5 DEF Discard, Detach, Step, guards, reader, ghosts, Position, Journalled,
           Restored, Open, Marked
    <2>2. disk'.pending = NoJournal /\ SamePair
        BY <1>0, <1>5, PutsPending DEF Discard, Detach, SamePair
    <2> QED
        BY <2>1, <2>2 DEF Detaches
<1>6. CASE Mark(w)
    <2>1. /\ pc[w] = "mark" /\ Has /\ PairOf(disk) = attempt.after
          /\ goal[w] = "commit" /\ attempt.outcome = "open"
          /\ UNCHANGED <<shared, reading, seen>> /\ SamePublication
        BY <1>0, <1>6 DEF Mark, Step, guards, reader, ghosts, Position, Journalled, Published,
           Replacing, Replaced, Open, Calling, Journalling, Staged, Publishing
    <2> DEFINE j == [disk.pending EXCEPT !.committed = TRUE]
    <2>2. j \in Journal /\ j.before = disk.pending.before
        BY <1>0, <2>1, DiskFacts DEF Journal
    <2>3. disk'.pending = j /\ SamePair
        BY <1>0, <1>6, <2>2, PutsPending DEF Mark, SamePair
    <2> QED
        BY <2>1, <2>2, <2>3 DEF Remarks
<1>7. CASE Withdraw(w)
    <2>1. /\ pc[w] = "undo" /\ Has /\ UNCHANGED <<shared, reading, seen>> /\ SamePublication
          /\ goal[w] = "commit" /\ attempt.outcome = "open"
        BY <1>0, <1>7 DEF Withdraw, Step, guards, reader, ghosts, Position, Journalled, Calling,
           Journalling, Published, Staged
    <2> DEFINE j == [disk.pending EXCEPT !.committed = FALSE]
    <2>2. j \in Journal /\ j.before = disk.pending.before /\ ~j.committed
        BY <1>0, <2>1, DiskFacts DEF Journal
    <2>3. disk'.pending = j /\ SamePair
        BY <1>0, <1>7, <2>2, PutsPending DEF Withdraw, SamePair
    <2> QED
        BY <2>1, <2>2, <2>3 DEF Remarks
<1>8. CASE Stage(w)
    BY <1>8, StageEffect
<1> QED
    BY <1>1, <1>2, <1>3, <1>4, <1>5, <1>6, <1>7, <1>8 DEF Write, Recovery, Publication, Failure

LEMMA OutcomeMoves ==
    ASSUME Base, NEW w \in Writers, Write(w)
    PROVE  /\ \/ attempt'.outcome = attempt.outcome
              \/ Stage(w) /\ attempt'.outcome = "open"
              \/ /\ disk' = disk /\ kept' = kept /\ attempt'.outcome = "ok"
                 /\ pc[w] \in {"detach", "syncDetach", "done"}
              \/ /\ disk' = disk /\ kept' = kept /\ attempt'.outcome = "failed"
                 /\ \/ goal[w] = "undone"
                    \/ pc[w] \in {"syncStage", "syncUndo"} /\ "sync" \in Faults
              \/ disk' = disk /\ kept' = kept /\ attempt'.outcome = "stuck"
           /\ \A v \in Writers :
                 goal'[v] = "undone" =>
                    \/ goal[v] = "undone"
                    \/ Open /\ disk' = disk /\ pc[w] \in {"undo", "syncUndo"} /\ v = w
           /\ \A v \in Writers : v # w => goal'[v] = goal[v]
<1>0. FilesOK /\ TypeOK /\ Position(w)
    BY FilesTyped DEF Base
<1>1. ASSUME NEW answer \in {"ok", "failed", "stuck", "stale"}, Return(w, answer)
      PROVE  /\ disk' = disk /\ kept' = kept
             /\ attempt'.outcome \in {answer, attempt.outcome}
             /\ ~Staged(w) => attempt'.outcome = attempt.outcome
             /\ \A v \in Writers : goal'[v] \in {"none", goal[v]} /\ (v # w => goal'[v] = goal[v])
    <2>1. \A v \in Writers : goal'[v] \in {"none", goal[v]} /\ (v # w => goal'[v] = goal[v])
        BY <1>0, <1>1 DEF Return, TypeOK
    <2>2. attempt' = IF Staged(w) THEN [attempt EXCEPT !.outcome = answer] ELSE attempt
        BY <1>1 DEF Return
    <2>3. /\ attempt'.outcome \in {answer, attempt.outcome}
          /\ ~Staged(w) => attempt'.outcome = attempt.outcome
        BY <1>0, <2>2 DEF TypeOK
    <2> QED
        BY <1>1, <2>1, <2>3 DEF Return, files
<1>2. CASE \E from, to : Step(w, from, to)
    BY <1>2 DEF Step, ghosts
<1>3. CASE LockForWriting(w) \/ Preview(w) \/ KillWriter(w)
    BY <1>0, <1>3 DEF LockForWriting, Preview, KillWriter, ghosts, TypeOK
<1>4. CASE RefuseStale(w)
    <2>1. ~Staged(w) /\ Return(w, "stale")
        BY <1>4 DEF RefuseStale, Staged, Publishing, Cleaning
    <2> QED
        BY <1>1, <2>1
<1>5. CASE ReportUndone(w)
    BY <1>1, <1>5 DEF ReportUndone
<1>6. CASE ReportOk(w)
    BY <1>1, <1>6 DEF ReportOk
<1>7. CASE KeepMarker(w)
    BY <1>1, <1>7 DEF KeepMarker
<1>8. CASE FailCall(w)
    <2>1. Return(w, "failed") /\ (Staged(w) => goal[w] = "undone")
        BY <1>8 DEF FailCall, Staged, Publishing, Cleaning
    <2> QED
        BY <1>1, <2>1
<1>9. CASE FailedSync(w) /\ Return(w, "failed")
          /\ pc[w] \in {"syncRestoredManifest", "syncRestoredLock", "syncDiscard", "syncStage",
                        "syncUndo"}
    <2>1. /\ "sync" \in Faults
          /\ Staged(w) => goal[w] = "undone" \/ pc[w] \in {"syncStage", "syncUndo"}
        BY <1>9 DEF FailedSync, Staged, Publishing, Cleaning
    <2> QED
        BY <1>1, <1>9, <2>1
<1>10. CASE NothingToWithdraw(w) \/ SyncedWithdrawal(w)
    <2>1. /\ Open /\ disk' = disk /\ pc[w] \in {"undo", "syncUndo"} /\ attempt' = attempt
          /\ goal' = [goal EXCEPT ![w] = "undone"]
        BY <1>0, <1>10 DEF NothingToWithdraw, SyncedWithdrawal, files, ghosts, Position, Journalled,
           Open
    <2> QED
        BY <1>0, <2>1 DEF TypeOK
<1>11. CASE Stage(w)
    BY <1>11, StageEffect
<1> QED
    BY <1>2, <1>3, <1>4, <1>5, <1>6, <1>7, <1>8, <1>9, <1>10, <1>11
       DEF Write, Recovery, Publication, Failure, NoRecovery, SkipCommitted, BeginRestore,
           RestoreManifest, RestoreLock, Discard, AdmitCommit, PutManifest, PutLock, Mark, Detach,
           Withdraw, FailPublishing, SyncedProject, SyncedMarker, FailedSync

LEMMA OldWrite ==
    ASSUME Base, OldInv, NEW w \in Writers, Write(w)
    PROVE  OldInv'
<1> USE DEF OldInv, Has, Open, Marked, PairOf, SamePublication, SamePair
<1>1. CASE Leaves
    BY <1>1 DEF Leaves
<1>2. CASE Replaces
    BY <1>2 DEF Replaces
<1>3. CASE Detaches
    BY <1>3 DEF Detaches
<1>4. CASE Remarks(w)
    BY <1>4, ProjectAssumption DEF Remarks
<1>5. CASE Stage(w)
    <2>1. /\ attempt'.before = PairOf(disk) /\ disk'.pending # NoJournal
          /\ disk'.pending.before = PairOf(disk) /\ ~disk'.pending.committed
        BY <1>5, StageEffect
    <2> QED
        BY <2>1
<1> QED
    BY <1>1, <1>2, <1>3, <1>4, <1>5, DiskMoves

LEMMA OldStep ==
    ASSUME Base, OldInv, "power" \notin Faults, [Next]_vars
    PROVE  OldInv'
<1>1. CASE \E r \in Readers : Read(r)
    BY <1>1, ReadBase DEF OldInv, Has, Marked, PairOf
<1>2. CASE UNCHANGED vars
    BY <1>2 DEF OldInv, Has, Marked, PairOf, vars, files, ghosts
<1>3. ~PowerLoss
    BY DEF PowerLoss
<1> QED
    BY <1>1, <1>2, <1>3, OldWrite DEF Next

LEMMA InitOld == ASSUME Init PROVE OldInv
<1>1. PICK p \in Pair :
         /\ disk = [manifest |-> p.manifest, lock |-> p.lock, pending |-> NoJournal]
         /\ attempt = [before |-> p, after |-> p, outcome |-> "ok"]
    BY DEF Init
<1>2. PairOf(disk) = p /\ ~Has
    BY <1>1 DEF PairOf, Pair, Has
<1> QED
    BY <1>1, <1>2 DEF OldInv, Marked

LEMMA OldInvariant == ASSUME "power" \notin Faults PROVE Spec => [](Base /\ OldInv)
<1>1. Init => Base /\ OldInv
    BY InitBase, InitOld
<1>2. Base /\ OldInv /\ [Next]_vars => (Base /\ OldInv)'
    BY NextBase, OldStep
<1> QED
    BY <1>1, <1>2, PTL DEF Spec

(* While no power is lost, whatever fails and whoever dies, the accepted pair *)
(* is the one before or the one after the last publication.                   *)
THEOREM OldOrNewTheorem == ASSUME "power" \notin Faults PROVE Spec => []OldOrNew
<1>1. Base /\ OldInv => OldOrNew
    BY DEF OldInv, OldOrNew, Accepted, Has, Marked
<1> QED
    BY <1>1, OldInvariant, PTL

(* A failure is what it says: a stuck marker is an outcome of its own.        *)
LEMMA FailedWrite ==
    ASSUME Base, OldInv, FailedInv, NEW w \in Writers, Write(w)
    PROVE  FailedInv'
<1>0. FilesOK /\ TypeOK /\ Position(w) /\ \A v \in Writers : Position(v)
    BY FilesTyped DEF Base
<1> DEFINE Before == Accepted(disk) = attempt.before
<1>1. ASSUME Before, ~Remarks(w), ~Stage(w) PROVE Before'
    <2>1. Leaves \/ Replaces \/ Detaches
        BY <1>1, DiskMoves
    <2> QED
        BY <1>1, <2>1 DEF Leaves, Replaces, Detaches, SamePublication, SamePair, Accepted, PairOf,
           Open, Has
<1>2. ASSUME Open PROVE Before
    BY <1>2 DEF OldInv, Open, Accepted, Has
<1>3. attempt'.outcome = "failed" => Before'
    <2> SUFFICES ASSUME attempt'.outcome = "failed" PROVE Before'
        OBVIOUS
    <2>1. CASE attempt.outcome = "failed"
        <3>1. Before /\ ~Remarks(w)
            BY <2>1 DEF FailedInv, Remarks
        <3>2. ~Stage(w)
            BY StageEffect
        <3> QED
            BY <1>1, <3>1, <3>2
    <2>2. CASE attempt.outcome # "failed"
        <3>1. /\ disk' = disk /\ ~Stage(w)
              /\ goal[w] = "undone" \/ pc[w] \in {"syncStage", "syncUndo"}
            BY <2>2, OutcomeMoves, StageEffect
        <3>2. Before
            <4>1. CASE goal[w] = "undone"
                BY <4>1 DEF FailedInv
            <4>2. CASE pc[w] \in {"syncStage", "syncUndo"}
                BY <1>0, <1>2, <4>2 DEF Position, Journalled
            <4> QED
                BY <3>1, <4>1, <4>2
        <3>3. attempt'.before = attempt.before
            BY <3>1, DiskMoves DEF Leaves, Replaces, Detaches, Remarks, SamePublication
        <3> QED
            BY <3>1, <3>2, <3>3 DEF Accepted, PairOf
    <2> QED
        BY <2>1, <2>2
<1>4. ASSUME NEW v \in Writers, goal'[v] = "undone" PROVE Before'
    <2>1. CASE goal[v] = "undone"
        <3>1. Before
            BY <2>1 DEF FailedInv
        <3>2. (~Remarks(w) /\ ~Stage(w)) \/ Leaves
            <4>1. CASE v = w
                BY <2>1, <4>1, StageEffect DEF Remarks
            <4>2. CASE v # w
                <5>1. pc[v] # "idle"
                    BY <1>0, <2>1 DEF Position, Calling
                <5>2. pc[w] = "idle"
                    BY <4>2, <5>1, Alone
                <5> QED
                    BY <5>2, DiskMoves
            <4> QED
                BY <4>1, <4>2
        <3>3. Leaves /\ Before => Before'
            BY DEF Leaves, SamePublication, Accepted, PairOf
        <3> QED
            BY <1>1, <3>1, <3>2, <3>3
    <2>2. CASE goal[v] # "undone"
        <3>1. Open /\ disk' = disk /\ pc[w] \in {"undo", "syncUndo"}
            BY <1>4, <2>2, OutcomeMoves
        <3>2. Before /\ ~Stage(w)
            BY <1>2, <3>1, StageEffect
        <3>3. attempt'.before = attempt.before
            BY <3>1, <3>2, DiskMoves DEF Leaves, Replaces, Detaches, Remarks, SamePublication
        <3> QED
            BY <3>1, <3>2, <3>3 DEF Accepted, PairOf
    <2> QED
        BY <2>1, <2>2
<1> QED
    BY <1>3, <1>4 DEF FailedInv

LEMMA FailedStep ==
    ASSUME Base, OldInv, FailedInv, "power" \notin Faults, [Next]_vars
    PROVE  FailedInv'
<1>1. CASE \E r \in Readers : Read(r)
    BY <1>1, ReadBase DEF FailedInv, Accepted, PairOf
<1>2. CASE UNCHANGED vars
    BY <1>2 DEF FailedInv, Accepted, PairOf, vars, files, writer, ghosts
<1>3. ~PowerLoss
    BY DEF PowerLoss
<1> QED
    BY <1>1, <1>2, <1>3, FailedWrite DEF Next

(* Without power losses, a publication that reported a failure, and whose     *)
(* marker is not stuck, left the previous pair accepted, whatever failed in   *)
(* it and in its own recovery, and whoever dies or comes after.               *)
THEOREM FailureTheorem == ASSUME "power" \notin Faults PROVE Spec => []FailureRetains
<1>1. Init => FailedInv
    BY DEF Init, FailedInv
<1>2. FailedInv /\ Base /\ OldInv /\ [Next]_vars => FailedInv'
    BY FailedStep
<1>3. FailedInv => FailureRetains
    BY DEF FailedInv, FailureRetains
<1>4. Spec => [](Base /\ OldInv)
    BY OldInvariant
<1> QED
    BY <1>1, <1>2, <1>3, <1>4, PTL DEF Spec

-----------------------------------------------------------------------------
(* The atomic pair.                                                           *)
LEMMA ReadsStep ==
    ASSUME Base, Reads, "power" \notin Faults, [Next]_vars
    PROVE  Reads'
<1>0. FilesOK /\ TypeOK
    BY FilesTyped DEF Base
<1>1. ASSUME NEW w \in Writers, Write(w) PROVE Reads'
    <2>1. UNCHANGED <<shared, reading, seen>>
        BY <1>1, DiskMoves
    <2>2. CASE Leaves
        BY <2>1, <2>2 DEF Leaves, Reads, Has
    <2>3. CASE ~Leaves
        <3>1. shared = {}
            BY <1>1, <2>3, DiskMoves, Alone
        <3> QED
            BY <2>1, <3>1 DEF Reads
    <2> QED
        BY <2>2, <2>3
<1>2. ASSUME NEW r \in Readers, Read(r) PROVE Reads'
    <2>1. UNCHANGED disk
        BY <1>2, ReadBase
    <2>2. /\ \A q \in Readers \ {r} :
                reading'[q] = reading[q] /\ seen'[q] = seen[q] /\ (q \in shared' <=> q \in shared)
        BY <1>0, <1>2 DEF TypeOK, Read, LockForReading, RequireComplete, FindNoLock, GuardLock, ReadLock,
           ReadManifest, EndReading, ReadStep, LeaveReading
    <2>3. CASE LockForReading(r) \/ EndReading(r)
        <3>1. reading'[r] \in {"idle", "check"}
            BY <1>0, <2>3 DEF TypeOK, LockForReading, EndReading, ReadStep, LeaveReading
        <3> QED
            BY <2>1, <2>2, <3>1 DEF Reads, Has
    <2>4. CASE RequireComplete(r)
        <3>1. reading'[r] = "lock" /\ ~Has
            BY <1>0, <2>4 DEF TypeOK, RequireComplete, ReadStep, Has
        <3> QED
            BY <2>1, <2>2, <3>1 DEF Reads, Has
    <2>5. CASE ReadLock(r)
        <3>1. /\ reading[r] \in {"briefly", "guarded"} /\ reading'[r] = "manifest"
              /\ r \in shared' => reading[r] = "guarded" /\ r \in shared
              /\ seen'[r].lock = Accepted(disk).lock
            BY <1>0, <2>5 DEF TypeOK, ReadLock, ReadStep
        <3>2. ~Has => seen'[r].lock = disk.lock
            BY <3>1 DEF Accepted, PairOf, Has
        <3> QED
            BY <2>1, <2>2, <3>1, <3>2 DEF Reads, Has
    <2>7. CASE FindNoLock(r)
        <3>1. /\ reading[r] = "lock" /\ reading'[r] = "manifest" /\ shared' = shared
              /\ seen'[r].lock = disk.lock
            BY <1>0, <2>7 DEF TypeOK, FindNoLock, ReadStep
        <3> QED
            BY <2>1, <2>2, <3>1 DEF Reads, Has
    <2>8. CASE GuardLock(r)
        <3>1. /\ reading[r] = "lock" /\ reading'[r] \in {"briefly", "guarded"}
              /\ r \in shared' /\ reading'[r] = "guarded" => r \in shared
            BY <1>0, <2>8 DEF TypeOK, GuardLock, ReadStep
        <3> QED
            BY <2>1, <2>2, <3>1 DEF Reads, Has
    <2>6. CASE ReadManifest(r)
        <3>1. /\ reading[r] = "manifest" /\ reading'[r] = "using" /\ shared' = shared
              /\ seen'[r] = [seen[r] EXCEPT !.manifest = disk.manifest]
            BY <1>0, <2>6 DEF TypeOK, ReadManifest, ReadStep
        <3>2. seen[r].lock = disk.lock => seen'[r] = PairOf(disk)
            BY <1>0, <3>1 DEF TypeOK, PairOf
        <3>3. PairOf(disk) \in Pair
            BY <1>0, DiskFacts
        <3> QED
            BY <2>1, <2>2, <3>1, <3>2, <3>3 DEF Reads, Has
    <2> QED
        BY <1>2, <2>3, <2>4, <2>5, <2>6, <2>7, <2>8 DEF Read
<1>3. CASE UNCHANGED vars
    BY <1>3 DEF Reads, Has, vars, files, guards, reader
<1>4. ~PowerLoss
    BY DEF PowerLoss
<1> QED
    BY <1>1, <1>2, <1>3, <1>4 DEF Next

(* What the abstract pair sees of the readers.                                *)
Using == [r \in Readers |-> IF r \in shared /\ reading[r] = "using" THEN seen[r] ELSE Unseen]
Choice == {attempt.before, attempt.after}

LEMMA PairWrite ==
    ASSUME Base, OldInv, OldInv', NEW w \in Writers, Write(w)
    PROVE  Promise!Offer \/ Promise!Settle \/ UNCHANGED <<Accepted(disk), Choice, Using>>
<1>0. FilesOK /\ TypeOK /\ UNCHANGED <<shared, reading, seen>>
    BY FilesTyped, DiskMoves DEF Base
<1>1. UNCHANGED Using
    BY <1>0 DEF Using
<1>2. CASE Leaves
    BY <1>1, <1>2 DEF Leaves, SamePublication, Accepted, PairOf, Choice
<1>3. ASSUME pc[w] # "idle" PROVE Promise!Unused
    BY <1>3, Alone DEF Promise!Unused
<1>4. CASE pc[w] # "idle" /\ (Replaces \/ Detaches \/ Remarks(w))
    <2>1. UNCHANGED Choice
        BY <1>4 DEF Choice, Replaces, Detaches, Remarks, SamePublication
    <2>2. Accepted(disk)' \in Choice'
        BY DEF OldInv, Accepted, Has, Marked, Choice
    <2> QED
        BY <1>1, <1>3, <1>4, <2>1, <2>2 DEF Promise!Settle, Using, Choice
<1>5. CASE pc[w] # "idle" /\ Stage(w)
    <2>1. /\ Accepted(disk)' = PairOf(disk) /\ Accepted(disk) = PairOf(disk)
        BY <1>5, StageEffect DEF Accepted, Has, PairOf
    <2>2. /\ attempt'.before = PairOf(disk) /\ attempt'.after = plan[w].new /\ plan[w].new \in Pair
        BY <1>5, StageEffect
    <2> QED
        BY <1>1, <1>3, <1>5, <2>1, <2>2 DEF Promise!Offer, Using
<1> QED
    BY <1>2, <1>4, <1>5, DiskMoves

LEMMA PairRead ==
    ASSUME Base, Reads, NEW r \in Readers, Read(r)
    PROVE  Promise!Use(r) \/ Promise!Leave(r) \/ UNCHANGED <<Accepted(disk), Choice, Using>>
<1>0. FilesOK /\ TypeOK /\ UNCHANGED <<disk, attempt>>
    BY FilesTyped, ReadBase DEF Base
<1>1. UNCHANGED <<Accepted(disk), Choice>>
    BY <1>0 DEF Accepted, PairOf, Choice
<1>2. \A q \in Readers \ {r} :
         reading'[q] = reading[q] /\ seen'[q] = seen[q] /\ (q \in shared' <=> q \in shared)
    BY <1>0 DEF TypeOK, Read, LockForReading, RequireComplete, FindNoLock, GuardLock, ReadLock,
       ReadManifest, EndReading, ReadStep, LeaveReading
<1>3. CASE LockForReading(r) \/ RequireComplete(r) \/ FindNoLock(r) \/ GuardLock(r) \/ ReadLock(r)
    <2>1. reading[r] # "using" /\ reading'[r] # "using"
        BY <1>0, <1>3 DEF TypeOK, LockForReading, RequireComplete, FindNoLock, GuardLock, ReadLock,
           ReadStep
    <2>2. UNCHANGED Using
        BY <1>2, <2>1 DEF Using
    <2> QED
        BY <1>1, <2>2
<1>4. CASE EndReading(r)
    <2>1. reading'[r] = "idle"
        BY <1>0, <1>4 DEF TypeOK, EndReading, LeaveReading
    <2>2. Using' = [Using EXCEPT ![r] = Unseen]
        BY <1>2, <2>1 DEF Using
    <2> QED
        BY <1>1, <2>2 DEF Promise!Leave, Using, Choice
<1>5. CASE ReadManifest(r)
    <2>1. /\ reading[r] = "manifest" /\ reading'[r] = "using" /\ shared' = shared
          /\ seen'[r] = [seen[r] EXCEPT !.manifest = disk.manifest]
        BY <1>0, <1>5 DEF TypeOK, ReadManifest, ReadStep
    <2>2. CASE r \notin shared
        <3>1. UNCHANGED Using
            BY <1>2, <2>1, <2>2 DEF Using
        <3> QED
            BY <1>1, <3>1
    <2>3. CASE r \in shared
        <3>1. ~Has /\ seen[r].lock = disk.lock
            BY <2>1, <2>3 DEF Reads
        <3>2. seen'[r] = Accepted(disk)
            BY <1>0, <2>1, <3>1 DEF TypeOK, PairOf, Accepted, Has
        <3>3. Using[r] = Unseen /\ Using' = [Using EXCEPT ![r] = Accepted(disk)]
            BY <1>2, <2>1, <2>3, <3>2 DEF Using
        <3> QED
            BY <1>1, <3>3 DEF Promise!Use, Using, Choice
    <2> QED
        BY <2>2, <2>3
<1> QED
    BY <1>3, <1>4, <1>5 DEF Read

LEMMA PairStep ==
    ASSUME Base, OldInv, Reads, "power" \notin Faults, [Next]_vars
    PROVE  [Promise!Next]_(Promise!pvars)
<1>1. OldInv'
    BY OldStep
<1>2. ASSUME UNCHANGED <<Accepted(disk), Choice, Using>> PROVE UNCHANGED Promise!pvars
    BY <1>2 DEF Promise!pvars, Choice, Using
<1>3. CASE \E w \in Writers : Write(w)
    BY <1>1, <1>2, <1>3, PairWrite DEF Promise!Next
<1>4. CASE \E r \in Readers : Read(r)
    BY <1>2, <1>4, PairRead DEF Promise!Next
<1>5. CASE UNCHANGED vars
    BY <1>2, <1>5 DEF Accepted, PairOf, Choice, Using, vars, files, guards, reader, ghosts
<1>6. ~PowerLoss
    BY DEF PowerLoss
<1> QED
    BY <1>3, <1>4, <1>5, <1>6 DEF Next

LEMMA PairInit == ASSUME Init PROVE Promise!Init
<1>1. PICK p \in Pair :
         /\ disk = [manifest |-> p.manifest, lock |-> p.lock, pending |-> NoJournal]
         /\ attempt = [before |-> p, after |-> p, outcome |-> "ok"]
    BY DEF Init
<1>2. Accepted(disk) = p /\ Choice = {p}
    BY <1>1 DEF PairOf, Pair, Accepted, Choice
<1>3. Using = [r \in Readers |-> Unseen]
    BY DEF Init, Using
<1> QED
    BY <1>2, <1>3 DEF Promise!Init, Choice, Using

(* Any number of writers and readers, whatever fails and whoever dies, while  *)
(* no power is lost: publication and recovery implement the atomic pair, and  *)
(* it does not change under a reader with the guard.                          *)
THEOREM PairTheorem == ASSUME "power" \notin Faults PROVE Spec => ImplementsPair
<1>1. Init => Promise!Init /\ Reads
    <2>1. Init => Reads
        BY DEF Init, Reads
    <2> QED
        BY <2>1, PairInit
<1>2. Reads /\ Base /\ OldInv /\ [Next]_vars => Reads'
    BY ReadsStep
<1>3. Reads /\ Base /\ OldInv /\ [Next]_vars => [Promise!Next]_(Promise!pvars)
    BY PairStep
<1>4. Spec => [](Base /\ OldInv)
    BY OldInvariant
<1> QED
    BY <1>1, <1>2, <1>3, <1>4, PTL DEF Spec, ImplementsPair, Promise!Spec

-----------------------------------------------------------------------------
(* Power losses, while no sync fails.                                         *)
Unconstrained == {"idle", "recover", "ready", "stage", "restoreManifest", "syncRestoredManifest",
                  "syncDiscard"}

LEMMA Unplaced == ASSUME NEW w, pc'[w] \in Unconstrained PROVE Place(w)'
    BY DEF Place, Unconstrained, Replacing, Journalling

(* Others do not move while a writer does.                                    *)
LEMMA OthersStay ==
    ASSUME Base, NEW w \in Writers, Write(w)
    PROVE  \A v \in Writers \ {w} : pc'[v] = pc[v]
<1>1. pc \in [Writers -> Steps]
    BY DEF Base, TypeOK
<1>2. (\E to : pc' = [pc EXCEPT ![w] = to]) \/ pc' = pc
    BY DEF Write, LockForWriting, Recovery, NoRecovery, SkipCommitted, BeginRestore,
       RestoreManifest, RestoreLock, Discard, Preview, AdmitCommit, RefuseStale, ReportUndone,
       Publication, Stage, PutManifest, PutLock, Mark, Detach, ReportOk, Failure, Withdraw,
       NothingToWithdraw, KeepMarker, FailPublishing, FailCall, FailedSync, SyncedProject,
       SyncedMarker, SyncedWithdrawal, KillWriter, Step, Return, Goto
<1> QED
    BY <1>1, <1>2

(* What a step keeps of the journals that were there, it keeps of what they   *)
(* say: syncs, and steps that leave the files alone.                          *)
LEMMA FoundLess ==
    ASSUME FilesOK, Found, disk' = disk, candidates' = candidates,
           kept'.pending \subseteq kept.pending,
           kept'.manifest \in {kept.manifest, {disk.manifest}},
           kept'.lock \in {kept.lock, {disk.lock}}
    PROVE  /\ Found'
           /\ \A p : Survives(p) => \A j \in kept'.pending :
                        IF Speaks(j) THEN j.before = p ELSE PairOf(disk) = p
<1>1. Settled' => Settled
    BY DEF Settled, Speaks
<1>2. \A j \in kept'.pending : Speaks(j) => j.before \in candidates'
    BY DEF Found
<1>3. Settled' => Single' /\ PairOf(disk)' \in candidates'
    BY <1>1 DEF Found, Single, PairOf
<1>4. Settled' /\ Open' => disk'.pending.before = PairOf(disk)'
    BY <1>1 DEF Found, Open, Has, PairOf
<1>5. Found'
    BY <1>2, <1>3, <1>4 DEF Found, Speaks
<1> QED
    BY <1>5 DEF Survives

(* The outcome and the goal of a step that leaves the files alone or syncs.   *)
SurvivesNext(pair) ==
    \A j \in kept'.pending : IF Speaks(j) THEN j.before = pair ELSE PairOf(disk) = pair

LEMMA Calm ==
    ASSUME Base, ImageInv, "sync" \notin Faults, NEW w \in Writers, Write(w), ~Stage(w),
           disk' = disk, candidates' = candidates,
           kept'.pending \subseteq kept.pending,
           kept'.manifest \in {kept.manifest, {disk.manifest}},
           kept'.lock \in {kept.lock, {disk.lock}},
           Place(w)'
    PROVE  ImageInv'
<1>0. FilesOK /\ Position(w) /\ Found /\ Place(w) /\ SamePublication
    BY FilesTyped, DiskMoves DEF Base, ImageInv, Leaves, Replaces, Detaches, Remarks
<1>1. Found' /\ \A p : Survives(p) => SurvivesNext(p)
    BY <1>0, FoundLess DEF SurvivesNext
<1>2. \A p : SurvivesNext(p) /\ p = attempt.before => Survives(attempt.before)'
    BY <1>0 DEF SurvivesNext, Survives, PairOf, SamePublication, Speaks
<1>3. ASSUME NEW v \in Writers PROVE Place(v)'
    <2>1. CASE v = w
        BY <2>1
    <2>2. CASE v # w /\ pc[w] # "idle"
        BY <2>2, OthersStay, Alone, Unplaced DEF Unconstrained
    <2>3. CASE v # w /\ pc[w] = "idle"
        <3>1. LockForWriting(w) \/ KillWriter(w)
            BY <2>3 DEF Write, LockForWriting, Recovery, NoRecovery, SkipCommitted, BeginRestore,
               RestoreManifest, RestoreLock, Discard, Preview, AdmitCommit, RefuseStale,
               ReportUndone, Publication, Stage, PutManifest, PutLock, Mark, Detach, ReportOk,
               Failure, Withdraw, NothingToWithdraw, KeepMarker, FailPublishing, FailCall,
               FailedSync, SyncedProject, SyncedMarker, SyncedWithdrawal, Step, AfterSync
        <3>2. kept' = kept /\ attempt' = attempt
            BY <3>1 DEF LockForWriting, KillWriter, files, ghosts
        <3>3. pc'[v] = pc[v] /\ Place(v)
            BY <2>3, OthersStay DEF ImageInv
        <3> QED
            BY <3>2, <3>3 DEF Place, Open, Has, Speaks
    <2> QED
        BY <2>1, <2>2, <2>3
<1>4. attempt'.outcome = "ok" =>
         (\A j \in kept'.pending : ~Speaks(j)) /\ PairOf(disk)' = attempt'.after
    <2>1. CASE attempt.outcome = "ok"
        BY <1>0, <2>1 DEF ImageInv, PairOf, SamePublication
    <2>2. CASE pc[w] \in {"detach", "syncDetach", "done"}
        BY <1>0, <2>2 DEF Place, Position, Published, Replaced, PairOf, SamePublication
    <2> QED
        BY <2>1, <2>2, OutcomeMoves
<1>5. ASSUME NEW v \in Writers, goal[v] = "undone" PROVE Survives(attempt.before)'
    BY <1>1, <1>2, <1>5 DEF ImageInv
<1>6. attempt'.outcome = "failed" => Survives(attempt.before)'
    <2>1. CASE attempt.outcome = "failed"
        BY <1>1, <1>2, <2>1 DEF ImageInv
    <2>2. CASE goal[w] = "undone"
        BY <1>5, <2>2
    <2> QED
        BY <1>0, <2>1, <2>2, OutcomeMoves DEF Place
<1>7. ASSUME NEW v \in Writers, goal'[v] = "undone" PROVE Survives(attempt.before)'
    <2>1. CASE goal[v] = "undone"
        BY <1>5, <2>1
    <2>2. CASE Open /\ pc[w] = "undo"
        <3>1. /\ kept.pending = {disk.pending} /\ disk.pending.before = attempt.before
              /\ Speaks(disk.pending)
            BY <1>0, <2>2 DEF Place, Position, Published, Journalling, Open, Has, Speaks
        <3>2. Survives(attempt.before)
            BY <3>1 DEF Survives
        <3> QED
            BY <1>1, <1>2, <3>2
    <2> QED
        BY <1>0, <1>7, <2>1, <2>2, OutcomeMoves DEF Place
<1> QED
    BY <1>1, <1>3, <1>4, <1>6, <1>7 DEF ImageInv, Speaks

(* Steps that change the directory.                                           *)
LEMMA Stirred ==
    ASSUME Base, ImageInv, NEW w \in Writers, Write(w), pc[w] # "idle", ~Stage(w),
           attempt'.outcome = attempt.outcome, Found', Place(w)',
           attempt.outcome = "ok" =>
              (\A j \in kept'.pending : ~Speaks(j)) /\ PairOf(disk)' = attempt.after,
           attempt.outcome = "failed" \/ goal[w] = "undone" => Survives(attempt.before)',
           ~(disk' = disk)
    PROVE  ImageInv'
<1>1. \A v \in Writers \ {w} : Place(v)' /\ goal'[v] # "undone"
    BY OthersStay, OutcomeMoves, Alone, Unplaced DEF Unconstrained
<1>2. SamePublication
    BY DiskMoves DEF Leaves, Replaces, Detaches, Remarks
<1>3. goal'[w] = "undone" => goal[w] = "undone"
    BY OutcomeMoves
<1> QED
    BY <1>1, <1>2, <1>3 DEF ImageInv, SamePublication

LEMMA RestoreImage ==
    ASSUME Base, ImageInv, "sync" \notin Faults, NEW w \in Writers,
           RestoreManifest(w) \/ RestoreLock(w)
    PROVE  ImageInv'
<1>0. FilesOK /\ Position(w) /\ Found /\ Place(w)
    BY FilesTyped DEF Base, ImageInv
<1>1. /\ Write(w) /\ ~Stage(w) /\ pc[w] \in {"restoreManifest", "restoreLock"} /\ Open
      /\ UNCHANGED <<attempt, candidates, goal>> /\ pc[w] # "idle"
    BY <1>0 DEF Write, Recovery, RestoreManifest, RestoreLock, Stage, Step, ghosts, Position,
       Journalled, Restoring
<1>2. /\ disk.pending \in Journal /\ disk.pending.before.manifest \in Manifests
      /\ disk.pending.before.lock \in Locks \cup {NoLock}
    BY <1>0, <1>1, DiskFacts DEF Open, Pair
<1>3. /\ disk'.pending = disk.pending /\ kept'.pending = kept.pending
      /\ \/ /\ RestoreManifest(w) /\ disk'.manifest = disk.pending.before.manifest
            /\ disk'.lock = disk.lock /\ kept'.lock = kept.lock
            /\ kept'.manifest = kept.manifest \cup {disk.pending.before.manifest}
         \/ /\ RestoreLock(w) /\ disk'.lock = disk.pending.before.lock
            /\ disk'.manifest = disk.manifest /\ kept'.manifest = kept.manifest
            /\ kept'.lock = kept.lock \cup {disk.pending.before.lock}
      /\ FilesOK'
    <2>1. CASE RestoreManifest(w)
        BY <1>0, <1>2, <2>1, PutsManifest DEF RestoreManifest
    <2>2. CASE RestoreLock(w)
        BY <1>0, <1>2, <2>2, PutsLock DEF RestoreLock
    <2> QED
        BY <2>1, <2>2, <1>1
<1>4. Place(w)'
    <2>1. CASE RestoreManifest(w)
        <3>1. pc'[w] = "syncRestoredManifest"
            BY <2>1 DEF RestoreManifest, Step, Goto, Base, TypeOK
        <3> QED
            BY <3>1, Unplaced DEF Unconstrained
    <2>2. CASE RestoreLock(w)
        <3>1. pc'[w] = "syncRestoredLock" /\ pc[w] = "restoreLock"
            BY <2>2 DEF RestoreLock, Step, Goto, Base, TypeOK
        <3>2. kept'.manifest = {disk'.manifest}
            BY <1>0, <1>3, <2>2, <3>1 DEF Place, RestoreManifest, Step
        <3> QED
            BY <3>1, <3>2 DEF Place, Replacing, Journalling
    <2> QED
        BY <1>3, <2>1, <2>2
<1>5. CASE Settled
    <2>1. disk.pending.before = PairOf(disk) /\ Single
        BY <1>0, <1>1, <1>5 DEF Found
    <2>2. /\ disk'.manifest = disk.manifest /\ disk'.lock = disk.lock
          /\ kept'.manifest = kept.manifest /\ kept'.lock = kept.lock
        BY <1>3, <2>1 DEF PairOf, Single
    <2>3. disk' = disk
        BY <1>0, <1>3, <2>2 DEF FilesOK, Disks
    <2> QED
        BY <1>1, <1>3, <1>4, <2>2, <2>3, Calm
<1>6. CASE ~Settled
    <2>1. ~Settled' /\ \A j \in kept'.pending : Speaks(j)
        BY <1>3, <1>6 DEF Settled, Speaks
    <2>2. Found'
        BY <1>0, <1>1, <1>3, <2>1 DEF Found, Speaks
    <2>3. attempt.outcome # "ok"
        BY <1>0, <1>6, DiskFacts DEF ImageInv, Settled, Speaks
    <2>4. attempt.outcome = "failed" \/ goal[w] = "undone" => Survives(attempt.before)'
        BY <1>1, <1>3, <2>1 DEF ImageInv, Survives, Speaks
    <2>5. CASE disk' = disk
        <3>1. kept'.manifest = kept.manifest /\ kept'.lock = kept.lock
            BY <1>0, <1>3, <2>5, DiskFacts
        <3> QED
            BY <1>1, <1>3, <1>4, <2>5, <3>1, Calm
    <2> QED
        BY <1>1, <1>4, <2>2, <2>3, <2>4, <2>5, Stirred
<1> QED
    BY <1>5, <1>6

(* The journal is renamed away, by recovery or after success.                 *)
LEMMA DetachImage ==
    ASSUME Base, ImageInv, "sync" \notin Faults, NEW w \in Writers, Discard(w) \/ Detach(w)
    PROVE  ImageInv'
<1>0. FilesOK /\ Position(w) /\ Found /\ Place(w)
    BY FilesTyped DEF Base, ImageInv
<1>1. /\ Write(w) /\ ~Stage(w) /\ pc[w] \in {"discard", "detach"} /\ Has
      /\ UNCHANGED <<attempt, candidates, goal>> /\ pc[w] # "idle"
    BY <1>0 DEF Write, Recovery, Publication, Discard, Detach, Stage, Step, ghosts, Position,
       Journalled, Marked
<1>2. /\ disk'.pending = NoJournal /\ disk'.manifest = disk.manifest /\ disk'.lock = disk.lock
      /\ kept'.pending = kept.pending \cup {NoJournal}
      /\ kept'.manifest = kept.manifest /\ kept'.lock = kept.lock
    BY <1>0, <1>1, PutsPending DEF Discard, Detach
<1>3. /\ disk.pending \in kept.pending /\ (Open <=> Speaks(disk.pending))
    BY <1>0, DiskFacts DEF Open, Has, Speaks
<1>4. Single /\ PairOf(disk) \in candidates
    <2>1. CASE Settled
        BY <1>0, <2>1 DEF Found
    <2>2. CASE ~Settled
        <3>1. Open /\ pc[w] = "discard"
            BY <1>0, <1>1, <1>3, <2>2 DEF Settled, Position, Journalled, Marked, Open
        <3>2. PairOf(disk) = disk.pending.before
            BY <1>0, <3>1 DEF Position, Restored
        <3> QED
            BY <1>0, <1>3, <3>1, <3>2 DEF Place, Single, Found
    <2> QED
        BY <2>1, <2>2
<1>5. Found'
    <2>1. \A j \in kept'.pending : Speaks(j) => j.before \in candidates'
        BY <1>0, <1>1, <1>2 DEF Found, Speaks
    <2>2. Single' /\ PairOf(disk)' \in candidates' /\ ~Open'
        BY <1>1, <1>2, <1>4 DEF Single, PairOf, Open, Has
    <2> QED
        BY <2>1, <2>2 DEF Found, Speaks
<1>6. attempt.outcome = "ok" =>
         (\A j \in kept'.pending : ~Speaks(j)) /\ PairOf(disk)' = attempt.after
    BY <1>2 DEF ImageInv, Speaks, PairOf
<1>7. attempt.outcome = "failed" \/ goal[w] = "undone" => Survives(attempt.before)'
    <2> SUFFICES ASSUME Survives(attempt.before) PROVE Survives(attempt.before)'
        BY DEF ImageInv
    <2>1. PairOf(disk) = attempt.before \/ pc[w] = "detach"
        BY <1>0, <1>1, <1>3 DEF Survives, Position, Restored
    <2>2. PairOf(disk) = attempt.before
        BY <1>0, <1>3, <2>1 DEF Survives, Position, Journalled, Marked, Open
    <2> QED
        BY <1>1, <1>2, <2>2 DEF Survives, Speaks, PairOf
<1>8. Place(w)'
    <2>1. CASE Discard(w)
        <3>1. pc'[w] = "syncDiscard"
            BY <2>1 DEF Discard, Step, Goto, Base, TypeOK
        <3> QED
            BY <3>1, Unplaced DEF Unconstrained
    <2>2. CASE Detach(w)
        <3>1. pc'[w] = "syncDetach" /\ pc[w] = "detach"
            BY <2>2 DEF Detach, Step, Goto, Base, TypeOK
        <3>2. \A j \in kept'.pending : ~Speaks(j)
            BY <1>0, <1>2, <3>1 DEF Place, Speaks
        <3> QED
            BY <3>1, <3>2 DEF Place, Replacing, Journalling
    <2> QED
        BY <2>1, <2>2
<1>9. ~(disk' = disk)
    BY <1>1, <1>2 DEF Has
<1> QED
    BY <1>1, <1>5, <1>6, <1>7, <1>8, <1>9, Stirred

(* A publication puts its files in place, and marks its journal.              *)
LEMMA ReplaceImage ==
    ASSUME Base, ImageInv, "sync" \notin Faults, NEW w \in Writers,
           PutManifest(w) \/ PutLock(w) \/ Mark(w)
    PROVE  ImageInv'
<1>0. FilesOK /\ TypeOK /\ Position(w) /\ Found /\ Place(w)
    BY FilesTyped DEF Base, ImageInv
<1>1. /\ Write(w) /\ ~Stage(w) /\ pc[w] \in {"putManifest", "putLock", "mark"} /\ Open
      /\ UNCHANGED <<attempt, candidates, goal, plan>> /\ pc[w] # "idle"
    BY <1>0 DEF Write, Publication, PutManifest, PutLock, Mark, Stage, Step, ghosts, Position,
       Journalled, Replacing
<1>2. /\ attempt.outcome = "open" /\ goal[w] # "undone" /\ attempt.after \in candidates
      /\ plan[w] \in Plan /\ kept.pending = {disk.pending} /\ disk.pending.before \in candidates
    <2>1. attempt.outcome = "open" /\ goal[w] = "commit" /\ plan[w] # NoPlan
        BY <1>0, <1>1 DEF Position, Calling, Published, Staged, Publishing, Journalling, Replacing
    <2>2. plan[w] \in Plan
        BY <1>0, <2>1 DEF TypeOK
    <2>3. kept.pending = {disk.pending} /\ attempt.after \in candidates
        BY <1>0, <1>1 DEF Place, Replacing, Journalling
    <2>4. disk.pending.before \in candidates
        BY <1>0, <1>1, <2>3 DEF Found, Open, Has, Speaks
    <2> QED
        BY <2>1, <2>2, <2>3, <2>4
<1>3. CASE PutManifest(w) \/ PutLock(w)
    <2>1. /\ disk'.pending = disk.pending /\ kept'.pending = kept.pending
          /\ \/ /\ PutManifest(w) /\ kept'.lock = kept.lock /\ disk'.lock = disk.lock
                /\ kept'.manifest = kept.manifest \cup {disk'.manifest}
             \/ /\ PutLock(w) /\ kept'.manifest = kept.manifest /\ disk'.manifest = disk.manifest
                /\ kept'.lock = kept.lock \cup {disk'.lock}
        <3>1. plan[w].new.manifest \in Manifests /\ plan[w].new.lock \in Locks \cup {NoLock}
            BY <1>2 DEF Plan
        <3>2. CASE PutManifest(w)
            BY <1>0, <3>1, <3>2, PutsManifest DEF PutManifest
        <3>3. CASE PutLock(w)
            BY <1>0, <3>1, <3>3, PutsLock DEF PutLock
        <3> QED
            BY <1>3, <3>2, <3>3
    <2>2. ~Settled'
        BY <1>1, <1>2, <2>1 DEF Settled, Open, Has, Speaks
    <2>3. Found'
        BY <1>1, <1>2, <2>1, <2>2 DEF Found
    <2>4. Place(w)'
        <3>1. CASE PutManifest(w)
            <4>1. pc'[w] = "syncManifest" /\ pc[w] = "putManifest"
                BY <3>1 DEF PutManifest, Step, Goto, Base, TypeOK
            <4>2. kept'.lock = {disk'.lock}
                BY <1>0, <2>1, <3>1, <4>1 DEF Place, PutLock, Step
            <4> QED
                BY <1>1, <1>2, <2>1, <4>1, <4>2 DEF Place, Replacing, Journalling
        <3>2. CASE PutLock(w)
            <4>1. pc'[w] = "syncLock" /\ pc[w] = "putLock"
                BY <3>2 DEF PutLock, Step, Goto, Base, TypeOK
            <4>2. kept'.manifest = {disk'.manifest}
                BY <1>0, <2>1, <3>2, <4>1 DEF Place, PutManifest, Step
            <4> QED
                BY <1>1, <1>2, <2>1, <4>1, <4>2 DEF Place, Replacing, Journalling
        <3> QED
            BY <1>3, <3>1, <3>2
    <2>5. CASE disk' = disk
        <3>1. kept'.manifest = kept.manifest /\ kept'.lock = kept.lock
            BY <1>0, <2>1, <2>5, DiskFacts
        <3> QED
            BY <1>1, <2>1, <2>4, <2>5, <3>1, Calm
    <2> QED
        BY <1>1, <1>2, <2>3, <2>4, <2>5, Stirred
<1>4. CASE Mark(w)
    <2> DEFINE j == [disk.pending EXCEPT !.committed = TRUE]
    <2>1. j \in Journal /\ j # NoJournal /\ j.committed /\ j.id = disk.pending.id
        BY <1>0, <1>1, DiskFacts, ProjectAssumption DEF Journal, Open
    <2>2. /\ disk'.pending = j /\ disk'.manifest = disk.manifest /\ disk'.lock = disk.lock
          /\ kept'.pending = {disk.pending, j}
          /\ kept'.manifest = kept.manifest /\ kept'.lock = kept.lock
        <3>1. Put("pending", j) /\ j \in Journal \cup {NoJournal}
            BY <1>4, <2>1 DEF Mark
        <3> HIDE DEF j
        <3>2. kept.pending \cup {j} = {disk.pending, j}
            BY <1>2
        <3> QED
            BY <1>0, <3>1, <3>2, PutsPending
    <2> HIDE DEF j
    <2>3. pc[w] = "mark" /\ pc'[w] = "syncMark"
        BY <1>4 DEF Mark, Step, Goto, Base, TypeOK
    <2>4. Single /\ PairOf(disk) = attempt.after
        BY <1>0, <2>3 DEF Place, Single, Position, Published, Replaced
    <2>5. Found'
        BY <1>1, <1>2, <2>1, <2>2, <2>4 DEF Found, Single, PairOf, Speaks, Open, Has
    <2>6. \A i \in kept'.pending : SameJournal(i, disk'.pending)
        BY <1>1, <2>1, <2>2 DEF SameJournal, Open, Has
    <2>7. Place(w)'
        BY <1>1, <1>2, <2>3, <2>6 DEF Place, Replacing, Journalling
    <2>8. ~(disk' = disk)
        BY <1>1, <2>1, <2>2 DEF Open
    <2> QED
        BY <1>1, <1>2, <2>5, <2>7, <2>8, Stirred
<1> QED
    BY <1>3, <1>4

LEMMA StageImage ==
    ASSUME Base, ImageInv, NEW w \in Writers, Stage(w)
    PROVE  ImageInv'
<1>0. FilesOK /\ Found
    BY FilesTyped DEF Base, ImageInv
<1>1. /\ pc[w] = "stage" /\ pc'[w] = "syncStage" /\ ~Has /\ goal' = goal /\ goal[w] = "commit"
      /\ disk'.pending # NoJournal /\ disk'.pending.before = PairOf(disk)
      /\ \A i \in kept.pending \ {NoJournal} : i.id # disk'.pending.id
      /\ kept'.pending = kept.pending \cup {disk'.pending}
      /\ disk'.manifest = disk.manifest /\ disk'.lock = disk.lock
      /\ kept'.manifest = kept.manifest /\ kept'.lock = kept.lock
      /\ attempt'.outcome = "open" /\ attempt'.after = plan[w].new
      /\ candidates' = {Accepted(image) : image \in Images} \cup {plan[w].new}
    BY StageEffect
<1>2. Settled /\ Single
    <2>1. Settled
        BY <1>0, <1>1, DiskFacts DEF Settled, Has, Speaks
    <2> QED
        BY <1>0, <2>1 DEF Found
<1>3. PairOf(disk) \in candidates'
    <2>1. disk \in Images /\ Accepted(disk) = PairOf(disk)
        BY <1>0, <1>1 DEF FilesOK, Accepted, Has
    <2> QED
        BY <1>1, <2>1
<1>4. ASSUME NEW j \in kept.pending, Speaks(j) PROVE j.before \in candidates'
    <2> DEFINE image == [manifest |-> disk.manifest, lock |-> disk.lock, pending |-> j]
    <2>1. image \in Images
        BY <1>0, <1>4, DiskFacts DEF Images
    <2>2. Accepted(image) = j.before
        BY <1>4 DEF Accepted, Speaks
    <2> QED
        BY <1>1, <2>1, <2>2
<1>5. Found'
    <2>1. \A j \in kept'.pending : Speaks(j) => j.before \in candidates'
        BY <1>1, <1>3, <1>4
    <2>2. Single' /\ PairOf(disk)' \in candidates' /\ disk'.pending.before = PairOf(disk)'
        BY <1>1, <1>2, <1>3 DEF Single, PairOf
    <2> QED
        BY <2>1, <2>2 DEF Found, Speaks
<1>6. Place(w)'
    <2>1. \A j \in kept'.pending : SameJournal(j, disk'.pending) => j = disk'.pending
        BY <1>1 DEF SameJournal
    <2>2. attempt'.after \in candidates'
        BY <1>1
    <2> QED
        BY <1>1, <2>1, <2>2 DEF Place, Replacing, Journalling
<1>7. \A v \in Writers \ {w} : Place(v)' /\ goal'[v] # "undone"
    BY <1>1, OthersStay, Alone, Unplaced DEF Unconstrained, Write, Publication
<1> QED
    BY <1>1, <1>5, <1>6, <1>7 DEF ImageInv

LEMMA SyncImage ==
    ASSUME Base, ImageInv, "sync" \notin Faults, NEW w \in Writers,
           SyncedProject(w) \/ SyncedMarker(w)
    PROVE  ImageInv'
<1>0. FilesOK /\ Position(w) /\ Found /\ Place(w)
    BY FilesTyped DEF Base, ImageInv
<1>1. /\ Write(w) /\ ~Stage(w) /\ disk' = disk /\ UNCHANGED <<attempt, candidates>>
    BY <1>0 DEF Write, SyncedProject, SyncedMarker, Stage, Step, ghosts, AfterSync
<1>2. CASE SyncedProject(w)
    <2>1. /\ kept'.manifest = {disk.manifest} /\ kept'.lock = {disk.lock}
          /\ kept'.pending = {j \in kept.pending : SameJournal(j, disk.pending)}
        BY <1>0, <1>2, SyncsProject DEF SyncedProject
    <2>2. /\ pc[w] \in {"syncRestoredManifest", "syncRestoredLock", "syncDiscard", "syncStage",
                        "syncManifest", "syncLock", "syncDetach"}
          /\ pc'[w] = AfterSync[pc[w]]
        BY <1>2 DEF SyncedProject, Step, Goto, AfterSync, Base, TypeOK
    <2>3. SameJournal(disk.pending, disk.pending) /\ disk.pending \in kept.pending
        BY <1>0, DiskFacts DEF SameJournal
    <2>4. CASE pc[w] = "syncRestoredManifest"
        <3>1. pc'[w] = "restoreLock"
            BY <2>2, <2>4 DEF AfterSync
        <3>2. Place(w)'
            BY <1>1, <2>1, <3>1 DEF Place, Replacing, Journalling
        <3> QED
            BY <1>1, <2>1, <3>2, Calm
    <2>5. CASE pc[w] = "syncRestoredLock"
        <3>1. pc'[w] = "discard"
            BY <2>2, <2>5 DEF AfterSync
        <3>2. Place(w)'
            BY <1>1, <2>1, <3>1 DEF Place, Replacing, Journalling
        <3> QED
            BY <1>1, <2>1, <3>2, Calm
    <2>6. CASE pc[w] = "syncDiscard"
        <3>1. pc'[w] = "ready"
            BY <2>2, <2>6 DEF AfterSync
        <3>2. Place(w)'
            BY <3>1, Unplaced DEF Unconstrained
        <3> QED
            BY <1>1, <2>1, <3>2, Calm
    <2>7. CASE pc[w] = "syncStage"
        <3>1. pc'[w] = "putManifest"
            BY <2>2, <2>7 DEF AfterSync
        <3>2. kept'.pending = {disk.pending} /\ attempt.after \in candidates
            BY <1>0, <2>1, <2>3, <2>7 DEF Place, Journalling
        <3>3. Place(w)'
            BY <1>1, <2>1, <3>1, <3>2 DEF Place, Replacing, Journalling
        <3> QED
            BY <1>1, <2>1, <3>3, Calm
    <2>8. CASE pc[w] = "syncManifest"
        <3>1. pc'[w] = "putLock"
            BY <2>2, <2>8 DEF AfterSync
        <3>2. kept'.pending = {disk.pending} /\ attempt.after \in candidates
            BY <1>0, <2>1, <2>3, <2>8 DEF Place, Journalling, Replacing
        <3>3. Place(w)'
            BY <1>1, <2>1, <3>1, <3>2 DEF Place, Replacing, Journalling
        <3> QED
            BY <1>1, <2>1, <3>3, Calm
    <2>9. CASE pc[w] = "syncLock"
        <3>1. pc'[w] = "mark"
            BY <2>2, <2>9 DEF AfterSync
        <3>2. kept'.pending = {disk.pending} /\ attempt.after \in candidates
            BY <1>0, <2>1, <2>3, <2>9 DEF Place, Journalling, Replacing
        <3>3. Place(w)'
            BY <1>1, <2>1, <3>1, <3>2 DEF Place, Replacing, Journalling
        <3> QED
            BY <1>1, <2>1, <3>3, Calm
    <2>10. CASE pc[w] = "syncDetach"
        <3>1. pc'[w] = "done"
            BY <2>2, <2>10 DEF AfterSync
        <3>2. \A j \in kept'.pending : ~Speaks(j)
            BY <1>0, <2>1, <2>10 DEF Place
        <3>3. Place(w)'
            BY <3>1, <3>2 DEF Place, Replacing, Journalling, Speaks
        <3> QED
            BY <1>1, <2>1, <3>3, Calm
    <2> QED
        BY <2>2, <2>4, <2>5, <2>6, <2>7, <2>8, <2>9, <2>10
<1>3. CASE SyncedMarker(w)
    <2>1. /\ pc[w] = "syncMark" /\ pc'[w] = "detach"
          /\ kept'.manifest = kept.manifest /\ kept'.lock = kept.lock
          /\ kept'.pending =
                {j \in kept.pending : SameJournal(j, disk.pending) => j = disk.pending}
        BY <1>0, <1>3, SyncsJournal DEF SyncedMarker, Step, Goto, Base, TypeOK
    <2>2. \A j \in kept'.pending : j = disk.pending
        BY <1>0, <2>1 DEF Place
    <2>3. ~Speaks(disk.pending) /\ attempt.after \in candidates
        BY <1>0, <2>1 DEF Position, Journalled, Marked, Speaks, Place, Journalling
    <2>4. Place(w)'
        BY <1>1, <2>1, <2>2, <2>3 DEF Place, Replacing, Speaks
    <2> QED
        BY <1>1, <2>1, <2>4, Calm
<1> QED
    BY <1>2, <1>3

(* Steps that leave the directory alone.                                      *)
LEMMA QuietImage ==
    ASSUME Base, ImageInv, "sync" \notin Faults, NEW w \in Writers, Write(w), ~Stage(w),
           files' = files, candidates' = candidates,
           pc'[w] \in Unconstrained \cup {"discard", "undo"} \/ pc' = pc,
           pc'[w] = "discard" /\ pc[w] # "discard" => Marked,
           pc'[w] = "undo" /\ pc[w] # "undo" => pc[w] \in Replacing
    PROVE  ImageInv'
<1>0. FilesOK /\ Position(w) /\ Found /\ Place(w) /\ SamePublication
    BY FilesTyped, DiskMoves DEF Base, ImageInv, Leaves, Replaces, Detaches, Remarks
<1>1. disk' = disk /\ kept' = kept
    BY DEF files
<1>2. CASE pc'[w] \in Unconstrained
    BY <1>1, <1>2, Unplaced, Calm
<1>3. CASE pc'[w] = pc[w]
    <2>1. Place(w)'
        BY <1>0, <1>1, <1>3 DEF Place, Open, Has, Speaks, SamePublication
    <2> QED
        BY <1>1, <2>1, Calm
<1>4. CASE pc'[w] = "discard" /\ pc[w] # "discard"
    <2>1. Settled
        BY <1>0, <1>4, DiskFacts DEF Settled, Marked, Speaks
    <2>2. Single
        BY <1>0, <2>1 DEF Found
    <2>3. Place(w)'
        BY <1>1, <1>4, <2>2 DEF Place, Single, Replacing, Journalling
    <2> QED
        BY <1>1, <2>3, Calm
<1>5. CASE pc'[w] = "undo" /\ pc[w] # "undo"
    <2>1. Open /\ kept.pending = {disk.pending} /\ attempt'.after \in candidates'
        BY <1>0, <1>5 DEF Position, Journalled, Place, Journalling, SamePublication
    <2>2. Place(w)'
        BY <1>1, <1>5, <2>1 DEF Place, Open, Has, Replacing
    <2> QED
        BY <1>1, <2>2, Calm
<1> QED
    BY <1>2, <1>3, <1>4, <1>5

LEMMA WriteImage ==
    ASSUME Base, ImageInv, "sync" \notin Faults, NEW w \in Writers, Write(w)
    PROVE  ImageInv'
<1>0. FilesOK /\ TypeOK /\ Position(w) /\ Place(w)
    BY FilesTyped DEF Base, ImageInv
<1>1. CASE RestoreManifest(w) \/ RestoreLock(w)
    BY <1>1, RestoreImage
<1>2. CASE Discard(w) \/ Detach(w)
    BY <1>2, DetachImage
<1>3. CASE PutManifest(w) \/ PutLock(w) \/ Mark(w)
    BY <1>3, ReplaceImage
<1>4. CASE Stage(w)
    BY <1>4, StageImage
<1>5. CASE SyncedProject(w) \/ SyncedMarker(w)
    BY <1>5, SyncImage
<1>6. CASE /\ ~Stage(w)
           /\ \/ LockForWriting(w) \/ NoRecovery(w) \/ SkipCommitted(w) \/ BeginRestore(w)
              \/ Preview(w) \/ AdmitCommit(w) \/ NothingToWithdraw(w) \/ FailPublishing(w)
              \/ KillWriter(w)
    <2>1. files' = files /\ candidates' = candidates
        BY <1>6 DEF LockForWriting, NoRecovery, SkipCommitted, BeginRestore, Preview, AdmitCommit,
           NothingToWithdraw, FailPublishing, KillWriter, Step, ghosts
    <2>2. /\ pc'[w] \in Unconstrained \cup {"discard", "undo"} \/ pc' = pc
          /\ pc'[w] = "discard" /\ pc[w] # "discard" => Marked
          /\ pc'[w] = "undo" /\ pc[w] # "undo" => pc[w] \in Replacing
        <3>1. CASE SkipCommitted(w)
            BY <1>0, <3>1 DEF SkipCommitted, Step, Goto, TypeOK, Marked, Has
        <3>2. CASE FailPublishing(w)
            BY <1>0, <3>2 DEF FailPublishing, Step, Goto, TypeOK, Replacing
        <3>3. CASE ~SkipCommitted(w) /\ ~FailPublishing(w)
            BY <1>0, <1>6, <3>3 DEF LockForWriting, NoRecovery, BeginRestore, Preview, AdmitCommit,
               NothingToWithdraw, KillWriter, Step, Goto, TypeOK, Unconstrained
        <3> QED
            BY <3>1, <3>2, <3>3
    <2> QED
        BY <1>6, <2>1, <2>2, QuietImage
<1>7. CASE /\ ~Stage(w)
           /\ RefuseStale(w) \/ ReportUndone(w) \/ ReportOk(w) \/ KeepMarker(w) \/ FailCall(w)
              \/ FailedSync(w)
    <2>1. PICK answer : Return(w, answer)
        BY <1>7 DEF RefuseStale, ReportUndone, ReportOk, KeepMarker, FailCall, FailedSync
    <2>2. files' = files /\ candidates' = candidates /\ pc'[w] = "idle"
        BY <1>0, <2>1 DEF Return, Goto, TypeOK
    <2> QED
        BY <1>7, <2>2, QuietImage DEF Unconstrained
<1>8. ~Withdraw(w) /\ ~SyncedWithdrawal(w)
    BY <1>0 DEF Withdraw, SyncedWithdrawal, Place, Open, Step
<1> QED
    BY <1>1, <1>2, <1>3, <1>4, <1>5, <1>6, <1>7, <1>8 DEF Write, Recovery, Publication, Failure

LEMMA PowerImage ==
    ASSUME Base, ImageInv, PowerLoss
    PROVE  ImageInv'
<1>0. FilesOK /\ Found
    BY FilesTyped DEF Base, ImageInv
<1>1. /\ disk'.manifest \in kept.manifest /\ disk'.lock \in kept.lock
      /\ disk'.pending \in kept.pending
      /\ kept'.manifest = {disk'.manifest} /\ kept'.lock = {disk'.lock}
      /\ kept'.pending = {disk'.pending}
      /\ UNCHANGED <<attempt, candidates>>
    BY <1>0, LosesPower DEF PowerLoss, ghosts
<1>2. Settled => PairOf(disk)' = PairOf(disk)
    BY <1>0, <1>1 DEF Found, Single, PairOf
<1>3. Settled' => Settled
    BY <1>1 DEF Settled, Speaks
<1>4. Found'
    <2>1. \A j \in kept'.pending : Speaks(j) => j.before \in candidates'
        BY <1>0, <1>1 DEF Found
    <2>2. Settled' => Single' /\ PairOf(disk)' \in candidates'
        BY <1>0, <1>1, <1>2, <1>3 DEF Found, Single
    <2>3. ~(Settled' /\ Open')
        BY <1>1 DEF Settled, Open, Has, Speaks
    <2> QED
        BY <2>1, <2>2, <2>3 DEF Found, Speaks
<1>5. attempt'.outcome = "ok" =>
         (\A j \in kept'.pending : ~Speaks(j)) /\ PairOf(disk)' = attempt'.after
    BY <1>1, <1>2 DEF ImageInv, Settled
<1>6. attempt'.outcome = "failed" => Survives(attempt.before)'
    <2> SUFFICES ASSUME attempt.outcome = "failed" PROVE Survives(attempt.before)'
        BY <1>1
    <2>1. Survives(attempt.before)
        BY DEF ImageInv
    <2>2. IF Speaks(disk'.pending) THEN disk'.pending.before = attempt.before
          ELSE PairOf(disk)' = attempt.before
        BY <1>1, <1>2, <2>1 DEF Survives, Settled
    <2> QED
        BY <1>1, <2>2 DEF Survives, Speaks
<1>7. \A v \in Writers : Place(v)' /\ goal'[v] # "undone"
    BY PowerBase, Unplaced DEF Unconstrained
<1> QED
    BY <1>4, <1>5, <1>6, <1>7 DEF ImageInv, Speaks

LEMMA InitImage == ASSUME Init PROVE ImageInv
<1>0. Base
    BY InitBase
<1>1. PICK p \in Pair :
         /\ disk = [manifest |-> p.manifest, lock |-> p.lock, pending |-> NoJournal]
         /\ attempt = [before |-> p, after |-> p, outcome |-> "ok"] /\ candidates = {p}
    BY DEF Init
<1>2. DOMAIN disk = {"manifest", "lock", "pending"}
    BY <1>1
<1>3. kept = [e \in {"manifest", "lock", "pending"} |-> {disk[e]}]
    BY <1>2 DEF Init
<1>4. /\ kept.manifest = {disk.manifest} /\ kept.lock = {disk.lock} /\ kept.pending = {NoJournal}
      /\ PairOf(disk) = p /\ ~Has /\ attempt.outcome = "ok" /\ attempt.after = p
    BY <1>1, <1>3 DEF PairOf, Pair, Has
<1>5. Found
    BY <1>1, <1>4 DEF Found, Speaks, Single, Open
<1>6. \A w \in Writers : pc[w] = "idle" /\ goal[w] = "none"
    BY DEF Init
<1>7. \A w \in Writers : Place(w)
    BY <1>6 DEF Place, Replacing, Journalling
<1> QED
    BY <1>4, <1>5, <1>6, <1>7 DEF ImageInv, Speaks

LEMMA ImageStep ==
    ASSUME Base, ImageInv, "sync" \notin Faults, [Next]_vars
    PROVE  ImageInv'
<1>1. ASSUME UNCHANGED <<disk, kept, pc, goal, attempt, candidates>> PROVE ImageInv'
    BY <1>1 DEF ImageInv, Found, Place, Survives, Settled, Single, PairOf, Open, Has, Speaks
<1>2. CASE \E r \in Readers : Read(r)
    BY <1>1, <1>2, ReadBase
<1>3. CASE UNCHANGED vars
    BY <1>1, <1>3 DEF vars, files, writer, ghosts
<1> QED
    BY <1>2, <1>3, WriteImage, PowerImage DEF Next

LEMMA ImageInvariant == ASSUME "sync" \notin Faults PROVE Spec => [](Base /\ ImageInv)
<1>1. Init => Base /\ ImageInv
    BY InitBase, InitImage
<1>2. Base /\ ImageInv /\ [Next]_vars => (Base /\ ImageInv)'
    BY NextBase, ImageStep
<1> QED
    BY <1>1, <1>2, PTL DEF Spec

(* Any number of writers, kills and power losses, while no directory sync     *)
(* fails: whatever of the unsynced changes survives, recovery finds a pair    *)
(* that was published whole.                                                  *)
THEOREM WholeTheorem == ASSUME "sync" \notin Faults PROVE Spec => []EveryImageWhole
<1>1. Base /\ ImageInv => EveryImageWhole
    <2> SUFFICES ASSUME Base, ImageInv, NEW image \in Images
                 PROVE  Accepted(image) \in candidates
        BY DEF EveryImageWhole
    <2>1. /\ image.manifest \in kept.manifest /\ image.lock \in kept.lock
          /\ image.pending \in kept.pending
        BY DEF Images
    <2>2. CASE Speaks(image.pending)
        BY <2>1, <2>2 DEF ImageInv, Found, Speaks, Accepted
    <2>3. CASE ~Speaks(image.pending)
        <3>1. Accepted(image) = PairOf(disk)
            BY <2>1, <2>3 DEF ImageInv, Found, Settled, Single, Speaks, Accepted, PairOf
        <3> QED
            BY <2>1, <2>3, <3>1 DEF ImageInv, Found, Settled
    <2> QED
        BY <2>2, <2>3
<1> QED
    BY <1>1, ImageInvariant, PTL

(* And what a publication reported stays true: a success is accepted after    *)
(* any later crash, a failure is not.                                         *)
THEOREM DurableTheorem == ASSUME "sync" \notin Faults PROVE Spec => []OutcomeDurable
<1>1. Base /\ ImageInv => OutcomeDurable
    <2> SUFFICES ASSUME Base, ImageInv, NEW image \in Images
                 PROVE  /\ attempt.outcome = "ok" => Accepted(image) = attempt.after
                        /\ attempt.outcome = "failed" => Accepted(image) = attempt.before
        BY DEF OutcomeDurable
    <2>1. /\ image.manifest \in kept.manifest /\ image.lock \in kept.lock
          /\ image.pending \in kept.pending
        BY DEF Images
    <2>2. /\ Speaks(image.pending) => Accepted(image) = image.pending.before
          /\ ~Speaks(image.pending) => Accepted(image) = PairOf(disk)
        <3>1. ~Speaks(image.pending) => Single
            BY <2>1 DEF ImageInv, Found, Settled
        <3> QED
            BY <2>1, <3>1 DEF Speaks, Accepted, Single, PairOf
    <2>3. attempt.outcome = "ok" => Accepted(image) = attempt.after
        BY <2>1, <2>2 DEF ImageInv
    <2>4. attempt.outcome = "failed" => Accepted(image) = attempt.before
        BY <2>1, <2>2 DEF ImageInv, Survives
    <2> QED
        BY <2>3, <2>4
<1> QED
    BY <1>1, ImageInvariant, PTL
=============================================================================
