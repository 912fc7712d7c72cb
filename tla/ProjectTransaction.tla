------------------------- MODULE ProjectTransaction -------------------------
(***************************************************************************)
(* Publication of a project's manifest together with its accepted lock     *)
(* (eqiora-api/src/package/local_directory/transaction.rs and its callers  *)
(* update.rs, offline.rs, local_directory.rs).  Writers preview an update  *)
(* and later commit it, readers open the accepted pair; every step is one  *)
(* file-system operation, any of them may fail, and processes die at any   *)
(* point.                                                                  *)
(*                                                                         *)
(* `disk` is the directory as the running system sees it, `kept` the       *)
(* values each entry may have after a power loss: a change adds one, a     *)
(* successful directory sync leaves only the current one.  File contents   *)
(* are synced before a file gets its name, so a name never shows a torn    *)
(* file.  The stage and garbage directories, which no reader looks for,    *)
(* are not represented.                                                    *)
(***************************************************************************)
EXTENDS Naturals, FiniteSets

CONSTANTS
    Writers, Readers,
    Manifests,    \* bytes of a manifest
    Locks,        \* bytes of an accepted lock
    NoLock,       \* eqiora.lock does not exist
    JournalIds,   \* names of staged journals: process id and counter
    NoJournal,    \* .eqiora-project-pending does not exist
    NoPlan,       \* no ProjectUpdate in hand
    Unseen,       \* not read yet
    Faults        \* of "sync", "unlink" and "power", the ones that occur

Pair    == [manifest : Manifests, lock : Locks \cup {NoLock}]
Journal == [id : JournalIds, before : Pair, committed : BOOLEAN]
Plan    == [base : Pair, new : [manifest : Manifests, lock : Locks]]

ASSUME ProjectAssumption ==
    /\ Writers \cap Readers = {}
    /\ NoLock \notin Locks
    /\ NoJournal \notin Journal
    /\ NoPlan \notin Plan
    /\ Unseen \notin Manifests \cup Locks \cup {NoLock} \cup Pair
    /\ Faults \subseteq {"sync", "unlink", "power"}

VARIABLES
    disk,         \* manifest, lock and pending journal, as the system sees them
    kept,         \* entry |-> the values that may survive a power loss
    guardFile,    \* .eqiora-project-write exists
    exclusive,    \* processes that hold its lock exclusively
    shared,       \* processes that hold it shared
    pc,           \* writer |-> its next step, "idle" between calls
    goal,         \* writer |-> what it is recovering for
    plan,         \* writer |-> the ProjectUpdate it holds
    reading,      \* reader |-> its next step
    seen,         \* reader |-> what it has read
    attempt,      \* the last publication that put its journal in place, and
                  \* what it reported (not in the code)
    candidates    \* the pairs a power loss may choose from since then (not in
                  \* the code)

files  == <<disk, kept>>
guards == <<guardFile, exclusive, shared>>
writer == <<pc, goal, plan>>
reader == <<reading, seen>>
ghosts == <<attempt, candidates>>
vars   == <<files, guards, writer, reader, ghosts>>

PairOf(d) == [manifest |-> d.manifest, lock |-> d.lock]

(* The pair recovery would leave: an uncommitted journal speaks for the     *)
(* files, otherwise the files do.                                           *)
Accepted(d) == IF d.pending # NoJournal /\ ~d.pending.committed
               THEN d.pending.before
               ELSE PairOf(d)

(* What a power loss may leave.                                             *)
Images == [manifest : kept.manifest, lock : kept.lock, pending : kept.pending]

Init ==
    /\ \E p \in Pair :
         /\ disk = [manifest |-> p.manifest, lock |-> p.lock, pending |-> NoJournal]
         /\ attempt = [before |-> p, after |-> p, outcome |-> "ok"]
         /\ candidates = {p}
    /\ kept = [e \in DOMAIN disk |-> {disk[e]}]
    /\ guardFile \in BOOLEAN
    /\ exclusive = {}
    /\ shared = {}
    /\ pc = [w \in Writers |-> "idle"]
    /\ goal = [w \in Writers |-> "none"]
    /\ plan = [w \in Writers |-> NoPlan]
    /\ reading = [r \in Readers |-> "idle"]
    /\ seen = [r \in Readers |-> [manifest |-> Unseen, lock |-> Unseen]]

-----------------------------------------------------------------------------
(* The file system.                                                         *)

(* rename or unlink: seen at once, durable after the next sync.             *)
Put(entry, value) ==
    /\ disk' = [disk EXCEPT ![entry] = value]
    /\ kept' = [kept EXCEPT ![entry] = @ \cup {value}]

SameJournal(i, j) == i = j \/ (NoJournal \notin {i, j} /\ i.id = j.id)

(* fsync of the project directory decides its three entries, not the        *)
(* entries of the journal it may contain.                                   *)
SyncProject ==
    kept' = [manifest |-> {disk.manifest},
             lock     |-> {disk.lock},
             pending  |-> {j \in kept.pending : SameJournal(j, disk.pending)}]

(* fsync of the journal directory: its commit marker.                       *)
SyncJournal ==
    kept' = [kept EXCEPT !.pending =
               {j \in @ : SameJournal(j, disk.pending) => j = disk.pending}]

-----------------------------------------------------------------------------
(* Writers: the guard.                                                      *)

Goto(w, step) == pc' = [pc EXCEPT ![w] = step]

(* write_guard, at the beginning of preview and of ProjectUpdate::commit.   *)
LockForWriting(w) ==
    /\ pc[w] = "idle"
    /\ guardFile' = TRUE
    /\ IF exclusive = {} /\ shared = {}
       THEN /\ exclusive' = {w}
            /\ Goto(w, "recover")
            /\ goal' = [goal EXCEPT ![w] = IF plan[w] = NoPlan THEN "preview"
                                                              ELSE "commit"]
            /\ UNCHANGED plan
       ELSE /\ plan' = [plan EXCEPT ![w] = NoPlan]
            /\ UNCHANGED <<exclusive, pc, goal>>
    /\ UNCHANGED <<files, shared, reader, ghosts>>

(* The call ends with the guard dropped; commit consumes its plan.  A       *)
(* publication that put its journal in place reports `answer`.              *)
Publishing == {"putManifest", "syncManifest", "putLock", "syncLock", "mark",
               "syncMark"}
Cleaning   == {"detach", "syncDetach", "done"}
Staged(w)  == \/ pc[w] \in Publishing \cup Cleaning \cup
                           {"syncStage", "undo", "syncUndo"}
              \/ goal[w] = "undone"

Return(w, answer) ==
    /\ exclusive' = exclusive \ {w}
    /\ Goto(w, "idle")
    /\ goal' = [goal EXCEPT ![w] = "none"]
    /\ plan' = [plan EXCEPT ![w] = NoPlan]
    /\ attempt' = IF Staged(w) THEN [attempt EXCEPT !.outcome = answer] ELSE attempt
    /\ UNCHANGED <<files, guardFile, shared, reader, candidates>>

Step(w, from, to) ==
    /\ pc[w] = from
    /\ Goto(w, to)
    /\ UNCHANGED <<guards, goal, plan, reader, ghosts>>

-----------------------------------------------------------------------------
(* Writers: recovery.                                                       *)

NoRecovery(w) == /\ Step(w, "recover", "ready")
                 /\ disk.pending = NoJournal
                 /\ UNCHANGED files

(* Faulty variant: every journal found is taken for a committed one.        *)
SkipAny(w) == /\ Step(w, "recover", "discard")
              /\ disk.pending # NoJournal
              /\ UNCHANGED files

SkipCommitted(w) == /\ Step(w, "recover", "discard")
                    /\ disk.pending # NoJournal
                    /\ disk.pending.committed
                    /\ UNCHANGED files

BeginRestore(w) == /\ Step(w, "recover", "restoreManifest")
                   /\ disk.pending # NoJournal
                   /\ ~disk.pending.committed
                   /\ UNCHANGED files

RestoreManifest(w) == /\ Step(w, "restoreManifest", "syncRestoredManifest")
                      /\ Put("manifest", disk.pending.before.manifest)

(* Faulty variant: a lock that did not exist comes back as an empty file.   *)
RestoreLockEmpty(w) ==
    /\ Step(w, "restoreLock", "syncRestoredLock")
    /\ Put("lock", IF disk.pending.before.lock = NoLock
                   THEN {} ELSE disk.pending.before.lock)

(* A lock that did not exist is removed again.                              *)
RestoreLock(w) == /\ Step(w, "restoreLock", "syncRestoredLock")
                  /\ Put("lock", disk.pending.before.lock)

(* discard renames the journal away; what it removes afterwards is no       *)
(* longer pending.                                                          *)
Discard(w) == /\ Step(w, "discard", "syncDiscard")
              /\ Put("pending", NoJournal)

-----------------------------------------------------------------------------
(* Writers: what they recover for.                                          *)

(* preview: freeze the pair and the update computed from it, drop the       *)
(* guard.                                                                   *)
Preview(w) ==
    /\ pc[w] = "ready"
    /\ goal[w] = "preview"
    /\ \E new \in [manifest : Manifests, lock : Locks] :
         plan' = [plan EXCEPT ![w] = [base |-> PairOf(disk), new |-> new]]
    /\ exclusive' = exclusive \ {w}
    /\ Goto(w, "idle")
    /\ goal' = [goal EXCEPT ![w] = "none"]
    /\ UNCHANGED <<files, guardFile, shared, reader, ghosts>>

(* Faulty variant: the pair is not compared.                                *)
AdmitAnyCommit(w) ==
    /\ Step(w, "ready", "stage")
    /\ goal[w] = "commit"
    /\ UNCHANGED files

(* ProjectUpdate::commit compares the pair with the one it was computed     *)
(* from, then installs the releases.                                        *)
AdmitCommit(w) ==
    /\ Step(w, "ready", "stage")
    /\ goal[w] = "commit"
    /\ PairOf(disk) = plan[w].base
    /\ UNCHANGED files

RefuseStale(w) ==
    /\ pc[w] = "ready"
    /\ goal[w] = "commit"
    /\ PairOf(disk) # plan[w].base
    /\ Return(w, "stale")

(* The recovery of a failed publication returns that failure.               *)
ReportUndone(w) ==
    /\ pc[w] = "ready"
    /\ goal[w] = "undone"
    /\ Return(w, "failed")

-----------------------------------------------------------------------------
(* Writers: publication, commit_using.                                      *)

(* Faulty variant: the files are replaced before the journal is durable.    *)
StageUnsynced(w) ==
    /\ pc[w] = "stage"
    /\ \E id \in JournalIds :
         /\ \A j \in kept.pending \ {NoJournal} : j.id # id
         /\ Put("pending", [id |-> id, before |-> PairOf(disk),
                            committed |-> FALSE])
    /\ Goto(w, "putManifest")
    /\ attempt' = [before |-> PairOf(disk), after |-> plan[w].new,
                   outcome |-> "open"]
    /\ candidates' = {Accepted(image) : image \in Images} \cup {plan[w].new}
    /\ UNCHANGED <<guards, goal, plan, reader>>

(* The journal holds the pair as it is, is complete and durable before it   *)
(* gets the name recovery looks for.                                        *)
Stage(w) ==
    /\ pc[w] = "stage"
    /\ \E id \in JournalIds :
         /\ \A j \in kept.pending \ {NoJournal} : j.id # id
         /\ Put("pending", [id |-> id, before |-> PairOf(disk),
                            committed |-> FALSE])
    /\ Goto(w, "syncStage")
    /\ attempt' = [before |-> PairOf(disk), after |-> plan[w].new,
                   outcome |-> "open"]
    /\ candidates' = {Accepted(image) : image \in Images} \cup {plan[w].new}
    /\ UNCHANGED <<guards, goal, plan, reader>>

PutManifest(w) == /\ Step(w, "putManifest", "syncManifest")
                  /\ Put("manifest", plan[w].new.manifest)

PutLock(w) == /\ Step(w, "putLock", "syncLock")
              /\ Put("lock", plan[w].new.lock)

(* Faulty variant: success does not wait for the marker to be durable.      *)
MarkUnsynced(w) ==
    /\ Step(w, "mark", "detach")
    /\ Put("pending", [disk.pending EXCEPT !.committed = TRUE])

(* The marker is a file: creating it, and syncing its content, which may    *)
(* fail with the file there.                                                *)
Mark(w) == /\ \/ Step(w, "mark", "syncMark")
              \/ "sync" \in Faults /\ Step(w, "mark", "undo")
           /\ Put("pending", [disk.pending EXCEPT !.committed = TRUE])

(* The journal is detached after success; it may stay where it is.          *)
Detach(w) == /\ Step(w, "detach", "syncDetach")
             /\ Put("pending", NoJournal)

(* Cleanup is over, whether or not it succeeded.                            *)
ReportOk(w) ==
    /\ \/ pc[w] \in {"detach", "done"}
       \/ pc[w] = "syncDetach" /\ "sync" \in Faults
    /\ Return(w, "ok")

-----------------------------------------------------------------------------
(* Writers: failures.                                                       *)

(* Faulty variant: the marker stays, recovery takes it for success.         *)
WithdrawNothing(w) ==
    /\ pc[w] = "undo"
    /\ disk.pending.committed
    /\ Goto(w, "recover")
    /\ goal' = [goal EXCEPT ![w] = "undone"]
    /\ UNCHANGED <<files, guards, plan, reader, ghosts>>

(* The error path of commit_using withdraws the marker before it recovers.  *)
Withdraw(w) ==
    /\ Step(w, "undo", "syncUndo")
    /\ disk.pending.committed
    /\ Put("pending", [disk.pending EXCEPT !.committed = FALSE])

NothingToWithdraw(w) ==
    /\ pc[w] = "undo"
    /\ ~disk.pending.committed
    /\ Goto(w, "recover")
    /\ goal' = [goal EXCEPT ![w] = "undone"]
    /\ UNCHANGED <<files, guards, plan, reader, ghosts>>

(* The marker can neither be synced nor withdrawn: the call reports failure *)
(* and leaves a journal that recovery takes for a success.                  *)
KeepMarker(w) ==
    /\ "unlink" \in Faults
    /\ pc[w] = "undo"
    /\ disk.pending.committed
    /\ Return(w, "stuck")

(* A write, rename or read fails, or the installation of a release does.    *)
FailPublishing(w) == /\ pc[w] \in {"putManifest", "putLock", "mark"}
                     /\ Step(w, pc[w], "undo")
                     /\ UNCHANGED files

FailCall(w) == /\ pc[w] \in {"recover", "restoreManifest", "restoreLock",
                             "discard", "ready", "stage"}
               /\ Return(w, "failed")

-----------------------------------------------------------------------------
(* Writers: directory syncs.                                                *)

AfterSync == [syncRestoredManifest |-> "restoreLock",
              syncRestoredLock |-> "discard",
              syncDiscard |-> "ready",
              syncStage |-> "putManifest",
              syncManifest |-> "putLock",
              syncLock |-> "mark",
              syncDetach |-> "done"]

SyncedProject(w) == /\ pc[w] \in DOMAIN AfterSync
                    /\ Step(w, pc[w], AfterSync[pc[w]])
                    /\ SyncProject
                    /\ UNCHANGED disk

SyncedMarker(w) == /\ Step(w, "syncMark", "detach")
                   /\ SyncJournal
                   /\ UNCHANGED disk

SyncedWithdrawal(w) == /\ pc[w] = "syncUndo"
                       /\ Goto(w, "recover")
                       /\ goal' = [goal EXCEPT ![w] = "undone"]
                       /\ SyncJournal
                       /\ UNCHANGED <<disk, guards, plan, reader, ghosts>>

FailedSync(w) ==
    /\ "sync" \in Faults
    /\ \/ /\ pc[w] \in {"syncManifest", "syncLock", "syncMark"}
          /\ Step(w, pc[w], "undo")
          /\ UNCHANGED files
       \/ /\ pc[w] \in {"syncRestoredManifest", "syncRestoredLock",
                        "syncDiscard", "syncStage", "syncUndo"}
          /\ Return(w, "failed")

-----------------------------------------------------------------------------
(* Readers.                                                                 *)

ReadStep(r, from, to) ==
    /\ reading[r] = from
    /\ reading' = [reading EXCEPT ![r] = to]
    /\ UNCHANGED <<files, guardFile, exclusive, writer, ghosts>>

LeaveReading(r) ==
    /\ reading' = [reading EXCEPT ![r] = "idle"]
    /\ seen' = [seen EXCEPT ![r] = [manifest |-> Unseen, lock |-> Unseen]]
    /\ shared' = shared \ {r}
    /\ UNCHANGED <<files, guardFile, exclusive, writer, ghosts>>

(* Faulty variant: the shared lock does not look at the exclusive one.      *)
LockForReadingAnyway(r) ==
    /\ ReadStep(r, "idle", "check")
    /\ shared' = IF guardFile THEN shared \cup {r} ELSE shared
    /\ UNCHANGED seen

(* read_guard: no guard file, no lock.  A refused lock is an error.         *)
LockForReading(r) ==
    /\ ReadStep(r, "idle", "check")
    /\ guardFile => exclusive = {}
    /\ shared' = IF guardFile THEN shared \cup {r} ELSE shared
    /\ UNCHANGED seen

(* require_complete                                                         *)
RequireComplete(r) ==
    /\ disk.pending = NoJournal
    /\ ReadStep(r, "check", "lock")
    /\ UNCHANGED <<shared, seen>>

(* The editor's reader goes on without a lock when there is none.           *)
FindNoLock(r) ==
    /\ disk.lock = NoLock
    /\ ReadStep(r, "lock", "manifest")
    /\ seen' = [seen EXCEPT ![r].lock = NoLock]
    /\ UNCHANGED shared

(* read_project_lock takes a read_guard of its own, refused while a writer  *)
(* has the guard.  A reader that had found no guard file may find it now,   *)
(* and holds it for this read only.                                         *)
GuardLock(r) ==
    /\ guardFile => exclusive = {}
    /\ ReadStep(r, "lock", IF guardFile /\ r \notin shared THEN "briefly" ELSE "guarded")
    /\ shared' = IF guardFile THEN shared \cup {r} ELSE shared
    /\ UNCHANGED seen

(* accepted_lock reads the lock, beside or from the journal.                *)
ReadLock(r) ==
    /\ reading[r] \in {"briefly", "guarded"}
    /\ Accepted(disk).lock # NoLock
    /\ ReadStep(r, reading[r], "manifest")
    /\ seen' = [seen EXCEPT ![r].lock = Accepted(disk).lock]
    /\ shared' = IF reading[r] = "briefly" THEN shared \ {r} ELSE shared

ReadManifest(r) ==
    /\ ReadStep(r, "manifest", "using")
    /\ seen' = [seen EXCEPT ![r].manifest = disk.manifest]
    /\ UNCHANGED shared

(* The reader is done, or one of its steps returned an error.               *)
EndReading(r) == reading[r] # "idle" /\ LeaveReading(r)

-----------------------------------------------------------------------------
(* Crashes.                                                                 *)

(* A killed process loses its plan; the system releases its lock.           *)
KillWriter(w) ==
    /\ pc[w] # "idle" \/ plan[w] # NoPlan
    /\ exclusive' = exclusive \ {w}
    /\ Goto(w, "idle")
    /\ goal' = [goal EXCEPT ![w] = "none"]
    /\ plan' = [plan EXCEPT ![w] = NoPlan]
    /\ UNCHANGED <<files, guardFile, shared, reader, ghosts>>

(* Nothing syncs the guard file for its own sake; whether a later sync of   *)
(* the directory has kept it is not tracked, so it may always be lost.      *)
PowerLoss ==
    /\ "power" \in Faults
    /\ guardFile' \in {guardFile, FALSE}
    /\ disk' \in Images
    /\ kept' = [e \in DOMAIN disk |-> {disk'[e]}]
    /\ exclusive' = {}
    /\ shared' = {}
    /\ pc' = [w \in Writers |-> "idle"]
    /\ goal' = [w \in Writers |-> "none"]
    /\ plan' = [w \in Writers |-> NoPlan]
    /\ reading' = [r \in Readers |-> "idle"]
    /\ seen' = [r \in Readers |-> [manifest |-> Unseen, lock |-> Unseen]]
    /\ UNCHANGED ghosts

Recovery(w) == \/ NoRecovery(w) \/ SkipCommitted(w) \/ BeginRestore(w)
               \/ RestoreManifest(w) \/ RestoreLock(w) \/ Discard(w)

Publication(w) == \/ Stage(w) \/ PutManifest(w) \/ PutLock(w) \/ Mark(w)
                  \/ Detach(w) \/ ReportOk(w)

Failure(w) == \/ Withdraw(w) \/ NothingToWithdraw(w) \/ KeepMarker(w)
              \/ FailPublishing(w) \/ FailCall(w) \/ FailedSync(w)

Write(w) == \/ LockForWriting(w) \/ Recovery(w)
            \/ Preview(w) \/ AdmitCommit(w) \/ RefuseStale(w) \/ ReportUndone(w)
            \/ Publication(w) \/ Failure(w)
            \/ SyncedProject(w) \/ SyncedMarker(w) \/ SyncedWithdrawal(w)
            \/ KillWriter(w)

Read(r) == \/ LockForReading(r) \/ RequireComplete(r) \/ FindNoLock(r)
           \/ GuardLock(r) \/ ReadLock(r) \/ ReadManifest(r) \/ EndReading(r)

Next == (\E w \in Writers : Write(w)) \/ (\E r \in Readers : Read(r)) \/ PowerLoss

Spec == Init /\ [][Next]_vars

-----------------------------------------------------------------------------

Steps == {"idle", "recover", "restoreManifest", "restoreLock", "discard",
          "ready", "stage", "undo", "syncUndo"}
            \cup DOMAIN AfterSync \cup Publishing \cup Cleaning

ReaderSteps == {"idle", "check", "lock", "briefly", "guarded", "manifest", "using"}

(* Every variable has its type.                                             *)
TypeOK ==
    /\ disk \in [manifest : Manifests, lock : Locks \cup {NoLock},
                 pending : Journal \cup {NoJournal}]
    /\ kept \in [manifest : SUBSET Manifests, lock : SUBSET (Locks \cup {NoLock}),
                 pending : SUBSET (Journal \cup {NoJournal})]
    /\ disk \in Images
    /\ guardFile \in BOOLEAN
    /\ exclusive \subseteq Writers
    /\ shared \subseteq Readers
    /\ pc \in [Writers -> Steps]
    /\ goal \in [Writers -> {"none", "preview", "commit", "undone"}]
    /\ plan \in [Writers -> Plan \cup {NoPlan}]
    /\ reading \in [Readers -> ReaderSteps]
    /\ seen \in [Readers -> [manifest : Manifests \cup {Unseen},
                             lock : Locks \cup {NoLock, Unseen}]]
    /\ attempt \in [before : Pair, after : Pair,
                    outcome : {"open", "ok", "failed", "stuck"}]
    /\ candidates \subseteq Pair

(* While no power is lost, the accepted pair is the one before or the one   *)
(* after the last publication, whatever fails and whoever dies: the next    *)
(* writer's recovery never leaves a manifest with a foreign lock.           *)
OldOrNew ==
    /\ Accepted(disk) \in {attempt.before, attempt.after}
    /\ disk.pending = NoJournal => PairOf(disk) \in {attempt.before, attempt.after}

(* Whatever of the unsynced changes survives a power loss, recovery finds a *)
(* pair that was published whole.                                           *)
EveryImageWhole == \A image \in Images : Accepted(image) \in candidates

(* A publication that returned success is accepted after any crash; one     *)
(* that returned failure is not.                                            *)
OutcomeDurable ==
    \A image \in Images :
       /\ attempt.outcome = "ok" => Accepted(image) = attempt.after
       /\ attempt.outcome = "failed" => Accepted(image) = attempt.before

(* A publication that returned failure left the previous pair accepted      *)
(* ("A failed transaction retains the previous pair", ProjectUpdate::commit), *)
(* but for one whose marker is stuck.                                       *)
FailureRetains == attempt.outcome = "failed" => Accepted(disk) = attempt.before

(* A writer publishes over exactly the pair its update was computed from,   *)
(* although it let go of the guard in between.                              *)
NoLostUpdate ==
    \A w \in Writers :
       /\ pc[w] = "stage" => Accepted(disk) = plan[w].base
       /\ pc[w] \in Publishing => attempt.before = plan[w].base

(* "The caller retains a shared guard for the duration of the read"         *)
(* (accepted_lock): no writer gets the guard after a reader has read the    *)
(* lock and before it is done with the manifest that goes with it.          *)
ReaderExcludesWriter ==
    (\E r \in Readers : reading[r] \in {"manifest", "using"} /\ seen[r].lock \in Locks)
       => exclusive = {}

-----------------------------------------------------------------------------

Promise ==
    INSTANCE RecoverablePair
    WITH Pairs      <- Pair,
         Users      <- Readers,
         NotReading <- Unseen,
         pair       <- Accepted(disk),
         choice     <- {attempt.before, attempt.after},
         using      <- [r \in Readers |->
                          IF r \in shared /\ reading[r] = "using"
                          THEN seen[r] ELSE Unseen]

(* While no power is lost, publication and recovery implement the atomic    *)
(* pair.                                                                    *)
ImplementsPair == Promise!Spec
=============================================================================
