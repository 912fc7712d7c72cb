# Eqiora verification

TLA+ specifications of the stateful parts of Eqiora, the TLC configurations
that check them on small instances, and TLAPS proofs of what matters most for
every value of the constants. `PROJECT.json` lists the components, the runs,
the source lines each definition stands for, the hazards and the findings.

Run one configuration with `tlc -workers 2 -config GraphStore.cfg MCGraphStore`,
the proofs with `tlapm X.tla`, for X one of `GraphStoreProofs`,
`ProjectTransactionProofs`, `RunLifecycleProofs`, `EvaluationMapProofs`,
`PackageInstallerProofs`, `MpiCollectivesProofs`, `MpiDiagnosticsProofs` and
`LanguageServerProofs`.

## Inventory

Most of Eqiora's 800,000 lines of Rust are numerical or sequential: parsing,
elaboration, assembly, solvers, geometry, file formats. The parts whose
correctness depends on the order of events are few, and these are what the
project is about.

| Component | State | Operations | What is hard | What makes it correct |
|---|---|---|---|---|
| Graph Federation store (`eqiora-graph`) | nodes, edges, views, revision, commit history; immutable snapshots | validate, commit, snapshot, restore_snapshot; seven operations inside a transaction | operations run on after a failure; checks against the starting and the candidate state; a plan made from an old snapshot | atomic commits, no dangling edge, unique ULIDs, complete views, provenance equals history |
| Entity kinds and edge schema (`eqiora-core`, `eqiora-graph`) | none | `permits` | the relation has many cases | what the store's invariant on edges needs |
| Project transaction (`eqiora-api/src/package/local_directory`) | manifest, lock, journal directory with previous and next files, commit marker, guard file | preview, commit, recovery, guarded reads | kills between any two file operations, failing syncs, power loss, a second writer, readers | the accepted pair is always a whole published pair; a failure keeps the previous one |
| Python Run lifecycle (`eqiora-python`) | RunState behind a mutex, cancellation flag, progress channel, result cache | worker, cancel, progress, result | flag read outside the lock, condition variables, cancellation racing start and completion, several callers projecting one payload | legal transitions, one outcome, one answer, nobody left waiting, exact progress |
| Evaluation map scheduler (`eqiora-api/src/evaluation_map`) | outcome per member, two bounded channels | dispatch, workers, chunks, delivery | failing and panicking members, cancellation during a chunk, bounded channels | every member has an outcome, delivery in order, no deadlock |
| Package installer (`eqiora-package`) | store directory: staging names and digest names; a sequence number per process | install | several threads and processes publish one digest, kills, power loss, staging names left behind | no entry is ever replaced or incomplete, receipts are true |
| Model documents (`eqiora-api`) | a store clone, an ontology and a digest per document | value and geometry edits, undo, redo | revisions of different clones look alike | an edit applies to the document it was planned on |
| Language server (`eqiora-language-server`) | open documents, declared folders, package projects, accepted analyses, a pending version for each group, messages kept for later | LSP messages, scheduling, settling, completed analyses; a worker thread | stale results, cancellation, folder changes during an analysis, messages that arrive while a request waits, a worker that dies | answers and diagnostics are of the texts the editor sent; each request is answered once, in order |
| MPI group (`eqiora-backend-mpi`) | per rank: place in the call, collective trace, halo messages | duplicate, select, bind, execute, gather, agree | one rank fails, finds other records or computes other scalars before an operation that needs it | no operation is entered alone, every rank returns the same answer |
| Spatial distribution | ownership, halos | exchange, assembly | halo order | ghosts are current |
| Device queues | submissions, buffers in flight | enqueue, wait, release | order within a queue, reuse of buffers | completion evidence before reuse |
| Hybrid runtime | continuous state, pending events | integrate, locate, reset | simultaneous events | deterministic resets |
| Git fetch, verification runner | a child process | run, read, time out | deadlines against exit | no orphan, one outcome |
| Language front end, IR, artifacts, schemas, numerics, solvers, geometry, meshing, file adapters, Studio | - | - | sequential or numerical | not a matter for TLC |

The Run lifecycle calls the time runs of `eqiora-numerics`, which call the
Diffsol adapter; all three see the same cancellation flag. Model edits commit
through the graph store. The project transaction and the package installer are
used by the package commands; the first writes author files, the second the
shared content-addressed store. The language server's worker reads packages
through the same API, as one of the transaction's readers, and hears of changes
by file events. The ranks of an MPI group are processes of one program; nothing
else here knows of them.

## Modules

| Module | Stands for |
|---|---|
| `EdgeSchema` | `EntityKind`, its graph, and `EdgeKind::permits` |
| `VersionedGraph` | abstract: a published state that only grows by whole commits |
| `GraphStore` | `InMemoryGraphStore`, one action per graph operation and per call |
| `GraphStoreProofs` | the inductive invariant and the theorems |
| `RecoverablePair` | abstract: manifest and lock change together |
| `ProjectTransaction` | `transaction.rs` and `update.rs`, one action per file operation |
| `ProjectTransactionProofs` | three invariants and the theorems they carry |
| `OneShotRun` | abstract: one outcome, one answer |
| `RunLifecycle` | `RunShared`, `ResultCache`, `run_worker`, and the boundaries of every execution family |
| `RunLifecycleProofs` | its invariants and theorems |
| `OrderedMap` | abstract: one outcome per member, delivery in order |
| `EvaluationMap` | `execute_members` with its two chunk evaluators |
| `EvaluationMapProofs` | its inductive invariant and theorems |
| `WriteOnceStore` | abstract: a digest names nothing or one release |
| `PackageInstaller` | `DirectoryPackageInstaller::install`, one action per file operation |
| `PackageInstallerProofs` | its inductive invariant and theorems |
| `UnanimousRun` | abstract: every rank gives a call the same answer |
| `MpiCollectives` | the calls of `MpiExecutionGroup`, one action per collective operation and per halo message |
| `MpiCollectivesProofs` | what calls are made of, where a rank can be and go; the lockstep of the ranks, and that their operations match |
| `MpiDiagnosticsProofs` | what traces and diagnostics say |
| `EditorSession` | abstract: requests answered once, in order, of the text before them |
| `LanguageServer` | the two threads of `eqiora-language-server`, one action per message, wait or analysis |
| `LanguageServerProofs` | its inductive invariant, theorems and refinement |
| `MC...` | instances: constants, bounds and symmetry for TLC |

Definitions named "Faulty variant" are not part of any specification. Each is
an operation with a plausible mistake, kept beside the one it would replace, to
show that the property listed with it in `PROJECT.json` notices the mistake.

### Graph store

`state` is the published `State`; `txn` is the call in progress with its
candidate state, the operations done and whether one has failed; `snapshots`
are those that clients hold. A client submits any operation sequence up to a
bound, one operation at a time, through `validate` or `commit`, or restores one
of its snapshots. An operation either applies to the candidate (`AddNode`,
`DefineKernelNode`, `SetValue`, `Connect`, `RemoveNode` and the two view
operations) or fails (`FailOp`), and the transaction goes on either way, as the
loop at `store.rs:330` does. `Applied` is `apply_transaction`'s return: views
are checked only if nothing failed. `Mint` gives the provenance node its ULID.

- `GraphStore.cfg`: a client that may hold an older snapshot, every operation
  order. `TypeOK`;
  `EdgesGrounded` (no edge without endpoints or against its schema);
  `UlidsUnique`; `ViewsComplete`; `ProvenanceIsHistory` (Transaction nodes are
  exactly those of the history); `StructuralValuesStable` (the value of a
  Parameter that structure depends on survives every transaction that does not
  remove it); `SnapshotsOnHistory` (what a `RevisionIs` precondition taken from
  a snapshot is worth); `ImplementsFederation` (the store implements
  `VersionedGraph`). That no step rewrites the history is a theorem.

`validate` does not look at the revision counter, so at the last revision it
answers that a transaction would succeed which `commit` then refuses
(`ExhaustCommit`), although its contract (`store.rs:192`) says otherwise. No
run is spent on that.

Bounds: a handful of nodes of the kinds that the rules tell apart, two or
three operations per transaction, a few revisions. Every rule relates at most
two nodes and an edge, or a view and a member, and the orders that break one
(connect then remove, define view then remove member, remove owner then edit)
fit.

### Project transaction

`disk` is what the running system sees, `kept` what is certain to survive a
power loss; they differ by the directory changes not yet synced. `pc`, `goal`
and `plan` are a writer's position, the operation it performs and the update it
previewed; `reading` and `seen` are a reader's.

`Faults` selects the adversary: none of its members means that processes die
between any two file operations and that any operation but a directory sync or
the removal of the marker may fail. `"sync"` lets directory syncs fail,
`"unlink"` the marker's removal, `"power"` lets power go, upon which any subset
of the unsynced changes survives (`Images`). Files are synced before they are
renamed, so contents do not tear.

- `ProjectCrash.cfg`: one writer and one reader, kills and failing I/O, syncs and
  the marker's removal included. `OldOrNew` (what recovery accepts is the pair
  before or after the publication in progress), `FailureRetains` (a reported
  failure keeps the previous pair), `ImplementsPair` (manifest and lock change
  together, and a guarded reader uses the accepted pair).
- `ProjectPower.cfg`: two writers that preview and commit across each other, and
  power losses with syncs that work. `EveryImageWhole` (every disk a power loss
  can leave recovers to a whole pair), `OutcomeDurable` (what was reported
  survives), `NoLostUpdate` (nobody overwrites what it has not seen).
- `ProjectSyncPower.cfg`, `ProjectFirstReader.cfg` (findings): the failing sync
  followed by recovery and a power loss; the reader that came before the guard
  file, and has read the lock but not yet the manifest when a writer takes the
  guard.

A reader looks for the guard file twice: when it begins (`LockForReading`) and
again around its read of the lock (`GuardLock`), after which it gives back what
it got only then. `Promise` speaks of readers that hold the guard all along. The
guard file itself is never synced: a power loss may take it away, whether or not
a later sync of the directory had kept it (`PowerLoss` allows both). That
`accepted_lock` looks for the journal and reads the lock in two operations is
not represented; a reader that holds the guard cannot tell.

When the marker can neither be synced nor withdrawn, `commit` returns an error
like any other (`transaction.rs:307`), and the next recovery accepts the new
pair, although `update.rs:57` says that a failed transaction retains the
previous one. `KeepMarker` records this outcome as `stuck`, so that
`FailureRetains` and `FailureTheorem` cover every other failure; no run is
spent on showing that it does not hold for this one.

Bounds: one publication beyond the first pair for each writer's plan, two
versions of manifest and lock so that a mixed pair shows, journal names for two
transactions. The protocol holds no counter, so longer histories repeat these
states.

### Run lifecycle

`run` is `RunState`; `requested` the atomic flag; `worker` the thread with its
accepted steps; `cache` the `ResultCache`; `pc` and `answer` belong to callers.
Each action is one critical section or one access outside. The exception is
`request_cancellation`, whose store to the flag is visible before its section
ends: `RequestCancellation` and `EnterCancelling` are two actions and `holder`
keeps the mutex in between. The families differ in where they look at the flag:

- `actions` (fixed-step transient): at every boundary, the first and the last
  included;
- `process` (stochastic): at every boundary, completion winning at the last;
- `stream` (adaptive ODE): before and after every native step, over segments
  that end at events and observe through a one-slot channel each;
- `direct` (stationary spatial, Stokes): nowhere, though `cancel()` is accepted;
- `closed` (the others): `cancel()` answers false.

Runs:

- `RunRace.cfg`: three callers, all families. `NeverIllegal` (no interleaving
  attempts a transition the table refuses), `ProgressExact` (what is shown is what
  was accepted, over segments and dropped observations), `EarlyCancelStops`, `CallersAnswered`, `ImplementsOneShot` (one outcome,
  cancelled only on request, one answer for all callers, the run settles).
- `RunStationary.cfg` (finding): `AcceptedCancelStops`, of the families that do
  not poll; an early cancellation of a stationary solve is accepted and the run
  completes.

Fairness: weak fairness of the worker and of every caller inside a call. The
operating system schedules runnable threads, critical sections are finite and
only one of them spans two actions; nobody is obliged to call, to cancel or to
poll. A solver is taken to end each step, which `MaxSteps` bounds. Spurious
wake-ups are allowed and not needed. Three callers are enough for one to
project, one to sleep on the cache and one to arrive in between; four steps are
enough for two events with steps on both sides.

Left out: lock poisoning (no code panics in a critical section), failure to
start the thread (`submit` raises and nobody holds the run), and the GIL, which
only removes interleavings.

### Evaluation map

`outcomes` and `delivered` are what the caller gets; `phase`, `start`, `next`,
`active` and `halted` are the coordinator's variables; `tasks`, `results`,
`receiver` (who holds the mutex of the task receiver) and `worker` are the pool
of one chunk. A chunk begins with `BeginChunk`; on one worker the coordinator
evaluates members itself (`Serial...`), otherwise it spawns a crew, which may
fail, dispatches while fewer members are in flight than there are threads,
collects, closes the channel and joins. Then accepted members are counted,
delivered and, under `Recompute`, released. A member is accepted, fails or
cancels itself; a panic is a failure on a worker and unwinds the call on the
coordinator, where nothing catches it.

- `EvaluationMap.cfg`: five members under three policies: chunks of four on
  three threads, chunks of two on two, and chunks of two on the coordinator,
  with members released or retained. `StartedIsPrefix`, `NothingAfterStop`,
  `DeliveredInOrder`, `MapEnds`, `ImplementsMap`. That each dispatched member is
  in exactly one place is part of the invariant that is proved (`Flight`).

A chunk of four on three threads makes members wait for a free thread and finish
in every order; the last chunk, of one member, has a smaller crew. Fairness:
weak fairness of the coordinator and of each thread. Evaluators are taken to
return, as the code does; nothing is assumed of who cancels. The mutex needs no
more than weak fairness, because a worker that is passed over can only be passed
over while others make progress. Deadlock is not checked, since `execute` ends.

Left out: what a member computes, the storage charge, and callbacks that panic.

### Package installer

`names` is the directory, staging names and digest names alike; `files` holds
what each call's file contains and whether it is synced. A release is a model
value, and two of them may share a digest, since the source digest does not
cover compiled semantics. `versions` remembers every file a name has had since
the last power loss, because the directory is never synced: a power loss leaves
any of them, and any unsynced file torn. A killed process leaves its staging
names, and the next process may get its identifier and starts its sequence
again, so that it meets them.

- `PackageInstaller.cfg`: three calls of two threads, one crash, two releases
  of one digest, two staging attempts instead of 128. `EntryComplete` (a digest's
  name holds nothing or a whole release, through power losses),
  `ImplementsStore`.

Staging names hold the process identifier, so threads of different processes
share nothing but the digest's name, which the two threads share as well; and a
process that is killed alone is, for the others, one that no longer moves. The
crash leaves up to two staging names, which the third call meets, both of them
if need be, when its attempts run out. Installers and releases are symmetric,
and no liveness is checked.

Any file operation may fail, in which case a call ends with an error; it has
then published nothing, which `ImplementsStore` says. Calls have a bounded number
of steps, so their end is not a property of its own.

Left out: opening the root, parsing the release wire, other programs in the
directory, and file systems whose hard link succeeds and reports a failure.

### MPI group

A call is a sequence of instructions, in `Script`: boundaries, at which all
ranks exchange a status; readiness reports and comparisons; collectives whose
result nobody judges; and halo exchanges. A rank makes its own way through them
(`call`, `at`), enters an operation with what its local work found (`inside`)
and leaves it when all have entered (`Gather`). `Verdict` is what it makes of the
gathered records; where the scalars decide (`Onward`), the next segment is
chosen freely, the same for all ranks. Three things go wrong: local work fails,
records differ, and one rank computes other scalars than its peers and takes
another branch (`Drift`). `trace` is `collective_steps`, with its reserved
capacity and the grammar that the accepted solution is held to. Halo messages
travel one by one in the plan's order, over a transport that buffers them or
one that does not (`eager`).

- `MpiCollectives.cfg`: three ranks in a line of ghosts; a host session that
  binds a plan and executes twice with conjugate gradients, and a device session
  that selects, agrees on the topology and executes with minimum residuals.
  `CollectivesMatch` (nobody enters an operation that the others have left out,
  also when a peer has failed or drifted), `HaloFresh` (no halo message is left
  behind for a later exchange), `CommonDiagnostic` (all ranks name the same
  failure), `EveryCallReturns`, `ImplementsUnanimous` (an acceptance if and only
  if nothing went wrong anywhere: the trace's bounds and grammar refuse no run
  of their own accord).

Bounds: in a line of three the middle rank both sends and receives on both
sides, so an order that deadlocks would show, and the outer ranks share nothing
but collectives. One iteration reaches every segment, restarts and the
iteration limit included. Two faults in one call are enough for a failure to
meet another one, or a drift; a third rank is then still healthy. Fairness: every
rank runs, and the transport completes an operation that all ranks have entered.
Deadlock is not checked, since sessions end.

Left out: what the solvers compute, the device kernels and the collectives of
the spatial assembly; and ranks that die, for which the backend has no code of
its own.

### Language server

Two threads: the server reads the editor's messages and answers, the worker
analyzes. `pending` holds the version that a group of documents (those under
the innermost declared folder, or a document by itself) waits for, `queued` the
newest job of each group, `cancelled` the versions that were called off.
`Handle` is a whole message handler; a message that reschedules several groups
goes on with `ScheduleNext`, one group at a time, because the worker may take
jobs in between. A request is answered in its turn: it waits until its group
has no analysis underway, and what arrives in the meantime is kept
(`SettleReceive`), or cancels it. The worker's analysis of a package has two
steps, since others write to the folder between its reading and its use, and it
is repeated once when the folder has a file that is open but was read from
disk. Without a package, the analysis is of the group's open documents whose
paths name modules (`Named`, `IsModule`); the others are left out of it and
analyzed each by itself.

A text is named by the message that wrote it, and 0 is the file on disk, so
that an answer carries the evidence of what it is based on. Each message keeps
what the editor believed when it sent it (`after`).

- `LanguageServer.cfg`: four sessions on two nested folders, the outer one with
  two documents, one of which is no module there, the inner one with a third.
  `Editing`: a package that another program writes to; `Regrouping`: folders
  come and go, documents are saved and closed; `Asking`: requests,
  cancellations, shutdown and exit, with analyses that panic; `Naming`: the
  document that is no module changes, and its folder goes away. `TypeOK` (which
  includes that jobs are for versions given out, and that the `expect` of
  `apply_completed` never panics), `AnswersWhole` and `DiagnosticsCurrent`;
  `AnalysesEnd` (no group waits for ever) and `ImplementsSession`.
- `LanguageServerNested.cfg` (finding): a package with a file that is open in a
  folder below it.

`AnswersWhole` and `DiagnosticsCurrent` say what an answer or a diagnostic is
based on (`Faithful`): on no stale text of the document or of any other that is
open in its group; in a package, on the files it admits; without one, on all
open documents of the group that are modules, or on the document alone if it is
none. Of a package's files that are open in another group they say nothing:
these come from disk, so that a stale text of such a document may be mixed in,
which is the finding of `LanguageServerNested.cfg`. And without a package not
all files open in a folder are analyzed as one module graph, as
`docs/language-server.md:192` says they are: a document whose path is not made of
Eqiora identifiers and `.eqi`, `heat-flow.eqi` for one, is skipped
(`protocol.rs:353`) and nobody is told. `Faithful` says what the code does; no run
is spent on the sentence of the docs.

Bounds: four messages and two changes of the disk. A stale answer needs a
change, a request and an analysis that ends between them; a lost analysis needs
two groups scheduled while the worker takes jobs; a second pass needs one
change of the folder, giving it up two. Fairness: both threads run, and an
analysis that does not panic ends; the editor is not obliged to anything. A
wait that ends because the connection closed is an action of its own
(`NoticeClosed`), and so is running out of the 30 seconds after shutdown
(`GiveUp`). Deadlock is not checked, since sessions end.

Left out: what the features compute from an analysis; document versions, of
which only acceptance matters (`stale` is a change that is rejected); texts over
the size limit, which the plain analysis skips as it does documents that are no
modules; the editor's response to the registration of file watching, which is
taken to be in force at once; sends to the editor that fail, which end the server
(`protocol.rs:553`, `645`, `945`) when nobody is there to hear. A package whose
files cannot all be named by URIs falls back to the plain analysis like one whose
checks fail (`sound` covers both), and the step it fails at is not told apart.

## What is proved

Each module of proofs states its theorems for every value of the constants:
any number of actors, any bound. The assumptions are those named in the modules
(`...Assumption`), which TLC evaluates in every run; they say that model values
are distinct, that bounds are natural numbers and sets of actors finite where
that is used. In each the properties are not inductive, and the strengthening is
a conjunction of named parts, proved action by action.

**Graph store** (`GraphStoreProofs`): all that `GraphStore.cfg` checks, and that
no step rewrites the history. That a removed node leaves no edge behind is
known only of the candidate state of a transaction without failure; that views
are complete is checked at its end; that a fresh ULID is fresh needs all nodes
and the history. The invariant therefore speaks of three graphs at once, the
published one, the candidate and the held snapshots: first for the operations
on the candidate, then for the calls that publish it.

**Project transaction** (`ProjectTransactionProofs`): all state properties of
its passing runs and the refinement of `RecoverablePair`. Three invariants
carry them. `Base` says, for each place of the writer that has the guard, what
the journal is (`Journalled`) and what the files are (`Restored`, `Published`);
it holds whatever goes wrong, and gives `TypeOK` and `NoLostUpdate`. `OldInv`
relates journal and files to the last publication while no power is lost; it
gives `OldOrNew`, with `FailedInv` also `FailureRetains`, and with `Reads` the
refinement. `ImageInv` says what may survive a power loss, entry by entry,
while syncs work; it gives `EveryImageWhole` and `OutcomeDurable`. The
hypotheses on `Faults` are part of the theorems, and each is needed:
`ProjectSyncPower.cfg` shows what happens without the last one.

**Run lifecycle** (`RunLifecycleProofs`): `TypeOK`, `NeverIllegal`,
`ProgressExact` and `EarlyCancelStops` for any number of callers and steps and
any families, and the safety part of `OneShotRun` (`OneShotTheorem`: its initial
states and steps; that the run settles and callers are answered stays with
TLC). `RunInv` ties the flag to the status and the mutex's holder, the status to
the worker's place, the progress to the accepted steps and the channel to its
segment; `CacheInv` says that at most one caller projects the payload and that
it is there for it.

**Evaluation map** (`EvaluationMapProofs`): `TypeOK`, `StartedIsPrefix`,
`DeliveredInOrder`, `NothingAfterStop` and the refinement of `OrderedMap`,
whose promise is safety. The invariant says where each dispatched member is
(`Flight`: the queue holds the last ones dispatched, every other is with one
worker or in one result), that `active` counts exactly those without an outcome
(`ActiveExact`), and how far outcomes (`Frontier`) and deliveries (`Handed`)
have come. Counting is by cardinalities of finite sets.

**Package installer** (`PackageInstallerProofs`): `TypeOK`, `EntryComplete` and
the refinement of `WriteOnceStore`, for any number of threads, processes,
releases, attempts and crashes. `FilesOwned`, `StagesOwned` and `StagesWritten`
say that a staging name holds what its call wrote until it is linked;
`EntriesSettled`, that no call in progress writes to a file a digest's name
ever had, which is why a power loss cannot tear an entry; `SequencesLeft`, that
sequence numbers stay within the bound.

**MPI group** (`MpiCollectivesProofs`, `MpiDiagnosticsProofs`): all state
properties of `MpiCollectives.cfg` and the safety part of `UnanimousRun`
(`UnanimousTheorem`), for any number of ranks, sessions, iterations and faults.

`CollectivesMatch` holds because ways that the scalars choose among either part
at their next boundary, whose name differs, or compute the same residual first
and part at its end; this is checked for every part of both solvers (`Routes`).
`Lockstep` therefore says that the ranks enter the same operation next
(`Together`), compute the same residual in two parts (`Paired`), or are at
boundaries of different names, where nothing goes on (`Doomed`). `Room` bounds
the trace by iteration and part, so that no rank returns before an exchange
because its trace is full.

`HaloFresh` adds `Halos`: a buffered message lies between two ranks of which
the owner has made the exchange and the receiver has not, it carries the
receiver's stamp (`Passing`, `Buffers`), and ranks that compute the same
residual in two parts have traces of the same length (`Level`). The halo is
left only when all its exchanges are made, so nothing is in flight at the
boundary that follows it, which is where failures and drifts are found out.

For `CommonDiagnostic`, `Story` says that a trace is a run that ends as it should:
then no rank rejects a call by itself, and what ranks make of the gathered
records is the same. `Told` says that a run that has set up its solver has
recorded all four phases of the iteration, so `accept_distributed` never refuses
the trace (`NeverRefused`).

The refinement needs to know where a fault is until it is answered. `Account`
says that in a spoiled call the ranks are divided, one of them is inside an
operation with a failure to report, or all have seen a comparison fail and
report it next (`Marked`); and that none of this happens in a call that is not
spoiled (`Declared`, `Parted`). With it a meeting refuses spoiled calls and no
others (`RefusedForReason`, `AcceptedForReason`).

`SessionAssumption` says that a session is a sequence of the known calls and
that no rank has what it owns as a ghost; `RankAssumption` that ranks are numbered
from zero.

**Language server** (`LanguageServerProofs`): `TypeOK`, `AnswersWhole`,
`DiagnosticsCurrent` and the safety part of `EditorSession` (`SessionTheorem`),
for any documents and folders, however nested, any session and any bound on
messages. That an answer mixes no stale text of its group in says nothing of
the messages in between, so the invariant `Inv` carries the editor's belief
along the whole way: `History`, that each message moves the belief on by
itself; `Turn`, that what the server has made of the messages it handled is
what the editor believed before the first one kept for later, and that in a row
of kept messages each leads to the next, up to the last one taken (removing a
cancellation from the row leaves it intact, since it changes no text);
`Engaged`, that the message the server waits for precedes all it keeps. From
the texts to the analyses: `Plan` gives every version to one group and keeps
called-off ones from being awaited, `Pool` and `Fitting` follow a job through
queue, batch and completed results and say that, if its version is still
awaited, it is of the group's current texts, without a package of all its
modules (`Apt`); `Accepted` and `View` say the same of what was accepted and
shown, except for groups still to be scheduled for a folder change (`Still`). A
file event puts off groups whose texts did not change, and these keep what they
have. `Answered` says which requests have been answered; with it every step
maps to a step of `EditorSession` or to none, and every way to end the server
to its `End`. `EditorAssumption` gives folders and sessions their shape; it
allows any order of messages the vocabulary and `MaySend` do.

Only model-checked: all liveness (`CallersAnswered`, `MapEnds`,
`EveryCallReturns`, `AnalysesEnd`, and the fairness in the abstract
specifications of the Run, MPI group and editor session), which is beyond the
prover. The properties of the findings are false and
have no theorem.

## Findings

1. After a failed sync of the withdrawal, recovery rewrites the manifest
   without syncing the journal first; a power loss then leaves a mixed pair that
   counts as committed (`ProjectSyncPower.cfg`).
2. A reader that starts before the first writer holds no guard, so the writer may
   come between its reads of the lock and the manifest
   (`ProjectFirstReader.cfg`).
3. `cancel()` answers true for stationary solves, which have no boundary
   (`RunStationary.cfg`).
4. A package takes files from disk that are open in a folder declared below it,
   although open documents take precedence (`LanguageServerNested.cfg`).

## Plan

In this order, most important first:

1. Package updates: an update installs its releases and then commits the pair
   (`update.rs:73-90`), so the project transaction and the write-once store
   compose; every release that an accepted lock names is in the store.
2. Model documents: a forest of store clones over `GraphStore`'s commits.
3. Device queues and buffers; the hybrid runtime's event order; the exchange
   protocol of the spatial distribution.

## Not modelled

- Model documents, device queues, the hybrid runtime and the spatial
  distribution: planned above.
- Git fetch and the verification runner: child processes with deadlines, mostly
  operating-system calls.
- The language front end, IR, artifacts and schemas: sequential functions over
  large trees and byte formats, of which a bounded instance would say little.
- Numerics, solvers, geometry and meshing: floating-point algorithms. These are
  by far the largest part of the source.
- File adapters, Studio and the Python wrappers: plain I/O and presentation over
  the parts above.
