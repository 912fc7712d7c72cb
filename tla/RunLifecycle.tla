---------------------------- MODULE RunLifecycle ----------------------------
(* One native Run of the Python binding: the worker thread that executes the  *)
(* job, the RunState behind a mutex and its condition variable, the           *)
(* cancellation flag the solver reads without the mutex, the one-slot         *)
(* progress channel, and the cache in which the first caller of result()      *)
(* leaves the projected Result for the others.                                *)
(*                                                                            *)
(* An action is one critical section, or one access outside of them.  The     *)
(* only critical section with an effect visible before it ends is             *)
(* request_cancellation, which stores the flag and then changes the status;   *)
(* it is two actions, and holder keeps everybody else out in between.         *)
(* No code panics inside a critical section, so the poisoning paths are not   *)
(* modelled.                                                                  *)
EXTENDS Integers, Sequences

CONSTANTS Callers,      \* Python threads that share the Run handle
          Families,     \* execution families the job may belong to
          MaxSteps,     \* accepted steps of the longest execution
          NoHolder, NoAnswer, NoObject, Broken

(* actions  transient stepping with a fixed number of accepted actions        *)
(* process  stochastic time runs, polled at each accepted boundary            *)
(* stream   adaptive ODE segments that observe through a channel              *)
(* direct   stationary spatial and Stokes solves: cancel() is accepted        *)
(* closed   the families whose cancel() answers false                         *)
AllFamilies == {"actions", "process", "stream", "direct", "closed"}
Polling == {"actions", "process", "stream"}
CancellationSupported == AllFamilies \ {"closed"}

ASSUME RunAssumption == /\ MaxSteps \in Nat \ {0}
                        /\ Families \subseteq AllFamilies
                        /\ NoHolder \notin Callers
                        /\ Callers \cap {NoAnswer, NoObject, Broken} = {}
                        /\ Callers \cap {"Empty", "Materializing", "Failed"} = {}
                        /\ Broken # NoObject

VARIABLES
    family,     \* the job's family, and so cancellation_supported
    run,        \* RunState, behind the mutex of RunShared
    requested,  \* cancellation_requested, an atomic read without the mutex
    holder,     \* the caller inside request_cancellation, or NoHolder
    worker,     \* the worker thread
    cache,      \* ResultCache: Empty, Materializing, Failed, or who made it
    pc,         \* what each caller is doing
    answer      \* what each caller's last result() gave

vars == <<family, run, requested, holder, worker, cache, pc, answer>>

---------------------------------------------------------------------------
(* RunState                                                                 *)

NoProgress == -1
NoStream == [open |-> FALSE, prefix |-> 0, slot |-> 0]
NoTerminal == [kind |-> "none", payload |-> FALSE, steps |-> 0]

Accepted == [status |-> "Queued",
             history |-> <<"Created", "Validating", "Queued">>,
             progress |-> NoProgress, stream |-> NoStream,
             terminal |-> NoTerminal, integrity_failed |-> FALSE]

Allowed == ({"Queued"} \X {"Running", "Cancelling", "Failed"})
             \cup ({"Running"} \X {"Cancelling", "Completed", "Failed"})
             \cup ({"Cancelling"} \X {"Cancelled", "Completed", "Failed"})

IsTerminal(status) == status \in {"Completed", "Cancelled", "Failed"}

\* Receive the observation in the channel, if there is one.
Refreshed(s) ==
    IF s.stream.open /\ s.stream.slot > 0
    THEN [s EXCEPT !.progress = s.stream.prefix + s.stream.slot, !.stream.slot = 0]
    ELSE s

\* An illegal transition fails the run and marks its state.
Transitioned(s, status) ==
    CASE s.status = status -> s
      [] <<s.status, status>> \in Allowed ->
            [s EXCEPT !.status = status, !.history = Append(@, status)]
      [] OTHER ->
            [s EXCEPT !.integrity_failed = TRUE, !.status = "Failed",
                      !.terminal = [NoTerminal EXCEPT !.kind = "Failed"],
                      !.history = Append(@, "Failed")]

Published(s, steps) ==
    IF s.integrity_failed THEN s
    ELSE [s EXCEPT !.stream = NoStream, !.progress = steps]

Unlocked == holder = NoHolder

\* Condvar::notify_all: the sleepers look at the state again.
Notified == [c \in Callers |-> IF pc[c] = "asleep" THEN "waiting" ELSE pc[c]]

---------------------------------------------------------------------------
Steps == 0..MaxSteps

\* A time run may resume a checkpoint: some steps are accepted already, and of
\* an adaptive one those before its last event belong to an earlier segment.
Resumable(f) ==
    CASE f = "process" -> {[prefix |-> 0, steps |-> n] : n \in 0..(MaxSteps - 1)}
      [] f = "stream" -> {[prefix |-> p, steps |-> n] :
                             p \in 0..(MaxSteps - 1), n \in 0..(MaxSteps - 1)}
      [] OTHER -> {[prefix |-> 0, steps |-> 0]}

Init ==
    /\ family \in Families
    /\ run = Accepted
    /\ requested = FALSE
    /\ holder = NoHolder
    /\ \E saved \in Resumable(family) :
          /\ saved.prefix <= saved.steps
          /\ worker = [at |-> "spawned", prefix |-> saved.prefix,
                       steps |-> saved.steps, outcome |-> "none"]
    /\ cache = "Empty"
    /\ pc = [c \in Callers |-> "idle"]
    /\ answer = [c \in Callers |-> NoAnswer]

---------------------------------------------------------------------------
(* The worker thread                                                        *)

results == <<cache, answer>>

StartOf(f) == CASE f = "actions" -> "poll"
                [] f = "process" -> "publish"
                [] f = "stream" -> "observe"
                [] OTHER -> "solve"

\* Faulty variant: a starting worker clears the flag.
MarkRunningAfresh ==
    /\ worker.at = "spawned"
    /\ Unlocked
    /\ IF ~run.integrity_failed /\ run.status = "Queued"
       THEN run' = Transitioned(run, "Running") /\ pc' = Notified
       ELSE UNCHANGED <<run, pc>>
    /\ requested' = FALSE
    /\ worker' = [worker EXCEPT !.at = StartOf(family)]
    /\ UNCHANGED <<family, holder, results>>

\* A run that is cancelled already goes on as cancelling.
MarkRunning ==
    /\ worker.at = "spawned"
    /\ Unlocked
    /\ IF ~run.integrity_failed /\ run.status = "Queued"
       THEN run' = Transitioned(run, "Running") /\ pc' = Notified
       ELSE UNCHANGED <<run, pc>>
    /\ worker' = [worker EXCEPT !.at = StartOf(family)]
    /\ UNCHANGED <<family, requested, holder, results>>

\* A boundary of a fixed-step or a stochastic run publishes what is accepted.
PublishBoundary ==
    /\ worker.at = "publish"
    /\ Unlocked
    /\ run' = Published(run, worker.steps)
    /\ pc' = Notified
    /\ worker' = [worker EXCEPT !.at = "poll"]
    /\ UNCHANGED <<family, requested, holder, results>>

Decide(outcome) ==
    /\ worker' = [worker EXCEPT !.at = "report", !.outcome = outcome]
    /\ UNCHANGED <<family, run, requested, holder, results, pc>>

\* The flag stops the run at the boundary, the last one included; only the
\* terminal boundary of a stochastic run prefers completion.
StopAtBoundary ==
    /\ worker.at = "poll" /\ requested
    /\ ~(family = "process" /\ worker.steps = MaxSteps)
    /\ Decide("Cancelled")

\* Faulty variant: one action more than were asked for.
ContinueTooFar ==
    /\ worker.at = "poll"
    /\ \/ /\ worker.steps > MaxSteps
          /\ Decide("Completed")
       \/ /\ worker.steps <= MaxSteps
          /\ ~requested
          /\ worker' = [worker EXCEPT !.at = "trial"]
          /\ UNCHANGED <<family, run, requested, holder, results, pc>>

\* No request was seen: the run is complete or computes its next trial.
Continue ==
    /\ worker.at = "poll"
    /\ \/ /\ worker.steps = MaxSteps
          /\ requested => family = "process"
          /\ Decide("Completed")
       \/ /\ worker.steps < MaxSteps
          /\ ~requested
          /\ worker' = [worker EXCEPT !.at = "trial"]
          /\ UNCHANGED <<family, run, requested, holder, results, pc>>

\* A trial is accepted and its boundary reached.
AcceptAction ==
    /\ worker.at = "trial" /\ family \in {"actions", "process"}
    /\ worker' = [worker EXCEPT !.at = "publish", !.steps = @ + 1]
    /\ UNCHANGED <<family, run, requested, holder, results, pc>>

\* An adaptive segment gets a channel of its own.
ObserveProgress ==
    /\ worker.at = "observe"
    /\ Unlocked
    /\ run' = IF run.integrity_failed \/ IsTerminal(run.status) THEN run
              ELSE [Refreshed(run) EXCEPT
                      !.stream = [open |-> TRUE, prefix |-> worker.prefix, slot |-> 0]]
    /\ worker' = [worker EXCEPT !.at = "poll"]
    /\ UNCHANGED <<family, requested, holder, results, pc>>

\* The flag is read again after the native step, which is then discarded.
DiscardTrial ==
    /\ worker.at = "trial" /\ family = "stream" /\ requested
    /\ Decide("Cancelled")

\* try_send: the channel holds one observation and drops the next ones.
Observed(s, observed) ==
    IF s.stream.open /\ s.stream.slot = 0
    THEN [s EXCEPT !.stream.slot = observed] ELSE s

\* The step is accepted and observed; it may reach the horizon, or an event
\* after which the next segment begins.  Sending takes no lock.
AcceptStep(end) ==
    /\ worker.at = "trial" /\ family = "stream" /\ ~requested
    /\ worker.steps + 1 = MaxSteps => end = "horizon"
    /\ run' = Observed(run, worker.steps + 1 - worker.prefix)
    /\ worker' = [worker EXCEPT
                    !.steps = @ + 1,
                    !.prefix = IF end = "event" THEN worker.steps + 1 ELSE @,
                    !.outcome = IF end = "horizon" THEN "Completed" ELSE @,
                    !.at = CASE end = "none" -> "poll"
                             [] end = "event" -> "observe"
                             [] end = "horizon" -> "report"]
    /\ UNCHANGED <<family, requested, holder, results, pc>>

\* A stationary or a non-cancellable job runs to its end.  Of these, only a
\* controlled transient one publishes a step count, after it is done.
Solve ==
    /\ worker.at = "solve"
    /\ \E steps \in {0, MaxSteps} :
          /\ steps > 0 => family = "closed"
          /\ worker' = [worker EXCEPT !.at = "report", !.outcome = "Completed",
                                      !.steps = steps]
    /\ UNCHANGED <<family, run, requested, holder, results, pc>>

\* Faulty variant: the adaptive run keeps what its readers happened to see.
ReportNothing ==
    /\ worker.at = "report"
    /\ worker' = [worker EXCEPT !.at = "finish"]
    /\ UNCHANGED <<family, run, requested, holder, results, pc>>

\* Results and checkpoints are built; an adaptive run publishes its exact count.
Report ==
    /\ worker.at = "report"
    /\ IF family = "stream" \/ (family = "closed" /\ worker.steps > 0)
       THEN Unlocked /\ run' = Published(run, worker.steps) /\ pc' = Notified
       ELSE UNCHANGED <<run, pc>>
    /\ worker' = [worker EXCEPT !.at = "finish"]
    /\ UNCHANGED <<family, requested, holder, results>>

\* Solvers, checkpoints and the postprocessing of a result fail or panic.
WorkerFails ==
    /\ \/ worker.at \in {"publish", "poll", "trial", "observe", "solve", "report"}
       \/ worker.at = "finish" /\ worker.outcome = "Completed"
    /\ worker' = [worker EXCEPT !.at = "finish", !.outcome = "Failed"]
    /\ UNCHANGED <<family, run, requested, holder, results, pc>>

\* What finish leaves: the last observation, the status and the outcome, unless
\* the state is no longer sound, or stops being so by this very transition.
Settled(s) ==
    LET t == Transitioned([Refreshed(s) EXCEPT !.stream = NoStream], worker.outcome)
    IN  IF s.integrity_failed THEN s
        ELSE IF t.integrity_failed THEN t
        ELSE [t EXCEPT !.terminal = [kind |-> worker.outcome,
                                     payload |-> worker.outcome = "Completed",
                                     steps |-> worker.steps]]

\* Faulty variant: the waiting callers are not woken.
FinishSilently ==
    /\ worker.at = "finish"
    /\ Unlocked
    /\ run' = Settled(run)
    /\ worker' = [worker EXCEPT !.at = "done"]
    /\ UNCHANGED <<family, requested, holder, results, pc>>

\* An unsound state keeps its own failure, and nobody is woken.
Finish ==
    /\ worker.at = "finish"
    /\ Unlocked
    /\ run' = Settled(run)
    /\ pc' = IF Settled(run).integrity_failed THEN pc ELSE Notified
    /\ worker' = [worker EXCEPT !.at = "done"]
    /\ UNCHANGED <<family, requested, holder, results>>

Worker == \/ MarkRunning \/ PublishBoundary \/ StopAtBoundary \/ Continue
          \/ AcceptAction \/ ObserveProgress \/ DiscardTrial
          \/ \E end \in {"none", "event", "horizon"} : AcceptStep(end)
          \/ Solve \/ Report \/ WorkerFails \/ Finish

---------------------------------------------------------------------------
(* Callers: cancel(), progress and result()                                 *)

\* Faulty variant: the flag is stored before the mutex is taken.
RequestCancellationLoose(c) ==
    /\ pc[c] = "idle" /\ family \in CancellationSupported
    /\ ~(run.integrity_failed \/ IsTerminal(run.status) \/ run.status = "Cancelling")
    /\ requested' = TRUE
    /\ pc' = [pc EXCEPT ![c] = "raised"]
    /\ UNCHANGED <<family, run, holder, worker, results>>

\* cancel() answers true: the flag is stored, the mutex still held.  When it
\* answers false nothing changes.
RequestCancellation(c) ==
    /\ pc[c] = "idle" /\ family \in CancellationSupported
    /\ Unlocked
    /\ ~(run.integrity_failed \/ IsTerminal(run.status) \/ run.status = "Cancelling")
    /\ requested' = TRUE
    /\ holder' = c
    /\ pc' = [pc EXCEPT ![c] = "raised"]
    /\ UNCHANGED <<family, run, worker, results>>

EnterCancelling(c) ==
    /\ pc[c] = "raised"
    /\ run' = Transitioned(run, "Cancelling")
    /\ holder' = NoHolder
    /\ pc' = [Notified EXCEPT ![c] = "idle"]
    /\ UNCHANGED <<family, requested, worker, results>>

\* The progress getter; it changes something only if an observation is waiting.
ReadProgress(c) ==
    /\ pc[c] = "idle"
    /\ Unlocked
    /\ ~run.integrity_failed /\ run.stream.open /\ run.stream.slot > 0
    /\ run' = Refreshed(run)
    /\ UNCHANGED <<family, requested, holder, worker, results, pc>>

CallResult(c) ==
    /\ pc[c] = "idle"
    /\ pc' = [pc EXCEPT ![c] = "waiting"]
    /\ UNCHANGED <<family, run, requested, holder, worker, results>>

Answered(c, what) == /\ answer' = [answer EXCEPT ![c] = what]
                     /\ pc' = [pc EXCEPT ![c] = "idle"]

\* One look of wait_terminal_kind at the state, under its mutex.
CheckTerminal(c) ==
    /\ pc[c] = "waiting"
    /\ Unlocked
    /\ CASE run.terminal.kind = "none" ->
              pc' = [pc EXCEPT ![c] = "asleep"] /\ UNCHANGED answer
         [] run.terminal.kind = "Completed" ->
              pc' = [pc EXCEPT ![c] = "claiming"] /\ UNCHANGED answer
         [] OTHER -> Answered(c, run.terminal.kind)
    /\ UNCHANGED <<family, run, requested, holder, worker, cache>>

\* A condition variable may wake a sleeper without a notification.
SpuriousWake(c) ==
    /\ pc[c] \in {"asleep", "parked"}
    /\ pc' = [pc EXCEPT ![c] = IF @ = "asleep" THEN "waiting" ELSE "parking"]
    /\ UNCHANGED <<family, run, requested, holder, worker, results>>

\* Faulty variant: an empty cache is not marked by its first claimant.
ClaimUnmarked(c) ==
    /\ pc[c] = "claiming"
    /\ CASE cache = "Empty" -> pc' = [pc EXCEPT ![c] = "taking"] /\ UNCHANGED answer
         [] cache = "Failed" -> Answered(c, Broken)
         [] OTHER -> pc' = [pc EXCEPT ![c] = "fetching"] /\ UNCHANGED answer
    /\ UNCHANGED <<family, run, requested, holder, worker, cache>>

\* ResultCache::claim.
Claim(c) ==
    /\ pc[c] = "claiming"
    /\ CASE cache = "Empty" -> /\ cache' = "Materializing"
                               /\ pc' = [pc EXCEPT ![c] = "taking"]
                               /\ UNCHANGED answer
         [] cache = "Materializing" -> /\ pc' = [pc EXCEPT ![c] = "parking"]
                                       /\ UNCHANGED <<cache, answer>>
         [] cache = "Failed" -> Answered(c, Broken) /\ UNCHANGED cache
         [] OTHER -> pc' = [pc EXCEPT ![c] = "fetching"] /\ UNCHANGED <<cache, answer>>
    /\ UNCHANGED <<family, run, requested, holder, worker>>

\* One look of wait_for_materializer at the cache.
AwaitMaterializer(c) ==
    /\ pc[c] = "parking"
    /\ pc' = [pc EXCEPT ![c] = IF cache = "Materializing" THEN "parked" ELSE "claiming"]
    /\ UNCHANGED <<family, run, requested, holder, worker, results>>

\* ResultCache::ready, after the claim said so.
Fetch(c) ==
    /\ pc[c] = "fetching"
    /\ Answered(c, IF cache \in Callers THEN cache ELSE NoObject)
    /\ UNCHANGED <<family, run, requested, holder, worker, cache>>

Unparked == [d \in Callers |-> IF pc[d] = "parked" THEN "parking" ELSE pc[d]]

\* store_ready and store_failed, with the answer of the caller that stores.
Store(c, object, what) ==
    /\ cache' = object
    /\ answer' = [answer EXCEPT ![c] = what]
    /\ pc' = [Unparked EXCEPT ![c] = "idle"]

\* The claimant takes the payload; without one its dropped claim fails the cache.
TakeCompleted(c) ==
    /\ pc[c] = "taking"
    /\ Unlocked
    /\ IF run.terminal.payload
       THEN /\ run' = [run EXCEPT !.terminal.payload = FALSE]
            /\ pc' = [pc EXCEPT ![c] = "projecting"]
            /\ UNCHANGED results
       ELSE Store(c, "Failed", NoObject) /\ UNCHANGED run
    /\ UNCHANGED <<family, requested, holder, worker>>

\* The projection succeeds, or it fails or panics.
Materialize(c) ==
    /\ pc[c] = "projecting"
    /\ Store(c, c, c) \/ Store(c, "Failed", Broken)
    /\ UNCHANGED <<family, run, requested, holder, worker>>

\* The rest of a call that a caller has begun.
Proceed(c) == \/ EnterCancelling(c) \/ CheckTerminal(c) \/ Claim(c)
              \/ AwaitMaterializer(c) \/ Fetch(c) \/ TakeCompleted(c) \/ Materialize(c)

Caller(c) == \/ RequestCancellation(c) \/ ReadProgress(c) \/ CallResult(c)
             \/ SpuriousWake(c) \/ Proceed(c)

Next == Worker \/ \E c \in Callers : Caller(c)

\* The operating system runs every thread that can run; nobody has to call.
Spec == /\ Init /\ [][Next]_vars
        /\ WF_vars(Worker)
        /\ \A c \in Callers : WF_vars(Proceed(c))

---------------------------------------------------------------------------
(* Properties                                                               *)

Statuses == {"Created", "Validating", "Queued", "Running", "Cancelling",
             "Cancelled", "Completed", "Failed"}

Outcomes == {"none", "Completed", "Cancelled", "Failed"}

RunStates ==
    [status : Statuses, history : Seq(Statuses), progress : Steps \cup {NoProgress},
     stream : [open : BOOLEAN, prefix : Steps, slot : Steps],
     terminal : [kind : Outcomes, payload : BOOLEAN, steps : Steps],
     integrity_failed : BOOLEAN]

\* Every variable keeps its type.
TypeOK ==
    /\ family \in Families
    /\ run \in RunStates
    /\ requested \in BOOLEAN
    /\ holder \in Callers \cup {NoHolder}
    /\ worker \in [at : {"spawned", "publish", "poll", "trial", "observe", "solve",
                         "report", "finish", "done"},
                   prefix : Steps, steps : Steps, outcome : Outcomes]
    /\ cache \in {"Empty", "Materializing", "Failed"} \cup Callers
    /\ pc \in [Callers -> {"idle", "raised", "waiting", "asleep", "claiming", "parking",
                           "parked", "fetching", "taking", "projecting"}]
    /\ answer \in [Callers -> Outcomes \cup Callers \cup {NoAnswer, NoObject, Broken}]

\* However a cancellation races the worker's start and end, no transition the
\* table of RunState::transition refuses is ever attempted.
NeverIllegal == ~run.integrity_failed

\* The count a settled run shows is the one its evidence holds: what a reader
\* was shown while the run went on, or missed, makes no difference.  A run
\* stopped before its first step shows none.
ProgressExact ==
    /\ run.terminal.kind = "Cancelled" =>
          \/ run.progress = run.terminal.steps
          \/ run.progress = NoProgress /\ run.terminal.steps = 0
    /\ run.terminal.kind = "Completed" /\ family \in Polling =>
          run.progress = worker.steps

StartedUncancelled == \E i \in 1..Len(run.history) : run.history[i] = "Running"

\* A cancellation accepted before the worker started has every boundary of the
\* run ahead of it: a run that looks at its boundaries does not complete.
EarlyCancelStops ==
    run.status = "Completed" /\ family \in Polling => StartedUncancelled

\* "Returns false when this execution family exposes no accepted cancellation
\* boundary": where cancel() is accepted, there is a boundary that heeds it.
AcceptedCancelStops == run.status = "Completed" => StartedUncancelled

\* Whoever calls is answered: no wake-up is lost, neither on the outcome nor
\* on the cache.
CallersAnswered == \A c \in Callers : pc[c] # "idle" ~> pc[c] = "idle"

\* One settlement, cancelled only on request, and one answer for everybody.
Promise == INSTANCE OneShotRun WITH
    asked <- requested,
    outcome <- run.terminal.kind,
    object <- IF cache = "Failed" THEN Broken ELSE IF cache \in Callers THEN cache ELSE NoObject

ImplementsOneShot == Promise!Spec
=============================================================================
