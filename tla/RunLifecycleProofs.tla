------------------------- MODULE RunLifecycleProofs -------------------------
(***************************************************************************)
(* What one Run guarantees for any number of callers and steps and every   *)
(* set of families: its invariants, by induction over what the mutex       *)
(* holder, the worker and the waiting callers know, and the safety part of *)
(* the one-shot promise.                                                   *)
(***************************************************************************)
EXTENDS RunLifecycle, TLAPS

USE RunAssumption

Positions == {"spawned", "publish", "poll", "trial", "observe", "solve",
              "report", "finish", "done"}
Workers == [at : Positions, prefix : Steps, steps : Steps, outcome : Outcomes]

Deciding == {"spawned", "publish", "poll", "trial", "observe", "solve"}

(* The mutex: who raised the flag holds it, and the flag follows the status
   again as soon as it is released.                                        *)
FlagFollowsStatus ==
    /\ \A c \in Callers : pc[c] = "raised" <=> holder = c
    /\ holder # NoHolder => run.status \in {"Queued", "Running"} /\ requested
    /\ holder = NoHolder /\ run.status \in {"Queued", "Running"} => ~requested
    /\ run.status = "Cancelling" => requested

(* The worker's position, the status and the outcome.                      *)
StatusFollowsWorker ==
    /\ worker.at = "spawned" => run.status \in {"Queued", "Cancelling"}
    /\ worker.at \notin {"spawned", "done"} => run.status \in {"Running", "Cancelling"}
    /\ worker.at # "done" => run.terminal = NoTerminal
    /\ worker.at = "done" => /\ run.terminal.kind = worker.outcome
                             /\ run.terminal.steps = worker.steps
                             /\ run.status = worker.outcome
    /\ worker.outcome = "none" <=> worker.at \in Deciding
    /\ worker.outcome = "Cancelled" => requested /\ family \in Polling

(* Where an execution of each family can be.                               *)
FamilyAt ==
    /\ worker.at = "publish" => family \in {"actions", "process"}
    /\ worker.at \in {"poll", "trial"} => family \in Polling
    /\ worker.at = "observe" => family = "stream"
    /\ worker.at = "solve" => family \notin Polling
    /\ worker.at = "trial" => worker.steps < MaxSteps
    /\ worker.prefix <= worker.steps
    /\ family # "stream" => worker.prefix = 0

(* The progress channel of an adaptive segment.                            *)
ChannelOfSegment ==
    /\ ~run.stream.open => run.stream = NoStream
    /\ run.stream.open => /\ family = "stream"
                          /\ run.stream.prefix + run.stream.slot <= MaxSteps
    /\ family = "stream" /\ worker.at \in {"poll", "trial"} =>
          run.stream.open /\ run.stream.prefix = worker.prefix

(* What is published at a boundary is what is accepted.                    *)
Shown == \/ run.progress = worker.steps
         \/ run.progress = NoProgress /\ worker.steps = 0 /\ family = "actions"

ProgressFollows ==
    /\ family \in {"actions", "process"} /\ worker.at \in {"poll", "trial", "report"} => Shown
    /\ worker.at \in {"finish", "done"} /\ family \in Polling
         /\ worker.outcome \in {"Completed", "Cancelled"} => Shown
    /\ family \in {"actions", "process"} /\ worker.outcome = "Completed"
         => worker.steps = MaxSteps
    /\ family = "stream" /\ worker.at \in {"finish", "done"}
         /\ worker.outcome \in {"Completed", "Cancelled"}
         => run.stream = NoStream /\ run.progress = worker.steps
    /\ worker.at = "spawned" /\ family = "actions" => Shown

(* A run that never was Running was cancelled first.                       *)
EarlyCancelSeen ==
    /\ run.status = "Running" => StartedUncancelled
    /\ ~StartedUncancelled /\ worker.at # "spawned" => requested
    /\ ~StartedUncancelled /\ family \in Polling =>
          /\ worker.steps < MaxSteps
          /\ worker.at # "trial"
          /\ worker.outcome # "Completed"

RunInv == /\ TypeOK /\ NeverIllegal /\ FlagFollowsStatus /\ StatusFollowsWorker
          /\ FamilyAt /\ ChannelOfSegment /\ ProgressFollows /\ EarlyCancelSeen

(* The callers at the result cache.                                        *)
AtCache == {"claiming", "parking", "parked", "fetching", "taking", "projecting"}
Claiming == {"taking", "projecting"}

CacheInv ==
    /\ \A c \in Callers : pc[c] \in AtCache => run.terminal.kind = "Completed"
    /\ \A c \in Callers : pc[c] = "fetching" => cache \in Callers
    /\ \A c \in Callers : pc[c] \in Claiming => cache = "Materializing"
    /\ \A c, d \in Callers : pc[c] \in Claiming /\ pc[d] \in Claiming => c = d
    /\ \A c \in Callers : pc[c] = "taking" => run.terminal.payload
    /\ run.terminal.kind = "Completed" /\ cache = "Empty" => run.terminal.payload
    /\ run.terminal.kind # "Completed" => cache = "Empty"

-----------------------------------------------------------------------------
(* The history only grows, so what ran once has run. *)
LEMMA HistoryGrows ==
    ASSUME NEW h \in Seq(Statuses), NEW e \in Statuses
    PROVE  /\ Append(h, e) \in Seq(Statuses)
           /\ (\E i \in 1..Len(h) : h[i] = "Running")
                 => \E i \in 1..Len(Append(h, e)) : Append(h, e)[i] = "Running"
           /\ e = "Running" =>
                 \E i \in 1..Len(Append(h, e)) : Append(h, e)[i] = "Running"
<1>1. Append(h, e) \in Seq(Statuses) /\ Len(Append(h, e)) = Len(h) + 1
    OBVIOUS
<1>2. \A i \in 1..Len(h) : Append(h, e)[i] = h[i] /\ i \in 1..Len(Append(h, e))
    OBVIOUS
<1>3. Append(h, e)[Len(h) + 1] = e /\ Len(h) + 1 \in 1..Len(Append(h, e))
    OBVIOUS
<1> QED
    BY <1>1, <1>2, <1>3

(* Receiving an observation touches the progress and the slot only. *)
LEMMA RefreshedFields ==
    ASSUME RunInv
    PROVE  /\ Refreshed(run) \in RunStates
           /\ Refreshed(run).status = run.status
           /\ Refreshed(run).history = run.history
           /\ Refreshed(run).terminal = run.terminal
           /\ Refreshed(run).integrity_failed = run.integrity_failed
           /\ Refreshed(run).stream.open = run.stream.open
           /\ Refreshed(run).stream.prefix = run.stream.prefix
           /\ Refreshed(run).stream.slot <= run.stream.slot
           /\ ~run.stream.open \/ family # "stream" => Refreshed(run) = run
<1>1. run \in RunStates /\ MaxSteps \in Nat
    BY DEF RunInv, TypeOK
<1>2. CASE run.stream.open /\ run.stream.slot > 0
    <2>1. Refreshed(run) = [run EXCEPT !.progress = run.stream.prefix + run.stream.slot,
                                       !.stream.slot = 0]
        BY <1>2 DEF Refreshed
    <2>2. run.stream.prefix + run.stream.slot \in Steps /\ family = "stream"
        BY <1>1, <1>2 DEF RunInv, ChannelOfSegment, RunStates, Steps
    <2> QED
        <3> DEFINE shown == run.stream.prefix + run.stream.slot
        <3>1. Refreshed(run) \in RunStates
            <4>1. [run.stream EXCEPT !.slot = 0] \in [open : BOOLEAN, prefix : Steps, slot : Steps]
                BY <1>1 DEF RunStates, Steps
            <4>2. Refreshed(run) = [run EXCEPT !.progress = shown,
                                               !.stream = [run.stream EXCEPT !.slot = 0]]
                BY <1>1, <2>1 DEF RunStates
            <4> HIDE DEF shown
            <4> QED
                BY <1>1, <2>2, <4>1, <4>2 DEF RunStates, shown
        <3>2. Refreshed(run).stream = [run.stream EXCEPT !.slot = 0]
            BY <1>1, <2>1 DEF RunStates
        <3>3. /\ Refreshed(run).stream.open = run.stream.open
              /\ Refreshed(run).stream.prefix = run.stream.prefix
              /\ Refreshed(run).stream.slot <= run.stream.slot
            BY <1>1, <3>2 DEF RunStates, Steps
        <3>4. /\ Refreshed(run).status = run.status
              /\ Refreshed(run).history = run.history
              /\ Refreshed(run).terminal = run.terminal
              /\ Refreshed(run).integrity_failed = run.integrity_failed
            BY <1>1, <2>1 DEF RunStates
        <3> HIDE DEF shown
        <3>5. ~(~run.stream.open \/ family # "stream")
            BY <1>2, <2>2
        <3> QED
            BY <3>1, <3>3, <3>4, <3>5
<1>3. CASE ~(run.stream.open /\ run.stream.slot > 0)
    BY <1>1, <1>3 DEF Refreshed, RunStates, Steps
<1> QED
    BY <1>2, <1>3

(* A legal transition appends the new status to the history. *)
LEMMA TransitionedFields ==
    ASSUME NEW s \in RunStates, NEW status \in Statuses,
           <<s.status, status>> \in Allowed
    PROVE  /\ Transitioned(s, status) =
                 [s EXCEPT !.status = status, !.history = Append(@, status)]
           /\ Transitioned(s, status) \in RunStates
<1>1. s.status # status
    BY DEF Allowed
<1>2. Append(s.history, status) \in Seq(Statuses)
    BY HistoryGrows DEF RunStates
<1>3. Transitioned(s, status) =
                 [s EXCEPT !.status = status, !.history = Append(@, status)]
    BY <1>1 DEF Transitioned
<1> QED
    BY <1>2, <1>3 DEF RunStates

LEMMA InitRunInv == Init => RunInv
<1> SUFFICES ASSUME Init PROVE RunInv
    OBVIOUS
<1>1. /\ worker \in [at : {"spawned"}, prefix : Steps, steps : Steps, outcome : {"none"}]
      /\ worker.prefix <= worker.steps /\ worker.steps < MaxSteps
      /\ family # "stream" => worker.prefix = 0
      /\ family = "actions" => worker.steps = 0
    BY DEF Init, Resumable, Steps
<1>2. Accepted \in RunStates
    BY DEF Accepted, RunStates, Statuses, NoStream, NoTerminal, Outcomes, Steps
<1>3. TypeOK
    BY <1>1, <1>2 DEF Init, TypeOK, Outcomes
<1> QED
    BY <1>1, <1>3 DEF Init, RunInv, NeverIllegal, FlagFollowsStatus, StatusFollowsWorker,
       FamilyAt, ChannelOfSegment, ProgressFollows, EarlyCancelSeen, Shown, Accepted,
       Deciding, Polling, NoStream, NoTerminal

-----------------------------------------------------------------------------
(* Steps that leave the run, the flag and the holder as they are.          *)
Untouched == run' = run /\ requested' = requested /\ holder' = holder /\ family' = family

LEMMA WorkerDecides ==
    ASSUME RunInv,
           \/ StopAtBoundary \/ Continue \/ AcceptAction \/ DiscardTrial
           \/ Solve \/ WorkerFails
    PROVE  RunInv'
<1>1. Untouched /\ UNCHANGED <<pc, cache, answer>>
    BY DEF StopAtBoundary, Continue, AcceptAction, DiscardTrial, Solve, WorkerFails,
           Decide, Untouched, results
<1>2. StartedUncancelled' = StartedUncancelled
    BY <1>1 DEF Untouched, StartedUncancelled
<1>3. worker' \in Workers
    <2> USE DEF RunInv, TypeOK, FamilyAt, Outcomes, Steps, Decide, Workers, Positions
    <2>1. worker \in Workers
        OBVIOUS
    <2>2. CASE StopAtBoundary \/ DiscardTrial
        BY <2>1, <2>2 DEF StopAtBoundary, DiscardTrial
    <2>3. CASE Continue
        BY <2>1, <2>3 DEF Continue
    <2>4. CASE AcceptAction
        <3>1. worker.steps + 1 \in Steps
            BY <2>1, <2>4 DEF AcceptAction
        <3> QED
            BY <2>1, <2>4, <3>1 DEF AcceptAction
    <2>5. CASE Solve
        <3>1. PICK steps \in {0, MaxSteps} :
                 worker' = [worker EXCEPT !.at = "report", !.outcome = "Completed",
                                          !.steps = steps]
            BY <2>5 DEF Solve
        <3>2. steps \in Steps
            OBVIOUS
        <3> QED
            BY <2>1, <3>1, <3>2
    <2>6. CASE WorkerFails
        BY <2>1, <2>6 DEF WorkerFails
    <2> QED
        BY <2>2, <2>3, <2>4, <2>5, <2>6
<1>11. TypeOK'
    BY <1>1, <1>3 DEF Untouched, RunInv, TypeOK, Workers, Positions
<1>4. NeverIllegal' /\ FlagFollowsStatus'
    BY <1>1 DEF Untouched, RunInv, NeverIllegal, FlagFollowsStatus
<1> USE DEF RunInv, TypeOK, FamilyAt, ChannelOfSegment, StatusFollowsWorker,
       ProgressFollows, EarlyCancelSeen, Shown, Deciding, Steps, Polling, AllFamilies, NoProgress
<1>5. CASE StopAtBoundary
    BY <1>1, <1>2, <1>11, <1>4, <1>5 DEF StopAtBoundary, Decide, Untouched
<1>6. CASE Continue
    <2>1. CASE worker.steps = MaxSteps /\ Decide("Completed") /\ (requested => family = "process")
        <3>1. /\ worker'.at = "report" /\ worker'.outcome = "Completed"
              /\ worker'.steps = worker.steps /\ worker'.prefix = worker.prefix
            BY <2>1 DEF Decide
        <3>2. StartedUncancelled
            BY <1>6, <2>1 DEF Continue
        <3>3. ProgressFollows' /\ StatusFollowsWorker' /\ FamilyAt' /\ ChannelOfSegment'
            BY <1>1, <1>6, <2>1, <3>1 DEF Continue, Untouched
        <3> QED
            BY <1>1, <1>2, <1>11, <1>4, <3>1, <3>2, <3>3 DEF Untouched
    <2>2. CASE /\ worker.steps < MaxSteps /\ ~requested
               /\ worker' = [worker EXCEPT !.at = "trial"]
        BY <1>1, <1>2, <1>11, <1>4, <1>6, <2>2 DEF Continue, Untouched
    <2> QED
        BY <1>6, <2>1, <2>2 DEF Continue
<1>7. CASE AcceptAction
    BY <1>1, <1>2, <1>11, <1>4, <1>7 DEF AcceptAction, Untouched
<1>8. CASE DiscardTrial
    BY <1>1, <1>2, <1>11, <1>4, <1>8 DEF DiscardTrial, Decide, Untouched
<1>9. CASE Solve
    BY <1>1, <1>2, <1>11, <1>4, <1>9 DEF Solve, Untouched
<1>10. CASE WorkerFails
    BY <1>1, <1>2, <1>11, <1>4, <1>10 DEF WorkerFails, Untouched
<1> QED
    BY <1>5, <1>6, <1>7, <1>8, <1>9, <1>10

(* A worker all of whose fields but the family's are replaced. *)
LEMMA WorkerReplaced ==
    ASSUME NEW A, NEW B, NEW C, NEW D,
           NEW w \in [at : A, prefix : B, steps : C, outcome : D],
           NEW n \in C, NEW p \in B, NEW o \in D, NEW at \in A, NEW x,
           x = [w EXCEPT !.steps = n, !.prefix = p, !.outcome = o, !.at = at]
    PROVE  /\ x \in [at : A, prefix : B, steps : C, outcome : D]
           /\ x.at = at /\ x.prefix = p /\ x.steps = n /\ x.outcome = o
OBVIOUS

(* An adaptive step: a new segment's channel, or one more observation.     *)
LEMMA StreamSteps ==
    ASSUME RunInv,
           ObserveProgress \/ \E end \in {"none", "event", "horizon"} : AcceptStep(end)
    PROVE  RunInv'
<1> USE DEF RunInv, TypeOK
<1>1. run \in RunStates /\ MaxSteps \in Nat /\ worker.steps \in Steps /\ worker.prefix \in Steps
    OBVIOUS
<1>2. /\ run'.status = run.status /\ run'.history = run.history
      /\ run'.terminal = run.terminal /\ run'.integrity_failed = run.integrity_failed
      /\ run' \in RunStates /\ family = "stream"
      /\ run'.stream.open /\ run'.stream.prefix + run'.stream.slot <= MaxSteps
      /\ worker'.at = "poll" => run'.stream.prefix = worker'.prefix
    <2>1. CASE ObserveProgress
        <3>1. ~(run.integrity_failed \/ IsTerminal(run.status))
            BY <2>1 DEF ObserveProgress, IsTerminal, NeverIllegal, StatusFollowsWorker
        <3> DEFINE channel == [open |-> TRUE, prefix |-> worker.prefix, slot |-> 0]
        <3>2. run' = [Refreshed(run) EXCEPT !.stream = channel]
            BY <2>1, <3>1 DEF ObserveProgress
        <3>3. channel \in [open : BOOLEAN, prefix : Steps, slot : Steps]
            BY <1>1 DEF Steps
        <3>4. run'.stream = channel /\ run' \in RunStates
            BY <3>2, <3>3, RefreshedFields DEF RunStates
        <3>5. worker'.prefix = worker.prefix /\ family = "stream"
            BY <2>1 DEF ObserveProgress, FamilyAt
        <3>6. /\ run'.status = run.status /\ run'.history = run.history
              /\ run'.terminal = run.terminal
              /\ run'.integrity_failed = run.integrity_failed
            BY <3>2, RefreshedFields DEF RunStates
        <3> QED
            BY <1>1, <3>4, <3>5, <3>6 DEF Steps
    <2>2. ASSUME NEW end \in {"none", "event", "horizon"}, AcceptStep(end)
          PROVE  <1>2!:
        <3> DEFINE seen == worker.steps + 1 - worker.prefix
        <3>1. /\ run.stream.open /\ run.stream.prefix = worker.prefix /\ family = "stream"
              /\ worker.steps < MaxSteps /\ worker.prefix <= worker.steps
            BY <2>2 DEF AcceptStep, ChannelOfSegment, FamilyAt
        <3>2. seen \in Steps /\ worker.prefix + seen <= MaxSteps
            BY <1>1, <3>1 DEF Steps
        <3>3. worker'.at = "poll" => worker'.prefix = worker.prefix
            BY <2>2 DEF AcceptStep
        <3>4. CASE run.stream.slot = 0
            <4>1. run' = [run EXCEPT !.stream = [run.stream EXCEPT !.slot = seen]]
                BY <1>1, <2>2, <3>1, <3>4 DEF AcceptStep, Observed, RunStates
            <4>2. [run.stream EXCEPT !.slot = seen] \in [open : BOOLEAN, prefix : Steps, slot : Steps]
                BY <1>1, <3>2 DEF RunStates
            <4> HIDE DEF seen
            <4>3. run' \in RunStates /\ run'.stream = [run.stream EXCEPT !.slot = seen]
                BY <1>1, <4>1, <4>2 DEF RunStates
            <4>4. /\ run'.stream.open /\ run'.stream.prefix = worker.prefix
                  /\ run'.stream.slot = seen
                BY <1>1, <3>1, <4>3 DEF RunStates
            <4>5. /\ run'.status = run.status /\ run'.history = run.history
                  /\ run'.terminal = run.terminal
                  /\ run'.integrity_failed = run.integrity_failed
                BY <1>1, <4>1 DEF RunStates
            <4> QED
                BY <3>1, <3>2, <3>3, <4>3, <4>4, <4>5
        <3>5. CASE run.stream.slot # 0
            <4>1. run' = run
                BY <2>2, <3>5 DEF AcceptStep, Observed
            <4> QED
                BY <1>1, <3>1, <3>3, <4>1 DEF ChannelOfSegment
        <3> QED
            BY <3>4, <3>5
    <2> QED
        BY <2>1, <2>2
<1>3. UNCHANGED <<family, requested, holder, cache, answer, pc>>
    BY DEF ObserveProgress, AcceptStep, results
<1>4. StartedUncancelled' = StartedUncancelled
    BY <1>2 DEF StartedUncancelled
<1>5. /\ worker' \in Workers
      /\ worker'.at \in {"poll", "observe", "report"}
      /\ worker'.at = "report" <=> worker'.outcome = "Completed"
      /\ worker'.at # "report" => worker'.outcome = "none"
      /\ worker'.prefix <= worker'.steps
      /\ ~StartedUncancelled => worker'.steps = worker.steps /\ worker'.at = "poll"
      /\ worker.at \notin {"spawned", "done"}
    <2> USE DEF StatusFollowsWorker, FamilyAt, EarlyCancelSeen, Steps, Outcomes, Deciding,
                Workers, Positions
    <2>1. CASE ObserveProgress
        BY <2>1 DEF ObserveProgress
    <2>2. ASSUME NEW end \in {"none", "event", "horizon"}, AcceptStep(end)
          PROVE  <1>5!:
        <3>1. worker.steps + 1 \in Steps /\ worker.at = "trial" /\ worker.outcome = "none"
            BY <1>1, <2>2 DEF AcceptStep
        <3>2. StartedUncancelled
            BY <1>2, <3>1 DEF Polling
        <3>3. worker' = [worker EXCEPT
                    !.steps = worker.steps + 1,
                    !.prefix = IF end = "event" THEN worker.steps + 1 ELSE worker.prefix,
                    !.outcome = IF end = "horizon" THEN "Completed" ELSE worker.outcome,
                    !.at = CASE end = "none" -> "poll"
                             [] end = "event" -> "observe"
                             [] end = "horizon" -> "report"]
            BY <2>2 DEF AcceptStep
        <3>4. CASE end = "none"
            <4>1. worker' = [worker EXCEPT !.steps = worker.steps + 1, !.prefix = worker.prefix,
                                          !.outcome = worker.outcome, !.at = "poll"]
                BY <3>3, <3>4
            <4>2. /\ worker' \in Workers
                  /\ worker'.at = "poll" /\ worker'.prefix = worker.prefix
                  /\ worker'.steps = worker.steps + 1 /\ worker'.outcome = worker.outcome
                BY <1>1, <3>1, <4>1, WorkerReplaced
            <4> QED
                BY <1>1, <3>1, <3>2, <4>2
        <3>5. CASE end = "event"
            <4>1. worker' = [worker EXCEPT !.steps = worker.steps + 1, !.prefix = worker.steps + 1,
                                          !.outcome = worker.outcome, !.at = "observe"]
                BY <3>3, <3>5
            <4>2. /\ worker' \in Workers
                  /\ worker'.at = "observe" /\ worker'.prefix = worker.steps + 1
                  /\ worker'.steps = worker.steps + 1 /\ worker'.outcome = worker.outcome
                BY <1>1, <3>1, <4>1, WorkerReplaced
            <4> QED
                BY <1>1, <3>1, <3>2, <4>2
        <3>6. CASE end = "horizon"
            <4>1. worker' = [worker EXCEPT !.steps = worker.steps + 1, !.prefix = worker.prefix,
                                          !.outcome = "Completed", !.at = "report"]
                BY <3>3, <3>6
            <4>2. /\ worker' \in Workers
                  /\ worker'.at = "report" /\ worker'.prefix = worker.prefix
                  /\ worker'.steps = worker.steps + 1 /\ worker'.outcome = "Completed"
                BY <1>1, <3>1, <4>1, WorkerReplaced
            <4> QED
                BY <1>1, <3>1, <3>2, <4>2
        <3> QED
            BY <3>4, <3>5, <3>6
    <2> QED
        BY <2>1, <2>2
<1>6. TypeOK' /\ NeverIllegal'
    BY <1>2, <1>3, <1>5 DEF NeverIllegal, Workers, Positions
<1>7. FlagFollowsStatus'
    BY <1>2, <1>3 DEF FlagFollowsStatus
<1>8. StatusFollowsWorker' /\ FamilyAt'
    BY <1>2, <1>3, <1>5 DEF StatusFollowsWorker, FamilyAt, Deciding, Polling
<1>9. ChannelOfSegment' /\ ProgressFollows'
    BY <1>2, <1>3, <1>5 DEF ChannelOfSegment, ProgressFollows, Polling
<1>10. EarlyCancelSeen'
    BY <1>2, <1>3, <1>4, <1>5 DEF EarlyCancelSeen, Polling
<1> QED
    BY <1>6, <1>7, <1>8, <1>9, <1>10

(* Waking the sleepers raises nobody. *)
LEMMA NotifiedRaises ==
    ASSUME TypeOK
    PROVE  /\ Notified \in [Callers -> {"idle", "raised", "waiting", "asleep", "claiming",
                                "parking", "parked", "fetching", "taking", "projecting"}]
           /\ \A c \in Callers : Notified[c] = "raised" <=> pc[c] = "raised"
BY DEF TypeOK, Notified

LEMMA StartStep ==
    ASSUME RunInv, MarkRunning
    PROVE  RunInv'
<1> USE DEF RunInv
<1>1. /\ worker \in Workers /\ run \in RunStates /\ worker.at = "spawned"
      /\ StartOf(family) \in Positions \ {"spawned", "report", "finish", "done"}
      /\ worker' = [worker EXCEPT !.at = StartOf(family)]
    BY DEF MarkRunning, TypeOK, Workers, Positions, StartOf
<1>2. /\ worker' \in Workers /\ worker'.at = StartOf(family) /\ worker'.steps = worker.steps
      /\ worker'.prefix = worker.prefix /\ worker'.outcome = worker.outcome
    BY <1>1 DEF Workers
<1>3. UNCHANGED <<family, requested, holder, cache, answer>> /\ holder = NoHolder
    BY DEF MarkRunning, results, Unlocked
<1>4. /\ StartOf(family) = "publish" => family = "process"
      /\ StartOf(family) = "poll" => family = "actions"
      /\ StartOf(family) = "observe" => family = "stream"
      /\ StartOf(family) = "solve" => family \notin Polling
      /\ StartOf(family) # "trial"
    BY DEF StartOf, TypeOK, AllFamilies, Polling
<1>5. /\ pc' \in [Callers -> {"idle", "raised", "waiting", "asleep", "claiming",
                                "parking", "parked", "fetching", "taking", "projecting"}]
      /\ \A c \in Callers : pc'[c] = "raised" <=> pc[c] = "raised"
    BY NotifiedRaises DEF MarkRunning, TypeOK
<1>6. /\ run' \in RunStates
      /\ run'.progress = run.progress /\ run'.stream = run.stream
      /\ run'.terminal = run.terminal /\ run'.integrity_failed = run.integrity_failed
      /\ run'.status \in {"Running", "Cancelling"}
      /\ run'.status = "Running" => run.status = "Queued" /\ StartedUncancelled'
      /\ run'.status = "Cancelling" => run' = run
    <2>1. CASE run.status = "Queued"
        <3>1. run' = Transitioned(run, "Running") /\ <<run.status, "Running">> \in Allowed
            BY <2>1 DEF MarkRunning, NeverIllegal, Allowed
        <3>2. /\ run' \in RunStates
              /\ run' = [run EXCEPT !.status = "Running", !.history = Append(@, "Running")]
            BY <1>1, <3>1, TransitionedFields DEF Statuses
        <3>3. run'.history = Append(run.history, "Running") /\ run.history \in Seq(Statuses)
            BY <1>1, <3>2 DEF RunStates
        <3>4. StartedUncancelled'
            BY <3>3, HistoryGrows DEF StartedUncancelled, Statuses
        <3> QED
            BY <1>1, <2>1, <3>2, <3>4 DEF RunStates
    <2>2. CASE run.status # "Queued"
        BY <1>1, <2>2 DEF MarkRunning, StatusFollowsWorker
    <2> QED
        BY <2>1, <2>2
<1>7. run'.status = "Cancelling" => StartedUncancelled' = StartedUncancelled
    BY <1>6 DEF StartedUncancelled
<1>8. TypeOK' /\ NeverIllegal'
    BY <1>2, <1>3, <1>5, <1>6 DEF TypeOK, NeverIllegal, Workers, Positions
<1>9. FlagFollowsStatus'
    BY <1>3, <1>5, <1>6 DEF FlagFollowsStatus
<1>10. StatusFollowsWorker' /\ FamilyAt'
    BY <1>1, <1>2, <1>3, <1>4, <1>6
       DEF StatusFollowsWorker, FamilyAt, Deciding, Polling, Positions
<1>11. ChannelOfSegment' /\ ProgressFollows'
    BY <1>1, <1>2, <1>3, <1>4, <1>6
       DEF ChannelOfSegment, ProgressFollows, Polling, Shown, StatusFollowsWorker, Deciding
<1>12. EarlyCancelSeen'
    BY <1>1, <1>2, <1>3, <1>4, <1>6, <1>7 DEF EarlyCancelSeen, FlagFollowsStatus
<1> QED
    BY <1>8, <1>9, <1>10, <1>11, <1>12

LEMMA PublishStep ==
    ASSUME RunInv, PublishBoundary \/ Report
    PROVE  RunInv'
<1> USE DEF RunInv
<1>1. /\ worker \in Workers /\ run \in RunStates
      /\ worker.at \in {"publish", "report"}
      /\ worker' = [worker EXCEPT !.at = IF worker.at = "publish" THEN "poll" ELSE "finish"]
    BY DEF PublishBoundary, Report, TypeOK, Workers, Positions
<1>2. /\ worker' \in Workers /\ worker'.steps = worker.steps
      /\ worker'.at = IF worker.at = "publish" THEN "poll" ELSE "finish"
      /\ worker'.prefix = worker.prefix /\ worker'.outcome = worker.outcome
    BY <1>1 DEF Workers, Positions
<1>3. UNCHANGED <<family, requested, holder, cache, answer>>
    BY DEF PublishBoundary, Report, results
<1>4. /\ pc' \in [Callers -> {"idle", "raised", "waiting", "asleep", "claiming",
                                "parking", "parked", "fetching", "taking", "projecting"}]
      /\ \A c \in Callers : pc'[c] = "raised" <=> pc[c] = "raised"
    BY NotifiedRaises DEF PublishBoundary, Report, TypeOK
<1>5. /\ run' \in RunStates /\ run'.status = run.status /\ run'.history = run.history
      /\ run'.terminal = run.terminal /\ run'.integrity_failed = run.integrity_failed
      /\ \/ run' = run /\ worker.at = "report" /\ family # "stream"
         \/ run'.stream = NoStream /\ run'.progress = worker.steps
    <2>1. \/ run' = Published(run, worker.steps)
          \/ run' = run /\ worker.at = "report" /\ family # "stream"
        <3>1. CASE PublishBoundary
            BY <3>1 DEF PublishBoundary
        <3>2. CASE Report
            BY <3>2 DEF Report
        <3> QED
            BY <3>1, <3>2
    <2>2. Published(run, worker.steps)
             = [run EXCEPT !.stream = NoStream, !.progress = worker.steps]
        BY DEF Published, NeverIllegal
    <2>3. worker.steps \in Steps
          /\ NoStream \in [open : BOOLEAN, prefix : Steps, slot : Steps]
        BY <1>1 DEF NoStream, Steps, Workers
    <2> HIDE DEF NoStream
    <2>4. /\ Published(run, worker.steps) \in RunStates
          /\ Published(run, worker.steps).status = run.status
          /\ Published(run, worker.steps).history = run.history
          /\ Published(run, worker.steps).terminal = run.terminal
          /\ Published(run, worker.steps).integrity_failed = run.integrity_failed
          /\ Published(run, worker.steps).stream = NoStream
          /\ Published(run, worker.steps).progress = worker.steps
        BY <1>1, <2>2, <2>3 DEF RunStates
    <2> QED
        BY <1>1, <2>1, <2>4
<1>6. StartedUncancelled' = StartedUncancelled
    BY <1>5 DEF StartedUncancelled
<1>7. TypeOK' /\ NeverIllegal'
    BY <1>2, <1>3, <1>4, <1>5 DEF TypeOK, NeverIllegal, Workers, Positions
<1>8. FlagFollowsStatus'
    BY <1>3, <1>4, <1>5 DEF FlagFollowsStatus
<1>9. StatusFollowsWorker' /\ FamilyAt'
    BY <1>1, <1>2, <1>3, <1>5 DEF StatusFollowsWorker, FamilyAt, Deciding, Polling
<1>10. ChannelOfSegment'
    BY <1>1, <1>2, <1>3, <1>5 DEF ChannelOfSegment, NoStream, Steps, RunStates, FamilyAt
<1>11. ProgressFollows'
    BY <1>1, <1>2, <1>3, <1>5
       DEF ProgressFollows, Polling, Shown, StatusFollowsWorker, Deciding
<1>12. EarlyCancelSeen'
    BY <1>1, <1>2, <1>3, <1>5, <1>6 DEF EarlyCancelSeen
<1> QED
    BY <1>7, <1>8, <1>9, <1>10, <1>11, <1>12

LEMMA FinishStep ==
    ASSUME RunInv, Finish
    PROVE  RunInv' /\ run'.terminal.payload = (worker.outcome = "Completed")
<1> USE DEF RunInv
<1>1. /\ worker \in Workers /\ run \in RunStates /\ worker.at = "finish"
      /\ worker' = [worker EXCEPT !.at = "done"]
      /\ worker.outcome \in {"Completed", "Cancelled", "Failed"}
    BY DEF Finish, TypeOK, Workers, Positions, StatusFollowsWorker, Deciding, Outcomes
<1>2. /\ worker' \in Workers /\ worker'.steps = worker.steps /\ worker'.at = "done"
      /\ worker'.prefix = worker.prefix /\ worker'.outcome = worker.outcome
    BY <1>1 DEF Workers, Positions
<1>3. UNCHANGED <<family, requested, holder, cache, answer>> /\ holder = NoHolder
    BY DEF Finish, results, Unlocked
<1>4. /\ pc' \in [Callers -> {"idle", "raised", "waiting", "asleep", "claiming",
                                "parking", "parked", "fetching", "taking", "projecting"}]
      /\ \A c \in Callers : pc'[c] = "raised" <=> pc[c] = "raised"
    BY NotifiedRaises DEF Finish, TypeOK
<1>5. <<run.status, worker.outcome>> \in Allowed
    BY <1>1, <1>3 DEF StatusFollowsWorker, FlagFollowsStatus, Allowed
<1> DEFINE closed == [Refreshed(run) EXCEPT !.stream = NoStream]
           moved  == Transitioned(closed, worker.outcome)
           term   == [kind |-> worker.outcome, payload |-> worker.outcome = "Completed",
                      steps |-> worker.steps]
<1>6. /\ closed \in RunStates /\ closed.stream = NoStream
      /\ closed.status = run.status /\ closed.history = run.history
      /\ closed.integrity_failed = FALSE
      /\ closed.progress = Refreshed(run).progress
    <2>1. NoStream \in [open : BOOLEAN, prefix : Steps, slot : Steps]
        BY DEF NoStream, Steps
    <2> HIDE DEF NoStream
    <2> QED
        BY <2>1, RefreshedFields DEF RunStates, NeverIllegal
<1>7. /\ moved \in RunStates
      /\ moved = [closed EXCEPT !.status = worker.outcome, !.history = Append(@, worker.outcome)]
    BY <1>1, <1>5, <1>6, TransitionedFields DEF Statuses
<1> HIDE DEF closed
<1>8. /\ moved.stream = NoStream /\ moved.integrity_failed = FALSE
      /\ moved.progress = Refreshed(run).progress
      /\ moved.status = worker.outcome
      /\ moved.history = Append(run.history, worker.outcome)
    BY <1>6, <1>7 DEF RunStates
<1>9. run' = [moved EXCEPT !.terminal = term]
    BY <1>8 DEF Finish, Settled, closed, NeverIllegal
<1>10. term \in [kind : Outcomes, payload : BOOLEAN, steps : Steps]
    BY <1>1 DEF Workers
<1> HIDE DEF moved, term
<1>11. /\ run' \in RunStates /\ run'.terminal = term
       /\ run'.stream = NoStream /\ run'.integrity_failed = FALSE
       /\ run'.progress = Refreshed(run).progress /\ run'.status = worker.outcome
       /\ run'.history = Append(run.history, worker.outcome)
    BY <1>7, <1>8, <1>9, <1>10 DEF RunStates
<1>12. StartedUncancelled => StartedUncancelled'
    BY <1>1, <1>11, HistoryGrows DEF StartedUncancelled, Statuses, RunStates
<1>13. TypeOK' /\ NeverIllegal'
    BY <1>2, <1>3, <1>4, <1>11 DEF TypeOK, NeverIllegal, Workers, Positions
<1>14. FlagFollowsStatus'
    BY <1>1, <1>3, <1>4, <1>11 DEF FlagFollowsStatus
<1>15. StatusFollowsWorker' /\ FamilyAt'
    BY <1>1, <1>2, <1>3, <1>11 DEF StatusFollowsWorker, FamilyAt, Deciding, term
<1>16. ChannelOfSegment'
    BY <1>2, <1>3, <1>11 DEF ChannelOfSegment, NoStream
<1>17. family \in Polling /\ worker.outcome # "Failed" => Refreshed(run) = run
    BY <1>1, RefreshedFields DEF ProgressFollows, NoStream, Polling
<1>18. ProgressFollows'
    BY <1>1, <1>2, <1>3, <1>11, <1>17 DEF ProgressFollows, Polling, Shown
<1>19. EarlyCancelSeen'
    BY <1>1, <1>2, <1>3, <1>11, <1>12 DEF EarlyCancelSeen
<1> QED
    BY <1>11, <1>13, <1>14, <1>15, <1>16, <1>18, <1>19 DEF term

-----------------------------------------------------------------------------
(* Steps of the callers.                                                   *)
LEMMA CancelStep ==
    ASSUME RunInv, NEW c \in Callers, RequestCancellation(c) \/ EnterCancelling(c)
    PROVE  RunInv'
<1> USE DEF RunInv
<1>1. UNCHANGED <<family, worker, cache, answer>> /\ run \in RunStates
    BY DEF RequestCancellation, EnterCancelling, results, TypeOK
<1>2. CASE RequestCancellation(c)
    <2>1. /\ run' = run /\ requested' = TRUE /\ holder' = c /\ holder = NoHolder
          /\ run.status \in {"Queued", "Running"}
          /\ pc' = [pc EXCEPT ![c] = "raised"]
        BY <1>2 DEF RequestCancellation, Unlocked, IsTerminal, StatusFollowsWorker,
               TypeOK, Outcomes, Deciding
    <2>2. StartedUncancelled' = StartedUncancelled
        BY <2>1 DEF StartedUncancelled
    <2>3. TypeOK' /\ NeverIllegal'
        BY <1>1, <2>1 DEF TypeOK, NeverIllegal
    <2>4. FlagFollowsStatus'
        BY <1>1, <2>1 DEF FlagFollowsStatus, TypeOK
    <2> QED
        BY <1>1, <2>1, <2>2, <2>3, <2>4 DEF StatusFollowsWorker, FamilyAt,
           ChannelOfSegment, ProgressFollows, Shown, EarlyCancelSeen
<1>3. CASE EnterCancelling(c)
    <2>1. /\ run' = Transitioned(run, "Cancelling") /\ holder = c /\ holder' = NoHolder
          /\ requested' = requested /\ requested /\ holder # NoHolder
          /\ pc' = [Notified EXCEPT ![c] = "idle"]
          /\ run.status \in {"Queued", "Running"}
        BY <1>3 DEF EnterCancelling, FlagFollowsStatus
    <2>2. <<run.status, "Cancelling">> \in Allowed
        BY <2>1 DEF Allowed
    <2>3. /\ run' \in RunStates
          /\ run' = [run EXCEPT !.status = "Cancelling", !.history = Append(@, "Cancelling")]
        BY <1>1, <2>1, <2>2, TransitionedFields DEF Statuses
    <2>4. /\ run'.status = "Cancelling" /\ run'.history = Append(run.history, "Cancelling")
          /\ run'.progress = run.progress /\ run'.stream = run.stream
          /\ run'.terminal = run.terminal /\ run'.integrity_failed = run.integrity_failed
        BY <1>1, <2>3 DEF RunStates
    <2>5. StartedUncancelled => StartedUncancelled'
        BY <1>1, <2>4, HistoryGrows DEF StartedUncancelled, Statuses, RunStates
    <2>6. /\ pc' \in [Callers -> {"idle", "raised", "waiting", "asleep", "claiming",
                                "parking", "parked", "fetching", "taking", "projecting"}]
          /\ \A d \in Callers : pc'[d] = "raised" <=> pc[d] = "raised" /\ d # c
        BY <2>1, NotifiedRaises
    <2>7. TypeOK' /\ NeverIllegal'
        BY <1>1, <2>1, <2>3, <2>4, <2>6 DEF TypeOK, NeverIllegal
    <2>8. FlagFollowsStatus'
        BY <1>1, <2>1, <2>4, <2>6 DEF FlagFollowsStatus
    <2>9. StatusFollowsWorker'
        BY <1>1, <2>1, <2>4 DEF StatusFollowsWorker, TypeOK, Outcomes
    <2> QED
        BY <1>1, <2>1, <2>4, <2>5, <2>7, <2>8, <2>9 DEF FamilyAt,
           ChannelOfSegment, ProgressFollows, Shown, EarlyCancelSeen
<1> QED
    BY <1>2, <1>3

LEMMA ReadStep ==
    ASSUME RunInv, NEW c \in Callers, ReadProgress(c)
    PROVE  RunInv'
<1> USE DEF RunInv
<1>1. UNCHANGED <<family, worker, cache, answer, pc, requested, holder>>
      /\ run' = Refreshed(run) /\ run.stream.open
    BY DEF ReadProgress, results
<1>2. family = "stream"
    BY <1>1 DEF ChannelOfSegment
<1>3. StartedUncancelled' = StartedUncancelled
    BY <1>1, RefreshedFields DEF StartedUncancelled
<1>7. /\ run' \in RunStates /\ run'.status = run.status /\ run'.terminal = run.terminal
      /\ run'.integrity_failed = run.integrity_failed /\ run'.stream.open = run.stream.open
      /\ run'.stream.prefix = run.stream.prefix /\ run'.stream.slot <= run.stream.slot
    BY <1>1, RefreshedFields
<1> HIDE DEF RunInv
<1>4. TypeOK' /\ NeverIllegal' /\ FlagFollowsStatus' /\ StatusFollowsWorker' /\ FamilyAt'
    <2>1. TypeOK /\ NeverIllegal /\ FlagFollowsStatus /\ StatusFollowsWorker /\ FamilyAt
        BY DEF RunInv
    <2>2. TypeOK'
        BY <1>1, <1>7, <2>1 DEF TypeOK
    <2>3. NeverIllegal' /\ FlagFollowsStatus' /\ StatusFollowsWorker' /\ FamilyAt'
        BY <1>1, <1>7, <2>1 DEF NeverIllegal, FlagFollowsStatus, StatusFollowsWorker, FamilyAt
    <2> QED
        BY <2>2, <2>3
<1>5. ChannelOfSegment'
    <2>1. run.stream.prefix + run.stream.slot <= MaxSteps
        BY <1>1 DEF RunInv, ChannelOfSegment
    <2>2. /\ run.stream.prefix \in Nat /\ run.stream.slot \in Nat
          /\ run'.stream.slot \in Nat /\ MaxSteps \in Nat
        BY <1>7 DEF RunInv, TypeOK, RunStates, Steps
    <2>3. run'.stream.prefix + run'.stream.slot <= MaxSteps
        BY <1>7, <2>1, <2>2
    <2> QED
        BY <1>1, <1>2, <1>7, <2>3 DEF RunInv, ChannelOfSegment
<1> USE DEF RunInv
<1>6. ProgressFollows'
    BY <1>1, <1>2 DEF ProgressFollows, Polling, NoStream
<1> QED
    BY <1>1, <1>3, <1>4, <1>5, <1>6, RefreshedFields DEF EarlyCancelSeen

(* result() touches nothing of the run but the payload of a settled one.   *)
LEMMA ResultStep ==
    ASSUME RunInv, NEW c \in Callers,
           \/ CallResult(c) \/ CheckTerminal(c) \/ SpuriousWake(c) \/ Claim(c)
           \/ AwaitMaterializer(c) \/ Fetch(c) \/ TakeCompleted(c) \/ Materialize(c)
    PROVE  RunInv'
<1> USE DEF RunInv
<1>1. UNCHANGED <<family, worker, requested, holder>>
    BY DEF CallResult, CheckTerminal, SpuriousWake, Claim, AwaitMaterializer, Fetch,
           TakeCompleted, Materialize, results
<1>2. /\ run' \in RunStates /\ run'.status = run.status /\ run'.history = run.history
      /\ run'.progress = run.progress /\ run'.stream = run.stream
      /\ run'.integrity_failed = run.integrity_failed
      /\ run'.terminal.kind = run.terminal.kind /\ run'.terminal.steps = run.terminal.steps
      /\ worker.at # "done" => run'.terminal = run.terminal
    <2>1. CASE UNCHANGED run
        BY <2>1 DEF TypeOK
    <2>2. CASE /\ run.terminal.payload
               /\ run' = [run EXCEPT !.terminal = [run.terminal EXCEPT !.payload = FALSE]]
        <3>1. /\ [run.terminal EXCEPT !.payload = FALSE]
                    \in [kind : Outcomes, payload : BOOLEAN, steps : Steps]
              /\ [run.terminal EXCEPT !.payload = FALSE].kind = run.terminal.kind
              /\ [run.terminal EXCEPT !.payload = FALSE].steps = run.terminal.steps
            BY DEF TypeOK, RunStates
        <3>2. worker.at = "done"
            BY <2>2 DEF StatusFollowsWorker, NoTerminal
        <3> QED
            BY <2>2, <3>1, <3>2 DEF TypeOK, RunStates
    <2>3. UNCHANGED run
          \/ (/\ run.terminal.payload
              /\ run' = [run EXCEPT !.terminal = [run.terminal EXCEPT !.payload = FALSE]])
        <3>1. CASE TakeCompleted(c)
            BY <3>1 DEF TakeCompleted, results, TypeOK, RunStates
        <3>2. CASE ~TakeCompleted(c)
            BY <3>2 DEF CallResult, CheckTerminal, SpuriousWake, Claim, AwaitMaterializer,
               Fetch, Materialize
        <3> QED
            BY <3>1, <3>2
    <2> QED
        BY <2>1, <2>2, <2>3
<1>3. /\ cache' \in {"Empty", "Materializing", "Failed"} \cup Callers
      /\ answer' \in [Callers -> Outcomes \cup Callers \cup {NoAnswer, NoObject, Broken}]
      /\ pc' \in [Callers -> {"idle", "raised", "waiting", "asleep", "claiming",
                              "parking", "parked", "fetching", "taking", "projecting"}]
      /\ \A d \in Callers : pc'[d] = "raised" <=> pc[d] = "raised"
    <2> USE DEF TypeOK, results
    <2>1. CASE CallResult(c)
        BY <2>1 DEF CallResult
    <2>2. CASE CheckTerminal(c)
        <3>1. run.terminal.kind \in Outcomes
            BY DEF RunStates
        <3>2. CASE run.terminal.kind = "none" \/ run.terminal.kind = "Completed"
            BY <2>2, <3>2 DEF CheckTerminal
        <3>3. CASE run.terminal.kind # "none" /\ run.terminal.kind # "Completed"
            BY <2>2, <3>1, <3>3 DEF CheckTerminal, Answered
        <3> QED
            BY <3>2, <3>3
    <2>3. CASE SpuriousWake(c)
        BY <2>3 DEF SpuriousWake
    <2>4. CASE Claim(c)
        BY <2>4 DEF Claim, Answered
    <2>5. CASE AwaitMaterializer(c)
        BY <2>5 DEF AwaitMaterializer
    <2>6. CASE Fetch(c)
        BY <2>6 DEF Fetch, Answered
    <2>7. /\ Unparked \in [Callers -> {"idle", "raised", "waiting", "asleep", "claiming",
                              "parking", "parked", "fetching", "taking", "projecting"}]
          /\ \A d \in Callers : Unparked[d] = "raised" <=> pc[d] = "raised"
        BY DEF Unparked
    <2>8. CASE TakeCompleted(c)
        BY <2>7, <2>8 DEF TakeCompleted, Store
    <2>9. CASE Materialize(c)
        BY <2>7, <2>9 DEF Materialize, Store
    <2> QED
        BY <2>1, <2>2, <2>3, <2>4, <2>5, <2>6, <2>8, <2>9
<1>4. StartedUncancelled' = StartedUncancelled
    BY <1>2 DEF StartedUncancelled
<1>5. TypeOK' /\ NeverIllegal'
    BY <1>1, <1>2, <1>3 DEF TypeOK, NeverIllegal
<1>6. FlagFollowsStatus'
    BY <1>1, <1>2, <1>3 DEF FlagFollowsStatus
<1>7. StatusFollowsWorker' /\ FamilyAt'
    BY <1>1, <1>2 DEF StatusFollowsWorker, FamilyAt
<1>8. ChannelOfSegment' /\ ProgressFollows' /\ EarlyCancelSeen'
    BY <1>1, <1>2, <1>4 DEF ChannelOfSegment, ProgressFollows, Shown, EarlyCancelSeen
<1> QED
    BY <1>5, <1>6, <1>7, <1>8

LEMMA RunInvariant == Spec => []RunInv
<1>1. RunInv /\ [Next]_vars => RunInv'
    <2> SUFFICES ASSUME RunInv, [Next]_vars PROVE RunInv'
        OBVIOUS
    <2>1. CASE Worker
        BY <2>1, StartStep, PublishStep, WorkerDecides, StreamSteps, FinishStep DEF Worker
    <2>2. ASSUME NEW c \in Callers, Caller(c) PROVE RunInv'
        BY <2>2, CancelStep, ReadStep, ResultStep DEF Caller, Proceed
    <2>3. CASE UNCHANGED vars
        BY <2>3 DEF vars, RunInv, TypeOK, NeverIllegal, FlagFollowsStatus,
           StatusFollowsWorker, FamilyAt, ChannelOfSegment, ProgressFollows, Shown,
           EarlyCancelSeen, StartedUncancelled
    <2> QED
        BY <2>1, <2>2, <2>3 DEF Next
<1> QED
    BY <1>1, InitRunInv, PTL DEF Spec

(* Every variable of a Run keeps its type. *)
THEOREM TypeCorrect == Spec => []TypeOK
<1>1. RunInv => TypeOK
    BY DEF RunInv
<1> QED
    BY <1>1, RunInvariant, PTL

(* No transition that the table of RunState refuses is ever attempted, however
   cancellations race the worker's start and end.                          *)
THEOREM LegalTheorem == Spec => []NeverIllegal
<1>1. RunInv => NeverIllegal
    BY DEF RunInv
<1> QED
    BY <1>1, RunInvariant, PTL

(* The count a settled run shows is the one its evidence holds. *)
THEOREM ProgressTheorem == Spec => []ProgressExact
<1>1. RunInv => ProgressExact
    BY DEF RunInv, ProgressExact, ProgressFollows, Shown, StatusFollowsWorker, NoTerminal,
           Polling
<1> QED
    BY <1>1, RunInvariant, PTL

(* A run that looks at its boundaries does not complete when it was cancelled
   before its worker started.                                              *)
THEOREM EarlyCancelTheorem == Spec => []EarlyCancelStops
<1>1. RunInv => EarlyCancelStops
    <2> SUFFICES ASSUME RunInv, run.status = "Completed", family \in Polling
                 PROVE  StartedUncancelled
        BY DEF EarlyCancelStops
    <2>1. worker.outcome = "Completed"
        BY DEF RunInv, StatusFollowsWorker
    <2> QED
        BY <2>1 DEF RunInv, EarlyCancelSeen
<1> QED
    BY <1>1, RunInvariant, PTL

-----------------------------------------------------------------------------
(* The result cache and the one-shot promise.                              *)
LEMMA InitCacheInv == Init => CacheInv
BY DEF Init, CacheInv, Accepted, NoTerminal, AtCache, Claiming

(* The steps of the worker and of cancel() wake sleepers; only Finish changes
   the terminal.                                                           *)
LEMMA WorkerKeepsCache ==
    ASSUME RunInv, CacheInv,
           \/ Worker
           \/ \E c \in Callers : \/ RequestCancellation(c)
                                \/ EnterCancelling(c)
                                \/ ReadProgress(c)
    PROVE  CacheInv'
<1> USE DEF RunInv, TypeOK
<1>1. /\ \A d \in Callers : pc'[d] \in AtCache => pc'[d] = pc[d]
      /\ UNCHANGED <<cache, answer>>
    <2>1. \A d \in Callers : Notified[d] \in AtCache => Notified[d] = pc[d]
        BY DEF Notified, AtCache
    <2>2. CASE Worker
        BY <2>1, <2>2 DEF Worker, MarkRunning, PublishBoundary, StopAtBoundary, Continue,
           AcceptAction, ObserveProgress, DiscardTrial, AcceptStep, Solve, Report,
           WorkerFails, Finish, Decide, results
    <2>3. ASSUME NEW c \in Callers, RequestCancellation(c) PROVE <1>1!:
        BY <2>3 DEF RequestCancellation, AtCache, results
    <2>4. ASSUME NEW c \in Callers, EnterCancelling(c) PROVE <1>1!:
        <3>1. Notified \in [Callers -> {"idle", "raised", "waiting", "asleep", "claiming",
                                "parking", "parked", "fetching", "taking", "projecting"}]
            BY NotifiedRaises
        <3> QED
            BY <2>1, <2>4, <3>1 DEF EnterCancelling, AtCache, results
    <2>5. ASSUME NEW c \in Callers, ReadProgress(c) PROVE <1>1!:
        BY <2>5 DEF ReadProgress, results
    <2> QED
        BY <2>2, <2>3, <2>4, <2>5
<1>2. \/ run'.terminal = run.terminal
      \/ /\ run.terminal.kind # "Completed"
         /\ run'.terminal.kind = "Completed" => run'.terminal.payload
    <2>1. CASE Finish
        <3>1. worker.at # "done" /\ run.terminal.kind = "none"
            BY <2>1 DEF Finish, StatusFollowsWorker, NoTerminal
        <3>2. worker.outcome = run'.terminal.kind
            BY <2>1, FinishStep DEF StatusFollowsWorker, Finish
        <3> QED
            BY <2>1, <3>1, <3>2, FinishStep
    <2>2. CASE UNCHANGED run
        BY <2>2
    <2>3. CASE MarkRunning \/ PublishBoundary \/ Report
        <3>1. run'.terminal = NoTerminal /\ run.terminal = NoTerminal
            BY <2>3, StartStep, PublishStep
               DEF StatusFollowsWorker, MarkRunning, PublishBoundary, Report, StartOf
        <3> QED
            BY <3>1
    <2>4. CASE ObserveProgress \/ \E end \in {"none", "event", "horizon"} : AcceptStep(end)
        <3>1. worker.at # "done" /\ worker'.at # "done"
            BY <2>4 DEF ObserveProgress, AcceptStep
        <3>2. run'.terminal = NoTerminal /\ run.terminal = NoTerminal
            BY <2>4, <3>1, StreamSteps DEF StatusFollowsWorker
        <3> QED
            BY <3>2
    <2>5. ASSUME NEW c \in Callers, EnterCancelling(c) PROVE run'.terminal = run.terminal
        <3>1. run.status \in {"Queued", "Running"} /\ worker'.at = worker.at
            BY <2>5 DEF EnterCancelling, FlagFollowsStatus
        <3>2. worker.at # "done"
            BY <3>1 DEF StatusFollowsWorker, Outcomes
        <3> QED
            BY <2>5, <3>1, <3>2, CancelStep DEF StatusFollowsWorker
    <2>6. ASSUME NEW c \in Callers, ReadProgress(c) PROVE run'.terminal = run.terminal
        BY <2>6, RefreshedFields DEF ReadProgress
    <2>7. CASE StopAtBoundary \/ Continue \/ AcceptAction \/ DiscardTrial \/ Solve
               \/ WorkerFails \/ \E c \in Callers : RequestCancellation(c)
        <3>1. UNCHANGED run
            BY <2>7 DEF StopAtBoundary, Continue, AcceptAction, DiscardTrial, Solve,
               WorkerFails, Decide, RequestCancellation
        <3> QED
            BY <3>1
    <2> QED
        BY <2>1, <2>3, <2>4, <2>5, <2>6, <2>7 DEF Worker
<1>3. CASE run'.terminal = run.terminal
    BY <1>1, <1>3 DEF CacheInv, AtCache, Claiming
<1>4. CASE /\ run.terminal.kind # "Completed"
           /\ run'.terminal.kind = "Completed" => run'.terminal.payload
    <2>1. \A d \in Callers : pc'[d] \notin AtCache
        BY <1>1, <1>4 DEF CacheInv
    <2> QED
        BY <1>1, <1>4, <2>1 DEF CacheInv, AtCache, Claiming
<1> QED
    BY <1>2, <1>3, <1>4

LEMMA OneCallerKeepsCache ==
    ASSUME CacheInv, NEW c \in Callers,
           run' = run, cache' = cache,
           \A d \in Callers : d # c => pc'[d] = pc[d],
           pc'[c] \notin Claiming,
           pc'[c] \in AtCache => run.terminal.kind = "Completed",
           pc'[c] = "fetching" => cache \in Callers
    PROVE  CacheInv'
<1>1. \A d \in Callers : pc'[d] \in AtCache => run.terminal.kind = "Completed"
    BY DEF CacheInv
<1>2. \A d \in Callers : pc'[d] = "fetching" => cache \in Callers
    BY DEF CacheInv
<1>3. \A d \in Callers : pc'[d] \in Claiming => pc'[d] = pc[d]
    OBVIOUS
<1>4. \A d \in Callers : pc'[d] = "taking" => pc[d] = "taking"
    BY <1>3 DEF Claiming
<1> QED
    BY <1>1, <1>2, <1>3, <1>4 DEF CacheInv

LEMMA ResultKeepsCache ==
    ASSUME RunInv, CacheInv, NEW c \in Callers,
           \/ CallResult(c) \/ CheckTerminal(c) \/ SpuriousWake(c) \/ Claim(c)
           \/ AwaitMaterializer(c) \/ Fetch(c) \/ TakeCompleted(c) \/ Materialize(c)
    PROVE  CacheInv'
<1> USE DEF RunInv, TypeOK, AtCache, Claiming
<1>1. CASE CallResult(c)
    BY <1>1 DEF CallResult, CacheInv, results
<1>2. CASE CheckTerminal(c)
    <2>1. /\ run' = run /\ cache' = cache
          /\ \A d \in Callers : d # c => pc'[d] = pc[d]
          /\ pc'[c] \in {"asleep", "claiming", "idle"}
          /\ pc'[c] = "claiming" => run.terminal.kind = "Completed"
        BY <1>2 DEF CheckTerminal, Answered
    <2> QED
        BY <2>1, OneCallerKeepsCache
<1>3. CASE SpuriousWake(c)
    <2>1. /\ run' = run /\ cache' = cache
          /\ \A d \in Callers : d # c => pc'[d] = pc[d]
          /\ pc'[c] \in {"waiting", "parking"}
          /\ pc'[c] = "parking" => run.terminal.kind = "Completed"
        BY <1>3 DEF SpuriousWake, results, CacheInv
    <2> QED
        BY <2>1, OneCallerKeepsCache
<1>4. CASE Claim(c)
    <2>1. /\ run' = run /\ run.terminal.kind = "Completed"
          /\ \A d \in Callers : d # c => pc'[d] = pc[d]
          /\ pc'[c] \in {"taking", "parking", "idle", "fetching"}
          /\ pc'[c] = "taking" => cache = "Empty" /\ cache' = "Materializing"
          /\ pc'[c] # "taking" => cache' = cache
          /\ pc'[c] = "fetching" => cache \in Callers
        BY <1>4 DEF Claim, Answered, CacheInv
    <2>2. CASE pc'[c] = "taking"
        BY <2>1, <2>2 DEF CacheInv
    <2>3. CASE pc'[c] # "taking"
        BY <2>1, <2>3, OneCallerKeepsCache
    <2> QED
        BY <2>2, <2>3
<1>5. CASE AwaitMaterializer(c)
    <2>1. /\ run' = run /\ cache' = cache /\ run.terminal.kind = "Completed"
          /\ \A d \in Callers : d # c => pc'[d] = pc[d]
          /\ pc'[c] \in {"parked", "claiming"}
        BY <1>5 DEF AwaitMaterializer, results, CacheInv
    <2> QED
        BY <2>1, OneCallerKeepsCache
<1>6. CASE Fetch(c)
    <2>1. /\ run' = run /\ cache' = cache
          /\ \A d \in Callers : d # c => pc'[d] = pc[d]
          /\ pc'[c] = "idle"
        BY <1>6 DEF Fetch, Answered
    <2> QED
        BY <2>1, OneCallerKeepsCache
<1>7. CASE TakeCompleted(c)
    <2>1. run.terminal.payload /\ run.terminal.kind = "Completed" /\ cache = "Materializing"
          /\ pc[c] = "taking"
        BY <1>7 DEF TakeCompleted, CacheInv
    <2>2. cache' = cache /\ pc' = [pc EXCEPT ![c] = "projecting"]
          /\ run'.terminal.kind = run.terminal.kind
        BY <1>7, <2>1 DEF TakeCompleted, results, RunStates
    <2>3. \A d \in Callers : pc'[d] \in Claiming => d = c
        BY <2>1, <2>2 DEF CacheInv
    <2>4. \A d \in Callers : pc'[d] # "taking" /\ pc'[d] # "fetching"
        BY <2>1, <2>2, <2>3 DEF CacheInv
    <2> HIDE DEF RunInv, TypeOK
    <2> QED
        BY <2>1, <2>2, <2>3, <2>4 DEF CacheInv
<1>8. CASE Materialize(c)
    <2>1. pc[c] = "projecting" /\ cache = "Materializing" /\ run.terminal.kind = "Completed"
          /\ run' = run
        BY <1>8 DEF Materialize, CacheInv
    <2>2. cache' \in Callers \cup {"Failed"} /\ pc' = [Unparked EXCEPT ![c] = "idle"]
        BY <1>8 DEF Materialize, Store
    <2>3. /\ \A d \in Callers : pc[d] \in Claiming => d = c
          /\ \A d \in Callers : pc[d] # "fetching"
        BY <2>1 DEF CacheInv
    <2>4. \A d \in Callers : pc'[d] \notin Claiming \cup {"fetching"}
        BY <2>2, <2>3 DEF Unparked
    <2>5. cache' # "Empty"
        BY <2>2
    <2> HIDE DEF RunInv, TypeOK
    <2> QED
        BY <2>1, <2>4, <2>5 DEF CacheInv
<1> QED
    BY <1>1, <1>2, <1>3, <1>4, <1>5, <1>6, <1>7, <1>8

LEMMA CacheInvariant == Spec => []CacheInv
<1>1. RunInv /\ CacheInv /\ [Next]_vars => CacheInv'
    <2> SUFFICES ASSUME RunInv, CacheInv, [Next]_vars PROVE CacheInv'
        OBVIOUS
    <2>1. CASE Worker
        BY <2>1, WorkerKeepsCache
    <2>2. ASSUME NEW c \in Callers, Caller(c) PROVE CacheInv'
        BY <2>2, WorkerKeepsCache, ResultKeepsCache DEF Caller, Proceed
    <2>3. CASE UNCHANGED vars
        BY <2>3 DEF vars, CacheInv
    <2> QED
        BY <2>1, <2>2, <2>3 DEF Next
<1> QED
    BY <1>1, InitCacheInv, RunInvariant, PTL DEF Spec

(* A Run settles once, is cancelled only on request, and answers everybody who
   asks for the result alike: the safety of OneShotRun.                    *)
THEOREM OneShotTheorem == Spec => Promise!Init /\ [][Promise!Next]_(Promise!vars)
<1>1. Init => Promise!Init
    BY DEF Init, Promise!Init, Accepted, NoTerminal
<1>2. RunInv /\ RunInv' /\ CacheInv /\ [Next]_vars => [Promise!Next]_(Promise!vars)
    <2> SUFFICES ASSUME RunInv, RunInv', CacheInv, [Next]_vars
                 PROVE  [Promise!Next]_(Promise!vars)
        OBVIOUS
    <2> USE DEF RunInv, TypeOK
    <2>1. CASE Finish
        <3>1. run.terminal.kind = "none" /\ run'.terminal.kind = worker.outcome
              /\ worker.outcome \in {"Completed", "Cancelled", "Failed"}
              /\ (worker.outcome = "Cancelled" => requested)
            BY <2>1 DEF Finish, StatusFollowsWorker, NoTerminal, Outcomes, Deciding
        <3>2. UNCHANGED <<requested, cache, answer>>
            BY <2>1 DEF Finish, results
        <3>3. Promise!Settle(worker.outcome)
            BY <3>1, <3>2 DEF Promise!Settle
        <3> QED
            BY <3>1, <3>3 DEF Promise!Next, Promise!Outcomes
    <2>2. CASE Worker /\ ~Finish
        <3>1. UNCHANGED <<requested, cache, answer>>
            BY <2>2 DEF Worker, MarkRunning, PublishBoundary, StopAtBoundary, Continue,
               AcceptAction, ObserveProgress, DiscardTrial, AcceptStep, Solve, Report,
               WorkerFails, Decide, results
        <3>2. worker.at # "done" /\ worker'.at # "done"
            BY <2>2 DEF Worker, MarkRunning, PublishBoundary, StopAtBoundary, Continue,
               AcceptAction, ObserveProgress, DiscardTrial, AcceptStep, Solve, Report,
               WorkerFails, Decide, StartOf
        <3>3. run'.terminal = run.terminal
            BY <3>2 DEF StatusFollowsWorker
        <3> QED
            BY <3>1, <3>3 DEF Promise!vars
    <2>3. ASSUME NEW c \in Callers, RequestCancellation(c) PROVE Promise!Ask
        <3>1. run.terminal.kind = "none"
            BY <2>3 DEF RequestCancellation, IsTerminal, StatusFollowsWorker, NoTerminal,
               Outcomes, Deciding
        <3> QED
            BY <2>3, <3>1 DEF RequestCancellation, Promise!Ask, results
    <2>4. ASSUME NEW c \in Callers, EnterCancelling(c) PROVE UNCHANGED Promise!vars
        <3>1. worker' = worker /\ run.status \in {"Queued", "Running"}
              /\ UNCHANGED <<requested, cache, answer>>
            BY <2>4 DEF EnterCancelling, FlagFollowsStatus, results
        <3>2. run'.terminal = run.terminal
            BY <3>1 DEF StatusFollowsWorker, Outcomes
        <3> QED
            BY <3>1, <3>2 DEF Promise!vars
    <2>5. ASSUME NEW c \in Callers, ReadProgress(c) PROVE UNCHANGED Promise!vars
        BY <2>5, RefreshedFields DEF ReadProgress, results, Promise!vars
    <2>6. ASSUME NEW c \in Callers,
                 CallResult(c) \/ SpuriousWake(c) \/ AwaitMaterializer(c)
          PROVE  UNCHANGED Promise!vars
        BY <2>6 DEF CallResult, SpuriousWake, AwaitMaterializer, results, Promise!vars
    <2>7. ASSUME NEW c \in Callers, CheckTerminal(c)
          PROVE  Promise!Tell(c) \/ UNCHANGED Promise!vars
        <3>1. UNCHANGED <<run, requested, cache>>
            BY <2>7 DEF CheckTerminal
        <3>2. CASE run.terminal.kind \in {"Cancelled", "Failed"}
            BY <2>7, <3>1, <3>2 DEF CheckTerminal, Answered, Promise!Tell
        <3>3. CASE run.terminal.kind \in {"none", "Completed"}
            BY <2>7, <3>1, <3>3 DEF CheckTerminal, Promise!vars
        <3> QED
            BY <3>2, <3>3 DEF RunStates, Outcomes
    <2>8. ASSUME NEW c \in Callers, Claim(c)
          PROVE  Promise!Tell(c) \/ UNCHANGED Promise!vars
        <3>1. UNCHANGED <<run, requested>>
            BY <2>8 DEF Claim
        <3>2. CASE cache = "Failed"
            BY <2>8, <3>1, <3>2 DEF Claim, Answered, Promise!Tell
        <3>3. CASE cache # "Failed"
            BY <2>8, <3>1, <3>3 DEF Claim, Promise!vars
        <3> QED
            BY <3>2, <3>3
    <2>9. ASSUME NEW c \in Callers, Fetch(c) PROVE Promise!Tell(c)
        BY <2>9 DEF Fetch, Answered, CacheInv, Promise!Tell
    <2>10. ASSUME NEW c \in Callers, TakeCompleted(c) PROVE UNCHANGED Promise!vars
        <3>1. run.terminal.payload
            BY <2>10 DEF TakeCompleted, CacheInv
        <3>2. UNCHANGED <<requested, cache, answer>> /\ run'.terminal.kind = run.terminal.kind
            BY <2>10, <3>1 DEF TakeCompleted, results, RunStates
        <3> QED
            BY <3>2 DEF Promise!vars
    <2>11. ASSUME NEW c \in Callers, Materialize(c) PROVE Promise!Produce(c)
        <3>1. run.terminal.kind = "Completed" /\ cache = "Materializing"
              /\ UNCHANGED <<run, requested>>
            BY <2>11 DEF Materialize, CacheInv, AtCache, Claiming
        <3>2. CASE Store(c, c, c)
            BY <3>1, <3>2 DEF Store, Promise!Produce
        <3>3. CASE Store(c, "Failed", Broken)
            BY <3>1, <3>3 DEF Store, Promise!Produce
        <3> QED
            BY <2>11, <3>2, <3>3 DEF Materialize
    <2>12. ASSUME UNCHANGED vars PROVE UNCHANGED Promise!vars
        BY <2>12 DEF vars, Promise!vars
    <2> HIDE DEF RunInv, TypeOK
    <2> QED
        BY <2>1, <2>2, <2>3, <2>4, <2>5, <2>6, <2>7, <2>8, <2>9, <2>10, <2>11, <2>12
           DEF Next, Caller, Proceed, Promise!Next
<1> QED
    BY <1>1, <1>2, RunInvariant, CacheInvariant, PTL DEF Spec
=============================================================================
