---------------------------- MODULE EvaluationMap ----------------------------
(* execute_members: the coordinator cuts the request into chunks, evaluates a *)
(* chunk itself or with scoped worker threads that share a bounded task       *)
(* channel and a bounded result channel, and delivers the accepted members of *)
(* each chunk in order before it starts the next.                             *)
(*                                                                            *)
(* A chunk's workers live no longer than the chunk.  The task receiver is     *)
(* behind a mutex that a worker holds while it waits.  A member that panics   *)
(* is a failed one on a worker; on the coordinator it unwinds the whole call. *)
(* Callbacks (should_cancel, deliver) do not panic; should_cancel never       *)
(* takes a cancellation back.                                                 *)
EXTENDS Naturals, Sequences, FiniteSets

CONSTANTS Count,      \* members of the request
          Policies,   \* chunk size, workers, and whether members are released
          NoWorker

ASSUME MapAssumption == /\ Count \in Nat
                        /\ \A p \in Policies : /\ p.chunk \in Nat \ {0}
                                              /\ p.workers \in 1..p.chunk
                                              /\ p.recompute \in BOOLEAN
                        /\ NoWorker \notin Nat

VARIABLES
    policy,     \* EvaluationMapExecutionPolicy, fixed
    outcomes,   \* one outcome per member
    delivered,  \* the members delivered so far, in order
    verdict,    \* what execute returns
    phase,      \* the coordinator's position
    start,      \* first member of the chunk
    next,       \* next member to dispatch, within the chunk
    active,     \* dispatched members whose outcome is not collected
    halted,     \* the chunk stops
    tasks,      \* task channel: its queue and whether the sender lives
    results,    \* result channel
    receiver,   \* the worker that holds the task receiver
    worker,     \* the scoped threads
    cancelled,  \* what should_cancel answers
    resident    \* accepted members counted as held

pool == <<tasks, results, receiver, worker>>
control == <<start, next, active, halted>>
request == <<policy, cancelled>>
vars == <<outcomes, delivered, verdict, phase, control, pool, request, resident>>

Members == 0..(Count - 1)
Threads == UNION {1..p.workers : p \in Policies}
ChunkSize == policy.chunk
Workers == policy.workers
Recompute == policy.recompute
NoMember == Count

ChunkEnd == IF start + ChunkSize < Count THEN start + ChunkSize ELSE Count
Chunk == start..(ChunkEnd - 1)

\* Threads of this chunk: no more than it has members.
Crew == 1..(IF Workers < ChunkEnd - start THEN Workers ELSE ChunkEnd - start)

Stopping == {"Failed", "Cancelled"}
Idle == [at |-> "none", member |-> NoMember, state |-> "none"]
NewTasks == [queue |-> <<>>, open |-> TRUE]
NoThreads == [w \in Threads |-> Idle]

Init ==
    /\ policy \in Policies
    /\ outcomes = [i \in Members |-> "NotStarted"]
    /\ delivered = <<>>
    /\ verdict = "none"
    /\ phase = "chunk"
    /\ start = 0 /\ next = 0 /\ active = 0 /\ halted = FALSE
    /\ tasks = NewTasks /\ results = <<>>
    /\ receiver = NoWorker /\ worker = NoThreads
    /\ cancelled = FALSE
    /\ resident = 0

---------------------------------------------------------------------------
(* Chunks                                                                   *)

\* The next chunk begins, on the coordinator or on threads of its own.
BeginChunk ==
    /\ phase = "chunk" /\ start < Count
    /\ phase' = IF Workers = 1 THEN "serial" ELSE "spawning"
    /\ next' = start
    /\ UNCHANGED <<outcomes, delivered, verdict, start, active, halted, pool, request, resident>>

\* All chunks are done: execute returns a complete map or a report.
Return ==
    /\ phase = "chunk" /\ start >= Count
    /\ phase' = "returned"
    /\ verdict' = IF \A i \in Members : outcomes[i] \in {"Accepted", "Released"}
                  THEN "complete" ELSE "terminal"
    /\ UNCHANGED <<outcomes, delivered, control, pool, request, resident>>

EndChunk ==
    /\ phase' = "counting"
    /\ UNCHANGED <<delivered, verdict, start, next, active, pool, request, resident>>

---------------------------------------------------------------------------
(* serial_chunk                                                             *)

\* should_cancel is asked before each member.
SerialCancel ==
    /\ phase = "serial" /\ next < ChunkEnd /\ cancelled
    /\ outcomes' = [outcomes EXCEPT ![next] = "Cancelled"]
    /\ halted' = TRUE
    /\ EndChunk

SerialEvaluate ==
    /\ phase = "serial" /\ next < ChunkEnd /\ ~cancelled
    /\ \E state \in {"Accepted", "Failed", "Cancelled"} :
          /\ outcomes' = [outcomes EXCEPT ![next] = state]
          /\ halted' = (state \in Stopping)
          /\ phase' = IF state \in Stopping THEN "counting" ELSE "serial"
    /\ next' = next + 1
    /\ UNCHANGED <<delivered, verdict, start, active, pool, request, resident>>

SerialEnd ==
    /\ phase = "serial" /\ next = ChunkEnd
    /\ EndChunk
    /\ UNCHANGED <<outcomes, halted>>

\* A panic of a member on the coordinator is a panic of execute.
SerialPanic ==
    /\ phase = "serial" /\ next < ChunkEnd /\ ~cancelled
    /\ phase' = "unwound"
    /\ UNCHANGED <<outcomes, delivered, verdict, control, pool, request, resident>>

---------------------------------------------------------------------------
(* parallel_chunk: the coordinator                                          *)

Spawned == {w \in Threads : worker[w].at # "none"}

Spawn(w) ==
    /\ phase = "spawning" /\ w \in Crew
    /\ Spawned = 1..(w - 1)
    /\ worker' = [worker EXCEPT ![w].at = "idle"]
    /\ phase' = IF w + 1 \in Crew THEN "spawning" ELSE "dispatching"
    /\ UNCHANGED <<outcomes, delivered, verdict, control, tasks, results, receiver,
                   request, resident>>

\* A thread cannot start: the chunk's first member takes the failure, and the
\* threads that did start find the channel closed.
SpawnFails ==
    /\ phase = "spawning"
    /\ outcomes' = [outcomes EXCEPT ![start] = "Failed"]
    /\ halted' = TRUE
    /\ tasks' = [tasks EXCEPT !.open = FALSE]
    /\ phase' = "joining"
    /\ UNCHANGED <<delivered, verdict, start, next, active, results, receiver, worker,
                   request, resident>>

\* Faulty variant: every member of the chunk is dispatched before any result is
\* awaited.
MayDispatchAll == phase = "dispatching" /\ ~halted /\ next < ChunkEnd

MayDispatch == phase = "dispatching" /\ ~halted /\ next < ChunkEnd /\ active < Cardinality(Crew)

\* Faulty variant: members are dispatched after one has failed.
DispatchOn ==
    /\ phase = "dispatching" /\ next < ChunkEnd /\ active < Cardinality(Crew)
    /\ ~cancelled
    /\ tasks' = [tasks EXCEPT !.queue = Append(@, next)]
    /\ next' = next + 1
    /\ active' = active + 1
    /\ UNCHANGED <<outcomes, delivered, verdict, phase, start, halted, results, receiver,
                   worker, request, resident>>

\* The channel's bound is the crew's size: a send that found it full would wait.
Dispatch ==
    /\ MayDispatch /\ ~cancelled
    /\ Len(tasks.queue) < Cardinality(Crew)
    /\ tasks' = [tasks EXCEPT !.queue = Append(@, next)]
    /\ next' = next + 1
    /\ active' = active + 1
    /\ UNCHANGED <<outcomes, delivered, verdict, phase, start, halted, results, receiver,
                   worker, request, resident>>

\* The member that would have been next is the cancelled one.
HaltOnCancel ==
    /\ MayDispatch /\ cancelled
    /\ outcomes' = [outcomes EXCEPT ![next] = "Cancelled"]
    /\ halted' = TRUE
    /\ UNCHANGED <<delivered, verdict, phase, start, next, active, pool, request, resident>>

\* Members that were dispatched are waited for, whatever happened to others.
Collect ==
    /\ phase = "dispatching" /\ ~MayDispatch /\ active > 0
    /\ results # <<>>
    /\ LET r == Head(results)
       IN  /\ outcomes' = [outcomes EXCEPT ![r.member] = r.state]
           /\ halted' = (halted \/ r.state \in Stopping)
    /\ active' = active - 1
    /\ results' = Tail(results)
    /\ UNCHANGED <<delivered, verdict, phase, start, next, tasks, receiver, worker,
                   request, resident>>

CloseTasks ==
    /\ phase = "dispatching" /\ ~MayDispatch /\ active = 0
    /\ tasks' = [tasks EXCEPT !.open = FALSE]
    /\ phase' = "joining"
    /\ UNCHANGED <<outcomes, delivered, verdict, control, results, receiver, worker,
                   request, resident>>

\* The scope ends when its threads have; channels and threads go with it.
Join ==
    /\ phase = "joining"
    /\ \A w \in Spawned : worker[w].at = "gone"
    /\ tasks' = NewTasks /\ results' = <<>>
    /\ receiver' = NoWorker /\ worker' = NoThreads
    /\ phase' = "counting"
    /\ UNCHANGED <<outcomes, delivered, verdict, control, request, resident>>

---------------------------------------------------------------------------
(* parallel_chunk: a worker                                                 *)

coordinator == <<outcomes, delivered, verdict, phase, control, request, resident>>

LockReceiver(w) ==
    /\ worker[w].at = "idle"
    /\ receiver = NoWorker
    /\ receiver' = w
    /\ worker' = [worker EXCEPT ![w].at = "receiving"]
    /\ UNCHANGED <<coordinator, tasks, results>>

Receive(w) ==
    /\ worker[w].at = "receiving"
    /\ tasks.queue # <<>>
    /\ worker' = [worker EXCEPT ![w] = [at |-> "running", member |-> Head(tasks.queue),
                                        state |-> "none"]]
    /\ tasks' = [tasks EXCEPT !.queue = Tail(@)]
    /\ receiver' = NoWorker
    /\ UNCHANGED <<coordinator, results>>

\* Faulty variant: a worker that finds the channel closed keeps the receiver.
LeaveHolding(w) ==
    /\ worker[w].at = "receiving"
    /\ tasks.queue = <<>> /\ ~tasks.open
    /\ worker' = [worker EXCEPT ![w].at = "gone"]
    /\ UNCHANGED <<coordinator, tasks, results, receiver>>

Leave(w) ==
    /\ worker[w].at = "receiving"
    /\ tasks.queue = <<>> /\ ~tasks.open
    /\ worker' = [worker EXCEPT ![w].at = "gone"]
    /\ receiver' = NoWorker
    /\ UNCHANGED <<coordinator, tasks, results>>

\* The evaluator accepts, fails or cancels its member; a panic counts as failed.
Evaluate(w) ==
    /\ worker[w].at = "running"
    /\ \E state \in {"Accepted", "Failed", "Cancelled"} :
          worker' = [worker EXCEPT ![w].at = "sending", ![w].state = state]
    /\ UNCHANGED <<coordinator, tasks, results, receiver>>

\* Faulty variant: the worker reports its position in the chunk as the member.
SendChunkIndex(w) ==
    /\ worker[w].at = "sending"
    /\ Len(results) < Cardinality(Crew)
    /\ results' = Append(results, [member |-> worker[w].member - start,
                                   state |-> worker[w].state])
    /\ worker' = [worker EXCEPT ![w] = [Idle EXCEPT !.at = "idle"]]
    /\ UNCHANGED <<coordinator, tasks, receiver>>

Send(w) ==
    /\ worker[w].at = "sending"
    /\ Len(results) < Cardinality(Crew)
    /\ results' = Append(results, [member |-> worker[w].member, state |-> worker[w].state])
    /\ worker' = [worker EXCEPT ![w] = [Idle EXCEPT !.at = "idle"]]
    /\ UNCHANGED <<coordinator, tasks, receiver>>

Worker(w) == \/ LockReceiver(w) \/ Receive(w) \/ Leave(w) \/ Evaluate(w) \/ Send(w)

---------------------------------------------------------------------------
(* Between chunks                                                           *)

AcceptedIn(S) == {i \in S : outcomes[i] = "Accepted"}

CountResident ==
    /\ phase = "counting"
    /\ resident' = resident + Cardinality(AcceptedIn(Chunk))
    /\ phase' = "delivering"
    /\ next' = start
    /\ UNCHANGED <<outcomes, delivered, verdict, start, active, halted, pool, request>>

\* Faulty variant: a chunk that stops short delivers nothing.
DeliverUnlessHalted ==
    /\ phase = "delivering" /\ next < ChunkEnd
    /\ next' = next + 1
    /\ IF outcomes[next] = "Accepted" /\ ~halted
       THEN /\ delivered' = Append(delivered, next)
            /\ outcomes' = IF Recompute THEN [outcomes EXCEPT ![next] = "Released"]
                           ELSE outcomes
            /\ resident' = IF Recompute THEN resident - 1 ELSE resident
       ELSE UNCHANGED <<outcomes, delivered, resident>>
    /\ UNCHANGED <<verdict, phase, start, active, halted, pool, request>>

\* An accepted member goes to the callback, and its numerical state is released
\* under the Recompute policy.
Deliver ==
    /\ phase = "delivering" /\ next < ChunkEnd
    /\ next' = next + 1
    /\ IF outcomes[next] = "Accepted"
       THEN /\ delivered' = Append(delivered, next)
            /\ outcomes' = IF Recompute THEN [outcomes EXCEPT ![next] = "Released"]
                           ELSE outcomes
            /\ resident' = IF Recompute THEN resident - 1 ELSE resident
       ELSE UNCHANGED <<outcomes, delivered, resident>>
    /\ UNCHANGED <<verdict, phase, start, active, halted, pool, request>>

\* Faulty variant: the chunk after one that stopped is evaluated.
NextChunkAnyway ==
    /\ phase = "delivering" /\ next = ChunkEnd
    /\ start' = ChunkEnd
    /\ phase' = "chunk"
    /\ UNCHANGED <<outcomes, delivered, verdict, next, active, halted, pool, request, resident>>

\* A chunk that stopped is the last one.
NextChunk ==
    /\ phase = "delivering" /\ next = ChunkEnd
    /\ start' = IF halted THEN Count ELSE ChunkEnd
    /\ phase' = "chunk"
    /\ UNCHANGED <<outcomes, delivered, verdict, next, active, halted, pool, request, resident>>

---------------------------------------------------------------------------
Coordinator == \/ BeginChunk \/ Return
               \/ SerialCancel \/ SerialEvaluate \/ SerialEnd \/ SerialPanic
               \/ \E w \in Threads : Spawn(w)
               \/ SpawnFails \/ Dispatch \/ HaltOnCancel \/ Collect \/ CloseTasks \/ Join
               \/ CountResident \/ Deliver \/ NextChunk

\* Whoever holds the token cancels.
Cancel == /\ ~cancelled /\ cancelled' = TRUE
          /\ UNCHANGED <<policy, outcomes, delivered, verdict, phase, control, pool, resident>>

Next == Coordinator \/ Cancel \/ \E w \in Threads : Worker(w)

\* Threads that can run do run; evaluators return.
Spec == /\ Init /\ [][Next]_vars
        /\ WF_vars(Coordinator)
        /\ \A w \in Threads : WF_vars(Worker(w))

---------------------------------------------------------------------------
(* Properties                                                               *)

TaskStates == {"Accepted", "Failed", "Cancelled"}

\* Every variable keeps its type.
TypeOK ==
    /\ policy \in Policies
    /\ outcomes \in [Members -> TaskStates \cup {"Released", "NotStarted"}]
    /\ delivered \in Seq(Members)
    /\ verdict \in {"none", "complete", "terminal"}
    /\ phase \in {"chunk", "serial", "spawning", "dispatching", "joining", "counting",
                  "delivering", "returned", "unwound"}
    /\ start \in 0..Count /\ next \in 0..Count
    /\ active \in 0..Workers
    /\ halted \in BOOLEAN /\ cancelled \in BOOLEAN
    /\ tasks.queue \in Seq(Members) /\ tasks.open \in BOOLEAN
    /\ results \in Seq([member : Members, state : TaskStates])
    /\ receiver \in Threads \cup {NoWorker}
    /\ worker \in [Threads -> [at : {"none", "idle", "receiving", "running", "sending", "gone"},
                               member : 0..Count, state : TaskStates \cup {"none"}]]
    /\ resident \in 0..Count

Running == {w \in Threads : worker[w].at \in {"running", "sending"}}

InFlight == {tasks.queue[k] : k \in 1..Len(tasks.queue)}
              \cup {worker[w].member : w \in Running}
              \cup {results[k].member : k \in 1..Len(results)}

\* "Accepted members need not form a prefix", but what was started is one:
\* however the members of a chunk ended and in whatever order, no occurrence
\* was passed over and none of a later chunk runs after a chunk that stopped.
StartedIsPrefix ==
    phase \in {"counting", "delivering", "chunk", "returned"} =>
        \A i, j \in Members :
            i < j /\ outcomes[i] = "NotStarted" => outcomes[j] = "NotStarted"

\* "Workers that were already dispatched finish normally after another member
\* fails", and only those: once a failure or a cancellation is recorded, in this
\* chunk or an earlier one, no member joins those in flight.
NothingAfterStop ==
    [][(\E i \in Members : outcomes[i] \in Stopping) => InFlight' \subseteq InFlight]_vars

\* "Passes a borrowed evaluation to the callback in request order": when a map
\* returns, the callback has seen each accepted member once, in order, those of
\* a chunk that stopped short included.
DeliveredInOrder ==
    /\ \A k, l \in 1..Len(delivered) : k < l => delivered[k] < delivered[l]
    /\ phase = "returned" =>
          {delivered[k] : k \in 1..Len(delivered)}
            = {i \in Members : outcomes[i] \in {"Accepted", "Released"}}

\* The coordinator and its threads never wait for each other for good, whether
\* members fail, threads do not start or somebody cancels: execute ends.
MapEnds == <>(phase \in {"returned", "unwound"})

\* Completion, delivery and outcomes, whether members are retained or not, are those of the abstract map.
Promise == INSTANCE OrderedMap WITH
    outcomes <- [i \in Members |-> IF outcomes[i] = "Released" THEN "Accepted"
                                   ELSE outcomes[i]]
ImplementsMap == Promise!Spec
=============================================================================
