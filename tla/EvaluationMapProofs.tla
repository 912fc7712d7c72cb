------------------------ MODULE EvaluationMapProofs ------------------------
(* Theorems about EvaluationMap, for every number of members and every set of *)
(* policies: what a map starts is a prefix of the request, nothing is         *)
(* dispatched after a failure or a cancellation, delivery is in request       *)
(* order, and the map implements OrderedMap.  That maps end is left to TLC.   *)
EXTENDS EvaluationMap, TLAPS, FiniteSetTheorems, SequenceTheorems

InPool == {"spawning", "dispatching", "joining"}
InChunk == InPool \cup {"serial"}

(* Where the coordinator is, and what halted it. *)
Control ==
    /\ phase \notin {"chunk", "returned"} => start < Count
    /\ phase \in InChunk \cup {"delivering"} => next \in start..ChunkEnd
    /\ phase = "spawning" => next = start
    /\ phase \in {"serial", "spawning"} => ~halted
    /\ phase = "chunk" /\ halted => start = Count
    /\ phase = "returned" => start = Count
    /\ phase = "joining" /\ ~halted => next = ChunkEnd
    /\ verdict = "none" <=> phase # "returned"

(* The chunk stops exactly if some member has failed or was cancelled. *)
HaltedExact == halted <=> \E i \in Members : outcomes[i] \in Stopping

(* How far the request has been started. *)
Frontier ==
    \A i \in Members :
        /\ phase \in InChunk =>
              /\ i < start => outcomes[i] # "NotStarted"
              /\ i > next \/ i >= ChunkEnd => outcomes[i] = "NotStarted"
              /\ i = next /\ ~halted => outcomes[i] = "NotStarted"
              /\ i \in start..(next - 1) /\ phase # "dispatching" =>
                    outcomes[i] # "NotStarted"
        /\ phase \in {"counting", "delivering"} =>
              /\ i >= ChunkEnd => outcomes[i] = "NotStarted"
              /\ i < ChunkEnd /\ ~halted => outcomes[i] # "NotStarted"
        /\ phase \in {"chunk", "returned"} =>
              /\ i >= start => outcomes[i] = "NotStarted"
              /\ i < start /\ ~halted => outcomes[i] # "NotStarted"

(* A member that a worker has received and the coordinator has not collected. *)
Taken(i) == /\ i \in start..(next - Len(tasks.queue) - 1)
            /\ outcomes[i] = "NotStarted"

(* Outside of a parallel chunk there is no pool. *)
NoPool == phase \notin InPool => tasks = NewTasks /\ results = <<>> /\ worker = NoThreads

(* Members that no worker has received are the last that were dispatched. *)
QueueLast ==
    /\ phase \in InPool => Len(tasks.queue) <= next - start
    /\ \A k \in 1..Len(tasks.queue) :
          /\ tasks.queue[k] = next - Len(tasks.queue) + k - 1
          /\ outcomes[tasks.queue[k]] = "NotStarted"

(* The others in flight have been received, and each is in one place. *)
RunningTaken ==
    /\ \A w \in Running : Taken(worker[w].member)
    /\ \A w \in Threads : worker[w].at = "sending" => worker[w].state \in TaskStates
ResultsTaken == \A k \in 1..Len(results) : Taken(results[k].member)
RunningApart == \A v, w \in Running : worker[v].member = worker[w].member => v = w
ResultsApart == \A k, l \in 1..Len(results) : results[k].member = results[l].member => k = l
PlacesApart == \A w \in Running : \A k \in 1..Len(results) : worker[w].member # results[k].member

Flight == /\ NoPool /\ QueueLast /\ RunningTaken /\ ResultsTaken
          /\ RunningApart /\ ResultsApart /\ PlacesApart

(* Dispatched members without an outcome, which active counts. *)
Open == IF phase = "dispatching"
        THEN {i \in start..(next - 1) : outcomes[i] = "NotStarted"} ELSE {}
CrewSize == IF Workers < ChunkEnd - start THEN Workers ELSE ChunkEnd - start
ActiveExact == active = Cardinality(Open) /\ active <= CrewSize

(* The callback has seen the accepted members up to here. *)
Bound == IF phase = "delivering" THEN next ELSE start
Handed ==
    /\ \A k, l \in 1..Len(delivered) : k < l => delivered[k] < delivered[l]
    /\ \A k \in 1..Len(delivered) :
          delivered[k] < Bound /\ outcomes[delivered[k]] \in {"Accepted", "Released"}
    /\ \A i \in Members : i < Bound /\ outcomes[i] \in {"Accepted", "Released"} =>
          \E k \in 1..Len(delivered) : delivered[k] = i
    /\ \A i \in Members : outcomes[i] = "Released" => i < Bound

(* Members held: no more than there are, and those that will be released. *)
Held ==
    /\ phase # "delivering" => resident <= start
    /\ phase = "delivering" =>
          /\ resident <= ChunkEnd
          /\ Recompute => Cardinality(AcceptedIn(next..(ChunkEnd - 1))) <= resident

Types ==
    /\ policy \in Policies
    /\ outcomes \in [Members -> TaskStates \cup {"Released", "NotStarted"}]
    /\ delivered \in Seq(Members)
    /\ verdict \in {"none", "complete", "terminal"}
    /\ phase \in {"chunk", "serial", "spawning", "dispatching", "joining", "counting",
                  "delivering", "returned", "unwound"}
    /\ start \in 0..Count /\ next \in 0..Count
    /\ active \in Nat
    /\ halted \in BOOLEAN /\ cancelled \in BOOLEAN
    /\ tasks \in [queue : Seq(Members), open : BOOLEAN]
    /\ results \in Seq([member : Members, state : TaskStates])
    /\ receiver \in Threads \cup {NoWorker}
    /\ worker \in [Threads -> [at : {"none", "idle", "receiving", "running", "sending", "gone"},
                               member : 0..Count, state : TaskStates \cup {"none"}]]
    /\ resident \in Nat

MapInv == /\ Types /\ Control /\ HaltedExact /\ Frontier /\ StartedIsPrefix
          /\ Flight /\ ActiveExact /\ Handed /\ Held

-----------------------------------------------------------------------------
(* The arithmetic of chunks and crews. *)
LEMMA Sizes ==
    ASSUME policy \in Policies, start \in 0..Count
    PROVE  /\ Count \in Nat /\ ChunkSize \in Nat \ {0} /\ Workers \in 1..ChunkSize
           /\ Recompute \in BOOLEAN
           /\ ChunkEnd \in start..Count
           /\ start < Count => ChunkEnd > start /\ CrewSize \in 1..Workers
           /\ start < Count => Crew = 1..CrewSize /\ Cardinality(Crew) = CrewSize
<1>1. /\ Count \in Nat /\ ChunkSize \in Nat \ {0} /\ Workers \in 1..ChunkSize
      /\ Recompute \in BOOLEAN
    BY MapAssumption DEF ChunkSize, Workers, Recompute
<1>2. ChunkEnd \in start..Count /\ (start < Count => ChunkEnd > start)
    BY <1>1 DEF ChunkEnd
<1>3. start < Count => CrewSize \in 1..Workers
    BY <1>1, <1>2 DEF CrewSize
<1>4. start < Count => Crew = 1..CrewSize /\ Cardinality(Crew) = CrewSize
    <2>1. Crew = 1..CrewSize
        BY DEF Crew, CrewSize
    <2>2. start < Count => CrewSize \in Int /\ CrewSize >= 1
        BY <1>1, <1>3
    <2>3. start < Count => Cardinality(1..CrewSize) = CrewSize
        BY <2>2, FS_Interval
    <2> QED
        BY <2>1, <2>3
<1> QED
    BY <1>1, <1>2, <1>3, <1>4

LEMMA SameChunk ==
    ASSUME start' = start, policy' = policy
    PROVE  /\ ChunkEnd' = ChunkEnd /\ CrewSize' = CrewSize /\ Crew' = Crew
           /\ Recompute' = Recompute /\ Chunk' = Chunk
BY DEF ChunkEnd, CrewSize, Crew, ChunkSize, Workers, Recompute, Chunk

LEMMA InitMapInv == ASSUME Init PROVE MapInv
<1> USE DEF Init
<1>0. Count \in Nat /\ start \in 0..Count /\ policy \in Policies
    BY MapAssumption
<1>1. Types
    <2>1. tasks \in [queue : Seq(Members), open : BOOLEAN]
          /\ results \in Seq([member : Members, state : TaskStates]) /\ delivered \in Seq(Members)
        BY EmptySeq DEF NewTasks
    <2>2. worker \in [Threads -> [at : {"none", "idle", "receiving", "running", "sending", "gone"},
                                  member : 0..Count, state : TaskStates \cup {"none"}]]
        BY <1>0 DEF NoThreads, Idle, NoMember
    <2> QED
        BY <1>0, <2>1, <2>2 DEF Types
<1>2. Control /\ HaltedExact /\ Frontier /\ StartedIsPrefix
    BY <1>0 DEF Control, HaltedExact, Frontier, StartedIsPrefix, InChunk, InPool, Stopping,
       Members
<1>3. Flight
    BY <1>0, EmptySeq DEF Flight, NoPool, QueueLast, RunningTaken, ResultsTaken, RunningApart,
       ResultsApart, PlacesApart, InPool, Running, NoThreads, Idle, NewTasks, Threads
<1>4. ActiveExact
    BY <1>0, Sizes, FS_EmptySet DEF ActiveExact, Open, CrewSize, Workers
<1>5. Handed
    BY <1>0 DEF Handed, Bound, Members
<1>6. Held
    BY <1>0 DEF Held
<1> QED
    BY <1>1, <1>2, <1>3, <1>4, <1>5, <1>6 DEF MapInv

(* A call keeps its policy; where its chunk lies. *)
LEMMA PolicyStays ==
    ASSUME MapInv, [Next]_vars
    PROVE  /\ policy' = policy /\ policy \in Policies /\ start \in 0..Count
           /\ Count \in Nat /\ ChunkEnd \in start..Count
           /\ start < Count => ChunkEnd > start
<1>1. start \in 0..Count /\ policy \in Policies
    BY DEF MapInv, Types
<1>2. policy' = policy
    BY DEF Next, Coordinator, Worker, vars, request, coordinator, EndChunk, BeginChunk, Return,
       SerialCancel, SerialEvaluate, SerialEnd, SerialPanic, Spawn, SpawnFails, Dispatch,
       HaltOnCancel, Collect, CloseTasks, Join, CountResident, Deliver, NextChunk, Cancel,
       LockReceiver, Receive, Leave, Evaluate, Send
<1> QED
    BY <1>1, <1>2, Sizes

(* Every step leaves every variable with its basic type. *)
LEMMA TypesStep ==
    ASSUME MapInv, [Next]_vars
    PROVE  Types'
<1> USE DEF MapInv
<1>0. /\ Count \in Nat /\ start \in 0..Count /\ ChunkEnd \in start..Count
      /\ policy' = policy /\ policy \in Policies
    BY PolicyStays
<1>1. CASE BeginChunk \/ Return \/ SerialEnd \/ SerialPanic \/ Cancel
    BY <1>0, <1>1 DEF Types, BeginChunk, Return, SerialEnd, SerialPanic, Cancel, EndChunk, pool,
       control, request
<1>2. CASE SerialCancel \/ SerialEvaluate
    <2>1. next \in Members /\ next + 1 \in 0..Count
        BY <1>0, <1>2 DEF SerialCancel, SerialEvaluate, Control, InChunk, Members
    <2>2. \A state \in {"Accepted", "Failed", "Cancelled"} :
             [outcomes EXCEPT ![next] = state] \in [Members -> TaskStates \cup {"Released", "NotStarted"}]
        BY <2>1 DEF Types, TaskStates
    <2>3. CASE SerialCancel
        BY <1>0, <2>1, <2>2, <2>3 DEF Types, SerialCancel, EndChunk, pool, request
    <2>4. CASE SerialEvaluate
        <3>1. PICK state \in {"Accepted", "Failed", "Cancelled"} :
                 /\ outcomes' = [outcomes EXCEPT ![next] = state]
                 /\ halted' = (state \in Stopping)
                 /\ phase' = IF state \in Stopping THEN "counting" ELSE "serial"
            BY <2>4 DEF SerialEvaluate
        <3>2. outcomes' \in [Members -> TaskStates \cup {"Released", "NotStarted"}]
            BY <2>2, <3>1
        <3>3. halted' \in BOOLEAN /\ phase' \in {"counting", "serial"}
            BY <3>1
        <3> QED
            BY <1>0, <2>1, <2>4, <3>2, <3>3 DEF Types, SerialEvaluate, pool, request
    <2> QED
        BY <1>2, <2>3, <2>4
<1>3. ASSUME NEW w \in Threads, Spawn(w) PROVE Types'
    BY <1>0, <1>3 DEF Types, Spawn, control, request
<1>4. CASE SpawnFails \/ HaltOnCancel
    <2>1. start \in Members /\ (HaltOnCancel => next \in Members)
        BY <1>0, <1>4 DEF SpawnFails, HaltOnCancel, MayDispatch, Control, InChunk, InPool, Members
    <2> QED
        BY <1>0, <1>4, <2>1 DEF Types, SpawnFails, HaltOnCancel, pool, request, TaskStates
<1>5. CASE Dispatch
    <2>1. next \in Members /\ next + 1 \in 0..Count
        BY <1>0, <1>5 DEF Dispatch, MayDispatch, Control, InChunk, InPool, Members
    <2>2. Append(tasks.queue, next) \in Seq(Members)
        BY <2>1 DEF Types
    <2>3. tasks' \in [queue : Seq(Members), open : BOOLEAN]
        BY <1>5, <2>2 DEF Types, Dispatch
    <2>4. active' \in Nat /\ next' \in 0..Count
        BY <1>5, <2>1 DEF Types, Dispatch
    <2> QED
        BY <1>0, <1>5, <2>3, <2>4 DEF Types, Dispatch, request
<1>6. CASE Collect
    <2>1. Head(results) \in [member : Members, state : TaskStates]
          /\ Tail(results) \in Seq([member : Members, state : TaskStates])
        BY <1>6, HeadTailProperties DEF Types, Collect
    <2>2. Head(results).member \in Members /\ Head(results).state \in TaskStates
        BY <2>1
    <2>3. active - 1 \in Nat
        BY <1>6 DEF Types, Collect
    <2>4. [outcomes EXCEPT ![Head(results).member] = Head(results).state]
             \in [Members -> TaskStates \cup {"Released", "NotStarted"}]
        BY <2>2 DEF Types
    <2> QED
        BY <1>0, <1>6, <2>1, <2>3, <2>4 DEF Types, Collect, request
<1>7. CASE CloseTasks
    BY <1>0, <1>7 DEF Types, CloseTasks, control, request
<1>8. CASE Join
    <2>1. tasks' \in [queue : Seq(Members), open : BOOLEAN]
          /\ results' \in Seq([member : Members, state : TaskStates])
        BY <1>8, EmptySeq DEF Join, NewTasks
    <2>2. worker' \in [Threads -> [at : {"none", "idle", "receiving", "running", "sending", "gone"},
                                   member : 0..Count, state : TaskStates \cup {"none"}]]
        BY <1>0, <1>8 DEF Join, NoThreads, Idle, NoMember
    <2> QED
        BY <1>0, <1>8, <2>1, <2>2 DEF Types, Join, control, request
<1>9. CASE CountResident
    <2>1. IsFiniteSet(AcceptedIn(Chunk)) /\ Cardinality(AcceptedIn(Chunk)) \in Nat
        <3>1. IsFiniteSet(Chunk) /\ AcceptedIn(Chunk) \in SUBSET Chunk
            BY <1>0, FS_Interval DEF Chunk, AcceptedIn
        <3> QED
            BY <3>1, FS_Subset, FS_CardinalityType
    <2> QED
        BY <1>0, <1>9, <2>1 DEF Types, CountResident, pool, request
<1>10. CASE Deliver
    <2>1. next \in Members /\ next + 1 \in 0..Count /\ next \in start..ChunkEnd /\ next < ChunkEnd
        BY <1>0, <1>10 DEF Deliver, Control, Members
    <2>2. Append(delivered, next) \in Seq(Members)
        BY <2>1 DEF Types
    <2>3. [outcomes EXCEPT ![next] = "Released"] \in [Members -> TaskStates \cup {"Released", "NotStarted"}]
        BY <2>1 DEF Types
    <2>4. outcomes[next] = "Accepted" /\ Recompute => resident - 1 \in Nat
        <3> SUFFICES ASSUME outcomes[next] = "Accepted", Recompute PROVE resident - 1 \in Nat
            OBVIOUS
        <3> DEFINE S == AcceptedIn(next..(ChunkEnd - 1))
        <3>1. next \in S /\ S \in SUBSET (next..(ChunkEnd - 1))
            BY <1>0, <2>1 DEF AcceptedIn
        <3>2. IsFiniteSet(S)
            <4>1. next \in Int /\ ChunkEnd - 1 \in Int
                BY <1>0, <2>1
            <4>2. IsFiniteSet(next..(ChunkEnd - 1))
                BY <4>1, FS_Interval
            <4> QED
                BY <3>1, <4>2, FS_Subset
        <3>3. Cardinality(S) \in Nat /\ Cardinality(S) # 0
            BY <3>1, <3>2, FS_CardinalityType, FS_EmptySet
        <3>4. Cardinality(S) <= resident
            BY <1>10 DEF Held, Deliver
        <3> QED
            BY <3>3, <3>4 DEF Types
    <2> QED
        BY <1>0, <1>10, <2>1, <2>2, <2>3, <2>4 DEF Types, Deliver, pool, request
<1>11. CASE NextChunk
    BY <1>0, <1>11 DEF Types, NextChunk, pool, request
<1>12. ASSUME NEW w \in Threads, LockReceiver(w) \/ Leave(w) \/ Evaluate(w) PROVE Types'
    <2>1. CASE LockReceiver(w)
        BY <1>0, <2>1 DEF Types, LockReceiver, coordinator, control, request
    <2>2. CASE Leave(w)
        BY <1>0, <2>2 DEF Types, Leave, coordinator, control, request
    <2>3. CASE Evaluate(w)
        <3>1. PICK state \in TaskStates :
                 worker' = [worker EXCEPT ![w].at = "sending", ![w].state = state]
            BY <2>3 DEF Evaluate, TaskStates
        <3>2. worker' \in [Threads -> [at : {"none", "idle", "receiving", "running", "sending", "gone"},
                                       member : 0..Count, state : TaskStates \cup {"none"}]]
            BY <3>1 DEF Types
        <3> QED
            BY <1>0, <2>3, <3>2 DEF Types, Evaluate, coordinator, control, request
    <2> QED
        BY <1>12, <2>1, <2>2, <2>3
<1>13. ASSUME NEW w \in Threads, Receive(w) PROVE Types'
    <2>1. Head(tasks.queue) \in Members /\ Tail(tasks.queue) \in Seq(Members)
        BY <1>13, HeadTailProperties DEF Types, Receive
    <2>2. Head(tasks.queue) \in 0..Count
        BY <1>0, <2>1 DEF Members
    <2> QED
        BY <1>0, <1>13, <2>1, <2>2 DEF Types, Receive, coordinator, control, request
<1>14. ASSUME NEW w \in Threads, Send(w) PROVE Types'
    <2>1. worker[w].member \in Members /\ worker[w].state \in TaskStates
        <3>1. w \in Running
            BY <1>14 DEF Send, Running
        <3>2. Taken(worker[w].member) /\ worker[w].state \in TaskStates
            BY <1>14, <3>1 DEF Flight, RunningTaken, Send
        <3>3. worker[w].member \in 0..(next - 1)
            BY <1>0, <3>2 DEF Taken, Types
        <3> QED
            BY <1>0, <3>2, <3>3 DEF Members, Types
    <2>2. Append(results, [member |-> worker[w].member, state |-> worker[w].state])
             \in Seq([member : Members, state : TaskStates])
        BY <2>1 DEF Types
    <2> QED
        BY <1>0, <1>14, <2>2 DEF Types, Send, Idle, NoMember, coordinator, control, request
<1>15. CASE UNCHANGED vars
    BY <1>15 DEF Types, vars, pool, control, request
<1> QED
    BY <1>1, <1>2, <1>3, <1>4, <1>5, <1>6, <1>7, <1>8, <1>9, <1>10, <1>11, <1>12, <1>13, <1>14, <1>15
       DEF Next, Coordinator, Worker

(* The result that the coordinator collects is of a member in flight. *)
LEMMA HeadTaken ==
    ASSUME Types, Flight, results # <<>>
    PROVE  /\ Head(results) = results[1] /\ 1 \in 1..Len(results)
           /\ Head(results).member \in Members /\ Head(results).state \in TaskStates
           /\ Taken(Head(results).member) /\ outcomes[Head(results).member] = "NotStarted"
           /\ Tail(results) \in Seq([member : Members, state : TaskStates])
           /\ Len(Tail(results)) = Len(results) - 1
           /\ \A k \in 1..Len(Tail(results)) : Tail(results)[k] = results[k + 1]
<1>1. Head(results) = results[1] /\ Len(results) \in Nat \ {0}
    BY EmptySeq DEF Types
<1>2. /\ Head(results) \in [member : Members, state : TaskStates]
      /\ Tail(results) \in Seq([member : Members, state : TaskStates])
      /\ Len(Tail(results)) = Len(results) - 1
      /\ \A k \in 1..Len(Tail(results)) : Tail(results)[k] = results[k + 1]
    <2> DEFINE R == [member : Members, state : TaskStates]
    <2>1. results \in Seq(R)
        BY DEF Types
    <2> HIDE DEF R
    <2>2. /\ Head(results) \in R /\ Tail(results) \in Seq(R)
          /\ Len(Tail(results)) = Len(results) - 1
          /\ \A k \in 1..Len(Tail(results)) : Tail(results)[k] = results[k + 1]
        BY <2>1, HeadTailProperties
    <2> QED
        BY <2>2 DEF R
<1>3. Taken(results[1].member)
    BY <1>1 DEF Flight, ResultsTaken
<1> QED
    BY <1>1, <1>2, <1>3 DEF Taken

LEMMA ControlStep ==
    ASSUME MapInv, [Next]_vars
    PROVE  Control'
<1> USE DEF MapInv, InChunk, InPool
<1>0. /\ Count \in Nat /\ start \in 0..Count /\ ChunkEnd \in start..Count /\ next \in 0..Count
      /\ (start < Count => ChunkEnd > start) /\ policy' = policy /\ halted \in BOOLEAN
      /\ (start < Count => CrewSize \in Nat \ {0} /\ Cardinality(Crew) = CrewSize)
      /\ (start' = start => ChunkEnd' = ChunkEnd)
    BY PolicyStays, Sizes, SameChunk DEF Types
<1>1. CASE BeginChunk \/ Return
    BY <1>0, <1>1 DEF Control, BeginChunk, Return, control
<1>2. CASE SerialEnd \/ SerialPanic \/ Cancel
    BY <1>0, <1>2 DEF Control, SerialEnd, SerialPanic, Cancel, EndChunk, control
<1>3. CASE SerialCancel \/ SerialEvaluate
    BY <1>0, <1>3 DEF Control, SerialCancel, SerialEvaluate, EndChunk, Stopping
<1>4. ASSUME NEW w \in Threads, Spawn(w) PROVE Control'
    BY <1>0, <1>4 DEF Control, Spawn, control
<1>5. CASE SpawnFails \/ Dispatch \/ HaltOnCancel \/ Collect
    BY <1>0, <1>5 DEF Control, SpawnFails, Dispatch, HaltOnCancel, Collect, MayDispatch
<1>6. CASE CloseTasks
    <2>1. ~halted => next >= ChunkEnd
        BY <1>0, <1>6 DEF Control, CloseTasks, MayDispatch
    <2> QED
        BY <1>0, <1>6, <2>1 DEF Control, CloseTasks, control
<1>7. CASE Join \/ CountResident
    BY <1>0, <1>7 DEF Control, Join, CountResident, control
<1>8. CASE Deliver \/ NextChunk
    BY <1>0, <1>8 DEF Control, Deliver, NextChunk
<1>9. ASSUME NEW w \in Threads, Worker(w) PROVE Control'
    BY <1>0, <1>9 DEF Control, Worker, LockReceiver, Receive, Leave, Evaluate, Send, coordinator, control
<1>10. CASE UNCHANGED vars
    BY <1>0, <1>10 DEF Control, vars, control
<1> QED
    BY <1>1, <1>2, <1>3, <1>4, <1>5, <1>6, <1>7, <1>8, <1>9, <1>10 DEF Next, Coordinator

LEMMA HaltedStep ==
    ASSUME MapInv, [Next]_vars
    PROVE  HaltedExact'
<1> USE DEF MapInv
<1>0. /\ Count \in Nat /\ start \in 0..Count /\ ChunkEnd \in start..Count /\ next \in 0..Count
      /\ outcomes \in [Members -> TaskStates \cup {"Released", "NotStarted"}]
    BY PolicyStays DEF Types
<1>1. CASE BeginChunk \/ Return \/ SerialEnd \/ SerialPanic \/ Cancel \/ CloseTasks \/ Join
           \/ CountResident \/ NextChunk \/ Dispatch \/ UNCHANGED vars
    BY <1>1 DEF HaltedExact, BeginChunk, Return, SerialEnd, SerialPanic, Cancel, CloseTasks, Join,
       CountResident, NextChunk, Dispatch, EndChunk, control, vars
<1>2. CASE SerialCancel \/ SerialEvaluate
    <2>1. next \in Members /\ outcomes[next] = "NotStarted" /\ ~halted
        BY <1>0, <1>2 DEF SerialCancel, SerialEvaluate, Control, Frontier, InChunk, InPool, Members
    <2>2. PICK state \in TaskStates : outcomes' = [outcomes EXCEPT ![next] = state]
                                      /\ halted' = (state \in Stopping)
        BY <1>2 DEF SerialCancel, SerialEvaluate, TaskStates, Stopping
    <2> QED
        BY <1>0, <2>1, <2>2 DEF HaltedExact
<1>3. ASSUME NEW w \in Threads, Spawn(w) \/ Worker(w) PROVE HaltedExact'
    BY <1>3 DEF HaltedExact, Spawn, Worker, LockReceiver, Receive, Leave, Evaluate, Send, coordinator,
       control
<1>4. CASE SpawnFails \/ HaltOnCancel
    <2>1. PICK i \in Members : \E state \in Stopping : outcomes' = [outcomes EXCEPT ![i] = state]
        BY <1>0, <1>4 DEF SpawnFails, HaltOnCancel, MayDispatch, Control, Members, Stopping
    <2> QED
        BY <1>0, <1>4, <2>1 DEF HaltedExact, SpawnFails, HaltOnCancel
<1>5. CASE Collect
    <2> DEFINE r == Head(results)
    <2>1. r.member \in Members /\ outcomes[r.member] = "NotStarted"
        BY <1>5, HeadTaken DEF Collect
    <2>2. outcomes' = [outcomes EXCEPT ![r.member] = r.state]
          /\ halted' = (halted \/ r.state \in Stopping)
        BY <1>5 DEF Collect
    <2> HIDE DEF r
    <2>3. "NotStarted" \notin Stopping
        BY DEF Stopping
    <2> QED
        BY <1>0, <2>1, <2>2, <2>3 DEF HaltedExact
<1>6. CASE Deliver
    <2>1. UNCHANGED halted
        BY <1>6 DEF Deliver
    <2>2. UNCHANGED outcomes \/ /\ outcomes[next] = "Accepted"
                                /\ outcomes' = [outcomes EXCEPT ![next] = "Released"]
        BY <1>6 DEF Deliver
    <2> QED
        BY <1>0, <2>1, <2>2 DEF HaltedExact, Stopping
<1> QED
    BY <1>1, <1>2, <1>3, <1>4, <1>5, <1>6 DEF Next, Coordinator

(* Nothing is in flight when active is zero: every dispatched member has an
   outcome.                                                                *)
LEMMA NothingOpen ==
    ASSUME MapInv, phase = "dispatching", active = 0, NEW i \in start..(next - 1)
    PROVE  outcomes[i] # "NotStarted"
<1>1. Open \in SUBSET (start..(next - 1))
    BY DEF Open
<1>2. start \in Int /\ next - 1 \in Int
    BY MapAssumption DEF MapInv, Types
<1>3. IsFiniteSet(Open)
    BY <1>1, <1>2, FS_Interval, FS_Subset
<1>4. Cardinality(Open) = 0
    BY DEF MapInv, ActiveExact
<1>5. Open = {}
    BY <1>3, <1>4, FS_EmptySet
<1> QED
    BY <1>5 DEF Open

LEMMA FrontierStep ==
    ASSUME MapInv, [Next]_vars
    PROVE  Frontier' /\ StartedIsPrefix'
<1> USE DEF MapInv, InChunk, InPool
<1>0. /\ Count \in Nat /\ start \in 0..Count /\ ChunkEnd \in start..Count /\ next \in 0..Count
      /\ (start < Count => ChunkEnd > start) /\ policy' = policy /\ halted \in BOOLEAN
      /\ (start' = start => ChunkEnd' = ChunkEnd) /\ Members \subseteq Nat
      /\ outcomes \in [Members -> TaskStates \cup {"Released", "NotStarted"}]
    BY PolicyStays, SameChunk DEF Types, Members
<1>1. CASE BeginChunk \/ Return
    BY <1>0, <1>1 DEF Control, Frontier, StartedIsPrefix, BeginChunk, Return, control
<1>2. CASE SerialEnd
    BY <1>0, <1>2 DEF Control, Frontier, StartedIsPrefix, SerialEnd, EndChunk
<1>3. CASE SerialPanic \/ Cancel \/ UNCHANGED vars
    BY <1>0, <1>3 DEF Frontier, StartedIsPrefix, SerialPanic, Cancel, control, vars
<1>4. CASE SerialCancel
    BY <1>0, <1>4 DEF Control, Frontier, StartedIsPrefix, SerialCancel, EndChunk
<1>5. CASE SerialEvaluate
    <2>1. PICK state \in TaskStates :
             /\ outcomes' = [outcomes EXCEPT ![next] = state]
             /\ halted' = (state \in Stopping)
             /\ phase' = IF state \in Stopping THEN "counting" ELSE "serial"
        BY <1>5 DEF SerialEvaluate, TaskStates
    <2>2. state # "NotStarted"
        BY DEF TaskStates
    <2>3. start' = start /\ next' = next + 1 /\ next < ChunkEnd /\ phase = "serial"
        BY <1>5 DEF SerialEvaluate
    <2>4. CASE state \in Stopping
        <3>1. phase' = "counting" /\ halted'
            BY <2>1, <2>4
        <3>2. next \in Nat /\ start \in Nat /\ start <= next /\ ~halted /\ ChunkEnd' = ChunkEnd
            BY <1>0, <2>3 DEF Control
        <3>3. \A i \in Members : outcomes'[i] = IF i = next THEN state ELSE outcomes[i]
            BY <1>0, <2>1
        <3>4. ChunkEnd \in Nat /\ \A i \in Members : i \in Nat
            BY <1>0
        <3> QED
            BY <2>2, <2>3, <3>1, <3>2, <3>3, <3>4 DEF Frontier, StartedIsPrefix
    <2>5. CASE state \notin Stopping
        <3>1. phase' = "serial" /\ ~halted' /\ StartedIsPrefix'
            BY <2>1, <2>5 DEF StartedIsPrefix
        <3>2. next \in Nat /\ start \in Nat /\ start <= next /\ ~halted /\ ChunkEnd' = ChunkEnd
            BY <1>0, <2>3 DEF Control
        <3>3. \A i \in Members : outcomes'[i] = IF i = next THEN state ELSE outcomes[i]
            BY <1>0, <2>1
        <3>4. \A i \in Members : i \in Nat
            BY <1>0
        <3>5. ChunkEnd \in Nat
            BY <1>0
        <3> QED
            BY <2>2, <2>3, <3>1, <3>2, <3>3, <3>4, <3>5 DEF Frontier
    <2> QED
        BY <2>4, <2>5
<1>6. ASSUME NEW w \in Threads, Spawn(w) \/ Worker(w) PROVE Frontier' /\ StartedIsPrefix'
    <2>1. UNCHANGED <<outcomes, start, next, halted>>
        BY <1>6 DEF Spawn, Worker, LockReceiver, Receive, Leave, Evaluate, Send, coordinator, control
    <2>2. phase' = phase \/ (phase = "spawning" /\ phase' \in InPool)
        BY <1>6 DEF Spawn, Worker, LockReceiver, Receive, Leave, Evaluate, Send, coordinator
    <2> QED
        BY <1>0, <2>1, <2>2 DEF Control, Frontier, StartedIsPrefix
<1>7. CASE SpawnFails
    BY <1>0, <1>7 DEF Control, Frontier, StartedIsPrefix, SpawnFails
<1>8. CASE Dispatch \/ HaltOnCancel
    BY <1>0, <1>8 DEF Control, Frontier, StartedIsPrefix, Dispatch, HaltOnCancel, MayDispatch
<1>9. CASE Collect
    <2> DEFINE m == Head(results).member
               state == Head(results).state
    <2>1. Taken(m) /\ m \in Members /\ state \in TaskStates
        BY <1>9, HeadTaken DEF Collect
    <2>2. /\ outcomes' = [outcomes EXCEPT ![m] = state] /\ halted' = (halted \/ state \in Stopping)
          /\ phase = "dispatching" /\ UNCHANGED <<phase, start, next>>
        BY <1>9 DEF Collect
    <2>3. m \in start..(next - 1)
        BY <1>0, <2>1 DEF Taken, Types
    <2>4. state # "NotStarted"
        BY <2>1 DEF TaskStates
    <2> HIDE DEF m, state
    <2> QED
        BY <1>0, <2>1, <2>2, <2>3, <2>4 DEF Control, Frontier, StartedIsPrefix
<1>10. CASE CloseTasks
    BY <1>0, <1>10, NothingOpen DEF Control, Frontier, StartedIsPrefix, CloseTasks, control
<1>11. CASE Join \/ CountResident
    BY <1>0, <1>11 DEF Control, Frontier, StartedIsPrefix, Join, CountResident, control
<1>12. CASE Deliver
    <2>1. UNCHANGED outcomes \/ /\ outcomes[next] = "Accepted"
                                /\ outcomes' = [outcomes EXCEPT ![next] = "Released"]
        BY <1>12 DEF Deliver
    <2>2. phase = "delivering" /\ UNCHANGED <<phase, start, halted>>
        BY <1>12 DEF Deliver
    <2> QED
        BY <1>0, <2>1, <2>2 DEF Frontier, StartedIsPrefix
<1>13. CASE NextChunk
    BY <1>0, <1>13 DEF Control, Frontier, StartedIsPrefix, NextChunk
<1> QED
    BY <1>1, <1>2, <1>3, <1>4, <1>5, <1>6, <1>7, <1>8, <1>9, <1>10, <1>11, <1>12, <1>13
       DEF Next, Coordinator

(* A pool without tasks, results and threads has nothing in flight. *)
LEMMA EmptyPool ==
    ASSUME tasks' = NewTasks, results' = <<>>, worker' = NoThreads,
           next' \in Int, start' \in Int, phase' \in InPool => start' <= next'
    PROVE  Flight'
<1>1. Len(tasks'.queue) = 0 /\ Len(results') = 0
    BY EmptySeq DEF NewTasks
<1>2. Running' = {} /\ \A w \in Threads : worker'[w].at = "none"
    BY DEF Running, NoThreads, Idle
<1>3. NoPool' /\ QueueLast'
    <2>1. \A k \in 1..Len(tasks'.queue) : FALSE
        BY <1>1
    <2>2. phase' \in InPool => Len(tasks'.queue) <= next' - start'
        <3>1. \A a, b \in Int : a <= b => 0 <= b - a
            OBVIOUS
        <3> QED
            BY <1>1, <3>1
    <2>3. QueueLast'
        BY <2>1, <2>2 DEF QueueLast
    <2> QED
        BY <2>3 DEF NoPool
<1>4. RunningTaken' /\ RunningApart' /\ PlacesApart'
    BY <1>2 DEF RunningTaken, RunningApart, PlacesApart
<1>5. ResultsTaken' /\ ResultsApart'
    BY <1>1 DEF ResultsTaken, ResultsApart
<1> QED
    BY <1>3, <1>4, <1>5 DEF Flight

(* Everything in flight is a member, and was dispatched before `next`. *)
LEMMA FlightMembers ==
    ASSUME MapInv
    PROVE  /\ \A i : Taken(i) => i \in Members /\ i < next - Len(tasks.queue)
           /\ \A k \in 1..Len(tasks.queue) :
                 tasks.queue[k] \in Members /\ tasks.queue[k] < next
                 /\ tasks.queue[k] >= next - Len(tasks.queue)
           /\ Len(tasks.queue) \in Nat /\ Len(results) \in Nat /\ next \in 0..Count
           /\ start \in 0..Count /\ Count \in Nat
<1>1. /\ Len(tasks.queue) \in Nat /\ Len(results) \in Nat /\ next \in 0..Count
      /\ start \in 0..Count /\ Count \in Nat
    BY MapAssumption, LenProperties DEF MapInv, Types
<1>2. \A i : Taken(i) => i \in Members /\ i < next - Len(tasks.queue)
    BY <1>1 DEF Taken, Members
<1>3. \A k \in 1..Len(tasks.queue) :
         tasks.queue[k] \in Members /\ tasks.queue[k] < next
         /\ tasks.queue[k] >= next - Len(tasks.queue)
    BY <1>1, ElementOfSeq DEF MapInv, Types, Flight, QueueLast
<1> QED
    BY <1>1, <1>2, <1>3

(* The coordinator's steps on the pool: dispatching, and collecting. *)
LEMMA DispatchFlight ==
    ASSUME MapInv, Dispatch
    PROVE  Flight'
<1>1. /\ phase = "dispatching" /\ ~halted /\ next' = next + 1 /\ next < ChunkEnd
      /\ UNCHANGED <<start, phase, outcomes, results, worker>>
      /\ tasks'.queue = Append(tasks.queue, next)
    BY DEF Dispatch, MayDispatch, MapInv, Types
<1>2. ChunkEnd \in 0..Count /\ next \in Members
    <2>1. ChunkEnd \in 0..Count
        BY Sizes DEF MapInv, Types
    <2> QED
        BY <1>1, <2>1, FlightMembers DEF Members
<1>3. /\ Len(tasks'.queue) = Len(tasks.queue) + 1
      /\ \A k \in 1..Len(tasks'.queue) :
            tasks'.queue[k] = IF k = Len(tasks.queue) + 1 THEN next ELSE tasks.queue[k]
    BY <1>1, <1>2 DEF MapInv, Types
<1>4. outcomes[next] = "NotStarted"
    BY <1>1, <1>2 DEF MapInv, Frontier, InChunk, InPool
<1>5. \A i : (i \in start..(next - Len(tasks.queue) - 1))
                <=> (i \in start'..(next' - Len(tasks'.queue) - 1))
    BY <1>1, <1>3, FlightMembers
<1>6. QueueLast'
    <2>1. Len(tasks'.queue) <= next' - start'
        BY <1>1, <1>3, FlightMembers DEF MapInv, Flight, QueueLast, InPool
    <2>2. ASSUME NEW k \in 1..Len(tasks'.queue)
          PROVE  /\ tasks'.queue[k] = next' - Len(tasks'.queue) + k - 1
                 /\ outcomes'[tasks'.queue[k]] = "NotStarted"
        <3>1. CASE k = Len(tasks.queue) + 1
            <4>1. tasks'.queue[k] = next
                BY <1>3, <3>1
            <4>2. next = next' - Len(tasks'.queue) + k - 1
                BY <1>1, <1>3, <3>1, FlightMembers
            <4> QED
                BY <1>1, <1>4, <4>1, <4>2
        <3>2. CASE k \in 1..Len(tasks.queue)
            <4>1. tasks'.queue[k] = tasks.queue[k] /\ k \in Int
                BY <1>3, <3>2, FlightMembers
            <4>2. tasks.queue[k] = next - Len(tasks.queue) + k - 1
                  /\ outcomes[tasks.queue[k]] = "NotStarted"
                BY <3>2 DEF MapInv, Flight, QueueLast
            <4>3. next' - Len(tasks'.queue) = next - Len(tasks.queue)
                BY <1>1, <1>3, FlightMembers
            <4> QED
                BY <1>1, <4>1, <4>2, <4>3
        <3> QED
            BY <1>3, <3>1, <3>2, FlightMembers
    <2> QED
        BY <2>1, <2>2 DEF QueueLast
<1>7. RunningTaken' /\ ResultsTaken'
    BY <1>1, <1>5 DEF MapInv, Flight, RunningTaken, ResultsTaken, Taken, Running
<1> QED
    BY <1>1, <1>6, <1>7 DEF MapInv, Flight, NoPool, RunningApart, ResultsApart, PlacesApart, Running,
       InPool

LEMMA CollectFlight ==
    ASSUME MapInv, Collect
    PROVE  Flight'
<1> DEFINE state == Head(results).state
<1>1. PICK m \in Members : m = Head(results).member
    BY HeadTaken DEF MapInv, Collect
<1>2. /\ Taken(m) /\ m = results[1].member /\ 1 \in 1..Len(results)
      /\ Len(Tail(results)) = Len(results) - 1
      /\ \A k \in 1..Len(Tail(results)) : Tail(results)[k] = results[k + 1]
    BY <1>1, HeadTaken DEF MapInv, Collect
<1>3. /\ outcomes' = [outcomes EXCEPT ![m] = state] /\ results' = Tail(results)
      /\ phase = "dispatching" /\ UNCHANGED <<phase, start, next, tasks, worker>>
    BY <1>1 DEF Collect
<1> HIDE DEF state
<1>4. \A i \in Members : i # m => outcomes'[i] = outcomes[i]
    BY <1>3 DEF MapInv, Types
<1>5. \A k \in 1..Len(results') : k + 1 \in 1..Len(results) /\ results'[k] = results[k + 1]
                                  /\ results'[k].member # m
    BY <1>2, <1>3, FlightMembers DEF MapInv, Flight, ResultsApart
<1>6. QueueLast'
    <2>1. \A k \in 1..Len(tasks.queue) : tasks.queue[k] # m /\ tasks.queue[k] \in Members
        <3>1. /\ m < next - Len(tasks.queue) /\ m \in Int /\ next - Len(tasks.queue) \in Int
              /\ \A k \in 1..Len(tasks.queue) :
                    tasks.queue[k] \in Members /\ tasks.queue[k] >= next - Len(tasks.queue)
            BY <1>2, FlightMembers DEF Members
        <3> QED
            BY <3>1
    <2> QED
        BY <1>3, <1>4, <2>1 DEF MapInv, Flight, QueueLast
<1>7. RunningTaken'
    <2>1. \A w \in Running : worker[w].member # m /\ worker[w].member \in Members
        BY <1>2, FlightMembers DEF MapInv, Flight, PlacesApart, RunningTaken
    <2> QED
        BY <1>3, <1>4, <2>1 DEF MapInv, Flight, RunningTaken, Taken, Running
<1>8. ResultsTaken'
    <2>1. \A k \in 1..Len(results) : results[k].member \in Members
        BY FlightMembers DEF MapInv, Flight, ResultsTaken
    <2> QED
        BY <1>3, <1>4, <1>5, <2>1 DEF MapInv, Flight, ResultsTaken, Taken
<1>9. ResultsApart'
    <2> SUFFICES ASSUME NEW k \in 1..Len(results'), NEW l \in 1..Len(results'),
                        results'[k].member = results'[l].member
                 PROVE  k = l
        BY DEF ResultsApart
    <2>1. k + 1 = l + 1
        BY <1>5 DEF MapInv, Flight, ResultsApart
    <2> QED
        BY <1>2, <1>3, <2>1, FlightMembers
<1>10. PlacesApart'
    BY <1>3, <1>5 DEF MapInv, Flight, PlacesApart, Running
<1> QED
    BY <1>3, <1>6, <1>7, <1>8, <1>9, <1>10 DEF MapInv, Flight, NoPool, RunningApart, Running, InPool

(* The workers' steps on the pool: receiving, and sending. *)
LEMMA ReceiveFlight ==
    ASSUME MapInv, NEW w \in Threads, Receive(w)
    PROVE  Flight'
<1>1. /\ UNCHANGED <<outcomes, start, next, results, phase>>
      /\ tasks'.queue = Tail(tasks.queue) /\ tasks.queue # <<>>
      /\ worker[w].at = "receiving"
    BY DEF Receive, coordinator, control, MapInv, Types
<1>2. phase \in InPool
    BY <1>1 DEF MapInv, Flight, NoPool, NoThreads, Idle
<1>3. PICK h \in Members : h = Head(tasks.queue)
    BY <1>1, HeadTailProperties DEF MapInv, Types
<1>4. /\ Len(tasks.queue) >= 1 /\ Len(tasks'.queue) = Len(tasks.queue) - 1
      /\ h = tasks.queue[1]
      /\ \A k \in 1..Len(tasks'.queue) : tasks'.queue[k] = tasks.queue[k + 1]
    BY <1>1, <1>3, HeadTailProperties, EmptySeq DEF MapInv, Types
<1>5. /\ h = next - Len(tasks.queue) /\ outcomes[h] = "NotStarted"
      /\ Len(tasks.queue) <= next - start
    <2>1. 1 \in 1..Len(tasks.queue)
        BY <1>4, FlightMembers
    <2> QED
        BY <1>2, <1>4, <2>1, FlightMembers DEF MapInv, Flight, QueueLast
<1>6. \A i : i \in start..(next - Len(tasks.queue) - 1) =>
                i \in start'..(next' - Len(tasks'.queue) - 1) /\ i # h
    BY <1>1, <1>4, <1>5, FlightMembers
<1>7. h \in start'..(next' - Len(tasks'.queue) - 1)
    BY <1>1, <1>4, <1>5, FlightMembers
<1>8. /\ \A v \in Threads \ {w} : worker'[v] = worker[v]
      /\ worker'[w].at = "running" /\ worker'[w].member = h
      /\ w \notin Running /\ Running' = Running \cup {w}
    BY <1>1, <1>3 DEF Receive, MapInv, Types, Running
<1>9. QueueLast'
    <2>1. Len(tasks'.queue) <= next' - start'
        BY <1>1, <1>4, <1>5, FlightMembers
    <2>2. ASSUME NEW k \in 1..Len(tasks'.queue)
          PROVE  /\ tasks'.queue[k] = next' - Len(tasks'.queue) + k - 1
                 /\ outcomes'[tasks'.queue[k]] = "NotStarted"
        <3>1. tasks'.queue[k] = tasks.queue[k + 1] /\ k + 1 \in 1..Len(tasks.queue) /\ k \in Int
            <4>1. Len(tasks.queue) \in Nat
                BY FlightMembers
            <4>2. k \in 1..(Len(tasks.queue) - 1)
                BY <1>4
            <4> QED
                BY <1>4, <4>1, <4>2
        <3>2. tasks.queue[k + 1] = next - Len(tasks.queue) + (k + 1) - 1
              /\ outcomes[tasks.queue[k + 1]] = "NotStarted"
            BY <3>1 DEF MapInv, Flight, QueueLast
        <3>3. next' - Len(tasks'.queue) = next - Len(tasks.queue) + 1
            BY <1>1, <1>4, FlightMembers
        <3> QED
            BY <1>1, <3>1, <3>2, <3>3, FlightMembers
    <2> QED
        BY <2>1, <2>2 DEF QueueLast
<1>10. RunningTaken'
    BY <1>1, <1>5, <1>6, <1>7, <1>8 DEF MapInv, Flight, RunningTaken, Taken, Running
<1>11. ResultsTaken'
    BY <1>1, <1>6 DEF MapInv, Flight, ResultsTaken, Taken
<1>12. \A v \in Running : worker'[v] = worker[v] /\ worker[v].member # h
    BY <1>6, <1>8 DEF MapInv, Flight, RunningTaken, Taken, Running
<1>13. \A k \in 1..Len(results) : results[k].member # h
    BY <1>6 DEF MapInv, Flight, ResultsTaken, Taken
<1>14. RunningApart'
    BY <1>8, <1>12 DEF MapInv, Flight, RunningApart
<1>15. PlacesApart'
    BY <1>1, <1>8, <1>12, <1>13 DEF MapInv, Flight, PlacesApart
<1> QED
    BY <1>1, <1>2, <1>9, <1>10, <1>11, <1>14, <1>15 DEF MapInv, Flight, NoPool, ResultsApart

LEMMA SendFlight ==
    ASSUME MapInv, NEW w \in Threads, Send(w)
    PROVE  Flight'
<1>1. /\ UNCHANGED <<outcomes, start, next, tasks, phase>> /\ worker[w].at = "sending"
      /\ results' = Append(results, [member |-> worker[w].member, state |-> worker[w].state])
      /\ w \in Running
    BY DEF Send, coordinator, control, Running
<1>2. phase \in InPool
    BY <1>1 DEF MapInv, Flight, NoPool, NoThreads, Idle
<1>3. worker[w].member \in Members /\ worker[w].state \in TaskStates /\ Taken(worker[w].member)
    BY <1>1, FlightMembers DEF MapInv, Flight, RunningTaken
<1>4. PICK r \in [member : Members, state : TaskStates] :
         r = [member |-> worker[w].member, state |-> worker[w].state]
    BY <1>3
<1>5. /\ Len(results') = Len(results) + 1 /\ r.member = worker[w].member
      /\ \A k \in 1..Len(results') : results'[k] = IF k = Len(results) + 1 THEN r ELSE results[k]
    BY <1>1, <1>4 DEF MapInv, Types
<1>6. /\ \A v \in Threads \ {w} : worker'[v] = worker[v]
      /\ worker'[w].at = "idle" /\ Running' = Running \ {w}
    BY <1>1 DEF Send, Idle, MapInv, Types, Running
<1>7. \A k \in 1..Len(results') : k = Len(results) + 1 \/ k \in 1..Len(results)
    BY <1>5, FlightMembers
<1>8. ResultsTaken'
    BY <1>1, <1>3, <1>5, <1>7 DEF MapInv, Flight, ResultsTaken, Taken
<1>9. ResultsApart'
    BY <1>1, <1>5, <1>7 DEF MapInv, Flight, ResultsApart, PlacesApart
<1>10. RunningTaken'
    BY <1>1, <1>6 DEF MapInv, Flight, RunningTaken, Taken, Running
<1>11. RunningApart'
    BY <1>6 DEF MapInv, Flight, RunningApart, Running
<1>12. PlacesApart'
    BY <1>1, <1>5, <1>6, <1>7 DEF MapInv, Flight, PlacesApart, RunningApart, Running
<1> QED
    BY <1>1, <1>2, <1>8, <1>9, <1>10, <1>11, <1>12 DEF MapInv, Flight, NoPool, QueueLast

LEMMA FlightStep ==
    ASSUME MapInv, [Next]_vars, Types'
    PROVE  Flight'
<1> USE DEF MapInv
<1>0. /\ start' \in Int /\ next' \in Int /\ start' \in Nat
    BY MapAssumption DEF Types
<1>1. CASE BeginChunk \/ Return \/ SerialCancel \/ SerialEvaluate \/ SerialEnd \/ SerialPanic
           \/ CountResident \/ Deliver \/ NextChunk
    <2>1. phase \notin InPool /\ UNCHANGED pool
        BY <1>1 DEF InPool, BeginChunk, Return, SerialCancel, SerialEvaluate, SerialEnd, SerialPanic,
           EndChunk, CountResident, Deliver, NextChunk
    <2>2. phase' \in InPool => start' <= next'
        BY <1>0, <1>1 DEF InPool, BeginChunk, Return, SerialCancel, SerialEvaluate, SerialEnd,
           SerialPanic, EndChunk, CountResident, Deliver, NextChunk
    <2>3. tasks' = NewTasks /\ results' = <<>> /\ worker' = NoThreads
        BY <2>1 DEF Flight, NoPool, pool
    <2> QED
        BY <1>0, <2>2, <2>3, EmptyPool
<1>2. CASE Cancel \/ UNCHANGED vars \/ CloseTasks
    <2>1. UNCHANGED <<outcomes, start, next, results, worker>> /\ tasks'.queue = tasks.queue
        BY <1>2 DEF Cancel, vars, pool, control, CloseTasks, Types
    <2>2. (phase' = phase /\ tasks' = tasks) \/ (phase \in InPool /\ phase' \in InPool)
        BY <1>2 DEF Cancel, vars, pool, CloseTasks, InPool
    <2> QED
        BY <2>1, <2>2 DEF Flight, NoPool, QueueLast, RunningTaken, ResultsTaken, RunningApart,
           ResultsApart, PlacesApart, Taken, Running
<1>3. CASE Join
    BY <1>0, <1>3, EmptyPool DEF Join, InPool
<1>4. CASE SpawnFails
    <2>1. UNCHANGED <<start, next, results, worker>> /\ tasks'.queue = tasks.queue
          /\ phase' \in InPool /\ phase \in InPool /\ next = start
        BY <1>4 DEF SpawnFails, InPool, Types, Control
    <2>2. \A i : i \notin start..(next - Len(tasks.queue) - 1)
        BY <2>1, FlightMembers
    <2>3. Len(tasks.queue) = 0
        BY <2>1, FlightMembers DEF Flight, QueueLast
    <2>4. QueueLast'
        BY <2>1, <2>3, FlightMembers DEF QueueLast
    <2>5. RunningTaken' /\ ResultsTaken'
        BY <2>1, <2>2 DEF Flight, RunningTaken, ResultsTaken, Taken, Running
    <2> QED
        BY <2>1, <2>4, <2>5 DEF Flight, NoPool, RunningApart, ResultsApart, PlacesApart, Running
<1>5. CASE HaltOnCancel
    <2>1. UNCHANGED <<start, next, phase, tasks, results, worker>>
          /\ outcomes' = [outcomes EXCEPT ![next] = "Cancelled"]
        BY <1>5 DEF HaltOnCancel, pool
    <2>2. \A i \in Members : i < next => outcomes'[i] = outcomes[i]
        BY <2>1, FlightMembers DEF Types
    <2>3. QueueLast'
        BY <2>1, <2>2, FlightMembers DEF Flight, QueueLast
    <2>4. \A i : Taken(i) => i \in Members /\ i < next
        BY FlightMembers DEF Members
    <2>5. RunningTaken' /\ ResultsTaken'
        BY <2>1, <2>2, <2>4 DEF Flight, RunningTaken, ResultsTaken, Taken, Running
    <2> QED
        BY <2>1, <2>3, <2>5 DEF Flight, NoPool, RunningApart, ResultsApart, PlacesApart, Running
<1>6. ASSUME NEW w \in Threads, Spawn(w) \/ LockReceiver(w) \/ Leave(w) PROVE Flight'
    <2>1. UNCHANGED <<outcomes, start, next, tasks, results>> /\ phase \in InPool /\ phase' \in InPool
        <3>1. UNCHANGED <<outcomes, start, next, tasks, results>>
            BY <1>6 DEF Spawn, LockReceiver, Leave, coordinator, control
        <3>2. phase \in InPool
            BY <1>6 DEF Spawn, LockReceiver, Leave, InPool, Flight, NoPool, NoThreads, Idle
        <3> QED
            BY <1>6, <3>1, <3>2 DEF Spawn, LockReceiver, Leave, coordinator, InPool
    <2>2. w \notin Running
        <3>1. CASE Spawn(w)
            <4>1. w \in Nat /\ w \notin 1..(w - 1)
                BY MapAssumption DEF Threads
            <4>2. w \notin Spawned
                BY <3>1, <4>1 DEF Spawn
            <4> QED
                BY <4>2 DEF Spawned, Running
        <3> QED
            BY <1>6, <3>1 DEF LockReceiver, Leave, Running
    <2>3. /\ \A v \in Threads \ {w} : worker'[v] = worker[v]
          /\ worker'[w].at \in {"idle", "receiving", "gone"}
        BY <1>6 DEF Spawn, LockReceiver, Leave, Types
    <2>4. Running' = Running /\ \A v \in Running : worker'[v] = worker[v]
        BY <2>2, <2>3 DEF Running
    <2>5. RunningTaken' /\ RunningApart' /\ PlacesApart'
        BY <2>1, <2>3, <2>4 DEF Flight, RunningTaken, RunningApart, PlacesApart, Taken, Running
    <2> QED
        BY <2>1, <2>5 DEF Flight, NoPool, QueueLast, ResultsTaken, ResultsApart, Taken
<1>7. ASSUME NEW w \in Threads, Evaluate(w) PROVE Flight'
    <2>1. PICK state \in TaskStates :
             worker' = [worker EXCEPT ![w].at = "sending", ![w].state = state]
        BY <1>7 DEF Evaluate, TaskStates
    <2>2. /\ \A v \in Threads \ {w} : worker'[v] = worker[v]
          /\ worker'[w].at = "sending" /\ worker'[w].member = worker[w].member
          /\ worker'[w].state = state /\ w \in Running
        BY <1>7, <2>1 DEF Evaluate, Types, Running
    <2>3. Running' = Running /\ \A v \in Threads : worker'[v].member = worker[v].member
        BY <2>2 DEF Running
    <2>4. UNCHANGED <<outcomes, start, next, tasks, results, phase>> /\ phase \in InPool
        BY <1>7 DEF Evaluate, coordinator, control, Flight, NoPool, NoThreads, Idle
    <2>5. RunningTaken'
        BY <2>2, <2>3, <2>4 DEF Flight, RunningTaken, Taken, Running
    <2>6. RunningApart' /\ PlacesApart'
        BY <2>3, <2>4 DEF Flight, RunningApart, PlacesApart, Running
    <2> QED
        BY <2>4, <2>5, <2>6 DEF Flight, NoPool, QueueLast, ResultsTaken, ResultsApart, Taken
<1> QED
    BY <1>1, <1>2, <1>3, <1>4, <1>5, <1>6, <1>7, DispatchFlight, CollectFlight, ReceiveFlight,
       SendFlight DEF Next, Coordinator, Worker

(* active counts the members that are dispatched and not collected. *)
LEMMA ActiveStep ==
    ASSUME MapInv, [Next]_vars, Types'
    PROVE  ActiveExact'
<1> USE DEF MapInv
<1>0. /\ Count \in Nat /\ start \in 0..Count /\ ChunkEnd \in start..Count /\ next \in 0..Count
      /\ active \in Nat /\ active <= CrewSize /\ active = Cardinality(Open)
      /\ (start' = start => ChunkEnd' = ChunkEnd /\ CrewSize' = CrewSize)
      /\ (start < Count => CrewSize \in Nat \ {0} /\ Cardinality(Crew) = CrewSize)
      /\ policy' = policy
    <2>1. /\ Count \in Nat /\ start \in 0..Count /\ ChunkEnd \in start..Count /\ policy' = policy
          /\ policy \in Policies
        BY PolicyStays
    <2>2. start < Count => CrewSize \in Nat \ {0} /\ Cardinality(Crew) = CrewSize
        BY <2>1, Sizes
    <2>3. start' = start => ChunkEnd' = ChunkEnd /\ CrewSize' = CrewSize
        BY <2>1, SameChunk
    <2>4. next \in 0..Count /\ active \in Nat /\ active <= CrewSize /\ active = Cardinality(Open)
        BY DEF Types, ActiveExact
    <2> QED
        BY <2>1, <2>2, <2>3, <2>4
<1>1. IsFiniteSet(Open)
    <2>1. Open \in SUBSET (start..(next - 1))
        BY DEF Open
    <2>2. start \in Int /\ next - 1 \in Int
        BY <1>0
    <2> QED
        BY <2>1, <2>2, FS_Interval, FS_Subset
<1>2. ASSUME phase # "dispatching", phase' # "dispatching", active' = active,
             start' = start \/ phase = "delivering"
      PROVE  ActiveExact'
    <2>1. active' = 0 /\ Open' = {}
        BY <1>0, <1>2, FS_EmptySet DEF Open
    <2>2. CrewSize' \in Int /\ CrewSize' >= 0
        <3>1. policy' \in Policies /\ start' \in 0..Count
            BY <1>0 DEF Types
        <3>2. ChunkSize' \in Nat /\ Workers' \in Nat
            BY <3>1, MapAssumption DEF ChunkSize, Workers
        <3>3. ChunkEnd' \in Int /\ ChunkEnd' >= start' /\ start' \in Int
            <4>1. \A a, b, c \in Int : b >= 0 /\ a <= c =>
                     LET e == IF a + b < c THEN a + b ELSE c IN e \in Int /\ e >= a
                OBVIOUS
            <4>2. start' \in Int /\ start' <= Count /\ Count \in Int
                BY <1>0, <3>1
            <4>3. ChunkSize' \in Int /\ ChunkSize' >= 0
                BY <3>2
            <4> QED
                BY <4>1, <4>2, <4>3 DEF ChunkEnd
        <3>4. ChunkEnd' - start' \in Int /\ ChunkEnd' - start' >= 0
            <4>1. \A a, b \in Int : a >= b => a - b \in Int /\ a - b >= 0
                OBVIOUS
            <4> QED
                BY <3>3, <4>1
        <3> QED
            BY <3>2, <3>4 DEF CrewSize
    <2> QED
        BY <2>1, <2>2, FS_EmptySet DEF ActiveExact
<1>3. CASE BeginChunk \/ Return \/ SerialCancel \/ SerialEvaluate \/ SerialEnd \/ SerialPanic
           \/ CountResident \/ Deliver \/ NextChunk \/ SpawnFails \/ Join
    <2>1. phase # "dispatching" /\ phase' # "dispatching" /\ active' = active
          /\ (start' = start \/ phase = "delivering")
        BY <1>3 DEF BeginChunk, Return, SerialCancel, SerialEvaluate, SerialEnd, SerialPanic,
           CountResident, Deliver, NextChunk, SpawnFails, Join, EndChunk, control
    <2> QED
        BY <1>2, <2>1
<1>4. CASE Cancel \/ UNCHANGED vars \/ \E w \in Threads : Worker(w)
    <2>1. UNCHANGED <<outcomes, start, next, active, phase>>
        BY <1>4 DEF Cancel, vars, Worker, LockReceiver, Receive, Leave, Evaluate, Send, coordinator,
           control
    <2>2. Open' = Open
        BY <2>1 DEF Open
    <2> QED
        BY <1>0, <2>1, <2>2 DEF ActiveExact
<1>5. ASSUME NEW w \in Threads, Spawn(w) PROVE ActiveExact'
    <2>1. UNCHANGED <<outcomes, start, next, active>> /\ next = start /\ phase = "spawning"
        BY <1>5 DEF Spawn, control, Control
    <2>2. Open' = {} /\ Open = {}
        BY <1>0, <2>1 DEF Open
    <2> QED
        BY <1>0, <2>1, <2>2 DEF ActiveExact
<1>6. CASE Dispatch
    <2>1. /\ phase = "dispatching" /\ active < Cardinality(Crew) /\ ~halted /\ next < ChunkEnd
          /\ next' = next + 1 /\ active' = active + 1 /\ UNCHANGED <<outcomes, start, phase>>
        BY <1>6 DEF Dispatch, MayDispatch
    <2>2. next \in Members /\ start < Count /\ start <= next
        BY <1>0, <2>1 DEF Members, Control, InChunk, InPool
    <2>3. outcomes[next] = "NotStarted"
        BY <2>1, <2>2 DEF Frontier, InChunk, InPool
    <2>4. Open' = Open \cup {next} /\ next \notin Open
        BY <1>0, <2>1, <2>2, <2>3 DEF Open
    <2>5. Cardinality(Open \cup {next}) = active + 1
        BY <1>0, <1>1, <2>4, FS_AddElement
    <2>6. active + 1 <= CrewSize
        BY <1>0, <2>1, <2>2
    <2> QED
        BY <1>0, <2>1, <2>4, <2>5, <2>6 DEF ActiveExact
<1>7. CASE HaltOnCancel
    <2>1. /\ UNCHANGED <<start, next, active, phase>> /\ phase = "dispatching"
          /\ outcomes' = [outcomes EXCEPT ![next] = "Cancelled"]
        BY <1>7 DEF HaltOnCancel, MayDispatch
    <2>2. \A i \in start..(next - 1) : outcomes'[i] = outcomes[i]
        BY <1>0, <2>1 DEF Types, Members
    <2>3. Open' = Open
        BY <2>1, <2>2 DEF Open
    <2> QED
        BY <1>0, <2>1, <2>3 DEF ActiveExact
<1>8. CASE Collect
    <2>1. PICK m \in Members : m = Head(results).member
        BY <1>8, HeadTaken DEF Collect
    <2>2. Taken(m) /\ Head(results).state # "NotStarted"
        BY <1>8, <2>1, HeadTaken DEF Collect, TaskStates
    <2>3. /\ UNCHANGED <<start, next, phase>> /\ phase = "dispatching" /\ active' = active - 1
          /\ outcomes' = [outcomes EXCEPT ![m] = Head(results).state]
        BY <1>8, <2>1 DEF Collect
    <2>4. m \in start..(next - 1) /\ outcomes[m] = "NotStarted"
        BY <2>2, FlightMembers DEF Taken
    <2>5. \A i \in start..(next - 1) : outcomes'[i] = IF i = m THEN Head(results).state ELSE outcomes[i]
        <3>1. \A i \in start..(next - 1) : i \in Members
            BY <1>0 DEF Members
        <3> QED
            BY <2>3, <3>1 DEF Types
    <2>6. Open' = Open \ {m} /\ m \in Open
        BY <2>2, <2>3, <2>4, <2>5 DEF Open
    <2>7. Cardinality(Open \ {m}) = active - 1
        BY <1>0, <1>1, <2>6, FS_RemoveElement
    <2>8. active - 1 <= CrewSize
        BY <1>0, <2>3, <2>4 DEF Control
    <2> QED
        BY <1>0, <2>3, <2>6, <2>7, <2>8 DEF ActiveExact
<1>9. CASE CloseTasks
    <2>1. active = 0 /\ active' = 0 /\ start' = start /\ phase' = "joining"
        BY <1>9 DEF CloseTasks, control
    <2>2. Open' = {}
        BY <2>1 DEF Open
    <2> QED
        BY <1>0, <2>1, <2>2, FS_EmptySet DEF ActiveExact
<1> QED
    BY <1>3, <1>4, <1>5, <1>6, <1>7, <1>8, <1>9 DEF Next, Coordinator

(* What the callback has seen is what has been accepted so far. *)
LEMMA HandedStep ==
    ASSUME MapInv, [Next]_vars, Types'
    PROVE  Handed'
<1> USE DEF MapInv
<1>0. /\ Count \in Nat /\ start \in 0..Count /\ ChunkEnd \in start..Count /\ next \in 0..Count
      /\ Members \subseteq Nat /\ Len(delivered) \in Nat
      /\ \A k \in 1..Len(delivered) : delivered[k] \in Members
      /\ outcomes \in [Members -> TaskStates \cup {"Released", "NotStarted"}]
    <2>1. Count \in Nat /\ start \in 0..Count /\ ChunkEnd \in start..Count
        BY PolicyStays
    <2>2. delivered \in Seq(Members) /\ next \in 0..Count
          /\ outcomes \in [Members -> TaskStates \cup {"Released", "NotStarted"}]
        BY DEF Types
    <2>3. Len(delivered) \in Nat /\ \A k \in 1..Len(delivered) : delivered[k] \in Members
        BY <2>2, LenProperties, ElementOfSeq
    <2> QED
        BY <2>1, <2>2, <2>3 DEF Members
<1>1. ASSUME delivered' = delivered, Bound' = Bound,
             \A i \in Members : outcomes'[i] # outcomes[i] =>
                i >= Bound /\ outcomes'[i] # "Released"
      PROVE  Handed'
    <2>1. Bound \in Int /\ \A i \in Members : i < Bound => outcomes'[i] = outcomes[i]
        BY <1>0, <1>1 DEF Bound
    <2>2. \A k \in 1..Len(delivered) : outcomes'[delivered[k]] = outcomes[delivered[k]]
        BY <1>0, <2>1 DEF Handed
    <2> QED
        BY <1>0, <1>1, <2>1, <2>2 DEF Handed
<1>2. CASE BeginChunk \/ Return \/ SerialEnd \/ SerialPanic \/ Cancel \/ UNCHANGED vars
           \/ CloseTasks \/ Join \/ CountResident \/ Dispatch
    <2>1. UNCHANGED <<delivered, outcomes>>
        BY <1>2 DEF BeginChunk, Return, SerialEnd, SerialPanic, Cancel, vars, CloseTasks, Join,
           CountResident, EndChunk, Dispatch
    <2>2. Bound' = Bound
        BY <1>2 DEF Bound, BeginChunk, Return, SerialEnd, SerialPanic, Cancel, vars, CloseTasks, Join,
           CountResident, EndChunk, Dispatch, MayDispatch, control
    <2> QED
        BY <1>1, <2>1, <2>2
<1>3. ASSUME NEW w \in Threads, Spawn(w) \/ Worker(w) PROVE Handed'
    <2>1. UNCHANGED <<delivered, outcomes, start, next>>
          /\ (phase' = phase \/ (phase = "spawning" /\ phase' \in InPool))
        BY <1>3 DEF Spawn, Worker, LockReceiver, Receive, Leave, Evaluate, Send, coordinator, control,
           InPool
    <2>2. Bound' = Bound
        BY <2>1 DEF Bound, InPool
    <2> QED
        BY <1>1, <2>1, <2>2
<1>4. CASE SerialCancel \/ SerialEvaluate \/ SpawnFails \/ HaltOnCancel
    <2>1. UNCHANGED <<delivered, start>> /\ phase \in InChunk /\ phase' # "delivering"
        BY <1>4 DEF SerialCancel, SerialEvaluate, SpawnFails, HaltOnCancel, MayDispatch, EndChunk,
           InChunk, InPool
    <2>2. PICK i \in Members : \E state \in TaskStates :
             i >= start /\ outcomes' = [outcomes EXCEPT ![i] = state]
        <3>1. next \in start..ChunkEnd /\ start < Count /\ (phase = "spawning" => start \in Members)
            BY <1>0, <2>1 DEF Control, Members, InChunk, InPool
        <3>2. next < ChunkEnd => next \in Members
            BY <1>0, <3>1 DEF Members
        <3> QED
            BY <1>0, <1>4, <3>1, <3>2 DEF SerialCancel, SerialEvaluate, SpawnFails, HaltOnCancel,
               MayDispatch, TaskStates
    <2>3. Bound' = Bound /\ Bound = start
        BY <2>1 DEF Bound, InChunk, InPool
    <2>4. \A j \in Members : outcomes'[j] # outcomes[j] => j >= Bound /\ outcomes'[j] # "Released"
        BY <1>0, <2>2, <2>3 DEF TaskStates
    <2> QED
        BY <1>1, <2>1, <2>3, <2>4
<1>5. CASE Collect
    <2>1. PICK m \in Members : m = Head(results).member
        BY <1>5, HeadTaken DEF Collect
    <2>2. m \in start..(next - 1) /\ Head(results).state # "Released"
        BY <1>5, <2>1, HeadTaken, FlightMembers DEF Collect, Taken, TaskStates
    <2>3. /\ UNCHANGED <<delivered, start, phase>> /\ phase = "dispatching"
          /\ outcomes' = [outcomes EXCEPT ![m] = Head(results).state]
        BY <1>5, <2>1 DEF Collect
    <2>4. Bound' = Bound /\ Bound = start
        BY <2>3 DEF Bound
    <2>5. \A j \in Members : outcomes'[j] # outcomes[j] => j >= Bound /\ outcomes'[j] # "Released"
        BY <1>0, <2>2, <2>3, <2>4
    <2> QED
        BY <1>1, <2>3, <2>4, <2>5
<1>6. CASE Deliver
    <2>1. /\ phase = "delivering" /\ phase' = "delivering" /\ next' = next + 1
          /\ next \in Members /\ Bound = next /\ Bound' = next + 1
        BY <1>0, <1>6 DEF Deliver, Members, Bound
    <2>2. CASE outcomes[next] = "Accepted"
        <3>1. delivered' = Append(delivered, next)
              /\ outcomes' \in {outcomes, [outcomes EXCEPT ![next] = "Released"]}
            BY <1>6, <2>2 DEF Deliver
        <3>2. /\ Len(delivered') = Len(delivered) + 1
              /\ \A k \in 1..Len(delivered') :
                    delivered'[k] = IF k = Len(delivered) + 1 THEN next ELSE delivered[k]
            <4>1. delivered \in Seq(Members) /\ next \in Members
                BY <2>1 DEF Types
            <4> QED
                BY <3>1, <4>1
        <3>3. /\ outcomes'[next] \in {"Accepted", "Released"}
              /\ \A i \in Members : i # next => outcomes'[i] = outcomes[i]
            BY <1>0, <2>1, <2>2, <3>1
        <3>4. \A k \in 1..Len(delivered) : delivered[k] < next /\ delivered[k] \in Members
            BY <1>0, <2>1 DEF Handed
        <3>5. \A k, l \in 1..Len(delivered') : k < l => delivered'[k] < delivered'[l]
            BY <1>0, <2>1, <3>2, <3>4 DEF Handed
        <3>6. ASSUME NEW k \in 1..Len(delivered')
              PROVE  delivered'[k] < Bound' /\ outcomes'[delivered'[k]] \in {"Accepted", "Released"}
            <4>1. CASE k = Len(delivered) + 1
                BY <1>0, <2>1, <3>2, <3>3, <4>1
            <4>2. CASE k # Len(delivered) + 1
                <5>1. k \in 1..Len(delivered) /\ delivered'[k] = delivered[k]
                    BY <1>0, <3>2, <4>2
                <5>2. delivered[k] < next /\ delivered[k] \in Members /\ delivered[k] # next
                    BY <1>0, <3>4, <5>1
                <5>3. outcomes[delivered[k]] \in {"Accepted", "Released"}
                    BY <5>1 DEF Handed
                <5>4. delivered'[k] < Bound'
                    <6>1. \A a, b \in Int : a < b => a < b + 1
                        OBVIOUS
                    <6>2. delivered[k] \in Int /\ next \in Int
                        BY <1>0, <5>2
                    <6> QED
                        BY <2>1, <5>1, <5>2, <6>1, <6>2
                <5> QED
                    BY <3>3, <5>1, <5>2, <5>3, <5>4
            <4> QED
                BY <4>1, <4>2
        <3>7. ASSUME NEW i \in Members, i < Bound', outcomes'[i] \in {"Accepted", "Released"}
              PROVE  \E k \in 1..Len(delivered') : delivered'[k] = i
            <4>1. CASE i = next
                <5>1. Len(delivered) + 1 \in 1..Len(delivered')
                    BY <1>0, <3>2
                <5> QED
                    BY <3>2, <4>1, <5>1
            <4>2. CASE i # next
                <5>1. i < next /\ outcomes[i] \in {"Accepted", "Released"}
                    BY <1>0, <2>1, <3>3, <3>7, <4>2
                <5>2. PICK k \in 1..Len(delivered) : delivered[k] = i
                    BY <2>1, <5>1 DEF Handed
                <5>3. k \in 1..Len(delivered') /\ delivered'[k] = delivered[k]
                    BY <1>0, <3>2
                <5> QED
                    BY <5>2, <5>3
            <4> QED
                BY <4>1, <4>2
        <3>8. \A i \in Members : outcomes'[i] = "Released" => i < Bound'
            BY <1>0, <2>1, <3>3 DEF Handed
        <3> QED
            BY <3>5, <3>6, <3>7, <3>8 DEF Handed
    <2>3. CASE outcomes[next] # "Accepted"
        <3>1. UNCHANGED <<delivered, outcomes>>
            BY <1>6, <2>3 DEF Deliver
        <3>2. outcomes[next] # "Released"
            BY <1>0, <2>1 DEF Handed
        <3>3. \A i \in Members :
                 /\ i < next => i < next + 1
                 /\ i < next + 1 /\ outcomes[i] \in {"Accepted", "Released"} => i < next
            BY <1>0, <2>1, <2>3, <3>2
        <3>4. \A k \in 1..Len(delivered) : delivered[k] \in Members /\ delivered[k] < next
            BY <1>0, <2>1 DEF Handed
        <3>5. \A i \in Members : outcomes[i] = "Released" => i < next
            BY <2>1 DEF Handed
        <3>6. \A i \in Members : i < next /\ outcomes[i] \in {"Accepted", "Released"} =>
                 \E k \in 1..Len(delivered) : delivered[k] = i
            BY <2>1 DEF Handed
        <3>7. \A k \in 1..Len(delivered) : delivered[k] < Bound'
              /\ outcomes[delivered[k]] \in {"Accepted", "Released"}
            BY <2>1, <3>3, <3>4 DEF Handed
        <3> QED
            BY <2>1, <3>1, <3>3, <3>5, <3>6, <3>7 DEF Handed
    <2> QED
        BY <2>2, <2>3
<1>7. CASE NextChunk
    <2>1. UNCHANGED <<delivered, outcomes>> /\ phase = "delivering" /\ phase' = "chunk"
          /\ Bound = ChunkEnd /\ Bound' \in {Count, ChunkEnd}
        BY <1>7 DEF NextChunk, Bound
    <2>2. \A i \in Members : i >= ChunkEnd => outcomes[i] = "NotStarted"
        BY <2>1 DEF Frontier
    <2>3. Bound' \in Int /\ Bound \in Int /\ Bound <= Bound'
        BY <1>0, <2>1
    <2>4. \A k \in 1..Len(delivered) : delivered[k] < Bound'
        <3>1. \A k \in 1..Len(delivered) : delivered[k] \in Int
            BY <1>0
        <3>2. \A k \in 1..Len(delivered) : delivered[k] < Bound
            BY DEF Handed
        <3> QED
            BY <2>3, <3>1, <3>2
    <2>5. \A i \in Members : outcomes[i] \in {"Accepted", "Released"} =>
             i < Bound /\ i < Bound'
        BY <1>0, <2>1, <2>2, <2>3
    <2> QED
        BY <2>1, <2>4, <2>5 DEF Handed
<1> QED
    BY <1>2, <1>3, <1>4, <1>5, <1>6, <1>7 DEF Next, Coordinator

(* No more members are held than there are, and under Recompute no more are
   released than are held.                                                  *)
LEMMA HeldStep ==
    ASSUME MapInv, [Next]_vars, Types'
    PROVE  Held'
<1> USE DEF MapInv
<1>0. /\ Count \in Nat /\ start \in 0..Count /\ ChunkEnd \in start..Count /\ next \in 0..Count
      /\ resident \in Nat /\ policy' = policy
      /\ (start' = start => ChunkEnd' = ChunkEnd)
    BY PolicyStays, SameChunk DEF Types
<1>1. ASSUME NEW a \in start..ChunkEnd
      PROVE  LET S == AcceptedIn(a..(ChunkEnd - 1))
             IN  IsFiniteSet(S) /\ Cardinality(S) \in Nat /\ Cardinality(S) <= ChunkEnd - a
    <2> DEFINE S == AcceptedIn(a..(ChunkEnd - 1))
    <2>1. S \in SUBSET (a..(ChunkEnd - 1))
        BY DEF AcceptedIn
    <2>2. a \in Int /\ ChunkEnd - 1 \in Int /\ a <= ChunkEnd
        BY <1>0
    <2>3. IsFiniteSet(a..(ChunkEnd - 1))
          /\ Cardinality(a..(ChunkEnd - 1)) = IF a > ChunkEnd - 1 THEN 0 ELSE (ChunkEnd - 1) - a + 1
        BY <2>2, FS_Interval
    <2>4. IsFiniteSet(S) /\ Cardinality(S) <= Cardinality(a..(ChunkEnd - 1))
        BY <2>1, <2>3, FS_Subset
    <2>5. Cardinality(S) \in Nat
        BY <2>4, FS_CardinalityType
    <2> QED
        BY <1>0, <2>2, <2>3, <2>4, <2>5
<1>2. ASSUME resident' = resident, start' = start, phase # "delivering", phase' # "delivering"
      PROVE  Held'
    BY <1>2 DEF Held
<1>3. CASE BeginChunk \/ Return \/ SerialCancel \/ SerialEvaluate \/ SerialEnd \/ SerialPanic
           \/ SpawnFails \/ HaltOnCancel \/ Dispatch \/ Collect \/ CloseTasks \/ Join
    <2>1. resident' = resident /\ start' = start /\ phase # "delivering" /\ phase' # "delivering"
        BY <1>3 DEF BeginChunk, Return, SerialCancel, SerialEvaluate, SerialEnd, SerialPanic, EndChunk,
           SpawnFails, HaltOnCancel, Dispatch, MayDispatch, Collect, CloseTasks, Join, control
    <2> QED
        BY <1>2, <2>1
<1>4. CASE Cancel \/ UNCHANGED vars \/ \E w \in Threads : Worker(w)
    <2>1. UNCHANGED <<outcomes, start, next, phase, resident, policy>>
        BY <1>4 DEF Cancel, vars, Worker, LockReceiver, Receive, Leave, Evaluate, Send, coordinator,
           control, request
    <2> QED
        BY <1>0, <2>1 DEF Held, AcceptedIn, Recompute
<1>5. ASSUME NEW w \in Threads, Spawn(w) PROVE Held'
    <2>1. resident' = resident /\ start' = start /\ phase # "delivering" /\ phase' # "delivering"
        BY <1>5 DEF Spawn, control
    <2> QED
        BY <1>2, <2>1
<1>6. CASE CountResident
    <2> DEFINE S == AcceptedIn(start..(ChunkEnd - 1))
    <2>1. /\ phase = "counting" /\ phase' = "delivering" /\ resident' = resident + Cardinality(S)
          /\ next' = start /\ start' = start /\ outcomes' = outcomes
        BY <1>6 DEF CountResident, Chunk
    <2>2. Cardinality(S) \in Nat /\ Cardinality(S) <= ChunkEnd - start
        BY <1>0, <1>1
    <2>3. AcceptedIn(next..(ChunkEnd - 1))' = S
        BY <1>0, <2>1 DEF AcceptedIn
    <2> HIDE DEF S
    <2>4. resident <= start
        BY <2>1 DEF Held
    <2>5. resident' <= ChunkEnd' /\ Cardinality(S) <= resident'
        BY <1>0, <2>1, <2>2, <2>4
    <2> QED
        BY <2>1, <2>3, <2>5 DEF Held
<1>7. CASE Deliver
    <2> DEFINE S == AcceptedIn(next..(ChunkEnd - 1))
               T == AcceptedIn(next..(ChunkEnd - 1))'
    <2>1. /\ phase = "delivering" /\ phase' = phase /\ next' = next + 1 /\ start' = start
          /\ next \in start..ChunkEnd /\ next < ChunkEnd /\ Recompute' = Recompute
        BY <1>0, <1>7, SameChunk DEF Deliver, Control
    <2>2. IsFiniteSet(S) /\ Cardinality(S) \in Nat
        BY <1>1, <2>1
    <2>3. resident <= ChunkEnd /\ (Recompute => Cardinality(S) <= resident)
        BY <2>1 DEF Held
    <2>4. outcomes \in [Members -> TaskStates \cup {"Released", "NotStarted"}] /\ next \in Members
        BY <1>0, <2>1 DEF Types, Members
    <2>5. CASE outcomes[next] = "Accepted" /\ Recompute
        <3>1. outcomes' = [outcomes EXCEPT ![next] = "Released"] /\ resident' = resident - 1
            BY <1>7, <2>5 DEF Deliver
        <3>2. \A i \in next..(ChunkEnd - 1) : i \in Members /\ outcomes'[i] =
                 IF i = next THEN "Released" ELSE outcomes[i]
            BY <1>0, <2>1, <2>4, <3>1 DEF Members
        <3>3. T = S \ {next} /\ next \in S
            BY <1>0, <2>1, <2>5, <3>2 DEF AcceptedIn
        <3>4. Cardinality(T) = Cardinality(S) - 1
            BY <2>2, <3>3, FS_RemoveElement
        <3> HIDE DEF S, T
        <3>5. resident' <= ChunkEnd' /\ Cardinality(T) <= resident'
            BY <1>0, <2>1, <2>2, <2>3, <2>5, <3>1, <3>4
        <3> QED
            BY <2>1, <3>5 DEF Held, T
    <2>6. CASE ~(outcomes[next] = "Accepted" /\ Recompute)
        <3>1. resident' = resident /\ outcomes' = outcomes
            BY <1>7, <2>6 DEF Deliver
        <3>2. Recompute => T = S
            BY <1>0, <2>1, <2>6, <3>1 DEF AcceptedIn
        <3> HIDE DEF S, T
        <3>3. resident' <= ChunkEnd' /\ (Recompute' => Cardinality(T) <= resident')
            BY <1>0, <2>1, <2>3, <3>1, <3>2
        <3> QED
            BY <2>1, <3>3 DEF Held, T
    <2> QED
        BY <2>5, <2>6
<1>8. CASE NextChunk
    <2>1. resident' = resident /\ phase = "delivering" /\ phase' = "chunk"
          /\ start' \in {Count, ChunkEnd}
        BY <1>8 DEF NextChunk
    <2>2. resident <= ChunkEnd
        BY <2>1 DEF Held
    <2> QED
        BY <1>0, <2>1, <2>2 DEF Held
<1> QED
    BY <1>3, <1>4, <1>5, <1>6, <1>7, <1>8 DEF Next, Coordinator

-----------------------------------------------------------------------------
LEMMA MapInvariant == Spec => []MapInv
<1>1. MapInv /\ [Next]_vars => MapInv'
    <2> SUFFICES ASSUME MapInv, [Next]_vars PROVE MapInv'
        OBVIOUS
    <2>1. Types'
        BY TypesStep
    <2> QED
        BY <2>1, ControlStep, HaltedStep, FrontierStep, FlightStep, ActiveStep, HandedStep, HeldStep
           DEF MapInv
<1> QED
    BY <1>1, InitMapInv, PTL DEF Spec

(* Every variable of the map keeps its type: no more members are in flight than
   there are threads, and no more are held than requested.                    *)
THEOREM TypeCorrect == Spec => []TypeOK
<1>1. MapInv => TypeOK
    <2> SUFFICES ASSUME MapInv PROVE TypeOK
        OBVIOUS
    <2>1. Types /\ Count \in Nat
        BY MapAssumption DEF MapInv
    <2>2. active \in 0..Workers
        <3>1. CrewSize <= Workers /\ CrewSize \in Int /\ Workers \in Nat
            BY <2>1, Sizes DEF Types, CrewSize
        <3>2. active \in Nat /\ active <= CrewSize
            BY <2>1 DEF MapInv, ActiveExact, Types
        <3> QED
            BY <3>1, <3>2
    <2>3. resident \in 0..Count
        <3>1. ChunkEnd \in start..Count /\ start \in 0..Count
            BY <2>1, Sizes DEF Types
        <3>2. resident \in Nat /\ (resident <= start \/ resident <= ChunkEnd)
            BY <2>1 DEF MapInv, Held, Types
        <3> QED
            BY <2>1, <3>1, <3>2
    <2> QED
        BY <2>1, <2>2, <2>3 DEF Types, TypeOK
<1> QED
    BY <1>1, MapInvariant, PTL

(* However the members of a chunk end and in whatever order, what was started is
   a prefix of the request.                                                     *)
THEOREM PrefixTheorem == Spec => []StartedIsPrefix
<1>1. MapInv => StartedIsPrefix
    BY DEF MapInv
<1> QED
    BY <1>1, MapInvariant, PTL

(* The callback sees every accepted member once and in request order. *)
THEOREM OrderTheorem == Spec => []DeliveredInOrder
<1>1. MapInv => DeliveredInOrder
    <2> SUFFICES ASSUME MapInv PROVE DeliveredInOrder
        OBVIOUS
    <2>1. \A k, l \in 1..Len(delivered) : k < l => delivered[k] < delivered[l]
        BY DEF MapInv, Handed
    <2>2. ASSUME phase = "returned"
          PROVE  {delivered[k] : k \in 1..Len(delivered)}
                    = {i \in Members : outcomes[i] \in {"Accepted", "Released"}}
        <3>1. Bound = Count /\ \A i \in Members : i < Count
            BY <2>2, MapAssumption DEF MapInv, Control, Bound, Members
        <3>2. \A k \in 1..Len(delivered) : delivered[k] \in Members
            BY ElementOfSeq DEF MapInv, Types
        <3> QED
            BY <3>1, <3>2 DEF MapInv, Handed
    <2> QED
        BY <2>1, <2>2 DEF DeliveredInOrder
<1> QED
    BY <1>1, MapInvariant, PTL

(* Once a failure or a cancellation is recorded, no member joins those in flight. *)
THEOREM StopTheorem == Spec => NothingAfterStop
<1>1. MapInv /\ [Next]_vars =>
         [(\E i \in Members : outcomes[i] \in Stopping) => InFlight' \subseteq InFlight]_vars
    <2> SUFFICES ASSUME MapInv, [Next]_vars, halted
                 PROVE  InFlight' \subseteq InFlight \/ UNCHANGED vars
        BY DEF MapInv, HaltedExact
    <2>0. /\ Len(tasks.queue) \in Nat /\ Len(results) \in Nat
        BY FlightMembers
    <2>1. ASSUME tasks'.queue = tasks.queue, results' = results,
                 \A w \in Running' : w \in Running /\ worker'[w].member = worker[w].member
          PROVE  InFlight' \subseteq InFlight
        BY <2>1 DEF InFlight
    <2>2. ASSUME NEW w \in Threads, Spawn(w) \/ LockReceiver(w) \/ Leave(w) \/ Evaluate(w)
          PROVE  InFlight' \subseteq InFlight
        <3>1. UNCHANGED <<tasks, results>>
            BY <2>2 DEF Spawn, LockReceiver, Leave, Evaluate, coordinator
        <3>2. \A v \in Threads \ {w} : worker'[v] = worker[v]
            BY <2>2 DEF Spawn, LockReceiver, Leave, Evaluate, MapInv, Types
        <3>3. w \in Running' => w \in Running /\ worker'[w].member = worker[w].member
            BY <2>2 DEF Spawn, LockReceiver, Leave, Evaluate, MapInv, Types, Running
        <3>4. \A v \in Running' : v \in Running /\ worker'[v].member = worker[v].member
            BY <3>2, <3>3 DEF Running
        <3> QED
            BY <2>1, <3>1, <3>4
    <2>3. ASSUME NEW w \in Threads, Receive(w) PROVE InFlight' \subseteq InFlight
        <3>1. /\ tasks.queue # <<>> /\ tasks'.queue = Tail(tasks.queue) /\ results' = results
              /\ w \in Running' /\ worker'[w].member = Head(tasks.queue)
              /\ \A v \in Threads \ {w} : worker'[v] = worker[v]
            BY <2>3 DEF Receive, coordinator, MapInv, Types, Running
        <3>2. /\ Head(tasks.queue) = tasks.queue[1] /\ 1 \in 1..Len(tasks.queue)
              /\ \A k \in 1..Len(tasks'.queue) :
                    k + 1 \in 1..Len(tasks.queue) /\ tasks'.queue[k] = tasks.queue[k + 1]
            BY <3>1, HeadTailProperties, EmptySeq DEF MapInv, Types
        <3>3. \A k \in 1..Len(tasks'.queue) : tasks'.queue[k] \in InFlight
            BY <3>2 DEF InFlight
        <3>4. \A v \in Running' : worker'[v].member \in InFlight
            BY <3>1, <3>2 DEF InFlight, Running
        <3>5. \A k \in 1..Len(results') : results'[k].member \in InFlight
            BY <3>1 DEF InFlight
        <3> QED
            BY <3>3, <3>4, <3>5 DEF InFlight
    <2>4. ASSUME NEW w \in Threads, Send(w) PROVE InFlight' \subseteq InFlight
        <3>1. /\ tasks' = tasks /\ w \in Running
              /\ results' = Append(results, [member |-> worker[w].member, state |-> worker[w].state])
              /\ \A v \in Running' : v \in Running /\ worker'[v].member = worker[v].member
            BY <2>4 DEF Send, coordinator, MapInv, Types, Running, Idle
        <3>2. [member |-> worker[w].member, state |-> worker[w].state]
                 \in [member : Members, state : TaskStates]
            BY <2>4, <3>1, FlightMembers DEF MapInv, Flight, RunningTaken, Send
        <3>3. \A k \in 1..Len(results') :
                 \/ results'[k].member = worker[w].member
                 \/ k \in 1..Len(results) /\ results'[k] = results[k]
            BY <2>0, <3>1, <3>2 DEF MapInv, Types
        <3>4. \A k \in 1..Len(results') : results'[k].member \in InFlight
            BY <3>1, <3>3 DEF InFlight
        <3>5. \A v \in Running' : worker'[v].member \in InFlight
            BY <3>1 DEF InFlight
        <3>6. \A k \in 1..Len(tasks'.queue) : tasks'.queue[k] \in InFlight
            BY <3>1 DEF InFlight
        <3> QED
            BY <3>4, <3>5, <3>6 DEF InFlight
    <2>5. CASE Collect
        <3>1. /\ tasks' = tasks /\ worker' = worker /\ results' = Tail(results)
              /\ \A k \in 1..Len(results') : k + 1 \in 1..Len(results) /\ results'[k] = results[k + 1]
            BY <2>0, <2>5, HeadTaken DEF Collect, MapInv
        <3> QED
            BY <3>1 DEF InFlight, Running
    <2>6. CASE Join
        <3>1. Len(tasks'.queue) = 0 /\ Len(results') = 0 /\ Running' = {}
            BY <2>6, EmptySeq DEF Join, NewTasks, NoThreads, Idle, Running
        <3> QED
            BY <3>1 DEF InFlight
    <2>7. CASE BeginChunk \/ Return \/ SerialCancel \/ SerialEvaluate \/ SerialEnd \/ SerialPanic
               \/ SpawnFails \/ HaltOnCancel \/ CloseTasks \/ CountResident \/ Deliver \/ NextChunk
               \/ Cancel
        <3>1. tasks'.queue = tasks.queue /\ results' = results /\ worker' = worker
            BY <2>7 DEF BeginChunk, Return, SerialCancel, SerialEvaluate, SerialEnd, SerialPanic,
               EndChunk, SpawnFails, HaltOnCancel, CloseTasks, CountResident, Deliver, NextChunk,
               Cancel, pool, MapInv, Types
        <3> QED
            BY <2>1, <3>1 DEF Running
    <2>8. ~Dispatch
        BY DEF Dispatch, MayDispatch
    <2> QED
        BY <2>2, <2>3, <2>4, <2>5, <2>6, <2>7, <2>8 DEF Next, Coordinator, Worker
<1> QED
    BY <1>1, MapInvariant, PTL DEF Spec, NothingAfterStop

-----------------------------------------------------------------------------
(* What the abstract map sees of the outcomes. *)
Seen(i) == IF outcomes[i] = "Released" THEN "Accepted" ELSE outcomes[i]
SeenOutcomes == [i \in Members |-> Seen(i)]

LEMMA ResolveStep ==
    ASSUME Types, NEW i \in Members, NEW state \in TaskStates, outcomes[i] = "NotStarted",
           outcomes' = [outcomes EXCEPT ![i] = state], UNCHANGED <<delivered, verdict>>,
           verdict = "none"
    PROVE  Promise!Next
<1>1. \A j \in Members : Seen(j)' = IF j = i THEN state ELSE Seen(j)
    BY DEF Types, Seen, TaskStates
<1>2. SeenOutcomes' = [SeenOutcomes EXCEPT ![i] = state] /\ SeenOutcomes[i] = "NotStarted"
    BY <1>1 DEF SeenOutcomes, Seen
<1>3. Promise!Resolve(i)
    BY <1>2 DEF Promise!Resolve, SeenOutcomes, Seen, TaskStates
<1>4. i \in Promise!Members
    BY DEF Promise!Members, Members
<1> QED
    BY <1>3, <1>4 DEF Promise!Next

LEMMA DeliverStep ==
    ASSUME MapInv, Deliver
    PROVE  Promise!Next \/ UNCHANGED <<SeenOutcomes, delivered, verdict>>
<1> USE DEF MapInv
<1>0. /\ phase = "delivering" /\ next \in Members /\ Members \subseteq Nat /\ Bound = next
      /\ verdict = "none" /\ UNCHANGED verdict
      /\ outcomes \in [Members -> TaskStates \cup {"Released", "NotStarted"}]
    <2>1. ChunkEnd \in 0..Count /\ Count \in Nat
        BY Sizes, MapAssumption DEF Types
    <2> QED
        BY <2>1 DEF Deliver, Types, Members, Bound, Control
<1>1. CASE outcomes[next] = "Accepted"
    <2>1. delivered' = Append(delivered, next)
          /\ outcomes' \in {outcomes, [outcomes EXCEPT ![next] = "Released"]}
        BY <1>1 DEF Deliver
    <2>2. \A j \in Members : Seen(j)' = Seen(j)
        BY <1>0, <1>1, <2>1 DEF Seen
    <2>3. SeenOutcomes' = SeenOutcomes /\ SeenOutcomes[next] = "Accepted"
        BY <1>0, <1>1, <2>2 DEF SeenOutcomes, Seen
    <2>4. next \notin Promise!Delivered
        BY <1>0 DEF Promise!Delivered, Handed
    <2>5. ASSUME NEW j \in Members, j < next
          PROVE  /\ SeenOutcomes[j] # "NotStarted"
                 /\ SeenOutcomes[j] = "Accepted" => j \in Promise!Delivered
        <3>1. outcomes[j] # "NotStarted"
            BY <1>0, <1>1, <2>5 DEF StartedIsPrefix
        <3>2. SeenOutcomes[j] = "Accepted" => outcomes[j] \in {"Accepted", "Released"}
            BY DEF SeenOutcomes, Seen
        <3>3. outcomes[j] \in {"Accepted", "Released"} => j \in Promise!Delivered
            BY <1>0, <2>5 DEF Handed, Promise!Delivered
        <3> QED
            BY <3>1, <3>2, <3>3 DEF SeenOutcomes, Seen
    <2>6. Promise!Deliver(next)
        BY <1>0, <2>1, <2>3, <2>4, <2>5
           DEF Promise!Deliver, Promise!AcceptedOnes, Promise!Members, Members, SeenOutcomes, Seen
    <2>7. next \in Promise!Members
        BY <1>0 DEF Promise!Members, Members
    <2> QED
        BY <2>6, <2>7 DEF Promise!Next
<1>2. CASE outcomes[next] # "Accepted"
    BY <1>0, <1>2 DEF Deliver, SeenOutcomes, Seen
<1> QED
    BY <1>1, <1>2

LEMMA ReturnStep ==
    ASSUME MapInv, Return
    PROVE  Promise!Next
<1> USE DEF MapInv
<1>0. /\ Members \subseteq Nat /\ \A i \in Members : i < start /\ i < Count
      /\ Count \in Nat /\ verdict = "none" /\ UNCHANGED <<outcomes, delivered>> /\ Bound = start
      /\ outcomes \in [Members -> TaskStates \cup {"Released", "NotStarted"}]
    BY MapAssumption DEF Return, Types, Members, Bound, Control
<1>1. Promise!Members = Members
    BY DEF Promise!Members, Members
<1>2. Promise!AcceptedOnes = {i \in Members : outcomes[i] \in {"Accepted", "Released"}}
    BY <1>1 DEF Promise!AcceptedOnes
<1>3. Promise!AcceptedOnes = Promise!Delivered
    <2>1. \A k \in 1..Len(delivered) : delivered[k] \in Members
        BY ElementOfSeq DEF Types
    <2>2. \A k \in 1..Len(delivered) : outcomes[delivered[k]] \in {"Accepted", "Released"}
        BY DEF Handed
    <2>3. \A i \in Members : outcomes[i] \in {"Accepted", "Released"} =>
             \E k \in 1..Len(delivered) : delivered[k] = i
        BY <1>0 DEF Handed
    <2>4. Promise!AcceptedOnes \subseteq Promise!Delivered
        <3> SUFFICES ASSUME NEW i \in Members, outcomes[i] \in {"Accepted", "Released"}
                     PROVE  i \in Promise!Delivered
            BY <1>2
        <3>1. PICK k \in 1..Len(delivered) : delivered[k] = i
            BY <2>3
        <3> QED
            BY <3>1 DEF Promise!Delivered
    <2>5. Promise!Delivered \subseteq Promise!AcceptedOnes
        <3> SUFFICES ASSUME NEW k \in 1..Len(delivered)
                     PROVE  delivered[k] \in Promise!AcceptedOnes
            BY DEF Promise!Delivered
        <3>1. delivered[k] \in Members /\ outcomes[delivered[k]] \in {"Accepted", "Released"}
            BY <2>1, <2>2
        <3> QED
            BY <1>2, <3>1
    <2> QED
        BY <2>4, <2>5
<1>4. CASE \A i \in Members : outcomes[i] \in {"Accepted", "Released"}
    <2>1. verdict' = "complete" /\ Promise!AcceptedOnes = Promise!Members
        BY <1>1, <1>2, <1>4 DEF Return
    <2>2. Promise!Finish
        BY <1>0, <1>3, <2>1 DEF Promise!Finish, Promise!AcceptedOnes
    <2> QED
        BY <2>2 DEF Promise!Next
<1>5. CASE ~ \A i \in Members : outcomes[i] \in {"Accepted", "Released"}
    <2>1. verdict' = "terminal"
        BY <1>5 DEF Return
    <2>2. halted
        <3>1. PICK i \in Members : outcomes[i] \notin {"Accepted", "Released"}
            BY <1>5
        <3>2. ~halted => outcomes[i] # "NotStarted"
            BY <1>0 DEF Return, Frontier
        <3> QED
            BY <1>0, <3>1, <3>2 DEF HaltedExact, TaskStates, Stopping
    <2>3. PICK i \in Members : outcomes[i] \in {"Failed", "Cancelled"}
        BY <2>2 DEF HaltedExact, Stopping
    <2>4. SeenOutcomes[i] \in {"Failed", "Cancelled"} /\ i \in Promise!Members
        BY <1>1, <2>3 DEF SeenOutcomes, Seen
    <2>5. Promise!Finish
        BY <1>0, <1>3, <2>1, <2>4 DEF Promise!Finish, Promise!AcceptedOnes, SeenOutcomes, Seen
    <2> QED
        BY <2>5 DEF Promise!Next
<1> QED
    BY <1>4, <1>5

LEMMA MapInit == ASSUME Init PROVE Promise!Init
<1>1. [i \in Members |-> Seen(i)] = [i \in Promise!Members |-> "NotStarted"]
    BY DEF Init, Seen, Members, Promise!Members
<1> QED
    BY <1>1 DEF Init, Promise!Init, Seen

LEMMA MapStep ==
    ASSUME MapInv, [Next]_vars
    PROVE  [Promise!Next]_(Promise!vars)
<1> USE DEF MapInv
<1> DEFINE Still == UNCHANGED <<outcomes, delivered, verdict>>
<1>0. /\ Members \subseteq Nat /\ Count \in Nat /\ ChunkEnd \in start..Count
      /\ start \in Nat
    BY Sizes, MapAssumption DEF Types, Members
<1>1. CASE SerialCancel \/ SerialEvaluate \/ HaltOnCancel
    <2>1. /\ next \in Members /\ outcomes[next] = "NotStarted" /\ verdict = "none"
          /\ phase \in InChunk
        <3>1. /\ phase \in {"serial", "dispatching"} /\ next < ChunkEnd /\ next \in Nat
              /\ phase = "dispatching" => ~halted
            BY <1>1 DEF SerialCancel, SerialEvaluate, HaltOnCancel, MayDispatch, Types
        <3>2. next \in Members
            BY <1>0, <3>1 DEF Members
        <3>3. ~halted /\ phase \in InChunk /\ verdict = "none"
            BY <3>1 DEF Control, InChunk, InPool
        <3> QED
            BY <3>2, <3>3 DEF Frontier
    <2>2. PICK state \in TaskStates : outcomes' = [outcomes EXCEPT ![next] = state]
        BY <1>1 DEF SerialCancel, SerialEvaluate, HaltOnCancel, TaskStates
    <2>3. UNCHANGED <<delivered, verdict>>
        BY <1>1 DEF SerialCancel, SerialEvaluate, HaltOnCancel, EndChunk
    <2>4. Promise!Next
        BY <2>1, <2>2, <2>3, ResolveStep
    <2> QED
        BY <2>4
<1>2. CASE SpawnFails
    <2>1. /\ start \in Members /\ outcomes[start] = "NotStarted" /\ verdict = "none"
        <3>1. phase = "spawning" /\ start < Count /\ next = start /\ ~halted /\ verdict = "none"
            BY <1>2 DEF SpawnFails, Control
        <3>2. start \in Members
            BY <1>0, <3>1 DEF Members
        <3>3. phase \in InChunk
            BY <3>1 DEF InChunk, InPool
        <3> QED
            BY <3>1, <3>2, <3>3 DEF Frontier
    <2>2. Promise!Next
        BY <1>2, <2>1, ResolveStep DEF SpawnFails, TaskStates
    <2> QED
        BY <2>2
<1>3. CASE Collect
    <2>1. verdict = "none" /\ UNCHANGED <<delivered, verdict>>
        BY <1>3 DEF Collect, Control
    <2>2. PICK i \in Members, state \in TaskStates :
             outcomes[i] = "NotStarted" /\ outcomes' = [outcomes EXCEPT ![i] = state]
        BY <1>3, HeadTaken DEF Collect
    <2>3. Promise!Next
        BY <2>1, <2>2, ResolveStep
    <2> QED
        BY <2>3
<1>4. CASE Deliver
    BY <1>4, DeliverStep DEF Promise!vars, SeenOutcomes, Seen
<1>5. CASE Return
    BY <1>5, ReturnStep
<1>6. ASSUME Still PROVE UNCHANGED Promise!vars
    BY <1>6 DEF Promise!vars
<1>7. CASE BeginChunk \/ SerialEnd \/ SerialPanic \/ Dispatch \/ CloseTasks \/ Join
           \/ CountResident \/ NextChunk \/ Cancel
    <2>1. Still
        BY <1>7 DEF BeginChunk, SerialEnd, SerialPanic, EndChunk, Dispatch, CloseTasks, Join,
           CountResident, NextChunk, Cancel
    <2> QED
        BY <1>6, <2>1
<1>8. CASE (\E w \in Threads : Spawn(w)) \/ (\E w \in Threads : Worker(w)) \/ UNCHANGED vars
    <2>1. Still
        BY <1>8 DEF Spawn, Worker, LockReceiver, Receive, Leave, Evaluate, Send, coordinator, vars
    <2> QED
        BY <1>6, <2>1
<1> QED
    BY <1>1, <1>2, <1>3, <1>4, <1>5, <1>7, <1>8 DEF Next, Coordinator

(* For every request, policy and schedule of the threads, however members     *)
(* fail, threads do not start or somebody cancels, the map only shows what the*)
(* abstract map may show: outcomes settled once, deliveries in request order, *)
(* and a verdict that agrees with both.                                       *)
THEOREM MapTheorem == Spec => ImplementsMap
<1>1. Init => Promise!Init
    BY MapInit
<1>2. MapInv /\ [Next]_vars => [Promise!Next]_(Promise!vars)
    BY MapStep
<1> QED
    BY <1>1, <1>2, MapInvariant, PTL DEF Spec, ImplementsMap, Promise!Spec
=============================================================================
