----------------------- MODULE MpiDiagnosticsProofs -----------------------
(* Proofs that all ranks return the same diagnostic and that the calls of a   *)
(* group are unanimous, for any number of ranks: no trace is refused by the   *)
(* rank that recorded it, what the ranks make of the gathered records is the  *)
(* same everywhere, and whatever goes wrong in a call is known to the ranks,  *)
(* or keeps them apart, until they are refused.                               *)
EXTENDS MpiCollectivesProofs

-----------------------------------------------------------------------------
(* The last part of a run                                                   *)

\* How many boundaries of the last part have been entered, after so many of its
\* instructions.
Said == [n \in 0..12 |->
    CASE n \in {0, 1, 2} -> n
      [] n = 3 -> 2
      [] n \in {4} -> 3
      [] n \in {5, 6, 7} -> 4
      [] n \in {8, 9, 10} -> n - 3
      [] n = 11 -> 7
      [] n = 12 -> 8]

\* The instructions of the last part.
LEMMA FinishTasks ==
    /\ Script.finish[1] = Boundary("ProducerReport")
    /\ Script.finish[2] = Boundary("ProducerReport")
    /\ Script.finish[3] = Compare("report")
    /\ Script.finish[4] = Boundary("ProducerReport")
    /\ Script.finish[5] = Boundary("GatherPreparation")
    /\ Script.finish[6] = Plain("indices")
    /\ Script.finish[7] = Plain("values")
    /\ Script.finish[8] = Common("GatherValidation")
    /\ Script.finish[9] = Boundary("HostAcceptance")
    /\ Script.finish[10] = Boundary("ResultAgreement")
    /\ Script.finish[11] = Compare("solution")
    /\ Script.finish[12] = Boundary("ResultAgreement")
<1> DEFINE a == Boundary("ProducerReport")  b == Compare("report")
           c == Boundary("GatherPreparation")  d == Plain("indices")  e == Plain("values")
           f == Common("GatherValidation")  g == Boundary("HostAcceptance")
           h == Boundary("ResultAgreement")  i == Compare("solution")
<1>1. Script.finish = <<a>> \o <<a, b, a>> \o <<c, d, e, f>> \o <<g>> \o <<h, i, h>>
    BY DEF Script, AgreeReport, GatherOwned, AgreeSolution
<1>2. {a, b, c, d, e, f, g, h, i} \subseteq Instr
    <2>1. {"ProducerReport", "GatherPreparation", "GatherValidation", "HostAcceptance",
           "ResultAgreement"} \subseteq StatusPhases
        BY DEF StatusPhases
    <2>2. {"report", "indices", "values", "solution"} \subseteq Labels
        BY DEF Labels
    <2> QED
        BY <2>1, <2>2, Instructions
<1> HIDE DEF a, b, c, d, e, f, g, h, i
<1>3. Script.finish[1] = a
    BY <1>1, <1>2
<1>4. Script.finish[2] = a
    BY <1>1, <1>2
<1>5. Script.finish[3] = b
    BY <1>1, <1>2
<1>6. Script.finish[4] = a
    BY <1>1, <1>2
<1>7. Script.finish[5] = c
    BY <1>1, <1>2
<1>8. Script.finish[6] = d
    BY <1>1, <1>2
<1>9. Script.finish[7] = e
    BY <1>1, <1>2
<1>10. Script.finish[8] = f
    BY <1>1, <1>2
<1>11. Script.finish[9] = g
    BY <1>1, <1>2
<1>12. Script.finish[10] = h
    BY <1>1, <1>2
<1>13. Script.finish[11] = i
    BY <1>1, <1>2
<1>14. Script.finish[12] = h
    BY <1>1, <1>2
<1> QED
    BY <1>3, <1>4, <1>5, <1>6, <1>7, <1>8, <1>9, <1>10, <1>11, <1>12, <1>13,
       <1>14 DEF a, b, c, d, e, f, g, h, i

\* The record of the k-th of these boundaries.
Entry(k, i) == [phase |-> Terminal[k], iteration |-> IF k \in {1, 2, 3, 6} THEN i ELSE 0]

\* The trace ends with the records of the first m of them.
Closing(t, m, i) ==
    Len(t) >= m + 1 /\ \A k \in 1..m : t[(Len(t) - m) + k] = Entry(k, i)

\* The trace begins with the admission, which it does not record again.
Opened(t) ==
    /\ Len(t) >= 1 /\ t[1].phase = "Admission"
    /\ \A k \in 2..Len(t) : t[k].phase \in StatusPhases

\* The records of the last part are the last eight of the trace.
LEMMA FinishRecords ==
    ASSUME NEW p \in Alive, p.segment = "finish"
    PROVE  /\ p.index \in 1..12 /\ Said[p.index - 1] \in 0..8 /\ Said[p.index] \in 0..8
           /\ Task(p).op # "halo"
           /\ Task(p).op = "status" => /\ Said[p.index] = Said[p.index - 1] + 1
                                       /\ Record(p) = Entry(Said[p.index], p.iteration)
           /\ Task(p).op # "status" => Said[p.index] = Said[p.index - 1]
<1>1. p.index \in 1..12
    <2>1. Len(Script[p.segment]) = 12
        BY FinishBegins DEF Begins
    <2>2. p.index \in 1..Len(Script[p.segment])
        BY DEF Alive
    <2> QED
        BY <2>1, <2>2
<1>2. /\ Said[0] = 0 /\ Said[1] = 1 /\ Said[2] = 2 /\ Said[3] = 2 /\ Said[4] = 3
      /\ Said[5] = 4 /\ Said[6] = 4 /\ Said[7] = 4 /\ Said[8] = 5 /\ Said[9] = 6
      /\ Said[10] = 7 /\ Said[11] = 7 /\ Said[12] = 8
    BY DEF Said
<1>3. Task(p) = Script.finish[p.index]
    BY DEF Task
<1>4. CASE p.index \in {1, 2, 4}
    <2>1. Task(p) = Boundary("ProducerReport")
        BY <1>3, <1>4, FinishTasks
    <2>2. /\ Said[p.index] \in {1, 2, 3} /\ Said[p.index] = Said[p.index - 1] + 1
          /\ Said[p.index - 1] \in 0..8
        BY <1>2, <1>4
    <2>3. Terminal[Said[p.index]] = "ProducerReport"
        BY <2>2 DEF Terminal
    <2>4. Record(p) = Entry(Said[p.index], p.iteration)
        BY <2>1, <2>2, <2>3 DEF Boundary, Record, Entry
    <2> QED
        BY <1>1, <2>1, <2>2, <2>4 DEF Boundary
<1>5. CASE p.index \in {5, 8}
    BY <1>2, <1>3, <1>5, FinishTasks DEF Boundary, Common, Record, Entry, Terminal
<1>6. CASE p.index \in {9, 10, 12}
    BY <1>2, <1>3, <1>6, FinishTasks DEF Boundary, Record, Entry, Terminal
<1>7. CASE p.index \in {3, 6, 7, 11}
    BY <1>2, <1>3, <1>7, FinishTasks DEF Compare, Plain
<1> QED
    BY <1>1, <1>4, <1>5, <1>6, <1>7

\* The next record continues the end of the trace, or leaves its beginning alone.
LEMMA ClosingOn ==
    ASSUME NEW t \in Seq(Notes), NEW m \in 0..8, NEW i, Closing(t, m, i)
    PROVE  Closing(Append(t, Entry(m + 1, i)), m + 1, i)
<1> DEFINE e == Entry(m + 1, i)  u == Append(t, e)
<1>1. /\ Len(t) \in Nat /\ Len(u) = Len(t) + 1 /\ u[Len(t) + 1] = e
      /\ \A k \in 1..Len(t) : u[k] = t[k]
    BY AppendProperties
<1>2. Len(t) >= m + 1
    BY DEF Closing
<1> HIDE DEF u
<1>3. ASSUME NEW k \in 1..(m + 1) PROVE u[(Len(u) - (m + 1)) + k] = Entry(k, i)
    <2>1. (Len(u) - (m + 1)) + k = (Len(t) - m) + k
        BY <1>1
    <2>2. CASE k = m + 1
        <3>1. (Len(t) - m) + k = Len(t) + 1
            BY <1>1, <2>2
        <3> QED
            BY <1>1, <2>1, <2>2, <3>1
    <2>3. CASE k # m + 1
        <3>1. k \in 1..m /\ (Len(t) - m) + k \in 1..Len(t)
            BY <1>1, <1>2, <2>3
        <3>2. t[(Len(t) - m) + k] = Entry(k, i)
            BY <3>1 DEF Closing
        <3> QED
            BY <1>1, <2>1, <3>1, <3>2
    <2> QED
        BY <2>2, <2>3
<1>4. Len(u) >= (m + 1) + 1
    BY <1>1, <1>2
<1>5. Closing(u, m + 1, i)
    BY <1>3, <1>4 DEF Closing
<1> QED
    BY <1>5 DEF u

LEMMA OpenedOn ==
    ASSUME NEW t \in Seq(Notes), NEW x, x.phase \in StatusPhases, Opened(t)
    PROVE  Opened(Append(t, x))
<1> DEFINE u == Append(t, x)
<1>1. /\ Len(t) \in Nat /\ Len(u) = Len(t) + 1 /\ u[Len(t) + 1] = x
      /\ \A k \in 1..Len(t) : u[k] = t[k]
    BY AppendProperties
<1>2. Len(t) >= 1 /\ t[1].phase = "Admission"
    BY DEF Opened
<1> HIDE DEF u
<1>3. Len(u) >= 1 /\ u[1].phase = "Admission"
    BY <1>1, <1>2
<1>4. ASSUME NEW k \in 2..Len(u) PROVE u[k].phase \in StatusPhases
    <2>1. CASE k = Len(t) + 1
        BY <1>1, <2>1
    <2>2. CASE k # Len(t) + 1
        <3>1. k \in 2..Len(t) /\ k \in 1..Len(t)
            BY <1>1, <2>2
        <3> QED
            BY <1>1, <3>1 DEF Opened
    <2> QED
        BY <2>1, <2>2
<1>5. Opened(u)
    BY <1>3, <1>4 DEF Opened
<1> QED
    BY <1>5 DEF u

-----------------------------------------------------------------------------
(* The trace of a run                                                       *)

Running(r) == at[r].segment \in Solving \/ (at[r].segment = "admit" /\ Done(r) >= 2)

Story ==
    \A r \in Ranks : Running(r) =>
        /\ Opened(trace[r])
        /\ at[r].segment = "finish" => Closing(trace[r], Said[Done(r)], at[r].iteration)

\* Entering an operation records it as the story tells.
LEMMA StoryEnter ==
    ASSUME Lockstep, Story, NEW r \in Ranks, Enter(r)
    PROVE  Story'
<1>1. at[r] \in Alive /\ inside[r].op = "outside" /\ Task(at[r]).op # "outside"
    BY EnterEffect
<1>2. /\ at' = at /\ inside'[r].op = Task(at[r]).op /\ trace'[r] = Recorded(trace[r], at[r])
      /\ \A q \in Ranks : q # r => inside'[q] = inside[q] /\ trace'[q] = trace[q]
    BY EnterEffect
<1>3. Done(r) = at[r].index - 1 /\ Done(r)' = at[r].index /\ at[r].index \in 1..15
    BY <1>1, <1>2 DEF Done, Alive
<1>4. trace[r] \in Seq(Notes)
    BY DEF Lockstep, Kinds
<1> SUFFICES ASSUME NEW q \in Ranks, Running(q)'
             PROVE  /\ Opened(trace'[q])
                    /\ at[q].segment = "finish" =>
                          Closing(trace'[q], Said[Done(q)'], at[q].iteration)
    BY <1>2 DEF Story
<1>5. CASE q # r
    <2>1. Done(q)' = Done(q) /\ trace'[q] = trace[q]
        BY <1>2, <1>5 DEF Done
    <2>2. Running(q)
        BY <1>2, <2>1 DEF Running
    <2> QED
        BY <2>1, <2>2 DEF Story
<1>6. CASE q = r /\ at[r].segment = "admit" /\ at[r].index = 2
    <2>1. trace'[r] = <<[phase |-> "Admission", iteration |-> 0]>>
        BY <1>2, <1>6 DEF Recorded
    <2>2. Opened(trace'[r])
        BY <2>1 DEF Opened
    <2> QED
        BY <1>6, <2>2
<1>7. CASE q = r /\ ~(at[r].segment = "admit" /\ at[r].index = 2)
    <2>1. Running(r)
        <3>1. at[r].segment = "admit" /\ Done(r)' >= 2 => Done(r) >= 2
            BY <1>3, <1>7
        <3> QED
            BY <1>2, <1>7, <3>1 DEF Running
    <2>2. Opened(trace[r])
        BY <2>1 DEF Story
    <2>3. at[r].segment = "finish" =>
             Closing(trace[r], Said[at[r].index - 1], at[r].iteration)
        BY <1>3, <2>1 DEF Story
    <2>4. CASE Task(at[r]).op = "status"
        <3>1. trace'[r] = Append(trace[r], Record(at[r]))
            BY <1>2, <1>7, <2>4 DEF Recorded
        <3>2. Record(at[r]).phase \in StatusPhases
            BY <1>1, <2>4, TaskFacts DEF Record
        <3>3. Opened(trace'[r])
            BY <1>4, <2>2, <3>1, <3>2, OpenedOn
        <3>4. ASSUME at[r].segment = "finish"
              PROVE  Closing(trace'[r], Said[at[r].index], at[r].iteration)
            <4>1. /\ Said[at[r].index - 1] \in 0..8
                  /\ Said[at[r].index] = Said[at[r].index - 1] + 1
                  /\ Record(at[r]) = Entry(Said[at[r].index - 1] + 1, at[r].iteration)
                BY <1>1, <2>4, <3>4, FinishRecords
            <4> QED
                BY <1>4, <2>3, <3>1, <3>4, <4>1, ClosingOn
        <3> QED
            BY <1>3, <1>7, <3>3, <3>4
    <2>5. CASE Task(at[r]).op # "status"
        <3>1. trace'[r] = trace[r]
            BY <1>2, <1>7, <2>5 DEF Recorded
        <3>2. at[r].segment = "finish" => Said[at[r].index] = Said[at[r].index - 1]
            BY <1>1, <2>5, FinishRecords
        <3> QED
            BY <1>3, <1>7, <2>2, <2>3, <3>1, <3>2
    <2> QED
        BY <2>4, <2>5
<1> QED
    BY <1>5, <1>6, <1>7

\* The halo exchange records nothing.
LEMMA StoryLeaveHalo ==
    ASSUME Lockstep, Story, NEW r \in Ranks, LeaveHalo(r)
    PROVE  Story'
<1>1. /\ at[r] \in Alive /\ Task(at[r]).op = "halo" /\ at[r].segment \in Solving
      /\ at'[r].segment = at[r].segment
    BY HaloEffect
<1>2. /\ inside' = inside /\ trace' = trace
      /\ \A q \in Ranks : q # r => at'[q] = at[q]
    BY HaloEffect
<1>3. at[r].segment # "finish"
    BY <1>1, FinishRecords
<1>4. ASSUME NEW q \in Ranks, Running(q)'
      PROVE  /\ Opened(trace'[q])
             /\ at'[q].segment = "finish" =>
                   Closing(trace'[q], Said[Done(q)'], at'[q].iteration)
    <2>1. CASE q = r
        <3>1. Running(r)
            BY <1>1 DEF Running
        <3> QED
            BY <1>1, <1>2, <1>3, <2>1, <3>1 DEF Story
    <2>2. CASE q # r
        <3>1. Done(q)' = Done(q) /\ at'[q] = at[q] /\ trace'[q] = trace[q]
            BY <1>2, <2>2 DEF Done
        <3>2. Running(q)
            BY <1>4, <3>1 DEF Running
        <3> QED
            BY <3>1, <3>2 DEF Story
    <2> QED
        BY <2>1, <2>2
<1> QED
    BY <1>4 DEF Story

\* Leaving an operation records nothing; the next part tells on.
LEMMA StoryLeave ==
    ASSUME Lockstep, Story, Met, NEW turn, Leave(turn),
           \A r \in Ranks : Forks = {} \/ turn[r] \in Forks
    PROVE  Story'
<1>1. trace' = trace /\ \A r \in Ranks : inside'[r].op = "outside"
    BY DEF Leave, Outside
<1>2. CASE \/ \A r \in Ranks : Judge(r).kind = "rejected"
           \/ \A r \in Ranks : Judge(r) = Accepted
    <2>1. PICK n \in Nat, p \in Alive \cup {Over} :
             /\ \A r \in Ranks : call'[r] = n /\ at'[r] = p
             /\ p # Over => p.segment \in Openings /\ p.index = 1
        BY <1>2, NextCall
    <2>2. p.segment \notin Solving /\ (p.segment = "admit" => p.index = 1)
        BY <2>1, Beginnings
    <2>3. ASSUME NEW r \in Ranks PROVE ~Running(r)'
        <3>1. at'[r] = p /\ Done(r)' = p.index - 1
            BY <1>1, <2>1 DEF Done
        <3> QED
            BY <2>2, <3>1 DEF Running
    <2> QED
        BY <2>3 DEF Story
<1>3. CASE \A r \in Ranks : Judge(r) = Unanswered
    <2> SUFFICES ASSUME NEW r \in Ranks, Running(r)'
                 PROVE  /\ Opened(trace[r])
                        /\ at'[r].segment = "finish" =>
                              Closing(trace[r], Said[Done(r)'], at'[r].iteration)
        BY <1>1 DEF Story
    <2>1. Done(r)' = at'[r].index - 1
        BY <1>1 DEF Done
    <2>2. at[r] \in Alive /\ Done(r) = at[r].index /\ at[r].index \in Nat
        BY <1>3, NextPlace DEF Alive
    <2>3. CASE ~AtEnd(r)
        <3>1. /\ at'[r].segment = at[r].segment /\ at'[r].index = at[r].index + 1
              /\ at'[r].iteration = at[r].iteration
            BY <1>3, <2>3, NextPlace
        <3>2. Done(r)' = Done(r)
            BY <2>1, <2>2, <3>1
        <3>3. Running(r)
            BY <3>1, <3>2 DEF Running
        <3> QED
            BY <3>1, <3>2, <3>3 DEF Story
    <2>4. CASE AtEnd(r)
        <3>1. /\ at'[r].index = 1
              /\ at'[r].segment \in Solving => at[r].segment \in Solving \cup {"admit"}
            BY <1>3, <2>4, NextPlace
        <3>2. Done(r)' = 0
            BY <2>1, <3>1
        <3>3. at'[r].segment \in Solving
            BY <3>2 DEF Running
        <3>4. at[r].segment = "admit" => Done(r) = 4
            BY <2>2, <2>4, AdmitSegment DEF AtEnd
        <3>5. Running(r)
            BY <3>1, <3>3, <3>4 DEF Running
        <3>6. Opened(trace[r])
            BY <3>5 DEF Story
        <3>7. Said[0] = 0
            BY DEF Said
        <3>8. Closing(trace[r], Said[Done(r)'], at'[r].iteration)
            BY <3>2, <3>6, <3>7 DEF Closing, Opened
        <3> QED
            BY <3>6, <3>8
    <2> QED
        BY <2>3, <2>4
<1> QED
    BY <1>2, <1>3, MeetingAlike DEF Alike

-----------------------------------------------------------------------------
(* Diagnostics                                                              *)

\* A rank that has gathered the solution accepts the trace of its run.
LEMMA TraceAccepted ==
    ASSUME Lockstep, Story, NEW r \in Ranks, inside[r].op # "outside",
           at[r].segment = "finish", AtEnd(r)
    PROVE  TraceSound(trace[r], at[r].iteration)
<1> DEFINE t == trace[r]  i == at[r].iteration
<1>1. at[r].index = 12 /\ Done(r) = 12
    BY FinishBegins DEF AtEnd, Begins, Done
<1>2. Running(r)
    BY DEF Running, Solving
<1>3. Said[12] = 8
    BY DEF Said
<1>4. Opened(t) /\ Closing(t, 8, i)
    BY <1>1, <1>2, <1>3 DEF Story
<1>5. t \in Seq(Notes) /\ Len(t) \in Nat /\ Len(t) >= 9
    BY <1>4 DEF Lockstep, Kinds, Closing
<1>6. Len(t) <= Capacity
    <2>1. Slack["finish"] = 23
        BY DEF Slack
    <2>2. Len(t) <= 32 * i + 23 + 12
        BY <1>1, <1>2, <2>1 DEF Lockstep, Room, Running
    <2>3. at[r] \in Alive
        BY DEF Lockstep, Entered
    <2>4. i \in Nat /\ MaxIterations \in Nat /\ i <= MaxIterations
        BY <2>3, RankAssumption DEF Alive
    <2>5. 32 * i + 23 + 12 <= 32 * MaxIterations + 64
        BY <2>4
    <2> QED
        BY <1>5, <2>2, <2>4, <2>5 DEF Capacity
<1> HIDE DEF t, i
<1>7. Len(t) \in 8..Capacity
    <2>1. Capacity \in Nat
        BY RankAssumption DEF Capacity
    <2> QED
        BY <1>5, <1>6, <2>1
<1>8. t[1].phase = "Admission" /\ \A k \in 2..Len(t) : t[k].phase # "Admission"
    BY <1>4 DEF Opened, StatusPhases
<1> DEFINE last == SubSeq(t, Len(t) - 7, Len(t))
<1>9. Len(last) = 8 /\ \A k \in 1..8 : last[k] = Entry(k, i)
    <2>1. (Len(t) - 7) \in 1..(Len(t) + 1) /\ Len(t) \in (Len(t) - 7) - 1 .. Len(t)
        BY <1>5
    <2>2. /\ Len(last) = (Len(t) - (Len(t) - 7)) + 1
          /\ \A k \in 1..((Len(t) - (Len(t) - 7)) + 1) : last[k] = t[((Len(t) - 7) + k) - 1]
        BY <1>5, <2>1
    <2>3. (Len(t) - (Len(t) - 7)) + 1 = 8
        BY <1>5
    <2>4. ASSUME NEW k \in 1..8 PROVE last[k] = Entry(k, i)
        <3>1. ((Len(t) - 7) + k) - 1 = (Len(t) - 8) + k
            BY <1>5
        <3>2. t[(Len(t) - 8) + k] = Entry(k, i)
            BY <1>4 DEF Closing
        <3> QED
            BY <2>2, <2>3, <3>1, <3>2
    <2> QED
        BY <2>2, <2>3, <2>4
<1> HIDE DEF last
<1>10. Phases(last) = Terminal
    <2>1. \A k \in 1..8 : last[k].phase = Terminal[k]
        BY <1>9 DEF Entry
    <2>2. Phases(last) = [k \in 1..8 |-> Terminal[k]]
        BY <1>9, <2>1 DEF Phases
    <2>3. Terminal = [k \in 1..8 |-> Terminal[k]]
        <3>1. Terminal \in Seq(StatusPhases) /\ Len(Terminal) = 8
            BY DEF Terminal, StatusPhases
        <3> QED
            BY <3>1
    <2> QED
        BY <2>2, <2>3
<1>11. \A k \in 1..8 : last[k].iteration = IF k \in {1, 2, 3, 6} THEN i ELSE 0
    BY <1>9 DEF Entry
<1>12. TraceSound(t, i)
    BY <1>7, <1>8, <1>10, <1>11 DEF TraceSound, last
<1> QED
    BY <1>12 DEF t, i

\* Ranks that meet outside a boundary are at the same instruction.
LEMMA SameTask ==
    ASSUME Lockstep, Met, NEW q \in Ranks, NEW r \in Ranks, inside[r].op # "status"
    PROVE  inside[q].phase = inside[r].phase
<1>1. /\ at[q] \in Alive /\ Ahead(at[q]) = at[q] /\ inside[q].phase = Task(at[q]).phase
      /\ at[r] \in Alive /\ Ahead(at[r]) = at[r] /\ inside[r].phase = Task(at[r]).phase
      /\ inside[r].op = Task(at[r]).op
    BY AheadFacts DEF Lockstep, Entered, Met
<1>2. CASE Together
    BY <1>1, <1>2 DEF Together
<1>3. CASE Paired
    <2>1. at[q].index = at[r].index
        BY <1>1, <1>3 DEF Paired
    <2>2. at[q].index \in 1..8 /\ at[r].index \in 1..8
        BY <1>3, PairedSteps
    <2>3. at[q].segment \in {"converged", "stopped"} /\ at[r].segment \in {"converged", "stopped"}
        BY <1>3 DEF Paired
    <2>4. Task(at[q]) = Task(at[r])
        BY <1>1, <2>1, <2>2, <2>3, ResidualTasks
    <2> QED
        BY <1>1, <2>4
<1>4. CASE Doomed
    BY <1>1, <1>4 DEF Doomed
<1> QED
    BY <1>2, <1>3, <1>4 DEF Lockstep, Modes

\* Ranks that reject a call say the same, or all name a step.
LEMMA SameJudgement ==
    ASSUME Lockstep, Story, Met, NEW q \in Ranks, NEW r \in Ranks,
           Judge(q).kind = "rejected", Judge(r).kind = "rejected"
    PROVE  Judge(q) = Judge(r) \/ (Judge(q).phase = "step" /\ Judge(r).phase = "step")
<1>1. inside[q].op = inside[r].op /\ inside[q].op # "outside" /\ inside[r].op # "outside"
    BY DEF Met
<1>2. Outcome(q).kind # "rejected" /\ Outcome(r).kind # "rejected"
    <2>1. ASSUME NEW p \in Ranks, inside[p].op # "outside" PROVE Outcome(p).kind # "rejected"
        <3>1. Outcome(p) \in {Accepted, Unanswered}
            BY <2>1, TraceAccepted DEF Outcome
        <3> QED
            BY <3>1, Answers
    <2> QED
        BY <1>1, <2>1
<1>3. CASE inside[q].op = "status" /\ Strayed(q) # {}
    <2>1. Strayed(r) # {}
        BY <1>3 DEF Strayed
    <2> QED
        BY <1>1, <1>3, <2>1 DEF Judge, Verdict, Rejected
<1>4. CASE inside[q].op = "status" /\ Strayed(q) = {}
    <2>1. inside[r].step = inside[q].step
        BY <1>4 DEF Strayed
    <2>2. Strayed(r) = {}
        BY <1>4, <2>1 DEF Strayed
    <2>3. inside[q].phase = inside[r].phase
        BY <1>1, <1>4, <2>1 DEF Lockstep, Entered
    <2>4. Failed # {}
        BY <1>2, <1>4, Judged
    <2> QED
        BY <1>1, <1>4, <2>2, <2>3, <2>4 DEF Judge, Verdict
<1>5. CASE inside[q].op # "status"
    <2>1. inside[q].phase = inside[r].phase
        BY <1>1, <1>5, SameTask
    <2>2. inside[q].op \in {"readiness", "verify"} /\ Failed # {}
        BY <1>2, <1>5, Judged
    <2>3. CASE inside[q].op = "readiness"
        BY <1>1, <2>1, <2>2, <2>3 DEF Judge, Verdict
    <2>4. CASE inside[q].op = "verify"
        BY <1>1, <2>1, <2>2, <2>4 DEF Judge, Verdict
    <2> QED
        BY <2>2, <2>3, <2>4
<1> QED
    BY <1>3, <1>4, <1>5


-----------------------------------------------------------------------------
(* The theorem                                                              *)

\* Before its run has begun, a rank's trace says nothing of it.
LEMMA StoryInit == Init => Story
<1> SUFFICES ASSUME Init, NEW r \in Ranks PROVE ~Running(r)
    BY DEF Story
<1> DEFINE p == StartOf(1)
<1>1. session \in Sessions /\ at[r] = p /\ inside[r].op = "outside"
    BY DEF Init, Outside
<1>2. /\ p = Over \/ p \in Alive
      /\ p # Over => p.segment \in Openings /\ p.index = 1
    <2>1. 0 \in Nat /\ 0 + 1 = 1
        OBVIOUS
    <2> QED
        BY <1>1, <2>1, Starts
<1> HIDE DEF p
<1>3. p.segment \notin Solving /\ (p.segment = "admit" => p.index = 1)
    BY <1>2, Beginnings
<1>4. Done(r) = p.index - 1
    BY <1>1 DEF Done
<1> QED
    BY <1>1, <1>3, <1>4 DEF Running

\* What a call answers is settled while ranks enter operations and exchange
\* halo values, and so is what the traces say.
LEMMA StoryUnmoved ==
    ASSUME Story, UNCHANGED <<at, inside, trace>>
    PROVE  Story'
<1>1. \A r \in Ranks : Done(r)' = Done(r)
    BY DEF Done
<1>2. \A r \in Ranks : Running(r)' = Running(r)
    BY <1>1 DEF Running
<1> QED
    BY <1>1, <1>2 DEF Story

\* The ranks that leave an operation add one diagnostic to those of the call.
LEMMA DiagnosticLeave ==
    ASSUME Lockstep, Story, CommonDiagnostic, Met, NEW turn, Leave(turn)
    PROVE  CommonDiagnostic'
<1>1. \A c \in Calls, r \in Ranks :
         answer'[c][r] = IF call[r] = c /\ Judge(r) # Unanswered THEN Judge(r) ELSE answer[c][r]
    BY DEF Leave
<1> SUFFICES ASSUME NEW c \in Calls, NEW q \in Ranks, NEW r \in Ranks,
                    answer'[c][q].kind # "none", answer'[c][r].kind # "none"
             PROVE  \/ answer'[c][q] = answer'[c][r]
                    \/ {answer'[c][q].phase, answer'[c][r].phase} = {"step"}
    BY DEF CommonDiagnostic
<1>2. call[q] = call[r]
    BY DEF Lockstep, SameCall
<1>3. CASE call[r] = c
    <2>1. CASE \A p \in Ranks : Judge(p) = Unanswered
        BY <1>1, <2>1 DEF CommonDiagnostic
    <2>2. CASE \A p \in Ranks : Judge(p) = Accepted
        BY <1>1, <1>2, <1>3, <2>2, Answers
    <2>3. CASE \A p \in Ranks : Judge(p).kind = "rejected"
        <3>1. Judge(q) # Unanswered /\ Judge(r) # Unanswered
            BY <2>3, Answers
        <3>2. answer'[c][q] = Judge(q) /\ answer'[c][r] = Judge(r)
            BY <1>1, <1>2, <1>3, <3>1
        <3>3. Judge(q) = Judge(r) \/ (Judge(q).phase = "step" /\ Judge(r).phase = "step")
            BY <2>3, SameJudgement
        <3> QED
            BY <3>2, <3>3
    <2> QED
        BY <2>1, <2>2, <2>3, MeetingAlike DEF Alike
<1>4. CASE call[r] # c
    <2>1. answer'[c][q] = answer[c][q] /\ answer'[c][r] = answer[c][r]
        BY <1>1, <1>2, <1>4
    <2> QED
        BY <2>1 DEF CommonDiagnostic
<1> QED
    BY <1>3, <1>4

\* Every step keeps the traces as the last part of a run wants them, and adds
\* the same diagnostic on all ranks.
THEOREM DiagnosticStep ==
    Lockstep /\ Story /\ CommonDiagnostic /\ [Next]_vars => Story' /\ CommonDiagnostic'
<1> SUFFICES ASSUME Lockstep, Story, CommonDiagnostic, [Next]_vars
             PROVE  Story' /\ CommonDiagnostic'
    OBVIOUS
<1>1. answer' = answer => CommonDiagnostic'
    BY DEF CommonDiagnostic
<1>2. CASE UNCHANGED vars
    BY <1>1, <1>2, StoryUnmoved DEF vars, place
<1>3. CASE Gather
    <2>1. CASE Forks = {} /\ Leave(at)
        BY <1>3, <2>1, StoryLeave, DiagnosticLeave DEF Gather
    <2>2. ASSUME NEW p \in Forks, Leave([r \in Ranks |-> p])
          PROVE  Story' /\ CommonDiagnostic'
        <3>1. \A r \in Ranks : [q \in Ranks |-> p][r] \in Forks
            OBVIOUS
        <3> QED
            BY <1>3, <2>2, <3>1, StoryLeave, DiagnosticLeave DEF Gather
    <2> QED
        BY <1>3, <2>1, <2>2 DEF Gather
<1>4. ASSUME NEW stray \in Ranks, Drift(stray) PROVE Story' /\ CommonDiagnostic'
    <2>1. PICK p \in Forks, q \in Forks : Leave([r \in Ranks |-> IF r = stray THEN q ELSE p])
        BY <1>4 DEF Drift
    <2> DEFINE turn == [r \in Ranks |-> IF r = stray THEN q ELSE p]
    <2>2. \A r \in Ranks : turn[r] \in Forks
        OBVIOUS
    <2> HIDE DEF turn
    <2>3. Leave(turn)
        BY <2>1 DEF turn
    <2> QED
        BY <1>4, <2>2, <2>3, StoryLeave, DiagnosticLeave DEF Drift
<1>5. ASSUME NEW r \in Ranks, RankStep(r) PROVE Story' /\ CommonDiagnostic'
    <2>1. CASE Enter(r)
        BY <1>1, <2>1, StoryEnter, EnterEffect
    <2>2. CASE LeaveHalo(r)
        BY <1>1, <2>2, StoryLeaveHalo, HaloEffect
    <2>3. ASSUME NEW q \in Ranks, Send(r, q) \/ Receive(q, r) \/ Transfer(r, q)
          PROVE  Story' /\ CommonDiagnostic'
        BY <1>1, <2>3, StoryUnmoved DEF Send, Receive, Transfer, place
    <2> QED
        BY <1>5, <2>1, <2>2, <2>3 DEF RankStep
<1> QED
    BY <1>2, <1>3, <1>4, <1>5 DEF Next, Collective

\* The ranks of a group of any size return the same diagnostic from every call,
\* unless they drifted apart: then all the same refuse (protocol.rs:405).
THEOREM AlwaysCommon == Spec => []CommonDiagnostic
<1>1. Init => Lockstep /\ Story /\ CommonDiagnostic
    <2>1. Init => CommonDiagnostic
        BY DEF Init, CommonDiagnostic
    <2> QED
        BY <2>1, LockstepInit, StoryInit
<1>2. Lockstep /\ Story /\ CommonDiagnostic /\ [Next]_vars
          => Lockstep' /\ Story' /\ CommonDiagnostic'
    BY LockstepStep, DiagnosticStep
<1> QED
    BY <1>1, <1>2, PTL DEF Spec

-----------------------------------------------------------------------------
(* The phases of a run                                                      *)

Four == {"Halo", "LocalAction", "Reduction", "VectorUpdate"}
Setup == {"cgSetup", "minresSetup"}

\* The phases that a part reports, and those that a trace holds.
Spoken(s) == {s[n].phase : n \in {m \in 1..Len(s) : s[m].op = "status"}}
Seen(t) == {t[k].phase : k \in 1..Len(t)}

\* What a part reports, it reports within a longer one.
LEMMA SpokenOn ==
    ASSUME NEW s \in Blocks, NEW t \in Blocks
    PROVE  /\ s \o t \in Blocks
           /\ Spoken(s) \subseteq Spoken(s \o t) /\ Spoken(t) \subseteq Spoken(s \o t)
<1>1. /\ s \o t \in Blocks /\ Len(s \o t) = Len(s) + Len(t)
      /\ \A i \in 1..(Len(s) + Len(t)) :
            (s \o t)[i] = IF i <= Len(s) THEN s[i] ELSE t[i - Len(s)]
    BY Concat
<1>2. Len(s) \in Nat /\ Len(t) \in Nat
    BY DEF Blocks
<1>3. ASSUME NEW n \in 1..Len(s), s[n].op = "status" PROVE s[n].phase \in Spoken(s \o t)
    <2>1. n \in 1..Len(s \o t) /\ (s \o t)[n] = s[n]
        BY <1>1, <1>2
    <2> QED
        BY <1>3, <2>1 DEF Spoken
<1>4. ASSUME NEW n \in 1..Len(t), t[n].op = "status" PROVE t[n].phase \in Spoken(s \o t)
    <2>1. /\ Len(s) + n \in 1..Len(s \o t) /\ (s \o t)[Len(s) + n] = t[n]
        <3>1. ~(Len(s) + n <= Len(s)) /\ (Len(s) + n) - Len(s) = n
            BY <1>2
        <3> QED
            BY <1>1, <1>2, <3>1
    <2> QED
        BY <1>4, <2>1 DEF Spoken
<1> QED
    BY <1>1, <1>3, <1>4 DEF Spoken

\* The true residual goes through all four phases of the iteration.
LEMMA ResidualSpeaks == TrueResidual \in Blocks /\ Four \subseteq Spoken(TrueResidual)
<1>1. Apply \in Blocks /\ {"Halo", "LocalAction"} \subseteq Spoken(Apply)
    <2>1. Apply \in Blocks /\ Len(Apply) = 3
        BY ApplyBlock
    <2>2. Apply[1] = Boundary("Halo") /\ Apply[3] = Boundary("LocalAction")
        BY DEF Apply
    <2>3. /\ Apply[1].op = "status" /\ Apply[1].phase = "Halo"
          /\ Apply[3].op = "status" /\ Apply[3].phase = "LocalAction"
        BY <2>2 DEF Boundary
    <2>4. 1 \in 1..Len(Apply) /\ 3 \in 1..Len(Apply)
        BY <2>1
    <2> QED
        BY <2>1, <2>3, <2>4 DEF Spoken
<1> DEFINE b == <<Boundary("VectorUpdate")>>  c == <<Common("VectorUpdate")>>
<1>2. b \in Blocks /\ c \in Blocks /\ "VectorUpdate" \in Spoken(b)
    <2>1. b \in Blocks /\ c \in Blocks /\ Len(b) = 1
        BY Pairs DEF Begins
    <2>2. b[1].op = "status" /\ b[1].phase = "VectorUpdate" /\ 1 \in 1..Len(b)
        BY <2>1 DEF Boundary
    <2> QED
        BY <2>1, <2>2 DEF Spoken
<1>3. Dot \in Blocks /\ "Reduction" \in Spoken(Dot)
    <2>1. Dot \in Blocks /\ Len(Dot) = 3 /\ Dot[1].op = "status" /\ Dot[1].phase = "Reduction"
        BY DotBlock
    <2>2. 1 \in 1..Len(Dot)
        BY <2>1
    <2> QED
        BY <2>1, <2>2 DEF Spoken
<1>4. Norm = Dot \o c /\ TrueResidual = Apply \o b \o Norm
    BY DEF Norm, TrueResidual
<1> HIDE DEF b, c
<1>5. Norm \in Blocks /\ "Reduction" \in Spoken(Norm)
    BY <1>2, <1>3, <1>4, SpokenOn
<1>6. /\ Apply \o b \in Blocks
      /\ {"Halo", "LocalAction", "VectorUpdate"} \subseteq Spoken(Apply \o b)
    BY <1>1, <1>2, SpokenOn
<1> QED
    BY <1>4, <1>5, <1>6, SpokenOn DEF Four

\* So does the part every solver begins with.
LEMMA SetupSpeaks == \A s \in Setup : Four \subseteq Spoken(Script[s])
<1> DEFINE a == <<Boundary("LocalAction")>>  b == <<Common("VectorUpdate")>>
<1>1. a \in Blocks /\ b \in Blocks /\ Norm \in Blocks
    BY Pairs, Vectors DEF Begins
<1>2. CgStart = a \o TrueResidual \o b \o Norm /\ MinresStart = TrueResidual \o b \o Norm
    BY DEF CgStart, MinresStart
<1> HIDE DEF a, b
<1>3. a \o TrueResidual \in Blocks /\ Four \subseteq Spoken(a \o TrueResidual)
    BY <1>1, ResidualSpeaks, SpokenOn
<1>4. /\ a \o TrueResidual \o b \in Blocks /\ Four \subseteq Spoken(a \o TrueResidual \o b)
      /\ TrueResidual \o b \in Blocks /\ Four \subseteq Spoken(TrueResidual \o b)
    BY <1>1, <1>3, ResidualSpeaks, SpokenOn
<1>5. Four \subseteq Spoken(CgStart) /\ Four \subseteq Spoken(MinresStart)
    BY <1>1, <1>2, <1>4, SpokenOn
<1>6. Script["cgSetup"] = CgStart /\ Script["minresSetup"] = MinresStart
    BY DEF Script
<1> QED
    BY <1>5, <1>6 DEF Setup

\* No trace names an iteration beyond the plan's bound.  A run that has set up its
\* solver has recorded every phase of the iteration, and the receipt is written
\* for phases in order.
Told ==
    /\ \A r \in Ranks : \A k \in 1..Len(trace[r]) : trace[r][k].iteration <= MaxIterations
    /\ \A r \in Ranks :
          /\ at[r].segment \in Setup =>
                \A n \in 1..Done(r) : Script[at[r].segment][n].op = "status" =>
                    Script[at[r].segment][n].phase \in Seen(trace[r])
          /\ at[r].segment \in Solving \ Setup => Four \subseteq Seen(trace[r])
          /\ at[r].segment = "receipt" => PhasesOrdered(trace[r])

\* A trace with all phases and the records of the last part is in order.
LEMMA InOrder ==
    ASSUME NEW t \in Seq(Notes), NEW i, Opened(t), Closing(t, 8, i), Four \subseteq Seen(t),
           \A k \in 1..Len(t) : t[k].iteration <= MaxIterations
    PROVE  PhasesOrdered(t)
<1>1. Len(t) \in Nat /\ Len(t) >= 9
    BY DEF Closing
<1> DEFINE m == Len(t) - 8
<1>2. m \in Nat /\ m >= 1 /\ Len(t) = m + 8
    BY <1>1
<1>3. /\ t[m + 1].phase = "ProducerReport" /\ t[m + 4].phase = "GatherPreparation"
      /\ t[m + 5].phase = "GatherValidation" /\ t[m + 6].phase = "HostAcceptance"
      /\ t[m + 7].phase = "ResultAgreement" /\ t[m + 8].phase = "ResultAgreement"
    BY DEF Closing, Entry, Terminal
<1> HIDE DEF m
<1>4. Four \subseteq ToSet(Phases(t))
    <2>1. DOMAIN Phases(t) = 1..Len(t) /\ \A k \in 1..Len(t) : Phases(t)[k] = t[k].phase
        BY DEF Phases
    <2>2. ToSet(Phases(t)) = {Phases(t)[k] : k \in 1..Len(t)}
        BY <2>1 DEF ToSet
    <2> QED
        BY <2>1, <2>2 DEF Seen
<1>5. Last(t).phase = "ResultAgreement"
    BY <1>2, <1>3 DEF Last
<1>6. \E a \in 1..Len(t) : t[a].phase = "ProducerReport"
       /\ \E b \in (a + 1)..Len(t) : t[b].phase = "GatherPreparation"
          /\ \E c \in (b + 1)..Len(t) : t[c].phase = "GatherValidation"
             /\ \E d \in (c + 1)..Len(t) : t[d].phase = "HostAcceptance"
                /\ \E e \in (d + 1)..Len(t) : t[e].phase = "ResultAgreement"
    <2>1. /\ m + 1 \in 1..Len(t) /\ m + 4 \in ((m + 1) + 1)..Len(t)
          /\ m + 5 \in ((m + 4) + 1)..Len(t) /\ m + 6 \in ((m + 5) + 1)..Len(t)
          /\ m + 7 \in ((m + 6) + 1)..Len(t)
        BY <1>2
    <2> QED
        BY <1>3, <2>1
<1>7. t[1].phase = "Admission"
    BY DEF Opened
<1> QED
    BY <1>4, <1>5, <1>6, <1>7 DEF PhasesOrdered, Four

\* Entering an operation records its phase, in an iteration of the plan.
LEMMA ToldEnter ==
    ASSUME Lockstep, Told, NEW r \in Ranks, Enter(r)
    PROVE  Told'
<1>1. /\ at[r] \in Alive /\ inside[r].op = "outside" /\ Task(at[r]).op # "outside"
      /\ at' = at /\ inside'[r].op = Task(at[r]).op /\ trace'[r] = Recorded(trace[r], at[r])
      /\ \A q \in Ranks : q # r => inside'[q] = inside[q] /\ trace'[q] = trace[q]
    BY EnterEffect
<1>2. /\ Done(r) = at[r].index - 1 /\ Done(r)' = at[r].index /\ at[r].index \in 1..15
      /\ at[r].iteration \in 0..MaxIterations
    BY <1>1 DEF Done, Alive
<1>3. trace[r] \in Seq(Notes) /\ Len(trace[r]) \in Nat
    BY DEF Lockstep, Kinds
<1>4. MaxIterations \in Nat
    BY RankAssumption
<1>5. CASE Task(at[r]).op = "status" /\ ~(at[r].segment = "admit" /\ at[r].index = 2)
    <2> DEFINE x == Record(at[r])  u == Append(trace[r], x)
    <2>1. trace'[r] = u
        BY <1>1, <1>5 DEF Recorded
    <2>2. x.phase = Task(at[r]).phase /\ x.iteration \in {0, at[r].iteration}
        BY DEF Record
    <2>3. /\ Len(u) = Len(trace[r]) + 1 /\ u[Len(trace[r]) + 1] = x
          /\ \A k \in 1..Len(trace[r]) : u[k] = trace[r][k]
        BY <1>3, AppendProperties
    <2> HIDE DEF u, x
    <2>4. \A k \in 1..Len(u) : u[k].iteration <= MaxIterations
        <3>1. x.iteration <= MaxIterations
            BY <1>2, <1>4, <2>2
        <3>2. \A k \in 1..Len(u) : k \in 1..Len(trace[r]) \/ k = Len(trace[r]) + 1
            BY <1>3, <2>3
        <3> QED
            BY <2>3, <3>1, <3>2 DEF Told
    <2>5. Seen(trace[r]) \subseteq Seen(u) /\ Task(at[r]).phase \in Seen(u)
        <3>1. Len(trace[r]) + 1 \in 1..Len(u) /\ 1..Len(trace[r]) \subseteq 1..Len(u)
            BY <1>3, <2>3
        <3> QED
            BY <2>2, <2>3, <3>1 DEF Seen
    <2>6. at[r].segment \in Solving \cup {"admit"}
        BY <1>1, <1>5, StatusPlaces
    <2>7. ASSUME at[r].segment \in Setup, NEW n \in 1..at[r].index,
                 Script[at[r].segment][n].op = "status"
          PROVE  Script[at[r].segment][n].phase \in Seen(u)
        <3>1. CASE n = at[r].index
            BY <2>5, <3>1 DEF Task
        <3>2. CASE n # at[r].index
            <4>1. n \in 1..Done(r)
                BY <1>2, <3>2
            <4> QED
                BY <2>5, <2>7, <4>1 DEF Told
        <3> QED
            BY <3>1, <3>2
    <2>8. at[r].segment # "receipt"
        BY <2>6 DEF Solving
    <2>9. ASSUME NEW q \in Ranks, q # r PROVE Done(q)' = Done(q)
        BY <1>1, <2>9 DEF Done
    <2> QED
        BY <1>1, <1>2, <2>1, <2>4, <2>5, <2>7, <2>8, <2>9 DEF Told
<1>6. CASE at[r].segment = "admit" /\ at[r].index = 2
    <2>1. trace'[r] = <<[phase |-> "Admission", iteration |-> 0]>>
        BY <1>1, <1>6 DEF Recorded
    <2>2. \A k \in 1..Len(trace'[r]) : trace'[r][k].iteration <= MaxIterations
        <3>1. 0 <= MaxIterations
            BY <1>4
        <3> QED
            BY <2>1, <3>1
    <2>3. at[r].segment \notin Setup /\ at[r].segment \notin Solving /\ at[r].segment # "receipt"
        BY <1>6 DEF Setup, Solving
    <2>4. ASSUME NEW q \in Ranks, q # r PROVE Done(q)' = Done(q)
        BY <1>1, <2>4 DEF Done
    <2> QED
        BY <1>1, <2>2, <2>3, <2>4 DEF Told
<1>7. CASE Task(at[r]).op # "status" /\ ~(at[r].segment = "admit" /\ at[r].index = 2)
    <2>1. \A q \in Ranks : trace'[q] = trace[q]
        BY <1>1, <1>7 DEF Recorded
    <2>2. ASSUME at[r].segment \in Setup, NEW n \in 1..at[r].index,
                 Script[at[r].segment][n].op = "status"
          PROVE  Script[at[r].segment][n].phase \in Seen(trace[r])
        <3>1. n # at[r].index
            BY <1>7, <2>2 DEF Task
        <3>2. n \in 1..Done(r)
            BY <1>2, <3>1
        <3> QED
            BY <2>2, <3>2 DEF Told
    <2>3. ASSUME NEW q \in Ranks, q # r PROVE Done(q)' = Done(q)
        BY <1>1, <2>3 DEF Done
    <2> QED
        BY <1>1, <1>2, <2>1, <2>2, <2>3 DEF Told
<1> QED
    BY <1>5, <1>6, <1>7

\* The halo exchange records nothing.
LEMMA ToldLeaveHalo ==
    ASSUME Lockstep, Told, NEW r \in Ranks, LeaveHalo(r)
    PROVE  Told'
<1>1. /\ at[r] \in Alive /\ Task(at[r]).op = "halo" /\ inside[r].op = "outside"
      /\ inside' = inside /\ trace' = trace /\ at'[r].segment = at[r].segment
      /\ at'[r].index = at[r].index + 1
      /\ \A q \in Ranks : q # r => at'[q] = at[q]
    BY HaloEffect
<1>2. Done(r) = at[r].index - 1 /\ Done(r)' = at'[r].index - 1 /\ at[r].index \in 1..15
    BY <1>1 DEF Done, Alive
<1>3. Done(r)' = at[r].index
    <2>1. \A k \in 1..15 : (k + 1) - 1 = k
        OBVIOUS
    <2> QED
        BY <1>1, <1>2, <2>1
<1>4. ASSUME at[r].segment \in Setup, NEW n \in 1..at[r].index,
             Script[at[r].segment][n].op = "status"
      PROVE  Script[at[r].segment][n].phase \in Seen(trace[r])
    <2>1. n # at[r].index
        BY <1>1, <1>4 DEF Task
    <2>2. n \in 1..Done(r)
        BY <1>2, <2>1
    <2> QED
        BY <1>4, <2>2 DEF Told
<1>5. ASSUME NEW q \in Ranks, q # r PROVE Done(q)' = Done(q)
    BY <1>1, <1>5 DEF Done
<1> QED
    BY <1>1, <1>3, <1>4, <1>5 DEF Told

\* Where a run may go on from a part.
LEMMA Onwards ==
    ASSUME NEW p \in Alive, NEW x \in Onward(p)
    PROVE  /\ p.segment = "admit" => x.segment \in Setup
           /\ x.segment = "receipt" => p.segment = "finish"
<1>1. CASE p.segment \in {"devices", "admit", "finish"}
    BY <1>1 DEF Onward, Place, Setup
<1>2. CASE p.segment \notin {"devices", "admit", "finish"}
    <2>1. \/ x \in CgOnward(p)
          \/ x \in MinresOnward(p) /\ p.segment \in {"minresSetup", "minresIterate", "converged"}
        BY <1>2 DEF Onward, Alive, CgFamily
    <2>2. \A i : NextIteration(i).segment \in {"stopped", "cgIterate", "minresIterate"}
        BY DEF NextIteration, Place
    <2>3. \A t, i : Place(t, i).segment = t
        BY DEF Place
    <2>4. CASE x \in CgOnward(p)
        <3> DEFINE Known(y) ==
                \/ \E i : y = NextIteration(i)
                \/ \E i, t : y = Place(t, i) /\ t \in {"finish", "cgFirst", "converged",
                                                    "cgDirection", "cgRestart"}
        <3>1. ASSUME NEW t \in {"finish", "cgFirst", "converged", "cgDirection", "cgRestart"},
                     NEW i
              PROVE  Known(Place(t, i))
            OBVIOUS
        <3>2. ASSUME NEW i PROVE Known(NextIteration(i))
            OBVIOUS
        <3>3. Known(x)
            <4> HIDE DEF Known
            <4>1. CASE p.segment = "cgSetup"
                <5>1. CgOnward(p) = {Place("finish", 0), Place("cgFirst", 0)}
                    BY <4>1 DEF CgOnward
                <5> QED
                    BY <2>4, <3>1, <5>1
            <4>2. CASE p.segment = "cgIterate"
                <5>1. CgOnward(p) = {Place("converged", p.iteration),
                                     Place("cgDirection", p.iteration)}
                    BY <4>2 DEF CgOnward
                <5> QED
                    BY <2>4, <3>1, <5>1
            <4>3. CASE p.segment = "converged"
                <5>1. CgOnward(p) = {Place("finish", p.iteration),
                                     Place("cgRestart", p.iteration)}
                    BY <4>3 DEF CgOnward
                <5> QED
                    BY <2>4, <3>1, <5>1
            <4>4. CASE p.segment \notin {"cgSetup", "cgIterate", "converged"}
                <5>1. CgOnward(p) = {NextIteration(p.iteration)}
                    BY <4>4 DEF CgOnward
                <5> QED
                    BY <2>4, <3>2, <5>1
            <4> QED
                BY <4>1, <4>2, <4>3, <4>4
        <3> QED
            BY <1>2, <2>2, <2>3, <3>3
    <2>5. CASE x \in MinresOnward(p) /\ p.segment \in {"minresSetup", "minresIterate", "converged"}
        <3>1. CASE p.segment = "minresSetup"
            <4>1. x \in {Place("finish", 0), NextIteration(0)}
                BY <2>5, <3>1 DEF MinresOnward
            <4> QED
                BY <1>2, <2>2, <2>3, <4>1
        <3>2. CASE p.segment \in {"minresIterate", "converged"}
            <4>1. x \in {Place("finish", p.iteration), Place("converged", p.iteration),
                         Place("stopped", p.iteration), NextIteration(p.iteration)}
                BY <2>5, <3>2 DEF MinresOnward
            <4> QED
                BY <1>2, <2>2, <2>3, <4>1
        <3> QED
            BY <2>5, <3>1, <3>2
    <2> QED
        BY <2>1, <2>4, <2>5
<1> QED
    BY <1>1, <1>2

\* A part that is complete has reported what the next one counts on.
LEMMA ToldLeave ==
    ASSUME Lockstep, Story, Told, Met, NEW turn, Leave(turn),
           \A r \in Ranks : Forks = {} \/ turn[r] \in Forks
    PROVE  Told'
<1>1. trace' = trace /\ \A r \in Ranks : inside'[r].op = "outside"
    BY DEF Leave, Outside
<1>2. \A r \in Ranks : \A k \in 1..Len(trace'[r]) : trace'[r][k].iteration <= MaxIterations
    BY <1>1 DEF Told
<1> DEFINE Covered(r) ==
          /\ at'[r].segment \in Setup =>
                \A n \in 1..Done(r)' : Script[at'[r].segment][n].op = "status" =>
                    Script[at'[r].segment][n].phase \in Seen(trace[r])
          /\ at'[r].segment \in Solving \ Setup => Four \subseteq Seen(trace[r])
          /\ at'[r].segment = "receipt" => PhasesOrdered(trace[r])
<1>3. SUFFICES ASSUME NEW r \in Ranks PROVE Covered(r)
    BY <1>1, <1>2 DEF Told
<1>4. Done(r)' = at'[r].index - 1
    BY <1>1 DEF Done
<1>5. CASE \/ \A q \in Ranks : Judge(q).kind = "rejected"
           \/ \A q \in Ranks : Judge(q) = Accepted
    <2>1. PICK n \in Nat, p \in Alive \cup {Over} :
             /\ \A q \in Ranks : call'[q] = n /\ at'[q] = p
             /\ p # Over => p.segment \in Openings /\ p.index = 1
        BY <1>5, NextCall
    <2>2. at'[r].segment \in Openings \cup {"over"}
        BY <2>1 DEF Over, Place
    <2> QED
        BY <2>2 DEF Openings, Setup, Solving
<1>6. CASE \A q \in Ranks : Judge(q) = Unanswered
    <2>1. at[r] \in Alive /\ Done(r) = at[r].index /\ at[r].index \in 1..15
        BY <1>6, NextPlace DEF Alive
    <2>2. CASE ~AtEnd(r)
        <3>1. at'[r].segment = at[r].segment /\ at'[r].index = at[r].index + 1
            BY <1>6, <2>2, NextPlace
        <3>2. Done(r)' = Done(r)
            <4>1. \A k \in 1..15 : (k + 1) - 1 = k
                OBVIOUS
            <4> QED
                BY <1>4, <2>1, <3>1, <4>1
        <3> QED
            BY <3>1, <3>2 DEF Told
    <2>3. CASE AtEnd(r)
        <3>1. /\ at'[r].index = 1
              /\ at'[r].segment \in Solving => at[r].segment \in Solving \cup {"admit"}
            BY <1>6, <2>3, NextPlace
        <3>2. Done(r)' = 0
            BY <1>4, <3>1
        <3>3. at'[r] \in Onward(at[r]) \/ at'[r] = Place("evidence", at[r].iteration)
            <4>1. at'[r] \in Successors(r)
                BY <1>6, OwnWay
            <4> QED
                BY <2>1, <2>3, <4>1, Steps
        <3>4. at[r].index = Len(Script[at[r].segment])
            BY <2>3 DEF AtEnd
        <3>5. ASSUME at'[r].segment \in Solving \ Setup PROVE Four \subseteq Seen(trace[r])
            <4>1. at'[r] \in Onward(at[r])
                BY <3>3, <3>5 DEF Solving, Place
            <4>2. at[r].segment \in Solving
                BY <2>1, <3>1, <3>5, <4>1, Onwards
            <4>3. CASE at[r].segment \in Setup
                <5>1. Four \subseteq Spoken(Script[at[r].segment])
                    BY <4>3, SetupSpeaks
                <5>2. Spoken(Script[at[r].segment]) \subseteq Seen(trace[r])
                    BY <2>1, <3>4, <4>3 DEF Told, Spoken
                <5> QED
                    BY <5>1, <5>2
            <4> QED
                BY <4>2, <4>3 DEF Told
        <3>6. ASSUME at'[r].segment = "receipt" PROVE PhasesOrdered(trace[r])
            <4>1. at'[r] \in Onward(at[r])
                BY <3>3, <3>6 DEF Place
            <4>2. at[r].segment = "finish"
                BY <2>1, <3>6, <4>1, Onwards
            <4>3. Done(r) = 12
                BY <2>1, <3>4, <4>2, FinishBegins DEF Begins
            <4>4. Running(r) /\ Said[12] = 8
                BY <4>2 DEF Running, Solving, Said
            <4>5. Opened(trace[r]) /\ Closing(trace[r], 8, at[r].iteration)
                BY <4>2, <4>3, <4>4 DEF Story
            <4>6. Four \subseteq Seen(trace[r])
                BY <4>2 DEF Told, Solving, Setup
            <4>7. trace[r] \in Seq(Notes)
                BY DEF Lockstep, Kinds
            <4> QED
                BY <4>5, <4>6, <4>7, InOrder DEF Told
        <3>7. at'[r].segment \in Setup => \A n \in 1..Done(r)' : FALSE
            BY <3>2
        <3> QED
            BY <3>5, <3>6, <3>7
    <2> QED
        BY <2>2, <2>3
<1> QED
    BY <1>5, <1>6, MeetingAlike DEF Alike

\* Halo messages do not touch the traces, and before a run they are empty.
LEMMA ToldUnmoved ==
    ASSUME Told, UNCHANGED <<at, inside, trace>>
    PROVE  Told'
<1>1. \A r \in Ranks : Done(r)' = Done(r)
    BY DEF Done
<1> QED
    BY <1>1 DEF Told

LEMMA ToldInit == ASSUME Init PROVE Told
<1>1. session \in Sessions /\ \A r \in Ranks : at[r] = StartOf(1) /\ trace[r] = <<>>
    BY DEF Init
<1>2. StartOf(1).segment \in Openings \cup {"over"}
    <2>1. 0 \in Nat /\ 0 + 1 = 1
        OBVIOUS
    <2>2. StartOf(1) = Over \/ StartOf(1).segment \in Openings
        BY <1>1, <2>1, Starts
    <2> QED
        BY <2>2 DEF Over, Place
<1>3. StartOf(1).segment \notin Setup \cup Solving \cup {"receipt"}
    BY <1>2 DEF Openings, Setup, Solving
<1>4. \A r \in Ranks : Len(trace[r]) = 0
    BY <1>1
<1> QED
    BY <1>1, <1>3, <1>4 DEF Told

\* So no rank is ever refused its own trace: accept_distributed never fails.
LEMMA NeverRefused == ASSUME Told, NEW r \in Ranks PROVE ~TraceRefused(r)
BY DEF Told, TraceRefused

-----------------------------------------------------------------------------
(* What went wrong, and who knows of it                                     *)

\* Ranks that have computed different scalars.
Divided == Paired \/ Doomed

\* Ranks are in calls of the session, which nobody has answered yet, and nothing
\* went wrong in a later one.
Ledger ==
    /\ \A r \in Ranks : at[r] # Over => call[r] \in 1..Len(session.calls)
    /\ \A c \in Calls : \A q, r \in Ranks : call[r] <= c => answer[c][q].kind = "none"
    /\ spoiled \subseteq Calls /\ \A c \in spoiled : \A r \in Ranks : c <= call[r]
    /\ DOMAIN faults = Calls /\ \A c \in Calls : faults[c] \in Nat
    /\ DOMAIN agreed = Ranks

\* A rank inside a boundary has named its step, and one that reports a failure
\* has reason to, and is where the others look at it.
Declared ==
    \A r \in Ranks :
        /\ inside[r].op # "outside" =>
              /\ agreed[r]
              /\ Task(at[r]).op = "status" =>
                    inside[r].step = <<Record(at[r]).phase, Record(at[r]).iteration,
                                       Len(trace[r]) - 1>>
              /\ Task(at[r]).op # "status" => inside[r].step = <<>>
              /\ ~inside[r].ok => call[r] \in spoiled /\ Task(at[r]).op # "plain"
        /\ inside[r].op = "outside" => inside[r].ok

\* A comparison that failed is reported next.
Compared ==
    \A r \in Ranks : ~agreed[r] =>
        at[r] \in Alive /\ Task(at[r]).op \in {"status", "readiness"}

\* Ranks divide only in a call that is spoiled, and in a spoiled call they are
\* divided, one of them reports a failure, or all have seen that they disagree.
Parted == Divided => \A r \in Ranks : call[r] \in spoiled
Marked == \A r \in Ranks : call[r] \in spoiled =>
              Divided \/ Failed # {} \/ \E q \in Ranks : ~agreed[q]

Account == Ledger /\ Declared /\ Compared /\ Parted /\ Marked

\* The calls of a session are calls.
LEMMA CallsOfSession ==
    ASSUME Lockstep, NEW c \in 1..Len(session.calls) PROVE c \in Calls
BY DEF Lockstep, Kinds, Calls

\* What a rank that enters an operation reports there.
LEMMA EnterReport ==
    ASSUME Lockstep, Told, Ledger, Compared, NEW r \in Ranks, Enter(r)
    PROVE  /\ call[r] \in Calls
           /\ Task(at[r]).op = "status" =>
                 /\ inside'[r].step = <<Record(at[r]).phase, Record(at[r]).iteration,
                                        Len(trace'[r]) - 1>>
           /\ Task(at[r]).op # "status" => inside'[r].step = <<>>
           /\ inside'[r].ok => spoiled' = spoiled
           /\ ~inside'[r].ok => spoiled' = spoiled \cup {call[r]} /\ Task(at[r]).op # "plain"
           /\ ~agreed[r] => ~inside'[r].ok
           /\ DOMAIN faults' = Calls /\ \A c \in Calls : faults'[c] \in Nat
           /\ DOMAIN agreed' = Ranks /\ agreed'[r]
           /\ \A q \in Ranks : q # r => agreed'[q] = agreed[q]
<1>1. /\ at[r] \in Alive /\ Instruction(r) = Task(at[r])
      /\ trace'[r] = Recorded(trace[r], at[r])
    BY EnterEffect DEF Instruction, Task
<1>2. ~Full(r)
    BY NeverFull DEF Enter
<1>3. PICK ok \in Results(r) :
          /\ inside' = [inside EXCEPT ![r] =
                [op |-> Instruction(r).op, phase |-> Instruction(r).phase,
                 step |-> IF Instruction(r).op = "status" THEN Step(r) ELSE <<>>,
                 ok |-> ok]]
          /\ spoiled' = IF ok \/ TraceRefused(r) THEN spoiled ELSE spoiled \cup {call[r]}
          /\ faults' = IF \/ ok \/ Bound(r) \/ TraceRefused(r)
                          \/ Instruction(r).shared /\ Mates(r) # {}
                       THEN faults ELSE [faults EXCEPT ![call[r]] = @ + 1]
    BY <1>2 DEF Enter, Contribute
<1>4. inside'[r].ok = ok /\ inside'[r].step = IF Instruction(r).op = "status" THEN Step(r) ELSE <<>>
    BY <1>3 DEF Lockstep, Kinds
<1>5. call[r] \in Calls
    BY <1>1, AliveNotOver, CallsOfSession DEF Ledger
<1>6. ~TraceRefused(r)
    BY NeverRefused
<1>7. ASSUME Task(at[r]).op = "status"
      PROVE  inside'[r].step = <<Record(at[r]).phase, Record(at[r]).iteration,
                                 Len(trace'[r]) - 1>>
    <2>1. inside'[r].step = <<Record(at[r]).phase, Record(at[r]).iteration, Len(trace[r])>>
        BY <1>1, <1>4, <1>7 DEF Step, Record
    <2>2. at[r].segment \in Solving \/ at[r].index = 4
        BY <1>1, <1>7, StatusPlaces
    <2>3. ~(at[r].segment = "admit" /\ at[r].index = 2)
        BY <2>2 DEF Solving
    <2>4. trace'[r] = Append(trace[r], Record(at[r]))
        BY <1>1, <1>7, <2>3 DEF Recorded
    <2>5. PICK k \in Nat : Len(trace[r]) = k
        BY DEF Lockstep, Kinds
    <2>6. Len(trace'[r]) = k + 1
        BY <2>4, <2>5, AppendProperties DEF Lockstep, Kinds
    <2>7. (k + 1) - 1 = k
        OBVIOUS
    <2> QED
        BY <2>1, <2>5, <2>6, <2>7
<1>8. ASSUME Task(at[r]).op = "plain" PROVE ok
    <2>1. agreed[r]
        BY <1>8 DEF Compared
    <2>2. ~(at[r].segment = "stopped" /\ AtEnd(r))
        <3>1. ASSUME at[r].segment = "stopped", AtEnd(r) PROVE FALSE
            <4>1. at[r].index = 9 /\ Script.stopped[9].op = "status"
                BY <3>1, StoppedBegins DEF AtEnd, Begins, Boundary
            <4> QED
                BY <1>8, <3>1, <4>1 DEF Task
        <3> QED
            BY <3>1
    <2>3. Results(r) = {TRUE}
        BY <1>1, <1>6, <1>8, <2>1, <2>2 DEF Results, Bound
    <2> QED
        BY <1>3, <2>3
<1>9. ASSUME ~agreed[r] PROVE ~ok
    <2>1. Results(r) = {FALSE}
        BY <1>9 DEF Results, Bound
    <2> QED
        BY <1>3, <2>1
<1>10. DOMAIN faults' = Calls /\ \A c \in Calls : faults'[c] \in Nat
    BY <1>3, <1>5 DEF Ledger
<1>11. /\ DOMAIN agreed' = Ranks /\ agreed'[r]
       /\ \A q \in Ranks : q # r => agreed'[q] = agreed[q]
    BY DEF Enter, Ledger
<1>12. /\ ok => spoiled' = spoiled
       /\ ~ok => spoiled' = spoiled \cup {call[r]}
    BY <1>3, <1>6
<1>13. Task(at[r]).op # "status" => inside'[r].step = <<>>
    BY <1>1, <1>4
<1> QED
    BY <1>4, <1>5, <1>7, <1>8, <1>9, <1>10, <1>11, <1>12, <1>13

\* Whether the ranks are divided is a matter of where they are.
LEMMA DividedFrame ==
    ASSUME at' = at, session' = session PROVE Divided' <=> Divided
BY DEF Divided, Paired, Doomed, Alive

\* Entering an operation keeps account of what went wrong.
LEMMA AccountEnter ==
    ASSUME Lockstep, Told, Account, NEW r \in Ranks, Enter(r)
    PROVE  Account'
<1>1. /\ at[r] \in Alive /\ inside[r].op = "outside" /\ Task(at[r]).op # "outside"
      /\ at' = at /\ call' = call /\ session' = session /\ answer' = answer
      /\ inside'[r].op = Task(at[r]).op
      /\ \A q \in Ranks : q # r => inside'[q] = inside[q] /\ trace'[q] = trace[q]
    BY EnterEffect
<1>2. /\ call[r] \in Calls
      /\ Task(at[r]).op = "status" =>
            /\ inside'[r].step = <<Record(at[r]).phase, Record(at[r]).iteration,
                                   Len(trace'[r]) - 1>>
      /\ Task(at[r]).op # "status" => inside'[r].step = <<>>
      /\ inside'[r].ok => spoiled' = spoiled
      /\ ~inside'[r].ok => spoiled' = spoiled \cup {call[r]} /\ Task(at[r]).op # "plain"
      /\ ~agreed[r] => ~inside'[r].ok
      /\ DOMAIN faults' = Calls /\ \A c \in Calls : faults'[c] \in Nat
      /\ DOMAIN agreed' = Ranks /\ agreed'[r]
      /\ \A q \in Ranks : q # r => agreed'[q] = agreed[q]
    BY EnterReport DEF Account
<1>3. PICK n \in Nat : \A q \in Ranks : call[q] = n
    BY DEF Lockstep, SameCall, Kinds
<1>4. spoiled \subseteq spoiled' /\ spoiled' \subseteq spoiled \cup {call[r]}
    BY <1>2
<1>5. Ledger'
    <2>1. \A c \in spoiled' : c \in Calls /\ \A q \in Ranks : c <= call[q]
        <3>1. n <= n
            BY <1>3
        <3>2. \A q \in Ranks : call[r] <= call[q]
            BY <1>3, <3>1
        <3> QED
            BY <1>2, <1>4, <3>2 DEF Account, Ledger
    <2>2. \A c \in Calls : \A q, p \in Ranks : call[p] <= c => answer[c][q].kind = "none"
        BY DEF Account, Ledger
    <2>3. \A q \in Ranks : at[q] # Over => call[q] \in 1..Len(session.calls)
        BY DEF Account, Ledger
    <2> QED
        BY <1>1, <1>2, <2>1, <2>2, <2>3 DEF Ledger
<1>6. Declared'
    <2>1. ASSUME NEW q \in Ranks, q # r
          PROVE  /\ inside[q].op # "outside" =>
                      /\ agreed[q]
                      /\ Task(at[q]).op = "status" =>
                            inside[q].step = <<Record(at[q]).phase, Record(at[q]).iteration,
                                               Len(trace[q]) - 1>>
                      /\ Task(at[q]).op # "status" => inside[q].step = <<>>
                      /\ ~inside[q].ok => call[q] \in spoiled' /\ Task(at[q]).op # "plain"
                 /\ inside[q].op = "outside" => inside[q].ok
        BY <1>4, <2>1 DEF Account, Declared
    <2> QED
        BY <1>1, <1>2, <2>1 DEF Declared
<1>7. Compared'
    <2>1. \A q \in Ranks : ~agreed'[q] => ~agreed[q]
        BY <1>2
    <2>2. Alive' = Alive
        BY <1>1 DEF Alive
    <2> QED
        BY <1>1, <2>1, <2>2 DEF Account, Compared
<1>8. Parted'
    BY <1>1, <1>4, DividedFrame DEF Account, Parted
<1>9. Marked'
    <2>1. Failed # {} => Failed' # {}
        <3>1. r \notin Failed
            BY <1>1 DEF Account, Declared, Failed
        <3> QED
            BY <1>1, <3>1 DEF Failed
    <2>2. ~inside'[r].ok => Failed' # {}
        BY DEF Failed
    <2>3. (\E q \in Ranks : ~agreed[q]) => Failed' # {} \/ \E q \in Ranks : ~agreed'[q]
        BY <1>2, <2>2
    <2>4. ASSUME NEW q \in Ranks, call[q] \in spoiled'
          PROVE  Divided' \/ Failed' # {} \/ \E p \in Ranks : ~agreed'[p]
        <3>1. CASE ~inside'[r].ok
            BY <2>2, <3>1
        <3>2. CASE inside'[r].ok
            <4>1. Divided \/ Failed # {} \/ \E p \in Ranks : ~agreed[p]
                BY <1>2, <2>4, <3>2 DEF Account, Marked
            <4> QED
                BY <1>1, <2>1, <2>3, <4>1, DividedFrame
        <3> QED
            BY <3>1, <3>2
    <2> QED
        BY <1>1, <2>4 DEF Marked
<1> QED
    BY <1>5, <1>6, <1>7, <1>8, <1>9 DEF Account

\* Leaving the halo exchange neither divides the ranks nor brings them together.
LEMMA DividedHalo ==
    ASSUME Lockstep, NEW r \in Ranks, LeaveHalo(r)
    PROVE  Divided' <=> Divided
<1>1. /\ at[r] \in Alive /\ Task(at[r]).op = "halo" /\ session' = session
      /\ at'[r] \in Alive /\ at'[r].segment = at[r].segment /\ at'[r].iteration = at[r].iteration
      /\ \A q \in Ranks : Ahead(at'[q]) = Ahead(at[q])
      /\ \A q \in Ranks : q # r => at'[q] = at[q]
    BY HaloEffect
<1>2. Alive' = Alive
    BY <1>1 DEF Alive
<1>3. \A q \in Ranks : /\ at'[q] \in Alive <=> at[q] \in Alive
                       /\ at'[q].segment = at[q].segment /\ at'[q].iteration = at[q].iteration
    BY <1>1
<1>4. Paired' <=> Paired
    BY <1>1, <1>2, <1>3 DEF Paired
<1>5. ~Doomed
    BY <1>1 DEF Doomed
<1>6. ASSUME Doomed' PROVE Paired
    <2>1. \A q \in Ranks : at'[q] \in Alive /\ Task(at'[q]).op = "status"
        BY <1>2, <1>6 DEF Doomed
    <2>2. \A q \in Ranks : Ahead(at'[q]) = at'[q]
        BY <2>1 DEF Ahead
    <2>3. SUFFICES ASSUME Together PROVE FALSE
        BY <1>5 DEF Lockstep, Modes
    <2>4. \A p, q \in Ranks : at'[p] = at'[q]
        BY <1>1, <2>2, <2>3 DEF Together
    <2> QED
        BY <1>6, <2>4 DEF Doomed
<1> QED
    BY <1>4, <1>5, <1>6 DEF Divided

\* The halo exchange spoils nothing.
LEMMA AccountLeaveHalo ==
    ASSUME Lockstep, Account, NEW r \in Ranks, LeaveHalo(r)
    PROVE  Account'
<1>1. /\ at[r] \in Alive /\ Task(at[r]).op = "halo" /\ inside[r].op = "outside"
      /\ at'[r] \in Alive /\ session' = session /\ call' = call /\ inside' = inside
      /\ trace' = trace /\ answer' = answer
      /\ \A q \in Ranks : q # r => at'[q] = at[q]
    BY HaloEffect
<1>2. agreed' = agreed /\ spoiled' = spoiled /\ faults' = faults
    BY DEF LeaveHalo
<1>3. at[r] # Over
    BY <1>1, AliveNotOver
<1>4. Ledger'
    <2>1. \A q \in Ranks : at'[q] # Over => call[q] \in 1..Len(session.calls)
        BY <1>1, <1>3 DEF Account, Ledger
    <2> QED
        BY <1>1, <1>2, <2>1 DEF Account, Ledger
<1>5. Declared'
    <2>1. ASSUME NEW q \in Ranks
          PROVE  /\ inside[q].op # "outside" =>
                      /\ agreed[q]
                      /\ Task(at'[q]).op = "status" =>
                            inside[q].step = <<Record(at'[q]).phase, Record(at'[q]).iteration,
                                               Len(trace[q]) - 1>>
                      /\ Task(at'[q]).op # "status" => inside[q].step = <<>>
                      /\ ~inside[q].ok => call[q] \in spoiled /\ Task(at'[q]).op # "plain"
                 /\ inside[q].op = "outside" => inside[q].ok
        BY <1>1 DEF Account, Declared
    <2> QED
        BY <1>1, <1>2, <2>1 DEF Declared
<1>6. Compared'
    <2>1. agreed[r]
        BY <1>1 DEF Account, Compared
    <2>2. Alive' = Alive
        BY <1>1 DEF Alive
    <2> QED
        BY <1>1, <1>2, <2>1, <2>2 DEF Account, Compared
<1>7. Failed' = Failed
    BY <1>1 DEF Failed
<1> QED
    BY <1>1, <1>2, <1>4, <1>5, <1>6, <1>7, DividedHalo DEF Account, Parted, Marked

\* So do halo messages.
LEMMA AccountUnmoved ==
    ASSUME Account, UNCHANGED <<session, call, at, inside, agreed, trace, answer, spoiled, faults>>
    PROVE  Account'
<1>1. Alive' = Alive
    BY DEF Alive
<1>2. Failed' = Failed
    BY DEF Failed
<1>3. Divided' <=> Divided
    BY DividedFrame
<1> QED
    BY <1>1, <1>2, <1>3 DEF Account, Ledger, Declared, Compared, Parted, Marked

\* Nothing has gone wrong initially, and all begin at the same place.
LEMMA AccountInit == ASSUME Init PROVE Account
<1>1. /\ session \in Sessions /\ spoiled = {} /\ DOMAIN faults = Calls /\ DOMAIN agreed = Ranks
      /\ \A c \in Calls : faults[c] = 0 /\ \A r \in Ranks : answer[c][r].kind = "none"
      /\ \A r \in Ranks : /\ call[r] = 1 /\ at[r] = StartOf(1) /\ agreed[r]
                          /\ inside[r].op = "outside" /\ inside[r].ok
    BY DEF Init, Outside, Unanswered
<1>2. Len(session.calls) \in Nat
    BY <1>1, SessionAssumption
<1>3. Ledger
    <2>1. StartOf(1) # Over => 1 \in 1..Len(session.calls)
        BY <1>2 DEF StartOf
    <2> QED
        BY <1>1, <2>1 DEF Ledger
<1>4. ~Divided
    <2>1. \A q, r \in Ranks : at[q] = at[r]
        BY <1>1
    <2>2. PICK r \in Ranks : TRUE
        BY RankAssumption
    <2>3. ~Paired
        BY <2>1, <2>2 DEF Paired
    <2>4. ~Doomed
        BY <2>1 DEF Doomed
    <2> QED
        BY <2>3, <2>4 DEF Divided
<1>5. Declared /\ Compared
    BY <1>1 DEF Declared, Compared
<1> QED
    BY <1>1, <1>3, <1>4, <1>5 DEF Account, Parted, Marked

\* Ranks that are all at the same place are not divided.
LEMMA SamePlace ==
    ASSUME NEW p, \A r \in Ranks : at'[r] = p PROVE ~Divided'
<1>1. PICK r \in Ranks : TRUE
    BY RankAssumption
<1>2. ~Paired'
    BY <1>1 DEF Paired
<1>3. ~Doomed'
    BY DEF Doomed
<1> QED
    BY <1>2, <1>3 DEF Divided

-----------------------------------------------------------------------------
(* The verdict of a meeting                                                 *)

\* Ranks that go on together have reported the same steps.
LEMMA NoneStrays ==
    ASSUME Lockstep, Declared, Met, Together, NEW r \in Ranks
    PROVE  Strayed(r) = {}
<1>1. ASSUME NEW q \in Ranks PROVE inside[q].step = inside[r].step
    <2>1. \A s \in Ranks : /\ at[s] \in Alive /\ Ahead(at[s]) = at[s]
                           /\ inside[s].op # "outside"
        BY AheadFacts DEF Lockstep, Entered, Met
    <2>2. at[q] = at[r]
        BY <2>1 DEF Together
    <2>3. CASE Task(at[r]).op = "status"
        <3>1. InRun(at[r])
            <4>1. at[r].segment \in Solving \/ (at[r].segment = "admit" /\ at[r].index = 4)
                BY <2>1, <2>3, StatusPlaces
            <4>2. 4 >= 2
                OBVIOUS
            <4> QED
                BY <4>1, <4>2 DEF InRun
        <3>2. trace[q] = trace[r]
            BY <2>1, <3>1 DEF Together, Coming
        <3> QED
            BY <2>1, <2>2, <2>3, <3>2 DEF Declared
    <2>4. CASE Task(at[r]).op # "status"
        BY <2>1, <2>2, <2>4 DEF Declared
    <2> QED
        BY <2>3, <2>4
<1> QED
    BY <1>1 DEF Strayed

\* A call is refused only if something went wrong.
LEMMA RefusedForReason ==
    ASSUME Lockstep, Story, Account, Met, NEW r \in Ranks, call[r] \notin spoiled
    PROVE  Judge(r).kind # "rejected"
<1>1. \A q \in Ranks : call[q] \notin spoiled
    BY DEF Lockstep, SameCall
<1>2. Failed = {}
    BY <1>1 DEF Account, Declared, Failed, Met
<1>3. Together
    BY <1>1 DEF Account, Parted, Divided, Lockstep, Modes
<1>4. Strayed(r) = {}
    BY <1>3, NoneStrays DEF Account
<1>5. Judge(r) = Outcome(r)
    BY <1>2, <1>4, Judged
<1>6. ~(AtEnd(r) /\ at[r].segment = "finish" /\ ~TraceSound(trace[r], at[r].iteration))
    BY TraceAccepted DEF Met
<1> QED
    BY <1>5, <1>6, Answers DEF Outcome

\* A spoiled call is not complete: what went wrong is still to be reported.
LEMMA AcceptedForReason ==
    ASSUME Lockstep, Account, Met, NEW r \in Ranks, call[r] \in spoiled
    PROVE  Judge(r) # Accepted
<1>1. \A q \in Ranks : /\ inside[q].op # "outside" /\ at[q] \in Alive
                       /\ inside[q].op = Task(at[q]).op
                       /\ Task(at[q]).op = "status" => inside[q].step[1] = Task(at[q]).phase
                       /\ at[q].segment = "stopped" /\ at[q].index = 9 => ~inside[q].ok
    BY DEF Lockstep, Entered, Met
<1>2. \A q \in Ranks : inside[q].op = inside[r].op
    BY DEF Met
<1>3. Divided \/ Failed # {}
    BY <1>1 DEF Account, Marked, Declared
<1>4. Judge(r) = Accepted => Judge(r).kind # "rejected"
    BY Answers
<1>5. Judge(r) = Outcome(r) /\ Outcome(r) = Accepted => Successors(r) = {}
    BY Answers DEF Outcome
<1>6. CASE Doomed
    <2>1. inside[r].op = "status"
        BY <1>1, <1>6 DEF Doomed
    <2>2. Strayed(r) # {} \/ Failed # {}
        <3>1. ASSUME NEW p \in Ranks, NEW q \in Ranks, Task(at[p]).phase # Task(at[q]).phase
              PROVE  Strayed(r) # {}
            <4>1. inside[p].step # inside[q].step
                BY <1>1, <1>6, <3>1 DEF Doomed
            <4> QED
                BY <4>1 DEF Strayed
        <3>2. ASSUME NEW q \in Ranks, at[q].segment = "stopped", at[q].index = 9
              PROVE  Failed # {}
            BY <1>1, <3>2 DEF Failed
        <3> QED
            BY <1>6, <3>1, <3>2 DEF Doomed
    <2> QED
        BY <1>4, <2>1, <2>2, Judged
<1>7. CASE Failed # {}
    <2>1. PICK q \in Ranks : ~inside[q].ok
        BY <1>7 DEF Failed
    <2>2. inside[r].op # "plain"
        BY <1>1, <1>2, <2>1 DEF Account, Declared
    <2>3. CASE inside[r].op = "compare"
        <3>1. ~AtEnd(r)
            <4>1. /\ Script[at[r].segment] \in Blocks /\ Len(Script[at[r].segment]) \in 1..15
                  /\ at[r].index \in 1..Len(Script[at[r].segment])
                BY <1>1, SegmentBlocks DEF Alive
            <4>2. Script[at[r].segment][at[r].index].op = "compare"
                BY <1>1, <2>3 DEF Task
            <4>3. at[r].index + 1 \in 1..Len(Script[at[r].segment])
                BY <4>1, <4>2 DEF Blocks
            <4> QED
                BY <4>1, <4>3 DEF AtEnd
        <3>2. Successors(r) # {}
            BY <3>1 DEF Successors
        <3> QED
            BY <1>5, <2>3, <3>2, Judged
    <2>4. CASE inside[r].op \in {"status", "readiness", "verify"}
        BY <1>4, <1>7, <2>4, Judged
    <2>5. Task(at[r]) \in Instr /\ Task(at[r]).op # "halo"
        BY <1>1, TaskFacts DEF Lockstep, Entered
    <2>6. inside[r].op \in {"status", "readiness", "verify", "compare", "plain"}
        BY <1>1, <2>5 DEF Instr, Ops
    <2> QED
        BY <2>2, <2>3, <2>4, <2>6
<1>8. CASE Paired /\ Failed = {}
    <2>1. Successors(r) # {}
        <3>1. CASE ~AtEnd(r)
            BY <3>1 DEF Successors
        <3>2. CASE at[r].segment = "converged" /\ AtEnd(r)
            <4>1. Successors(r) = Onward(at[r])
                BY <1>1, <3>2, Steps
            <4> QED
                BY <3>2, <4>1 DEF Onward, CgOnward, MinresOnward
        <3> QED
            BY <1>8, <3>1, <3>2, PairedSteps
    <2>2. CASE inside[r].op = "status" /\ Strayed(r) # {}
        BY <1>4, <2>2, Judged
    <2>3. CASE ~(inside[r].op = "status" /\ Strayed(r) # {})
        BY <1>5, <1>8, <2>1, <2>3, Judged
    <2> QED
        BY <2>2, <2>3
<1> QED
    BY <1>3, <1>6, <1>7, <1>8 DEF Divided

-----------------------------------------------------------------------------
(* Leaving, and what becomes of a spoiled call                              *)

\* With its answer a rank leaves the call for a later one.
LEMMA LaterCall ==
    ASSUME Lockstep, Ledger, Met, NEW turn, Leave(turn),
           \/ \A r \in Ranks : Judge(r).kind = "rejected"
           \/ \A r \in Ranks : Judge(r) = Accepted
    PROVE  \E m \in Calls \cap Nat, n \in Nat :
              /\ m < n
              /\ \A r \in Ranks : /\ call[r] = m /\ call'[r] = n
                                  /\ at'[r] # Over => n \in 1..Len(session.calls)
<1>1. \A r \in Ranks : Judge(r) # Unanswered
    BY Answers
<1>2. PICK m \in Nat : \A r \in Ranks : call[r] = m
    BY RankAssumption DEF Lockstep, SameCall, Kinds
<1>3. m \in 1..Len(session.calls) /\ m \in Calls
    <2>1. PICK r \in Ranks : TRUE
        BY RankAssumption
    <2>2. at[r] # Over
        BY AliveNotOver DEF Lockstep, Entered, Met
    <2> QED
        BY <1>2, <2>2, CallsOfSession DEF Ledger
<1>4. \A r \in Ranks : /\ call'[r] = AfterCall(r, Judge(r)).call
                       /\ at'[r] = AfterCall(r, Judge(r)).at
    BY <1>1 DEF Leave
<1>5. PICK k \in Nat : Len(session.calls) = k
    BY SessionAssumption DEF Lockstep, Kinds
<1>6. CASE session.calls[m] = "duplicate" /\ \A r \in Ranks : Judge(r).kind = "rejected"
    <2>1. \A r \in Ranks : call'[r] = k + 1 /\ at'[r] = Over
        BY <1>2, <1>4, <1>5, <1>6 DEF AfterCall
    <2>2. k + 1 \in Nat /\ m < k + 1
        BY <1>3, <1>5
    <2> QED
        BY <1>2, <1>3, <2>1, <2>2
<1>7. CASE ~(session.calls[m] = "duplicate" /\ \A r \in Ranks : Judge(r).kind = "rejected")
    <2>1. \A r \in Ranks : call'[r] = m + 1 /\ at'[r] = StartOf(m + 1)
        BY <1>2, <1>4, <1>7, Answers DEF AfterCall
    <2>2. m + 1 \in Nat /\ m < m + 1
        OBVIOUS
    <2>3. StartOf(m + 1) # Over => m + 1 \in 1..Len(session.calls)
        BY <1>5 DEF StartOf
    <2> QED
        BY <1>2, <1>3, <2>1, <2>2, <2>3
<1> QED
    BY <1>6, <1>7

\* Outside operations there is nothing to declare.
LEMMA DeclaredOutside ==
    ASSUME \A r \in Ranks : inside'[r] = Outside PROVE Declared'
BY DEF Declared, Outside

\* After an answer the account is closed.
LEMMA AccountAnswered ==
    ASSUME Lockstep, Account, Met, NEW turn, Leave(turn), UNCHANGED <<spoiled, faults>>,
           \/ \A r \in Ranks : Judge(r).kind = "rejected"
           \/ \A r \in Ranks : Judge(r) = Accepted
    PROVE  Account'
<1>1. PICK m \in Calls \cap Nat, n \in Nat :
          /\ m < n
          /\ \A r \in Ranks : /\ call[r] = m /\ call'[r] = n
                              /\ at'[r] # Over => n \in 1..Len(session.calls)
    BY LaterCall DEF Account
<1>2. PICK p : \A r \in Ranks : at'[r] = p
    BY NextCall
<1>3. /\ session' = session /\ DOMAIN agreed' = Ranks
      /\ \A r \in Ranks : inside'[r] = Outside
      /\ \A c \in Calls : \A r \in Ranks : call[r] # c => answer'[c][r] = answer[c][r]
    BY DEF Leave, fixed
<1>4. \A r \in Ranks : agreed'[r]
    <2>1. ASSUME NEW r \in Ranks, inside[r].op = "compare", Failed # {} PROVE FALSE
        <3>1. /\ at[r] \in Alive /\ Task(at[r]).op = "compare"
              /\ Script[at[r].segment] \in Blocks /\ Len(Script[at[r].segment]) \in 1..15
              /\ at[r].index \in 1..Len(Script[at[r].segment])
            BY <2>1, SegmentBlocks DEF Lockstep, Entered, Alive
        <3>2. at[r].index + 1 \in 1..Len(Script[at[r].segment])
            BY <3>1 DEF Blocks, Task
        <3>3. ~AtEnd(r)
            BY <3>1, <3>2 DEF AtEnd
        <3>4. Judge(r) = Unanswered
            BY <2>1, <3>3, Judged DEF Outcome, Successors
        <3> QED
            BY <3>4, Answers
    <2> QED
        BY <2>1 DEF Leave
<1>5. \A c \in spoiled : c <= m /\ c \in Calls /\ c \in Nat
    <2>1. PICK r \in Ranks : TRUE
        BY RankAssumption
    <2>2. Calls \subseteq Nat
        BY SessionAssumption DEF Calls
    <2> QED
        BY <1>1, <2>1, <2>2 DEF Account, Ledger
<1>6. Ledger'
    <2>1. \A c \in spoiled : \A r \in Ranks : c <= call'[r]
        <3>1. \A c \in Nat : c <= m => c <= n
            BY <1>1
        <3> QED
            BY <1>1, <1>5, <3>1
    <2>2. ASSUME NEW c \in Calls, NEW q \in Ranks, NEW r \in Ranks, call'[r] <= c
          PROVE  answer'[c][q].kind = "none"
        <3>1. c \in Nat
            BY SessionAssumption DEF Calls
        <3>2. m # c /\ m <= c
            BY <1>1, <2>2, <3>1
        <3> QED
            BY <1>1, <1>3, <3>2 DEF Account, Ledger
    <2> QED
        BY <1>1, <1>3, <2>1, <2>2 DEF Account, Ledger
<1>7. \A r \in Ranks : call'[r] \notin spoiled
    <2>1. \A c \in Nat : c <= m => c # n
        BY <1>1
    <2> QED
        BY <1>1, <1>5, <2>1
<1>8. ~Divided'
    BY <1>2, SamePlace
<1>9. Declared' /\ Compared'
    BY <1>3, <1>4, DeclaredOutside DEF Compared
<1> QED
    BY <1>6, <1>7, <1>8, <1>9 DEF Account, Parted, Marked

\* A call that goes on keeps its account: a failure that was compared is now
\* known to every rank.
LEMMA AccountGoesOn ==
    ASSUME Lockstep, Account, Met, NEW turn, Leave(turn),
           \A r \in Ranks : Judge(r) = Unanswered,
           \A r \in Ranks : Forks = {} \/ turn[r] \in Forks,
           NEW S \in SUBSET {call[r] : r \in Ranks}, spoiled' = spoiled \cup S,
           DOMAIN faults' = Calls /\ \A c \in Calls : faults'[c] \in Nat,
           Divided' => \A r \in Ranks : call[r] \in spoiled',
           S # {} \/ Divided => Divided'
    PROVE  Account'
<1>1. /\ session' = session /\ DOMAIN agreed' = Ranks
      /\ \A r \in Ranks : inside'[r] = Outside /\ call'[r] = call[r]
      /\ \A c \in Calls : \A r \in Ranks : answer'[c][r] = answer[c][r]
      /\ \A r \in Ranks : agreed'[r] = (inside[r].op # "compare" \/ Failed = {})
    BY DEF Leave, fixed
<1>2. \A r \in Ranks : /\ inside[r].op # "outside" /\ at[r] \in Alive /\ at[r] # Over
                       /\ inside[r].op = Task(at[r]).op /\ Task(at[r]).op # "halo"
                       /\ call[r] \in Calls /\ call[r] \in 1..Len(session.calls)
    BY AliveNotOver, CallsOfSession DEF Lockstep, Entered, Met, Account, Ledger
<1>3. PICK n \in Nat : \A r \in Ranks : call[r] = n
    BY RankAssumption DEF Lockstep, SameCall, Kinds
<1>4. Ledger'
    <2>1. \A c \in spoiled' : c \in Calls /\ \A r \in Ranks : c <= call[r]
        <3>1. \A c \in S : c \in Calls /\ c = n
            BY <1>2, <1>3
        <3>2. n <= n
            BY <1>3
        <3> QED
            BY <1>3, <3>1, <3>2 DEF Account, Ledger
    <2>2. \A c \in Calls : \A q, r \in Ranks : call[r] <= c => answer[c][q].kind = "none"
        BY DEF Account, Ledger
    <2> QED
        BY <1>1, <1>2, <2>1, <2>2 DEF Ledger
<1>5. Compared'
    <2>1. ASSUME NEW r \in Ranks, ~agreed'[r]
          PROVE  at'[r] \in Alive /\ Task(at'[r]).op \in {"status", "readiness"}
        <3>1. Task(at[r]).op = "compare"
            BY <1>1, <1>2, <2>1
        <3>2. /\ Script[at[r].segment] \in Blocks /\ Len(Script[at[r].segment]) \in 1..15
              /\ at[r].index \in 1..Len(Script[at[r].segment])
            BY <1>2, SegmentBlocks DEF Alive
        <3>3. /\ at[r].index + 1 \in 1..Len(Script[at[r].segment])
              /\ Script[at[r].segment][at[r].index + 1].op \in {"status", "readiness"}
            BY <3>1, <3>2 DEF Blocks, Task
        <3>4. ~AtEnd(r)
            BY <3>2, <3>3 DEF AtEnd
        <3>5. /\ at'[r] \in Alive /\ at'[r].segment = at[r].segment
              /\ at'[r].index = at[r].index + 1
            BY <3>4, NextPlace
        <3> QED
            BY <3>3, <3>5 DEF Task
    <2>2. Alive' = Alive
        BY <1>1 DEF Alive
    <2> QED
        BY <2>1, <2>2 DEF Compared
<1>6. Marked'
    <2>1. SUFFICES ASSUME NEW r \in Ranks, call[r] \in spoiled', ~Divided'
          PROVE  \E q \in Ranks : ~agreed'[q]
        BY <1>1 DEF Marked
    <2>2. call[r] \in spoiled /\ ~Divided
        BY <2>1
    <2>3. Failed # {}
        BY <1>2, <2>2 DEF Account, Marked, Declared
    <2>4. PICK q \in Ranks : ~inside[q].ok
        BY <2>3 DEF Failed
    <2>5. inside[q].op # "plain"
        BY <1>2, <2>4 DEF Account, Declared
    <2>6. inside[q].op \notin {"status", "readiness", "verify"}
        BY <2>3, Judged, Answers
    <2>7. Task(at[q]) \in Instr
        BY <1>2, TaskFacts
    <2>8. inside[q].op = "compare"
        BY <1>2, <2>5, <2>6, <2>7 DEF Instr, Ops
    <2> QED
        BY <1>1, <2>3, <2>8
<1>7. Declared'
    BY <1>1, DeclaredOutside
<1>8. Parted'
    BY <1>1 DEF Parted
<1> QED
    BY <1>4, <1>5, <1>6, <1>7, <1>8 DEF Account

\* Ranks that are together and are sent the same way stay together.
LEMMA SameWay ==
    ASSUME Lockstep, Met, Together, NEW turn, Leave(turn),
           \A r \in Ranks : Judge(r) = Unanswered,
           Forks = {} \/ \A q, r \in Ranks : turn[q] = turn[r],
           NEW q \in Ranks, NEW r \in Ranks
    PROVE  at'[q] = at'[r]
<1>1. \A p \in Ranks : at'[p] = IF Cardinality(Successors(p)) = 1
                                THEN CHOOSE x \in Successors(p) : TRUE ELSE turn[p]
    BY DEF Leave
<1>2. \A p \in Ranks : /\ at[p] \in Alive /\ Ahead(at[p]) = at[p]
                       /\ IsFiniteSet(Successors(p)) /\ Successors(p) # {}
    BY AheadFacts, SuccessorsFinite, MeetingAlike DEF Lockstep, Entered, Met
<1>3. Successors(q) = Successors(r)
    <2>1. at[q] = at[r] /\ call[q] = call[r]
        BY <1>2 DEF Together, Lockstep, SameCall
    <2> QED
        BY <2>1 DEF Successors, AtEnd
<1>4. CASE Cardinality(Successors(r)) = 1
    BY <1>1, <1>3, <1>4
<1>5. CASE Cardinality(Successors(r)) # 1
    <2>1. Cardinality(Successors(r)) \in Nat /\ Cardinality(Successors(r)) # 0
        BY <1>2, FS_CardinalityType, FS_EmptySet
    <2>2. Cardinality(Successors(r)) > 1
        BY <1>5, <2>1
    <2>3. Forks = UNION {Successors(p) : p \in {s \in Ranks : Cardinality(Successors(s)) > 1}}
        BY DEF Forks
    <2>4. Forks # {}
        BY <1>2, <2>2, <2>3
    <2> QED
        BY <1>1, <1>3, <1>5, <2>4
<1> QED
    BY <1>4, <1>5

\* Ranks that are divided stay divided until they are refused.
LEMMA StayDivided ==
    ASSUME Lockstep, Met, Divided, NEW turn, Leave(turn),
           \A r \in Ranks : Judge(r) = Unanswered,
           \A r \in Ranks : Forks = {} \/ turn[r] \in Forks
    PROVE  Divided'
<1>1. Paired
    BY MeetingAlike DEF Divided
<1>2. \A r \in Ranks : at'[r] \in Successors(r)
    BY OwnWay
<1> QED
    BY <1>1, <1>2, PartingPaired DEF Divided

\* The transport completes an operation.
LEMMA AccountGather ==
    ASSUME Lockstep, Story, Account, Gather
    PROVE  Account'
<1>1. PICK turn : /\ Leave(turn)
                  /\ \A r \in Ranks : Forks = {} \/ turn[r] \in Forks
                  /\ Forks = {} \/ \A q, r \in Ranks : turn[q] = turn[r]
    <2>1. CASE Forks = {} /\ Leave(at)
        BY <2>1
    <2>2. ASSUME NEW p \in Forks, Leave([r \in Ranks |-> p])
          PROVE  \E turn : /\ Leave(turn)
                           /\ \A r \in Ranks : Forks = {} \/ turn[r] \in Forks
                           /\ Forks = {} \/ \A q, r \in Ranks : turn[q] = turn[r]
        <3>1. \A r \in Ranks : [q \in Ranks |-> p][r] = p
            OBVIOUS
        <3> QED
            BY <2>2, <3>1
    <2> QED
        BY <2>1, <2>2 DEF Gather
<1>2. Met /\ spoiled' = spoiled /\ faults' = faults
    BY DEF Gather
<1>3. CASE \/ \A r \in Ranks : Judge(r).kind = "rejected"
           \/ \A r \in Ranks : Judge(r) = Accepted
    BY <1>1, <1>2, <1>3, AccountAnswered
<1>4. CASE \A r \in Ranks : Judge(r) = Unanswered
    <2>1. Divided => Divided'
        BY <1>1, <1>2, <1>4, StayDivided
    <2>2. ASSUME Divided' PROVE \A r \in Ranks : call[r] \in spoiled'
        <3>1. CASE Divided
            BY <1>2, <3>1 DEF Account, Parted
        <3>2. CASE ~Divided
            <4>1. Together
                BY <3>2 DEF Divided, Lockstep, Modes
            <4>2. PICK q \in Ranks : TRUE
                BY RankAssumption
            <4>3. PICK p : p = at'[q]
                OBVIOUS
            <4>4. \A r \in Ranks : at'[r] = p
                BY <1>1, <1>2, <1>4, <4>1, <4>3, SameWay
            <4> QED
                BY <2>2, <4>4, SamePlace
        <3> QED
            BY <3>1, <3>2
    <2>3. spoiled' = spoiled \cup {}
        BY <1>2
    <2>4. DOMAIN faults' = Calls /\ \A c \in Calls : faults'[c] \in Nat
        BY <1>2 DEF Account, Ledger
    <2>5. {} \in SUBSET {call[r] : r \in Ranks}
        OBVIOUS
    <2> QED
        BY <1>1, <1>2, <1>4, <2>1, <2>2, <2>3, <2>4, <2>5, AccountGoesOn
<1> QED
    BY <1>2, <1>3, <1>4, MeetingAlike DEF Alike

\* Scalars that may differ send nobody home.
LEMMA DriftGoesOn ==
    ASSUME Lockstep, Met, NEW p \in Forks PROVE \A r \in Ranks : Judge(r) = Unanswered
BY DEF Forks

\* One rank goes another way than its peers: they are divided.
LEMMA DriftDivides ==
    ASSUME Lockstep, Account, NEW stray \in Ranks, Drift(stray)
    PROVE  Divided'
<1>1. PICK p \in Forks, q \in Forks :
          p # q /\ Leave([r \in Ranks |-> IF r = stray THEN q ELSE p])
    BY DEF Drift
<1> DEFINE turn == [r \in Ranks |-> IF r = stray THEN q ELSE p]
<1>2. /\ Leave(turn) /\ turn[stray] = q /\ \A r \in Ranks : turn[r] \in Forks
      /\ \A r \in Ranks : r # stray => turn[r] = p
    BY <1>1
<1> HIDE DEF turn
<1>3. Met /\ \A r \in Ranks : Judge(r) = Unanswered
    BY <1>1, DriftGoesOn DEF Drift
<1>4. \A r \in Ranks : at'[r] \in Successors(r)
    BY <1>2, <1>3, OwnWay
<1>5. CASE Divided
    BY <1>2, <1>3, <1>5, StayDivided
<1>6. CASE Together
    <2>1. PICK other \in Ranks : other # stray
        BY DEF Drift
    <2>2. \A r \in Ranks : Successors(r) = Successors(stray) /\ at[r] \in Alive
        <3>1. \A r \in Ranks : at[r] \in Alive /\ Ahead(at[r]) = at[r]
            BY <1>3, AheadFacts DEF Lockstep, Entered, Met
        <3>2. \A r \in Ranks : at[r] = at[stray] /\ call[r] = call[stray]
            BY <1>6, <3>1 DEF Together, Lockstep, SameCall
        <3> QED
            BY <3>1, <3>2 DEF Successors, AtEnd
    <2>3. \A r \in Ranks : Cardinality(Successors(r)) # 1
        <3>1. PICK s \in Ranks : Cardinality(Successors(s)) > 1
            BY <1>1 DEF Forks
        <3>2. IsFiniteSet(Successors(s))
            BY <2>2, SuccessorsFinite
        <3>3. Cardinality(Successors(s)) \in Nat
            BY <3>2, FS_CardinalityType
        <3>4. Cardinality(Successors(s)) # 1
            BY <3>1, <3>3
        <3> QED
            BY <2>2, <3>4
    <2>4. at'[stray] = q /\ at'[other] = p
        <3>1. \A r \in Ranks : at'[r] = IF Cardinality(Successors(r)) = 1
                                        THEN CHOOSE x \in Successors(r) : TRUE ELSE turn[r]
            BY <1>2, <1>3 DEF Leave
        <3> QED
            BY <1>2, <2>1, <2>3, <3>1
    <2> QED
        BY <1>1, <1>2, <1>3, <1>4, <1>6, <2>4, PartingTogether DEF Divided
<1> QED
    BY <1>5, <1>6 DEF Lockstep, Modes, Divided

\* The call is then spoiled.
LEMMA AccountDrift ==
    ASSUME Lockstep, Account, NEW stray \in Ranks, Drift(stray)
    PROVE  Account'
<1>1. PICK p \in Forks, q \in Forks : Leave([r \in Ranks |-> IF r = stray THEN q ELSE p])
    BY DEF Drift
<1>2. \A r \in Ranks : [s \in Ranks |-> IF s = stray THEN q ELSE p][r] \in Forks
    OBVIOUS
<1>3. PICK turn : Leave(turn) /\ \A r \in Ranks : turn[r] \in Forks
    BY <1>1, <1>2
<1>4. Met /\ \A r \in Ranks : Judge(r) = Unanswered
    BY <1>1, DriftGoesOn DEF Drift
<1>5. Divided'
    BY DriftDivides
<1>6. /\ spoiled' = spoiled \cup {call[stray]}
      /\ faults' = [faults EXCEPT ![call[stray]] = @ + 1]
    BY DEF Drift
<1>7. DOMAIN faults' = Calls /\ \A c \in Calls : faults'[c] \in Nat
    BY <1>6 DEF Account, Ledger
<1>8. \A r \in Ranks : call[r] \in spoiled'
    BY <1>6 DEF Lockstep, SameCall
<1>9. {call[stray]} \in SUBSET {call[r] : r \in Ranks}
    OBVIOUS
<1> QED
    BY <1>3, <1>4, <1>5, <1>6, <1>7, <1>8, <1>9, AccountGoesOn

\* Every step keeps the record of the phases and the account.
LEMMA AccountStep ==
    ASSUME Lockstep, Story, Told, Account, [Next]_vars
    PROVE  Told' /\ Account'
<1>1. ASSUME NEW r \in Ranks, Enter(r) PROVE Told' /\ Account'
    BY <1>1, ToldEnter, AccountEnter
<1>2. ASSUME NEW r \in Ranks, LeaveHalo(r) PROVE Told' /\ Account'
    BY <1>2, ToldLeaveHalo, AccountLeaveHalo
<1>3. ASSUME UNCHANGED <<session, call, at, inside, agreed, trace, answer, spoiled, faults>>
      PROVE  Told' /\ Account'
    BY <1>3, ToldUnmoved, AccountUnmoved
<1>4. ASSUME NEW q \in Ranks, NEW r \in Ranks,
             Send(r, q) \/ Receive(q, r) \/ Transfer(r, q)
      PROVE  Told' /\ Account'
    BY <1>3, <1>4 DEF Send, Receive, Transfer, fixed, place
<1>5. ASSUME Collective PROVE Told' /\ Account'
    <2>1. Told'
        BY <1>5, Turns, ToldLeave
    <2>2. Account'
        BY <1>5, AccountGather, AccountDrift DEF Collective
    <2> QED
        BY <2>1, <2>2
<1>6. ASSUME UNCHANGED vars PROVE Told' /\ Account'
    BY <1>3, <1>6 DEF vars, fixed, place
<1> QED
    BY <1>1, <1>2, <1>4, <1>5, <1>6 DEF Next, RankStep

-----------------------------------------------------------------------------
(* The calls are unanimous                                                  *)

\* What the promise sees of the answers.
Kinded == [c \in Calls |-> [r \in Ranks |-> answer[c][r].kind]]

\* Nobody has answered the call a rank is in.
LEMMA NobodyAnswered ==
    ASSUME Lockstep, Ledger, NEW r \in Ranks, call[r] \in Calls
    PROVE  Unanimous!Unanswered(call[r])
<1>1. call[r] \in Nat
    BY DEF Lockstep, Kinds
<1>2. call[r] <= call[r]
    BY <1>1
<1>3. \A q \in Ranks : answer[call[r]][q].kind = "none"
    BY <1>2 DEF Ledger
<1> QED
    BY <1>3 DEF Unanimous!Unanswered

\* Steps that answer nothing at most spoil the call a rank is in.
LEMMA MaySpoil ==
    ASSUME Lockstep, Ledger,
           \A c \in Calls : \A r \in Ranks : answer'[c][r] = answer[c][r],
           \/ spoiled' = spoiled
           \/ \E r \in Ranks : call[r] \in Calls /\ spoiled' = spoiled \cup {call[r]}
    PROVE  [Unanimous!Next]_(Unanimous!vars)
<1>1. Kinded' = Kinded
    BY DEF Kinded
<1>2. CASE spoiled' = spoiled
    BY <1>1, <1>2 DEF Unanimous!vars, Kinded
<1>3. ASSUME NEW r \in Ranks, call[r] \in Calls, spoiled' = spoiled \cup {call[r]}
      PROVE  Unanimous!Next
    <2>1. Unanimous!Unanswered(call[r])
        BY <1>3, NobodyAnswered
    <2>2. Unanimous!Spoil(call[r])
        BY <1>1, <1>3, <2>1 DEF Unanimous!Spoil, Kinded
    <2> QED
        BY <1>3, <2>2 DEF Unanimous!Next
<1> QED
    BY <1>2, <1>3

\* Ranks that leave with an answer all return, refused if the call is spoiled and
\* accepted if it is not.
LEMMA AllReturn ==
    ASSUME Lockstep, Story, Account, Met, NEW turn, Leave(turn), spoiled' = spoiled,
           \/ \A r \in Ranks : Judge(r).kind = "rejected"
           \/ \A r \in Ranks : Judge(r) = Accepted
    PROVE  [Unanimous!Next]_(Unanimous!vars)
<1>1. PICK m \in Calls : \A r \in Ranks : call[r] = m
    BY LaterCall DEF Account
<1>2. PICK one \in Ranks : TRUE
    BY RankAssumption
<1>3. \A r \in Ranks : Judge(r).kind = IF m \in spoiled THEN "rejected" ELSE "accepted"
    <2>1. CASE m \in spoiled
        BY <1>1, <1>2, <2>1, AcceptedForReason, Answers
    <2>2. CASE m \notin spoiled
        BY <1>1, <1>2, <2>2, RefusedForReason, Answers
    <2> QED
        BY <2>1, <2>2
<1>4. \A r \in Ranks : Judge(r) # Unanswered
    BY Answers
<1>5. \A c \in Calls : \A r \in Ranks :
          answer'[c][r] = IF c = m THEN Judge(r) ELSE answer[c][r]
    BY <1>1, <1>4 DEF Leave
<1>6. \A r \in Ranks : answer[m][r].kind = "none"
    <2>1. m \in Nat /\ m <= m
        BY <1>1, <1>2 DEF Lockstep, Kinds
    <2> QED
        BY <1>1, <2>1 DEF Account, Ledger
<1>7. Kinded' = [Kinded EXCEPT ![m] = [r \in Ranks |->
                    IF m \in spoiled THEN "rejected" ELSE "accepted"]]
    <2>1. \A c \in Calls : \A r \in Ranks :
              answer'[c][r].kind = IF c = m THEN IF m \in spoiled THEN "rejected" ELSE "accepted"
                                   ELSE answer[c][r].kind
        BY <1>3, <1>5
    <2> QED
        BY <2>1 DEF Kinded
<1>8. Ranks \in SUBSET {r \in Ranks : Kinded[m][r] = "none"} /\ Ranks # {}
    BY <1>2, <1>6 DEF Kinded
<1>9. Kinded' = [Kinded EXCEPT ![m] = [r \in Ranks |->
                    IF r \notin Ranks THEN Kinded[m][r]
                    ELSE IF m \in spoiled THEN "rejected" ELSE "accepted"]]
    <2>1. [r \in Ranks |-> IF m \in spoiled THEN "rejected" ELSE "accepted"]
            = [r \in Ranks |-> IF r \notin Ranks THEN Kinded[m][r]
                               ELSE IF m \in spoiled THEN "rejected" ELSE "accepted"]
        OBVIOUS
    <2> QED
        BY <1>7, <2>1
<1>10. \E S \in SUBSET {r \in Ranks : Kinded[m][r] = "none"} :
          /\ S # {}
          /\ Kinded' = [Kinded EXCEPT ![m] = [r \in Ranks |->
                           IF r \notin S THEN Kinded[m][r]
                           ELSE IF m \in spoiled THEN "rejected" ELSE "accepted"]]
    BY <1>8, <1>9
<1>11. Unanimous!Return(m)
    BY <1>10 DEF Unanimous!Return, Kinded
<1> QED
    BY <1>11 DEF Unanimous!Next

\* Every step of the group is one of the promise, or does not concern it.
LEMMA UnanimousStep ==
    ASSUME Lockstep, Story, Told, Account, [Next]_vars
    PROVE  [Unanimous!Next]_(Unanimous!vars)
<1>1. ASSUME NEW r \in Ranks, Enter(r) PROVE [Unanimous!Next]_(Unanimous!vars)
    <2>1. answer' = answer
        BY <1>1, EnterEffect
    <2>2. call[r] \in Calls /\ (spoiled' = spoiled \/ spoiled' = spoiled \cup {call[r]})
        BY <1>1, EnterReport DEF Account
    <2> QED
        BY <2>1, <2>2, MaySpoil DEF Account
<1>2. ASSUME answer' = answer, spoiled' = spoiled PROVE [Unanimous!Next]_(Unanimous!vars)
    BY <1>2, MaySpoil DEF Account
<1>3. ASSUME NEW r \in Ranks, LeaveHalo(r) PROVE [Unanimous!Next]_(Unanimous!vars)
    BY <1>2, <1>3 DEF LeaveHalo
<1>4. ASSUME NEW q \in Ranks, NEW r \in Ranks,
             Send(r, q) \/ Receive(q, r) \/ Transfer(r, q)
      PROVE  [Unanimous!Next]_(Unanimous!vars)
    BY <1>2, <1>4 DEF Send, Receive, Transfer
<1>5. ASSUME Gather PROVE [Unanimous!Next]_(Unanimous!vars)
    <2>1. PICK turn : Leave(turn)
        BY <1>5 DEF Gather
    <2>2. Met /\ spoiled' = spoiled
        BY <1>5 DEF Gather
    <2>3. CASE \/ \A r \in Ranks : Judge(r).kind = "rejected"
               \/ \A r \in Ranks : Judge(r) = Accepted
        BY <2>1, <2>2, <2>3, AllReturn
    <2>4. CASE \A r \in Ranks : Judge(r) = Unanswered
        <3>1. \A c \in Calls : \A r \in Ranks : answer'[c][r] = answer[c][r]
            BY <2>1, <2>4 DEF Leave
        <3> QED
            BY <2>2, <3>1, MaySpoil DEF Account
    <2> QED
        BY <2>2, <2>3, <2>4, MeetingAlike DEF Alike
<1>6. ASSUME NEW stray \in Ranks, Drift(stray) PROVE [Unanimous!Next]_(Unanimous!vars)
    <2>1. PICK p \in Forks, q \in Forks : Leave([r \in Ranks |-> IF r = stray THEN q ELSE p])
        BY <1>6 DEF Drift
    <2>2. Met /\ \A r \in Ranks : Judge(r) = Unanswered
        BY <1>6, <2>1, DriftGoesOn DEF Drift
    <2>3. \A c \in Calls : \A r \in Ranks : answer'[c][r] = answer[c][r]
        BY <2>1, <2>2 DEF Leave
    <2>4. call[stray] \in Calls
        BY <2>2, AliveNotOver, CallsOfSession DEF Lockstep, Entered, Met, Account, Ledger
    <2>5. spoiled' = spoiled \cup {call[stray]}
        BY <1>6 DEF Drift
    <2> QED
        BY <2>3, <2>4, <2>5, MaySpoil DEF Account
<1>7. ASSUME UNCHANGED vars PROVE [Unanimous!Next]_(Unanimous!vars)
    BY <1>2, <1>7 DEF vars
<1> QED
    BY <1>1, <1>3, <1>4, <1>5, <1>6, <1>7 DEF Next, RankStep, Collective

\* The calls of a group of any size are unanimous: an answer is common to all
\* ranks, and it is an acceptance if and only if no local work failed, no record
\* differed and no rank went another way (protocol.rs:402).  That all ranks of a
\* call that one has answered answer it needs fairness, and is left to TLC.
THEOREM UnanimousTheorem == Spec => Unanimous!Init /\ [][Unanimous!Next]_(Unanimous!vars)
<1>1. Init => Lockstep /\ Story /\ CommonDiagnostic /\ Told /\ Account
    <2>1. Init => CommonDiagnostic
        BY DEF Init, CommonDiagnostic
    <2> QED
        BY <2>1, LockstepInit, StoryInit, ToldInit, AccountInit
<1>2. Lockstep /\ Story /\ CommonDiagnostic /\ Told /\ Account /\ [Next]_vars
          => Lockstep' /\ Story' /\ CommonDiagnostic' /\ Told' /\ Account'
    BY LockstepStep, DiagnosticStep, AccountStep
<1>3. Init => Unanimous!Init
    BY DEF Init, Unanimous!Init, Unanswered
<1>4. Lockstep /\ Story /\ Told /\ Account /\ [Next]_vars
          => [Unanimous!Next]_(Unanimous!vars)
    BY UnanimousStep
<1> QED
    BY <1>1, <1>2, <1>3, <1>4, PTL DEF Spec
=============================================================================
