--------------------------- MODULE MpiCollectives ---------------------------
(* MpiExecutionGroup: the collective calls that every rank of a communicator  *)
(* makes in the same order.  A call is a sequence of collective operations.   *)
(* Before a rank enters one that needs the others' data it reports to them    *)
(* whether its local work succeeded, and all leave the call together if one   *)
(* of them failed.                                                            *)
(*                                                                            *)
(* A collective operation ends when every rank has entered it; ranks inside   *)
(* different operations never leave them.  Halo messages go from rank to      *)
(* rank.  Numbers are left out: what local work finds, and where the scalars  *)
(* send the solver, is chosen freely.                                         *)
EXTENDS Naturals, Sequences, FiniteSets, SequencesExt

CONSTANTS Ranks,          \* 0..n-1
          Sessions,       \* what the application does
          MaxIterations,  \* of the solver plan
          MaxFaults       \* bound on what goes wrong, in one call of a session

ASSUME RankAssumption == /\ Ranks # {} /\ Ranks = 0..(Cardinality(Ranks) - 1)
                         /\ MaxIterations \in Nat \ {0}
                         /\ MaxFaults \in Nat

VARIABLES
    session,  \* the calls, the algorithm, and the pairs that share ghosts
    eager,    \* whether the transport buffers a standard-mode send
    call,     \* the call a rank is in
    at,       \* its place in the call: segment, instruction, iteration
    inside,   \* the collective operation it has entered, with its contribution
    agreed,   \* whether the records of the last comparison were equal
    trace,    \* collective_steps
    passed,   \* the exchanges of its halo that a rank has made
    wire,     \* halo messages that are buffered
    answer,   \* what each call returned
    spoiled,  \* calls in which something went wrong
    faults    \* local failures, deviations and drifts of each call

place == <<call, at>>
halo == <<passed, wire>>
fixed == <<session, eager>>
vars == <<fixed, place, inside, agreed, trace, halo, answer, spoiled, faults>>

NoRank == Cardinality(Ranks)
Calls == UNION {1..Len(s.calls) : s \in Sessions}

---------------------------------------------------------------------------
(* Programs                                                                 *)

\* A boundary of the numerical run: a status that all ranks exchange.  Its
\* local check looks at the rank's own data or at data that all ranks share.
Boundary(phase) == [op |-> "status", phase |-> phase, shared |-> FALSE]
Common(phase) == [op |-> "status", phase |-> phase, shared |-> TRUE]

\* Readiness outside the numerical run: one byte from each rank.
Readiness(phase) == [op |-> "readiness", phase |-> phase, shared |-> FALSE]

\* Records that must be equal: the next boundary reports the comparison, or
\* the call returns on it.
Compare(what) == [op |-> "compare", phase |-> what, shared |-> FALSE]
Verify(what) == [op |-> "verify", phase |-> what, shared |-> FALSE]

\* Collectives whose result no rank judges by itself.
Plain(what) == [op |-> "plain", phase |-> what, shared |-> FALSE]
Exchange == [op |-> "halo", phase |-> "Halo", shared |-> FALSE]

Apply == <<Boundary("Halo"), Exchange, Boundary("LocalAction")>>
Dot == <<Boundary("Reduction"), Plain("partials"), Common("Reduction")>>
Norm == Dot \o <<Common("VectorUpdate")>>
TrueResidual == Apply \o <<Boundary("VectorUpdate")>> \o Norm
Topology == <<Readiness("Admission"), Compare("devices"), Readiness("Admission")>>
AgreePlanning == <<Verify("planning")>>
SelectPlan == <<Readiness("Admission")>> \o AgreePlanning
Authenticate == <<Readiness("Admission")>> \o AgreePlanning
SelectForDevices == <<Readiness("Admission")>> \o SelectPlan \o <<Readiness("Admission")>>

\* admit, between the preflight and the check of the sealed plan.
Admit == <<Readiness("Admission"), Verify("admission")>>

CgStart == <<Boundary("LocalAction")>> \o TrueResidual \o <<Common("VectorUpdate")>> \o Norm
CgDirection == Dot \o <<Common("VectorUpdate"), Boundary("VectorUpdate")>>
CgRestart == Dot \o <<Common("VectorUpdate")>>
CgIterate == Apply \o Dot \o <<Common("VectorUpdate"), Boundary("VectorUpdate")>> \o Norm

MinresStart == TrueResidual \o <<Common("VectorUpdate")>> \o Norm
MinresLanczos == <<Boundary("VectorUpdate")>> \o Apply \o <<Boundary("VectorUpdate")>>
                 \o Dot \o <<Boundary("VectorUpdate")>> \o Norm
MinresIterate == MinresLanczos \o <<Common("VectorUpdate"), Boundary("VectorUpdate")>>

AgreeReport == <<Boundary("ProducerReport"), Compare("report"), Boundary("ProducerReport")>>
GatherOwned == <<Boundary("GatherPreparation"), Plain("indices"), Plain("values"),
                 Common("GatherValidation")>>
AgreeSolution == <<Boundary("ResultAgreement"), Compare("solution"),
                   Boundary("ResultAgreement")>>

Script == [
    duplicate |-> <<Readiness("group"), Plain("Comm_dup")>>,
    topology |-> Topology,
    selection |-> SelectPlan,
    authentication |-> Authenticate,
    deviceSelection |-> SelectForDevices,
    devices |-> <<Readiness("Admission")>> \o Topology \o <<Readiness("Admission")>>,
    admit |-> <<Readiness("Admission")>> \o Admit \o <<Boundary("LocalAction")>>,
    cgSetup |-> CgStart,
    cgFirst |-> CgRestart,
    cgIterate |-> CgIterate,
    cgDirection |-> CgDirection,
    cgRestart |-> CgRestart,
    minresSetup |-> MinresStart,
    minresIterate |-> MinresIterate,
    converged |-> TrueResidual,
    stopped |-> TrueResidual \o <<Boundary("ProducerReport")>>,
    finish |-> <<Boundary("ProducerReport")>> \o AgreeReport \o GatherOwned
               \o <<Boundary("HostAcceptance")>> \o AgreeSolution,
    receipt |-> <<Readiness("ResultAgreement"), Readiness("ResultAgreement"),
                  Verify("receipt")>>,
    evidence |-> <<Readiness("Admission"), Readiness("Admission"), Verify("summary")>>]

Place(segment, iteration) == [segment |-> segment, index |-> 1, iteration |-> iteration]
Over == Place("over", 0)

\* What each public call begins with.
Opening == [duplicate |-> "duplicate", topology |-> "topology", select |-> "selection",
            bind |-> "authentication", deviceSelect |-> "deviceSelection",
            execute |-> "admit", deviceExecute |-> "devices"]

\* No rank has what it owns as a ghost (LocalLayout::canonicalize).
ASSUME SessionAssumption == \A s \in Sessions :
    /\ s.calls \in Seq(DOMAIN Opening)
    /\ s.ghosts \subseteq Ranks \X Ranks /\ \A p \in s.ghosts : p[1] # p[2]

Instruction(r) == Script[at[r].segment][at[r].index]
AtEnd(r) == at[r].index = Len(Script[at[r].segment])

---------------------------------------------------------------------------
(* Where the solver goes after a segment: the scalars decide.               *)

NextIteration(i) ==
    IF i = MaxIterations THEN Place("stopped", i)
    ELSE Place(IF session.algorithm = "cg" THEN "cgIterate" ELSE "minresIterate", i + 1)

\* After the norms of conjugate gradients.
CgOnward(p) ==
    LET i == p.iteration IN
    CASE p.segment = "cgSetup" -> {Place("finish", 0), Place("cgFirst", 0)}
      [] p.segment = "cgIterate" -> {Place("converged", i), Place("cgDirection", i)}
      [] p.segment = "converged" -> {Place("finish", i), Place("cgRestart", i)}
      [] OTHER -> {NextIteration(i)}

\* After those of minimum residuals, whose Lanczos space may close as well.
MinresOnward(p) ==
    LET i == p.iteration IN
    CASE p.segment = "minresSetup" -> {Place("finish", 0), NextIteration(0)}
      [] p.segment = "minresIterate" -> {Place("converged", i), Place("stopped", i),
                                         NextIteration(i)}
      [] p.segment = "converged" -> {Place("finish", i), Place("stopped", i), NextIteration(i)}

Onward(p) ==
    CASE p.segment = "devices" -> {Place("admit", 0)}
      [] p.segment = "admit" -> {Place(IF session.algorithm = "cg" THEN "cgSetup"
                                       ELSE "minresSetup", 0)}
      [] p.segment = "finish" -> {Place("receipt", p.iteration)}
      [] p.segment \in {"cgSetup", "cgFirst", "cgIterate", "cgDirection", "cgRestart",
                        "minresSetup", "minresIterate", "converged"} ->
             IF session.algorithm = "cg" THEN CgOnward(p) ELSE MinresOnward(p)
      [] OTHER -> {}

\* The places a rank may be at when its call goes on after this instruction;
\* none if the call is then complete.
Successors(r) ==
    IF ~AtEnd(r) THEN {[at[r] EXCEPT !.index = @ + 1]}
    ELSE IF at[r].segment = "receipt" /\ session.calls[call[r]] = "deviceExecute"
         THEN {Place("evidence", at[r].iteration)}
    ELSE Onward(at[r])

---------------------------------------------------------------------------
(* The trace                                                                *)

\* distributed_collective_trace_capacity
Capacity == 32 * MaxIterations + 64

Phases(t) == [k \in 1..Len(t) |-> t[k].phase]

Terminal == <<"ProducerReport", "ProducerReport", "ProducerReport", "GatherPreparation",
              "GatherValidation", "HostAcceptance", "ResultAgreement", "ResultAgreement">>

\* validate_successful_collective_trace.  Ordinals are positions, so dense.
TraceSound(t, completed) ==
    LET last == SubSeq(t, Len(t) - 7, Len(t)) IN
    /\ Len(t) \in 8..Capacity
    /\ t[1].phase = "Admission"
    /\ \A k \in 2..Len(t) : t[k].phase # "Admission"
    /\ Phases(last) = Terminal
    /\ \A k \in 1..8 : last[k].iteration = IF k \in {1, 2, 3, 6} THEN completed ELSE 0

\* require_ordered_phases, and the bound on iterations before it.
PhasesOrdered(t) ==
    /\ \A k \in 1..Len(t) : t[k].iteration <= MaxIterations
    /\ t[1].phase = "Admission"
    /\ {"Halo", "LocalAction", "Reduction", "VectorUpdate"} \subseteq ToSet(Phases(t))
    /\ \E a \in 1..Len(t) : t[a].phase = "ProducerReport"
       /\ \E b \in (a + 1)..Len(t) : t[b].phase = "GatherPreparation"
          /\ \E c \in (b + 1)..Len(t) : t[c].phase = "GatherValidation"
             /\ \E d \in (c + 1)..Len(t) : t[d].phase = "HostAcceptance"
                /\ \E e \in (d + 1)..Len(t) : t[e].phase = "ResultAgreement"
    /\ Last(t).phase = "ResultAgreement"

---------------------------------------------------------------------------
Outside == [op |-> "outside", phase |-> "none", step |-> <<>>, ok |-> TRUE]
Unanswered == [kind |-> "none", by |-> NoRank, phase |-> "none"]
Accepted == [kind |-> "accepted", by |-> NoRank, phase |-> "none"]
Rejected(rank, phase) == [kind |-> "rejected", by |-> rank, phase |-> phase]

StartOf(c) == IF c <= Len(session.calls) THEN Place(Opening[session.calls[c]], 0) ELSE Over

Init ==
    /\ session \in Sessions
    /\ eager \in BOOLEAN
    /\ call = [r \in Ranks |-> 1]
    /\ at = [r \in Ranks |-> StartOf(1)]
    /\ inside = [r \in Ranks |-> Outside]
    /\ agreed = [r \in Ranks |-> TRUE]
    /\ trace = [r \in Ranks |-> <<>>]
    /\ passed = [r \in Ranks |-> {}]
    /\ wire = [p \in Ranks \X Ranks |-> <<>>]
    /\ answer = [c \in Calls |-> [r \in Ranks |-> Unanswered]]
    /\ spoiled = {}
    /\ faults = [c \in Calls |-> 0]

\* Where a rank goes with its answer: to the next call, if there is a group.
AfterCall(r, reply) ==
    IF session.calls[call[r]] = "duplicate" /\ reply.kind = "rejected"
    THEN [call |-> Len(session.calls) + 1, at |-> Over]
    ELSE [call |-> call[r] + 1, at |-> StartOf(call[r] + 1)]

---------------------------------------------------------------------------
(* Entering a collective operation                                          *)

\* The step a status names: phase, iteration (zero outside the iteration) and
\* ordinal.
Step(r) == <<Instruction(r).phase,
             IF Instruction(r).phase \in {"GatherPreparation", "GatherValidation",
                                          "ResultAgreement"}
             THEN 0 ELSE at[r].iteration,
             Len(trace[r])>>

\* accept_distributed refuses a trace whose phases are out of order.
TraceRefused(r) == at[r].segment = "receipt" /\ at[r].index = 1 /\ ~PhasesOrdered(trace[r])

\* Faulty variant: the failed comparison is forgotten.
BoundToGiveUp(r) == at[r].segment = "stopped" /\ AtEnd(r)

\* Local results that are an error without any fault: the comparison before
\* this boundary failed, the solver gave up.
Bound(r) == \/ ~agreed[r]
            \/ at[r].segment = "stopped" /\ AtEnd(r)

\* Bound: one call of a session goes wrong, and no more than MaxFaults times.
MayFail(c) == faults[c] < MaxFaults /\ \A d \in Calls \ {c} : faults[d] = 0

\* A check of common data finds on one rank what it finds on the others.
Mates(r) == {q \in Ranks : inside[q].op = "status" /\ inside[q].step = Step(r)}

Results(r) ==
    IF Bound(r) \/ TraceRefused(r) THEN {FALSE}
    ELSE IF Instruction(r).op = "plain" THEN {TRUE}
    ELSE IF Instruction(r).shared /\ Mates(r) # {} THEN {inside[q].ok : q \in Mates(r)}
    ELSE IF MayFail(call[r]) THEN BOOLEAN ELSE {TRUE}

\* The run begins: PreparedRun reserves the trace and notes the admission.
BeginsRun(r) == at[r].segment = "admit" /\ at[r].index = 2

Traced(r) ==
    IF BeginsRun(r) THEN <<[phase |-> "Admission", iteration |-> 0]>>
    ELSE IF Instruction(r).op = "status"
         THEN Append(trace[r], [phase |-> Step(r)[1], iteration |-> Step(r)[2]])
    ELSE trace[r]

CanEnter(r) == /\ at[r] # Over
               /\ inside[r].op = "outside"
               /\ Instruction(r).op # "halo"

Full(r) == Instruction(r).op = "status" /\ Len(trace[r]) >= Capacity

\* The rank contributes what its local work found.
Contribute(r) ==
    /\ \E ok \in Results(r) :
          /\ inside' = [inside EXCEPT ![r] =
                [op |-> Instruction(r).op, phase |-> Instruction(r).phase,
                 step |-> IF Instruction(r).op = "status" THEN Step(r) ELSE <<>>,
                 ok |-> ok]]
          /\ spoiled' = IF ok \/ TraceRefused(r) THEN spoiled ELSE spoiled \cup {call[r]}
          /\ faults' = IF \/ ok \/ Bound(r) \/ TraceRefused(r)
                          \/ Instruction(r).shared /\ Mates(r) # {}
                       THEN faults ELSE [faults EXCEPT ![call[r]] = @ + 1]
    /\ trace' = [trace EXCEPT ![r] = Traced(r)]
    /\ UNCHANGED <<place, answer>>

\* next_step finds the reservation used up: the rank returns before the exchange.
Overflow(r) ==
    LET reply == Rejected(r, "capacity") IN
    /\ answer' = [answer EXCEPT ![call[r]][r] = reply]
    /\ call' = [call EXCEPT ![r] = AfterCall(r, reply).call]
    /\ at' = [at EXCEPT ![r] = AfterCall(r, reply).at]
    /\ UNCHANGED <<inside, trace, spoiled, faults>>

Enter(r) ==
    /\ CanEnter(r)
    /\ IF Full(r) THEN Overflow(r) ELSE Contribute(r)
    /\ agreed' = [agreed EXCEPT ![r] = TRUE]
    /\ UNCHANGED <<fixed, halo>>

---------------------------------------------------------------------------
(* Leaving a collective operation                                           *)

Lowest(S) == CHOOSE q \in S : \A p \in S : q <= p

Failed == {q \in Ranks : ~inside[q].ok}

\* What a rank makes of the gathered records: evaluate_phase_statuses,
\* agree_preparation, evaluate_admission and the comparisons.  Unanswered means
\* that the call goes on.
Verdict(r, strayed, failed) ==
    LET op == inside[r].op
        phase == inside[r].phase
    IN CASE op = "status" /\ strayed # {} -> Rejected(Lowest(strayed), "step")
         [] op = "status" /\ strayed = {} /\ failed # {} -> Rejected(Lowest(failed), phase)
         [] op = "readiness" /\ failed # {} ->
                Rejected(IF phase = "group" THEN NoRank ELSE Lowest(failed), phase)
         [] op = "verify" /\ failed # {} -> Rejected(NoRank, phase)
         [] OTHER -> IF AtEnd(r) /\ at[r].segment = "finish"
                        /\ ~TraceSound(trace[r], at[r].iteration)
                     THEN Rejected(r, "trace")
                     ELSE IF Successors(r) = {} THEN Accepted ELSE Unanswered

Strayed(r) == {q \in Ranks : inside[q].step # inside[r].step}

\* Faulty variants: a rank looks at its own status only; boundaries carry no
\* name; a rank that failed reports itself.
JudgeAlone(r) == Verdict(r, {}, Failed \cap {r})
JudgeUnnamed(r) == Verdict(r, {}, Failed)
JudgeOwnFirst(r) == Verdict(r, Strayed(r), IF r \in Failed THEN {r} ELSE Failed)

Judge(r) == Verdict(r, Strayed(r), Failed)

\* Every rank has entered the same operation, with the same extent.
Met == /\ \A r \in Ranks : inside[r].op # "outside"
       /\ \A q, r \in Ranks :
             /\ inside[q].op = inside[r].op
             /\ inside[r].op \in {"compare", "verify", "plain"} =>
                    inside[q].phase = inside[r].phase

Leave(turn) ==
    /\ inside' = [r \in Ranks |-> Outside]
    /\ answer' = [c \in Calls |-> [r \in Ranks |->
                     IF call[r] = c /\ Judge(r) # Unanswered THEN Judge(r) ELSE answer[c][r]]]
    /\ call' = [r \in Ranks |-> IF Judge(r) = Unanswered THEN call[r]
                                ELSE AfterCall(r, Judge(r)).call]
    /\ at' = [r \in Ranks |->
                 IF Judge(r) # Unanswered THEN AfterCall(r, Judge(r)).at
                 ELSE IF Cardinality(Successors(r)) = 1
                      THEN CHOOSE p \in Successors(r) : TRUE
                 ELSE turn[r]]
    /\ agreed' = [r \in Ranks |-> inside[r].op # "compare" \/ Failed = {}]
    /\ UNCHANGED <<fixed, trace, halo>>

\* Where the scalars may now send the ranks, if that is not settled.
Forks == IF \E r \in Ranks : Judge(r) # Unanswered THEN {}
         ELSE UNION {Successors(r) : r \in {q \in Ranks : Cardinality(Successors(q)) > 1}}

Gather ==
    /\ Met
    /\ \/ /\ Forks = {}
          /\ Leave(at)
       \/ \E p \in Forks : Leave([r \in Ranks |-> p])
    /\ UNCHANGED <<spoiled, faults>>

\* One rank has computed other scalars than its peers, and goes another way.
\* A lone rank has no peers.
Drift(stray) ==
    /\ Met /\ MayFail(call[stray]) /\ Ranks # {stray}
    /\ \E p, q \in Forks : p # q /\ Leave([r \in Ranks |-> IF r = stray THEN q ELSE p])
    /\ spoiled' = spoiled \cup {call[stray]}
    /\ faults' = [faults EXCEPT ![call[stray]] = @ + 1]

---------------------------------------------------------------------------
(* Halo exchange                                                            *)

InHalo(r) == at[r] # Over /\ Instruction(r).op = "halo"

\* HaloPlan::derive: by owner, then by receiver.
Earlier(p, q) == p[1] < q[1] \/ (p[1] = q[1] /\ p[2] < q[2])

\* The exchanges that the rank has yet to make, and whether this is the first.
Legs(r) == {p \in session.ghosts : r \in {p[1], p[2]} /\ p \notin passed[r]}
Facing(r, owner, receiver) ==
    LET next == <<owner, receiver>> IN
    InHalo(r) /\ next \in Legs(r) /\ \A p \in Legs(r) \ {next} : Earlier(next, p)

\* The exchange of which call, at which point of it: what a payload belongs to.
Stamp(r) == <<call[r], Len(trace[r])>>

\* A transport that buffers lets the owner go on; the receiver waits.
Send(owner, receiver) ==
    /\ eager /\ Facing(owner, owner, receiver)
    /\ wire' = [wire EXCEPT ![<<owner, receiver>>] = Append(@, Stamp(owner))]
    /\ passed' = [passed EXCEPT ![owner] = @ \cup {<<owner, receiver>>}]
    /\ UNCHANGED <<fixed, place, inside, agreed, trace, answer, spoiled, faults>>

Receive(owner, receiver) ==
    /\ Facing(receiver, owner, receiver) /\ wire[<<owner, receiver>>] # <<>>
    /\ wire' = [wire EXCEPT ![<<owner, receiver>>] = Tail(@)]
    /\ passed' = [passed EXCEPT ![receiver] = @ \cup {<<owner, receiver>>}]
    /\ UNCHANGED <<fixed, place, inside, agreed, trace, answer, spoiled, faults>>

\* A transport that does not buffer lets both go on together.
Transfer(owner, receiver) ==
    /\ ~eager /\ Facing(owner, owner, receiver) /\ Facing(receiver, owner, receiver)
    /\ passed' = [r \in Ranks |-> IF r \in {owner, receiver}
                                 THEN passed[r] \cup {<<owner, receiver>>} ELSE passed[r]]
    /\ UNCHANGED <<fixed, place, inside, agreed, trace, wire, answer, spoiled, faults>>

\* Faulty variant: a rank whose local work failed leaves with messages due to it.
LeaveHaloEarly(r) ==
    /\ InHalo(r) /\ (Legs(r) = {} \/ MayFail(call[r]))
    /\ at' = [at EXCEPT ![r].index = @ + 1]
    /\ passed' = [passed EXCEPT ![r] = {}]
    /\ UNCHANGED <<fixed, call, inside, agreed, trace, wire, answer, spoiled, faults>>

LeaveHalo(r) ==
    /\ InHalo(r) /\ Legs(r) = {}
    /\ at' = [at EXCEPT ![r].index = @ + 1]
    /\ passed' = [passed EXCEPT ![r] = {}]
    /\ UNCHANGED <<fixed, call, inside, agreed, trace, wire, answer, spoiled, faults>>

---------------------------------------------------------------------------
Collective == Gather \/ \E r \in Ranks : Drift(r)

RankStep(r) == \/ Enter(r) \/ LeaveHalo(r)
               \/ \E q \in Ranks : Send(r, q) \/ Receive(q, r) \/ Transfer(r, q)

Next == Collective \/ \E r \in Ranks : RankStep(r)

\* Ranks run, and the transport completes an operation that all have entered.
Spec == /\ Init /\ [][Next]_vars
        /\ WF_vars(Collective)
        /\ \A r \in Ranks : WF_vars(RankStep(r))

---------------------------------------------------------------------------
(* Properties                                                               *)

\* Ranks inside collective operations are inside the same operation of the same
\* call: with a drifted or failed peer, too, nobody enters an operation that
\* the others have left out (protocol.rs:68, runtime.rs:303).
CollectivesMatch ==
    \A q, r \in Ranks :
        inside[q].op # "outside" /\ inside[r].op # "outside" =>
            /\ call[q] = call[r]
            /\ inside[q].op = inside[r].op
            /\ inside[q].op \in {"compare", "verify", "plain"} =>
                   inside[q].phase = inside[r].phase

\* The payload a rank is about to receive was sent for the exchange it is in:
\* no call leaves a halo message behind for a later one.
HaloFresh ==
    \A owner, receiver \in Ranks :
        Facing(receiver, owner, receiver) =>
            /\ wire[<<owner, receiver>>] # <<>> =>
                   Head(wire[<<owner, receiver>>]) = Stamp(receiver)
            /\ ~eager /\ Facing(owner, owner, receiver) => Stamp(owner) = Stamp(receiver)

\* All ranks return the same diagnostic, unless they drifted apart: then each
\* names a peer, and all the same refuse.
CommonDiagnostic ==
    \A c \in Calls, q, r \in Ranks :
        answer[c][q].kind # "none" /\ answer[c][r].kind # "none" =>
            \/ answer[c][q] = answer[c][r]
            \/ {answer[c][q].phase, answer[c][r].phase} = {"step"}

\* A call that begins ends, on every rank, whatever fails: nobody waits for a
\* peer that has returned, and halo messages form no cycle of waiting ranks.
EveryCallReturns == <>(\A r \in Ranks : at[r] = Over)

\* The calls of a group implement unanimous ones: an answer is common to all
\* ranks, it is an acceptance if and only if nothing went wrong anywhere, and
\* the bounds on the trace and its grammar refuse no run of their own accord.
Unanimous ==
    INSTANCE UnanimousRun WITH
        answer <- [c \in Calls |-> [r \in Ranks |-> answer[c][r].kind]],
        spoiled <- spoiled
ImplementsUnanimous == Unanimous!Spec
=============================================================================
