----------------------------- MODULE OrderedMap -----------------------------
(* What an evaluation map promises: every occurrence gets at most one outcome,*)
(* accepted members are delivered in request order and each once, and the     *)
(* verdict is complete exactly if every occurrence was accepted.              *)
EXTENDS Naturals, Sequences

CONSTANT Count
VARIABLES outcomes, delivered, verdict

vars == <<outcomes, delivered, verdict>>

Members == 0..(Count - 1)
AcceptedOnes == {i \in Members : outcomes[i] = "Accepted"}
Delivered == {delivered[k] : k \in 1..Len(delivered)}

Init == /\ outcomes = [i \in Members |-> "NotStarted"]
        /\ delivered = <<>>
        /\ verdict = "none"

Resolve(i) ==
    /\ verdict = "none"
    /\ outcomes[i] = "NotStarted"
    /\ \E o \in {"Accepted", "Failed", "Cancelled"} :
          outcomes' = [outcomes EXCEPT ![i] = o]
    /\ UNCHANGED <<delivered, verdict>>

\* The next accepted member, when none before it is missing or still to come.
Deliver(i) ==
    /\ verdict = "none"
    /\ outcomes[i] = "Accepted" /\ i \notin Delivered
    /\ \A j \in Members : j < i =>
          outcomes[j] # "NotStarted" /\ (j \in AcceptedOnes => j \in Delivered)
    /\ delivered' = Append(delivered, i)
    /\ UNCHANGED <<outcomes, verdict>>

\* A map that stops short has a failed or cancelled occurrence to show for it.
Finish ==
    /\ verdict = "none"
    /\ AcceptedOnes = Delivered
    /\ \/ AcceptedOnes = Members /\ verdict' = "complete"
       \/ /\ \E i \in Members : outcomes[i] \in {"Failed", "Cancelled"}
          /\ verdict' = "terminal"
    /\ UNCHANGED <<outcomes, delivered>>

Next == Finish \/ \E i \in Members : Resolve(i) \/ Deliver(i)

Spec == Init /\ [][Next]_vars
=============================================================================
