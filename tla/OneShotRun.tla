----------------------------- MODULE OneShotRun -----------------------------
(* What a Run promises to those who hold it: it settles once, it is cancelled *)
(* only when somebody asked, and everybody who asks for the result gets the   *)
(* same answer, the same object if there is one.                              *)
CONSTANTS Callers, NoAnswer, NoObject, Broken
VARIABLES asked, outcome, object, answer

vars == <<asked, outcome, object, answer>>

Outcomes == {"Completed", "Cancelled", "Failed"}

Init == /\ asked = FALSE
        /\ outcome = "none"
        /\ object = NoObject
        /\ answer = [c \in Callers |-> NoAnswer]

\* Somebody asks for cancellation before the run has settled.
Ask == /\ outcome = "none"
       /\ asked' = TRUE
       /\ UNCHANGED <<outcome, object, answer>>

\* The run settles, once and for all.
Settle(o) == /\ outcome = "none"
             /\ o = "Cancelled" => asked
             /\ outcome' = o
             /\ UNCHANGED <<asked, object, answer>>

\* One caller turns the completed payload into the object, or fails to.
Produce(c) == /\ outcome = "Completed"
              /\ object = NoObject
              /\ object' \in {c, Broken}
              /\ answer' = [answer EXCEPT ![c] = object']
              /\ UNCHANGED <<asked, outcome>>

\* A caller is told the outcome, or the object of a completed run.
Tell(c) == /\ \/ /\ outcome \in {"Cancelled", "Failed"}
                 /\ answer' = [answer EXCEPT ![c] = outcome]
              \/ /\ object # NoObject
                 /\ answer' = [answer EXCEPT ![c] = object]
           /\ UNCHANGED <<asked, outcome, object>>

Next == \/ Ask
        \/ \E o \in Outcomes : Settle(o)
        \/ \E c \in Callers : Produce(c) \/ Tell(c)

\* A run settles whether or not anybody asks.
Spec == Init /\ [][Next]_vars /\ WF_vars(\E o \in Outcomes : Settle(o))
=============================================================================
