---------------------------- MODULE UnanimousRun ----------------------------
(* What the collective calls of an MPI group promise: every rank gives a call *)
(* the same answer, the answer is an acceptance only if nothing went wrong on *)
(* any rank, and a call that one rank has answered all ranks answer.          *)
CONSTANTS Calls,  \* the calls of the program, which all ranks make in turn
          Ranks

VARIABLES answer,   \* answer[c][r]: "none", "accepted" or "rejected"
          spoiled   \* calls in which something went wrong on some rank

vars == <<answer, spoiled>>

Init == /\ answer = [c \in Calls |-> [r \in Ranks |-> "none"]]
        /\ spoiled = {}

Unanswered(c) == \A r \in Ranks : answer[c][r] = "none"

\* Nothing goes wrong any more once a rank has its answer.
Spoil(c) == /\ Unanswered(c)
            /\ spoiled' = spoiled \cup {c}
            /\ UNCHANGED answer

\* Ranks return from the call, together or one after the other.
Return(c) ==
    \E S \in SUBSET {r \in Ranks : answer[c][r] = "none"} :
        /\ S # {}
        /\ answer' = [answer EXCEPT ![c] = [r \in Ranks |->
                         IF r \notin S THEN answer[c][r]
                         ELSE IF c \in spoiled THEN "rejected" ELSE "accepted"]]
        /\ UNCHANGED spoiled

Next == \E c \in Calls : Spoil(c) \/ Return(c)

Spec == /\ Init /\ [][Next]_vars
        /\ \A c \in Calls : WF_vars(~Unanswered(c) /\ Return(c))
=============================================================================
