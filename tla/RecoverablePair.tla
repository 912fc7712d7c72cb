--------------------------- MODULE RecoverablePair ---------------------------
(***************************************************************************)
(* What the project transaction promises: the manifest and its lock are    *)
(* one accepted pair.  A publication offers another pair; whatever becomes *)
(* of it, the accepted pair is the old one or the offered one, and it does *)
(* not change under a reader that is using it.                             *)
(***************************************************************************)
EXTENDS Naturals

CONSTANTS
    Pairs,
    Users,        \* readers that hold the guard
    NotReading

VARIABLES
    pair,         \* the accepted pair
    choice,       \* what the last publication may leave accepted
    using         \* user |-> the pair it is working with

pvars == <<pair, choice, using>>

Init == /\ pair \in Pairs
        /\ choice = {pair}
        /\ using = [u \in Users |-> NotReading]

Unused == \A u \in Users : using[u] = NotReading

Offer == /\ Unused
         /\ \E p \in Pairs : choice' = {pair, p}
         /\ UNCHANGED <<pair, using>>

Settle == /\ Unused
          /\ pair' \in choice
          /\ UNCHANGED <<choice, using>>

Use(u) == /\ using[u] = NotReading
          /\ using' = [using EXCEPT ![u] = pair]
          /\ UNCHANGED <<pair, choice>>

Leave(u) == /\ using' = [using EXCEPT ![u] = NotReading]
            /\ UNCHANGED <<pair, choice>>

Next == Offer \/ Settle \/ \E u \in Users : Use(u) \/ Leave(u)

Spec == Init /\ [][Next]_pvars
=============================================================================
