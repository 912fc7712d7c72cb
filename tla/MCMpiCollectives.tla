-------------------------- MODULE MCMpiCollectives --------------------------
(* Instances of MpiCollectives: three ranks in a line of ghosts, a session    *)
(* on the host and one with a device on every rank.                           *)
EXTENDS MpiCollectives

Line == {<<0, 1>>, <<1, 0>>, <<1, 2>>, <<2, 1>>}

Host == [calls |-> <<"duplicate", "bind", "execute", "execute">>,
         algorithm |-> "cg", ghosts |-> Line]
Device == [calls |-> <<"duplicate", "deviceSelect", "topology", "deviceExecute">>,
           algorithm |-> "minres", ghosts |-> Line]

ThreeRanks == 0..2
BothSessions == {Host, Device}
=============================================================================
