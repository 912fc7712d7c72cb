---------------------------- MODULE MCGraphStore ----------------------------
(* Instances of GraphStore for TLC.  `p` is a Parameter, `f` a Field whose   *)
(* declaration structurally reads it, `s` a realization node that    *)
(* would share its ULID, `t` an identifier a commit may be given.            *)
EXTENDS GraphStore

CONSTANTS u1, u2, t1, a1, a2, b1, w

MCTypeOf == [v \in {a1, a2, b1} |-> IF v = b1 THEN "B" ELSE "A"]

p == [kind |-> "Parameter", ulid |-> u1]
f == [kind |-> "Field", ulid |-> u2]
s == [kind |-> "Space", ulid |-> u2]
t == [kind |-> "Transaction", ulid |-> t1]

DefP(v)  == [op |-> "DefineKernelNode", id |-> p, value |-> v]
DefF     == [op |-> "DefineKernelNode", id |-> f, value |-> NoValue]
AddS     == [op |-> "AddNode", kind |-> "Space", id |-> s]
AddT     == [op |-> "AddNode", kind |-> "Transaction", id |-> t]
AddBad   == [op |-> "AddNode", kind |-> "Space", id |-> p]
Set(v)   == [op |-> "SetValue", target |-> p, value |-> v]
Reads    == [op |-> "Connect", from |-> f, to |-> p,
             edge |-> "StructurallyDependsOn"]
Realizes == [op |-> "Connect", from |-> s, to |-> p, edge |-> "Realizes"]
BadEdge  == [op |-> "Connect", from |-> p, to |-> f, edge |-> "HasPort"]
Mutates  == [op |-> "Connect", from |-> t, to |-> p, edge |-> "Mutates"]
Drop(n)  == [op |-> "RemoveNode", id |-> n]
View     == [op |-> "DefineOntologyView", id |-> w, members |-> {p}]
NoView   == [op |-> "RemoveOntologyView", id |-> w]

Pool == {DefP(a1), Set(a2), Reads, Drop(p), View}

(* Every order of up to two operations, and the longer lists in which the    *)
(* guards meet.                                                              *)
MCOpLists ==
    {<<o>> : o \in Pool \cup {AddT, AddBad, Set(b1), BadEdge, Drop(t), Drop(f),
                            NoView, Mutates}}
      \cup {<<o1, o2>> : o1, o2 \in Pool}
      \cup {<<DefP(a1), DefF, Reads>>, <<Drop(f), DefF, Reads, Set(a2)>>,
            <<Drop(f), Set(a2), DefF, Reads>>, <<Drop(p), DefP(a2), Reads>>,
            <<DefP(a1), View, Reads>>, <<NoView, Drop(p), DefP(a2), View>>,
            <<DefF, Reads>>, <<AddS, DefP(a1), Realizes>>, <<AddS, DefF>>, <<Drop(t), Drop(p)>>}
=============================================================================
