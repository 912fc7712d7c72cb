--------------------------- MODULE VersionedGraph ---------------------------
(***************************************************************************)
(* What the Graph Federation promises its clients: one graph under a       *)
(* revision counter, replaced as a whole by sound graphs only, and read    *)
(* through views that stay what they were.  Transactions, their            *)
(* operations, rejection and validation are invisible here.                *)
(***************************************************************************)
EXTENDS Naturals

CONSTANTS
    Clients,
    Sound(_),     \* what every published graph satisfies
    EmptyGraph

VARIABLES
    revision,     \* of the published graph
    graph,        \* the published graph
    views         \* client |-> the revision and graph it is reading

vvars == <<revision, graph, views>>

Init == /\ revision = 0
        /\ graph = EmptyGraph
        /\ views = [c \in Clients |-> [revision |-> 0, graph |-> EmptyGraph]]

(* A checkpoint is opened at the revision it was saved with.                *)
Open == /\ revision = 0
        /\ revision' # 0
        /\ Sound(graph')
        /\ views' = [c \in Clients |-> [revision |-> revision', graph |-> graph']]

Publish == /\ revision' = revision + 1
           /\ Sound(graph')
           /\ UNCHANGED views

Read(c) == /\ views' = [views EXCEPT ![c] = [revision |-> revision, graph |-> graph]]
           /\ UNCHANGED <<revision, graph>>

Next == Open \/ Publish \/ \E c \in Clients : Read(c)

Spec == Init /\ [][Next]_vvars
=============================================================================
