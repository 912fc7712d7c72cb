-------------------------- MODULE GraphStoreProofs --------------------------
(***************************************************************************)
(* What the Graph Federation store guarantees for every set of ULIDs,      *)
(* values, views, clients and operation lists: the invariants of           *)
(* GraphStore, by induction over what a call knows of its candidate, then  *)
(* the action properties and the refinement that follow from them.         *)
(***************************************************************************)
EXTENDS GraphStore, TLAPS

USE StoreAssumption

(* Editing the node map of a state leaves a state. *)
LEMMA NodesEdit ==
    ASSUME NEW s, IsState(s), NEW id \in RawId, NEW v \in NodeValue
    PROVE  IsState([s EXCEPT !.nodes = With(@, id, v)])
BY DEF IsState, With

LEMMA NodesDrop ==
    ASSUME NEW s, IsState(s), NEW id, NEW es, es \subseteq s.edges
    PROVE  IsState([s EXCEPT !.nodes = Without(@, id), !.edges = es])
BY DEF IsState, Without

LEMMA EdgesEdit ==
    ASSUME NEW s, IsState(s), NEW e \in Edge
    PROVE  IsState([s EXCEPT !.edges = @ \cup {e}])
BY DEF IsState

LEMMA ViewsEdit ==
    ASSUME NEW s, IsState(s), NEW v \in ViewIds, NEW m \in SUBSET SemanticId
    PROVE  /\ IsState([s EXCEPT !.views = With(@, v, m)])
           /\ IsState([s EXCEPT !.views = Without(@, v)])
BY DEF IsState, With, Without

LEMMA DefaultIsState == IsState(DefaultState)
BY DEF IsState, DefaultState, Empty, Revision

(* The fields an operation of a given name has. *)
LEMMA OpFields ==
    ASSUME NEW o \in Op
    PROVE  /\ o.op = "AddNode" => o.kind \in EntityKinds /\ o.id \in RawId
           /\ o.op = "DefineKernelNode" =>
                o.id \in SemanticId /\ o.id \in RawId /\ o.value \in NodeValue
           /\ o.op = "SetValue" => o.target \in RawId /\ o.value \in Values
           /\ o.op = "Connect" => /\ o.from \in RawId
                                  /\ o.to \in RawId
                                  /\ o.edge \in EdgeKinds
           /\ o.op = "RemoveNode" => o.id \in RawId
           /\ o.op = "DefineOntologyView" =>
                o.id \in ViewIds /\ o.members \in SUBSET SemanticId
           /\ o.op = "RemoveOntologyView" => o.id \in ViewIds
BY DEF Op, SemanticId

(* The state FinishCommit publishes is a state. *)
LEMMA SealIsState ==
    ASSUME NEW s, IsState(s), s.revision < MaxRevision, NEW u \in Ulids
    PROVE  IsState(Sealed(s, [kind |-> "Transaction", ulid |-> u]))
<1> DEFINE id == [kind |-> "Transaction", ulid |-> u]
           r  == [transaction |-> id, revision |-> s.revision + 1]
<1>1. id \in RawId /\ id.kind = "Transaction"
    BY DEF RawId, EntityKinds, ActionProvenanceKinds
<1>2. r \in CommitRecord
    BY <1>1 DEF CommitRecord, IsState, Revision
<1>3. Append(s.commits, r) \in Seq(CommitRecord)
    BY <1>2 DEF IsState
<1>4. s.revision + 1 \in Revision
    BY DEF IsState, Revision
<1>5. /\ DOMAIN With(s.nodes, id, NoValue) \subseteq RawId
      /\ With(s.nodes, id, NoValue)
           \in [DOMAIN With(s.nodes, id, NoValue) -> NodeValue]
    BY <1>1 DEF IsState, With, NodeValue
<1> QED
    BY <1>3, <1>4, <1>5 DEF IsState, Sealed

(* The types of the variables a call in progress keeps. *)
LEMMA EnterTypes ==
    ASSUME TypeOK, NEW c \in Clients, NEW list \in OpLists, NEW pre,
           NEW m \in {"validate", "commit", "restore"}, NEW base, IsState(base),
           NEW r \in Revision, Enter(c, m, base, list, pre, r)
    PROVE  TypeOK'
<1>1. CASE MayStart(base, list, pre)
    <2>1. list \in Seq(Op) /\ 1 \in Nat \ {0}
        BY DEF StoreAssumption
    <2>2. /\ mode' = m /\ caller' = c /\ ops' = list /\ restoring' = r
          /\ at' = 1 /\ candidate' = base /\ failed' = FALSE
          /\ UNCHANGED <<result, state, snapshots>>
        BY <1>1 DEF Enter
    <2> QED
        BY <2>1, <2>2 DEF TypeOK
<1>2. CASE ~MayStart(base, list, pre)
    BY <1>2 DEF Enter, TypeOK, IsState, call
<1> QED
    BY <1>1, <1>2

LEMMA ReturnTypes ==
    ASSUME TypeOK, NEW s, IsState(s),
           NEW answer \in {"rejected", "valid", "committed", "exhausted",
                           "restored"},
           Return(answer, s), IsState(state'),
           snapshots' = [c \in Clients |-> snapshots'[c]],
           \A c \in Clients : IsState(snapshots'[c])
    PROVE  TypeOK'
<1>1. 0 \in Revision /\ 1 \in Nat \ {0} /\ <<>> \in Seq(Op)
    BY DEF Revision
<1> QED
    BY <1>1 DEF Return, TypeOK

(* Every variable always has its type. *)
THEOREM TypeCorrect == Spec => []TypeOK
<1>1. Init => TypeOK
    <2>1. 0 \in Revision /\ 1 \in Nat \ {0} /\ <<>> \in Seq(Op)
        BY DEF Revision
    <2> QED
        BY <2>1, DefaultIsState DEF Init, TypeOK
<1>2. TypeOK /\ [Next]_vars => TypeOK'
    <2> SUFFICES ASSUME TypeOK, [Next]_vars PROVE TypeOK'
        OBVIOUS
    <2>1. CASE UNCHANGED vars
        BY <2>1 DEF TypeOK, IsState, vars, call
    <2>2. ASSUME NEW c \in Clients, Client(c) PROVE TypeOK'
        <3>1. CASE TakeSnapshot(c)
            BY <3>1 DEF TakeSnapshot, TypeOK, IsState, call
        <3>2. ASSUME NEW list \in OpLists, BeginValidate(c, list) PROVE TypeOK'
            <4>1. 0 \in Revision
                BY DEF Revision
            <4> QED
                BY <3>2, <4>1, EnterTypes DEF BeginValidate, TypeOK
        <3>3. ASSUME NEW list \in OpLists, BeginCommit(c, list) PROVE TypeOK'
            <4>1. 0 \in Revision
                BY DEF Revision
            <4> QED
                BY <3>3, <4>1, EnterTypes DEF BeginCommit, TypeOK
        <3>4. ASSUME NEW list \in OpLists, NEW r \in Revision,
                     BeginRestore(c, list, r)
              PROVE  TypeOK'
            <4>1. PICK pre : IF r # 0 /\ pre = {}
                             THEN Enter(c, "restore", DefaultState, list, pre, r)
                             ELSE /\ result' = [result EXCEPT ![c] = "refused"]
                                  /\ UNCHANGED <<state, snapshots, call>>
                BY <3>4 DEF BeginRestore
            <4>2. CASE r # 0 /\ pre = {}
                BY <4>1, <4>2, DefaultIsState, EnterTypes
            <4>3. CASE ~(r # 0 /\ pre = {})
                BY <4>1, <4>3 DEF TypeOK, IsState, call
            <4> QED
                BY <4>2, <4>3
        <3> QED
            BY <2>2, <3>1, <3>2, <3>3, <3>4 DEF Client
    <2>3. CASE Apply
        <3> SUFFICES ASSUME Running PROVE TypeOK'
            BY <2>3 DEF Apply, AddNode, DefineKernelNode, SetValue, Connect,
                        RemoveNode, DefineOntologyView, RemoveOntologyView,
                        FailOp, Run
        <3> DEFINE o == ops[at]
        <3>1. o \in Op /\ IsState(candidate)
            BY DEF Running, TypeOK
        <3> HIDE DEF o
        <3>2. (IsState(candidate') /\ Advance) => TypeOK'
            BY DEF Advance, TypeOK, IsState
        <3>3. CASE AddNode
            BY <3>1, <3>2, <3>3, OpFields, NodesEdit
               DEF AddNode, Run, NodeValue, o
        <3>4. CASE DefineKernelNode
            BY <3>1, <3>2, <3>4, OpFields, NodesEdit
               DEF DefineKernelNode, Run, o
        <3>5. CASE SetValue
            BY <3>1, <3>2, <3>5, OpFields, NodesEdit
               DEF SetValue, Run, NodeValue, o
        <3>6. CASE Connect
            <4>1. [from |-> o.from, to |-> o.to, kind |-> o.edge] \in Edge
                BY <3>1, <3>6, OpFields DEF Connect, Run, Edge, o
            <4> QED
                BY <3>1, <3>2, <3>6, <4>1, EdgesEdit DEF Connect, o
        <3>7. CASE RemoveNode
            BY <3>1, <3>2, <3>7, NodesDrop DEF RemoveNode, o
        <3>8. CASE DefineOntologyView
            BY <3>1, <3>2, <3>8, OpFields, ViewsEdit
               DEF DefineOntologyView, Run, o
        <3>9. CASE RemoveOntologyView
            <4>1. o.id \in ViewIds
                BY <3>1, <3>9, OpFields DEF RemoveOntologyView, Run, o
            <4> QED
                BY <3>1, <3>2, <3>9, <4>1, ViewsEdit DEF RemoveOntologyView, o
        <3>10. CASE FailOp
            BY <3>10 DEF FailOp, TypeOK, IsState
        <3> QED
            BY <2>3, <3>3, <3>4, <3>5, <3>6, <3>7, <3>8, <3>9, <3>10 DEF Apply
    <2>4. CASE Finish
        <3>1. CASE Reject
            BY <3>1, ReturnTypes DEF Reject, TypeOK
        <3>2. CASE FinishValidate
            BY <3>2, ReturnTypes DEF FinishValidate, TypeOK
        <3>3. CASE FinishCommit
            <4>1. PICK u \in Ulids : Mint(u)
                BY <3>3 DEF FinishCommit
            <4>2. IsState(state')
                BY <3>3, <4>1, SealIsState DEF FinishCommit, Mint, TypeOK
            <4>3. Return("committed", state')
                BY <4>1 DEF Mint
            <4> QED
                BY <3>3, <4>2, <4>3, ReturnTypes DEF FinishCommit, TypeOK
        <3>4. CASE ExhaustCommit
            BY <3>4, ReturnTypes DEF ExhaustCommit, TypeOK
        <3>5. CASE FinishRestore
            <4>1. IsState([candidate EXCEPT !.revision = restoring])
                BY DEF TypeOK, IsState
            <4>2. IsState(state')
                BY <3>5, <4>1 DEF FinishRestore
            <4> QED
                BY <3>5, <4>2, ReturnTypes DEF FinishRestore
        <3> QED
            BY <2>4, <3>1, <3>2, <3>3, <3>4, <3>5 DEF Finish
    <2> QED
        BY <2>1, <2>2, <2>3, <2>4 DEF Next
<1> QED
    BY <1>1, <1>2, PTL DEF Spec

-----------------------------------------------------------------------------
(* A step touches the graph in one of four ways: it leaves published state  *)
(* and candidate alone, it starts or ends a call, it edits the candidate by *)
(* one accepted operation, or it publishes the finished candidate.          *)
Begins == /\ mode = "idle"
          /\ mode' \in {"validate", "commit", "restore"}
          /\ mode' = "restore" => state = DefaultState /\ restoring' # 0
          /\ candidate' = Base'
          /\ \E pre : MayStart(candidate', ops', pre)
          /\ at' = 1
          /\ UNCHANGED <<state, snapshots>>
Ends == /\ mode' = "idle"
        /\ ops' = <<>>
        /\ failed' = FALSE
        /\ candidate' = state
        /\ UNCHANGED <<state, snapshots>>
Edits == /\ Running
         /\ \/ AddNode \/ DefineKernelNode \/ SetValue \/ Connect \/ RemoveNode
            \/ DefineOntologyView \/ RemoveOntologyView
         /\ at' = at + 1
         /\ UNCHANGED <<state, snapshots, mode, ops, restoring, failed>>
Rests == /\ at' \in {at, at + 1}
         /\ failed' # failed => Running
         /\ UNCHANGED <<state, candidate, snapshots, mode, ops, restoring>>
Publishes == \E u \in Ulids : Mint(u) /\ Finished("commit") /\ Applied
                               /\ candidate.revision < MaxRevision /\ UNCHANGED snapshots

LEMMA StepShapes ==
    ASSUME [Next]_vars
    PROVE  \/ Begins \/ Ends \/ Edits \/ Rests \/ Publishes \/ FinishRestore
           \/ \E c \in Clients : TakeSnapshot(c)
<1>1. CASE UNCHANGED vars
    BY <1>1 DEF vars, call, Rests
<1>2. ASSUME NEW c \in Clients, Client(c)
      PROVE  Begins \/ Rests \/ TakeSnapshot(c)
    <2>1. ASSUME NEW m \in {"validate", "commit", "restore"}, NEW base, NEW list,
                 NEW pre, NEW r, Enter(c, m, base, list, pre, r),
                 IF m = "restore" THEN base = DefaultState /\ state = DefaultState
                                       /\ r # 0
                                  ELSE base = state
          PROVE  Begins \/ Rests
        <3>1. CASE MayStart(base, list, pre)
            BY <2>1, <3>1 DEF Enter, Begins, Base
        <3>2. CASE ~MayStart(base, list, pre)
            BY <2>1, <3>2 DEF Enter, Rests, call
        <3> QED
            BY <3>1, <3>2
    <2>2. ASSUME NEW list, BeginValidate(c, list) PROVE Begins \/ Rests
        BY <2>1, <2>2 DEF BeginValidate
    <2>3. ASSUME NEW list, BeginCommit(c, list) PROVE Begins \/ Rests
        BY <2>1, <2>3 DEF BeginCommit
    <2>4. ASSUME NEW list, NEW r, BeginRestore(c, list, r) PROVE Begins \/ Rests
        BY <2>1, <2>4 DEF BeginRestore, Rests, call
    <2> QED
        BY <1>2, <2>2, <2>3, <2>4 DEF Client
<1>3. CASE Apply
    BY <1>3 DEF Apply, Edits, Rests, AddNode, DefineKernelNode, SetValue, Connect,
                RemoveNode, DefineOntologyView, RemoveOntologyView, FailOp, Run,
                Advance
<1>4. CASE Finish
    BY <1>4 DEF Finish, Reject, FinishValidate, FinishCommit, ExhaustCommit, Return,
                Ends, Publishes
<1> QED
    BY <1>1, <1>2, <1>3, <1>4 DEF Next

(* Edges always join present nodes of admitted kinds. *)
THEOREM EdgesTheorem == Spec => []EdgesGrounded
<1>1. Init => EdgesGrounded
    BY DEF Init, EdgesGrounded, EdgesOf, DefaultState
<1>2. TypeOK /\ EdgesGrounded /\ [Next]_vars => EdgesGrounded'
    <2> SUFFICES ASSUME TypeOK, EdgesGrounded, [Next]_vars PROVE EdgesGrounded'
        OBVIOUS
    <2>1. CASE Begins
        BY <2>1 DEF Begins, Base, EdgesGrounded, EdgesOf, DefaultState
    <2>2. CASE Ends \/ Rests \/ \E c \in Clients : TakeSnapshot(c)
        BY <2>2 DEF Ends, Rests, TakeSnapshot, call, EdgesGrounded, EdgesOf
    <2>3. CASE Edits
        <3> SUFFICES EdgesOf(candidate')
            BY <2>3 DEF Edits, EdgesGrounded
        <3> USE DEF EdgesGrounded, EdgesOf, TypeOK, IsState
        <3>1. CASE AddNode
            BY <3>1 DEF AddNode, With
        <3>2. CASE DefineKernelNode
            BY <3>2 DEF DefineKernelNode, With
        <3>3. CASE SetValue
            BY <3>3 DEF SetValue, With
        <3>4. CASE Connect
            BY <3>4 DEF Connect, ConnectOk
        <3>5. CASE RemoveNode
            <4> DEFINE id == ops[at].id
            <4>1. /\ candidate'.edges = {e \in candidate.edges : id \notin {e.from, e.to}}
                  /\ DOMAIN candidate'.nodes = DOMAIN candidate.nodes \ {id}
                BY <3>5 DEF RemoveNode, Without
            <4> HIDE DEF id
            <4>2. ASSUME NEW e \in candidate'.edges
                  PROVE  /\ {e.from, e.to} \subseteq DOMAIN candidate'.nodes
                         /\ Permits(e.kind, e.from.kind, e.to.kind)
                BY <4>1, <4>2
            <4> QED
                BY <4>2
        <3>6. CASE DefineOntologyView \/ RemoveOntologyView
            <4>1. /\ candidate'.edges = candidate.edges
                  /\ candidate'.nodes = candidate.nodes
                BY <3>6 DEF DefineOntologyView, RemoveOntologyView
            <4> QED
                BY <4>1
        <3> QED
            BY <2>3, <3>1, <3>2, <3>3, <3>4, <3>5, <3>6 DEF Edits
    <2>4. CASE Publishes
        <3>1. PICK u \in Ulids : Mint(u)
            BY <2>4 DEF Publishes
        <3> QED
            BY <3>1 DEF Mint, Sealed, Return, With, EdgesGrounded, EdgesOf, TypeOK,
                        IsState
    <2>5. CASE FinishRestore
        BY <2>5 DEF FinishRestore, Return, EdgesGrounded, EdgesOf, TypeOK, IsState
    <2> QED
        BY <2>1, <2>2, <2>3, <2>4, <2>5, StepShapes
<1> QED
    BY <1>1, <1>2, TypeCorrect, PTL DEF Spec

(* One ULID never names two nodes. *)
THEOREM UlidsTheorem == Spec => []UlidsUnique
<1>1. Init => UlidsUnique
    BY DEF Init, UlidsUnique, UlidsOf, DefaultState, Empty
<1>2. TypeOK /\ UlidsUnique /\ [Next]_vars => UlidsUnique'
    <2> SUFFICES ASSUME TypeOK, UlidsUnique, [Next]_vars PROVE UlidsUnique'
        OBVIOUS
    <2>1. CASE Begins
        BY <2>1 DEF Begins, Base, UlidsUnique, UlidsOf, DefaultState, Empty
    <2>2. CASE Ends \/ Rests \/ \E c \in Clients : TakeSnapshot(c)
        BY <2>2 DEF Ends, Rests, TakeSnapshot, call, UlidsUnique, UlidsOf
    <2>3. CASE Edits
        <3> SUFFICES UlidsOf(candidate')
            BY <2>3 DEF Edits, UlidsUnique
        <3> USE DEF UlidsUnique, UlidsOf, TypeOK, IsState
        <3>1. CASE AddNode
            BY <3>1 DEF AddNode, AddNodeOk, HasUlid, With
        <3>2. CASE DefineKernelNode
            BY <3>2 DEF DefineKernelNode, DefineKernelNodeOk, HasUlid, With
        <3>3. CASE SetValue
            BY <3>3 DEF SetValue, SetValueOk, With
        <3>4. CASE RemoveNode
            BY <3>4 DEF RemoveNode, Without
        <3>5. CASE Connect \/ DefineOntologyView \/ RemoveOntologyView
            <4>1. candidate'.nodes = candidate.nodes
                BY <3>5 DEF Connect, DefineOntologyView, RemoveOntologyView
            <4> QED
                BY <4>1
        <3> QED
            BY <2>3, <3>1, <3>2, <3>3, <3>4, <3>5 DEF Edits
    <2>4. CASE Publishes
        <3>1. PICK u \in Ulids : Mint(u)
            BY <2>4 DEF Publishes
        <3> QED
            BY <3>1 DEF Mint, Sealed, Return, With, HasUlid, UlidsUnique, UlidsOf,
                        TypeOK, IsState
    <2>5. CASE FinishRestore
        BY <2>5 DEF FinishRestore, Return, UlidsUnique, UlidsOf, TypeOK, IsState
    <2> QED
        BY <2>1, <2>2, <2>3, <2>4, <2>5, StepShapes
<1> QED
    BY <1>1, <1>2, TypeCorrect, PTL DEF Spec

(* What a published or held view names is there. *)
THEOREM ViewsTheorem == Spec => []ViewsComplete
<1>1. Init => ViewsComplete
    BY DEF Init, ViewsComplete, ViewsGrounded, DefaultState, Empty
<1>2. TypeOK /\ ViewsComplete /\ [Next]_vars => ViewsComplete'
    <2> SUFFICES ASSUME TypeOK, ViewsComplete, [Next]_vars PROVE ViewsComplete'
        OBVIOUS
    <2>1. CASE Begins \/ Ends \/ Edits \/ Rests
        BY <2>1 DEF Begins, Ends, Edits, Rests, ViewsComplete
    <2>2. ASSUME NEW c \in Clients, TakeSnapshot(c) PROVE ViewsComplete'
        BY <2>2 DEF TakeSnapshot, ViewsComplete, TypeOK
    <2>3. CASE Publishes
        <3>1. PICK u \in Ulids : Mint(u) /\ Applied /\ UNCHANGED snapshots
            BY <2>3 DEF Publishes
        <3>2. ViewsGrounded(state')
            BY <3>1 DEF Mint, Sealed, With, Applied, ViewsGrounded, TypeOK, IsState
        <3> QED
            BY <3>1, <3>2 DEF ViewsComplete
    <2>4. CASE FinishRestore
        <3>1. ViewsGrounded(state')
            BY <2>4 DEF FinishRestore, Applied, ViewsGrounded, TypeOK, IsState
        <3> QED
            BY <2>4, <3>1 DEF FinishRestore, ViewsComplete
    <2> QED
        BY <2>1, <2>2, <2>3, <2>4, StepShapes
<1> QED
    BY <1>1, <1>2, TypeCorrect, PTL DEF Spec

-----------------------------------------------------------------------------
(* A call in progress knows the history it started from: the candidate has  *)
(* the revision, the records and the provenance nodes of its base.          *)
LEMMA KeepsHistory == Spec => []CandidateKeepsHistory
<1> USE DEF CandidateKeepsHistory
<1>1. Init => CandidateKeepsHistory
    BY DEF Init, Base, DefaultState, Empty
<1>2. TypeOK /\ CandidateKeepsHistory /\ [Next]_vars => CandidateKeepsHistory'
    <2> SUFFICES ASSUME TypeOK, CandidateKeepsHistory, [Next]_vars
                 PROVE  CandidateKeepsHistory'
        OBVIOUS
    <2>1. CASE Begins
        BY <2>1 DEF Begins
    <2>2. CASE Ends
        BY <2>2 DEF Ends, Base
    <2>3. CASE Rests
        BY <2>3 DEF Rests, Running, Base
    <2>4. CASE Edits
        <3> DEFINE P(f) == {id \in DOMAIN f : id.kind = "Transaction"}
        <3> SUFFICES /\ candidate'.revision = candidate.revision
                     /\ candidate'.commits = candidate.commits
                     /\ P(candidate'.nodes) = P(candidate.nodes)
            BY <2>4 DEF Edits, Base, Running
        <3> USE DEF TypeOK, IsState
        <3>1. CASE AddNode
            BY <3>1 DEF AddNode, AddNodeOk, With
        <3>2. CASE DefineKernelNode
            <4> DEFINE o == ops[at]
            <4>0. o \in Op /\ o.op = "DefineKernelNode"
                BY <3>2 DEF DefineKernelNode, Run, Running
            <4> HIDE DEF o
            <4>2. o.id.kind \in SemanticKinds
                BY <4>0, OpFields DEF SemanticId
            <4>1. ops[at].id.kind # "Transaction"
                BY <4>2 DEF SemanticKinds, o
            <4> QED
                BY <3>2, <4>1 DEF DefineKernelNode, With
        <3>3. CASE SetValue
            BY <3>3 DEF SetValue, SetValueOk, With
        <3>4. CASE RemoveNode
            BY <3>4 DEF RemoveNode, RemoveNodeOk, Without
        <3>5. CASE Connect
            BY <3>5 DEF Connect
        <3>6. CASE DefineOntologyView \/ RemoveOntologyView
            BY <3>6 DEF DefineOntologyView, RemoveOntologyView
        <3> QED
            BY <2>4, <3>1, <3>2, <3>3, <3>4, <3>5, <3>6 DEF Edits
    <2>5. CASE Publishes \/ FinishRestore
        BY <2>5 DEF Publishes, Mint, FinishRestore, Return, Base
    <2>6. ASSUME NEW c \in Clients, TakeSnapshot(c) PROVE CandidateKeepsHistory'
        BY <2>6 DEF TakeSnapshot, call, Base
    <2> QED
        BY <2>1, <2>2, <2>3, <2>4, <2>5, <2>6, StepShapes
<1> QED
    BY <1>1, <1>2, TypeCorrect, PTL DEF Spec

(* Appending the record of a fresh provenance node keeps identities and     *)
(* records in step.                                                         *)
ProvenanceRecords(ids, h, r) ==
    /\ ids = {h[i].transaction : i \in DOMAIN h}
    /\ \A i, j \in DOMAIN h : h[i].transaction = h[j].transaction => i = j
    /\ \A i \in DOMAIN h : h[i].revision + Len(h) = r + i

LEMMA HistoryGrows ==
    ASSUME NEW h \in Seq(CommitRecord), NEW r \in Nat, NEW ids, NEW t, t \notin ids,
           ProvenanceRecords(ids, h, r)
    PROVE  ProvenanceRecords(ids \cup {t},
                             Append(h, [transaction |-> t, revision |-> r + 1]), r + 1)
<1> DEFINE e == [transaction |-> t, revision |-> r + 1]
           n == Len(h)
           g == Append(h, e)
<1>1. /\ n \in Nat /\ DOMAIN h = 1 .. n /\ DOMAIN g = 1 .. n + 1 /\ Len(g) = n + 1
      /\ \A i \in 1 .. n : g[i] = h[i]
      /\ g[n + 1] = e
    OBVIOUS
<1>2. e.transaction = t /\ e.revision = r + 1
    OBVIOUS
<1>3. ASSUME NEW i \in 1 .. n PROVE h[i].revision \in Nat
    <2>1. h[i] \in CommitRecord
        BY <1>1
    <2> QED
        BY <2>1 DEF CommitRecord, Revision
<1> HIDE DEF e, n, g
<1>4. ids \cup {t} = {g[i].transaction : i \in DOMAIN g}
    BY <1>1, <1>2 DEF ProvenanceRecords
<1>5. ASSUME NEW i \in DOMAIN g, NEW j \in DOMAIN g,
             g[i].transaction = g[j].transaction
      PROVE  i = j
    BY <1>1, <1>2, <1>5 DEF ProvenanceRecords
<1>6. ASSUME NEW i \in DOMAIN g PROVE g[i].revision + Len(g) = (r + 1) + i
    <2>1. CASE i \in 1 .. n
        <3>1. h[i].revision + n = r + i /\ h[i].revision \in Nat
            BY <1>1, <1>3, <2>1 DEF ProvenanceRecords, n
        <3>2. g[i].revision = h[i].revision
            BY <1>1, <2>1
        <3> QED
            BY <1>1, <2>1, <3>1, <3>2
    <2>2. CASE i = n + 1
        BY <1>1, <1>2, <2>2
    <2> QED
        BY <1>1, <2>1, <2>2
<1> QED
    BY <1>4, <1>5, <1>6 DEF ProvenanceRecords, g, e

(* Provenance nodes and commit records agree, in number and in order.       *)
THEOREM ProvenanceTheorem == Spec => []ProvenanceIsHistory
<1> USE DEF ProvenanceIsHistory, ProvenanceOf
<1>1. Init => ProvenanceIsHistory
    BY DEF Init, DefaultState, Empty
<1>2. TypeOK /\ CandidateKeepsHistory /\ ProvenanceIsHistory /\ [Next]_vars
        => ProvenanceIsHistory'
    <2> SUFFICES ASSUME TypeOK, CandidateKeepsHistory, ProvenanceIsHistory,
                        [Next]_vars
                 PROVE  ProvenanceIsHistory'
        OBVIOUS
    <2>1. CASE UNCHANGED state
        BY <2>1
    <2>2. CASE Publishes
        <3>1. PICK u \in Ulids : Mint(u) /\ mode = "commit"
            BY <2>2 DEF Publishes, Finished
        <3> DEFINE id == [kind |-> "Transaction", ulid |-> u]
                   P(s) == {x \in DOMAIN s.nodes : x.kind = "Transaction"}
        <3>2. /\ candidate.revision = state.revision
              /\ candidate.commits = state.commits
              /\ P(candidate) = P(state)
            BY <3>1 DEF CandidateKeepsHistory, Base
        <3>3. /\ id \notin DOMAIN candidate.nodes
              /\ DOMAIN state'.nodes = DOMAIN candidate.nodes \cup {id}
              /\ state'.revision = state.revision + 1
              /\ state'.commits = Append(state.commits,
                    [transaction |-> id, revision |-> state.revision + 1])
            BY <3>1, <3>2 DEF Mint, Sealed, HasUlid, With, TypeOK, IsState
        <3>4. P(state)' = P(state) \cup {id} /\ id \notin P(state)
            BY <3>2, <3>3
        <3>5. state.commits \in Seq(CommitRecord) /\ state.revision \in Nat
            BY DEF TypeOK, IsState, Revision
        <3> HIDE DEF id, P
        <3>6. ProvenanceRecords(P(state), state.commits, state.revision)
            BY DEF P, ProvenanceRecords
        <3>7. ProvenanceRecords(P(state)', state'.commits, state'.revision)
            BY <3>3, <3>4, <3>5, <3>6, HistoryGrows
        <3> QED
            BY <3>7 DEF P, ProvenanceRecords
    <2>3. CASE FinishRestore
        BY <2>3 DEF FinishRestore, CandidateKeepsHistory, Finished, Base, DefaultState,
                    Empty, TypeOK, IsState
    <2> QED
        BY <2>1, <2>2, <2>3, StepShapes DEF Begins, Ends, Edits, Rests, TakeSnapshot
<1> QED
    BY <1>1, <1>2, TypeCorrect, KeepsHistory, PTL DEF Spec

(* What publishing does to the history of the store. *)
LEMMA PublishedHistory ==
    ASSUME TypeOK, CandidateKeepsHistory, Publishes
    PROVE  /\ mode = "commit"
           /\ state'.revision = state.revision + 1
           /\ \E id \in RawId :
                 state'.commits = Append(state.commits,
                    [transaction |-> id, revision |-> state.revision + 1])
           /\ UNCHANGED snapshots
<1>1. PICK u \in Ulids : Mint(u) /\ mode = "commit" /\ UNCHANGED snapshots
    BY DEF Publishes, Finished
<1> DEFINE id == [kind |-> "Transaction", ulid |-> u]
<1>2. id \in RawId
    BY DEF RawId, EntityKinds, ActionProvenanceKinds
<1>3. candidate.revision = state.revision /\ candidate.commits = state.commits
    BY <1>1 DEF CandidateKeepsHistory, Base
<1>4. /\ state'.revision = state.revision + 1
      /\ state'.commits = Append(state.commits,
            [transaction |-> id, revision |-> state.revision + 1])
    BY <1>1, <1>3 DEF Mint, Sealed, TypeOK, IsState
<1> QED
    BY <1>1, <1>2, <1>4

(* A history k that is a prefix of h, at revision q, is one of every longer  *)
(* history.                                                                 *)
LEMMA PrefixGrows ==
    ASSUME NEW h \in Seq(CommitRecord), NEW k \in Seq(CommitRecord), NEW e,
           NEW q \in Nat, NEW r \in Nat,
           q + Len(h) = r + Len(k), Len(k) <= Len(h),
           \A i \in DOMAIN k : k[i] = h[i]
    PROVE  /\ q + Len(Append(h, e)) = (r + 1) + Len(k)
           /\ Len(k) <= Len(Append(h, e))
           /\ \A i \in DOMAIN k : k[i] = Append(h, e)[i]
           /\ q # r + 1
<1>1. /\ Len(h) \in Nat /\ Len(k) \in Nat
      /\ DOMAIN k = 1 .. Len(k)
      /\ Len(Append(h, e)) = Len(h) + 1
      /\ \A i \in 1 .. Len(h) : Append(h, e)[i] = h[i]
    OBVIOUS
<1>2. q + (Len(h) + 1) = (r + 1) + Len(k) /\ Len(k) <= Len(h) + 1 /\ q # r + 1
    BY <1>1
<1>3. \A i \in 1 .. Len(k) : i \in 1 .. Len(h)
    BY <1>1
<1> QED
    BY <1>1, <1>2, <1>3

(* A held snapshot is the federation as it was at the snapshot's revision.  *)
THEOREM SnapshotsTheorem == Spec => []SnapshotsOnHistory
<1>1. Init => SnapshotsOnHistory
    BY DEF Init, SnapshotsOnHistory, DefaultState
<1>2. TypeOK /\ CandidateKeepsHistory /\ SnapshotsOnHistory /\ [Next]_vars
        => SnapshotsOnHistory'
    <2> SUFFICES ASSUME TypeOK, CandidateKeepsHistory, SnapshotsOnHistory,
                        [Next]_vars
                 PROVE  SnapshotsOnHistory'
        OBVIOUS
    <2>1. CASE UNCHANGED <<state, snapshots>>
        BY <2>1 DEF SnapshotsOnHistory
    <2>2. ASSUME NEW c \in Clients, TakeSnapshot(c) PROVE SnapshotsOnHistory'
        <3>1. /\ state' = state
              /\ \A d \in Clients : snapshots'[d] = IF d = c THEN state ELSE snapshots[d]
            BY <2>2 DEF TakeSnapshot, TypeOK
        <3>2. state.revision \in Nat /\ state.commits \in Seq(CommitRecord)
            BY DEF TypeOK, IsState, Revision
        <3> QED
            BY <3>1, <3>2 DEF SnapshotsOnHistory
    <2>3. CASE Publishes
        <3> SUFFICES ASSUME NEW c \in Clients
                     PROVE
                     /\ snapshots[c].revision + Len(state'.commits)
                          = state'.revision + Len(snapshots[c].commits)
                     /\ Len(snapshots[c].commits) <= Len(state'.commits)
                     /\ \A i \in DOMAIN snapshots[c].commits :
                           snapshots[c].commits[i] = state'.commits[i]
                     /\ snapshots[c].revision # state'.revision
            BY <2>3, PublishedHistory DEF SnapshotsOnHistory
        <3>1. PICK e : /\ state'.commits = Append(state.commits, e)
                       /\ state'.revision = state.revision + 1
            BY <2>3, PublishedHistory
        <3>2. /\ state.revision \in Nat /\ snapshots[c].revision \in Nat
              /\ state.commits \in Seq(CommitRecord)
              /\ snapshots[c].commits \in Seq(CommitRecord)
            BY DEF TypeOK, IsState, Revision
        <3>3. /\ snapshots[c].revision + Len(state.commits)
                   = state.revision + Len(snapshots[c].commits)
              /\ Len(snapshots[c].commits) <= Len(state.commits)
              /\ \A i \in DOMAIN snapshots[c].commits :
                    snapshots[c].commits[i] = state.commits[i]
            BY DEF SnapshotsOnHistory
        <3>4. ASSUME NEW h, NEW k, NEW q, NEW r,
                     h = state.commits, k = snapshots[c].commits,
                     q = snapshots[c].revision, r = state.revision
              PROVE  /\ q + Len(Append(h, e)) = (r + 1) + Len(k)
                     /\ Len(k) <= Len(Append(h, e))
                     /\ \A i \in DOMAIN k : k[i] = Append(h, e)[i]
                     /\ q # r + 1
            <4>1. /\ h \in Seq(CommitRecord) /\ k \in Seq(CommitRecord)
                  /\ q \in Nat /\ r \in Nat
                  /\ q + Len(h) = r + Len(k) /\ Len(k) <= Len(h)
                  /\ \A i \in DOMAIN k : k[i] = h[i]
                BY <3>2, <3>3, <3>4
            <4> QED
                BY ONLY <4>1, PrefixGrows
        <3> QED
            BY <3>1, <3>4
    <2>4. CASE FinishRestore
        <3>1. \A c \in Clients : snapshots'[c] = state'
            BY <2>4 DEF FinishRestore
        <3>2. state'.revision \in Nat /\ state'.commits \in Seq(CommitRecord)
            BY <2>4 DEF FinishRestore, TypeOK, IsState, Revision
        <3> QED
            BY <3>1, <3>2 DEF SnapshotsOnHistory
    <2> QED
        BY <2>1, <2>2, <2>3, <2>4, StepShapes DEF Begins, Ends, Edits, Rests
<1> QED
    BY <1>1, <1>2, TypeCorrect, KeepsHistory, PTL DEF Spec

(* The published state changes by one appended commit at a time.            *)
THEOREM HistoryTheorem == Spec => HistoryAppendOnly
<1> DEFINE A == state' # state /\ state # DefaultState =>
                  /\ mode = "commit"
                  /\ state'.revision = state.revision + 1
                  /\ \E id \in RawId :
                        state'.commits = Append(state.commits,
                           [transaction |-> id, revision |-> state'.revision])
<1>1. TypeOK /\ CandidateKeepsHistory /\ [Next]_vars => [A]_vars
    <2> SUFFICES ASSUME TypeOK, CandidateKeepsHistory, [Next]_vars,
                        state' # state, state # DefaultState
                 PROVE  A
        OBVIOUS
    <2>1. CASE Publishes
        BY <2>1, PublishedHistory
    <2>2. CASE FinishRestore
        BY <2>2 DEF FinishRestore, Finished, CandidateKeepsHistory
    <2> QED
        BY <2>1, <2>2, StepShapes DEF Begins, Ends, Edits, Rests, TakeSnapshot
<1> QED
    BY <1>1, TypeCorrect, KeepsHistory, PTL DEF Spec, HistoryAppendOnly

-----------------------------------------------------------------------------
(* Structural values: through the loop, and so across a commit.             *)
LEMMA KeepsStructure == Spec => []CandidateKeepsStructure
<1>1. Init => CandidateKeepsStructure
    BY DEF Init, CandidateKeepsStructure, Base, DefaultState, Empty
<1>2. TypeOK /\ CandidateKeepsStructure /\ [Next]_vars => CandidateKeepsStructure'
    <2> SUFFICES ASSUME TypeOK, CandidateKeepsStructure, [Next]_vars
                 PROVE  CandidateKeepsStructure'
        OBVIOUS
    <2>1. CASE Begins
        BY <2>1 DEF Begins, CandidateKeepsStructure, MayStart, StructureAllows, ValueIn
    <2>2. CASE Ends \/ Publishes \/ FinishRestore
        <3>1. mode' = "idle" /\ candidate' = state' /\ ops' = <<>>
            BY <2>2 DEF Ends, Publishes, Mint, FinishRestore, Return
        <3>2. Base' = candidate' /\ DOMAIN ops' = {}
            BY <3>1 DEF Base
        <3> QED
            BY <3>2 DEF CandidateKeepsStructure
    <2>3. CASE Rests
        BY <2>3 DEF Rests, Base, CandidateKeepsStructure, RemovedBefore, TypeOK
    <2>4. CASE Edits
        <3> SUFFICES ASSUME NEW id \in DOMAIN Base.nodes, StructurallyRead(Base, id)
                     PROVE  \/ RemovedBefore(id)'
                            \/ id \in DOMAIN candidate'.nodes
                               /\ candidate'.nodes[id] = Base.nodes[id]
            BY <2>4 DEF Edits, Base, CandidateKeepsStructure
        <3>1. RemovedBefore(id) => RemovedBefore(id)'
            BY <2>4 DEF Edits, RemovedBefore, TypeOK
        <3> SUFFICES ASSUME id \in DOMAIN candidate.nodes,
                            candidate.nodes[id] = Base.nodes[id],
                            ~RemovedBefore(id)'
                     PROVE  id \in DOMAIN candidate'.nodes
                            /\ candidate'.nodes[id] = Base.nodes[id]
            BY <3>1 DEF CandidateKeepsStructure
        <3> USE DEF TypeOK, IsState
        <3>2. CASE AddNode
            BY <3>2 DEF AddNode, AddNodeOk, HasUlid, With
        <3>3. CASE DefineKernelNode
            BY <3>3 DEF DefineKernelNode, DefineKernelNodeOk, HasUlid, With
        <3>4. CASE SetValue
            <4>1. ops[at].target = id => ops[at].value = Base.nodes[id]
                BY <3>4 DEF SetValue, Run, Running, CandidateKeepsStructure
            <4> QED
                BY <3>4, <4>1 DEF SetValue, With
        <3>5. CASE RemoveNode
            <4>1. ops[at].id # id
                BY <2>4, <3>5 DEF RemoveNode, Run, Running, Edits, RemovedBefore
            <4> QED
                BY <3>5, <4>1 DEF RemoveNode, Without
        <3>6. CASE Connect \/ DefineOntologyView \/ RemoveOntologyView
            <4>1. candidate'.nodes = candidate.nodes
                BY <3>6 DEF Connect, DefineOntologyView, RemoveOntologyView
            <4> QED
                BY <4>1
        <3> QED
            BY <2>4, <3>2, <3>3, <3>4, <3>5, <3>6 DEF Edits
    <2>5. ASSUME NEW c \in Clients, TakeSnapshot(c) PROVE CandidateKeepsStructure'
        BY <2>5 DEF TakeSnapshot, call, Base, CandidateKeepsStructure, RemovedBefore
    <2> QED
        BY <2>1, <2>2, <2>3, <2>4, <2>5, StepShapes
<1> QED
    BY <1>1, <1>2, TypeCorrect, PTL DEF Spec

(* A structurally read Parameter that is not removed keeps its value.       *)
THEOREM StructureTheorem == Spec => StructuralValuesStable
<1> DEFINE A == \A id \in DOMAIN state.nodes :
                   StructurallyRead(state, id) /\ id \in DOMAIN state'.nodes
                      => state'.nodes[id] = state.nodes[id] \/ Removes(ops, id)
<1>1. TypeOK /\ CandidateKeepsHistory /\ CandidateKeepsStructure /\ [Next]_vars
        => [A]_vars
    <2> SUFFICES ASSUME TypeOK, CandidateKeepsHistory, CandidateKeepsStructure,
                        [Next]_vars
                 PROVE  A
        OBVIOUS
    <2>1. CASE UNCHANGED state
        BY <2>1
    <2>2. CASE Publishes
        <3>1. PICK u \in Ulids : Mint(u) /\ mode = "commit"
            BY <2>2 DEF Publishes, Finished
        <3> SUFFICES ASSUME NEW id \in DOMAIN state.nodes, StructurallyRead(state, id),
                            ~Removes(ops, id)
                     PROVE  state'.nodes[id] = state.nodes[id]
            OBVIOUS
        <3>2. id \in DOMAIN candidate.nodes /\ candidate.nodes[id] = state.nodes[id]
            BY <3>1 DEF CandidateKeepsStructure, Base, RemovedBefore, Removes
        <3> QED
            BY <3>1, <3>2 DEF Mint, Sealed, With, HasUlid, TypeOK, IsState
    <2>3. CASE FinishRestore
        BY <2>3 DEF FinishRestore, Finished, CandidateKeepsHistory, DefaultState, Empty
    <2> QED
        BY <2>1, <2>2, <2>3, StepShapes DEF Begins, Ends, Edits, Rests, TakeSnapshot
<1> QED
    BY <1>1, TypeCorrect, KeepsHistory, KeepsStructure, PTL
       DEF Spec, StructuralValuesStable

-----------------------------------------------------------------------------
(* The store implements the federation its clients see.                     *)
THEOREM FederationTheorem == Spec => ImplementsFederation
<1>1. Init => Federation!Init
    BY DEF Init, Federation!Init, DefaultState
<1>2. TypeOK /\ EdgesGrounded /\ CandidateKeepsHistory /\ ViewsComplete
        /\ EdgesGrounded' /\ ViewsComplete' /\ [Next]_vars
        => [Federation!Next]_(Federation!vvars)
    <2> SUFFICES ASSUME TypeOK, EdgesGrounded, CandidateKeepsHistory, ViewsComplete,
                        EdgesGrounded', ViewsComplete', [Next]_vars
                 PROVE  [Federation!Next]_(Federation!vvars)
        OBVIOUS
    <2>1. SoundGraph(GraphOf(state'))
        BY DEF EdgesGrounded, EdgesOf, ViewsComplete, ViewsGrounded, SoundGraph, GraphOf
    <2>2. CASE UNCHANGED <<state, snapshots>>
        BY <2>2 DEF Federation!vvars
    <2>3. ASSUME NEW c \in Clients, TakeSnapshot(c) PROVE Federation!Read(c)
        BY <2>3 DEF TakeSnapshot, Federation!Read, TypeOK
    <2>4. ASSUME Publishes PROVE Federation!Publish
        BY <2>1, <2>4, PublishedHistory DEF Federation!Publish
    <2>5. ASSUME FinishRestore PROVE Federation!Open
        <3>1. /\ state = DefaultState /\ state'.revision = restoring /\ restoring # 0
              /\ snapshots' = [c \in Clients |-> state']
            BY <2>5 DEF FinishRestore, Finished, CandidateKeepsHistory, TypeOK, IsState
        <3> QED
            BY <2>1, <3>1 DEF Federation!Open, DefaultState
    <2> QED
        BY <2>2, <2>3, <2>4, <2>5, StepShapes
           DEF Begins, Ends, Edits, Rests, Federation!Next
<1> QED
    BY <1>1, <1>2, TypeCorrect, EdgesTheorem, KeepsHistory, ViewsTheorem, PTL
       DEF Spec, ImplementsFederation, Federation!Spec
=============================================================================
