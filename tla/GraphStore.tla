----------------------------- MODULE GraphStore -----------------------------
(***************************************************************************)
(* The in-memory Graph Federation store (eqiora-graph/src/store.rs): typed *)
(* transactions applied operation by operation to a private candidate, and *)
(* published by swapping one Arc.  `state` is the published State,         *)
(* `candidate` the clone that apply_transaction is editing, `snapshots`    *)
(* the immutable views clients hold.  A store call has the store to itself *)
(* (commit takes &mut self), so client steps happen between calls.         *)
(*                                                                         *)
(* A RawId is its kind and its ULID; a Node is abstracted to the value it  *)
(* carries, a view to its members, diagnostics to `failed`, a commit record *)
(* to its identity and revision.                                           *)
(***************************************************************************)
EXTENDS EdgeSchema, Naturals, Sequences, FiniteSets

CONSTANTS
    Ulids,        \* the ULIDs in play, minted and authored
    Values,       \* complete typed Parameter values
    TypeOf,       \* value |-> its complete declared type
    NoValue,      \* node.value = None
    ViewIds,      \* RawOntologyId
    Clients,      \* holders of snapshots and authors of transactions
    OpLists,      \* the operation lists clients may submit
    MaxRevision   \* u64::MAX

RawId      == [kind : EntityKinds, ulid : Ulids]
SemanticId == {id \in RawId : id.kind \in SemanticKinds}
Edge       == [from : RawId, to : RawId, kind : EdgeKinds]
NodeValue  == Values \cup {NoValue}
Revision   == 0 .. MaxRevision

Op == [op : {"AddNode"}, kind : EntityKinds, id : RawId]
      \cup {o \in [op : {"DefineKernelNode"}, id : SemanticId, value : NodeValue] :
                o.id.kind = "Parameter" <=> o.value # NoValue}
      \cup [op : {"SetValue"}, target : RawId, value : Values]
      \cup [op : {"Connect"}, from : RawId, to : RawId, edge : EdgeKinds]
      \cup [op : {"RemoveNode"}, id : RawId]
      \cup [op : {"DefineOntologyView"}, id : ViewIds,
            members : (SUBSET SemanticId) \ {{}}]
      \cup [op : {"RemoveOntologyView"}, id : ViewIds]

Precondition == [is : {"Revision"}, revision : Revision]
                \cup [is : {"Value"}, target : RawId, expected : Values]

ASSUME StoreAssumption ==
    /\ MaxRevision \in Nat
    /\ NoValue \notin Values
    /\ OpLists \subseteq Seq(Op)

VARIABLES
    state,        \* InMemoryGraphStore.state
    snapshots,    \* client |-> the Snapshot it last took
    mode,         \* the store call in progress, "idle" between calls
    caller,       \* the client whose call it is
    ops,          \* the operations of its transaction
    restoring,    \* the revision a restore_snapshot call asks for
    at,           \* index of the next operation of the loop over ops
    candidate,    \* the State clone being edited
    failed,       \* an operation pushed a diagnostic
    result        \* client |-> what its last call returned

call == <<mode, caller, ops, restoring, at, candidate, failed>>
vars == <<state, snapshots, call, result>>

Empty == [x \in {} |-> {}]

(* State::default()                                                         *)
DefaultState == [revision |-> 0, nodes |-> Empty, edges |-> {},
                 views |-> Empty, commits |-> <<>>]

HasUlid(s, ulid) == \E id \in DOMAIN s.nodes : id.ulid = ulid

(* What one node, or one edge's target, looks like in a state.              *)
ValueIn(s, id) == IF id \in DOMAIN s.nodes THEN s.nodes[id] ELSE NoValue
StructurallyRead(s, id) ==
    \E e \in s.edges : e.kind = "StructurallyDependsOn" /\ e.to = id

Without(f, x) == [y \in DOMAIN f \ {x} |-> f[y]]
With(f, x, v) == [y \in DOMAIN f \cup {x} |-> IF y = x THEN v ELSE f[y]]

-----------------------------------------------------------------------------
(* Admission that does not depend on the loop over the operations.          *)

Holds(s, p) == \/ p.is = "Revision" /\ p.revision = s.revision
               \/ /\ p.is = "Value"
                  /\ p.target \in DOMAIN s.nodes
                  /\ s.nodes[p.target] = p.expected

(* validate_structural_value_edit                                           *)
StructureAllows(s, target, value) ==
    ValueIn(s, target) = value \/ ~StructurallyRead(s, target)

(* Faulty variant: value edits are looked at one by one only.               *)
MayStartPreconditions(s, list, preconditions) ==
    \A p \in preconditions : Holds(s, p)

(* The early return of apply_transaction: preconditions, and every value    *)
(* edit of the list against the state the transaction starts from.          *)
MayStart(s, list, preconditions) ==
    /\ \A p \in preconditions : Holds(s, p)
    /\ \A i \in DOMAIN list :
          list[i].op = "SetValue" =>
             StructureAllows(s, list[i].target, list[i].value)

(* validate_ontology_integrity                                              *)
ViewsGrounded(s) == \A v \in DOMAIN s.views : s.views[v] \subseteq DOMAIN s.nodes

-----------------------------------------------------------------------------
(* One operation: when it is accepted and what it leaves.                   *)

(* Faulty variant: only the whole identifier is unique.                     *)
AddNodeOkById(s, o) ==
    /\ o.kind = o.id.kind
    /\ o.kind # "Transaction"
    /\ o.kind \notin SemanticKinds
    /\ o.id \notin DOMAIN s.nodes

AddNodeOk(s, o) ==
    /\ o.kind = o.id.kind
    /\ o.kind # "Transaction"
    /\ o.kind \notin SemanticKinds
    /\ ~HasUlid(s, o.id.ulid)

DefineKernelNodeOk(s, o) == ~HasUlid(s, o.id.ulid)

SetValueOk(s, o) ==
    /\ StructureAllows(s, o.target, o.value)
    /\ o.target \in DOMAIN s.nodes
    /\ o.target.kind = "Parameter"
    /\ s.nodes[o.target] # NoValue => TypeOf[s.nodes[o.target]] = TypeOf[o.value]

ConnectOk(s, o) ==
    /\ {o.from, o.to} \subseteq DOMAIN s.nodes
    /\ Permits(o.edge, o.from.kind, o.to.kind)

(* Faulty variant: provenance may be removed.                               *)
RemoveNodeOkAny(s, o) == o.id \in DOMAIN s.nodes

RemoveNodeOk(s, o) == o.id.kind # "Transaction" /\ o.id \in DOMAIN s.nodes

Accepts(s, o) ==
    \/ o.op = "AddNode" /\ AddNodeOk(s, o)
    \/ o.op = "DefineKernelNode" /\ DefineKernelNodeOk(s, o)
    \/ o.op = "SetValue" /\ SetValueOk(s, o)
    \/ o.op = "Connect" /\ ConnectOk(s, o)
    \/ o.op = "RemoveNode" /\ RemoveNodeOk(s, o)
    \/ o.op = "DefineOntologyView" /\ o.id \notin DOMAIN s.views
    \/ o.op = "RemoveOntologyView" /\ o.id \in DOMAIN s.views

-----------------------------------------------------------------------------
Init ==
    /\ state = DefaultState
    /\ snapshots = [c \in Clients |-> DefaultState]
    /\ mode = "idle"
    /\ caller \in Clients
    /\ ops = <<>>
    /\ restoring = 0
    /\ at = 1
    /\ candidate = DefaultState
    /\ failed = FALSE
    /\ result = [c \in Clients |-> "none"]

(* InMemoryGraphStore::snapshot: an Arc clone of the published state.       *)
TakeSnapshot(c) ==
    /\ mode = "idle"
    /\ snapshots' = [snapshots EXCEPT ![c] = state]
    /\ UNCHANGED <<state, call, result>>

(* The optimistic preconditions an author derives from its own snapshot:    *)
(* none, the revision, the current values of what it edits, or both.        *)
Optimistic(c, list) ==
    LET s    == snapshots[c]
        rev  == {[is |-> "Revision", revision |-> s.revision]}
        vals == {[is |-> "Value", target |-> t, expected |-> s.nodes[t]] :
                   t \in {u \in DOMAIN s.nodes :
                            /\ s.nodes[u] # NoValue
                            /\ \E i \in DOMAIN list : list[i].op = "SetValue"
                                                      /\ list[i].target = u}}
    IN {{}, rev, vals, rev \cup vals}

(* The calls into apply_transaction.  A transaction that fails admission    *)
(* returns before any operation runs; otherwise the loop starts on a clone. *)
Enter(c, m, base, list, pre, r) ==
    /\ mode = "idle"
    /\ IF MayStart(base, list, pre)
       THEN /\ mode' = m
            /\ caller' = c
            /\ ops' = list
            /\ restoring' = r
            /\ at' = 1
            /\ candidate' = base
            /\ failed' = FALSE
            /\ UNCHANGED result
       ELSE /\ result' = [result EXCEPT ![c] = "refused"]
            /\ UNCHANGED call
    /\ UNCHANGED <<state, snapshots>>

BeginValidate(c, list) ==
    \E pre \in Optimistic(c, list) : Enter(c, "validate", state, list, pre, 0)

BeginCommit(c, list) ==
    \E pre \in Optimistic(c, list) : Enter(c, "commit", state, list, pre, 0)

(* restore_snapshot builds the store: nobody has used it before.  Revision  *)
(* zero and optimistic preconditions are rejected before apply_transaction  *)
(* runs.                                                                    *)
BeginRestore(c, list, r) ==
    /\ state = DefaultState
    /\ \E pre \in Optimistic(c, list) :
         IF r # 0 /\ pre = {}
         THEN Enter(c, "restore", DefaultState, list, pre, r)
         ELSE /\ mode = "idle"
              /\ result' = [result EXCEPT ![c] = "refused"]
              /\ UNCHANGED <<state, snapshots, call>>

-----------------------------------------------------------------------------
(* The loop over the operations of the transaction.                         *)

Running == mode # "idle" /\ at \in DOMAIN ops

Run(name) == Running /\ ops[at].op = name

Advance == /\ at' = at + 1
           /\ UNCHANGED <<state, snapshots, mode, caller, ops, restoring, failed,
                          result>>

AddNode ==
    /\ Run("AddNode")
    /\ AddNodeOk(candidate, ops[at])
    /\ candidate' = [candidate EXCEPT !.nodes = With(@, ops[at].id, NoValue)]
    /\ Advance

DefineKernelNode ==
    /\ Run("DefineKernelNode")
    /\ DefineKernelNodeOk(candidate, ops[at])
    /\ candidate' = [candidate EXCEPT
                       !.nodes = With(@, ops[at].id, ops[at].value)]
    /\ Advance

SetValue ==
    /\ Run("SetValue")
    /\ SetValueOk(candidate, ops[at])
    /\ candidate' = [candidate EXCEPT
                       !.nodes = With(@, ops[at].target, ops[at].value)]
    /\ Advance

Connect ==
    /\ Run("Connect")
    /\ ConnectOk(candidate, ops[at])
    /\ candidate' = [candidate EXCEPT
                       !.edges = @ \cup {[from |-> ops[at].from,
                                          to   |-> ops[at].to,
                                          kind |-> ops[at].edge]}]
    /\ Advance

(* Faulty variant: only the incoming edges go with the node.                *)
RemoveNodeIncoming ==
    /\ Run("RemoveNode")
    /\ RemoveNodeOk(candidate, ops[at])
    /\ candidate' = [candidate EXCEPT
                       !.nodes = Without(@, ops[at].id),
                       !.edges = {e \in @ : ops[at].id # e.to}]
    /\ Advance

RemoveNode ==
    /\ Run("RemoveNode")
    /\ RemoveNodeOk(candidate, ops[at])
    /\ candidate' = [candidate EXCEPT
                       !.nodes = Without(@, ops[at].id),
                       !.edges = {e \in @ : ops[at].id \notin {e.from, e.to}}]
    /\ Advance

DefineOntologyView ==
    /\ Run("DefineOntologyView")
    /\ ops[at].id \notin DOMAIN candidate.views
    /\ candidate' = [candidate EXCEPT
                       !.views = With(@, ops[at].id, ops[at].members)]
    /\ Advance

RemoveOntologyView ==
    /\ Run("RemoveOntologyView")
    /\ ops[at].id \in DOMAIN candidate.views
    /\ candidate' = [candidate EXCEPT !.views = Without(@, ops[at].id)]
    /\ Advance

(* A failing operation leaves the candidate as it was, its diagnostic is    *)
(* collected and the loop goes on with the next operation.                  *)
FailOp ==
    /\ Running
    /\ ~Accepts(candidate, ops[at])
    /\ failed' = TRUE
    /\ at' = at + 1
    /\ UNCHANGED <<state, snapshots, mode, caller, ops, restoring, candidate, result>>

-----------------------------------------------------------------------------
(* The end of the call.                                                     *)

Finished(m) == mode = m /\ at \notin DOMAIN ops

(* Faulty variant: views are not looked at again at the end.                *)
AppliedWithoutViews == ~failed

Applied == ~failed /\ ViewsGrounded(candidate)

Return(answer, s) ==
    /\ mode' = "idle"
    /\ ops' = <<>>
    /\ restoring' = 0
    /\ at' = 1
    /\ candidate' = s
    /\ failed' = FALSE
    /\ result' = [result EXCEPT ![caller] = answer]
    /\ UNCHANGED caller

(* Faulty variant: operations edit the published state in place.            *)
RejectInPlace ==
    /\ mode # "idle"
    /\ at \notin DOMAIN ops
    /\ ~Applied
    /\ state' = candidate
    /\ Return("rejected", state')
    /\ UNCHANGED snapshots

Reject ==
    /\ mode # "idle"
    /\ at \notin DOMAIN ops
    /\ ~Applied
    /\ Return("rejected", state)
    /\ UNCHANGED <<state, snapshots>>

FinishValidate ==
    /\ Finished("validate")
    /\ Applied
    /\ Return("valid", state)
    /\ UNCHANGED <<state, snapshots>>

(* Faulty variant: an in-place value edit is not a new revision.            *)
SealedSameRevision(s, id) ==
    LET r == IF \A i \in DOMAIN ops : ops[i].op = "SetValue" THEN s.revision ELSE s.revision + 1
    IN [s EXCEPT !.nodes = With(@, id, NoValue),
                 !.revision = r,
                 !.commits = Append(@, [transaction |-> id, revision |-> r])]

(* The provenance node gets an identifier no node of the candidate uses;    *)
(* the sealed candidate replaces the published state.                       *)
Sealed(s, id) ==
    [s EXCEPT !.nodes = With(@, id, NoValue),
              !.revision = s.revision + 1,
              !.commits = Append(@, [transaction |-> id,
                                     revision |-> s.revision + 1])]

Mint(u) ==
    /\ ~HasUlid(candidate, u)
    /\ state' = Sealed(candidate, [kind |-> "Transaction", ulid |-> u])
    /\ Return("committed", state')

(* Faulty variant: the counter is not checked.                              *)
FinishCommitUnchecked ==
    /\ Finished("commit")
    /\ Applied
    /\ \E u \in Ulids : Mint(u)
    /\ UNCHANGED snapshots

FinishCommit ==
    /\ Finished("commit")
    /\ Applied
    /\ candidate.revision < MaxRevision
    /\ \E u \in Ulids : Mint(u)
    /\ UNCHANGED snapshots

(* checked_add on the revision counter                                      *)
ExhaustCommit ==
    /\ Finished("commit")
    /\ Applied
    /\ candidate.revision = MaxRevision
    /\ Return("exhausted", state)
    /\ UNCHANGED <<state, snapshots>>

(* The restored store leaves its commit history empty.  Clients open it     *)
(* after it exists.                                                         *)
FinishRestore ==
    /\ Finished("restore")
    /\ Applied
    /\ state' = [candidate EXCEPT !.revision = restoring]
    /\ snapshots' = [c \in Clients |-> state']
    /\ Return("restored", state')

Client(c) ==
    \/ TakeSnapshot(c)
    \/ \E list \in OpLists : \/ BeginValidate(c, list)
                             \/ BeginCommit(c, list)
                             \/ \E r \in Revision : BeginRestore(c, list, r)

Apply == \/ AddNode \/ DefineKernelNode \/ SetValue \/ Connect \/ RemoveNode
         \/ DefineOntologyView \/ RemoveOntologyView \/ FailOp

Finish == Reject \/ FinishValidate \/ FinishCommit \/ ExhaustCommit \/ FinishRestore

Next == (\E c \in Clients : Client(c)) \/ Apply \/ Finish

Spec == Init /\ [][Next]_vars

-----------------------------------------------------------------------------

CommitRecord == [transaction : {id \in RawId : id.kind = "Transaction"},
                 revision : Revision]

IsState(s) ==
    /\ DOMAIN s = {"revision", "nodes", "edges", "views", "commits"}
    /\ s.revision \in Revision
    /\ DOMAIN s.nodes \subseteq RawId
    /\ s.nodes \in [DOMAIN s.nodes -> NodeValue]
    /\ s.edges \subseteq Edge
    /\ DOMAIN s.views \subseteq ViewIds
    /\ s.views \in [DOMAIN s.views -> SUBSET SemanticId]
    /\ s.commits \in Seq(CommitRecord)

(* Every variable has its type.                                             *)
TypeOK ==
    /\ IsState(state)
    /\ IsState(candidate)
    /\ snapshots = [c \in Clients |-> snapshots[c]]
    /\ \A c \in Clients : IsState(snapshots[c])
    /\ mode \in {"idle", "validate", "commit", "restore"}
    /\ caller \in Clients
    /\ ops \in Seq(Op)
    /\ restoring \in Revision
    /\ at \in Nat \ {0}
    /\ failed \in BOOLEAN
    /\ result \in [Clients -> {"none", "refused", "rejected", "valid",
                              "committed", "exhausted", "restored"}]

(* An edge of a published or half-edited graph joins nodes that are there,  *)
(* of kinds its schema admits: no operation order leaves a dangling edge    *)
(* (connect, remove_node).                                                  *)
EdgesOf(s) == \A e \in s.edges : /\ {e.from, e.to} \subseteq DOMAIN s.nodes
                                 /\ Permits(e.kind, e.from.kind, e.to.kind)
EdgesGrounded == EdgesOf(state) /\ EdgesOf(candidate)

(* One ULID names at most one node, whatever kinds it is used with: node    *)
(* creation and provenance minting (has_ulid) never collide.                *)
UlidsOf(s) == \A x, y \in DOMAIN s.nodes : x.ulid = y.ulid => x = y
UlidsUnique == UlidsOf(state) /\ UlidsOf(candidate)

(* Whatever a published view or a held snapshot names is in the same        *)
(* revision: a member is never removed under a view, nor a view defined     *)
(* over an absent member, in any order of operations of one transaction.    *)
ViewsComplete ==
    ViewsGrounded(state) /\ \A c \in Clients : ViewsGrounded(snapshots[c])

(* The Transaction nodes of the graph are exactly those of the commit       *)
(* history, each minted once, and the history ends at the current revision  *)
(* and counts by one: user operations neither forge nor erase provenance.   *)
ProvenanceOf(s) ==
    /\ {id \in DOMAIN s.nodes : id.kind = "Transaction"}
         = {s.commits[i].transaction : i \in DOMAIN s.commits}
    /\ \A i, j \in DOMAIN s.commits :
          s.commits[i].transaction = s.commits[j].transaction => i = j
    /\ \A i \in DOMAIN s.commits :
          s.commits[i].revision + Len(s.commits) = s.revision + i
ProvenanceIsHistory == ProvenanceOf(state)

(* A held snapshot is the state the federation had at the snapshot's        *)
(* revision: its history is a prefix, as long as the revisions are apart,   *)
(* and equal revisions mean equal graphs.  So a RevisionIs precondition     *)
(* taken from a snapshot admits a commit only against exactly what the      *)
(* author read.                                                             *)
SnapshotsOnHistory ==
    \A c \in Clients :
       /\ snapshots[c].revision + Len(state.commits)
            = state.revision + Len(snapshots[c].commits)
       /\ Len(snapshots[c].commits) <= Len(state.commits)
       /\ \A i \in DOMAIN snapshots[c].commits :
             snapshots[c].commits[i] = state.commits[i]
       /\ snapshots[c].revision = state.revision => snapshots[c] = state

(* A Parameter that a declaration structurally reads keeps its value across *)
(* every published transaction that does not remove it: taking the reader   *)
(* away, editing the value and putting the reader back in one transaction   *)
(* is not a way round the guard.                                            *)
Removes(list, id) ==
    \E i \in DOMAIN list : list[i].op = "RemoveNode" /\ list[i].id = id
StructuralValuesStable ==
    [][\A id \in DOMAIN state.nodes :
          StructurallyRead(state, id) /\ id \in DOMAIN state'.nodes
             => state'.nodes[id] = state.nodes[id] \/ Removes(ops, id)]_vars

(* Once the store exists, its published state changes only by one commit    *)
(* at a time, whose record is appended to a history nobody rewrites; no     *)
(* rejected, refused or merely validated transaction is visible.            *)
HistoryAppendOnly ==
    [][state' # state /\ state # DefaultState =>
          /\ mode = "commit"
          /\ state'.revision = state.revision + 1
          /\ \E id \in RawId :
                state'.commits = Append(state.commits,
                   [transaction |-> id, revision |-> state'.revision])]_vars

-----------------------------------------------------------------------------
(* The store implements the federation its clients see.                     *)

GraphOf(s) == [nodes |-> s.nodes, edges |-> s.edges, views |-> s.views]

SoundGraph(g) == /\ \A e \in g.edges : {e.from, e.to} \subseteq DOMAIN g.nodes
                 /\ \A v \in DOMAIN g.views : g.views[v] \subseteq DOMAIN g.nodes

Federation ==
    INSTANCE VersionedGraph
    WITH Sound      <- SoundGraph,
         EmptyGraph <- GraphOf(DefaultState),
         revision   <- state.revision,
         graph      <- GraphOf(state),
         views      <- [c \in Clients |-> [revision |-> snapshots[c].revision,
                                          graph    |-> GraphOf(snapshots[c])]]

(* Every client sees one graph that is replaced as a whole and only by      *)
(* sound ones; the candidate a call is editing never shows.                 *)
ImplementsFederation == Federation!Spec

-----------------------------------------------------------------------------
(* The inductive strengthening: what a call in progress knows of its        *)
(* candidate.                                                               *)

Base == IF mode = "restore" THEN DefaultState ELSE state

(* Apart from its content the candidate is still the state the call began   *)
(* with, and it holds the same provenance nodes.                            *)
CandidateKeepsHistory ==
    /\ mode = "restore" => state = DefaultState /\ restoring # 0
    /\ mode = "idle" => ops = <<>> /\ failed = FALSE
    /\ candidate.revision = Base.revision
    /\ candidate.commits = Base.commits
    /\ {id \in DOMAIN candidate.nodes : id.kind = "Transaction"}
         = {id \in DOMAIN Base.nodes : id.kind = "Transaction"}

RemovedBefore(id) ==
    \E i \in DOMAIN ops : i < at /\ ops[i].op = "RemoveNode" /\ ops[i].id = id

(* A structurally read Parameter of the starting state carries its value    *)
(* through the loop until an operation removes it.                          *)
CandidateKeepsStructure ==
    \A id \in DOMAIN Base.nodes :
       StructurallyRead(Base, id) =>
          /\ \A i \in DOMAIN ops :
                ops[i].op = "SetValue" /\ ops[i].target = id
                   => ops[i].value = Base.nodes[id]
          /\ \/ RemovedBefore(id)
             \/ id \in DOMAIN candidate.nodes
                /\ candidate.nodes[id] = Base.nodes[id]
=============================================================================
