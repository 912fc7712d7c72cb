----------------------------- MODULE EdgeSchema -----------------------------
(***************************************************************************)
(* The closed vocabulary of the Graph Federation: the entity kinds, the    *)
(* graph each kind lives in, and the edge kinds with the endpoint kinds    *)
(* each of them admits.  Constant-level: no state.                         *)
(***************************************************************************)

SemanticKinds ==
    {"Domain", "Representation", "Field", "Observable", "Parameter", "Port",
     "Relation", "Activation", "Connection", "ClockDomain", "FiniteSpace",
     "IndexSet", "Enum", "Record", "RecordInstance"}

RealizationKinds ==
    {"Space", "Discretization", "SolverPlan", "Partition", "Target",
     "ExecutionSchedule"}

EvidenceArtifactKinds ==
    {"Experiment", "Observation", "Dataset", "Run", "Artifact",
     "ValidityDomain", "Evidence"}

ActionProvenanceKinds ==
    {"Transaction", "Actor", "Action", "Review", "Approval", "Policy"}

EntityKinds == SemanticKinds \cup RealizationKinds
                 \cup EvidenceArtifactKinds \cup ActionProvenanceKinds

EdgeKinds ==
    {"DefinedOn", "AppliesOn", "BoundaryOf", "DependsOn",
     "StructurallyDependsOn", "HasPort", "Activates", "Connects", "ClockedBy",
     "Realizes", "Discretizes", "Observes", "Calibrates", "Validates",
     "ProducedBy", "DerivedFrom", "Mutates", "Approves", "Executes",
     "ScheduledBy", "Targets"}

(* The rectangles <<sources, destinations>> whose union is the relation an  *)
(* edge kind admits.                                                        *)
Admitted(edge) ==
    CASE edge = "DefinedOn" ->
            {<<{"Field"}, {"Domain", "Representation"}>>,
             <<{"Port", "Observable"}, {"Domain"}>>}
      [] edge = "AppliesOn" -> {<<{"Relation", "Observable"}, {"Domain"}>>}
      [] edge = "BoundaryOf" -> {<<{"Domain"}, {"Domain"}>>}
      [] edge = "DependsOn" ->
            {<<{"Relation", "Observable"},
               {"Field", "Parameter", "Port", "ClockDomain", "Domain",
                "Observable", "Relation"}>>,
             <<{"Relation"}, {"Enum"}>>,
             <<{"Domain"}, {"Parameter", "Domain"}>>}
      [] edge = "StructurallyDependsOn" ->
            {<<{"Field", "Port", "Parameter", "Relation", "IndexSet",
                "Connection"}, {"Parameter"}>>}
      [] edge = "HasPort" -> {<<{"Relation"}, {"Port"}>>}
      [] edge = "Activates" -> {<<{"Activation"}, {"Relation"}>>}
      [] edge = "Connects" -> {<<{"Connection"}, {"Port"}>>}
      [] edge = "ClockedBy" ->
            {<<{"Activation", "Field", "Port"}, {"ClockDomain"}>>}
      [] edge = "Realizes" -> {<<RealizationKinds, SemanticKinds>>}
      [] edge = "Discretizes" ->
            {<<{"Space", "Discretization"},
               {"Domain", "Representation", "Field"}>>}
      [] edge = "Observes" ->
            {<<{"Experiment", "Observation", "Dataset"},
               SemanticKinds \cup RealizationKinds>>}
      [] edge \in {"Calibrates", "Validates"} ->
            {<<{"Experiment", "Run", "Evidence"},
               SemanticKinds \cup RealizationKinds>>}
      [] edge \in {"ProducedBy", "DerivedFrom"} ->
            {<<EvidenceArtifactKinds, EvidenceArtifactKinds>>}
      [] edge \in {"Mutates", "Executes"} ->
            {<<{"Action", "Transaction"}, EntityKinds>>}
      [] edge = "Approves" ->
            {<<{"Review", "Approval"}, {"Action", "Transaction"}>>}
      [] edge = "ScheduledBy" -> {<<RealizationKinds, {"ExecutionSchedule"}>>}
      [] edge = "Targets" ->
            {<<{"ExecutionSchedule", "SolverPlan"}, {"Target"}>>}

(* EdgeKind::permits                                                        *)
Permits(edge, from, to) ==
    \E r \in Admitted(edge) : from \in r[1] /\ to \in r[2]

=============================================================================
