-------------------------- MODULE MCEvaluationMap --------------------------
(* Instances of EvaluationMap: on worker threads fewer than a chunk has       *)
(* members, and on the coordinator alone.                                     *)
EXTENDS EvaluationMap

OnThreads == [chunk |-> 4, workers |-> 3, recompute |-> TRUE]
OnTwo == [chunk |-> 2, workers |-> 2, recompute |-> FALSE]
Serial == [chunk |-> 2, workers |-> 1, recompute |-> TRUE]
AllPolicies == {OnThreads, OnTwo, Serial}
=============================================================================
