------------------------ MODULE MCProjectTransaction ------------------------
(* Instances of ProjectTransaction for TLC: the symmetry of writers, bytes   *)
(* and journal names.                                                        *)
EXTENDS ProjectTransaction, TLC

Symmetry == Permutations(Writers) \cup Permutations(Manifests)
              \cup Permutations(Locks) \cup Permutations(JournalIds)
=============================================================================
