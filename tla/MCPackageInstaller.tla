------------------------- MODULE MCPackageInstaller -------------------------
(* An instance of PackageInstaller: threads of one process, and releases that *)
(* share a source digest.                                                     *)
EXTENDS PackageInstaller, TLC

CONSTANTS process, digest

OneProcess == [i \in Installers |-> process]
OneDigest == [r \in Releases |-> digest]

Symmetry == Permutations(Installers) \cup Permutations(Releases)
=============================================================================
