-------------------------- MODULE MCRegimeDetector --------------------------
(***************************************************************************)
(* TLC instances of RegimeDetector.                                        *)
(***************************************************************************)
EXTENDS RegimeDetector, TLC

(* Replicas differ in nothing.                                             *)
ReplicaSymmetry == Permutations(Replica)

============================================================================
