--------------------------- MODULE MCWorkloadRing ---------------------------
(* Instances of WorkloadRing for TLC. *)
EXTENDS WorkloadRing, TLC

\* Backends are interchangeable; used for the safety runs only.
BackendSymmetry == Permutations(Backends)
=============================================================================
