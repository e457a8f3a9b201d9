-------------------------- MODULE MCLogPublication --------------------------
(* Instances of LogPublication for TLC: requests are interchangeable. *)
EXTENDS LogPublication, TLC

IngestSymmetry == Permutations(Ingests)
=============================================================================
