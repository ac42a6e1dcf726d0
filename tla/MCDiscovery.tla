----------------------------- MODULE MCDiscovery -----------------------------
(***************************************************************************)
(* Instances of Discovery for TLC.  Ids are interchangeable, so the safety *)
(* runs identify states that differ by a permutation of them.              *)
(***************************************************************************)
EXTENDS Discovery, TLC

Symmetry == Permutations(Jobs) \cup Permutations(Workers) \cup Permutations(Sources)

=============================================================================
