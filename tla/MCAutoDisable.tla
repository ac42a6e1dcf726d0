---------------------------- MODULE MCAutoDisable ----------------------------
(* Model values and symmetry for AutoDisable. *)
EXTENDS AutoDisable, TLC

\* Ids are interchangeable; used without liveness.
Symmetry == Permutations(Rules) \cup Permutations(Triggers) \cup Permutations(Events)
            \cup Permutations(Callers)

=============================================================================
