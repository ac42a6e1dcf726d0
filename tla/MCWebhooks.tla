------------------------------ MODULE MCWebhooks ------------------------------
(* Model values and symmetry for Webhooks. *)
EXTENDS Webhooks, TLC

\* Subscriptions and deliveries are interchangeable; used without liveness.
Symmetry == Permutations(Subs) \cup Permutations(Deliveries) \cup Permutations(Keys)

=============================================================================
