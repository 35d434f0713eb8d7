--------------------------- MODULE MCIdempotency ---------------------------
(* Instances of Idempotency for TLC. *)
EXTENDS Idempotency, TLC

\* Only for runs without liveness properties.
Symmetry == Permutations(Callers) \cup Permutations(Keys) \cup Permutations(Bodies)
=============================================================================
