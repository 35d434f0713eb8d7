--------------------------- MODULE MCPeriodLedger ---------------------------
(* Instances of PeriodLedger for TLC. *)
EXTENDS PeriodLedger, TLC

\* Identifiers are interchangeable: nothing orders or compares them.
Symmetry == Permutations(Entries) \cup Permutations(Movements) \cup Permutations(Workers)
=============================================================================
