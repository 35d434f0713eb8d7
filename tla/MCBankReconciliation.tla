------------------------ MODULE MCBankReconciliation ------------------------
(* Instances of BankReconciliation for TLC: l1 in s1, l2 in s2. *)
EXTENDS BankReconciliation, TLC

CONSTANTS s1, s2, l1, l2

MCStatementOf == (l1 :> s1) @@ (l2 :> s2)

\* Identifiers of groups and entries are interchangeable.
Symmetry == Permutations(Groups) \cup Permutations(Adjustments)
=============================================================================
