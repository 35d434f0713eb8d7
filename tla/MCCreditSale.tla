----------------------------- MODULE MCCreditSale -----------------------------
(* CreditSale for TLC. *)
EXTENDS CreditSale
=============================================================================
