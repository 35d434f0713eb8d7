--------------------------- MODULE MCAutoSaveForm ---------------------------
(* Instances of AutoSaveForm for TLC. *)
EXTENDS AutoSaveForm
=============================================================================
