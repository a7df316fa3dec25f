--------------------------- MODULE MCDiagnostics ---------------------------
(* Diagnostics with the values of its constants in the .cfg file. *)
EXTENDS Diagnostics
=============================================================================
