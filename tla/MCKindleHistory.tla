--------------------------- MODULE MCKindleHistory ---------------------------
(* The Kindle release agent with its history variables, on small histories. *)
EXTENDS KindleHistory, MCKindleRelease
=============================================================================
