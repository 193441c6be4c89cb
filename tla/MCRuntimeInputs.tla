--------------------------- MODULE MCRuntimeInputs ---------------------------
(* RuntimeInputs on a buffer of a few bytes and one or two certificates. *)
EXTENDS RuntimeInputs, TLC
=============================================================================
