---------------------------- MODULE MCConnectors ----------------------------
(***************************************************************************)
(* Connectors for TLC.  Its runs have temporal properties: no symmetry.    *)
(***************************************************************************)
EXTENDS Connectors
=============================================================================
