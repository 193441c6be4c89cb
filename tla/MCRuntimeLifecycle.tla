------------------------ MODULE MCRuntimeLifecycle ------------------------
(***************************************************************************)
(* Instances of RuntimeLifecycle for TLC.  The runtimes are not symmetric: *)
(* startAndConnect chooses among them.                                     *)
(***************************************************************************)
EXTENDS RuntimeLifecycle, TLC

Symmetry == Permutations(Requests)
===========================================================================
