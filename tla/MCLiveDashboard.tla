-------------------------- MODULE MCLiveDashboard --------------------------
(***************************************************************************)
(* LiveDashboard for TLC.  Browsers do not interact: one stands for all.   *)
(***************************************************************************)
EXTENDS LiveDashboard
=============================================================================
