-------------------------- MODULE MCServerSecurity --------------------------
(* ServerSecurity with a few generations. *)
EXTENDS ServerSecurity, TLC
=============================================================================
