--------------------------- MODULE MCConnectorSync ---------------------------
(* ConnectorSync on small tables and with the plugins of a few directories. *)
EXTENDS ConnectorSync, TLC

CONSTANTS t1, t2

(* The server knows t1, and is strict about it, and t2; there is a plugin  *)
(* for t1 that takes all addresses, and one that says nothing of itself.   *)
Shipped ==
  {[type |-> t1, strict |-> TRUE, exports |-> <<"other", "connector">>],
   [type |-> t2, strict |-> FALSE, exports |-> <<"connector">>]}

Added ==
  {[type |-> t1, strict |-> FALSE, exports |-> <<"connector">>],
   [type |-> t2, strict |-> TRUE, exports |-> <<"undescribed", "connector">>]}

None == {}

AnyPlugin == Shipped \cup Added

Symmetry ==
  Permutations(Conns) \cup Permutations(Maps) \cup Permutations(Nodes)
    \cup Permutations(Params \ Rejected)
=============================================================================
