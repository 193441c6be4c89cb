---------------------------- MODULE MCAddressSpace ----------------------------
EXTENDS AddressSpace, TLC

(* Only the names of namespaces are ordered. *)
Symmetry == Permutations(Ids) \cup Permutations(Uris) \cup Permutations(Names)
=============================================================================
