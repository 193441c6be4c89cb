SPECIFICATION Spec
CONSTANTS
  Conns = {c1, c2}
  Maps = {m1}
  Nodes = {n1, n2}
  NoNode = NoNode
  t1 = t1
  t2 = t2
  Types = {t1, t2}
  BuiltIn <- Shipped
  External <- None
  Flaky <- None
  Params = {p1, p2}
  Rejected = {}
  NoHost = {}
  Falsy = {}
  Addresses = {good, bad}
  Refused = {bad}
INVARIANTS
  BootSucceeds
SYMMETRY Symmetry
