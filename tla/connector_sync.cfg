SPECIFICATION Spec
CONSTANTS
  Conns = {c1, c2}
  Maps = {m1, m2, m3}
  Nodes = {n1}
  NoNode = NoNode
  t1 = t1
  t2 = t2
  Types = {t1, t2}
  BuiltIn <- Shipped
  External <- Added
  Flaky <- AnyPlugin
  Params = {p1, p2, p3, null}
  Rejected = {p3, null}
  NoHost = {p3, null}
  Falsy = {null}
  Addresses = {good, bad}
  Refused = {bad}
INVARIANTS
  OneMappingPerNode
  ConnectionsInStep
  DeletedIsNotPolled
  LaxIsPolled
SYMMETRY Symmetry
