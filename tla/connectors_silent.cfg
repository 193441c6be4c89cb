SPECIFICATION Spec
CONSTANTS
  Protocols = {"s7", "modbus-tcp", "ethernet-ip", "pccc"}
  NoClient = NoClient
  Clients = {c1, c2, c3}
  Mappings = {k1, k2}
  ReadIds = {1, 2}
  AfterClose = {"silent"}
INVARIANTS
  LostStaysBad
PROPERTIES
  IsALink
