SPECIFICATION Spec
CONSTANTS
  Protocols = {"s7", "modbus-tcp", "ethernet-ip", "pccc"}
  NoClient = NoClient
  Clients = {c1, c2, c3}
  Mappings = {k1}
  ReadIds = {1, 2}
  AfterClose = {"late"}
INVARIANTS
  TypeOK
  StoppedIsQuiet
  NoLeakedClient
  PollsOneAtATime
PROPERTIES
  OnlyReadsInFlightRevive
  OnlyTimersGiveUp
  OnlyStrangersDoom
  GuardedPollingGoesOn
