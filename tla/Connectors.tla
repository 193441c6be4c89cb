----------------------------- MODULE Connectors -----------------------------
(***************************************************************************)
(* The connector plugins together: a connection of any of the protocols    *)
(* the registry offers.  Connectors do not share connections, so one       *)
(* connection, whose protocol is fixed when it is created, stands for all. *)
(***************************************************************************)
EXTENDS S7Connector, ModbusConnector, EtherNetIpConnector, PcccConnector

CONSTANT Protocols  \* the protocols a run looks at

ASSUME ProtocolAssumption ==
  Protocols \subseteq {"s7", "modbus-tcp", "ethernet-ip", "pccc"}

VARIABLE protocol  \* the type of the connection's connector

connectorVars == <<protocol, vars>>

ConnectorInit == Init /\ protocol \in Protocols

(* What the connector of the connection's type does. *)
ConnectorNext ==
  /\ \/ protocol = "s7" /\ S7_Next
     \/ protocol = "modbus-tcp" /\ Modbus_Next
     \/ protocol = "ethernet-ip" /\ Eip_Next
     \/ protocol = "pccc" /\ Pccc_Next
  /\ UNCHANGED protocol

Tick ==
  /\ \/ protocol = "s7" /\ S7_PollTick
     \/ protocol = "modbus-tcp" /\ Modbus_PollTick
     \/ protocol = "ethernet-ip" /\ Eip_PollTick
     \/ protocol = "pccc" /\ Pccc_PollTick
  /\ UNCHANGED protocol

Callback ==
  /\ \/ protocol = "s7" /\ S7_Callbacks
     \/ protocol = "modbus-tcp" /\ Modbus_Callbacks
     \/ protocol = "ethernet-ip" /\ Eip_Callbacks
     \/ protocol = "pccc" /\ Pccc_Callbacks
  /\ UNCHANGED protocol

Success ==
  /\ \E c \in Clients :
       \/ protocol = "s7" /\ S7_ConnectSucceeds(c)
       \/ protocol = "modbus-tcp" /\ Modbus_ConnectSucceeds(c)
       \/ protocol = "ethernet-ip" /\ Eip_ConnectSucceeds(c)
       \/ protocol = "pccc" /\ Pccc_ConnectSucceeds(c)
  /\ UNCHANGED protocol

(***************************************************************************)
(* Timers fire and the library calls back about what it still owes (the    *)
(* connectors give every library a timeout).  That the device accepts a    *)
(* handshake again and again is the premise under which reconnecting is    *)
(* worth anything.  The operator's requests are not fair.                  *)
(***************************************************************************)
Fairness ==
  /\ WF_connectorVars(reconnect /\ UNCHANGED protocol)
  /\ WF_connectorVars(Tick)
  /\ WF_connectorVars(Callback)
  /\ SF_connectorVars(Success)

Spec == ConnectorInit /\ [][ConnectorNext]_connectorVars /\ Fairness

-----------------------------------------------------------------------------
(* The protocols whose polls wait for the previous one to end. *)
GuardsPolls == protocol \in {"ethernet-ip", "pccc"}

(***************************************************************************)
(* No poll of EtherNet/IP or PCCC is sent before the previous one was      *)
(* answered, even if that went to a client that has been dropped since.    *)
(***************************************************************************)
PollsOneAtATime == GuardsPolls => OnePollAtATime

(* Because their polls do not overlap, these two serve no good value       *)
(* between a failure and the reconnect.                                    *)
LostStaysBad == GuardsPolls => LostIsNotGood

(***************************************************************************)
(* A removed mapping comes back to the cache only with Modbus and          *)
(* EtherNet/IP, and only by a read in flight when it was removed: S7 and   *)
(* PCCC look at the mappings when the answer comes, and no poll that goes  *)
(* on or begins later asks for it.                                         *)
(***************************************************************************)
OnlyReadsInFlightRevive ==
  [][\A k \in Mappings : mappings[k] = "removed" =>
       /\ currentValues[k] = "none" /\ currentValues'[k] # "none" =>
            /\ protocol \in {"modbus-tcp", "ethernet-ip"}
            /\ \E r \in lib.reads \ lib'.reads : k \in r.targets
       /\ protocol \in {"modbus-tcp", "ethernet-ip"} =>
            \A r \in lib'.reads : k \in r.targets => r \in lib.reads]_connectorVars

(***************************************************************************)
(* Whatever callbacks of closed clients come, a wanted connection is up on *)
(* its own handshake, or a callback or a reconnect to come will correct    *)
(* it; a 'connected' that is false does not last.  The one exception is a  *)
(* reconnect timer that fires during an attempt: it drops the client, and  *)
(* the early return of initiateConnection makes no other.                  *)
(***************************************************************************)
OnlyTimersGiveUp ==
  [][GivenUp' => GivenUp \/ (reconnect /\ managed.connecting)]_connectorVars

(***************************************************************************)
(* No operation and no callback of the present, established client leaves  *)
(* a reconnect behind that would tear down a connection that is up or      *)
(* being made: only the callbacks of a stranger do.                        *)
(***************************************************************************)
OnlyStrangersDoom ==
  [][Doomed' => Doomed \/ FromStranger]_connectorVars

(***************************************************************************)
(* A connection with mappings that is up goes on reading them although its *)
(* polls wait for each other, if the library settles the read of a client  *)
(* that was dropped.                                                       *)
(***************************************************************************)
GuardedPollingGoesOn == GuardsPolls => KeepsReading
=============================================================================
