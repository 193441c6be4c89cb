--------------------------- MODULE BaseConnector ---------------------------
(***************************************************************************)
(* One managed device connection of a protocol connector: the lifecycle    *)
(* that BaseConnector implements once for the four protocols.  The modules *)
(* S7Connector, ModbusConnector, EtherNetIpConnector and PcccConnector     *)
(* extend this one with what a protocol adds: the callbacks of its client  *)
(* library and its polling.                                                *)
(*                                                                         *)
(* Node runs one handler at a time, so an action is one handler: an API    *)
(* call, a timer, or a callback of the client library.  What the library   *)
(* owes the connector is in lib: the clients not yet closed, the           *)
(* handshakes that have not called back, the reads in flight.  Closing a   *)
(* client does not say whether its outstanding callbacks still come;       *)
(* AfterClose gives the outcomes a run explores.                           *)
(***************************************************************************)
EXTENDS Naturals

CONSTANTS
  Clients,     \* client objects of the library; an unused one is recycled (bound)
  NoClient,    \* managed.client = null
  Mappings,    \* the mappings ever added to the connection
  ReadIds,     \* bound on the polls in flight at once
  AfterClose   \* what the library does about a closed client's callbacks

ASSUME ConnectorAssumption ==
  /\ NoClient \notin Clients
  /\ AfterClose \subseteq {"silent", "late"}

VARIABLES
  running,        \* BaseConnector.running
  phase,          \* is the connection in BaseConnector.connections?
  managed,        \* the BaseManagedConnection object; refused is history
  mappings,       \* managed.mappings, with the history of each mapping
  currentValues,  \* quality of the cached value of each mapping
  lib             \* the client library (external)

vars == <<running, phase, managed, mappings, currentValues, lib>>

Phase == {"absent", "tracked", "removed"}
State == {"disconnected", "connected", "error"}
Quality == {"none", "good", "bad"}

Managed ==
  [enabled : BOOLEAN, client : Clients \cup {NoClient}, state : State,
   connecting : BOOLEAN, pollingTimer : BOOLEAN, reconnectTimer : BOOLEAN,
   pollInProgress : BOOLEAN,
   refused : BOOLEAN]  \* an update threw, and no client was made since

(***************************************************************************)
(* A poll in flight waits for an answer of client about targets; a Modbus  *)
(* poll reads one mapping after the other and has read done.               *)
(***************************************************************************)
Read == [id : ReadIds, client : Clients,
         targets : SUBSET Mappings, done : SUBSET Mappings]

Lib == [open : SUBSET Clients,         \* created and not closed
        handshakes : SUBSET Clients,   \* connect callback still to come
        established : SUBSET Clients,  \* handshake succeeded
        items : SUBSET Mappings,       \* poll list of the current client
        reads : SUBSET Read]

TypeOK ==
  /\ running \in BOOLEAN
  /\ phase \in Phase
  /\ managed \in Managed
  /\ mappings \in [Mappings -> {"new", "mapped", "removed"}]
  /\ currentValues \in [Mappings -> Quality]
  /\ lib \in Lib

Mapped == {k \in Mappings : mappings[k] = "mapped"}

(* The object createManagedConnection returns. *)
NewManaged(e) ==
  [enabled |-> e, client |-> NoClient, state |-> "disconnected",
   connecting |-> FALSE, pollingTimer |-> FALSE, reconnectTimer |-> FALSE,
   pollInProgress |-> FALSE, refused |-> FALSE]

Init ==
  /\ running = FALSE
  /\ phase = "absent"
  /\ managed = NewManaged(FALSE)
  /\ mappings = [k \in Mappings |-> "new"]
  /\ currentValues = [k \in Mappings |-> "none"]
  /\ lib = [open |-> {}, handshakes |-> {}, established |-> {},
            items |-> {}, reads |-> {}]

-----------------------------------------------------------------------------
(***************************************************************************)
(* The client library, as the connectors use it.                           *)
(***************************************************************************)

(* Client objects something still refers to. *)
InUse(l) == l.open \cup l.handshakes \cup {r.client : r \in l.reads}

(* dropConnection, disconnect or close, whatever the protocol calls it. *)
closeClient(l, c, outcome) ==
  IF c = NoClient THEN l
  ELSE [l EXCEPT
          !.open = @ \ {c},
          !.items = {},
          !.handshakes = IF outcome = "late" THEN @ ELSE @ \ {c},
          !.established = IF outcome = "late" THEN @ ELSE @ \ {c},
          !.reads = IF outcome = "late" THEN @ ELSE {r \in @ : r.client # c}]

(* A new client object that starts its handshake; its poll list is empty. *)
openClient(l, c) ==
  [l EXCEPT !.open = @ \cup {c}, !.handshakes = @ \cup {c},
            !.established = @ \ {c}, !.items = {}]

(* The connect callback of c is delivered, without or with an error. *)
Delivered(l, c, ok) ==
  [l EXCEPT !.handshakes = @ \ {c},
            !.established = IF ok /\ c \in l.open THEN @ \cup {c} ELSE @]

-----------------------------------------------------------------------------
(***************************************************************************)
(* Shared helpers of BaseConnector, on the managed object m.               *)
(***************************************************************************)

Bug_ConnectingState(m, l) ==
  IF m.connecting
  THEN managed' = m /\ lib' = l
  ELSE \E c \in Clients \ InUse(l) :
         /\ managed' = [m EXCEPT !.connecting = TRUE, !.client = c,
                                 !.state = "connecting"]
         /\ lib' = openClient(l, c)

(* The single-flight guard, then a new client. *)
initiateConnection(m, l) ==
  IF m.connecting
  THEN managed' = m /\ lib' = l
  ELSE \E c \in Clients \ InUse(l) :
         /\ managed' = [m EXCEPT !.connecting = TRUE, !.client = c, !.refused = FALSE]
         /\ lib' = openClient(l, c)

Bug_KeepTimer(m) ==
  [m EXCEPT !.client = NoClient, !.state = "disconnected",
            !.connecting = FALSE, !.pollingTimer = FALSE]

disconnectAndCleanup(m) ==
  [m EXCEPT !.client = NoClient, !.state = "disconnected",
            !.connecting = FALSE, !.pollingTimer = FALSE,
            !.reconnectTimer = FALSE]

Bug_NoReconnect(m) ==
  [m EXCEPT !.state = IF @ = "connected" THEN "disconnected" ELSE "error",
            !.pollingTimer = FALSE]

(* Stops polling and, while the connector runs, schedules a reconnect; a   *)
(* pending timer is replaced by the new one.  The callers also make the    *)
(* quality of every mapping bad: BadQuality.                               *)
handleConnectionError(m) ==
  [m EXCEPT !.state = IF @ = "connected" THEN "disconnected" ELSE "error",
            !.pollingTimer = FALSE,
            !.reconnectTimer = @ \/ running]

(* emitQualityUpdate(managed, 'bad') and (managed, 'good') on the cache.   *)
BadQuality ==
  [k \in Mappings |-> IF k \in Mapped THEN "bad" ELSE currentValues[k]]

GoodQuality ==
  [k \in Mappings |-> IF k \in Mapped /\ currentValues[k] # "none"
                      THEN "good" ELSE currentValues[k]]

(* cacheValue for every mapping of good and of bad. *)
CacheValues(good, bad) ==
  [k \in Mappings |-> IF k \in good THEN "good"
                      ELSE IF k \in bad THEN "bad" ELSE currentValues[k]]

-----------------------------------------------------------------------------
(***************************************************************************)
(* The connector's operations, called by the API, at boot and when the     *)
(* runtime starts, stops or crashes.                                       *)
(***************************************************************************)

addConnection(e) ==
  /\ phase = "absent"
  /\ phase' = "tracked"
  /\ IF running /\ e
     THEN initiateConnection(NewManaged(e), lib)
     ELSE managed' = NewManaged(e) /\ lib' = lib
  /\ UNCHANGED <<running, mappings, currentValues>>

Bug_RemoveWithoutClose ==
  /\ phase = "tracked"
  /\ phase' = "removed"
  /\ managed' = disconnectAndCleanup(managed)
  /\ UNCHANGED <<running, mappings, currentValues, lib>>

removeConnection ==
  /\ phase = "tracked"
  /\ phase' = "removed"
  /\ managed' = disconnectAndCleanup(managed)
  /\ \E outcome \in AfterClose : lib' = closeClient(lib, managed.client, outcome)
  /\ UNCHANGED <<running, mappings, currentValues>>

(* For a connection that is not tracked the code falls back on             *)
(* addConnection, which is the action of that name.                        *)
updateConnection(e) ==
  /\ phase = "tracked"
  /\ \E outcome \in AfterClose :
       LET m == [disconnectAndCleanup(managed) EXCEPT !.enabled = e, !.refused = FALSE]
           l == closeClient(lib, managed.client, outcome)
       IN IF running /\ e THEN initiateConnection(m, l)
                          ELSE managed' = m /\ lib' = l
  /\ UNCHANGED <<running, phase, mappings, currentValues>>

(* The parameters that PUT has stored are none, and extractParams throws:  *)
(* the client is gone, the configuration stays, and nothing is scheduled.  *)
(* (addConnection throws before it does anything.)                         *)
updateConnectionThrows ==
  /\ phase = "tracked"
  /\ managed' = [disconnectAndCleanup(managed) EXCEPT !.refused = TRUE]
  /\ \E outcome \in AfterClose : lib' = closeClient(lib, managed.client, outcome)
  /\ UNCHANGED <<running, phase, mappings, currentValues>>

start ==
  /\ ~running
  /\ running' = TRUE
  /\ IF phase = "tracked" /\ managed.enabled
     THEN initiateConnection(managed, lib)
     ELSE UNCHANGED <<managed, lib>>
  /\ UNCHANGED <<phase, mappings, currentValues>>

stop ==
  /\ running
  /\ running' = FALSE
  /\ IF phase = "tracked"
     THEN /\ managed' = disconnectAndCleanup(managed)
          /\ \E outcome \in AfterClose :
               lib' = closeClient(lib, managed.client, outcome)
     ELSE UNCHANGED <<managed, lib>>
  /\ UNCHANGED <<phase, mappings, currentValues>>

(* registers: the protocol adds the address to the client's poll list now. *)
addMapping(k, registers) ==
  /\ phase = "tracked"
  /\ mappings[k] = "new"
  /\ mappings' = [mappings EXCEPT ![k] = "mapped"]
  /\ lib' = IF registers THEN [lib EXCEPT !.items = @ \cup {k}] ELSE lib
  /\ UNCHANGED <<running, phase, managed, currentValues>>

removeMapping(k, unregisters) ==
  /\ phase = "tracked"
  /\ mappings[k] = "mapped"
  /\ mappings' = [mappings EXCEPT ![k] = "removed"]
  /\ currentValues' = [currentValues EXCEPT ![k] = "none"]
  /\ lib' = IF unregisters THEN [lib EXCEPT !.items = @ \ {k}] ELSE lib
  /\ UNCHANGED <<running, phase, managed>>

(* The timer of scheduleReconnect fires. *)
reconnect ==
  /\ managed.reconnectTimer
  /\ LET m == [managed EXCEPT !.reconnectTimer = FALSE]
     IN IF ~running
        THEN managed' = m /\ lib' = lib
        ELSE \E outcome \in AfterClose :
               initiateConnection(
                 [m EXCEPT !.client = NoClient, !.state = "disconnected"],
                 closeClient(lib, managed.client, outcome))
  /\ UNCHANGED <<running, phase, mappings, currentValues>>

Operations ==
  \/ \E e \in BOOLEAN : addConnection(e) \/ updateConnection(e)
  \/ updateConnectionThrows
  \/ removeConnection
  \/ start
  \/ stop

-----------------------------------------------------------------------------
(***************************************************************************)
(* What polling shares.                                                    *)
(***************************************************************************)

FreeIds(l) == ReadIds \ {r.id : r \in l.reads}

(* The early returns at the top of every protocol's poll function. *)
MayPoll(m) ==
  /\ m.state = "connected"
  /\ m.client # NoClient
  /\ Mapped # {}

-----------------------------------------------------------------------------
(***************************************************************************)
(* Properties of one connection.                                           *)
(***************************************************************************)

(* The connector is to hold the connection, and was not left without       *)
(* usable parameters by its last update.                                   *)
Wanted == running /\ phase = "tracked" /\ managed.enabled /\ ~managed.refused

Quiet ==
  /\ managed.client = NoClient
  /\ managed.state # "connected"
  /\ ~managed.connecting
  /\ ~managed.pollingTimer
  /\ ~managed.reconnectTimer

(* While the connector is stopped, whatever callbacks still arrive, its    *)
(* connection has no client, no timer and is not reported as connected.    *)
StoppedIsQuiet == ~running /\ phase = "tracked" => Quiet

(* The same for a connection that was removed or disabled while the        *)
(* connector goes on running: nothing brings it back.                      *)
UnwantedIsQuiet == ~Wanted => Quiet

(* 'connected' is about the present client: its own handshake succeeded,   *)
(* not that of one that was dropped before.                                *)
ConnectedIsEstablished ==
  managed.state = "connected" => managed.client \in lib.established

(* A wanted connection that is down is being retried: an attempt of the    *)
(* present client is under way, or the timer of the next one is pending.   *)
DownIsRetried ==
  Wanted /\ managed.state # "connected" =>
    \/ managed.reconnectTimer
    \/ managed.connecting /\ managed.client \in lib.handshakes

(* No reconnect is pending that would tear a working connection down, and  *)
(* polling runs exactly while the connection is up.                        *)
ConnectedIsLeftAlone ==
  /\ managed.state = "connected" => ~managed.reconnectTimer
  /\ managed.pollingTimer <=> managed.state = "connected"

(* Every client object that was not closed is the one managed holds: no    *)
(* reconnect, update or stop leaks a socket.                               *)
NoLeakedClient == lib.open \subseteq {managed.client}

(* After a failure, until the reconnect, no mapped value is served good.   *)
LostIsNotGood ==
  managed.reconnectTimer => \A k \in Mapped : currentValues[k] # "good"

(* Cached values are those of the mappings of a tracked connection. *)
OnlyMappedValues ==
  \A k \in Mappings : currentValues[k] # "none" =>
    phase = "tracked" /\ k \in Mapped

(* While connected, the client's poll list holds every mapping. *)
MappedIsRegistered ==
  managed.state = "connected" => Mapped \subseteq lib.items

(* Of the protocols that guard polls (EtherNet/IP and PCCC): whatever      *)
(* client a poll was sent to, no second one is sent before its answer.     *)
OnePollAtATime ==
  /\ \A r, s \in lib.reads : r = s
  /\ lib.reads # {} => managed.pollInProgress

(* A wanted connection that is not up on a handshake of its own, whatever  *)
(* its state says, and that no reconnect and no callback will correct.     *)
GivenUp ==
  /\ Wanted
  /\ ~managed.reconnectTimer
  /\ managed.client \notin lib.handshakes
  /\ ~(managed.state = "connected" /\ managed.client \in lib.established)

(* A reconnect is pending that will drop a client that is up or may still  *)
(* come up.                                                                *)
Doomed ==
  /\ managed.reconnectTimer
  /\ managed.state = "connected" \/ managed.client \in lib.handshakes

(* The callback of a client that was replaced, or of a read sent before    *)
(* the handshake of the present one has ended.                             *)
FromStranger ==
  \/ \E c \in lib.handshakes \ lib'.handshakes : c # managed.client
  \/ \E r \in lib.reads \ lib'.reads : r.client # managed.client \/ r.client \in lib.handshakes

(* A connected connection with mappings keeps reading them. *)
KeepsReading ==
  (managed.state = "connected" /\ Mapped # {}) ~>
    (lib.reads # {} \/ managed.state # "connected" \/ Mapped = {})

(* What the managed object says of the connection, in ConnectionLink's     *)
(* terms.                                                                  *)
LinkState ==
  CASE managed.state = "connected" -> "up"
    [] managed.state # "connected" /\ managed.reconnectTimer -> "waiting"
    [] managed.state # "connected" /\ ~managed.reconnectTimer
         /\ managed.connecting -> "trying"
    [] OTHER -> "down"

(* With a library that is silent about closed clients every protocol keeps *)
(* the promise of ConnectionLink.                                          *)
Link == INSTANCE ConnectionLink WITH wanted <- Wanted, link <- LinkState

IsALink == Link!Spec
=============================================================================
