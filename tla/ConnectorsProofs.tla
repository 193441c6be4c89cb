-------------------------- MODULE ConnectorsProofs --------------------------
(***************************************************************************)
(* What the four protocol connectors guarantee for any number of clients,  *)
(* mappings and polls, whatever the library does with the callbacks of a   *)
(* closed client: what holds in every state, which handlers may bring a    *)
(* removed mapping back, and which may leave a connection without anybody  *)
(* to correct it.                                                          *)
(***************************************************************************)
EXTENDS Connectors, TLAPS

(* Before addConnection nothing is owed to the connection. *)
AbsentIsFresh ==
  phase = "absent" => /\ Quiet
                      /\ lib.handshakes = {}
                      /\ lib.reads = {}

(***************************************************************************)
(* The inductive invariant.  StoppedIsQuiet alone is not inductive: a      *)
(* callback that arrives before the connection was added could schedule a  *)
(* reconnect, and start would overwrite a client that is still open.       *)
(***************************************************************************)
BaseInv == TypeOK /\ StoppedIsQuiet /\ NoLeakedClient /\ AbsentIsFresh

(* The inductive invariant of the protocols that guard their polls. *)
GuardedInv == BaseInv /\ OnePollAtATime

(* The fields of a managed object are of the types createManagedConnection *)
(* and its callers give them.                                              *)
LEMMA ManagedFields ==
  ASSUME NEW m \in Managed
  PROVE  /\ m.enabled \in BOOLEAN
         /\ m.client \in Clients \cup {NoClient}
         /\ m.state \in State
         /\ m.connecting \in BOOLEAN
         /\ m.pollingTimer \in BOOLEAN
         /\ m.reconnectTimer \in BOOLEAN
         /\ m.pollInProgress \in BOOLEAN
         /\ m.refused \in BOOLEAN
BY DEF Managed

(* A cleaned-up object is well typed and quiet. *)
LEMMA CleanupIsQuiet ==
  ASSUME NEW m \in Managed, NEW e \in BOOLEAN
  PROVE  LET q == disconnectAndCleanup(m)
             p == [q EXCEPT !.enabled = e, !.refused = FALSE]
             t == [q EXCEPT !.refused = TRUE]
         IN /\ q \in Managed /\ p \in Managed /\ t \in Managed
            /\ t.client = NoClient /\ t.state = "disconnected"
            /\ ~t.connecting /\ ~t.pollingTimer /\ ~t.reconnectTimer
            /\ t.pollInProgress = m.pollInProgress
            /\ q.client = NoClient /\ p.client = NoClient
            /\ q.state = "disconnected" /\ p.state = "disconnected"
            /\ ~q.connecting /\ ~p.connecting
            /\ ~q.pollingTimer /\ ~p.pollingTimer
            /\ ~q.reconnectTimer /\ ~p.reconnectTimer
            /\ q.pollInProgress = m.pollInProgress
            /\ p.pollInProgress = m.pollInProgress
BY DEF Managed, State, disconnectAndCleanup

(* Closing a client removes it from the open ones and adds nothing. *)
LEMMA CloseShrinks ==
  ASSUME NEW l \in Lib, NEW c \in Clients \cup {NoClient}, NEW outcome
  PROVE  LET q == closeClient(l, c, outcome)
         IN /\ q \in Lib
            /\ c \in Clients => q.open = l.open \ {c}
            /\ q.open \subseteq l.open
            /\ q.handshakes \subseteq l.handshakes
            /\ q.reads \subseteq l.reads
<1>1. CASE c = NoClient
  BY <1>1, ConnectorAssumption DEF closeClient
<1>2. CASE c # NoClient
  BY <1>2 DEF closeClient, Lib
<1>3. QED
  BY <1>1, <1>2

(* initiateConnection either does nothing, because an attempt is under     *)
(* way, or makes a new client the managed one.                             *)
LEMMA InitiateOpensOne ==
  ASSUME NEW m \in Managed, NEW l \in Lib, initiateConnection(m, l)
  PROVE  /\ managed' \in Managed
         /\ lib' \in Lib
         /\ lib'.reads = l.reads
         /\ managed'.pollInProgress = m.pollInProgress
         /\ l.open \subseteq {m.client} /\ m.client = NoClient
              => lib'.open \subseteq {managed'.client}
<1>1. CASE m.connecting
  BY <1>1 DEF initiateConnection
<1>2. CASE ~m.connecting
  <2>1. PICK c \in Clients \ InUse(l) :
          /\ managed' = [m EXCEPT !.connecting = TRUE, !.client = c, !.refused = FALSE]
          /\ lib' = openClient(l, c)
    BY <1>2 DEF initiateConnection
  <2>2. managed' \in Managed /\ managed'.client = c
        /\ managed'.pollInProgress = m.pollInProgress
    BY <2>1 DEF Managed
  <2>3. lib' \in Lib /\ lib'.open = l.open \cup {c} /\ lib'.reads = l.reads
    BY <2>1 DEF openClient, Lib
  <2>4. l.open \subseteq Clients
    BY DEF Lib
  <2>5. QED
    BY <2>2, <2>3, <2>4, ConnectorAssumption
<1>3. QED
  BY <1>1, <1>2, ManagedFields

-----------------------------------------------------------------------------
(* createManagedConnection returns a well-typed, quiet object.             *)
LEMMA NewManagedIsQuiet ==
  ASSUME NEW e \in BOOLEAN
  PROVE  LET n == NewManaged(e)
         IN /\ n \in Managed /\ n.client = NoClient /\ n.state = "disconnected"
            /\ ~n.connecting /\ ~n.pollingTimer /\ ~n.reconnectTimer
            /\ ~n.pollInProgress /\ ~n.refused
BY DEF NewManaged, Managed, State

(* A connector that was just constructed satisfies BaseInv.                *)
LEMMA BaseInit == Init => BaseInv
<1> SUFFICES ASSUME Init PROVE BaseInv
  OBVIOUS
<1>1. managed \in Managed /\ Quiet
  BY NewManagedIsQuiet DEF Init, Quiet
<1>2. lib \in Lib /\ lib.open = {} /\ lib.handshakes = {} /\ lib.reads = {}
  BY DEF Init, Lib
<1>3. TypeOK
  BY <1>1, <1>2 DEF Init, TypeOK, Phase, Quality
<1>4. QED
  BY <1>1, <1>2, <1>3
     DEF BaseInv, StoppedIsQuiet, NoLeakedClient, AbsentIsFresh

(* The components of the library range over what it was handed.            *)
LEMMA LibFields ==
  ASSUME NEW l \in Lib
  PROVE  /\ l.open \subseteq Clients
         /\ l.handshakes \subseteq Clients
         /\ l.established \subseteq Clients
         /\ l.items \subseteq Mappings
         /\ l.reads \subseteq Read
BY DEF Lib

(* addConnection, whether it connects at once or not, keeps BaseInv.       *)
LEMMA AddPreserves ==
  ASSUME BaseInv, NEW e \in BOOLEAN, addConnection(e)
  PROVE  BaseInv'
<1> DEFINE n == NewManaged(e)
<1>1. /\ n \in Managed /\ n.client = NoClient /\ n.state = "disconnected"
      /\ ~n.connecting /\ ~n.pollingTimer /\ ~n.reconnectTimer
  BY NewManagedIsQuiet
<1>2. managed.client = NoClient /\ lib.open \subseteq {n.client}
  BY <1>1 DEF BaseInv, AbsentIsFresh, NoLeakedClient, Quiet, addConnection
<1>3. phase' = "tracked" /\ running' = running /\ mappings' = mappings
      /\ currentValues' = currentValues
  BY DEF addConnection
<1>4. lib \in Lib
  BY DEF BaseInv, TypeOK
<1>5. CASE running /\ e
  <2>1. initiateConnection(n, lib)
    BY <1>5 DEF addConnection
  <2>2. managed' \in Managed /\ lib' \in Lib /\ lib'.open \subseteq {managed'.client}
    BY <2>1, <1>1, <1>2, <1>4, InitiateOpensOne
  <2>3. QED
    BY <2>2, <1>3, <1>5
       DEF BaseInv, TypeOK, Phase, StoppedIsQuiet, NoLeakedClient, AbsentIsFresh
<1>6. CASE ~(running /\ e)
  <2>1. managed' = n /\ lib' = lib
    BY <1>6 DEF addConnection
  <2>2. QED
    BY <2>1, <1>1, <1>2, <1>3, <1>4
       DEF BaseInv, TypeOK, Phase, StoppedIsQuiet, NoLeakedClient, AbsentIsFresh,
           Quiet
<1>7. QED
  BY <1>5, <1>6

(* What removing, updating and stopping have in common. *)
LEMMA CleanupAndClose ==
  ASSUME BaseInv, NEW outcome
  PROVE  /\ disconnectAndCleanup(managed) \in Managed
         /\ closeClient(lib, managed.client, outcome) \in Lib
         /\ closeClient(lib, managed.client, outcome).open = {}
<1>1. managed \in Managed /\ lib \in Lib /\ lib.open \subseteq {managed.client}
  BY DEF BaseInv, TypeOK, NoLeakedClient
<1>2. managed.client \in Clients \cup {NoClient} /\ lib.open \subseteq Clients
  BY <1>1, ManagedFields, LibFields
<1>3. disconnectAndCleanup(managed) \in Managed
  BY <1>1, CleanupIsQuiet
<1>4. /\ closeClient(lib, managed.client, outcome) \in Lib
      /\ closeClient(lib, managed.client, outcome).open \subseteq lib.open
      /\ managed.client \in Clients =>
           closeClient(lib, managed.client, outcome).open
             = lib.open \ {managed.client}
  BY <1>1, <1>2, CloseShrinks
<1>5. QED
  BY <1>1, <1>2, <1>3, <1>4, ConnectorAssumption

(* removeConnection closes the client before it forgets the connection.    *)
LEMMA RemovePreserves ==
  ASSUME BaseInv, removeConnection
  PROVE  BaseInv'
<1>1. PICK outcome \in AfterClose :
        lib' = closeClient(lib, managed.client, outcome)
  BY DEF removeConnection
<1>2. lib' \in Lib /\ lib'.open = {} /\ managed' \in Managed
  BY <1>1, CleanupAndClose DEF removeConnection
<1>3. QED
  BY <1>2 DEF removeConnection, BaseInv, TypeOK, Phase, StoppedIsQuiet,
              NoLeakedClient, AbsentIsFresh

(* updateConnection closes the old client before it opens a new one.       *)
LEMMA UpdatePreserves ==
  ASSUME BaseInv, NEW e \in BOOLEAN, updateConnection(e)
  PROVE  BaseInv'
<1>1. PICK outcome \in AfterClose :
        LET m == [disconnectAndCleanup(managed) EXCEPT !.enabled = e, !.refused = FALSE]
            l == closeClient(lib, managed.client, outcome)
        IN IF running /\ e THEN initiateConnection(m, l)
                           ELSE managed' = m /\ lib' = l
  BY DEF updateConnection
<1> DEFINE m == [disconnectAndCleanup(managed) EXCEPT !.enabled = e, !.refused = FALSE]
           l == closeClient(lib, managed.client, outcome)
<1>2. l \in Lib /\ l.open = {}
  BY CleanupAndClose
<1>3. /\ m \in Managed /\ m.client = NoClient /\ m.state = "disconnected"
      /\ ~m.connecting /\ ~m.pollingTimer /\ ~m.reconnectTimer
  BY CleanupIsQuiet DEF BaseInv, TypeOK
<1>4. phase = "tracked" /\ phase' = phase /\ running' = running
      /\ mappings' = mappings /\ currentValues' = currentValues
  BY DEF updateConnection
<1> HIDE DEF m, l
<1>5. CASE running /\ e
  <2>1. initiateConnection(m, l)
    BY <1>1, <1>5 DEF m, l
  <2>2. managed' \in Managed /\ lib' \in Lib /\ lib'.open \subseteq {managed'.client}
    BY <2>1, <1>2, <1>3, InitiateOpensOne
  <2>3. QED
    BY <2>2, <1>4, <1>5
       DEF BaseInv, TypeOK, Phase, StoppedIsQuiet, NoLeakedClient, AbsentIsFresh
<1>6. CASE ~(running /\ e)
  <2>1. managed' = m /\ lib' = l
    BY <1>1, <1>6 DEF m, l
  <2>2. QED
    BY <2>1, <1>2, <1>3, <1>4
       DEF BaseInv, TypeOK, Phase, StoppedIsQuiet, NoLeakedClient, AbsentIsFresh,
           Quiet
<1>7. QED
  BY <1>5, <1>6

(* So does an update that throws, which opens none.                        *)
LEMMA UpdateThrowsPreserves ==
  ASSUME BaseInv, updateConnectionThrows
  PROVE  BaseInv'
<1>1. PICK outcome \in AfterClose :
        lib' = closeClient(lib, managed.client, outcome)
  BY DEF updateConnectionThrows
<1>2. lib' \in Lib /\ lib'.open = {}
  BY <1>1, CleanupAndClose
<1>3. managed' \in Managed /\ Quiet'
  BY CleanupIsQuiet DEF updateConnectionThrows, Quiet, BaseInv, TypeOK
<1>4. QED
  BY <1>2, <1>3 DEF updateConnectionThrows, BaseInv, TypeOK, Phase, StoppedIsQuiet,
              NoLeakedClient, AbsentIsFresh

(* start opens a client only for a connection that has none.               *)
LEMMA StartPreserves ==
  ASSUME BaseInv, start
  PROVE  BaseInv'
<1>1. phase' = phase /\ running' = TRUE /\ ~running
      /\ mappings' = mappings /\ currentValues' = currentValues
  BY DEF start
<1>2. managed \in Managed /\ lib \in Lib
  BY DEF BaseInv, TypeOK
<1>3. CASE phase = "tracked" /\ managed.enabled
  <2>1. initiateConnection(managed, lib)
    BY <1>3 DEF start
  <2>2. managed.client = NoClient /\ lib.open \subseteq {managed.client}
    BY <1>1, <1>3 DEF BaseInv, StoppedIsQuiet, Quiet, NoLeakedClient
  <2>3. managed' \in Managed /\ lib' \in Lib /\ lib'.open \subseteq {managed'.client}
    BY <1>2, <2>1, <2>2, InitiateOpensOne
  <2>4. QED
    BY <2>3, <1>1, <1>3
       DEF BaseInv, TypeOK, StoppedIsQuiet, NoLeakedClient, AbsentIsFresh
<1>4. CASE ~(phase = "tracked" /\ managed.enabled)
  <2>1. managed' = managed /\ lib' = lib
    BY <1>4 DEF start
  <2>2. QED
    BY <2>1, <1>1, <1>2
       DEF BaseInv, TypeOK, StoppedIsQuiet, NoLeakedClient, AbsentIsFresh, Quiet
<1>5. QED
  BY <1>3, <1>4

(* stop leaves a tracked connection quiet and its client closed.           *)
LEMMA StopPreserves ==
  ASSUME BaseInv, stop
  PROVE  BaseInv'
<1>1. phase' = phase /\ running' = FALSE
      /\ mappings' = mappings /\ currentValues' = currentValues
  BY DEF stop
<1>2. CASE phase = "tracked"
  <2>1. PICK outcome \in AfterClose :
          lib' = closeClient(lib, managed.client, outcome)
    BY <1>2 DEF stop
  <2>2. managed' = disconnectAndCleanup(managed)
    BY <1>2 DEF stop
  <2>3. lib' \in Lib /\ lib'.open = {} /\ managed' \in Managed
    BY <2>1, <2>2, CleanupAndClose
  <2>4. Quiet'
    BY <2>2, CleanupIsQuiet DEF Quiet, BaseInv, TypeOK
  <2>5. QED
    BY <2>3, <2>4, <1>1, <1>2
       DEF BaseInv, TypeOK, StoppedIsQuiet, NoLeakedClient, AbsentIsFresh
<1>3. CASE phase # "tracked"
  <2>1. managed' = managed /\ lib' = lib
    BY <1>3 DEF stop
  <2>2. QED
    BY <2>1, <1>1, <1>3
       DEF BaseInv, TypeOK, StoppedIsQuiet, NoLeakedClient, AbsentIsFresh, Quiet
<1>4. QED
  BY <1>2, <1>3

(* The reconnect timer closes the client it replaces.                      *)
LEMMA ReconnectPreserves ==
  ASSUME BaseInv, reconnect
  PROVE  BaseInv'
<1> DEFINE m == [managed EXCEPT !.reconnectTimer = FALSE]
           d == [m EXCEPT !.client = NoClient, !.state = "disconnected"]
<1>1. phase' = phase /\ running' = running /\ managed.reconnectTimer
      /\ mappings' = mappings /\ currentValues' = currentValues
  BY DEF reconnect
<1>2. managed \in Managed /\ lib \in Lib
  BY DEF BaseInv, TypeOK
<1>3. /\ m \in Managed /\ m.client = managed.client
      /\ d \in Managed /\ d.client = NoClient
  BY <1>2 DEF Managed, State
<1>4. phase # "absent" /\ (phase = "tracked" => running)
  BY <1>1 DEF BaseInv, AbsentIsFresh, StoppedIsQuiet, Quiet
<1>5. CASE running
  <2>1. PICK outcome \in AfterClose :
          initiateConnection(d, closeClient(lib, managed.client, outcome))
    BY <1>5 DEF reconnect
  <2>2. /\ closeClient(lib, managed.client, outcome) \in Lib
        /\ closeClient(lib, managed.client, outcome).open = {}
    BY CleanupAndClose
  <2>3. managed' \in Managed /\ lib' \in Lib /\ lib'.open \subseteq {managed'.client}
    BY <1>3, <2>1, <2>2, InitiateOpensOne
  <2>4. QED
    BY <2>3, <1>1, <1>4, <1>5
       DEF BaseInv, TypeOK, StoppedIsQuiet, NoLeakedClient, AbsentIsFresh
<1>6. CASE ~running
  <2>1. managed' = m /\ lib' = lib
    BY <1>6 DEF reconnect
  <2>2. QED
    BY <2>1, <1>1, <1>2, <1>3, <1>4, <1>6
       DEF BaseInv, TypeOK, StoppedIsQuiet, NoLeakedClient, AbsentIsFresh
<1>7. QED
  BY <1>5, <1>6, <1>1 DEF BaseInv, TypeOK

(* Adding or removing a mapping touches neither client nor timers.         *)
LEMMA MappingPreserves ==
  ASSUME BaseInv, NEW k \in Mappings, NEW b \in BOOLEAN,
         addMapping(k, b) \/ removeMapping(k, b)
  PROVE  BaseInv'
<1>1. phase' = phase /\ running' = running /\ managed' = managed
  BY DEF addMapping, removeMapping
<1>2. /\ mappings' \in [Mappings -> {"new", "mapped", "removed"}]
      /\ currentValues' \in [Mappings -> Quality]
  BY DEF addMapping, removeMapping, BaseInv, TypeOK, Quality
<1>3. lib' \in Lib /\ lib'.open = lib.open /\ lib'.handshakes = lib.handshakes
      /\ lib'.reads = lib.reads
  BY DEF addMapping, removeMapping, BaseInv, TypeOK, Lib
<1>4. QED
  BY <1>1, <1>2, <1>3
     DEF BaseInv, TypeOK, StoppedIsQuiet, NoLeakedClient, AbsentIsFresh, Quiet

(* Every operation of the API or of the runtime keeps BaseInv.             *)
LEMMA OperationsPreserve == BaseInv /\ Operations => BaseInv'
BY AddPreserves, UpdatePreserves, UpdateThrowsPreserves, RemovePreserves, StartPreserves, StopPreserves
   DEF Operations

(***************************************************************************)
(* A callback or a poll of any protocol keeps the invariant when it leaves *)
(* the client and the sockets alone, is well typed, and does not wake a    *)
(* quiet connection of a stopped connector.                                *)
(***************************************************************************)
LEMMA CallbackPreserves ==
  ASSUME BaseInv,
         phase # "absent", phase' = phase, running' = running,
         mappings' = mappings, currentValues' \in [Mappings -> Quality],
         managed' \in Managed, lib' \in Lib,
         managed'.client = managed.client, lib'.open = lib.open,
         ~running /\ Quiet => Quiet'
  PROVE  BaseInv'
BY DEF BaseInv, TypeOK, StoppedIsQuiet, NoLeakedClient, AbsentIsFresh

(* BaseInv depends on the variables only.                                  *)
LEMMA StutterPreserves == BaseInv /\ UNCHANGED vars => BaseInv'
BY DEF vars, BaseInv, TypeOK, Mapped, StoppedIsQuiet, NoLeakedClient,
       AbsentIsFresh, Quiet

(* handleConnectionError on a well-typed object. *)
LEMMA ErrorKeepsClient ==
  ASSUME NEW m \in Managed, running \in BOOLEAN
  PROVE  LET q == handleConnectionError(m)
         IN /\ q \in Managed /\ q.client = m.client
            /\ q.connecting = m.connecting
            /\ q.pollInProgress = m.pollInProgress
            /\ q.state # "connected" /\ ~q.pollingTimer
            /\ ~running => q.reconnectTimer = m.reconnectTimer
BY DEF handleConnectionError, Managed, State

(* The quality updates are well typed. *)
LEMMA QualityUpdates ==
  ASSUME currentValues \in [Mappings -> Quality], NEW good, NEW bad
  PROVE  /\ BadQuality \in [Mappings -> Quality]
         /\ GoodQuality \in [Mappings -> Quality]
         /\ CacheValues(good, bad) \in [Mappings -> Quality]
BY DEF BadQuality, GoodQuality, CacheValues, Quality

(* Delivering a connect callback. *)
LEMMA DeliveredKeepsOpen ==
  ASSUME NEW l \in Lib, NEW c \in Clients, NEW ok \in BOOLEAN
  PROVE  /\ Delivered(l, c, ok) \in Lib
         /\ Delivered(l, c, ok).open = l.open
         /\ Delivered(l, c, ok).reads = l.reads
BY DEF Delivered, Lib

-----------------------------------------------------------------------------
(* No operation starts a read or touches the flag that guards the polls,   *)
(* except that addConnection finds and leaves a connection without reads.  *)
LEMMA OperationsLeaveReads ==
  ASSUME BaseInv, Operations \/ reconnect
  PROVE  /\ lib'.reads \subseteq lib.reads
         /\ lib.reads # {} => managed'.pollInProgress = managed.pollInProgress
<1>1. managed \in Managed /\ lib \in Lib
  BY DEF BaseInv, TypeOK
<1>2. managed.client \in Clients \cup {NoClient}
  BY <1>1, ManagedFields
<1>3. ASSUME NEW e \in BOOLEAN, addConnection(e)
      PROVE  lib'.reads \subseteq lib.reads /\ lib.reads = {}
  <2>1. lib.reads = {}
    BY <1>3 DEF addConnection, BaseInv, AbsentIsFresh
  <2>2. NewManaged(e) \in Managed
    BY NewManagedIsQuiet
  <2>3. QED
    BY <1>1, <1>3, <2>1, <2>2, InitiateOpensOne DEF addConnection
<1>4. ASSUME NEW e \in BOOLEAN, updateConnection(e)
      PROVE  /\ lib'.reads \subseteq lib.reads
             /\ managed'.pollInProgress = managed.pollInProgress
  <2>1. PICK outcome \in AfterClose :
          LET m == [disconnectAndCleanup(managed) EXCEPT !.enabled = e, !.refused = FALSE]
              l == closeClient(lib, managed.client, outcome)
          IN IF running /\ e THEN initiateConnection(m, l)
                             ELSE managed' = m /\ lib' = l
    BY <1>4 DEF updateConnection
  <2> DEFINE m == [disconnectAndCleanup(managed) EXCEPT !.enabled = e, !.refused = FALSE]
             l == closeClient(lib, managed.client, outcome)
  <2>2. m \in Managed /\ m.pollInProgress = managed.pollInProgress
    BY <1>1, CleanupIsQuiet
  <2>3. l \in Lib /\ l.reads \subseteq lib.reads
    BY <1>1, <1>2, CloseShrinks
  <2>4. initiateConnection(m, l) \/ (managed' = m /\ lib' = l)
    BY <2>1
  <2> HIDE DEF m, l
  <2>5. QED
    BY <2>2, <2>3, <2>4, InitiateOpensOne
<1>5. CASE removeConnection \/ stop \/ updateConnectionThrows
  <2>1. CASE managed' = managed /\ lib' = lib
    BY <2>1
  <2>2. CASE /\ \/ managed' = disconnectAndCleanup(managed)
                \/ managed' = [disconnectAndCleanup(managed) EXCEPT !.refused = TRUE]
             /\ \E outcome \in AfterClose :
                  lib' = closeClient(lib, managed.client, outcome)
    BY <1>1, <1>2, <2>2, CleanupIsQuiet, CloseShrinks
  <2>3. QED
    BY <1>5, <2>1, <2>2 DEF removeConnection, stop, updateConnectionThrows
<1>6. CASE start
  BY <1>1, <1>6, InitiateOpensOne DEF start
<1>7. CASE reconnect
  <2> DEFINE m == [managed EXCEPT !.reconnectTimer = FALSE]
             d == [m EXCEPT !.client = NoClient, !.state = "disconnected"]
  <2>1. /\ m \in Managed /\ m.pollInProgress = managed.pollInProgress
        /\ d \in Managed /\ d.pollInProgress = managed.pollInProgress
        /\ m.client = managed.client
    BY <1>1 DEF Managed, State
  <2>2. CASE running
    <3>1. PICK outcome \in AfterClose :
            initiateConnection(d, closeClient(lib, managed.client, outcome))
      BY <1>7, <2>2 DEF reconnect
    <3>2. /\ closeClient(lib, managed.client, outcome) \in Lib
          /\ closeClient(lib, managed.client, outcome).reads \subseteq lib.reads
      BY <1>1, <1>2, CloseShrinks
    <3>3. QED
      BY <2>1, <3>1, <3>2, InitiateOpensOne
  <2>3. CASE ~running
    BY <1>7, <2>1, <2>3 DEF reconnect
  <2>4. QED
    BY <2>2, <2>3
<1>8. QED
  BY <1>3, <1>4, <1>5, <1>6, <1>7 DEF Operations

(* Neither an operation nor a timer makes two polls overlap. *)
LEMMA OperationsKeepOnePoll ==
  ASSUME BaseInv, OnePollAtATime, Operations \/ reconnect
  PROVE  OnePollAtATime'
BY OperationsLeaveReads DEF OnePollAtATime

(* Adding or removing a mapping starts no read.                            *)
LEMMA MappingKeepsOnePoll ==
  ASSUME BaseInv, OnePollAtATime, NEW k \in Mappings, NEW b \in BOOLEAN,
         addMapping(k, b) \/ removeMapping(k, b)
  PROVE  OnePollAtATime'
<1>1. managed' = managed /\ lib \in Lib
  BY DEF addMapping, removeMapping, BaseInv, TypeOK
<1>2. lib'.reads = lib.reads
  BY <1>1 DEF addMapping, removeMapping, Lib
<1>3. QED
  BY <1>1, <1>2 DEF OnePollAtATime

-----------------------------------------------------------------------------
(***************************************************************************)
(* The S7 connector keeps BaseInv, even when the library calls back for    *)
(* clients that were closed.                                               *)
(***************************************************************************)

(* A poll starts a read of the present client and changes nothing else.    *)
LEMMA S7_PollKeepsClient ==
  ASSUME NEW m \in Managed, NEW l \in Lib, S7_poll(m, l)
  PROVE  /\ managed' = m
         /\ lib' \in Lib /\ lib'.open = l.open
<1>1. CASE MayPoll(m)
  <2>1. PICK i \in FreeIds(l) :
          /\ managed' = m
          /\ lib' = [l EXCEPT !.reads = @ \cup
                      {[id |-> i, client |-> m.client,
                        targets |-> l.items, done |-> {}]}]
    BY <1>1 DEF S7_poll
  <2>2. [id |-> i, client |-> m.client, targets |-> l.items, done |-> {}] \in Read
    BY <1>1, LibFields, ManagedFields DEF Read, FreeIds, MayPoll
  <2>3. QED
    BY <2>1, <2>2 DEF Lib
<1>2. CASE ~MayPoll(m)
  BY <1>2 DEF S7_poll
<1>3. QED
  BY <1>1, <1>2

(* startPolling arms the timer and polls once; the client stays.           *)
LEMMA S7_StartPollingKeepsClient ==
  ASSUME NEW m \in Managed, NEW l \in Lib, S7_startPolling(m, l)
  PROVE  /\ managed' \in Managed /\ managed'.client = m.client
         /\ lib' \in Lib /\ lib'.open = l.open
<1>1. CASE m.pollingTimer
  BY <1>1 DEF S7_startPolling
<1>2. CASE ~m.pollingTimer
  <2> DEFINE p == [m EXCEPT !.pollingTimer = TRUE]
  <2>1. p \in Managed /\ p.client = m.client
    BY DEF Managed
  <2>2. S7_poll(p, l)
    BY <1>2 DEF S7_startPolling
  <2>3. QED
    BY <2>1, <2>2, S7_PollKeepsClient
<1>3. QED
  BY <1>1, <1>2

(* A failed handshake, of whichever client, wakes no stopped connector.    *)
LEMMA S7_ConnectFailsPreserves ==
  ASSUME BaseInv, NEW c \in Clients, S7_ConnectFails(c)
  PROVE  BaseInv'
<1> DEFINE m == [managed EXCEPT !.connecting = FALSE]
<1>1. managed \in Managed /\ lib \in Lib /\ running \in BOOLEAN
  BY DEF BaseInv, TypeOK
<1>2. /\ m \in Managed /\ m.client = managed.client /\ m.state = managed.state
      /\ ~m.connecting /\ m.reconnectTimer = managed.reconnectTimer
  BY <1>1 DEF Managed
<1>3. managed' = handleConnectionError(m)
  BY DEF S7_ConnectFails
<1> HIDE DEF m
<1>4. /\ managed' \in Managed /\ managed'.client = managed.client
      /\ ~managed'.connecting /\ managed'.state # "connected"
      /\ ~managed'.pollingTimer
      /\ ~running => managed'.reconnectTimer = managed.reconnectTimer
  BY <1>1, <1>2, <1>3, ErrorKeepsClient
<1>5. lib' \in Lib /\ lib'.open = lib.open
  BY <1>1, DeliveredKeepsOpen DEF S7_ConnectFails
<1>6. currentValues' \in [Mappings -> Quality]
  BY QualityUpdates DEF S7_ConnectFails, BaseInv, TypeOK
<1>7. phase # "absent"
  BY DEF S7_ConnectFails, BaseInv, AbsentIsFresh
<1>8. ~running /\ Quiet => Quiet'
  BY <1>4 DEF Quiet
<1>9. QED
  BY <1>4, <1>5, <1>6, <1>7, <1>8, CallbackPreserves DEF S7_ConnectFails

(* A successful handshake acts only when a client is managed, hence never  *)
(* on a stopped connector.                                                 *)
LEMMA S7_ConnectSucceedsPreserves ==
  ASSUME BaseInv, NEW c \in Clients, S7_ConnectSucceeds(c)
  PROVE  BaseInv'
<1> DEFINE m == [managed EXCEPT !.connecting = FALSE]
           l == Delivered(lib, c, TRUE)
           n == [m EXCEPT !.state = "connected"]
           li == [l EXCEPT !.items = @ \cup Mapped]
<1>1. managed \in Managed /\ lib \in Lib
  BY DEF BaseInv, TypeOK
<1>2. l \in Lib /\ l.open = lib.open
  BY <1>1, DeliveredKeepsOpen
<1>3. /\ m \in Managed /\ m.client = managed.client /\ ~m.connecting
      /\ m.state = managed.state /\ m.pollingTimer = managed.pollingTimer
      /\ m.reconnectTimer = managed.reconnectTimer
      /\ n \in Managed /\ n.client = managed.client
  BY <1>1 DEF Managed, State
<1>4. li \in Lib /\ li.open = lib.open
  BY <1>2 DEF Lib, Mapped
<1>5. phase # "absent"
  BY DEF S7_ConnectSucceeds, BaseInv, AbsentIsFresh
<1>6. CASE managed.client = NoClient
  <2>1. managed' = m /\ lib' = l /\ currentValues' = currentValues
    BY <1>3, <1>6 DEF S7_ConnectSucceeds
  <2>2. QED
    BY <2>1, <1>2, <1>3, <1>5, CallbackPreserves
       DEF S7_ConnectSucceeds, Quiet, BaseInv, TypeOK
<1>7. CASE managed.client # NoClient
  <2>1. S7_startPolling(n, li) /\ currentValues' = GoodQuality
    BY <1>3, <1>7 DEF S7_ConnectSucceeds
  <2>2. /\ managed' \in Managed /\ managed'.client = managed.client
        /\ lib' \in Lib /\ lib'.open = lib.open
    BY <2>1, <1>3, <1>4, S7_StartPollingKeepsClient
  <2>3. currentValues' \in [Mappings -> Quality]
    BY <2>1, QualityUpdates DEF BaseInv, TypeOK
  <2>4. ~Quiet
    BY <1>7 DEF Quiet
  <2>5. QED
    BY <2>2, <2>3, <2>4, <1>5, CallbackPreserves DEF S7_ConnectSucceeds
<1>8. QED
  BY <1>6, <1>7

(* A tick of the polling timer keeps the invariant.                        *)
LEMMA S7_PollTickPreserves ==
  ASSUME BaseInv, S7_PollTick
  PROVE  BaseInv'
<1>1. managed \in Managed /\ lib \in Lib /\ S7_poll(managed, lib)
  BY DEF BaseInv, TypeOK, S7_PollTick
<1>2. managed' = managed /\ lib' \in Lib /\ lib'.open = lib.open
  BY <1>1, S7_PollKeepsClient
<1>3. phase # "absent"
  BY DEF S7_PollTick, BaseInv, AbsentIsFresh, Quiet
<1>4. QED
  BY <1>1, <1>2, <1>3, CallbackPreserves DEF S7_PollTick, Quiet, BaseInv, TypeOK

(* A read that ends, of whichever client, wakes no stopped connector.      *)
LEMMA S7_ReadPreserves ==
  ASSUME BaseInv, NEW r \in lib.reads, S7_ReadFails(r) \/ S7_ReadSucceeds(r)
  PROVE  BaseInv'
<1>1. managed \in Managed /\ lib \in Lib /\ running \in BOOLEAN
  BY DEF BaseInv, TypeOK
<1>2. lib' \in Lib /\ lib'.open = lib.open
  BY <1>1 DEF S7_ReadFails, S7_ReadSucceeds, Lib
<1>3. phase # "absent"
  BY DEF BaseInv, AbsentIsFresh
<1>4. CASE S7_ReadFails(r)
  <2>1. managed' = handleConnectionError(managed) /\ currentValues' = BadQuality
    BY <1>4 DEF S7_ReadFails
  <2>2. /\ managed' \in Managed /\ managed'.client = managed.client
        /\ ~running /\ Quiet => Quiet'
    BY <1>1, <2>1, ErrorKeepsClient DEF Quiet
  <2>3. currentValues' \in [Mappings -> Quality]
    BY <2>1, QualityUpdates DEF BaseInv, TypeOK
  <2>4. QED
    BY <1>2, <1>3, <1>4, <2>2, <2>3, CallbackPreserves DEF S7_ReadFails
<1>5. CASE S7_ReadSucceeds(r)
  <2>1. managed' = managed /\ currentValues' \in [Mappings -> Quality]
    BY <1>5, QualityUpdates DEF S7_ReadSucceeds, BaseInv, TypeOK
  <2>2. QED
    BY <1>1, <1>2, <1>3, <1>5, <2>1, CallbackPreserves DEF S7_ReadSucceeds, Quiet
<1>6. QED
  BY <1>4, <1>5

(* Every step keeps the invariant.                                         *)
LEMMA S7_NextPreserves == BaseInv /\ [S7_Next]_vars => BaseInv'
<1> SUFFICES ASSUME BaseInv, [S7_Next]_vars PROVE BaseInv'
  OBVIOUS
<1>1. CASE Operations
  BY <1>1, OperationsPreserve
<1>2. ASSUME NEW k \in Mappings, S7_AddMapping(k) \/ S7_RemoveMapping(k)
      PROVE  BaseInv'
  BY <1>2, MappingPreserves DEF S7_AddMapping, S7_RemoveMapping
<1>3. CASE reconnect
  BY <1>3, ReconnectPreserves
<1>4. CASE S7_PollTick
  BY <1>4, S7_PollTickPreserves
<1>5. CASE S7_Callbacks
  BY <1>5, S7_ConnectFailsPreserves, S7_ConnectSucceedsPreserves, S7_ReadPreserves
     DEF S7_Callbacks
<1>6. CASE UNCHANGED vars
  BY <1>6, StutterPreserves
<1>7. QED
  BY <1>1, <1>2, <1>3, <1>4, <1>5, <1>6 DEF S7_Next

-----------------------------------------------------------------------------
(***************************************************************************)
(* The Modbus connector keeps BaseInv, even when polls of closed clients   *)
(* go on, on whatever client is managed then.                              *)
(***************************************************************************)

(* A poll starts a read of the present client and changes nothing else. *)
LEMMA Modbus_PollKeepsClient ==
  ASSUME NEW m \in Managed, NEW l \in Lib, Modbus_poll(m, l)
  PROVE  /\ managed' = m
         /\ lib' \in Lib /\ lib'.open = l.open
<1>1. CASE MayPoll(m)
  <2>1. PICK i \in FreeIds(l), k \in Mapped :
          /\ managed' = m
          /\ lib' = [l EXCEPT !.reads = @ \cup
                      {[id |-> i, client |-> m.client,
                        targets |-> {k}, done |-> {}]}]
    BY <1>1 DEF Modbus_poll
  <2>2. [id |-> i, client |-> m.client, targets |-> {k}, done |-> {}] \in Read
    BY <1>1, ManagedFields DEF Read, FreeIds, MayPoll, Mapped
  <2>3. QED
    BY <2>1, <2>2 DEF Lib
<1>2. CASE ~MayPoll(m)
  BY <1>2 DEF Modbus_poll
<1>3. QED
  BY <1>1, <1>2

(* startPolling arms the timer and polls once; the client stays.           *)
LEMMA Modbus_StartPollingKeepsClient ==
  ASSUME NEW m \in Managed, NEW l \in Lib, Modbus_startPolling(m, l)
  PROVE  /\ managed' \in Managed /\ managed'.client = m.client
         /\ lib' \in Lib /\ lib'.open = l.open
<1>1. CASE m.pollingTimer
  BY <1>1 DEF Modbus_startPolling
<1>2. CASE ~m.pollingTimer
  <2> DEFINE p == [m EXCEPT !.pollingTimer = TRUE]
  <2>1. p \in Managed /\ p.client = m.client
    BY DEF Managed
  <2>2. Modbus_poll(p, l)
    BY <1>2 DEF Modbus_startPolling
  <2>3. QED
    BY <2>1, <2>2, Modbus_PollKeepsClient
<1>3. QED
  BY <1>1, <1>2

(* A failed handshake, of whichever client, wakes no stopped connector.    *)
LEMMA Modbus_ConnectFailsPreserves ==
  ASSUME BaseInv, NEW c \in Clients, Modbus_ConnectFails(c)
  PROVE  BaseInv'
<1> DEFINE m == [managed EXCEPT !.connecting = FALSE]
<1>1. managed \in Managed /\ lib \in Lib /\ running \in BOOLEAN
  BY DEF BaseInv, TypeOK
<1>2. /\ m \in Managed /\ m.client = managed.client /\ m.state = managed.state
      /\ ~m.connecting /\ m.reconnectTimer = managed.reconnectTimer
  BY <1>1 DEF Managed
<1>3. managed' = handleConnectionError(m)
  BY DEF Modbus_ConnectFails
<1> HIDE DEF m
<1>4. /\ managed' \in Managed /\ managed'.client = managed.client
      /\ ~managed'.connecting /\ managed'.state # "connected"
      /\ ~managed'.pollingTimer
      /\ ~running => managed'.reconnectTimer = managed.reconnectTimer
  BY <1>1, <1>2, <1>3, ErrorKeepsClient
<1>5. lib' \in Lib /\ lib'.open = lib.open
  BY <1>1, DeliveredKeepsOpen DEF Modbus_ConnectFails
<1>6. currentValues' \in [Mappings -> Quality]
  BY QualityUpdates DEF Modbus_ConnectFails, BaseInv, TypeOK
<1>7. phase # "absent"
  BY DEF Modbus_ConnectFails, BaseInv, AbsentIsFresh
<1>8. ~running /\ Quiet => Quiet'
  BY <1>4 DEF Quiet
<1>9. QED
  BY <1>4, <1>5, <1>6, <1>7, <1>8, CallbackPreserves DEF Modbus_ConnectFails

(* A successful handshake acts only when a client is managed, hence never  *)
(* on a stopped connector.                                                 *)
LEMMA Modbus_ConnectSucceedsPreserves ==
  ASSUME BaseInv, NEW c \in Clients, Modbus_ConnectSucceeds(c)
  PROVE  BaseInv'
<1> DEFINE m == [managed EXCEPT !.connecting = FALSE]
           l == Delivered(lib, c, TRUE)
           n == [m EXCEPT !.state = "connected"]
<1>1. managed \in Managed /\ lib \in Lib
  BY DEF BaseInv, TypeOK
<1>2. l \in Lib /\ l.open = lib.open
  BY <1>1, DeliveredKeepsOpen
<1>3. /\ m \in Managed /\ m.client = managed.client /\ ~m.connecting
      /\ m.state = managed.state /\ m.pollingTimer = managed.pollingTimer
      /\ m.reconnectTimer = managed.reconnectTimer
      /\ n \in Managed /\ n.client = managed.client
  BY <1>1 DEF Managed, State
<1>4. phase # "absent"
  BY DEF Modbus_ConnectSucceeds, BaseInv, AbsentIsFresh
<1>5. CASE managed.client = NoClient
  <2>1. managed' = m /\ lib' = l /\ currentValues' = currentValues
    BY <1>3, <1>5 DEF Modbus_ConnectSucceeds
  <2>2. QED
    BY <2>1, <1>2, <1>3, <1>4, CallbackPreserves
       DEF Modbus_ConnectSucceeds, Quiet, BaseInv, TypeOK
<1>6. CASE managed.client # NoClient
  <2>1. Modbus_startPolling(n, l) /\ currentValues' = GoodQuality
    BY <1>3, <1>6 DEF Modbus_ConnectSucceeds
  <2>2. /\ managed' \in Managed /\ managed'.client = managed.client
        /\ lib' \in Lib /\ lib'.open = lib.open
    BY <2>1, <1>2, <1>3, Modbus_StartPollingKeepsClient
  <2>3. currentValues' \in [Mappings -> Quality]
    BY <2>1, QualityUpdates DEF BaseInv, TypeOK
  <2>4. ~Quiet
    BY <1>6 DEF Quiet
  <2>5. QED
    BY <2>2, <2>3, <2>4, <1>4, CallbackPreserves DEF Modbus_ConnectSucceeds
<1>7. QED
  BY <1>5, <1>6

(* A tick of the polling timer keeps the invariant.                        *)
LEMMA Modbus_PollTickPreserves ==
  ASSUME BaseInv, Modbus_PollTick
  PROVE  BaseInv'
<1>1. managed \in Managed /\ lib \in Lib /\ Modbus_poll(managed, lib)
  BY DEF BaseInv, TypeOK, Modbus_PollTick
<1>2. managed' = managed /\ lib' \in Lib /\ lib'.open = lib.open
  BY <1>1, Modbus_PollKeepsClient
<1>3. phase # "absent"
  BY DEF Modbus_PollTick, BaseInv, AbsentIsFresh, Quiet
<1>4. QED
  BY <1>1, <1>2, <1>3, CallbackPreserves DEF Modbus_PollTick, Quiet, BaseInv, TypeOK

(* The loop of a poll ends or goes on with a well-typed read; it opens no  *)
(* client.                                                                 *)
LEMMA Modbus_ContinueKeepsClient ==
  ASSUME lib \in Lib, managed \in Managed, NEW r \in lib.reads, Modbus_Continue(r)
  PROVE  lib' \in Lib /\ lib'.open = lib.open
<1> DEFINE left == Mapped \ (r.done \cup r.targets)
<1>1. r \in Read /\ left \subseteq Mappings
  BY LibFields DEF Mapped
<1>2. CASE lib' = [lib EXCEPT !.reads = @ \ {r}]
  BY <1>2 DEF Lib
<1>3. ASSUME managed.client # NoClient, NEW k \in left,
             lib' = [lib EXCEPT !.reads = (@ \ {r}) \cup
                      {[r EXCEPT !.client = managed.client, !.targets = {k},
                                 !.done = @ \cup r.targets]}]
      PROVE  lib' \in Lib /\ lib'.open = lib.open
  <2>1. managed.client \in Clients
    BY <1>3, ManagedFields
  <2>2. [r EXCEPT !.client = managed.client, !.targets = {k},
                  !.done = @ \cup r.targets] \in Read
    BY <1>1, <2>1 DEF Read
  <2>3. QED
    BY <1>3, <2>2 DEF Lib
<1>4. QED
  BY <1>2, <1>3 DEF Modbus_Continue

(* The awaited read of a poll ends. *)
LEMMA Modbus_ReadPreserves ==
  ASSUME BaseInv, NEW r \in lib.reads,
         Modbus_ReadFails(r) \/ Modbus_ReadFailsSoftly(r) \/ Modbus_ReadSucceeds(r)
  PROVE  BaseInv'
<1>1. managed \in Managed /\ lib \in Lib /\ running \in BOOLEAN
  BY DEF BaseInv, TypeOK
<1>2. phase # "absent"
  BY DEF BaseInv, AbsentIsFresh
<1>3. CASE Modbus_ReadFails(r)
  <2>1. managed' = handleConnectionError(managed) /\ currentValues' = BadQuality
    BY <1>3 DEF Modbus_ReadFails
  <2>2. /\ managed' \in Managed /\ managed'.client = managed.client
        /\ ~running /\ Quiet => Quiet'
    BY <1>1, <2>1, ErrorKeepsClient DEF Quiet
  <2>3. currentValues' \in [Mappings -> Quality]
    BY <2>1, QualityUpdates DEF BaseInv, TypeOK
  <2>4. lib' \in Lib /\ lib'.open = lib.open
    BY <1>1, <1>3 DEF Modbus_ReadFails, Lib
  <2>5. QED
    BY <1>2, <1>3, <2>2, <2>3, <2>4, CallbackPreserves DEF Modbus_ReadFails
<1>4. CASE Modbus_ReadFailsSoftly(r) \/ Modbus_ReadSucceeds(r)
  <2>1. managed' = managed /\ currentValues' \in [Mappings -> Quality]
    BY <1>4, QualityUpdates DEF Modbus_ReadFailsSoftly, Modbus_ReadSucceeds, BaseInv, TypeOK
  <2>2. lib' \in Lib /\ lib'.open = lib.open
    BY <1>1, <1>4, Modbus_ContinueKeepsClient DEF Modbus_ReadFailsSoftly, Modbus_ReadSucceeds
  <2>3. QED
    BY <1>1, <1>2, <1>4, <2>1, <2>2, CallbackPreserves
       DEF Modbus_ReadFailsSoftly, Modbus_ReadSucceeds, Quiet
<1>5. QED
  BY <1>3, <1>4

(* Every step keeps the invariant.                                         *)
LEMMA Modbus_NextPreserves == BaseInv /\ [Modbus_Next]_vars => BaseInv'
<1> SUFFICES ASSUME BaseInv, [Modbus_Next]_vars PROVE BaseInv'
  OBVIOUS
<1>1. CASE Operations
  BY <1>1, OperationsPreserve
<1>2. ASSUME NEW k \in Mappings, Modbus_AddMapping(k) \/ Modbus_RemoveMapping(k)
      PROVE  BaseInv'
  BY <1>2, MappingPreserves DEF Modbus_AddMapping, Modbus_RemoveMapping
<1>3. CASE reconnect
  BY <1>3, ReconnectPreserves
<1>4. CASE Modbus_PollTick
  BY <1>4, Modbus_PollTickPreserves
<1>5. CASE Modbus_Callbacks
  BY <1>5, Modbus_ConnectFailsPreserves, Modbus_ConnectSucceedsPreserves, Modbus_ReadPreserves
     DEF Modbus_Callbacks
<1>6. CASE UNCHANGED vars
  BY <1>6, StutterPreserves
<1>7. QED
  BY <1>1, <1>2, <1>3, <1>4, <1>5, <1>6 DEF Modbus_Next

-----------------------------------------------------------------------------
(***************************************************************************)
(* The EtherNet/IP connector keeps BaseInv and never has two polls in      *)
(* flight, even when the library settles promises of closed clients.       *)
(***************************************************************************)

(* A poll starts one read when none is in flight; it leaves the client     *)
(* alone.                                                                  *)
LEMMA Eip_PollStartsOne ==
  ASSUME NEW m \in Managed, NEW l \in Lib, Eip_poll(m, l),
         \A r, s \in l.reads : r = s, l.reads # {} => m.pollInProgress
  PROVE  /\ managed' \in Managed /\ managed'.client = m.client
         /\ managed'.state = m.state
         /\ managed'.connecting = m.connecting
         /\ managed'.pollingTimer = m.pollingTimer
         /\ managed'.reconnectTimer = m.reconnectTimer
         /\ lib' \in Lib /\ lib'.open = l.open
         /\ OnePollAtATime'
<1>1. CASE MayPoll(m) /\ ~m.pollInProgress
  <2>1. PICK i \in FreeIds(l) :
          /\ managed' = [m EXCEPT !.pollInProgress = TRUE]
          /\ lib' = [l EXCEPT !.reads = @ \cup
                      {[id |-> i, client |-> m.client,
                        targets |-> Mapped, done |-> {}]}]
    BY <1>1 DEF Eip_poll
  <2>2. [id |-> i, client |-> m.client, targets |-> Mapped, done |-> {}] \in Read
    BY <1>1, ManagedFields DEF Read, FreeIds, MayPoll, Mapped
  <2>3. l.reads = {}
    BY <1>1
  <2>4. /\ managed' \in Managed /\ managed'.client = m.client
        /\ managed'.state = m.state /\ managed'.connecting = m.connecting
        /\ managed'.pollingTimer = m.pollingTimer
        /\ managed'.reconnectTimer = m.reconnectTimer
        /\ managed'.pollInProgress
    BY <2>1 DEF Managed
  <2>5. /\ lib' \in Lib /\ lib'.open = l.open
        /\ lib'.reads = {[id |-> i, client |-> m.client,
                          targets |-> Mapped, done |-> {}]}
    BY <2>1, <2>2, <2>3 DEF Lib
  <2>6. QED
    BY <2>4, <2>5 DEF OnePollAtATime
<1>2. CASE ~(MayPoll(m) /\ ~m.pollInProgress)
  BY <1>2 DEF Eip_poll, OnePollAtATime
<1>3. QED
  BY <1>1, <1>2

(* The first poll of startPolling obeys the same rule.                     *)
LEMMA Eip_StartPollingStartsOne ==
  ASSUME NEW m \in Managed, NEW l \in Lib, Eip_startPolling(m, l),
         \A r, s \in l.reads : r = s, l.reads # {} => m.pollInProgress
  PROVE  /\ managed' \in Managed /\ managed'.client = m.client
         /\ lib' \in Lib /\ lib'.open = l.open
         /\ OnePollAtATime'
<1>1. CASE m.pollingTimer
  BY <1>1 DEF Eip_startPolling, OnePollAtATime
<1>2. CASE ~m.pollingTimer
  <2> DEFINE p == [m EXCEPT !.pollingTimer = TRUE]
  <2>1. /\ p \in Managed /\ p.client = m.client
        /\ p.pollInProgress = m.pollInProgress
    BY DEF Managed
  <2>2. Eip_poll(p, l)
    BY <1>2 DEF Eip_startPolling
  <2> HIDE DEF p
  <2>3. QED
    BY <2>1, <2>2, Eip_PollStartsOne
<1>3. QED
  BY <1>1, <1>2

(* A failed handshake schedules a reconnect at most. *)
LEMMA Eip_ConnectFailsPreserves ==
  ASSUME GuardedInv, NEW c \in Clients, Eip_ConnectFails(c)
  PROVE  GuardedInv'
<1> DEFINE m == [managed EXCEPT !.connecting = FALSE]
<1>1. managed \in Managed /\ lib \in Lib /\ running \in BOOLEAN
  BY DEF GuardedInv, BaseInv, TypeOK
<1>2. /\ m \in Managed /\ m.client = managed.client /\ m.state = managed.state
      /\ ~m.connecting /\ m.reconnectTimer = managed.reconnectTimer
      /\ m.pollInProgress = managed.pollInProgress
  BY <1>1 DEF Managed
<1>3. managed' = handleConnectionError(m)
  BY DEF Eip_ConnectFails
<1> HIDE DEF m
<1>4. /\ managed' \in Managed /\ managed'.client = managed.client
      /\ ~managed'.connecting /\ managed'.state # "connected"
      /\ ~managed'.pollingTimer
      /\ managed'.pollInProgress = managed.pollInProgress
      /\ ~running => managed'.reconnectTimer = managed.reconnectTimer
  BY <1>1, <1>2, <1>3, ErrorKeepsClient
<1>5. lib' \in Lib /\ lib'.open = lib.open /\ lib'.reads = lib.reads
  BY <1>1, DeliveredKeepsOpen DEF Eip_ConnectFails
<1>6. currentValues' \in [Mappings -> Quality]
  BY QualityUpdates DEF Eip_ConnectFails, GuardedInv, BaseInv, TypeOK
<1>7. phase # "absent"
  BY DEF Eip_ConnectFails, GuardedInv, BaseInv, AbsentIsFresh
<1>8. ~running /\ Quiet => Quiet'
  BY <1>4 DEF Quiet
<1>9. BaseInv'
  BY <1>4, <1>5, <1>6, <1>7, <1>8, CallbackPreserves DEF Eip_ConnectFails, GuardedInv
<1>10. OnePollAtATime'
  BY <1>4, <1>5 DEF OnePollAtATime, GuardedInv
<1>11. QED
  BY <1>9, <1>10 DEF GuardedInv

(* A successful one, whichever client it belongs to, starts polling. *)
LEMMA Eip_ConnectSucceedsPreserves ==
  ASSUME GuardedInv, NEW c \in Clients, Eip_ConnectSucceeds(c)
  PROVE  GuardedInv'
<1> DEFINE m == [managed EXCEPT !.connecting = FALSE]
           l == Delivered(lib, c, TRUE)
           n == [m EXCEPT !.state = "connected"]
<1>1. managed \in Managed /\ lib \in Lib
  BY DEF GuardedInv, BaseInv, TypeOK
<1>2. l \in Lib /\ l.open = lib.open /\ l.reads = lib.reads
  BY <1>1, DeliveredKeepsOpen
<1>3. /\ m \in Managed /\ m.client = managed.client /\ ~m.connecting
      /\ m.state = managed.state /\ m.pollingTimer = managed.pollingTimer
      /\ m.reconnectTimer = managed.reconnectTimer
      /\ m.pollInProgress = managed.pollInProgress
      /\ n \in Managed /\ n.client = managed.client
      /\ n.pollInProgress = managed.pollInProgress
  BY <1>1 DEF Managed, State
<1>4. phase # "absent"
  BY DEF Eip_ConnectSucceeds, GuardedInv, BaseInv, AbsentIsFresh
<1>5. CASE managed.client = NoClient
  <2>1. managed' = m /\ lib' = l /\ currentValues' = currentValues
    BY <1>3, <1>5 DEF Eip_ConnectSucceeds
  <2> HIDE DEF m, l, n
  <2>2. BaseInv'
    BY <2>1, <1>2, <1>3, <1>4, CallbackPreserves
       DEF Eip_ConnectSucceeds, Quiet, GuardedInv, BaseInv, TypeOK
  <2>3. OnePollAtATime'
    BY <2>1, <1>2, <1>3 DEF OnePollAtATime, GuardedInv
  <2>4. QED
    BY <2>2, <2>3 DEF GuardedInv
<1>6. CASE managed.client # NoClient
  <2>1. Eip_startPolling(n, l) /\ currentValues' = GoodQuality
    BY <1>3, <1>6 DEF Eip_ConnectSucceeds
  <2> HIDE DEF m, l, n
  <2>2. (\A r, s \in l.reads : r = s) /\ (l.reads # {} => n.pollInProgress)
    BY <1>2, <1>3 DEF OnePollAtATime, GuardedInv
  <2>3. /\ managed' \in Managed /\ managed'.client = managed.client
        /\ lib' \in Lib /\ lib'.open = lib.open
        /\ OnePollAtATime'
    BY <2>1, <2>2, <1>2, <1>3, Eip_StartPollingStartsOne
  <2>4. currentValues' \in [Mappings -> Quality]
    BY <2>1, QualityUpdates DEF GuardedInv, BaseInv, TypeOK
  <2>5. ~Quiet
    BY <1>6 DEF Quiet
  <2>6. BaseInv'
    BY <2>3, <2>4, <2>5, <1>4, CallbackPreserves DEF Eip_ConnectSucceeds, GuardedInv
  <2>7. QED
    BY <2>3, <2>6 DEF GuardedInv
<1>7. QED
  BY <1>5, <1>6

(* A tick of the polling timer keeps the invariant.                        *)
LEMMA Eip_PollTickPreserves ==
  ASSUME GuardedInv, Eip_PollTick
  PROVE  GuardedInv'
<1>1. managed \in Managed /\ lib \in Lib /\ Eip_poll(managed, lib)
  BY DEF GuardedInv, BaseInv, TypeOK, Eip_PollTick
<1>2. (\A r, s \in lib.reads : r = s) /\ (lib.reads # {} => managed.pollInProgress)
  BY DEF OnePollAtATime, GuardedInv
<1>3. /\ managed' \in Managed /\ managed'.client = managed.client
      /\ managed'.state = managed.state
      /\ managed'.connecting = managed.connecting
      /\ managed'.pollingTimer = managed.pollingTimer
      /\ managed'.reconnectTimer = managed.reconnectTimer
      /\ lib' \in Lib /\ lib'.open = lib.open
      /\ OnePollAtATime'
  BY <1>1, <1>2, Eip_PollStartsOne
<1>4. phase # "absent"
  BY DEF Eip_PollTick, GuardedInv, BaseInv, AbsentIsFresh, Quiet
<1>5. BaseInv'
  BY <1>3, <1>4, CallbackPreserves DEF Eip_PollTick, Quiet, GuardedInv, BaseInv, TypeOK
<1>6. QED
  BY <1>3, <1>5 DEF GuardedInv

(* The only read in flight ends, and with it the poll. *)
LEMMA Eip_ReadPreserves ==
  ASSUME GuardedInv, NEW r \in lib.reads,
         Eip_ReadFails(r) \/ Eip_ReadFailsSoftly(r) \/ Eip_ReadSucceeds(r)
  PROVE  GuardedInv'
<1> DEFINE m == [managed EXCEPT !.pollInProgress = FALSE]
<1>1. managed \in Managed /\ lib \in Lib /\ running \in BOOLEAN
  BY DEF GuardedInv, BaseInv, TypeOK
<1>2. lib' \in Lib /\ lib'.open = lib.open /\ lib'.reads = lib.reads \ {r}
  BY <1>1 DEF Eip_ReadFails, Eip_ReadFailsSoftly, Eip_ReadSucceeds, Lib
<1>3. lib'.reads = {}
  BY <1>2 DEF OnePollAtATime, GuardedInv
<1>4. phase # "absent"
  BY DEF GuardedInv, BaseInv, AbsentIsFresh
<1>5. /\ m \in Managed /\ m.client = managed.client
      /\ m.state = managed.state /\ m.connecting = managed.connecting
      /\ m.pollingTimer = managed.pollingTimer
      /\ m.reconnectTimer = managed.reconnectTimer
  BY <1>1 DEF Managed
<1>6. managed' = handleConnectionError(m) \/ managed' = m
  BY DEF Eip_ReadFails, Eip_ReadFailsSoftly, Eip_ReadSucceeds
<1> HIDE DEF m
<1>7. /\ managed' \in Managed /\ managed'.client = managed.client
      /\ ~running /\ Quiet => Quiet'
  <2>1. CASE managed' = m
    BY <2>1, <1>5 DEF Quiet
  <2>2. CASE managed' = handleConnectionError(m)
    BY <2>2, <1>1, <1>5, ErrorKeepsClient DEF Quiet
  <2>3. QED
    BY <1>6, <2>1, <2>2
<1>8. currentValues' \in [Mappings -> Quality]
  BY QualityUpdates
     DEF Eip_ReadFails, Eip_ReadFailsSoftly, Eip_ReadSucceeds, GuardedInv, BaseInv, TypeOK
<1>9. BaseInv'
  BY <1>2, <1>4, <1>7, <1>8, CallbackPreserves
     DEF Eip_ReadFails, Eip_ReadFailsSoftly, Eip_ReadSucceeds, GuardedInv
<1>10. QED
  BY <1>3, <1>9 DEF GuardedInv, OnePollAtATime

(* Every step keeps the invariant.                                         *)
LEMMA Eip_NextPreserves == GuardedInv /\ [Eip_Next]_vars => GuardedInv'
<1> SUFFICES ASSUME GuardedInv, [Eip_Next]_vars PROVE GuardedInv'
  OBVIOUS
<1>1. CASE Operations \/ reconnect
  BY <1>1, OperationsPreserve, ReconnectPreserves, OperationsKeepOnePoll DEF GuardedInv
<1>2. ASSUME NEW k \in Mappings, Eip_AddMapping(k) \/ Eip_RemoveMapping(k)
      PROVE  GuardedInv'
  BY <1>2, MappingPreserves, MappingKeepsOnePoll
     DEF Eip_AddMapping, Eip_RemoveMapping, GuardedInv
<1>3. CASE Eip_PollTick
  BY <1>3, Eip_PollTickPreserves
<1>4. CASE Eip_Callbacks
  BY <1>4, Eip_ConnectFailsPreserves, Eip_ConnectSucceedsPreserves, Eip_ReadPreserves
     DEF Eip_Callbacks
<1>5. CASE UNCHANGED vars
  <2>1. BaseInv'
    BY <1>5, StutterPreserves DEF GuardedInv
  <2>2. OnePollAtATime'
    BY <1>5 DEF vars, OnePollAtATime, GuardedInv
  <2>3. QED
    BY <2>1, <2>2 DEF GuardedInv
<1>6. QED
  BY <1>1, <1>2, <1>3, <1>4, <1>5 DEF Eip_Next

-----------------------------------------------------------------------------
(***************************************************************************)
(* The PCCC connector keeps BaseInv, never has two polls in flight, and    *)
(* never revives a connection that is not wanted, even when nodepccc calls *)
(* back for clients that were dropped.                                     *)
(***************************************************************************)

(* A poll starts one read when none is in flight; it leaves the client     *)
(* alone.                                                                  *)
LEMMA Pccc_PollStartsOne ==
  ASSUME NEW m \in Managed, NEW l \in Lib, Pccc_poll(m, l),
         \A r, s \in l.reads : r = s, l.reads # {} => m.pollInProgress
  PROVE  /\ managed' \in Managed /\ managed'.client = m.client
         /\ managed'.state = m.state
         /\ managed'.connecting = m.connecting
         /\ managed'.pollingTimer = m.pollingTimer
         /\ managed'.reconnectTimer = m.reconnectTimer
         /\ lib' \in Lib /\ lib'.open = l.open
         /\ OnePollAtATime'
<1>1. CASE MayPoll(m) /\ ~m.pollInProgress
  <2>1. PICK i \in FreeIds(l) :
          /\ managed' = [m EXCEPT !.pollInProgress = TRUE]
          /\ lib' = [l EXCEPT !.reads = @ \cup
                      {[id |-> i, client |-> m.client,
                        targets |-> l.items, done |-> {}]}]
    BY <1>1 DEF Pccc_poll
  <2>2. [id |-> i, client |-> m.client, targets |-> l.items, done |-> {}] \in Read
    BY <1>1, ManagedFields, LibFields DEF Read, FreeIds, MayPoll
  <2>3. l.reads = {}
    BY <1>1
  <2>4. /\ managed' \in Managed /\ managed'.client = m.client
        /\ managed'.state = m.state /\ managed'.connecting = m.connecting
        /\ managed'.pollingTimer = m.pollingTimer
        /\ managed'.reconnectTimer = m.reconnectTimer
        /\ managed'.pollInProgress
    BY <2>1 DEF Managed
  <2>5. /\ lib' \in Lib /\ lib'.open = l.open
        /\ lib'.reads = {[id |-> i, client |-> m.client,
                          targets |-> l.items, done |-> {}]}
    BY <2>1, <2>2, <2>3 DEF Lib
  <2>6. QED
    BY <2>4, <2>5 DEF OnePollAtATime
<1>2. CASE ~(MayPoll(m) /\ ~m.pollInProgress)
  BY <1>2 DEF Pccc_poll, OnePollAtATime
<1>3. QED
  BY <1>1, <1>2

(* The first poll of startPolling obeys the same rule.                     *)
LEMMA Pccc_StartPollingStartsOne ==
  ASSUME NEW m \in Managed, NEW l \in Lib, Pccc_startPolling(m, l),
         \A r, s \in l.reads : r = s, l.reads # {} => m.pollInProgress
  PROVE  /\ managed' \in Managed /\ managed'.client = m.client
         /\ lib' \in Lib /\ lib'.open = l.open
         /\ OnePollAtATime'
<1>1. CASE m.pollingTimer
  BY <1>1 DEF Pccc_startPolling, OnePollAtATime
<1>2. CASE ~m.pollingTimer
  <2> DEFINE p == [m EXCEPT !.pollingTimer = TRUE]
  <2>1. /\ p \in Managed /\ p.client = m.client
        /\ p.pollInProgress = m.pollInProgress
    BY DEF Managed
  <2>2. Pccc_poll(p, l)
    BY <1>2 DEF Pccc_startPolling
  <2> HIDE DEF p
  <2>3. QED
    BY <2>1, <2>2, Pccc_PollStartsOne
<1>3. QED
  BY <1>1, <1>2

(* A failed handshake schedules a reconnect at most. *)
LEMMA Pccc_ConnectFailsPreserves ==
  ASSUME GuardedInv, NEW c \in Clients, Pccc_ConnectFails(c)
  PROVE  GuardedInv'
<1> DEFINE m == [managed EXCEPT !.connecting = FALSE]
<1>1. managed \in Managed /\ lib \in Lib /\ running \in BOOLEAN
  BY DEF GuardedInv, BaseInv, TypeOK
<1>2. /\ m \in Managed /\ m.client = managed.client /\ m.state = managed.state
      /\ ~m.connecting /\ m.reconnectTimer = managed.reconnectTimer
      /\ m.pollingTimer = managed.pollingTimer
      /\ m.pollInProgress = managed.pollInProgress
  BY <1>1 DEF Managed
<1>3. managed' = m \/ managed' = handleConnectionError(m)
  BY DEF Pccc_ConnectFails
<1>4. currentValues' \in [Mappings -> Quality]
  BY QualityUpdates DEF Pccc_ConnectFails, GuardedInv, BaseInv, TypeOK
<1> HIDE DEF m
<1>5. /\ managed' \in Managed /\ managed'.client = managed.client
      /\ managed'.pollInProgress = managed.pollInProgress
      /\ ~running /\ Quiet => Quiet'
  <2>1. CASE managed' = m
    BY <2>1, <1>2 DEF Quiet
  <2>2. CASE managed' = handleConnectionError(m)
    BY <2>2, <1>1, <1>2, ErrorKeepsClient DEF Quiet
  <2>3. QED
    BY <1>3, <2>1, <2>2
<1>6. lib' \in Lib /\ lib'.open = lib.open /\ lib'.reads = lib.reads
  BY <1>1, DeliveredKeepsOpen DEF Pccc_ConnectFails
<1>7. phase # "absent"
  BY DEF Pccc_ConnectFails, GuardedInv, BaseInv, AbsentIsFresh
<1>8. BaseInv'
  BY <1>4, <1>5, <1>6, <1>7, CallbackPreserves DEF Pccc_ConnectFails, GuardedInv
<1>9. OnePollAtATime'
  BY <1>5, <1>6 DEF OnePollAtATime, GuardedInv
<1>10. QED
  BY <1>8, <1>9 DEF GuardedInv

(* A successful one, whichever client it belongs to, starts polling. *)
LEMMA Pccc_ConnectSucceedsPreserves ==
  ASSUME GuardedInv, NEW c \in Clients, Pccc_ConnectSucceeds(c)
  PROVE  GuardedInv'
<1> DEFINE m == [managed EXCEPT !.connecting = FALSE]
           l == Delivered(lib, c, TRUE)
           n == [m EXCEPT !.state = "connected"]
<1>1. managed \in Managed /\ lib \in Lib
  BY DEF GuardedInv, BaseInv, TypeOK
<1>2. l \in Lib /\ l.open = lib.open /\ l.reads = lib.reads
  BY <1>1, DeliveredKeepsOpen
<1>3. /\ m \in Managed /\ m.client = managed.client /\ ~m.connecting
      /\ m.state = managed.state /\ m.pollingTimer = managed.pollingTimer
      /\ m.reconnectTimer = managed.reconnectTimer
      /\ m.pollInProgress = managed.pollInProgress
      /\ n \in Managed /\ n.client = managed.client
      /\ n.pollInProgress = managed.pollInProgress
  BY <1>1 DEF Managed, State
<1>4. phase # "absent"
  BY DEF Pccc_ConnectSucceeds, GuardedInv, BaseInv, AbsentIsFresh
<1>5. CASE managed.client = NoClient
  <2>1. managed' = m /\ lib' = l /\ currentValues' = currentValues
    BY <1>3, <1>5 DEF Pccc_ConnectSucceeds
  <2> HIDE DEF m, l, n
  <2>2. BaseInv'
    BY <2>1, <1>2, <1>3, <1>4, CallbackPreserves
       DEF Pccc_ConnectSucceeds, Quiet, GuardedInv, BaseInv, TypeOK
  <2>3. OnePollAtATime'
    BY <2>1, <1>2, <1>3 DEF OnePollAtATime, GuardedInv
  <2>4. QED
    BY <2>2, <2>3 DEF GuardedInv
<1>6. CASE managed.client # NoClient
  <2>1. Pccc_startPolling(n, l) /\ currentValues' = GoodQuality
    BY <1>3, <1>6 DEF Pccc_ConnectSucceeds
  <2> HIDE DEF m, l, n
  <2>2. (\A r, s \in l.reads : r = s) /\ (l.reads # {} => n.pollInProgress)
    BY <1>2, <1>3 DEF OnePollAtATime, GuardedInv
  <2>3. /\ managed' \in Managed /\ managed'.client = managed.client
        /\ lib' \in Lib /\ lib'.open = lib.open
        /\ OnePollAtATime'
    BY <2>1, <2>2, <1>2, <1>3, Pccc_StartPollingStartsOne
  <2>4. currentValues' \in [Mappings -> Quality]
    BY <2>1, QualityUpdates DEF GuardedInv, BaseInv, TypeOK
  <2>5. ~Quiet
    BY <1>6 DEF Quiet
  <2>6. BaseInv'
    BY <2>3, <2>4, <2>5, <1>4, CallbackPreserves DEF Pccc_ConnectSucceeds, GuardedInv
  <2>7. QED
    BY <2>3, <2>6 DEF GuardedInv
<1>7. QED
  BY <1>5, <1>6

(* A tick of the polling timer keeps the invariant.                        *)
LEMMA Pccc_PollTickPreserves ==
  ASSUME GuardedInv, Pccc_PollTick
  PROVE  GuardedInv'
<1>1. managed \in Managed /\ lib \in Lib /\ Pccc_poll(managed, lib)
  BY DEF GuardedInv, BaseInv, TypeOK, Pccc_PollTick
<1>2. (\A r, s \in lib.reads : r = s) /\ (lib.reads # {} => managed.pollInProgress)
  BY DEF OnePollAtATime, GuardedInv
<1>3. /\ managed' \in Managed /\ managed'.client = managed.client
      /\ managed'.state = managed.state
      /\ managed'.connecting = managed.connecting
      /\ managed'.pollingTimer = managed.pollingTimer
      /\ managed'.reconnectTimer = managed.reconnectTimer
      /\ lib' \in Lib /\ lib'.open = lib.open
      /\ OnePollAtATime'
  BY <1>1, <1>2, Pccc_PollStartsOne
<1>4. phase # "absent"
  BY DEF Pccc_PollTick, GuardedInv, BaseInv, AbsentIsFresh, Quiet
<1>5. BaseInv'
  BY <1>3, <1>4, CallbackPreserves DEF Pccc_PollTick, Quiet, GuardedInv, BaseInv, TypeOK
<1>6. QED
  BY <1>3, <1>5 DEF GuardedInv

(* What the callback of a read does to the managed object. *)
LEMMA Pccc_ReadCallbackCases ==
  ASSUME NEW r, NEW bad \in BOOLEAN, NEW ok, Pccc_ReadCallback(r, bad, ok)
  PROVE  LET m == [managed EXCEPT !.pollInProgress = FALSE]
         IN /\ \/ managed' = m
               \/ managed' = handleConnectionError(m) /\ m.client # NoClient
            /\ \/ currentValues' = currentValues
               \/ currentValues' = BadQuality
               \/ \E good, poor : currentValues' = CacheValues(good, poor)
            /\ lib' = [lib EXCEPT !.reads = @ \ {r}]
            /\ UNCHANGED <<running, phase, mappings>>
<1> DEFINE m == [managed EXCEPT !.pollInProgress = FALSE]
           found == Mapped \cap lib.items
<1>1. CASE m.client = NoClient
  BY <1>1 DEF Pccc_ReadCallback
<1>2. CASE m.client # NoClient /\ bad /\ found \cap ok = {}
  BY <1>2 DEF Pccc_ReadCallback
<1>3. CASE m.client # NoClient /\ ~(bad /\ found \cap ok = {})
  BY <1>3 DEF Pccc_ReadCallback
<1>4. QED
  BY <1>1, <1>2, <1>3

(* ReadFails and ReadSucceeds are both such a callback. *)
LEMMA Pccc_ReadIsCallback ==
  ASSUME NEW r, Pccc_ReadFails(r) \/ Pccc_ReadSucceeds(r)
  PROVE  \E bad \in BOOLEAN : \E ok : Pccc_ReadCallback(r, bad, ok)
BY DEF Pccc_ReadFails, Pccc_ReadSucceeds

(* The only read in flight ends, and with it the poll. *)
LEMMA Pccc_ReadPreserves ==
  ASSUME GuardedInv, NEW r \in lib.reads, Pccc_ReadFails(r) \/ Pccc_ReadSucceeds(r)
  PROVE  GuardedInv'
<1> DEFINE m == [managed EXCEPT !.pollInProgress = FALSE]
<1>1. managed \in Managed /\ lib \in Lib /\ running \in BOOLEAN
  BY DEF GuardedInv, BaseInv, TypeOK
<1>2. PICK bad \in BOOLEAN : \E ok : Pccc_ReadCallback(r, bad, ok)
  BY Pccc_ReadIsCallback
<1>3. /\ managed' = m \/ managed' = handleConnectionError(m)
      /\ lib' = [lib EXCEPT !.reads = @ \ {r}]
      /\ UNCHANGED <<running, phase, mappings>>
  BY <1>2, Pccc_ReadCallbackCases
<1>4. lib' \in Lib /\ lib'.open = lib.open /\ lib'.reads = lib.reads \ {r}
  BY <1>1, <1>3 DEF Lib
<1>5. lib'.reads = {}
  BY <1>4 DEF OnePollAtATime, GuardedInv
<1>6. phase # "absent"
  BY DEF GuardedInv, BaseInv, AbsentIsFresh
<1>7. /\ m \in Managed /\ m.client = managed.client
      /\ m.state = managed.state /\ m.connecting = managed.connecting
      /\ m.pollingTimer = managed.pollingTimer
      /\ m.reconnectTimer = managed.reconnectTimer
  BY <1>1 DEF Managed
<1> HIDE DEF m
<1>8. /\ managed' \in Managed /\ managed'.client = managed.client
      /\ ~running /\ Quiet => Quiet'
  <2>1. CASE managed' = m
    BY <2>1, <1>7 DEF Quiet
  <2>2. CASE managed' = handleConnectionError(m)
    BY <2>2, <1>1, <1>7, ErrorKeepsClient DEF Quiet
  <2>3. QED
    BY <1>3, <2>1, <2>2
<1>9. currentValues' \in [Mappings -> Quality]
  BY <1>2, Pccc_ReadCallbackCases, QualityUpdates DEF GuardedInv, BaseInv, TypeOK
<1>10. BaseInv'
  BY <1>3, <1>4, <1>6, <1>8, <1>9, CallbackPreserves DEF GuardedInv
<1>11. QED
  BY <1>5, <1>10 DEF GuardedInv, OnePollAtATime

(* Every step keeps the invariant.                                         *)
LEMMA Pccc_NextPreserves == GuardedInv /\ [Pccc_Next]_vars => GuardedInv'
<1> SUFFICES ASSUME GuardedInv, [Pccc_Next]_vars PROVE GuardedInv'
  OBVIOUS
<1>1. CASE Operations \/ reconnect
  BY <1>1, OperationsPreserve, ReconnectPreserves, OperationsKeepOnePoll DEF GuardedInv
<1>2. ASSUME NEW k \in Mappings, Pccc_AddMapping(k) \/ Pccc_RemoveMapping(k)
      PROVE  GuardedInv'
  BY <1>2, MappingPreserves, MappingKeepsOnePoll
     DEF Pccc_AddMapping, Pccc_RemoveMapping, GuardedInv
<1>3. CASE Pccc_PollTick
  BY <1>3, Pccc_PollTickPreserves
<1>4. CASE Pccc_Callbacks
  BY <1>4, Pccc_ConnectFailsPreserves, Pccc_ConnectSucceedsPreserves, Pccc_ReadPreserves
     DEF Pccc_Callbacks
<1>5. CASE UNCHANGED vars
  <2>1. BaseInv'
    BY <1>5, StutterPreserves DEF GuardedInv
  <2>2. OnePollAtATime'
    BY <1>5 DEF vars, OnePollAtATime, GuardedInv
  <2>3. QED
    BY <2>1, <2>2 DEF GuardedInv
<1>6. QED
  BY <1>1, <1>2, <1>3, <1>4, <1>5 DEF Pccc_Next

-----------------------------------------------------------------------------
(***************************************************************************)
(* UnwantedIsQuiet: every step that could wake the connection needs a      *)
(* client or a timer, which an unwanted connection does not have.          *)
(***************************************************************************)
LEMMA Pccc_InitiateKeepsEnabled ==
  ASSUME NEW m \in Managed, NEW l, initiateConnection(m, l)
  PROVE  /\ managed'.enabled = m.enabled
         /\ ~m.refused \/ ~m.connecting => ~managed'.refused
BY DEF initiateConnection, Managed

(* No operation leaves an unwanted connection with a client or a timer.    *)
LEMMA Pccc_OperationsKeepUnwantedQuiet ==
  ASSUME GuardedInv, UnwantedIsQuiet, Operations
  PROVE  UnwantedIsQuiet'
<1>1. managed \in Managed /\ running \in BOOLEAN
  BY DEF GuardedInv, BaseInv, TypeOK
<1>2. ASSUME NEW e \in BOOLEAN, addConnection(e)
      PROVE  UnwantedIsQuiet'
  <2> DEFINE n == NewManaged(e)
  <2>1. /\ n \in Managed /\ n.client = NoClient /\ n.state = "disconnected"
        /\ ~n.connecting /\ ~n.pollingTimer /\ ~n.reconnectTimer
        /\ n.enabled = e /\ ~n.refused
    BY NewManagedIsQuiet DEF NewManaged
  <2>2. phase' = "tracked" /\ running' = running
    BY <1>2 DEF addConnection
  <2>3. CASE running /\ e
    <3>1. initiateConnection(n, lib)
      BY <1>2, <2>3 DEF addConnection
    <3> HIDE DEF n
    <3>2. managed'.enabled = TRUE /\ ~managed'.refused
      BY <2>1, <2>3, <3>1, Pccc_InitiateKeepsEnabled
    <3>3. QED
      BY <2>2, <2>3, <3>2 DEF UnwantedIsQuiet, Wanted
  <2>4. CASE ~(running /\ e)
    BY <1>2, <2>1, <2>4 DEF addConnection, UnwantedIsQuiet, Quiet
  <2>5. QED
    BY <2>3, <2>4
<1>3. ASSUME NEW e \in BOOLEAN, updateConnection(e)
      PROVE  UnwantedIsQuiet'
  <2> DEFINE m == [disconnectAndCleanup(managed) EXCEPT !.enabled = e, !.refused = FALSE]
  <2>1. PICK outcome \in AfterClose :
          LET l == closeClient(lib, managed.client, outcome)
          IN IF running /\ e THEN initiateConnection(m, l)
                             ELSE managed' = m /\ lib' = l
    BY <1>3 DEF updateConnection
  <2>2. /\ m \in Managed /\ m.client = NoClient /\ m.state = "disconnected"
        /\ ~m.connecting /\ ~m.pollingTimer /\ ~m.reconnectTimer
    BY <1>1, CleanupIsQuiet
  <2>3. m.enabled = e /\ ~m.refused
    BY <1>1 DEF disconnectAndCleanup, Managed
  <2>4. phase' = "tracked" /\ running' = running
    BY <1>3 DEF updateConnection
  <2> HIDE DEF m
  <2>5. CASE running /\ e
    BY <2>1, <2>2, <2>3, <2>4, <2>5, Pccc_InitiateKeepsEnabled
       DEF UnwantedIsQuiet, Wanted
  <2>6. CASE ~(running /\ e)
    BY <2>1, <2>2, <2>6 DEF UnwantedIsQuiet, Quiet
  <2>7. QED
    BY <2>5, <2>6
<1>4. CASE removeConnection \/ updateConnectionThrows
  BY <1>1, <1>4, CleanupIsQuiet
     DEF removeConnection, updateConnectionThrows, UnwantedIsQuiet, Quiet
<1>5. CASE start
  <2>1. CASE phase = "tracked" /\ managed.enabled
    <3>1. initiateConnection(managed, lib) /\ ~managed.connecting
      BY <1>5, <2>1 DEF start, UnwantedIsQuiet, Wanted, Quiet
    <3>2. managed'.enabled = managed.enabled /\ ~managed'.refused
      BY <1>1, <3>1, Pccc_InitiateKeepsEnabled
    <3>3. QED
      BY <1>5, <2>1, <3>2 DEF start, UnwantedIsQuiet, Wanted
  <2>2. CASE ~(phase = "tracked" /\ managed.enabled)
    BY <1>5, <2>2 DEF start, UnwantedIsQuiet, Wanted, Quiet
  <2>3. QED
    BY <2>1, <2>2
<1>6. CASE stop
  <2>1. CASE phase = "tracked"
    BY <1>1, <1>6, <2>1, CleanupIsQuiet DEF stop, UnwantedIsQuiet, Quiet
  <2>2. CASE phase # "tracked"
    BY <1>6, <2>2 DEF stop, UnwantedIsQuiet, Wanted, Quiet
  <2>3. QED
    BY <2>1, <2>2
<1>7. QED
  BY <1>2, <1>3, <1>4, <1>5, <1>6 DEF Operations

(* A reconnect timer that fires belongs to a wanted connection. *)
LEMMA Pccc_ReconnectKeepsUnwantedQuiet ==
  ASSUME GuardedInv, UnwantedIsQuiet, reconnect
  PROVE  UnwantedIsQuiet'
<1> DEFINE m == [managed EXCEPT !.reconnectTimer = FALSE]
           d == [m EXCEPT !.client = NoClient, !.state = "disconnected"]
<1>1. managed \in Managed
  BY DEF GuardedInv, BaseInv, TypeOK
<1>2. Wanted /\ running' = running /\ phase' = phase
  BY DEF reconnect, UnwantedIsQuiet, Quiet
<1>3. /\ d \in Managed /\ d.enabled = managed.enabled
      /\ d.refused = managed.refused
  BY <1>1 DEF Managed, State
<1>4. PICK l : initiateConnection(d, l)
  BY <1>2 DEF reconnect, Wanted
<1> HIDE DEF d
<1>5. QED
  BY <1>2, <1>3, <1>4, Pccc_InitiateKeepsEnabled DEF Wanted, UnwantedIsQuiet

(***************************************************************************)
(* A callback or a poll that only moves a connection that has a client     *)
(* keeps UnwantedIsQuiet.                                                  *)
(***************************************************************************)
LEMMA Pccc_GuardedKeepsUnwantedQuiet ==
  ASSUME UnwantedIsQuiet, running' = running, phase' = phase,
         managed'.enabled = managed.enabled, managed'.refused = managed.refused,
         Quiet => Quiet'
  PROVE  UnwantedIsQuiet'
BY DEF UnwantedIsQuiet, Wanted

(* No callback of nodepccc wakes an unwanted connection.                   *)
LEMMA Pccc_CallbacksKeepUnwantedQuiet ==
  ASSUME GuardedInv, UnwantedIsQuiet, Pccc_Callbacks
  PROVE  UnwantedIsQuiet'
<1>1. managed \in Managed /\ lib \in Lib /\ running \in BOOLEAN
  BY DEF GuardedInv, BaseInv, TypeOK
<1>2. ASSUME NEW m \in Managed
      PROVE  /\ handleConnectionError(m).enabled = m.enabled
             /\ handleConnectionError(m).refused = m.refused
  BY DEF handleConnectionError, Managed
<1>3. ASSUME NEW c \in Clients, Pccc_ConnectFails(c)
      PROVE  UnwantedIsQuiet'
  <2> DEFINE m == [managed EXCEPT !.connecting = FALSE]
  <2>1. /\ m \in Managed /\ m.enabled = managed.enabled /\ m.refused = managed.refused
        /\ m.client = managed.client /\ ~m.connecting
        /\ m.state = managed.state /\ m.pollingTimer = managed.pollingTimer
        /\ m.reconnectTimer = managed.reconnectTimer
    BY <1>1 DEF Managed
  <2>2. /\ managed' = m \/ managed' = handleConnectionError(m)
        /\ m.client = NoClient => managed' = m
        /\ running' = running /\ phase' = phase
    BY <1>3 DEF Pccc_ConnectFails
  <2> HIDE DEF m
  <2>3. /\ managed'.enabled = managed.enabled /\ managed'.refused = managed.refused
        /\ Quiet => Quiet'
    BY <1>2, <2>1, <2>2 DEF Quiet
  <2>4. QED
    BY <2>2, <2>3, Pccc_GuardedKeepsUnwantedQuiet
<1>4. ASSUME NEW c \in Clients, Pccc_ConnectSucceeds(c)
      PROVE  UnwantedIsQuiet'
  <2> DEFINE m == [managed EXCEPT !.connecting = FALSE]
             n == [m EXCEPT !.state = "connected"]
             p == [n EXCEPT !.pollingTimer = TRUE]
             l == Delivered(lib, c, TRUE)
  <2>1. /\ m \in Managed /\ m.enabled = managed.enabled /\ m.refused = managed.refused
        /\ m.client = managed.client /\ ~m.connecting
        /\ m.state = managed.state /\ m.pollingTimer = managed.pollingTimer
        /\ m.reconnectTimer = managed.reconnectTimer
        /\ n \in Managed /\ n.enabled = managed.enabled /\ n.refused = managed.refused
        /\ p \in Managed /\ p.enabled = managed.enabled /\ p.refused = managed.refused
    BY <1>1 DEF Managed, State
  <2>2. running' = running /\ phase' = phase
    BY <1>4 DEF Pccc_ConnectSucceeds
  <2>3. CASE m.client = NoClient
    <3>1. managed' = m
      BY <1>4, <2>3 DEF Pccc_ConnectSucceeds
    <3> HIDE DEF m
    <3>2. /\ managed'.enabled = managed.enabled /\ managed'.refused = managed.refused
          /\ Quiet => Quiet'
      BY <2>1, <3>1 DEF Quiet
    <3>3. QED
      BY <2>2, <3>2, Pccc_GuardedKeepsUnwantedQuiet
  <2>4. CASE m.client # NoClient
    <3>1. Pccc_startPolling(n, l)
      BY <1>4, <2>4 DEF Pccc_ConnectSucceeds
    <3>2. managed' = n \/ Pccc_poll(p, l)
      BY <3>1 DEF Pccc_startPolling
    <3>3. ASSUME Pccc_poll(p, l)
          PROVE  managed' = p \/ managed' = [p EXCEPT !.pollInProgress = TRUE]
      BY <3>3 DEF Pccc_poll
    <3>4. /\ [p EXCEPT !.pollInProgress = TRUE].enabled = p.enabled
          /\ [p EXCEPT !.pollInProgress = TRUE].refused = p.refused
      BY <2>1 DEF Managed
    <3> HIDE DEF m, n, p
    <3>5. managed'.enabled = managed.enabled /\ managed'.refused = managed.refused
      BY <2>1, <3>2, <3>3, <3>4
    <3>6. ~Quiet
      BY <2>1, <2>4 DEF Quiet
    <3>7. QED
      BY <2>2, <3>5, <3>6, Pccc_GuardedKeepsUnwantedQuiet
  <2>5. QED
    BY <2>3, <2>4
<1>5. ASSUME NEW r \in lib.reads, Pccc_ReadFails(r) \/ Pccc_ReadSucceeds(r)
      PROVE  UnwantedIsQuiet'
  <2> DEFINE m == [managed EXCEPT !.pollInProgress = FALSE]
  <2>1. /\ m \in Managed /\ m.enabled = managed.enabled /\ m.refused = managed.refused
        /\ m.client = managed.client /\ m.connecting = managed.connecting
        /\ m.state = managed.state /\ m.pollingTimer = managed.pollingTimer
        /\ m.reconnectTimer = managed.reconnectTimer
    BY <1>1 DEF Managed
  <2>2. PICK bad \in BOOLEAN : \E ok : Pccc_ReadCallback(r, bad, ok)
    BY <1>5, Pccc_ReadIsCallback
  <2>3. /\ managed' = m \/ (managed' = handleConnectionError(m) /\ m.client # NoClient)
        /\ running' = running /\ phase' = phase
    BY <2>2, Pccc_ReadCallbackCases
  <2> HIDE DEF m
  <2>4. /\ managed'.enabled = managed.enabled /\ managed'.refused = managed.refused
        /\ Quiet => Quiet'
    BY <1>2, <2>1, <2>3 DEF Quiet
  <2>5. QED
    BY <2>3, <2>4, Pccc_GuardedKeepsUnwantedQuiet
<1>6. QED
  BY <1>3, <1>4, <1>5 DEF Pccc_Callbacks

(* No step wakes an unwanted connection.                                   *)
LEMMA Pccc_NextKeepsUnwantedQuiet ==
  GuardedInv /\ UnwantedIsQuiet /\ [Pccc_Next]_vars => UnwantedIsQuiet'
<1> SUFFICES ASSUME GuardedInv, UnwantedIsQuiet, [Pccc_Next]_vars
             PROVE  UnwantedIsQuiet'
  OBVIOUS
<1>1. managed \in Managed
  BY DEF GuardedInv, BaseInv, TypeOK
<1>2. ASSUME NEW k \in Mappings, Pccc_AddMapping(k) \/ Pccc_RemoveMapping(k)
      PROVE  UnwantedIsQuiet'
  <2>1. managed' = managed /\ running' = running /\ phase' = phase
    BY <1>2 DEF Pccc_AddMapping, Pccc_RemoveMapping, addMapping, removeMapping
  <2>2. QED
    BY <2>1, Pccc_GuardedKeepsUnwantedQuiet DEF Quiet
<1>3. CASE Pccc_PollTick
  <2>1. running' = running /\ phase' = phase /\ ~Quiet
    BY <1>3 DEF Pccc_PollTick, Quiet
  <2>2. managed' = managed \/ managed' = [managed EXCEPT !.pollInProgress = TRUE]
    BY <1>3 DEF Pccc_PollTick, Pccc_poll
  <2>3. managed'.enabled = managed.enabled /\ managed'.refused = managed.refused
    BY <1>1, <2>2 DEF Managed
  <2>4. QED
    BY <2>1, <2>3, Pccc_GuardedKeepsUnwantedQuiet
<1>4. CASE UNCHANGED vars
  BY <1>4 DEF vars, UnwantedIsQuiet, Wanted, Quiet
<1>5. QED
  BY <1>2, <1>3, <1>4, Pccc_OperationsKeepUnwantedQuiet, Pccc_ReconnectKeepsUnwantedQuiet,
     Pccc_CallbacksKeepUnwantedQuiet DEF Pccc_Next

-----------------------------------------------------------------------------
(***************************************************************************)
(* A connection of any protocol, whatever the library does about closed    *)
(* clients.                                                                *)
(***************************************************************************)
ConnectorsInv ==
  /\ BaseInv
  /\ PollsOneAtATime
  /\ protocol = "pccc" => UnwantedIsQuiet

(* A step is one of the connection's protocol, which does not change. *)
LEMMA StepOfProtocol ==
  ASSUME [ConnectorNext]_connectorVars
  PROVE  /\ protocol' = protocol
         /\ \/ protocol = "s7" /\ S7_Next
            \/ protocol = "modbus-tcp" /\ Modbus_Next
            \/ protocol = "ethernet-ip" /\ Eip_Next
            \/ protocol = "pccc" /\ Pccc_Next
            \/ UNCHANGED vars
BY DEF ConnectorNext, connectorVars

(* A connector that was just constructed satisfies the invariant. *)
LEMMA ConnectorsInit == ConnectorInit => ConnectorsInv
<1> SUFFICES ASSUME ConnectorInit PROVE ConnectorsInv
  OBVIOUS
<1>1. BaseInv
  BY BaseInit DEF ConnectorInit
<1>2. OnePollAtATime
  BY DEF ConnectorInit, Init, OnePollAtATime
<1>3. UnwantedIsQuiet
  BY NewManagedIsQuiet DEF ConnectorInit, Init, UnwantedIsQuiet, Quiet
<1>4. QED
  BY <1>1, <1>2, <1>3 DEF ConnectorsInv, PollsOneAtATime

(* Every step of every protocol keeps it. *)
LEMMA ConnectorsNext ==
  ConnectorsInv /\ [ConnectorNext]_connectorVars => ConnectorsInv'
<1> SUFFICES ASSUME ConnectorsInv, [ConnectorNext]_connectorVars
             PROVE  ConnectorsInv'
  OBVIOUS
<1>1. protocol' = protocol
  BY StepOfProtocol
<1>2. BaseInv
  BY DEF ConnectorsInv
<1>3. CASE protocol = "s7" /\ S7_Next
  BY <1>1, <1>2, <1>3, S7_NextPreserves
     DEF ConnectorsInv, PollsOneAtATime, GuardsPolls
<1>4. CASE protocol = "modbus-tcp" /\ Modbus_Next
  BY <1>1, <1>2, <1>4, Modbus_NextPreserves
     DEF ConnectorsInv, PollsOneAtATime, GuardsPolls
<1>5. CASE protocol = "ethernet-ip" /\ Eip_Next
  <2>1. GuardedInv
    BY <1>2, <1>5 DEF ConnectorsInv, PollsOneAtATime, GuardsPolls, GuardedInv
  <2>2. GuardedInv'
    BY <2>1, <1>5, Eip_NextPreserves
  <2>3. QED
    BY <1>1, <1>5, <2>2 DEF ConnectorsInv, PollsOneAtATime, GuardedInv
<1>6. CASE protocol = "pccc" /\ Pccc_Next
  <2>1. GuardedInv /\ UnwantedIsQuiet
    BY <1>2, <1>6 DEF ConnectorsInv, PollsOneAtATime, GuardsPolls, GuardedInv
  <2>2. GuardedInv' /\ UnwantedIsQuiet'
    BY <2>1, <1>6, Pccc_NextPreserves, Pccc_NextKeepsUnwantedQuiet
  <2>3. QED
    BY <2>2 DEF ConnectorsInv, PollsOneAtATime, GuardedInv
<1>7. CASE UNCHANGED vars
  <2>1. BaseInv'
    BY <1>2, <1>7, StutterPreserves
  <2>2. PollsOneAtATime'
    BY <1>1, <1>7
       DEF ConnectorsInv, vars, PollsOneAtATime, GuardsPolls, OnePollAtATime
  <2>3. (protocol = "pccc" => UnwantedIsQuiet)'
    BY <1>1, <1>7 DEF ConnectorsInv, vars, UnwantedIsQuiet, Wanted, Quiet
  <2>4. QED
    BY <2>1, <2>2, <2>3 DEF ConnectorsInv
<1>8. QED
  BY <1>3, <1>4, <1>5, <1>6, <1>7, StepOfProtocol

(* Every reachable state of a connection of any protocol satisfies it. *)
THEOREM ConnectorsInvariant == Spec => []ConnectorsInv
<1>1. QED
  BY ConnectorsInit, ConnectorsNext, PTL DEF Spec

(* The variables keep their types. *)
THEOREM ConnectorsTypeCorrect == Spec => []TypeOK
<1>1. ConnectorsInv => TypeOK
  BY DEF ConnectorsInv, BaseInv
<1>2. QED
  BY <1>1, ConnectorsInvariant, PTL

(* stop() leaves nothing behind: whatever callback or promise of a client  *)
(* library settles after it neither reconnects nor starts a poll.          *)
THEOREM ConnectorsStoppedIsQuiet == Spec => []StoppedIsQuiet
<1>1. ConnectorsInv => StoppedIsQuiet
  BY DEF ConnectorsInv, BaseInv
<1>2. QED
  BY <1>1, ConnectorsInvariant, PTL

(* Every client object that was not closed is the managed one. *)
THEOREM ConnectorsNoLeakedClient == Spec => []NoLeakedClient
<1>1. ConnectorsInv => NoLeakedClient
  BY DEF ConnectorsInv, BaseInv
<1>2. QED
  BY <1>1, ConnectorsInvariant, PTL

(* pollInProgress does its work: EtherNet/IP and PCCC never send a second  *)
(* poll before the first was answered, though a reconnect may come between *)
(* the two.                                                                *)
THEOREM ConnectorsPollOneAtATime == Spec => []PollsOneAtATime
<1>1. ConnectorsInv => PollsOneAtATime
  BY DEF ConnectorsInv
<1>2. QED
  BY <1>1, ConnectorsInvariant, PTL

(***************************************************************************)
(* A removed, disabled or stopped PCCC connection stays down: because each *)
(* callback of nodepccc looks for a client before it does anything else,   *)
(* one that arrives late does not schedule a reconnect.                    *)
(***************************************************************************)
THEOREM PcccUnwantedIsQuiet ==
  Spec => [](protocol = "pccc" => UnwantedIsQuiet)
<1>1. ConnectorsInv => (protocol = "pccc" => UnwantedIsQuiet)
  BY DEF ConnectorsInv
<1>2. QED
  BY <1>1, ConnectorsInvariant, PTL

-----------------------------------------------------------------------------
(***************************************************************************)
(* A removed mapping and the value cache: S7 and PCCC cache only what is   *)
(* mapped when the poll is answered; Modbus and EtherNet/IP cache what was *)
(* mapped when the read was sent.                                          *)
(***************************************************************************)

(* The quality updates give no value to a mapping that is not mapped.      *)
LEMMA UpdatesSpareUnmapped ==
  ASSUME NEW k \in Mappings, k \notin Mapped, NEW good, NEW bad,
         k \notin good, k \notin bad
  PROVE  /\ BadQuality[k] = currentValues[k]
         /\ GoodQuality[k] = currentValues[k]
         /\ CacheValues(good, bad)[k] = currentValues[k]
BY DEF BadQuality, GoodQuality, CacheValues

(* The answers to S7 polls. *)
LEMMA S7_SparesUnmapped ==
  ASSUME NEW k \in Mappings, k \notin Mapped, S7_Callbacks
  PROVE  currentValues'[k] = currentValues[k]
<1>1. ASSUME NEW r \in lib.reads, S7_ReadSucceeds(r)
      PROVE  currentValues'[k] = currentValues[k]
  <2>1. /\ currentValues' = CacheValues(r.targets \cap Mapped, {})
        /\ k \notin r.targets \cap Mapped
    BY <1>1 DEF S7_ReadSucceeds
  <2>2. QED
    BY <2>1, UpdatesSpareUnmapped
<1>2. QED
  BY <1>1, UpdatesSpareUnmapped
     DEF S7_Callbacks, S7_ConnectFails, S7_ConnectSucceeds, S7_ReadFails

(* The answers to PCCC polls. *)
LEMMA Pccc_SparesUnmapped ==
  ASSUME NEW k \in Mappings, k \notin Mapped, Pccc_Callbacks
  PROVE  currentValues'[k] = currentValues[k]
<1>1. ASSUME NEW r \in lib.reads, NEW bad \in BOOLEAN, NEW ok,
             Pccc_ReadCallback(r, bad, ok)
      PROVE  currentValues'[k] = currentValues[k]
  <2> DEFINE found == Mapped \cap lib.items
  <2>1. \/ UNCHANGED currentValues
        \/ currentValues' = BadQuality
        \/ currentValues' = CacheValues(found \cap ok, found \ ok)
    BY <1>1 DEF Pccc_ReadCallback
  <2>2. k \notin found \cap ok /\ k \notin found \ ok
    OBVIOUS
  <2>3. QED
    BY <2>1, <2>2, UpdatesSpareUnmapped
<1>2. ASSUME NEW c \in Clients, Pccc_ConnectFails(c) \/ Pccc_ConnectSucceeds(c)
      PROVE  currentValues'[k] = currentValues[k]
  BY <1>2, UpdatesSpareUnmapped DEF Pccc_ConnectFails, Pccc_ConnectSucceeds
<1>3. QED
  BY <1>1, <1>2 DEF Pccc_Callbacks, Pccc_ReadFails, Pccc_ReadSucceeds

(* What is asked of the library beyond the reads of l is mapped now.       *)
AsksForMapped(l) == \A r \in lib'.reads : r \in l.reads \/ r.targets \subseteq Mapped

(* A poll of Modbus asks for what is mapped now.                           *)
LEMMA Modbus_AsksForMapped ==
  ASSUME NEW l \in Lib, NEW m
  PROVE  Modbus_poll(m, l) \/ Modbus_startPolling(m, l) => AsksForMapped(l)
<1>1. ASSUME NEW n, Modbus_poll(n, l)
      PROVE  AsksForMapped(l)
  BY <1>1 DEF Modbus_poll, Lib, AsksForMapped
<1>2. QED
  BY <1>1 DEF Modbus_startPolling, AsksForMapped

(* So does the loop of an earlier one; the read that has ended is gone.    *)
LEMMA Modbus_ContinueAsksForMapped ==
  ASSUME lib \in Lib, NEW r \in lib.reads, Modbus_Continue(r)
  PROVE  r \notin lib'.reads /\ AsksForMapped(lib)
<1> DEFINE left == Mapped \ (r.done \cup r.targets)
           next(k) == [r EXCEPT !.client = managed.client, !.targets = {k},
                                !.done = @ \cup r.targets]
<1>1. r \in Read
  BY LibFields
<1>2. CASE lib' = [lib EXCEPT !.reads = @ \ {r}]
  BY <1>2 DEF Lib, AsksForMapped
<1>3. ASSUME NEW k \in left, lib' = [lib EXCEPT !.reads = (@ \ {r}) \cup {next(k)}]
      PROVE  r \notin lib'.reads /\ AsksForMapped(lib)
  <2>1. next(k).targets = {k}
    BY <1>1 DEF Read
  <2>2. lib'.reads = (lib.reads \ {r}) \cup {next(k)}
    BY <1>3 DEF Lib
  <2>3. k \notin r.targets /\ k \in Mapped
    BY <1>3
  <2> HIDE DEF next, left
  <2>4. QED
    BY <2>1, <2>2, <2>3 DEF AsksForMapped
<1>4. QED
  BY <1>2, <1>3 DEF Modbus_Continue

(* So does a poll of EtherNet/IP. *)
LEMMA Eip_AsksForMapped ==
  ASSUME NEW l \in Lib, NEW m
  PROVE  Eip_poll(m, l) \/ Eip_startPolling(m, l) => AsksForMapped(l)
<1>1. ASSUME NEW n, Eip_poll(n, l)
      PROVE  AsksForMapped(l)
  BY <1>1 DEF Eip_poll, Lib, AsksForMapped
<1>2. QED
  BY <1>1 DEF Eip_startPolling, AsksForMapped

(* A callback or a poll of Modbus: what it gives to an unmapped mapping is *)
(* the answer of a read that has ended, and it sends no new one for it.    *)
LEMMA Modbus_RevivesInFlight ==
  ASSUME BaseInv, NEW k \in Mappings, k \notin Mapped,
         Modbus_Callbacks \/ Modbus_PollTick
  PROVE  /\ \/ currentValues'[k] = currentValues[k]
            \/ \E r \in lib.reads \ lib'.reads : k \in r.targets
         /\ \A r \in lib'.reads : k \in r.targets => r \in lib.reads
<1>1. lib \in Lib
  BY DEF BaseInv, TypeOK
<1>2. CASE Modbus_PollTick
  BY <1>1, <1>2, Modbus_AsksForMapped DEF Modbus_PollTick, AsksForMapped
<1>3. ASSUME NEW c \in Clients, Modbus_ConnectFails(c)
      PROVE  /\ currentValues'[k] = currentValues[k]
             /\ lib'.reads = lib.reads
  BY <1>1, <1>3, DeliveredKeepsOpen, UpdatesSpareUnmapped DEF Modbus_ConnectFails
<1>4. ASSUME NEW c \in Clients, Modbus_ConnectSucceeds(c)
      PROVE  /\ currentValues'[k] = currentValues[k]
             /\ \A r \in lib'.reads : k \in r.targets => r \in lib.reads
  <2> DEFINE l == Delivered(lib, c, TRUE)
  <2>1. l \in Lib /\ l.reads = lib.reads
    BY <1>1, DeliveredKeepsOpen
  <2>2. lib' = l \/ \E m : Modbus_startPolling(m, l)
    BY <1>4 DEF Modbus_ConnectSucceeds
  <2>3. currentValues' = currentValues \/ currentValues' = GoodQuality
    BY <1>4 DEF Modbus_ConnectSucceeds
  <2> HIDE DEF l
  <2>4. QED
    BY <2>1, <2>2, <2>3, Modbus_AsksForMapped, UpdatesSpareUnmapped DEF AsksForMapped
<1>5. ASSUME NEW r \in lib.reads, Modbus_ReadFails(r)
      PROVE  currentValues'[k] = currentValues[k] /\ lib'.reads \subseteq lib.reads
  BY <1>1, <1>5, UpdatesSpareUnmapped DEF Modbus_ReadFails, Lib
<1>6. ASSUME NEW r \in lib.reads, Modbus_ReadFailsSoftly(r) \/ Modbus_ReadSucceeds(r)
      PROVE  /\ \/ currentValues'[k] = currentValues[k]
                \/ \E s \in lib.reads \ lib'.reads : k \in s.targets
             /\ \A s \in lib'.reads : k \in s.targets => s \in lib.reads
  <2>1. Modbus_Continue(r)
    BY <1>6 DEF Modbus_ReadFailsSoftly, Modbus_ReadSucceeds
  <2>2. /\ r \notin lib'.reads
        /\ \A s \in lib'.reads : k \in s.targets => s \in lib.reads
    BY <1>1, <2>1, Modbus_ContinueAsksForMapped DEF AsksForMapped
  <2>3. currentValues' = currentValues \/ currentValues' = CacheValues(r.targets, {})
    BY <1>6 DEF Modbus_ReadFailsSoftly, Modbus_ReadSucceeds
  <2>4. k \in r.targets \/ currentValues'[k] = currentValues[k]
    BY <2>3, UpdatesSpareUnmapped
  <2>5. QED
    BY <2>2, <2>4
<1>7. QED
  BY <1>2, <1>3, <1>4, <1>5, <1>6 DEF Modbus_Callbacks, Modbus_PollTick

(* A callback or a poll of EtherNet/IP. *)
LEMMA Eip_RevivesInFlight ==
  ASSUME BaseInv, NEW k \in Mappings, k \notin Mapped,
         Eip_Callbacks \/ Eip_PollTick
  PROVE  /\ \/ currentValues'[k] = currentValues[k]
            \/ \E r \in lib.reads \ lib'.reads : k \in r.targets
         /\ \A r \in lib'.reads : k \in r.targets => r \in lib.reads
<1>1. lib \in Lib
  BY DEF BaseInv, TypeOK
<1>2. CASE Eip_PollTick
  BY <1>1, <1>2, Eip_AsksForMapped DEF Eip_PollTick, AsksForMapped
<1>3. ASSUME NEW c \in Clients, Eip_ConnectFails(c)
      PROVE  /\ currentValues'[k] = currentValues[k]
             /\ lib'.reads = lib.reads
  BY <1>1, <1>3, DeliveredKeepsOpen, UpdatesSpareUnmapped DEF Eip_ConnectFails
<1>4. ASSUME NEW c \in Clients, Eip_ConnectSucceeds(c)
      PROVE  /\ currentValues'[k] = currentValues[k]
             /\ \A r \in lib'.reads : k \in r.targets => r \in lib.reads
  <2> DEFINE l == Delivered(lib, c, TRUE)
  <2>1. l \in Lib /\ l.reads = lib.reads
    BY <1>1, DeliveredKeepsOpen
  <2>2. lib' = l \/ \E m : Eip_startPolling(m, l)
    BY <1>4 DEF Eip_ConnectSucceeds
  <2>3. currentValues' = currentValues \/ currentValues' = GoodQuality
    BY <1>4 DEF Eip_ConnectSucceeds
  <2> HIDE DEF l
  <2>4. QED
    BY <2>1, <2>2, <2>3, Eip_AsksForMapped, UpdatesSpareUnmapped DEF AsksForMapped
<1>5. ASSUME NEW r \in lib.reads,
             Eip_ReadFails(r) \/ Eip_ReadFailsSoftly(r) \/ Eip_ReadSucceeds(r)
      PROVE  /\ \/ currentValues'[k] = currentValues[k]
                \/ k \in r.targets
             /\ lib'.reads = lib.reads \ {r}
  BY <1>1, <1>5, UpdatesSpareUnmapped
     DEF Eip_ReadFails, Eip_ReadFailsSoftly, Eip_ReadSucceeds, Lib
<1>6. QED
  BY <1>2, <1>3, <1>4, <1>5 DEF Eip_Callbacks, Eip_PollTick

(***************************************************************************)
(* A removed mapping comes back to the cache only with Modbus and          *)
(* EtherNet/IP, and only by a read that was in flight: no poll and no      *)
(* other handler asks for it or gives it a value.                          *)
(***************************************************************************)
THEOREM ConnectorsOnlyReadsInFlightRevive == Spec => OnlyReadsInFlightRevive
<1> DEFINE InFlight(k) ==
      /\ currentValues[k] = "none" /\ currentValues'[k] # "none" =>
           /\ protocol \in {"modbus-tcp", "ethernet-ip"}
           /\ \E r \in lib.reads \ lib'.reads : k \in r.targets
      /\ protocol \in {"modbus-tcp", "ethernet-ip"} =>
           \A r \in lib'.reads : k \in r.targets => r \in lib.reads
<1>1. ASSUME ConnectorsInv, [ConnectorNext]_connectorVars,
             NEW k \in Mappings, mappings[k] = "removed"
      PROVE  InFlight(k)
  <2>1. k \notin Mapped /\ currentValues \in [Mappings -> Quality] /\ lib \in Lib
        /\ BaseInv
    BY <1>1 DEF Mapped, ConnectorsInv, BaseInv, TypeOK
  <2>2. CASE (protocol = "s7" /\ S7_Callbacks) \/ (protocol = "pccc" /\ Pccc_Callbacks)
    BY <2>1, <2>2, S7_SparesUnmapped, Pccc_SparesUnmapped
  <2>3. CASE protocol = "modbus-tcp" /\ (Modbus_Callbacks \/ Modbus_PollTick)
    BY <2>1, <2>3, Modbus_RevivesInFlight
  <2>4. CASE protocol = "ethernet-ip" /\ (Eip_Callbacks \/ Eip_PollTick)
    BY <2>1, <2>4, Eip_RevivesInFlight
  <2>5. CASE \E j \in Mappings, b \in BOOLEAN :
               addMapping(j, b) \/ removeMapping(j, b)
    <3>1. lib'.reads = lib.reads
      BY <2>1, <2>5 DEF addMapping, removeMapping, Lib
    <3>2. currentValues'[k] = currentValues[k] \/ currentValues'[k] = "none"
      BY <2>1, <2>5 DEF addMapping, removeMapping
    <3>3. QED
      BY <3>1, <3>2
  <2>6. CASE Operations \/ reconnect
    <3>1. lib'.reads \subseteq lib.reads
      BY <2>1, <2>6, OperationsLeaveReads
    <3>2. currentValues' = currentValues
      BY <2>6 DEF Operations, addConnection, updateConnection, updateConnectionThrows,
         removeConnection, start, stop, reconnect
    <3>3. QED
      BY <3>1, <3>2
  <2>7. CASE (protocol = "s7" /\ S7_PollTick) \/ (protocol = "pccc" /\ Pccc_PollTick)
    BY <2>7 DEF S7_PollTick, Pccc_PollTick
  <2>8. CASE UNCHANGED vars
    BY <2>8 DEF vars
  <2> HIDE DEF InFlight
  <2>9. ASSUME S7_Next, protocol = "s7" PROVE InFlight(k)
    <3>1. ASSUME NEW j \in Mappings, S7_AddMapping(j) \/ S7_RemoveMapping(j)
          PROVE  InFlight(k)
      <4>1. \E b \in BOOLEAN : addMapping(j, b) \/ removeMapping(j, b)
        BY <3>1 DEF S7_AddMapping, S7_RemoveMapping
      <4>2. QED
        BY <4>1, <2>5
    <3>2. QED
      BY <2>2, <2>6, <2>7, <2>9, <3>1 DEF S7_Next
  <2>10. ASSUME Modbus_Next, protocol = "modbus-tcp" PROVE InFlight(k)
    BY <2>3, <2>5, <2>6, <2>10 DEF Modbus_Next, Modbus_AddMapping, Modbus_RemoveMapping
  <2>11. ASSUME Eip_Next, protocol = "ethernet-ip" PROVE InFlight(k)
    BY <2>4, <2>5, <2>6, <2>11 DEF Eip_Next, Eip_AddMapping, Eip_RemoveMapping
  <2>12. ASSUME Pccc_Next, protocol = "pccc" PROVE InFlight(k)
    <3>1. ASSUME NEW j \in Mappings, Pccc_AddMapping(j) \/ Pccc_RemoveMapping(j)
          PROVE  InFlight(k)
      <4>1. \E b \in BOOLEAN : addMapping(j, b) \/ removeMapping(j, b)
        BY <3>1 DEF Pccc_AddMapping, Pccc_RemoveMapping
      <4>2. QED
        BY <4>1, <2>5
    <3>2. QED
      BY <2>2, <2>6, <2>7, <2>12, <3>1 DEF Pccc_Next
  <2>13. QED
    BY <1>1, <2>8, <2>9, <2>10, <2>11, <2>12, StepOfProtocol
<1>2. ConnectorsInv /\ [ConnectorNext]_connectorVars =>
        [\A k \in Mappings : mappings[k] = "removed" => InFlight(k)]_connectorVars
  BY <1>1
<1>3. QED
  BY <1>2, ConnectorsInvariant, PTL DEF Spec, OnlyReadsInFlightRevive

-----------------------------------------------------------------------------
(***************************************************************************)
(* What a step of any protocol does to the link: it opens a client, drops  *)
(* the one there is, loses it, brings it up, finds nothing to bring up, or *)
(* spares it.  Both theorems at the end follow from these cases alone.     *)
(***************************************************************************)

(* A client that is held is open: closing one forgets it in the same step. *)
HeldIsOpen == managed.client # NoClient => managed.client \in lib.open

LinkInv == ConnectorsInv /\ HeldIsOpen

KeepsClient == managed'.client = managed.client /\ lib'.open = lib.open

Opens ==
  /\ managed'.client \in lib'.open /\ managed'.client \in lib'.handshakes
  /\ ~managed'.reconnectTimer

Drops ==
  /\ managed'.client = NoClient
  /\ ~managed'.reconnectTimer
  /\ Wanted' => reconnect /\ managed.connecting

Spares ==
  /\ KeepsClient
  /\ managed'.state = managed.state
  /\ lib'.handshakes = lib.handshakes /\ lib'.established = lib.established
  /\ Wanted' => Wanted /\ (managed.reconnectTimer => managed'.reconnectTimer)
  /\ managed'.reconnectTimer => managed.reconnectTimer

Loses ==
  /\ KeepsClient
  /\ managed'.state # "connected"
  /\ Wanted' => managed'.reconnectTimer
  /\ FromStranger \/ managed.client \notin lib'.handshakes

Settles(c) ==
  /\ KeepsClient
  /\ c \in lib.handshakes /\ lib'.handshakes = lib.handshakes \ {c}
  /\ Wanted' => Wanted
  /\ managed'.reconnectTimer = managed.reconnectTimer
  /\ lib.established \subseteq lib'.established

Raises(c) ==
  /\ Settles(c)
  /\ managed.client # NoClient
  /\ managed'.state = "connected"
  /\ c \in lib.open => c \in lib'.established

Ignores(c) ==
  /\ Settles(c)
  /\ managed.client = NoClient
  /\ managed'.state = managed.state

LinkCase ==
  Opens \/ Drops \/ Spares \/ Loses \/ \E c \in Clients : Raises(c) \/ Ignores(c)

(* What a step leaves of the managed object's wantedness. *)
LEMMA WantedKept ==
  ASSUME running' = running, phase' = phase,
         managed'.enabled = managed.enabled, managed'.refused = managed.refused
  PROVE  Wanted' <=> Wanted
BY DEF Wanted

(* initiateConnection, when no attempt is under way, opens a client. *)
LEMMA InitiateOpens ==
  ASSUME NEW m \in Managed, NEW l \in Lib, initiateConnection(m, l), ~m.reconnectTimer
  PROVE  Opens \/ (m.connecting /\ managed' = m)
<1>1. CASE m.connecting
  BY <1>1 DEF initiateConnection
<1>2. CASE ~m.connecting
  <2>1. PICK c \in Clients \ InUse(l) :
          /\ managed' = [m EXCEPT !.connecting = TRUE, !.client = c, !.refused = FALSE]
          /\ lib' = openClient(l, c)
    BY <1>2 DEF initiateConnection
  <2>2. managed'.client = c /\ ~managed'.reconnectTimer
    BY <2>1 DEF Managed
  <2>3. c \in lib'.open /\ c \in lib'.handshakes
    BY <2>1 DEF openClient, Lib
  <2>4. QED
    BY <2>2, <2>3 DEF Opens
<1>3. QED
  BY <1>1, <1>2

(* The operations of the API and of the runtime. *)
LEMMA OperationsLink ==
  ASSUME BaseInv, Operations
  PROVE  LinkCase
<1>1. managed \in Managed /\ lib \in Lib /\ running \in BOOLEAN
  BY DEF BaseInv, TypeOK
<1>2. managed.client \in Clients \cup {NoClient}
  BY <1>1, ManagedFields
<1>3. CASE UNCHANGED <<managed, lib>> /\ ~Wanted'
  BY <1>3 DEF LinkCase, Spares, KeepsClient
<1>4. CASE \/ managed' = disconnectAndCleanup(managed) /\ ~Wanted'
           \/ managed' = [disconnectAndCleanup(managed) EXCEPT !.refused = TRUE] /\ ~Wanted'
  BY <1>1, <1>4, CleanupIsQuiet DEF LinkCase, Drops
<1>5. ASSUME NEW e \in BOOLEAN, addConnection(e)
      PROVE  LinkCase
  <2> DEFINE n == NewManaged(e)
  <2>1. /\ n \in Managed /\ n.client = NoClient /\ ~n.connecting /\ ~n.reconnectTimer
        /\ n.enabled = e
    BY NewManagedIsQuiet DEF NewManaged
  <2>2. initiateConnection(n, lib) \/ (managed' = n /\ ~(running /\ e))
    BY <1>5 DEF addConnection
  <2>3. running' = running
    BY <1>5 DEF addConnection
  <2> HIDE DEF n
  <2>4. CASE initiateConnection(n, lib)
    BY <1>1, <2>1, <2>4, InitiateOpens DEF LinkCase
  <2>5. CASE managed' = n /\ ~(running /\ e)
    BY <2>1, <2>3, <2>5 DEF LinkCase, Drops, Wanted
  <2>6. QED
    BY <2>2, <2>4, <2>5
<1>6. ASSUME NEW e \in BOOLEAN, updateConnection(e)
      PROVE  LinkCase
  <2> DEFINE m == [disconnectAndCleanup(managed) EXCEPT !.enabled = e, !.refused = FALSE]
  <2>1. PICK outcome \in AfterClose :
          LET l == closeClient(lib, managed.client, outcome)
          IN IF running /\ e THEN initiateConnection(m, l)
                             ELSE managed' = m /\ lib' = l
    BY <1>6 DEF updateConnection
  <2> DEFINE l == closeClient(lib, managed.client, outcome)
  <2>2. l \in Lib
    BY <1>1, <1>2, CloseShrinks
  <2>3. /\ m \in Managed /\ m.client = NoClient
        /\ ~m.connecting /\ ~m.reconnectTimer
    BY <1>1, CleanupIsQuiet
  <2>4. m.enabled = e
    BY <1>1 DEF disconnectAndCleanup, Managed
  <2>5. running' = running
    BY <1>6 DEF updateConnection
  <2>6. initiateConnection(m, l) \/ (managed' = m /\ ~(running /\ e))
    BY <2>1
  <2> HIDE DEF m, l
  <2>7. CASE initiateConnection(m, l)
    BY <2>2, <2>3, <2>7, InitiateOpens DEF LinkCase
  <2>8. CASE managed' = m /\ ~(running /\ e)
    BY <2>3, <2>4, <2>5, <2>8 DEF LinkCase, Drops, Wanted
  <2>9. QED
    BY <2>6, <2>7, <2>8
<1>7. CASE removeConnection
  BY <1>4, <1>7 DEF removeConnection, Wanted
<1>8. CASE updateConnectionThrows
  <2>1. managed'.refused
    BY <1>1, <1>8 DEF updateConnectionThrows, disconnectAndCleanup, Managed
  <2>2. QED
    BY <1>4, <1>8, <2>1 DEF updateConnectionThrows, Wanted
<1>9. CASE start
  <2>1. CASE phase = "tracked" /\ managed.enabled
    <3>1. initiateConnection(managed, lib)
      BY <1>9, <2>1 DEF start
    <3>2. ~managed.connecting /\ ~managed.reconnectTimer
      BY <1>9, <2>1 DEF start, BaseInv, StoppedIsQuiet, Quiet
    <3>3. QED
      BY <1>1, <3>1, <3>2, InitiateOpens DEF LinkCase
  <2>2. CASE ~(phase = "tracked" /\ managed.enabled)
    BY <1>3, <1>9, <2>2 DEF start, Wanted
  <2>3. QED
    BY <2>1, <2>2
<1>10. CASE stop
  BY <1>3, <1>4, <1>10 DEF stop, Wanted
<1>11. QED
  BY <1>5, <1>6, <1>7, <1>8, <1>9, <1>10 DEF Operations

(* The reconnect timer: a client, or none if an attempt was under way. *)
LEMMA ReconnectLink ==
  ASSUME BaseInv, reconnect
  PROVE  LinkCase
<1> DEFINE m == [managed EXCEPT !.reconnectTimer = FALSE]
           d == [m EXCEPT !.client = NoClient, !.state = "disconnected"]
<1>1. managed \in Managed /\ lib \in Lib
  BY DEF BaseInv, TypeOK
<1>2. managed.client \in Clients \cup {NoClient}
  BY <1>1, ManagedFields
<1>3. /\ m \in Managed /\ m.client = managed.client /\ m.state = managed.state
      /\ ~m.reconnectTimer
      /\ d \in Managed /\ d.client = NoClient /\ ~d.reconnectTimer
      /\ d.connecting = managed.connecting
  BY <1>1 DEF Managed, State
<1>4. CASE ~running
  <2>1. managed' = m /\ lib' = lib /\ ~Wanted'
    BY <1>4 DEF reconnect, Wanted
  <2> HIDE DEF m
  <2>2. QED
    BY <1>3, <2>1 DEF LinkCase, Spares, KeepsClient
<1>5. CASE running
  <2>1. PICK outcome \in AfterClose :
          initiateConnection(d, closeClient(lib, managed.client, outcome))
    BY <1>5 DEF reconnect
  <2>2. closeClient(lib, managed.client, outcome) \in Lib
    BY <1>1, <1>2, CloseShrinks
  <2> HIDE DEF d
  <2>3. Opens \/ (d.connecting /\ managed' = d)
    BY <1>3, <2>1, <2>2, InitiateOpens
  <2>4. QED
    BY <1>3, <2>3 DEF LinkCase, Drops
<1>6. QED
  BY <1>4, <1>5

(* Mappings and polls do not touch the link. *)
LEMMA MappingLink ==
  ASSUME BaseInv, NEW k \in Mappings, NEW b \in BOOLEAN,
         addMapping(k, b) \/ removeMapping(k, b)
  PROVE  LinkCase
<1>1. running' = running /\ phase' = phase /\ managed' = managed
  BY DEF addMapping, removeMapping
<1>2. /\ lib'.open = lib.open /\ lib'.handshakes = lib.handshakes
      /\ lib'.established = lib.established
  BY DEF addMapping, removeMapping, BaseInv, TypeOK, Lib
<1>3. QED
  BY <1>1, <1>2, WantedKept DEF LinkCase, Spares, KeepsClient

(* What a poll of any protocol does, apart from its flag: the connection m *)
(* stays as it is and so do the clients.                                   *)
Polled(m, l) ==
  /\ managed'.enabled = m.enabled /\ managed'.refused = m.refused
  /\ managed'.client = m.client /\ managed'.state = m.state
  /\ managed'.reconnectTimer = m.reconnectTimer
  /\ lib'.open = l.open /\ lib'.handshakes = l.handshakes
  /\ lib'.established = l.established

(* It is so for each of them. *)
LEMMA PollsArePolled ==
  ASSUME NEW m \in Managed, NEW l \in Lib,
         S7_poll(m, l) \/ Modbus_poll(m, l) \/ Eip_poll(m, l) \/ Pccc_poll(m, l)
  PROVE  Polled(m, l)
<1>1. CASE managed' = m /\ lib' = l
  BY <1>1 DEF Polled
<1>2. ASSUME managed' = m \/ managed' = [m EXCEPT !.pollInProgress = TRUE],
             NEW sent, lib' = [l EXCEPT !.reads = @ \cup sent]
      PROVE  Polled(m, l)
  <2>1. /\ managed'.enabled = m.enabled /\ managed'.refused = m.refused
        /\ managed'.client = m.client /\ managed'.state = m.state
        /\ managed'.reconnectTimer = m.reconnectTimer
    BY <1>2 DEF Managed
  <2>2. /\ lib'.open = l.open /\ lib'.handshakes = l.handshakes
        /\ lib'.established = l.established
    BY <1>2 DEF Lib
  <2>3. QED
    BY <2>1, <2>2 DEF Polled
<1>3. CASE S7_poll(m, l)
  BY <1>1, <1>2, <1>3 DEF S7_poll
<1>4. CASE Modbus_poll(m, l)
  BY <1>1, <1>2, <1>4 DEF Modbus_poll
<1>5. CASE Eip_poll(m, l)
  BY <1>1, <1>2, <1>5 DEF Eip_poll
<1>6. CASE Pccc_poll(m, l)
  BY <1>1, <1>2, <1>6 DEF Pccc_poll
<1>7. QED
  BY <1>3, <1>4, <1>5, <1>6

(* Nor does the first poll of startPolling. *)
LEMMA StartPollingIsPolled ==
  ASSUME NEW m \in Managed, NEW l \in Lib,
         \/ S7_startPolling(m, l) \/ Modbus_startPolling(m, l)
         \/ Eip_startPolling(m, l) \/ Pccc_startPolling(m, l)
  PROVE  Polled(m, l)
<1> DEFINE p == [m EXCEPT !.pollingTimer = TRUE]
<1>1. /\ p \in Managed /\ p.enabled = m.enabled /\ p.refused = m.refused
      /\ p.client = m.client /\ p.state = m.state
      /\ p.reconnectTimer = m.reconnectTimer
  BY DEF Managed
<1>2. \/ managed' = m /\ lib' = l
      \/ S7_poll(p, l) \/ Modbus_poll(p, l) \/ Eip_poll(p, l) \/ Pccc_poll(p, l)
  BY DEF S7_startPolling, Modbus_startPolling, Eip_startPolling, Pccc_startPolling
<1> HIDE DEF p
<1>3. QED
  BY <1>1, <1>2, PollsArePolled DEF Polled

(* A tick of the polling timer. *)
LEMMA PollLink ==
  ASSUME BaseInv, running' = running, phase' = phase,
         \/ S7_poll(managed, lib) \/ Modbus_poll(managed, lib)
         \/ Eip_poll(managed, lib) \/ Pccc_poll(managed, lib)
  PROVE  LinkCase
<1>1. Polled(managed, lib)
  BY PollsArePolled DEF BaseInv, TypeOK
<1>2. QED
  BY <1>1, WantedKept DEF Polled, LinkCase, Spares, KeepsClient

(* Losing the client: handleConnectionError schedules a reconnect if the   *)
(* connector runs.                                                         *)
LEMMA ErrorReconnects ==
  ASSUME NEW m \in Managed, running \in BOOLEAN, running' = running,
         managed' = handleConnectionError(m)
  PROVE  /\ managed'.client = m.client /\ managed'.state # "connected"
         /\ Wanted' => managed'.reconnectTimer
<1>1. managed'.client = m.client /\ managed'.state # "connected"
  BY ErrorKeepsClient
<1>2. running => managed'.reconnectTimer
  BY DEF handleConnectionError, Managed
<1>3. QED
  BY <1>1, <1>2 DEF Wanted

(* What the delivery of a connect callback does to the clients. *)
LEMMA DeliveredSettles ==
  ASSUME NEW l \in Lib, NEW c \in Clients, NEW ok \in BOOLEAN
  PROVE  LET d == Delivered(l, c, ok)
         IN /\ d.open = l.open
            /\ d.handshakes = l.handshakes \ {c}
            /\ l.established \subseteq d.established
            /\ ok /\ c \in l.open => c \in d.established
BY DEF Delivered, Lib

(* A handshake that fails. *)
LEMMA ConnectFailsLink ==
  ASSUME BaseInv, NEW c \in Clients,
         S7_ConnectFails(c) \/ Modbus_ConnectFails(c) \/ Eip_ConnectFails(c)
           \/ Pccc_ConnectFails(c)
  PROVE  LinkCase
<1> DEFINE m == [managed EXCEPT !.connecting = FALSE]
<1>1. managed \in Managed /\ lib \in Lib /\ running \in BOOLEAN
  BY DEF BaseInv, TypeOK
<1>2. /\ m \in Managed /\ m.client = managed.client /\ m.state = managed.state
      /\ m.reconnectTimer = managed.reconnectTimer
      /\ m.enabled = managed.enabled /\ m.refused = managed.refused
  BY <1>1 DEF Managed
<1>3. /\ c \in lib.handshakes /\ lib' = Delivered(lib, c, FALSE)
      /\ running' = running /\ phase' = phase
      /\ \/ managed' = handleConnectionError(m)
         \/ m.client = NoClient /\ managed' = m
  BY DEF S7_ConnectFails, Modbus_ConnectFails, Eip_ConnectFails, Pccc_ConnectFails
<1>4. /\ lib'.open = lib.open /\ lib'.handshakes = lib.handshakes \ {c}
      /\ lib.established \subseteq lib'.established
  BY <1>1, <1>3, DeliveredSettles
<1> HIDE DEF m
<1>5. CASE managed' = handleConnectionError(m)
  <2>1. FromStranger \/ managed.client \notin lib'.handshakes
    BY <1>3, <1>4 DEF FromStranger
  <2>2. /\ managed'.client = m.client /\ managed'.state # "connected"
        /\ Wanted' => managed'.reconnectTimer
    BY <1>1, <1>2, <1>3, <1>5, ErrorReconnects
  <2>3. QED
    BY <1>2, <1>4, <2>1, <2>2 DEF LinkCase, Loses, KeepsClient
<1>6. CASE m.client = NoClient /\ managed' = m
  BY <1>2, <1>3, <1>4, <1>6, WantedKept DEF LinkCase, Ignores, Settles, KeepsClient
<1>7. QED
  BY <1>3, <1>5, <1>6

(* A handshake that succeeds. *)
LEMMA ConnectSucceedsLink ==
  ASSUME BaseInv, NEW c \in Clients,
         S7_ConnectSucceeds(c) \/ Modbus_ConnectSucceeds(c) \/ Eip_ConnectSucceeds(c)
           \/ Pccc_ConnectSucceeds(c)
  PROVE  LinkCase
<1> DEFINE m == [managed EXCEPT !.connecting = FALSE]
           n == [m EXCEPT !.state = "connected"]
           l == Delivered(lib, c, TRUE)
           li == [l EXCEPT !.items = @ \cup Mapped]
<1>1. managed \in Managed /\ lib \in Lib
  BY DEF BaseInv, TypeOK
<1>2. /\ m.client = managed.client /\ m.state = managed.state
      /\ m.reconnectTimer = managed.reconnectTimer
      /\ m.enabled = managed.enabled /\ m.refused = managed.refused
      /\ n \in Managed /\ n.client = managed.client /\ n.state = "connected"
      /\ n.reconnectTimer = managed.reconnectTimer
      /\ n.enabled = managed.enabled /\ n.refused = managed.refused
  BY <1>1 DEF Managed, State
<1>3. /\ l \in Lib /\ l.open = lib.open /\ l.handshakes = lib.handshakes \ {c}
      /\ lib.established \subseteq l.established
      /\ c \in lib.open => c \in l.established
  BY <1>1, DeliveredKeepsOpen, DeliveredSettles
<1>4. /\ li \in Lib /\ li.open = l.open /\ li.handshakes = l.handshakes
      /\ li.established = l.established
  BY <1>3 DEF Lib, Mapped
<1>5. c \in lib.handshakes /\ running' = running /\ phase' = phase
  BY DEF S7_ConnectSucceeds, Modbus_ConnectSucceeds, Eip_ConnectSucceeds,
     Pccc_ConnectSucceeds
<1>6. CASE m.client = NoClient
  <2>1. managed' = m /\ lib' = l
    BY <1>6 DEF S7_ConnectSucceeds, Modbus_ConnectSucceeds, Eip_ConnectSucceeds,
       Pccc_ConnectSucceeds
  <2> HIDE DEF m, l
  <2>2. QED
    BY <1>2, <1>3, <1>5, <1>6, <2>1, WantedKept
       DEF LinkCase, Ignores, Settles, KeepsClient
<1>7. CASE m.client # NoClient
  <2>1. \/ S7_startPolling(n, li) \/ Modbus_startPolling(n, l)
        \/ Eip_startPolling(n, l) \/ Pccc_startPolling(n, l)
    BY <1>7 DEF S7_ConnectSucceeds, Modbus_ConnectSucceeds, Eip_ConnectSucceeds,
       Pccc_ConnectSucceeds
  <2> HIDE DEF m, n, l, li
  <2>2. Polled(n, l) \/ Polled(n, li)
    BY <1>2, <1>3, <1>4, <2>1, StartPollingIsPolled
  <2>3. /\ managed'.enabled = managed.enabled /\ managed'.refused = managed.refused
        /\ managed'.client = managed.client /\ managed'.state = "connected"
        /\ managed'.reconnectTimer = managed.reconnectTimer
        /\ lib'.open = l.open /\ lib'.handshakes = l.handshakes
        /\ lib'.established = l.established
    BY <1>2, <1>4, <2>2 DEF Polled
  <2>4. QED
    BY <1>2, <1>3, <1>5, <1>7, <2>3, WantedKept
       DEF LinkCase, Raises, Settles, KeepsClient
<1>8. QED
  BY <1>6, <1>7

(* A read that ends with an error of the connection. *)
LEMMA ReadLosesLink ==
  ASSUME BaseInv, NEW r \in lib.reads,
         \/ managed' = handleConnectionError(managed)
         \/ managed' = handleConnectionError([managed EXCEPT !.pollInProgress = FALSE]),
         lib' = [lib EXCEPT !.reads = @ \ {r}], running' = running
  PROVE  LinkCase
<1> DEFINE m == [managed EXCEPT !.pollInProgress = FALSE]
<1>1. managed \in Managed /\ lib \in Lib /\ running \in BOOLEAN
  BY DEF BaseInv, TypeOK
<1>2. m \in Managed /\ m.client = managed.client
  BY <1>1 DEF Managed
<1>3. /\ lib'.open = lib.open /\ lib'.handshakes = lib.handshakes
      /\ r \notin lib'.reads
  BY <1>1 DEF Lib
<1> HIDE DEF m
<1>4. /\ managed'.client = managed.client /\ managed'.state # "connected"
      /\ Wanted' => managed'.reconnectTimer
  BY <1>1, <1>2, ErrorReconnects DEF m
<1>5. FromStranger \/ managed.client \notin lib'.handshakes
  BY <1>3 DEF FromStranger
<1>6. QED
  BY <1>3, <1>4, <1>5 DEF LinkCase, Loses, KeepsClient

(* One that ends otherwise. *)
LEMMA ReadSparesLink ==
  ASSUME BaseInv, NEW r \in lib.reads,
         \/ managed' = managed
         \/ managed' = [managed EXCEPT !.pollInProgress = FALSE],
         lib' = [lib EXCEPT !.reads = @ \ {r}] \/ Modbus_Continue(r),
         running' = running, phase' = phase
  PROVE  LinkCase
<1>1. managed \in Managed /\ lib \in Lib
  BY DEF BaseInv, TypeOK
<1>2. /\ lib'.open = lib.open /\ lib'.handshakes = lib.handshakes
      /\ lib'.established = lib.established
  BY <1>1 DEF Modbus_Continue, Lib
<1>3. /\ managed'.enabled = managed.enabled /\ managed'.refused = managed.refused
      /\ managed'.client = managed.client /\ managed'.state = managed.state
      /\ managed'.reconnectTimer = managed.reconnectTimer
  BY <1>1 DEF Managed
<1>4. QED
  BY <1>2, <1>3, WantedKept DEF LinkCase, Spares, KeepsClient

(* The callbacks of all four libraries. *)
LEMMA CallbacksLink ==
  ASSUME BaseInv,
         S7_Callbacks \/ Modbus_Callbacks \/ Eip_Callbacks \/ Pccc_Callbacks
  PROVE  LinkCase
<1>1. ASSUME NEW r \in lib.reads,
             S7_ReadFails(r) \/ Modbus_ReadFails(r) \/ Eip_ReadFails(r)
      PROVE  LinkCase
  BY <1>1, ReadLosesLink DEF S7_ReadFails, Modbus_ReadFails, Eip_ReadFails
<1>2. ASSUME NEW r \in lib.reads,
             \/ S7_ReadSucceeds(r)
             \/ Modbus_ReadFailsSoftly(r) \/ Modbus_ReadSucceeds(r)
             \/ Eip_ReadFailsSoftly(r) \/ Eip_ReadSucceeds(r)
      PROVE  LinkCase
  BY <1>2, ReadSparesLink DEF S7_ReadSucceeds, Modbus_ReadFailsSoftly,
     Modbus_ReadSucceeds, Eip_ReadFailsSoftly, Eip_ReadSucceeds
<1>3. ASSUME NEW r \in lib.reads, NEW bad \in BOOLEAN, NEW ok,
             Pccc_ReadCallback(r, bad, ok)
      PROVE  LinkCase
  <2>1. /\ \/ managed' = [managed EXCEPT !.pollInProgress = FALSE]
           \/ managed' = handleConnectionError([managed EXCEPT !.pollInProgress = FALSE])
        /\ lib' = [lib EXCEPT !.reads = @ \ {r}]
        /\ running' = running /\ phase' = phase
    BY <1>3 DEF Pccc_ReadCallback
  <2>2. QED
    BY <2>1, ReadLosesLink, ReadSparesLink
<1>4. QED
  BY <1>1, <1>2, <1>3, ConnectFailsLink, ConnectSucceedsLink
     DEF S7_Callbacks, Modbus_Callbacks, Eip_Callbacks, Pccc_Callbacks,
         Pccc_ReadFails, Pccc_ReadSucceeds

(* Every step of every protocol is one of the cases. *)
LEMMA StepLink ==
  ASSUME BaseInv, [ConnectorNext]_connectorVars
  PROVE  LinkCase
<1>1. CASE Operations \/ reconnect
  BY <1>1, OperationsLink, ReconnectLink
<1>2. ASSUME NEW k \in Mappings, NEW b \in BOOLEAN,
             addMapping(k, b) \/ removeMapping(k, b)
      PROVE  LinkCase
  BY <1>2, MappingLink
<1>3. CASE S7_PollTick \/ Modbus_PollTick \/ Eip_PollTick \/ Pccc_PollTick
  BY <1>3, PollLink DEF S7_PollTick, Modbus_PollTick, Eip_PollTick, Pccc_PollTick
<1>4. CASE S7_Callbacks \/ Modbus_Callbacks \/ Eip_Callbacks \/ Pccc_Callbacks
  BY <1>4, CallbacksLink
<1>5. CASE UNCHANGED vars
  BY <1>5 DEF vars, LinkCase, Spares, KeepsClient, Wanted
<1>6. CASE S7_Next
  BY <1>1, <1>2, <1>3, <1>4, <1>6 DEF S7_Next, S7_AddMapping, S7_RemoveMapping
<1>7. CASE Modbus_Next
  BY <1>1, <1>2, <1>3, <1>4, <1>7
     DEF Modbus_Next, Modbus_AddMapping, Modbus_RemoveMapping
<1>8. CASE Eip_Next
  BY <1>1, <1>2, <1>3, <1>4, <1>8 DEF Eip_Next, Eip_AddMapping, Eip_RemoveMapping
<1>9. CASE Pccc_Next
  BY <1>1, <1>2, <1>3, <1>4, <1>9 DEF Pccc_Next, Pccc_AddMapping, Pccc_RemoveMapping
<1>10. QED
  BY <1>5, <1>6, <1>7, <1>8, <1>9, StepOfProtocol

(* The managed client is open in every reachable state. *)
THEOREM ConnectorsLinkInvariant == Spec => []LinkInv
<1>1. ConnectorInit => HeldIsOpen
  BY NewManagedIsQuiet DEF ConnectorInit, Init, HeldIsOpen
<1>2. LinkInv /\ [ConnectorNext]_connectorVars => HeldIsOpen'
  <2> SUFFICES ASSUME LinkInv, [ConnectorNext]_connectorVars
               PROVE  HeldIsOpen'
    OBVIOUS
  <2>1. LinkCase
    BY StepLink DEF LinkInv, ConnectorsInv
  <2>2. QED
    BY <2>1 DEF LinkCase, Opens, Drops, Spares, Loses, Raises, Ignores, Settles,
       KeepsClient, LinkInv, HeldIsOpen
<1>3. QED
  BY <1>1, <1>2, ConnectorsInit, ConnectorsNext, PTL DEF Spec, LinkInv

(***************************************************************************)
(* Whatever callbacks of closed clients come, a wanted connection that is  *)
(* not up on its own handshake has a callback or a reconnect to come that  *)
(* corrects it, unless a reconnect timer fired during an attempt.          *)
(***************************************************************************)
THEOREM ConnectorsOnlyTimersGiveUp == Spec => OnlyTimersGiveUp
<1>1. ASSUME LinkInv, [ConnectorNext]_connectorVars, GivenUp'
      PROVE  GivenUp \/ (reconnect /\ managed.connecting)
  <2>1. LinkCase
    BY <1>1, StepLink DEF LinkInv, ConnectorsInv
  <2>2. /\ NoClient \notin lib.handshakes /\ NoClient \notin lib.established
    BY <1>1, LibFields, ConnectorAssumption DEF LinkInv, ConnectorsInv, BaseInv, TypeOK
  <2>3. CASE Opens \/ Loses
    BY <1>1, <2>3 DEF Opens, Loses, GivenUp
  <2>4. CASE Drops
    BY <1>1, <2>4 DEF Drops, GivenUp
  <2>5. CASE Spares
    BY <1>1, <2>5 DEF Spares, KeepsClient, GivenUp
  <2>6. ASSUME NEW c \in Clients, Raises(c)
        PROVE  GivenUp
    BY <1>1, <2>6 DEF Raises, Settles, KeepsClient, GivenUp, LinkInv, HeldIsOpen
  <2>7. ASSUME NEW c \in Clients, Ignores(c)
        PROVE  GivenUp
    BY <1>1, <2>2, <2>7 DEF Ignores, Settles, KeepsClient, GivenUp
  <2>8. QED
    BY <2>1, <2>3, <2>4, <2>5, <2>6, <2>7 DEF LinkCase
<1>2. LinkInv /\ [ConnectorNext]_connectorVars =>
        [GivenUp' => GivenUp \/ (reconnect /\ managed.connecting)]_connectorVars
  BY <1>1
<1>3. QED
  BY <1>2, ConnectorsLinkInvariant, PTL DEF Spec, OnlyTimersGiveUp

(***************************************************************************)
(* Whatever callbacks of closed clients come, only one of them leaves a    *)
(* reconnect pending for a connection that is up or being made.            *)
(***************************************************************************)
THEOREM ConnectorsOnlyStrangersDoom == Spec => OnlyStrangersDoom
<1>1. ASSUME LinkInv, [ConnectorNext]_connectorVars, Doomed'
      PROVE  Doomed \/ FromStranger
  <2>1. LinkCase
    BY <1>1, StepLink DEF LinkInv, ConnectorsInv
  <2>2. NoClient \notin lib.handshakes
    BY <1>1, LibFields, ConnectorAssumption DEF LinkInv, ConnectorsInv, BaseInv, TypeOK
  <2>3. CASE Opens \/ Drops
    BY <1>1, <2>3 DEF Opens, Drops, Doomed
  <2>4. CASE Spares
    BY <1>1, <2>4 DEF Spares, KeepsClient, Doomed
  <2>5. CASE Loses
    BY <1>1, <2>5 DEF Loses, KeepsClient, Doomed
  <2>6. ASSUME NEW c \in Clients, Raises(c) \/ Ignores(c)
        PROVE  Doomed \/ FromStranger
    BY <1>1, <2>2, <2>6 DEF Raises, Ignores, Settles, KeepsClient, Doomed, FromStranger
  <2>7. QED
    BY <2>1, <2>3, <2>4, <2>5, <2>6 DEF LinkCase
<1>2. LinkInv /\ [ConnectorNext]_connectorVars =>
        [Doomed' => Doomed \/ FromStranger]_connectorVars
  BY <1>1
<1>3. QED
  BY <1>2, ConnectorsLinkInvariant, PTL DEF Spec, OnlyStrangersDoom
=============================================================================
