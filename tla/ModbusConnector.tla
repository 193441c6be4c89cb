-------------------------- MODULE ModbusConnector --------------------------
(***************************************************************************)
(* The Modbus TCP connector over modbus-serial: a poll awaits one read     *)
(* after the other, each on the client managed at that moment, and nothing *)
(* keeps a new poll from starting while another is in flight.              *)
(***************************************************************************)
EXTENDS BaseConnector

(* One poll: it awaits the read of a first mapping. *)
Modbus_poll(m, l) ==
  IF MayPoll(m)
  THEN \E i \in FreeIds(l), k \in Mapped :
         /\ managed' = m
         /\ lib' = [l EXCEPT !.reads = @ \cup
                      {[id |-> i, client |-> m.client,
                        targets |-> {k}, done |-> {}]}]
  ELSE managed' = m /\ lib' = l

Modbus_startPolling(m, l) ==
  IF m.pollingTimer THEN managed' = m /\ lib' = l
  ELSE Modbus_poll([m EXCEPT !.pollingTimer = TRUE], l)

(* connectTCP rejects: the handler has no guard. *)
Modbus_ConnectFails(c) ==
  /\ c \in lib.handshakes
  /\ managed' = handleConnectionError([managed EXCEPT !.connecting = FALSE])
  /\ lib' = Delivered(lib, c, FALSE)
  /\ currentValues' = BadQuality
  /\ UNCHANGED <<running, phase, mappings>>

(* connectTCP resolves; ignored when no client is managed any more. *)
Modbus_ConnectSucceeds(c) ==
  /\ c \in lib.handshakes
  /\ LET m == [managed EXCEPT !.connecting = FALSE]
         l == Delivered(lib, c, TRUE)
     IN IF m.client = NoClient
        THEN managed' = m /\ lib' = l /\ UNCHANGED currentValues
        ELSE /\ Modbus_startPolling([m EXCEPT !.state = "connected"], l)
             /\ currentValues' = GoodQuality
  /\ UNCHANGED <<running, phase, mappings>>

(* The polling interval elapses; poll may return early. *)
Modbus_PollTick ==
  /\ managed.pollingTimer
  /\ Modbus_poll(managed, lib)
  /\ UNCHANGED <<running, phase, mappings, currentValues>>

(* The loop of poll r goes on with a mapping it has not read, on the       *)
(* client managed now; without a client each remaining read throws, is     *)
(* logged and skipped.                                                     *)
Modbus_Continue(r) ==
  LET left == Mapped \ (r.done \cup r.targets)
  IN IF left = {} \/ managed.client = NoClient
     THEN lib' = [lib EXCEPT !.reads = @ \ {r}]
     ELSE \E k \in left :
            lib' = [lib EXCEPT !.reads = (@ \ {r}) \cup
                      {[r EXCEPT !.client = managed.client, !.targets = {k},
                                 !.done = @ \cup r.targets]}]

(* The awaited read fails with a connection error: the poll is over. *)
Modbus_ReadFails(r) ==
  /\ r \in lib.reads
  /\ managed' = handleConnectionError(managed)
  /\ lib' = [lib EXCEPT !.reads = @ \ {r}]
  /\ currentValues' = BadQuality
  /\ UNCHANGED <<running, phase, mappings>>

(* It fails with any other error: logged, and the loop goes on. *)
Modbus_ReadFailsSoftly(r) ==
  /\ r \in lib.reads
  /\ Modbus_Continue(r)
  /\ UNCHANGED <<running, phase, managed, mappings, currentValues>>

(* It returns a value, which is cached, and the loop goes on. *)
Modbus_ReadSucceeds(r) ==
  /\ r \in lib.reads
  /\ r.client \in lib.established
  /\ Modbus_Continue(r)
  /\ currentValues' = CacheValues(r.targets, {})
  /\ UNCHANGED <<running, phase, managed, mappings>>

(* An address that does not parse is refused, which changes nothing. *)
Modbus_AddMapping(k) == addMapping(k, FALSE)

Modbus_RemoveMapping(k) == removeMapping(k, FALSE)

Modbus_Callbacks ==
  \/ \E c \in Clients : Modbus_ConnectFails(c) \/ Modbus_ConnectSucceeds(c)
  \/ \E r \in lib.reads : Modbus_ReadFails(r) \/ Modbus_ReadFailsSoftly(r) \/ Modbus_ReadSucceeds(r)

Modbus_Next ==
  \/ Operations
  \/ \E k \in Mappings : Modbus_AddMapping(k) \/ Modbus_RemoveMapping(k)
  \/ reconnect
  \/ Modbus_PollTick
  \/ Modbus_Callbacks
=============================================================================
