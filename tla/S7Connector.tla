---------------------------- MODULE S7Connector ----------------------------
(***************************************************************************)
(* The Siemens S7 connector over nodes7: mappings live in the client's     *)
(* poll list, a poll is one readAllItems call, and nothing keeps a new     *)
(* poll from starting while another is in flight.                          *)
(***************************************************************************)
EXTENDS BaseConnector

(* One poll: readAllItems of the present client. *)
S7_poll(m, l) ==
  IF MayPoll(m)
  THEN \E i \in FreeIds(l) :
         /\ managed' = m
         /\ lib' = [l EXCEPT !.reads = @ \cup
                      {[id |-> i, client |-> m.client,
                        targets |-> l.items, done |-> {}]}]
  ELSE managed' = m /\ lib' = l

S7_startPolling(m, l) ==
  IF m.pollingTimer THEN managed' = m /\ lib' = l
  ELSE S7_poll([m EXCEPT !.pollingTimer = TRUE], l)

(* The handshake of client c fails: the callback has no guard. *)
S7_ConnectFails(c) ==
  /\ c \in lib.handshakes
  /\ managed' = handleConnectionError([managed EXCEPT !.connecting = FALSE])
  /\ lib' = Delivered(lib, c, FALSE)
  /\ currentValues' = BadQuality
  /\ UNCHANGED <<running, phase, mappings>>

(* The handshake of c succeeds; ignored when no client is managed. *)
S7_ConnectSucceeds(c) ==
  /\ c \in lib.handshakes
  /\ LET m == [managed EXCEPT !.connecting = FALSE]
         l == Delivered(lib, c, TRUE)
     IN IF m.client = NoClient
        THEN managed' = m /\ lib' = l /\ UNCHANGED currentValues
        ELSE /\ S7_startPolling([m EXCEPT !.state = "connected"],
                             [l EXCEPT !.items = @ \cup Mapped])
             /\ currentValues' = GoodQuality
  /\ UNCHANGED <<running, phase, mappings>>

(* The polling interval elapses; poll may return early. *)
S7_PollTick ==
  /\ managed.pollingTimer
  /\ S7_poll(managed, lib)
  /\ UNCHANGED <<running, phase, mappings, currentValues>>

(* readAllItems calls back with an error. *)
S7_ReadFails(r) ==
  /\ r \in lib.reads
  /\ managed' = handleConnectionError(managed)
  /\ lib' = [lib EXCEPT !.reads = @ \ {r}]
  /\ currentValues' = BadQuality
  /\ UNCHANGED <<running, phase, mappings>>

Bug_S7_CacheAllRead(r) ==
  /\ r \in lib.reads
  /\ r.client \in lib.established
  /\ lib' = [lib EXCEPT !.reads = @ \ {r}]
  /\ currentValues' = CacheValues(r.targets, {})
  /\ UNCHANGED <<running, phase, managed, mappings>>

(* readAllItems calls back with values for the items it read. *)
S7_ReadSucceeds(r) ==
  /\ r \in lib.reads
  /\ r.client \in lib.established
  /\ lib' = [lib EXCEPT !.reads = @ \ {r}]
  /\ currentValues' = CacheValues(r.targets \cap Mapped, {})
  /\ UNCHANGED <<running, phase, managed, mappings>>

S7_AddMapping(k) ==
  addMapping(k, managed.state = "connected" /\ managed.client # NoClient)

S7_RemoveMapping(k) ==
  removeMapping(k, managed.state = "connected" /\ managed.client # NoClient)

S7_Callbacks ==
  \/ \E c \in Clients : S7_ConnectFails(c) \/ S7_ConnectSucceeds(c)
  \/ \E r \in lib.reads : S7_ReadFails(r) \/ S7_ReadSucceeds(r)

S7_Next ==
  \/ Operations
  \/ \E k \in Mappings : S7_AddMapping(k) \/ S7_RemoveMapping(k)
  \/ reconnect
  \/ S7_PollTick
  \/ S7_Callbacks
=============================================================================
