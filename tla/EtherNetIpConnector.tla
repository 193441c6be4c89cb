------------------------ MODULE EtherNetIpConnector ------------------------
(***************************************************************************)
(* The EtherNet/IP connector over st-ethernet-ip: a poll reads the tags    *)
(* mapped when it starts, a flag keeps polls from overlapping, and only    *)
(* connection, session and socket errors lead to a reconnect.              *)
(***************************************************************************)
EXTENDS BaseConnector

Bug_Eip_OverlappingPoll(m, l) ==
  IF MayPoll(m)
  THEN \E i \in FreeIds(l) :
         /\ managed' = [m EXCEPT !.pollInProgress = TRUE]
         /\ lib' = [l EXCEPT !.reads = @ \cup
                      {[id |-> i, client |-> m.client,
                        targets |-> Mapped, done |-> {}]}]
  ELSE managed' = m /\ lib' = l

(* One poll, unless one is in progress: the tags mapped at this moment. *)
Eip_poll(m, l) ==
  IF MayPoll(m) /\ ~m.pollInProgress
  THEN \E i \in FreeIds(l) :
         /\ managed' = [m EXCEPT !.pollInProgress = TRUE]
         /\ lib' = [l EXCEPT !.reads = @ \cup
                      {[id |-> i, client |-> m.client,
                        targets |-> Mapped, done |-> {}]}]
  ELSE managed' = m /\ lib' = l

Eip_startPolling(m, l) ==
  IF m.pollingTimer THEN managed' = m /\ lib' = l
  ELSE Eip_poll([m EXCEPT !.pollingTimer = TRUE], l)

(* connect() rejects: the handler has no guard. *)
Eip_ConnectFails(c) ==
  /\ c \in lib.handshakes
  /\ managed' = handleConnectionError([managed EXCEPT !.connecting = FALSE])
  /\ lib' = Delivered(lib, c, FALSE)
  /\ currentValues' = BadQuality
  /\ UNCHANGED <<running, phase, mappings>>

Bug_Eip_ConnectWithoutGuard(c) ==
  /\ c \in lib.handshakes
  /\ Eip_startPolling([managed EXCEPT !.connecting = FALSE, !.state = "connected"],
                  Delivered(lib, c, TRUE))
  /\ currentValues' = GoodQuality
  /\ UNCHANGED <<running, phase, mappings>>

(* connect() resolves; ignored when no client is managed any more. *)
Eip_ConnectSucceeds(c) ==
  /\ c \in lib.handshakes
  /\ LET m == [managed EXCEPT !.connecting = FALSE]
         l == Delivered(lib, c, TRUE)
     IN IF m.client = NoClient
        THEN managed' = m /\ lib' = l /\ UNCHANGED currentValues
        ELSE /\ Eip_startPolling([m EXCEPT !.state = "connected"], l)
             /\ currentValues' = GoodQuality
  /\ UNCHANGED <<running, phase, mappings>>

(* The polling interval elapses; poll may return early. *)
Eip_PollTick ==
  /\ managed.pollingTimer
  /\ Eip_poll(managed, lib)
  /\ UNCHANGED <<running, phase, mappings, currentValues>>

(* The read rejects with a connection, session or socket error. *)
Eip_ReadFails(r) ==
  /\ r \in lib.reads
  /\ managed' = handleConnectionError([managed EXCEPT !.pollInProgress = FALSE])
  /\ lib' = [lib EXCEPT !.reads = @ \ {r}]
  /\ currentValues' = BadQuality
  /\ UNCHANGED <<running, phase, mappings>>

Bug_Eip_SoftFailureKeepsFlag(r) ==
  /\ r \in lib.reads
  /\ lib' = [lib EXCEPT !.reads = @ \ {r}]
  /\ currentValues' = BadQuality
  /\ UNCHANGED <<running, phase, managed, mappings>>

(* It rejects with a timeout, a CIP error or any other: the connection     *)
(* stays up and the next poll may recover.                                 *)
Eip_ReadFailsSoftly(r) ==
  /\ r \in lib.reads
  /\ managed' = [managed EXCEPT !.pollInProgress = FALSE]
  /\ lib' = [lib EXCEPT !.reads = @ \ {r}]
  /\ currentValues' = BadQuality
  /\ UNCHANGED <<running, phase, mappings>>

(* It resolves with a value for each tag it was sent with. *)
Eip_ReadSucceeds(r) ==
  /\ r \in lib.reads
  /\ r.client \in lib.established
  /\ managed' = [managed EXCEPT !.pollInProgress = FALSE]
  /\ lib' = [lib EXCEPT !.reads = @ \ {r}]
  /\ currentValues' = CacheValues(r.targets, {})
  /\ UNCHANGED <<running, phase, mappings>>

Eip_AddMapping(k) == addMapping(k, FALSE)

Eip_RemoveMapping(k) == removeMapping(k, FALSE)

Eip_Callbacks ==
  \/ \E c \in Clients : Eip_ConnectFails(c) \/ Eip_ConnectSucceeds(c)
  \/ \E r \in lib.reads : Eip_ReadFails(r) \/ Eip_ReadFailsSoftly(r) \/ Eip_ReadSucceeds(r)

Eip_Next ==
  \/ Operations
  \/ \E k \in Mappings : Eip_AddMapping(k) \/ Eip_RemoveMapping(k)
  \/ reconnect
  \/ Eip_PollTick
  \/ Eip_Callbacks
=============================================================================
