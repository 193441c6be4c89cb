--------------------------- MODULE PcccConnector ---------------------------
(***************************************************************************)
(* The PCCC connector over nodepccc: mappings are registered in the poll   *)
(* list of the client that exists when they are added, a flag keeps polls  *)
(* from overlapping, and every callback of the library first checks that   *)
(* there still is a client.                                                *)
(***************************************************************************)
EXTENDS BaseConnector

Bug_Pccc_OverlappingPoll(m, l) ==
  IF MayPoll(m)
  THEN \E i \in FreeIds(l) :
         /\ managed' = [m EXCEPT !.pollInProgress = TRUE]
         /\ lib' = [l EXCEPT !.reads = @ \cup
                      {[id |-> i, client |-> m.client,
                        targets |-> l.items, done |-> {}]}]
  ELSE managed' = m /\ lib' = l

(* One poll, unless one is in progress: readAllItems of the client. *)
Pccc_poll(m, l) ==
  IF MayPoll(m) /\ ~m.pollInProgress
  THEN \E i \in FreeIds(l) :
         /\ managed' = [m EXCEPT !.pollInProgress = TRUE]
         /\ lib' = [l EXCEPT !.reads = @ \cup
                      {[id |-> i, client |-> m.client,
                        targets |-> l.items, done |-> {}]}]
  ELSE managed' = m /\ lib' = l

Pccc_startPolling(m, l) ==
  IF m.pollingTimer THEN managed' = m /\ lib' = l
  ELSE Pccc_poll([m EXCEPT !.pollingTimer = TRUE], l)

(* The connect callback of c with an error; ignored when there is no       *)
(* client.                                                                 *)
Pccc_ConnectFails(c) ==
  /\ c \in lib.handshakes
  /\ lib' = Delivered(lib, c, FALSE)
  /\ LET m == [managed EXCEPT !.connecting = FALSE]
     IN IF m.client = NoClient
        THEN managed' = m /\ UNCHANGED currentValues
        ELSE managed' = handleConnectionError(m) /\ currentValues' = BadQuality
  /\ UNCHANGED <<running, phase, mappings>>

(* The connect callback of c without an error. *)
Pccc_ConnectSucceeds(c) ==
  /\ c \in lib.handshakes
  /\ LET m == [managed EXCEPT !.connecting = FALSE]
         l == Delivered(lib, c, TRUE)
     IN IF m.client = NoClient
        THEN managed' = m /\ lib' = l /\ UNCHANGED currentValues
        ELSE /\ Pccc_startPolling([m EXCEPT !.state = "connected"], l)
             /\ currentValues' = GoodQuality
  /\ UNCHANGED <<running, phase, mappings>>

(* The polling interval elapses; poll may return early. *)
Pccc_PollTick ==
  /\ managed.pollingTimer
  /\ Pccc_poll(managed, lib)
  /\ UNCHANGED <<running, phase, mappings, currentValues>>

(***************************************************************************)
(* readAllItems of r calls back and the connector looks every mapping up   *)
(* in the present client: findItem knows the registered ones and says OK   *)
(* of those in ok.  All of them bad counts as a connection loss.           *)
(***************************************************************************)
Pccc_ReadCallback(r, anythingBad, ok) ==
  LET m == [managed EXCEPT !.pollInProgress = FALSE]
      found == Mapped \cap lib.items
  IN /\ r \in lib.reads
     /\ lib' = [lib EXCEPT !.reads = @ \ {r}]
     /\ CASE m.client = NoClient ->
               managed' = m /\ UNCHANGED currentValues
          [] m.client # NoClient /\ anythingBad /\ found \cap ok = {} ->
               managed' = handleConnectionError(m) /\ currentValues' = BadQuality
          [] OTHER ->
               managed' = m /\ currentValues' = CacheValues(found \cap ok, found \ ok)
     /\ UNCHANGED <<running, phase, mappings>>

(* Only an established client has items of good quality; the items of r    *)
(* are all good when the read of the present client reports nothing bad.   *)
Pccc_ReadFails(r) ==
  \E ok \in IF managed.client \in lib.established
            THEN SUBSET lib.items ELSE {{}} :
    Pccc_ReadCallback(r, TRUE, ok)

Pccc_ReadSucceeds(r) ==
  /\ r.client \in lib.established
  /\ \E ok \in IF managed.client \in lib.established
               THEN SUBSET lib.items ELSE {{}} :
       /\ r.client = managed.client => lib.items \cap r.targets \subseteq ok
       /\ Pccc_ReadCallback(r, FALSE, ok)

Pccc_AddMapping(k) == addMapping(k, managed.client # NoClient)

Pccc_RemoveMapping(k) == removeMapping(k, managed.client # NoClient)

Pccc_Callbacks ==
  \/ \E c \in Clients : Pccc_ConnectFails(c) \/ Pccc_ConnectSucceeds(c)
  \/ \E r \in lib.reads : Pccc_ReadFails(r) \/ Pccc_ReadSucceeds(r)

Pccc_Next ==
  \/ Operations
  \/ \E k \in Mappings : Pccc_AddMapping(k) \/ Pccc_RemoveMapping(k)
  \/ reconnect
  \/ Pccc_PollTick
  \/ Pccc_Callbacks
=============================================================================
