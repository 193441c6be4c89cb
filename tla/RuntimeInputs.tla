---------------------------- MODULE RuntimeInputs ----------------------------
(***************************************************************************)
(* What reaches a running runtime from outside: the lines on its stdin and *)
(* the files of the trust store.  The runtime is one thread: it reads its  *)
(* stdin between two verifications, never within one.  A route that has    *)
(* changed the stores tells the runtime with a line on the same pipe the   *)
(* connectors write their values to.                                       *)
(***************************************************************************)
EXTENDS StdinChannel

CONSTANTS
  Certs, NoCert,  \* see TrustStore
  ReloadLength    \* length of the line trust_store_reload

ASSUME InputsAssumption == ReloadLength \in Lengths /\ NoCert \notin Certs

VARIABLES trusted, rejected, verifying, client, file, verdict, seen, handling, subject, cut

Store == INSTANCE TrustStore

storeVars ==
  <<trusted, rejected, verifying, client, file, verdict, seen, handling, subject, cut>>

vars == <<channelVars, storeVars>>

Init == ChannelInit /\ Store!StoreInit

Channel(A) == A /\ UNCHANGED storeVars

Room == alive => Len(ends) < MaxLines

(* The API is one thread as well: a handler under way lets nothing between. *)
ApiFree == handling = "idle"

(***************************************************************************)
(* A request ends with the reload line if the runtime runs, as far as the  *)
(* process manager knows.                                                  *)
(***************************************************************************)
signalReload ==
  /\ Store!Signalled
  /\ IF api = "running"
     THEN Room /\ writeToStdin(ReloadLength)
     ELSE UNCHANGED channelVars

(* A timed callback of the loop, between the messages of clients. *)
Process(n) == verifying = "idle" /\ Channel(ipc_process(n))

Next ==
  \/ ApiFree /\ Channel(Start)
  \/ ApiFree /\ Channel(ExitSeen)
  \/ Exit /\ Store!Abort
  \/ \E length \in Lengths : ApiFree /\ Room /\ Channel(writeToStdin(length))
  \/ \E n \in 0 .. Capacity - 1 : Process(n)
  \/ \E c \in Certs : alive /\ Store!Verify(c) /\ UNCHANGED channelVars
  \/ Store!VerifierStep /\ UNCHANGED channelVars
  \/ \E c \in Certs, request \in {"trust", "reject", "delete"} : Store!Ask(request, c) /\ UNCHANGED channelVars
  \/ Store!HandlerStep /\ UNCHANGED channelVars
  \/ signalReload

(***************************************************************************)
(* The loop of the runtime goes on: a verification ends, and between those *)
(* that clients cause the callback that reads stdin comes round again and  *)
(* again.  A read returns what there is.                                   *)
(***************************************************************************)
Fairness ==
  /\ WF_vars(Store!VerifierStep /\ UNCHANGED channelVars)
  /\ SF_vars(\E n \in 1 .. Capacity - 1 : Process(n))

Spec == Init /\ [][Next]_vars /\ Fairness

-----------------------------------------------------------------------------
TypeOK == ChannelTypeOK /\ Store!StoreTypeOK

(***************************************************************************)
(* A line that fits is applied while the runtime lives, however long the   *)
(* lines around it and however busy the clients.                           *)
(***************************************************************************)
LinesArrive ==
  \A i \in 1 .. MaxLines : (alive /\ i \in Lines /\ Fits(i)) ~> (i \in applied \/ ~alive)

VerdictIsTimely == Store!VerdictIsTimely
NothingLost == Store!NothingLost
ListedUnlessCut == Store!ListedUnlessCut
=============================================================================
