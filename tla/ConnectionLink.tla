--------------------------- MODULE ConnectionLink ---------------------------
(***************************************************************************)
(* What a protocol connector promises about one device connection, however *)
(* its protocol works: a wanted connection is always up, being tried, or   *)
(* waiting for the next attempt; an unwanted one is down.                  *)
(***************************************************************************)
VARIABLES
  wanted,  \* the connector runs, the connection exists, is enabled and usable
  link     \* "down", "trying", "up" or "waiting"

vars == <<wanted, link>>

Init == wanted = FALSE /\ link = "down"

(* start, addConnection, or an update that enables the connection. *)
Want ==
  /\ ~wanted
  /\ wanted' = TRUE
  /\ link' = "trying"

(* stop, removeConnection, or an update that disables it or that throws.   *)
Unwant ==
  /\ wanted
  /\ wanted' = FALSE
  /\ link' = "down"

(* An update of a connection that stays enabled starts over. *)
Renew ==
  /\ wanted
  /\ link' = "trying"
  /\ UNCHANGED wanted

Connect ==
  /\ link = "trying"
  /\ link' = "up"
  /\ UNCHANGED wanted

Lose ==
  /\ link \in {"trying", "up"}
  /\ link' = "waiting"
  /\ UNCHANGED wanted

Retry ==
  /\ link = "waiting"
  /\ link' = "trying"
  /\ UNCHANGED wanted

Next == Want \/ Unwant \/ Renew \/ Connect \/ Lose \/ Retry

(* An attempt may fail any number of times, but not for ever. *)
Spec == Init /\ [][Next]_vars /\ WF_vars(Retry) /\ SF_vars(Connect)
=============================================================================
