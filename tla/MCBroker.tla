------------------------------ MODULE MCBroker ------------------------------
(***************************************************************************)
(* The broker under fairness, on a small instance: two clients that follow *)
(* the protocol dispute one slot, or a single client connects, which may   *)
(* write after its request, while the server may stop and the socket path  *)
(* be replaced.  These are the environment's: no thread of the broker is   *)
(* held back by the bound, so the fairness of Broker stays as it is.       *)
(***************************************************************************)
EXTENDS Broker

Undisturbed == server /\ file # "other" /\ \A c \in Clients : client[c].kind = "good"
Alone == \E c \in Clients : \A d \in Clients \ {c} : client[d].pc = "off"

BoundedNext == Next /\ (Undisturbed \/ Alone)'

FairBoundedSpec == Init /\ [][BoundedNext]_vars /\ Fairness
=============================================================================
