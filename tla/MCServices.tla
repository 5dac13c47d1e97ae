----------------------------- MODULE MCServices -----------------------------
(***************************************************************************)
(* What a server offers next to its relays, on small instances: control     *)
(* calls (Control), policies (Policy), the admin listener (Admin), channels *)
(* (Channel), the channel broker (Broker) and a journal that two servers    *)
(* share (Audit).  The models of these parts share no state.  A behaviour   *)
(* is one of a single part, named by part; the variables of the others      *)
(* stand still.                                                             *)
(***************************************************************************)
EXTENDS Control, TLC

CONSTANT Clients    \* processes that connect to the broker, interchangeable

VARIABLES
  part,                                           \* the part this behaviour is of
  policies, strays, seals,                        \* Policy
  slots, client,                                  \* Admin and Broker
  next_generation, events, batch,                 \* Admin
  keeper,                                         \* the owner in Broker and Channel
  broker, queue, reaper, halting, stopReap,       \* Broker
  server, file, chan, backlog, pipe,
  srv, wake, requests, responses,                 \* Channel
  taken, answered, holders,
  journal, synced, retained, records, chain_hex,  \* Audit
  healthy, mutex, appending, receipt, metric_receipts,
  metric_audit_failures, issued, faults, acked, emitted

policyVars == <<policies, strays, seals>>
adminVars == <<next_generation, events, batch>>
brokerVars == <<broker, queue, reaper, halting, stopReap, server, file, chan, backlog, pipe>>
channelVars == <<srv, wake, requests, responses, taken, answered, holders>>
shared == <<slots, client, keeper>>
journalVars == <<journal, synced, retained, records, chain_hex, healthy, mutex, appending,
                 receipt, metric_receipts, metric_audit_failures, issued, faults, acked, emitted>>
servicesVars == <<part, vars, policyVars, adminVars, brokerVars, channelVars, shared, journalVars>>

Interchangeable == Permutations(Clients)
-----------------------------------------------------------------------------
(* Three destinations over two hosts and two ports, sealed twice.            *)
Lookups == INSTANCE Policy WITH
  Handles <- {1}, Hosts <- {1, 2}, Numeric <- {2}, Ports <- {1, 2}, Optins <- BOOLEAN,
  Addresses <- {1}, NonGlobal <- {}, MaxDestinations <- 3, MaxPinned <- 1, MaxAnswers <- 1,
  MaxSeals <- 2

(* Answers of two of three addresses, one not global, over two seals.        *)
Pins == INSTANCE Policy WITH
  Handles <- {1}, Hosts <- {1, 2}, Numeric <- {}, Ports <- {1}, Optins <- BOOLEAN,
  Addresses <- {1, 2, 3}, NonGlobal <- {2}, MaxDestinations <- 2, MaxPinned <- 2,
  MaxAnswers <- 2, MaxSeals <- 2

(* Two handles built in any order, or one from the other.                    *)
Digests == INSTANCE Policy WITH
  Handles <- {1, 2}, Hosts <- {1, 2}, Numeric <- {}, Ports <- {1}, Optins <- {FALSE},
  Addresses <- {1, 2}, NonGlobal <- {}, MaxDestinations <- 2, MaxPinned <- 2,
  MaxAnswers <- 2, MaxSeals <- 1

(* Two admin clients, one whose request never ends, and two slots.           *)
Admins == INSTANCE Admin WITH
  Flag <- 1048576, Clients <- {"c1", "c2"}, Endless <- {"c2"}, MaxSlots <- 2, Buffer <- 2,
  RequestLength <- 2, ResponseLength <- 1, Timeout <- 1, MayReset <- TRUE

(* Two processes and one slot.  One of the clients may write after its       *)
(* request or attach control data ...                                        *)
Brokers == INSTANCE Broker WITH
  Capacity <- 1, Kinds <- {"good", "chatty", "control"}, Faults <- {"create"},
  owner <- keeper, stopping <- halting

OneMisbehaves == Cardinality({c \in Clients : client[c].kind # "good"}) <= 1

(* ... or create, the memory or the loop may fail and the path be replaced,  *)
(* or the server stop.                                                       *)
FailingBrokers == INSTANCE Broker WITH
  Capacity <- 1, Kinds <- {"good"}, Faults <- {"create", "server", "path", "memory", "loop"},
  owner <- keeper, stopping <- halting

StopsApart ==
  server \/ (file # "other" /\ ~broker.failed /\ \A i \in DOMAIN slots : slots[i].status # "RESOURCE")

(* The client library, with one failed wait, against a server that keeps its *)
(* copy of a delivered stream.                                               *)
Channels == INSTANCE Channel WITH
  MaxRequests <- 3, QueueLength <- 2, MaxFaults <- 1, Library <- TRUE, Hold <- TRUE,
  owner <- keeper

(* Two servers, two receipts, two kills or power losses.                     *)
Journals == INSTANCE Audit WITH
  Servers <- {"s1", "s2"}, Creator <- "creator", MaxReceipts <- 2, MaxFaults <- 2,
  file <- journal, holders <- retained, pc <- appending
-----------------------------------------------------------------------------
(* The specification. *)

Policies == {"lookups", "pins", "digests"}
Broking == {"broker", "failing broker"}
Parts == Policies \cup Broking \cup {"control", "admin", "channel", "journal"}

ServicesInit ==
  /\ part \in Parts
  /\ Init /\ Journals!Init
  /\ IF part = "digests" THEN Digests!Init ELSE Lookups!Init
  /\ CASE part = "admin" -> Admins!Init /\ keeper = ""
       [] part = "broker" -> Brokers!Init
       [] part = "failing broker" -> FailingBrokers!Init
       [] part = "channel" -> Channels!Init /\ slots = <<>>
       [] OTHER -> slots = <<>> /\ client = <<>> /\ keeper = ""
  /\ part # "admin" => next_generation = 0 /\ events = {} /\ batch = FALSE
  /\ part \notin Broking =>
       /\ broker = <<>> /\ queue = <<>> /\ reaper = <<>> /\ halting = FALSE /\ stopReap = FALSE
       /\ server = FALSE /\ file = "none" /\ chan = <<>> /\ backlog = <<>> /\ pipe = <<>>
  /\ part # "channel" =>
       /\ srv = <<>> /\ wake = FALSE /\ requests = <<>> /\ responses = <<>>
       /\ taken = 0 /\ answered = <<>> /\ holders = <<>>

ServicesNext ==
  /\ UNCHANGED part
  /\ \/ /\ part = "control" /\ Next
        /\ UNCHANGED <<policyVars, adminVars, brokerVars, channelVars, shared, journalVars>>
     \/ /\ \/ part = "lookups" /\ Lookups!Next
           \/ part = "pins" /\ Pins!Next
           \/ part = "digests" /\ Digests!Next
        /\ UNCHANGED <<vars, adminVars, brokerVars, channelVars, shared, journalVars>>
     \/ /\ part = "admin" /\ Admins!Next
        /\ UNCHANGED <<vars, policyVars, brokerVars, channelVars, keeper, journalVars>>
     \/ /\ \/ part = "broker" /\ Brokers!Next /\ OneMisbehaves'
           \/ part = "failing broker" /\ FailingBrokers!Next /\ StopsApart'
        /\ UNCHANGED <<vars, policyVars, adminVars, channelVars, journalVars>>
     \/ /\ part = "channel" /\ Channels!Next
        /\ UNCHANGED <<vars, policyVars, adminVars, brokerVars, slots, journalVars>>
     \/ /\ part = "journal" /\ Journals!Next
        /\ UNCHANGED <<vars, policyVars, adminVars, brokerVars, channelVars, shared>>

(* Parts other than the broker and the channel may come to rest.             *)
Rest == part \notin Broking \cup {"channel"} /\ UNCHANGED servicesVars

ServicesSpec == ServicesInit /\ [][ServicesNext \/ Rest]_servicesVars
-----------------------------------------------------------------------------
(* Properties, next to those of Control. *)

(* A policy means what was allowed, in whatever order it was built.  The     *)
(* search that stops early finds a destination exactly when it is allowed; a *)
(* reseal can fail by resolution only and keeps every rule; no address       *)
(* outside the global space is pinned without the opt-in, not by a seal that *)
(* failed either; two policies have one digest exactly when they allow the   *)
(* same.                                                                     *)
PolicyExact ==
  /\ part = "lookups" => Lookups!FindExact /\ Lookups!ResealRebuilds
  /\ part = "pins" => Pins!PinnedGlobal
  /\ part = "digests" => Digests!DigestCanonical

(* An answer reaches who asked for it.  The result of a call of              *)
(* maelys_egress_client_connect is of the request of that very call, also    *)
(* after deadlines that passed with their answers on the way (as long as no  *)
(* wait has failed), and the channel thread keeps no other stream; an admin  *)
(* client may send its request and half-close, and is answered unless the    *)
(* deadline comes first.                                                     *)
AnswersReach ==
  /\ part = "channel" => Channels!AnswersPair /\ Channels!ServerKeepsNone
  /\ part = "admin" => Admins!HalfClosedAnswered

(* egress.h: "A slot is reusable only after its channel is joined": a        *)
(* channel that exists occupies exactly one slot of the broker, the reaper   *)
(* destroys it once, and when destroy has returned every one is joined.      *)
(* What the broker tells is so: a client that follows the bootstrap protocol *)
(* never sees a breach, and one told OK has the descriptor of the channel    *)
(* its own lease keeps; destroy returns OK exactly when nothing failed and   *)
(* the broker's own socket was removed.                                      *)
BrokerExact ==
  part \in Broking =>
    /\ Brokers!ChannelsOccupySlots /\ Brokers!ReapedOnce /\ Brokers!AllJoined
    /\ Brokers!ClientsAgree /\ Brokers!HonestResult

(* The journal keeps what it acknowledged and each server says when it       *)
(* cannot, also when two servers append to one handle.                       *)
JournalShared == Journals!JournalSound
=============================================================================
