----------------------------- MODULE Admission -----------------------------
(***************************************************************************)
(* The connection table of the owner thread: slots and their generations,   *)
(* the event batch of a loop turn, the principals' active counts, the       *)
(* policy each connection is stamped with, the receipt and the counters its *)
(* close leaves (server.c, connection.c, connector.c, receipt.c), while     *)
(* another thread replaces the policy.                                      *)
(*                                                                         *)
(* Functions of the owner are operators on its state `o'.  A dispatched     *)
(* event is one step: the only shared data it reads is the policy, once,    *)
(* under lifecycle_lock.  What the bytes of a connection say is a choice    *)
(* here; Relay models them.                                                 *)
(***************************************************************************)
EXTENDS Tokens, FiniteSets, Sequences

CONSTANTS
  MaxConnections,   \* config.max_connections
  Principals,       \* config.principals
  None,             \* no principal, no address
  MaxActive,        \* principal->max_active_connections, 0 for no ceiling
  Addresses,        \* what a destination may be pinned to
  Native,           \* connectors open sessions
  MayFail,          \* attestations, appends, allocations and watches may fail
  MaxArrivals,      \* bound: connections accepted or opened, and one more refused
  MaxReplacements   \* bound: policies published after the first

ASSUME AdmissionAssumption ==
  /\ MaxConnections \in Nat \ {0} /\ MaxConnections <= 4096 /\ MaxActive \in Nat
  /\ Native \in BOOLEAN /\ MayFail \in BOOLEAN
  /\ MaxArrivals \in Nat /\ MaxReplacements \in Nat
  /\ None \notin Principals \cup Addresses

VARIABLES
  o,          \* the owner's part of the server
  events,     \* tokens of the batch not yet dispatched
  policy, policy_generation,
  stopping,
  run,        \* "loop", then what its end reports, then "ended"
  published   \* history: published[g] is the policy of generation g

vars == <<o, events, policy, policy_generation, stopping, run, published>>
control == <<policy, policy_generation, stopping, run, published>>

Slots == 0..MaxConnections - 1

(* A policy pins the one destination of this model to an address, or refuses *)
(* it; its digest is the policy itself.                                      *)
Policies == Addresses \cup {None}

Results == {"OK", "DENIED", "PROTOCOL", "IO", "TIMEOUT", "MEMORY", "CANCELLED"}

(* `first' is history: the first result other than OK. *)
Unused == [state |-> "UNUSED", generation |-> 0, protocol |-> "NONE", principal |-> None,
           result |-> "OK", first |-> "OK", flush |-> FALSE, admitted |-> FALSE,
           digest |-> "", stamp |-> 0, destination |-> None, upstream |-> None]

Init ==
  /\ policy \in Policies
  /\ policy_generation = 1 /\ published = <<policy>>
  /\ o = [slots |-> [s \in Slots |-> Unused], count |-> 0, next_id |-> 0,
          active |-> [p \in Principals |-> 0],
          accepted |-> 0, live |-> 0, receipts |-> 0, audit_failures |-> 0,
          healthy |-> TRUE,      \* maelys_egress_audit_healthy
          issued |-> {},         \* history: ids of the receipts,
          journalled |-> 0,      \* those appended, and the last one
          last |-> [result |-> "OK", first |-> "OK", digest |-> policy, stamp |-> 1,
                    upstream |-> None]]
  /\ events = {}
  /\ stopping = FALSE /\ run = "loop"
-----------------------------------------------------------------------------
(* Functions of the owner. *)

Used(s) == {i \in Slots : s.slots[i].state # "UNUSED"}

SetResult(c, result) ==
  [c EXCEPT !.result = result, !.first = IF @ = "OK" THEN result ELSE @]

(* The outcomes of attestation and append: the receipt reaches the sink      *)
(* whatever they are, and the journal only when both succeed.                *)
Emissions(s) ==
  {e \in [attested : BOOLEAN, appended : BOOLEAN] :
    /\ e.appended => e.attested /\ s.healthy
    /\ ~MayFail => e.appended}

Receipt(c) == [result |-> c.result, first |-> c.first, digest |-> c.digest,
               stamp |-> c.stamp, upstream |-> c.upstream]

(* Mutant: a failed attestation is not counted. *)
EmitUncounted(s, c, e) ==
  [s EXCEPT !.receipts = @ + 1,
            !.audit_failures = IF e.appended \/ ~e.attested THEN @ ELSE @ + 1,
            !.healthy = @ /\ (e.attested => e.appended),
            !.journalled = IF e.appended THEN @ + 1 ELSE @,
            !.issued = @ \cup {c.generation}, !.last = Receipt(c)]

(* egress_receipt_emit; an append that fails makes the journal unhealthy. *)
Emit(s, c, e) ==
  [s EXCEPT !.receipts = @ + 1,
            !.audit_failures = IF e.appended THEN @ ELSE @ + 1,
            !.healthy = @ /\ (e.attested => e.appended),
            !.journalled = IF e.appended THEN @ + 1 ELSE @,
            !.issued = @ \cup {c.generation}, !.last = Receipt(c)]

Leave(active, c) ==
  IF c.admitted /\ active[c.principal] > 0
  THEN [active EXCEPT ![c.principal] = @ - 1] ELSE active

Enter(active, p) == IF p = None THEN active ELSE [active EXCEPT ![p] = @ + 1]

(* Mutant: a connection that began no request leaves no receipt. *)
CloseSilent(s, i) ==
  LET c == s.slots[i]
      freed(t) == [t EXCEPT !.slots[i] = [Unused EXCEPT !.generation = c.generation],
                            !.active = Leave(@, c), !.count = @ - 1, !.live = @ - 1]
  IN  IF c.protocol = "NONE" THEN {freed(s)} ELSE {freed(Emit(s, c, e)) : e \in Emissions(s)}

(* egress_connection_close of a used slot. *)
Close(s, i) ==
  LET c == s.slots[i] IN
  {[Emit(s, c, e) EXCEPT
      !.slots[i] = [Unused EXCEPT !.generation = c.generation],
      !.active = Leave(@, c),
      !.count = @ - 1, !.live = @ - 1] : e \in Emissions(s)}

CloseWith(s, i, result) ==
  Close([s EXCEPT !.slots[i] = SetResult(@, result)], i)

(* Mutant: the reason of the close replaces the one already set. *)
AbortAll(s, i, result) == CloseWith(s, i, result)

(* A failed dispatch and the end of run: a result already set stays. *)
Abort(s, i, result) ==
  IF s.slots[i].result = "OK" THEN CloseWith(s, i, result) ELSE Close(s, i)

(* egress_connection_fail: the first result stays; a connector's session is  *)
(* closed, any other client gets its refusal first.                          *)
Fail(s, i, result) ==
  LET failed == [s EXCEPT !.slots[i] =
                   [(IF @.result = "OK" THEN SetResult(@, result) ELSE @) EXCEPT !.flush = TRUE]]
  IN  IF s.slots[i].protocol = "CONNECTOR" THEN Close(failed, i) ELSE {failed}

(* egress_connection_connected: a watch that cannot be armed closes, and the *)
(* result is still OK.                                                       *)
Connected(s, i) ==
  LET t == [s EXCEPT !.slots[i].state = "RELAY",
                     !.slots[i].upstream = s.slots[i].destination]
  IN  {t} \cup (IF MayFail THEN Close(t, i) ELSE {})

(* connect_next with its addresses: connected at once, in progress, refused. *)
ConnectNext(s, i) ==
  Connected(s, i) \cup {[s EXCEPT !.slots[i].state = "CONNECTING"]} \cup Fail(s, i, "IO")

(* After the principal was counted: a request that does not fit the buffer   *)
(* is closed with IO, one above its byte quota is refused.                   *)
Admitted(s, i) ==
  LET p == s.slots[i].principal
      t == [s EXCEPT !.slots[i].admitted = p # None, !.active = Enter(@, p)]
  IN  ConnectNext(t, i) \cup CloseWith(t, i, "IO")
      \cup (IF p = None THEN {} ELSE Fail(t, i, "DENIED"))

(* The locked section: what an admission takes from the policy. *)
Select(c) ==
  [c EXCEPT !.destination = policy, !.digest = policy, !.stamp = policy_generation]

(* Mutant: the stamp of the accept is kept. *)
BeginUnstamped(s, i, p) ==
  LET t == [s EXCEPT !.slots[i].principal = p]
  IN  IF p # None /\ MaxActive > 0 /\ s.active[p] >= MaxActive
      THEN Fail(t, i, "DENIED")
      ELSE IF policy = None THEN Fail(t, i, "DENIED")
      ELSE LET u == [t EXCEPT !.slots[i].destination = policy]
           IN  Admitted(u, i) \cup Fail(u, i, "DENIED")

(* Mutant: the ceiling is tested one too late. *)
BeginOneMore(s, i, p) ==
  LET t == [s EXCEPT !.slots[i].principal = p]
  IN  IF p # None /\ MaxActive > 0 /\ s.active[p] > MaxActive
      THEN Fail(t, i, "DENIED")
      ELSE IF policy = None THEN Fail(t, i, "DENIED")
      ELSE LET u == [t EXCEPT !.slots[i] = Select(@)]
           IN  Admitted(u, i) \cup Fail(u, i, "DENIED")

(* egress_connection_begin_request: the active ceiling, the destination, the *)
(* forward request to a destination that wants an SNI, then the admission.   *)
BeginRequest(s, i, p) ==
  LET t == [s EXCEPT !.slots[i].principal = p]
  IN  IF p # None /\ MaxActive > 0 /\ s.active[p] >= MaxActive
      THEN Fail(t, i, "DENIED")
      ELSE IF policy = None THEN Fail(t, i, "DENIED")
      ELSE LET u == [t EXCEPT !.slots[i] = Select(@)]
           IN  Admitted(u, i) \cup Fail(u, i, "DENIED")

FirstOf(indices) == {i \in indices : \A j \in indices : i <= j}

FreeSlot(s) == FirstOf(Slots \ Used(s))

(* A slot taken by accept_all or by an open command: all but the latter      *)
(* stamp it with the current policy.                                         *)
Take(s, i, protocol) ==
  LET c == [Unused EXCEPT !.state = "HANDSHAKE", !.generation = s.next_id + 1,
                          !.protocol = protocol]
  IN  [s EXCEPT !.next_id = @ + 1, !.count = @ + 1, !.live = @ + 1, !.accepted = @ + 1,
                !.slots[i] = IF protocol = "CONNECTOR" THEN c
                             ELSE [c EXCEPT !.digest = policy, !.stamp = policy_generation]]
-----------------------------------------------------------------------------
(* The loop. *)

(* egress_connection_update_watches leaves a client watched, and an upstream *)
(* while it connects or relays.                                              *)
Watched ==
  {TOKEN_LISTENER}
  \cup {connection_token(i, o.slots[i].generation, Client) : i \in Used(o)}
  \cup {connection_token(i, o.slots[i].generation, Upstream) :
          i \in {j \in Used(o) : o.slots[j].state \in {"CONNECTING", "RELAY"}
                                 /\ ~o.slots[j].flush}}

(* maelys_sys_loop_step reports some of them, in an order of its own. *)
Collect ==
  /\ run = "loop" /\ ~stopping /\ events = {}
  /\ events' \in SUBSET Watched \ {{}}
  /\ UNCHANGED <<o, control>>

(* accept_all: one connection, until accept has no more. *)
AcceptFull ==
  /\ run = "loop" /\ TOKEN_LISTENER \in events /\ o.accepted <= MaxArrivals
  /\ o.count >= MaxConnections
  /\ o' = [o EXCEPT !.accepted = @ + 1]
  /\ UNCHANGED <<events, control>>

Accept ==
  /\ run = "loop" /\ TOKEN_LISTENER \in events /\ o.accepted < MaxArrivals
  /\ o.count < MaxConnections
  /\ \E i \in FreeSlot(o) :
       \/ o' = Take(o, i, "NONE")
       \/ MayFail /\ o' \in CloseWith(Take(o, i, "NONE"), i, "MEMORY")
  /\ UNCHANGED <<events, control>>

AcceptNone ==
  /\ run = "loop" /\ TOKEN_LISTENER \in events
  /\ events' = events \ {TOKEN_LISTENER}
  /\ UNCHANGED <<o, control>>

(* A quota used up: the connection closes once its input is drained. *)
Exhausted(s, i) ==
  {[s EXCEPT !.slots[i] = SetResult(@, "DENIED")]} \cup CloseWith(s, i, "DENIED")

(* egress_relay_dispatch for the client: in the handshake it may need more,  *)
(* refuse the credentials or the syntax, or begin a request; once a refusal  *)
(* is queued it is flushed; a relay goes on, ends, or meets its quota.       *)
FromClient(s, i) ==
  LET c == s.slots[i] IN
  CASE c.flush -> {s} \cup Close(s, i)
    [] c.state = "HANDSHAKE" /\ ~c.flush ->
         {s} \cup Fail(s, i, "DENIED") \cup Fail(s, i, "PROTOCOL")
         \cup UNION {BeginRequest([s EXCEPT !.slots[i].protocol = "HTTP"], i, p) :
                       p \in Principals \cup {None}}
    [] OTHER -> {s} \cup Abort(s, i, "IO")
                \cup (IF c.state = "RELAY" THEN Close(s, i) ELSE {})
                \cup (IF c.admitted THEN Exhausted(s, i) ELSE {})

FromUpstream(s, i) ==
  LET c == s.slots[i] IN
  CASE c.flush -> {s}
    [] c.state = "CONNECTING" /\ ~c.flush ->
         Connected(s, i) \cup Fail(s, i, "IO")
    [] OTHER -> FromClient(s, i)

(* A watch that cannot be renewed at the end of the dispatch closes with IO. *)
Unwatchable(s, i) ==
  IF MayFail /\ i \in Used(s) THEN CloseWith(s, i, "IO") ELSE {}

Dispatched(s, i, side) ==
  LET after == IF side = Client THEN FromClient(s, i) ELSE FromUpstream(s, i)
  IN  after \cup UNION {Unwatchable(t, i) : t \in after}

(* Mutant: any event of a used slot is dispatched. *)
CurrentLoose(s, token) ==
  LET d == decode_token(token)
  IN  d.slot < MaxConnections /\ s.slots[d.slot].state # "UNUSED"

(* The filter of the run loop. *)
Current(s, token) ==
  LET d == decode_token(token)
  IN  /\ d.slot < MaxConnections
      /\ s.slots[d.slot].state # "UNUSED"
      /\ s.slots[d.slot].generation = d.generation

Dispatch(token) ==
  /\ run = "loop" /\ token \in events /\ token # TOKEN_LISTENER
  /\ events' = events \ {token}
  /\ LET d == decode_token(token)
     IN  IF Current(o, token) THEN o' \in Dispatched(o, d.slot, d.side) ELSE o' = o
  /\ UNCHANGED control

(* egress_open_commands_process: a session of a connector. *)
OpenSession ==
  /\ Native /\ run = "loop" /\ events = {}
  /\ o.accepted < MaxArrivals /\ o.count < MaxConnections
  /\ \E i \in FreeSlot(o) :
       \/ \E p \in Principals : o' \in BeginRequest(Take(o, i, "CONNECTOR"), i, p)
       \/ MayFail /\ o' \in CloseWith(Take(o, i, "CONNECTOR"), i, "MEMORY")
  /\ UNCHANGED <<events, control>>

(* expire_connections: one connection of those whose deadline has passed,    *)
(* whatever its result was.                                                  *)
Expire ==
  /\ run = "loop" /\ events = {}
  /\ \E i \in Used(o) : o' \in CloseWith(o, i, "TIMEOUT")
  /\ UNCHANGED <<events, control>>

(* Leaving the loop, after a stop or a loop step that failed. *)
Leaving ==
  /\ run = "loop" /\ events = {}
  /\ \/ stopping /\ run' = "CANCELLED"
     \/ MayFail /\ run' = "IO"
  /\ UNCHANGED <<o, events, policy, policy_generation, stopping, published>>

(* The end of run: the slots in order, then running is cleared. *)
EndRun ==
  /\ run \in {"CANCELLED", "IO"}
  /\ IF Used(o) = {} THEN run' = "ended" /\ o' = o
     ELSE /\ \E i \in FirstOf(Used(o)) : o' \in Abort(o, i, run)
          /\ UNCHANGED run
  /\ UNCHANGED <<events, policy, policy_generation, stopping, published>>
-----------------------------------------------------------------------------
(* Other threads. *)

Publish(p) ==
  /\ policy' = p
  /\ policy_generation' = policy_generation + 1
  /\ published' = Append(published, p)

(* maelys_egress_server_replace_policy: the locked section. *)
ReplacePolicy ==
  /\ ~stopping /\ Len(published) <= MaxReplacements
  /\ \E p \in Policies : Publish(p)
  /\ UNCHANGED <<o, events, stopping, run>>

Stop ==
  /\ ~stopping /\ stopping' = TRUE
  /\ UNCHANGED <<o, events, policy, policy_generation, run, published>>

Next ==
  \/ Collect \/ AcceptFull \/ Accept \/ AcceptNone
  \/ \E token \in events : Dispatch(token)
  \/ OpenSession \/ Expire \/ Leaving \/ EndRun \/ ReplacePolicy \/ Stop

Spec == Init /\ [][Next]_vars
-----------------------------------------------------------------------------
(* Properties. *)

Connection ==
  [state : {"UNUSED", "HANDSHAKE", "CONNECTING", "RELAY"}, generation : 0..MaxArrivals,
   protocol : {"NONE", "HTTP", "CONNECTOR"}, principal : Principals \cup {None},
   result : Results, first : Results, flush : BOOLEAN, admitted : BOOLEAN,
   digest : Policies \cup {""}, stamp : 0..MaxReplacements + 1,
   destination : Policies, upstream : Policies]

(* The owner's state is well typed, and a slot in use has a generation of     *)
(* its own.                                                                  *)
TypeOK ==
  /\ o.slots \in [Slots -> Connection]
  /\ \A i, j \in Used(o) : o.slots[i].generation = o.slots[j].generation => i = j
  /\ o.active \in [Principals -> 0..MaxConnections]
  /\ policy \in Policies /\ policy_generation \in 1..MaxReplacements + 1
  /\ stopping \in BOOLEAN /\ run \in {"loop", "CANCELLED", "IO", "ended"}

Holding(p) == {i \in Used(o) : o.slots[i].admitted /\ o.slots[i].principal = p}

(* begin_request raises a principal's active count and close lowers it, with *)
(* every failure in between: the count is always the number of admitted      *)
(* connections, and never above the principal's ceiling.                     *)
ActiveExact ==
  \A p \in Principals :
    /\ o.active[p] = Cardinality(Holding(p))
    /\ MaxActive > 0 => o.active[p] <= MaxActive

(* Every connection that took a slot leaves exactly one receipt, when it      *)
(* leaves the slot, and the counters of close say the same.                  *)
OneReceiptEach ==
  /\ o.count = Cardinality(Used(o)) /\ o.live = o.count
  /\ o.issued = (1..o.next_id) \ {o.slots[i].generation : i \in Used(o)}
  /\ o.receipts = Cardinality(o.issued) /\ o.receipts + o.count = o.next_id

(* The digest and the generation a connection carries are of one policy, and *)
(* the address it was connected to is the one this policy pins: existing     *)
(* streams keep the policy that admitted them, whatever is published since.  *)
StampedByItsPolicy ==
  \A c \in {o.slots[i] : i \in Used(o)} \cup {o.last} :
    c.stamp > 0 =>
      /\ c.stamp \in DOMAIN published /\ c.digest = published[c.stamp]
      /\ c.upstream # None => c.upstream = published[c.stamp]

(* README: receipts contain the policy digest.  Every receipt names a policy *)
(* that was published.                                                       *)
ReceiptNamesPolicy == o.last.stamp \in DOMAIN published

(* A refusal or a failure, once set on a connection, is what its receipt     *)
(* says, unless the deadline or a lost watch overrides it: the end of run    *)
(* does not.                                                                 *)
DecidedResultKept ==
  o.last.first # "OK" => o.last.result \in {o.last.first, "TIMEOUT", "IO"}

(* egress_receipt_emit against /healthz: a server that says it is healthy    *)
(* has every receipt in its journal.                                         *)
Healthz == o.healthy /\ o.audit_failures = 0
HealthyMeansJournalled == Healthz => o.journalled = o.receipts

(* A connection changes in a batch only by an event that was collected for   *)
(* it: the events of a slot closed and taken again in the same batch are     *)
(* passed over.                                                              *)
OwnEventsOnly ==
  [][\A i \in Used(o) :
       events # {} /\ o'.slots[i] # o.slots[i] =>
         \E token \in events \ events' :
           decode_token(token).generation = o.slots[i].generation]_vars
=============================================================================
