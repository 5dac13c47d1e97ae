------------------------------- MODULE Admin -------------------------------
(***************************************************************************)
(* The health and metrics listener (admin.c) in the owner's loop (server.c): *)
(* a fixed table of slots, one request and one response per connection, and *)
(* a deadline that nothing extends.  A request and a response are counted   *)
(* in units; what /healthz says is in Admission.                            *)
(***************************************************************************)
EXTENDS Tokens, FiniteSets, FiniteSetsExt

CONSTANTS
  Clients,          \* each connects once at most
  Endless,          \* those whose request has no empty line
  None,
  MaxSlots,         \* EGRESS_MAX_ADMIN_CONNECTIONS
  Buffer,           \* sizeof(request) - 1
  RequestLength,    \* units up to and including the empty line
  ResponseLength,
  Timeout,          \* 5000 ms, in ticks
  MayReset          \* clients may reset their connection

VARIABLES
  slots,              \* admin_connections
  next_generation,    \* next_admin_generation
  events,             \* the batch not yet dispatched: tokens and flags
  batch,              \* whether the loop is between a step and its expiry
  client              \* the peers: how far each got

vars == <<slots, next_generation, events, batch, client>>

Slots == 0..MaxSlots - 1

(* `left' is the time to the deadline, `out' what is still to be sent, and   *)
(* `done' history: whether a close came after the whole response.            *)
Closed(generation) ==
  [client |-> None, generation |-> generation, left |-> 0, length |-> 0,
   response |-> FALSE, out |-> 0, watch |-> "none", done |-> FALSE]

Init ==
  /\ slots = [i \in Slots |-> Closed(0)] /\ next_generation = 0
  /\ events = {} /\ batch = FALSE
  /\ client = [c \in Clients |-> [at |-> "away", sent |-> 0, got |-> 0,
                                  fin |-> FALSE, rst |-> FALSE]]

Open == {i \in Slots : slots[i].client # None}
Backlog == {c \in Clients : client[c].at = "backlog"}
Queued(s) == client[s.client].sent - s.length
-----------------------------------------------------------------------------
(* The functions of admin.c, on the record of a slot. *)

admin_close(s) == Closed(s.generation)

(* prepare_admin_response: nothing before the empty line has come. *)
prepare_admin_response(s) ==
  IF s.length >= RequestLength /\ s.client \notin Endless
  THEN [s EXCEPT !.response = TRUE, !.out = ResponseLength] ELSE s

(* The receive of admin_dispatch: all that is queued and fits; a reset, an   *)
(* end of stream or a buffer that is full without a request closes.          *)
Receive(s) ==
  LET available == Buffer - s.length
      amount    == Min({available, Queued(s)})
  IN  IF client[s.client].rst \/ available = 0 THEN admin_close(s)
      ELSE IF amount > 0 THEN prepare_admin_response([s EXCEPT !.length = @ + amount])
      ELSE IF client[s.client].fin THEN admin_close(s) ELSE s

(* The send: some of what is left, or nothing. *)
Send(s) ==
  IF client[s.client].rst THEN {admin_close(s)}
  ELSE {IF n = s.out THEN [admin_close(s) EXCEPT !.done = TRUE]
        ELSE [s EXCEPT !.out = @ - n] : n \in 0..s.out}

(* Only an error, or a hang-up with nothing left to send, closes. *)
HungUp(s, flags) == "ERROR" \in flags \/ ("HUP" \in flags /\ ~s.response)

Rewatched(s) == [s EXCEPT !.watch = IF s.response THEN "WRITE" ELSE "READ"]

admin_dispatch(s, flags) ==
  LET t    == IF ~s.response /\ "READ" \in flags THEN Receive(s) ELSE s
      sent == IF t.response /\ "WRITE" \in flags THEN Send(t) ELSE {t}
  IN  {IF u.client = None THEN u
       ELSE IF HungUp(u, flags) THEN admin_close(u) ELSE Rewatched(u) : u \in sent}
-----------------------------------------------------------------------------
(* The owner's loop. *)

(* What the loop reports for a slot; a client that reads makes room. *)
Reported(i) ==
  LET s == slots[i]
      c == client[s.client]
  IN  {f \in {"READ"} : s.watch = "READ" /\ (Queued(s) > 0 \/ c.fin \/ c.rst)}
      \cup {f \in {"WRITE"} : s.watch = "WRITE" /\ c.got = ResponseLength - s.out}
      \cup {f \in {"HUP"} : s.watch # "none" /\ (c.fin \/ c.rst)}
      \cup {f \in {"ERROR"} : s.watch # "none" /\ c.rst}

Ready ==
  {[token |-> admin_token(i, slots[i].generation), flags |-> Reported(i)] :
     i \in {j \in Open : Reported(j) # {}}}
  \cup (IF Backlog # {} THEN {[token |-> TOKEN_ADMIN_LISTENER, flags |-> {"READ"}]} ELSE {})

(* next_deadline has come. *)
Due == \E i \in Open : slots[i].left = 0

Collect ==
  /\ ~batch /\ (Ready # {} \/ Due)
  /\ events' = Ready /\ batch' = TRUE
  /\ UNCHANGED <<slots, next_generation, client>>

(* egress_admin_accept_all: one client; released when no slot is free. *)
Accept ==
  /\ \E e \in events : e.token = TOKEN_ADMIN_LISTENER
  /\ \E c \in Backlog :
       IF Open = Slots
       THEN /\ client' = [client EXCEPT ![c].at = "refused"]
            /\ UNCHANGED <<slots, next_generation>>
       ELSE LET i == Min(Slots \ Open) IN
            /\ next_generation' = next_generation + 1
            /\ \/ /\ slots' = [slots EXCEPT ![i] =
                       [Closed(next_generation + 1) EXCEPT
                          !.client = c, !.left = Timeout, !.watch = "READ"]]
                  /\ client' = [client EXCEPT ![c].at = "served"]
               \/ /\ MayReset      \* the watch could not be armed
                  /\ slots' = [slots EXCEPT ![i] = Closed(next_generation + 1)]
                  /\ client' = [client EXCEPT ![c].at = "refused"]
  /\ UNCHANGED <<events, batch>>

AcceptNone ==
  /\ Backlog = {}
  /\ \E e \in events : e.token = TOKEN_ADMIN_LISTENER /\ events' = events \ {e}
  /\ UNCHANGED <<slots, next_generation, batch, client>>

(* What the client of a slot learns from a dispatch. *)
Deliver(i, s) ==
  IF s.client # None THEN client
  ELSE [client EXCEPT ![slots[i].client].at = IF s.done THEN "answered" ELSE "gone"]

(* The filter of the loop, and the dispatch. *)
Dispatch(e) ==
  LET d == decode_token(e.token - Flag) IN
  /\ IsAdmin(e.token) /\ events' = events \ {e}
  /\ IF d.slot \in Open /\ slots[d.slot].generation = d.generation
     THEN \E s \in admin_dispatch(slots[d.slot], e.flags) :
            slots' = [slots EXCEPT ![d.slot] = s] /\ client' = Deliver(d.slot, s)
     ELSE UNCHANGED <<slots, client>>
  /\ UNCHANGED <<next_generation, batch>>

(* expire_connections, at the end of the turn. *)
Overdue == {i \in Open : slots[i].left = 0}

Expire ==
  /\ batch /\ events = {} /\ batch' = FALSE
  /\ slots' = [i \in Slots |-> IF i \in Overdue THEN admin_close(slots[i]) ELSE slots[i]]
  /\ client' = [c \in Clients |->
                  IF \E i \in Overdue : slots[i].client = c
                  THEN [client[c] EXCEPT !.at = "expired"] ELSE client[c]]
  /\ UNCHANGED <<next_generation, events>>
-----------------------------------------------------------------------------
(* The clock and the peers. *)

Tick ==
  /\ \E i \in Open : slots[i].left > 0
  /\ slots' = [i \in Slots |-> IF slots[i].left > 0
                               THEN [slots[i] EXCEPT !.left = @ - 1] ELSE slots[i]]
  /\ UNCHANGED <<next_generation, events, batch, client>>

Becomes(c, p) ==
  client' = [client EXCEPT ![c] = p] /\ UNCHANGED <<slots, next_generation, events, batch>>

Connects(c) ==
  client[c].at = "away" /\ Becomes(c, [client[c] EXCEPT !.at = "backlog"])

Writing(c) ==
  client[c].at \in {"backlog", "served"} /\ ~client[c].fin /\ ~client[c].rst

ClientSend(c) ==
  Writing(c) /\ client[c].sent <= Buffer /\ Becomes(c, [client[c] EXCEPT !.sent = @ + 1])

ClientEnd(c) == Writing(c) /\ Becomes(c, [client[c] EXCEPT !.fin = TRUE])

ClientReset(c) ==
  /\ MayReset /\ client[c].at \in {"backlog", "served"} /\ ~client[c].rst
  /\ Becomes(c, [client[c] EXCEPT !.rst = TRUE])

(* A client takes what was sent to it. *)
ClientRead(c) ==
  /\ \E i \in Open : slots[i].client = c /\ slots[i].response
                     /\ client[c].got < ResponseLength - slots[i].out
                     /\ client' = [client EXCEPT ![c].got = ResponseLength - slots[i].out]
  /\ UNCHANGED <<slots, next_generation, events, batch>>

Loop ==
  Collect \/ Accept \/ AcceptNone \/ (\E e \in events : Dispatch(e)) \/ Expire

Next ==
  \/ Loop \/ Tick
  \/ \E c \in Clients :
       Connects(c) \/ ClientSend(c) \/ ClientEnd(c) \/ ClientReset(c) \/ ClientRead(c)

Spec == Init /\ [][Next]_vars

(* The loop runs, and time passes; the clients owe nothing. *)
FairSpec == Spec /\ WF_vars(Loop) /\ WF_vars(Tick)
-----------------------------------------------------------------------------
(* Properties. *)

(* The slots are well typed; a client is in one slot at most, and exactly    *)
(* while it is being served.                                                 *)
TypeOK ==
  /\ slots \in [Slots -> [client : Clients \cup {None}, generation : 0..Cardinality(Clients),
                          left : 0..Timeout, length : 0..Buffer, response : BOOLEAN,
                          out : 0..ResponseLength, watch : {"none", "READ", "WRITE"},
                          done : BOOLEAN]]
  /\ \A c \in Clients :
       Cardinality({i \in Open : slots[i].client = c})
         = IF client[c].at = "served" THEN 1 ELSE 0

(* admin.c: "A client may send its request and half-close; the response      *)
(* still goes out."  A client whose whole request was sent, and which did    *)
(* not reset, is not dropped by a dispatch: it is answered, or its deadline  *)
(* comes first.                                                              *)
HalfClosedAnswered ==
  \A c \in Clients \ Endless :
    client[c].at = "gone" => client[c].rst \/ client[c].sent < RequestLength

(* A client that sends nothing, or reads nothing, or goes on for ever does   *)
(* not keep its slot: the deadline wakes the loop, which takes it back.      *)
SlotComesBack == \A c \in Clients : client[c].at = "served" ~> client[c].at # "served"

(* A client leaves the backlog: served, or released when every slot is busy. *)
BacklogEmpties == \A c \in Clients : client[c].at = "backlog" ~> client[c].at # "backlog"
=============================================================================
