------------------------------- MODULE Broker -------------------------------
(***************************************************************************)
(* The channel broker (src/channel_broker.c): a reactor thread that        *)
(* accepts bootstrap connections and keeps each as the lease of a channel, *)
(* a reaper thread that joins the channels, the owner that destroys the    *)
(* broker, and the processes that connect                                  *)
(* (maelys_egress_client_channel_open, or any writer).                     *)
(*                                                                         *)
(* A channel is named after the client whose request created it.  A        *)
(* request and a response are two chunks each, so that both can be split.  *)
(* kqueue reports the read and the write side of a socket as two events,   *)
(* epoll as one handled in that order: the batch holds them apart.         *)
(***************************************************************************)
EXTENDS Integers, Sequences, FiniteSets, SequencesExt

CONSTANTS Clients, None,
          Capacity,   \* max_clients
          Kinds,      \* what the clients may write
          Faults      \* what else may go wrong: a bound of the model

Slots == 1 .. Capacity
RequestSize == 2
ResponseSize == 2

VARIABLES broker,   \* pc, batch, serial, result and owns_path of the reactor;
                    \* "failed" remembers that it, or create, failed
          slots,    \* the slot table
          queue,    \* reap_head .. reap_tail, slot indexes
          reaper,   \* the reaper thread
          owner,    \* the embedder's handle
          stopping, \* broker->stopping, with its wakeup
          stopReap, \* broker->reaper_stopping
          server,   \* egress_connector_is_running
          file,     \* what is at the socket path
          chan,     \* the channels (Channel.tla), abstracted
          client,   \* the connecting processes
          backlog,  \* the connections the listener has not accepted
          pipe      \* the bootstrap streams

threads == <<reaper, owner, stopping, stopReap, server, file>>
vars == <<broker, slots, queue, chan, client, backlog, pipe, threads>>

Empty == [socket |-> None, phase |-> "REQUEST", status |-> "OK", progress |-> 0,
          channel |-> None, reaped |-> FALSE, token |-> 0, late |-> FALSE]

Init ==
    /\ broker = [pc |-> "create", batch |-> <<>>, serial |-> 0, result |-> "IO",
                 owns |-> FALSE, failed |-> FALSE]
    /\ slots = [i \in Slots |-> Empty]
    /\ queue = <<>>
    /\ reaper = [pc |-> "wait", slot |-> 0]
    /\ owner = "creating"
    /\ stopping = FALSE /\ stopReap = FALSE
    /\ server = TRUE
    /\ file \in IF "path" \in Faults THEN {"none", "other"} ELSE {"none"}
    /\ chan = [c \in Clients |-> [st |-> "none", stop |-> FALSE, busy |-> FALSE]]
    /\ client = [c \in Clients |-> [pc |-> "off", kind |-> "good", wrote |-> 0,
                                    got |-> <<>>, breach |-> FALSE]]
    /\ backlog = <<>>
    /\ pipe = [c \in Clients |-> [unread |-> 0, replies |-> <<>>, open |-> FALSE]]

-----------------------------------------------------------------------------
(* create_listener, and the rest of create: the path must be free; a       *)
(* failure after the bind but before the identity is recorded leaves the   *)
(* file, a later one removes it through destroy.                           *)
Create ==
    /\ broker.pc = "create"
    /\ \/ /\ file # "none" \/ "create" \in Faults
          /\ broker' = [broker EXCEPT !.pc = "done", !.failed = TRUE]
          /\ owner' = "joining"
          /\ UNCHANGED file
       \/ /\ file = "none" /\ "create" \in Faults
          /\ file' = "ours"
          /\ \E owned \in BOOLEAN : broker' = [broker EXCEPT !.pc = "done", !.owns = owned,
                                                           !.failed = TRUE]
          /\ owner' = "joining"
       \/ /\ file = "none"
          /\ file' = "ours"
          /\ broker' = [broker EXCEPT !.pc = "arming", !.owns = TRUE]
          /\ UNCHANGED owner
    /\ UNCHANGED <<slots, queue, reaper, stopping, stopReap, server, chan, client, backlog, pipe>>

(* The head of broker_main: the loop is built and the creator is told.     *)
Arm(ready) ==
    /\ broker.pc = "arming"
    /\ ready \/ "create" \in Faults
    /\ broker' = [broker EXCEPT !.pc = IF ready THEN "loop" ELSE "teardown",
                                !.result = IF ready THEN "OK" ELSE "IO", !.failed = ~ready]
    /\ owner' = IF ready THEN "owned" ELSE "joining"
    /\ stopping' = ~ready
    /\ UNCHANGED <<slots, queue, reaper, stopReap, server, file, chan, client, backlog, pipe>>

-----------------------------------------------------------------------------
(* The reactor's handlers, on the record b of what it changes.             *)
Reactor == [slots |-> slots, queue |-> queue, chan |-> chan, pipe |-> pipe]

(* Mutant: the slot of a channel is free as soon as its lease is closed.   *)
CollectEarly(s) == IF s.socket = None THEN Empty ELSE s

(* collect_slot.                                                           *)
Collect(s) == IF s.socket = None /\ s.channel # None /\ s.reaped THEN Empty ELSE s

Retire(b, i) ==
    LET s == b.slots[i]
    IN [b EXCEPT !.slots[i] = IF s.channel = None THEN Empty ELSE [s EXCEPT !.socket = None],
                 !.pipe = IF s.socket = None THEN @ ELSE [@ EXCEPT ![s.socket].open = FALSE],
                 !.chan = IF s.channel = None THEN @ ELSE [@ EXCEPT ![s.channel].stop = TRUE],
                 !.queue = IF s.channel = None THEN @ ELSE Append(@, i)]

(* drop_slot: nothing for a slot without a socket; the slot is freed, or   *)
(* its channel is stopped and handed to the reaper.                        *)
Drop(b, i) == IF b.slots[i].socket = None THEN b ELSE Retire(b, i)

DecodeRequest(kind) ==
    CASE kind \in {"good", "chatty"} -> "OK"
      [] kind = "version" -> "UNSUPPORTED"
      [] OTHER -> "MALFORMED"

(* answer: an accepted request creates the channel, which may fail.        *)
Answers(b, i, status) ==
    LET c == b.slots[i].socket
        reply(s) == [b.slots[i] EXCEPT !.phase = "RESPONSE", !.status = s, !.progress = 0]
        with(s) == [b EXCEPT !.slots[i] = [reply("OK") EXCEPT !.channel = c],
                             !.chan[c].st = "live"]
    IN IF status # "OK" THEN {[b EXCEPT !.slots[i] = reply(status)]}
       ELSE {with("OK")} \cup {[b EXCEPT !.slots[i] = reply(s)] :
                s \in IF "memory" \in Faults THEN {"RESOURCE", "INTERNAL"} ELSE {}}

(* Positive progress transfers the descriptor once.                        *)
Rights(s) == s.progress = 0 /\ s.status = "OK"

(* serve_slot on a readable socket: the next part of the request, or, once *)
(* there is a response, anything at all, which ends the slot.              *)
ServeRead(b, i) ==
    LET s == b.slots[i]
        c == s.socket
        part == [b EXCEPT !.pipe[c].unread = @ - 1]
    IN CASE s.phase # "REQUEST" ->
               IF b.pipe[c].unread > 0 \/ client[c].pc = "closed" THEN {Drop(b, i)} ELSE {b}
         [] s.phase = "REQUEST" /\ b.pipe[c].unread > 0 /\ client[c].kind = "control" ->
               Answers(part, i, "MALFORMED")
         [] s.phase = "REQUEST" /\ b.pipe[c].unread > 0 /\ client[c].kind # "control" ->
               IF s.progress + 1 = RequestSize
               THEN Answers(part, i, DecodeRequest(client[c].kind))
               ELSE {[part EXCEPT !.slots[i].progress = @ + 1]}
         [] OTHER -> IF client[c].pc = "closed" THEN {Drop(b, i)} ELSE {b}

(* serve_slot on a writable one: the next part of the response; the        *)
(* complete OK response starts the lease, any other one ends the slot.     *)
ServeWrite(b, i) ==
    LET s == b.slots[i]
        c == s.socket
        sent == [b EXCEPT !.slots[i].progress = @ + 1,
                    !.pipe[c].replies = Append(@, [status |-> s.status, rights |-> Rights(s)])]
    IN CASE s.phase # "RESPONSE" -> b
         [] s.phase = "RESPONSE" /\ client[c].pc = "closed" -> Drop(b, i)
         [] s.phase = "RESPONSE" /\ client[c].pc # "closed" /\ s.progress + 1 < ResponseSize -> sent
         [] OTHER -> IF s.status = "OK" THEN [sent EXCEPT !.slots[i].phase = "LEASE",
                                                        !.slots[i].late = FALSE]
                     ELSE Drop(sent, i)

FreeSlots(b) ==
    {i \in Slots : LET s == Collect(b.slots[i]) IN s.socket = None /\ s.channel = None}

Taken(b, c, i) ==
    [b EXCEPT !.slots = [j \in Slots |->
        CASE j < i -> Collect(b.slots[j])
          [] j = i -> [Empty EXCEPT !.socket = c, !.token = broker.serial + 1]
          [] j > i -> b.slots[j]]]

(* accept_one: the first free slot, collecting those before it, or one     *)
(* best-effort BUSY and a close.  A slot that cannot be watched is dropped *)
(* at once.                                                                *)
Accept(b, c) ==
    IF FreeSlots(b) = {}
    THEN LET all == [b EXCEPT !.slots = [i \in Slots |-> Collect(b.slots[i])]]
             busy == [status |-> "BUSY", rights |-> FALSE]
         IN {[all EXCEPT !.pipe[c] = [@ EXCEPT !.replies = sent, !.open = FALSE]] :
                sent \in {<<busy, busy>>} \cup (IF "memory" \in Faults THEN {<<>>} ELSE {})}
    ELSE LET i == Min(FreeSlots(b))
         IN {Taken(b, c, i)} \cup (IF "memory" \in Faults THEN {Drop(Taken(b, c, i), i)} ELSE {})

Becomes(b) ==
    /\ slots' = b.slots /\ queue' = b.queue /\ chan' = b.chan /\ pipe' = b.pipe

-----------------------------------------------------------------------------
(* broker_main, the top of the loop: collect every slot, drop the          *)
(* handshakes whose deadline has passed.                                   *)
DropAll(b, which) == FoldSet(LAMBDA i, acc : Drop(acc, i), b, which)

Expired(b) == {i \in Slots : b.slots[i].phase # "LEASE" /\ b.slots[i].late}

(* What is ready: a socket with bytes or a closed peer reads; while there  *)
(* is a response to send, it also writes.                                  *)
Readable(b, c) == b.pipe[c].unread > 0 \/ client[c].pc = "closed"

Ready(b) ==
    LET served == {i \in Slots : b.slots[i].socket # None}
        event(i, way) == [on |-> "slot", slot |-> i, token |-> b.slots[i].token, way |-> way]
    IN (IF stopping THEN {[on |-> "wake"]} ELSE {})
       \cup (IF backlog # <<>> THEN {[on |-> "listener"]} ELSE {})
       \cup {event(i, "read") : i \in {j \in served : Readable(b, b.slots[j].socket)}}
       \cup {event(i, "write") : i \in {j \in served : b.slots[j].phase = "RESPONSE"}}

(* Mutant: the scan leaves the finished channels in their slots.           *)
ScannedKeeps == DropAll(Reactor, Expired(Reactor))

Scanned ==
    LET collected == [Reactor EXCEPT !.slots = [i \in Slots |-> Collect(slots[i])]]
    IN DropAll(collected, Expired(collected))

LoopEnds ==
    /\ broker.pc = "loop" /\ (stopping \/ ~server)
    /\ broker' = [broker EXCEPT !.pc = "teardown"]
    /\ UNCHANGED <<slots, queue, chan, client, backlog, pipe, threads>>

(* One turn of the loop up to maelys_sys_loop_step: the scan, then the     *)
(* ready events in some order, none at the deadline, or a failed loop.     *)
Turn ==
    /\ broker.pc = "loop" /\ ~stopping /\ server
    /\ Becomes(Scanned)
    /\ \/ \E batch \in SetToSeqs(Ready(Scanned)) :
             broker' = [broker EXCEPT !.pc = IF batch = <<>> THEN "loop" ELSE "events",
                                      !.batch = batch]
       \/ /\ "loop" \in Faults
          /\ broker' = [broker EXCEPT !.pc = "teardown", !.result = "IO", !.failed = TRUE]
    /\ UNCHANGED <<client, backlog, threads>>

Handled == [broker EXCEPT !.batch = Tail(@),
                          !.pc = IF Len(broker.batch) = 1 THEN "loop" ELSE @]

(* The flag, set by destroy or by the wakeup event, ends the batch.        *)
Interrupted ==
    /\ broker.pc = "events" /\ (stopping \/ Head(broker.batch).on = "wake")
    /\ stopping' = TRUE
    /\ broker' = [broker EXCEPT !.pc = "loop", !.batch = <<>>]
    /\ UNCHANGED <<slots, queue, reaper, owner, stopReap, server, file, chan, client,
                   backlog, pipe>>

(* A listener event: a changed parent directory ends the reactor.          *)
Listener ==
    /\ broker.pc = "events" /\ ~stopping /\ Head(broker.batch).on = "listener"
    /\ \/ /\ "path" \in Faults
          /\ broker' = [broker EXCEPT !.pc = "teardown", !.batch = <<>>, !.result = "IO",
                                      !.failed = TRUE]
          /\ UNCHANGED <<slots, queue, chan, backlog, pipe>>
       \/ /\ backlog # <<>>
          /\ \E b \in Accept(Reactor, Head(backlog)) : Becomes(b)
          /\ backlog' = Tail(backlog)
          /\ broker' = [Handled EXCEPT !.serial = IF FreeSlots(Reactor) = {} THEN @ ELSE @ + 1]
    /\ UNCHANGED <<client, threads>>

(* A slot event: ignored when the slot was dropped or reused since the     *)
(* batch was read; a passed deadline or a failed handler drops the slot.   *)
SlotEvent ==
    /\ broker.pc = "events" /\ ~stopping /\ Head(broker.batch).on = "slot"
    /\ LET e == Head(broker.batch)
           s == slots[e.slot]
       IN IF s.socket = None \/ s.token # e.token
          THEN UNCHANGED <<slots, queue, chan, pipe>>
          ELSE IF s.phase # "LEASE" /\ s.late
          THEN Becomes(Drop(Reactor, e.slot))
          ELSE IF e.way = "read"
          THEN \E b \in ServeRead(Reactor, e.slot) : Becomes(b)
          ELSE Becomes(ServeWrite(Reactor, e.slot))
    /\ broker' = Handled
    /\ UNCHANGED <<client, backlog, threads>>

(* remove_path: only the socket this broker bound, and only once.          *)
Removes(b) == b.owns /\ file = "ours"

RemovePath(b) == [b EXCEPT !.owns = FALSE,
                           !.result = IF b.owns /\ file # "ours" THEN "IO" ELSE @]

(* The end of broker_main: every slot dropped, the listener released, the  *)
(* path removed, the reaper told that no more will come.                   *)
Teardown ==
    /\ broker.pc = "teardown"
    /\ LET b == DropAll(Reactor, Slots)
           left == {backlog[k] : k \in DOMAIN backlog}
       IN /\ slots' = b.slots /\ queue' = b.queue /\ chan' = b.chan
          /\ pipe' = [c \in Clients |-> IF c \in left THEN [b.pipe[c] EXCEPT !.open = FALSE]
                                        ELSE b.pipe[c]]
    /\ backlog' = <<>>
    /\ broker' = [RemovePath(broker) EXCEPT !.pc = "done", !.batch = <<>>]
    /\ file' = IF Removes(broker) THEN "none" ELSE file
    /\ stopReap' = TRUE
    /\ UNCHANGED <<reaper, owner, stopping, server, client>>

-----------------------------------------------------------------------------
(* reaper_main: a slot is taken off the queue under the lock; the destroy  *)
(* of its channel, which signals it once more, joins outside.              *)
Pop ==
    /\ reaper.pc = "wait" /\ queue # <<>>
    /\ reaper' = [pc |-> "join", slot |-> Head(queue)]
    /\ queue' = Tail(queue)
    /\ chan' = [chan EXCEPT ![slots[Head(queue)].channel].stop = TRUE]
    /\ UNCHANGED <<broker, slots, owner, stopping, stopReap, server, file, client,
                   backlog, pipe>>

Joining == slots[reaper.slot].channel

JoinChannel ==
    /\ reaper.pc = "join"
    /\ chan[Joining].st = "exited"
    /\ chan' = [chan EXCEPT ![Joining].st = "joined"]
    /\ reaper' = [reaper EXCEPT !.pc = "store"]
    /\ UNCHANGED <<broker, slots, queue, owner, stopping, stopReap, server, file, client,
                   backlog, pipe>>

StoreReaped ==
    /\ reaper.pc = "store"
    /\ slots' = [slots EXCEPT ![reaper.slot].reaped = TRUE]
    /\ reaper' = [pc |-> "wait", slot |-> 0]
    /\ UNCHANGED <<broker, queue, owner, stopping, stopReap, server, file, chan, client,
                   backlog, pipe>>

ReaperEnds ==
    /\ reaper.pc = "wait" /\ queue = <<>> /\ stopReap
    /\ reaper' = [reaper EXCEPT !.pc = "done"]
    /\ UNCHANGED <<broker, slots, queue, owner, stopping, stopReap, server, file, chan,
                   client, backlog, pipe>>

(* maelys_egress_channel_broker_destroy: flag and wakeup; join the         *)
(* reactor; stop and join the reaper; remove the path.                     *)
Destroy ==
    /\ owner = "owned"
    /\ owner' = "joining"
    /\ stopping' = TRUE
    /\ UNCHANGED <<broker, slots, queue, reaper, stopReap, server, file, chan, client,
                   backlog, pipe>>

DestroyStopsReaper ==
    /\ owner = "joining" /\ broker.pc = "done"
    /\ owner' = "reaping"
    /\ stopReap' = TRUE
    /\ UNCHANGED <<broker, slots, queue, reaper, stopping, server, file, chan, client,
                   backlog, pipe>>

DestroyReturns ==
    /\ owner = "reaping" /\ reaper.pc = "done"
    /\ owner' = "gone"
    /\ broker' = RemovePath(broker)
    /\ file' = IF Removes(broker) THEN "none" ELSE file
    /\ UNCHANGED <<slots, queue, reaper, stopping, stopReap, server, chan, client,
                   backlog, pipe>>

-----------------------------------------------------------------------------
(* The environment: the server stops, time passes, the path is replaced.   *)
ServerStops ==
    /\ server /\ "server" \in Faults
    /\ server' = FALSE
    /\ UNCHANGED <<broker, slots, queue, reaper, owner, stopping, stopReap, file, chan,
                   client, backlog, pipe>>

Late(i) ==
    /\ slots[i].socket # None /\ slots[i].phase # "LEASE" /\ ~slots[i].late
    /\ slots' = [slots EXCEPT ![i].late = TRUE]
    /\ UNCHANGED <<broker, queue, chan, client, backlog, pipe, threads>>

Replace ==
    /\ file = "ours" /\ owner = "owned" /\ "path" \in Faults
    /\ file' = "other"
    /\ UNCHANGED <<broker, slots, queue, reaper, owner, stopping, stopReap, server, chan,
                   client, backlog, pipe>>

(* A channel (Channel.tla): an open occupies its thread and ends within    *)
(* its deadline; the thread ends once it is stopped, or by itself.         *)
Use(c) ==
    /\ client[c].pc = "leased" /\ chan[c].st = "live" /\ ~chan[c].busy /\ ~chan[c].stop
    /\ chan' = [chan EXCEPT ![c].busy = TRUE]
    /\ UNCHANGED <<broker, slots, queue, client, backlog, pipe, threads>>

OpenEnds(c) ==
    /\ chan[c].busy
    /\ chan' = [chan EXCEPT ![c].busy = FALSE]
    /\ UNCHANGED <<broker, slots, queue, client, backlog, pipe, threads>>

ChannelExits(c) ==
    /\ chan[c].st = "live" /\ ~chan[c].busy
    /\ chan[c].stop \/ client[c].pc = "closed"
    /\ chan' = [chan EXCEPT ![c].st = "exited"]
    /\ UNCHANGED <<broker, slots, queue, client, backlog, pipe, threads>>

-----------------------------------------------------------------------------
(* maelys_egress_client_channel_open, or a process that writes what its    *)
(* kind says; it may close at any point (its deadline, or a crash).        *)
Connect(c, kind) ==
    /\ client[c].pc = "off" /\ file = "ours" /\ broker.pc \notin {"create", "done"}
    /\ client' = [client EXCEPT ![c].pc = "write", ![c].kind = kind]
    /\ backlog' = Append(backlog, c)
    /\ pipe' = [pipe EXCEPT ![c].open = TRUE]
    /\ UNCHANGED <<broker, slots, queue, chan, threads>>

(* One part of the request, or the closed stream, which still may hold a   *)
(* refusal to read.                                                        *)
Write(c) ==
    /\ client[c].pc = "write"
    /\ IF pipe[c].open
       THEN /\ pipe' = [pipe EXCEPT ![c].unread = @ + 1]
            /\ client' = [client EXCEPT ![c].wrote = @ + 1,
                             ![c].pc = IF client[c].wrote + 1 = RequestSize THEN "read" ELSE @]
       ELSE /\ client' = [client EXCEPT ![c].pc = "read"]
            /\ UNCHANGED pipe
    /\ UNCHANGED <<broker, slots, queue, chan, backlog, threads>>

(* A peer that writes after its request.                                   *)
Chatter(c) ==
    /\ client[c].kind = "chatty" /\ client[c].pc \in {"read", "leased"}
    /\ pipe[c].open /\ client[c].wrote = RequestSize
    /\ pipe' = [pipe EXCEPT ![c].unread = @ + 1]
    /\ client' = [client EXCEPT ![c].wrote = @ + 1]
    /\ UNCHANGED <<broker, slots, queue, chan, backlog, threads>>

(* The failed open closes what it received; "breach" is ERR_PROTOCOL.      *)
Fails(c, breach) == [client EXCEPT ![c] =
    [@ EXCEPT !.pc = "closed", !.breach = breach, !.wrote = 0, !.got = <<>>]]

(* The frame is complete: what it says, and whether the rights fit it; the *)
(* tail must be empty and the stream open.                                 *)
Verdict(c, frame) ==
    LET status == frame[1].status
        complete == client[c].wrote >= RequestSize
    IN IF (status = "OK" /\ ~complete) \/ (status = "OK") # frame[1].rights
       THEN Fails(c, TRUE)
       ELSE IF status # "OK" THEN Fails(c, status = "MALFORMED")
       ELSE IF ~pipe[c].open THEN Fails(c, FALSE)
       ELSE [client EXCEPT ![c].pc = "leased", ![c].got = <<>>]

Read(c) ==
    /\ client[c].pc = "read"
    /\ IF pipe[c].replies # <<>>
       THEN LET chunk == Head(pipe[c].replies)
                frame == Append(client[c].got, chunk)
            IN /\ pipe' = [pipe EXCEPT ![c].replies = Tail(@)]
               /\ client' = IF chunk.rights /\ client[c].got # <<>> THEN Fails(c, TRUE)
                            ELSE IF Len(frame) = ResponseSize THEN Verdict(c, frame)
                            ELSE [client EXCEPT ![c].got = frame]
       ELSE /\ ~pipe[c].open
            /\ client' = Fails(c, FALSE)
            /\ UNCHANGED pipe
    /\ UNCHANGED <<broker, slots, queue, chan, backlog, threads>>

Leave(c) ==
    /\ client[c].pc \in {"write", "read", "leased"}
    /\ client' = Fails(c, FALSE)
    /\ pipe' = [pipe EXCEPT ![c].replies = <<>>]
    /\ UNCHANGED <<broker, slots, queue, chan, backlog, threads>>

-----------------------------------------------------------------------------
ReactorNext ==
    \/ \E ready \in BOOLEAN : Arm(ready)
    \/ LoopEnds \/ Turn \/ Interrupted \/ Listener \/ SlotEvent \/ Teardown
ReaperNext == Pop \/ JoinChannel \/ StoreReaped \/ ReaperEnds
OwnerNext == DestroyStopsReaper \/ DestroyReturns
ChannelNext(c) == OpenEnds(c) \/ ChannelExits(c)
Finished == owner = "gone" /\ UNCHANGED vars

Next ==
    \/ Create \/ ReactorNext \/ ReaperNext \/ Destroy \/ OwnerNext
    \/ ServerStops \/ Replace
    \/ \E i \in Slots : Late(i)
    \/ \E c \in Clients :
          \/ Use(c) \/ ChannelNext(c)
          \/ \E kind \in Kinds : Connect(c, kind)
          \/ Write(c) \/ Chatter(c) \/ Read(c) \/ Leave(c)
    \/ Finished

Spec == Init /\ [][Next]_vars

(* The reactor, the reaper and the joins run; deadlines pass.              *)
Threads ==
    /\ WF_vars(ReactorNext) /\ WF_vars(ReaperNext) /\ WF_vars(OwnerNext)
    /\ \A i \in Slots : WF_vars(Late(i))

(* A pending open may never end, ...                                       *)
Fairness == Threads /\ \A c \in Clients : WF_vars(ChannelExits(c))
FairSpec == Spec /\ Fairness
(* ... or end within its own deadline.                                     *)
OpensEnd == \A c \in Clients : WF_vars(ChannelNext(c))

-----------------------------------------------------------------------------
Statuses == {"OK", "BUSY", "MALFORMED", "UNSUPPORTED", "RESOURCE", "INTERNAL"}

TypeOK ==
    /\ broker.pc \in {"create", "arming", "loop", "events", "teardown", "done"}
    /\ broker.serial \in 0 .. Cardinality(Clients)
    /\ broker.result \in {"OK", "IO"} /\ broker.owns \in BOOLEAN
    /\ slots \in [Slots -> [socket : Clients \cup {None}, phase : {"REQUEST", "RESPONSE", "LEASE"},
                            status : Statuses, progress : 0 .. ResponseSize,
                            channel : Clients \cup {None}, reaped : BOOLEAN,
                            token : 0 .. Cardinality(Clients), late : BOOLEAN]]
    /\ queue \in BoundedSeq(Slots, Capacity)
    /\ reaper \in [pc : {"wait", "join", "store", "done"}, slot : 0 .. Capacity]
    /\ chan \in [Clients -> [st : {"none", "live", "exited", "joined"}, stop : BOOLEAN,
                             busy : BOOLEAN]]

(* egress.h: max_clients bounds "pending handshakes, active leases AND     *)
(* channels awaiting destruction", and "A slot is reusable only after its  *)
(* channel is joined": a channel that exists occupies exactly one slot.    *)
ChannelsOccupySlots ==
    \A c \in Clients : chan[c].st \in {"live", "exited"} =>
        Cardinality({i \in Slots : slots[i].channel = c}) = 1

(* The reaper destroys each channel once: a slot waits in the queue (or in *)
(* the reaper's hands) once, without a socket, and its channel is stopped  *)
(* and not yet joined, so no thread can be left behind by a missed stop.   *)
ReapedOnce ==
    LET held == IF reaper.pc = "join" THEN <<reaper.slot>> \o queue ELSE queue
    IN /\ IsInjective(held)
       /\ \A k \in DOMAIN held :
             LET s == slots[held[k]]
             IN /\ s.socket = None /\ s.channel # None /\ ~s.reaped
                /\ chan[s.channel].stop /\ chan[s.channel].st # "joined"

(* The two ends agree on the bootstrap protocol: a client that follows it  *)
(* never sees a breach, and a client told OK has the descriptor, with the  *)
(* first byte, of the channel its own lease keeps.                         *)
ClientsAgree ==
    \A c \in Clients :
        /\ client[c].kind = "good" => ~client[c].breach
        /\ client[c].pc = "leased" /\ pipe[c].open =>
              \E i \in Slots : slots[i].socket = c /\ slots[i].channel = c
                               /\ slots[i].phase = "LEASE" /\ ~chan[c].stop

(* Destroy "reports a replaced/missing socket path": it returns OK exactly *)
(* when nothing failed and the broker's own socket was removed, although   *)
(* both the reactor's end and destroy try to remove it.                    *)
HonestResult ==
    owner = "gone" => (broker.result = "OK" <=> file = "none" /\ ~broker.failed)

(* Nothing is left when destroy has returned: every channel it created is  *)
(* joined and every bootstrap stream is closed.                            *)
AllJoined ==
    owner = "gone" => \A c \in Clients : chan[c].st \in {"none", "joined"} /\ ~pipe[c].open

(* "A pending open may delay cleanup, but not other handshakes": an        *)
(* accepted or waiting connection gets its lease or is closed, even when   *)
(* the open of another channel never ends.                                 *)
HandshakesEnd ==
    \A c \in Clients : pipe[c].open ~>
        (~pipe[c].open \/ \E i \in Slots : slots[i].socket = c /\ slots[i].phase = "LEASE")

(* maelys_egress_channel_broker_destroy returns, when the opens end.       *)
DestroyEnds == OpensEnd => (owner = "joining" ~> owner = "gone")

(* A slot whose lease ended is free again, or the reactor has ended, when  *)
(* the opens end.                                                          *)
SlotsComeBack == OpensEnd =>
    \A i \in Slots : (slots[i].socket = None /\ slots[i].channel # None) ~>
        (slots[i].channel = None \/ broker.pc = "done")

(* Nobody waits for the broker for ever: the three above.                  *)
BrokerProgress == HandshakesEnd /\ DestroyEnds /\ SlotsComeBack
=============================================================================
