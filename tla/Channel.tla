------------------------------ MODULE Channel ------------------------------
(***************************************************************************)
(* One mediated-connection channel: the thread of src/channel_server.c,    *)
(* the process at the other end of the datagram pair (client/client.c, or  *)
(* any peer that writes datagrams), and the supervisor that destroys it.   *)
(*                                                                         *)
(* A request is its number; a stream carries the number of the request it  *)
(* was opened for, and "holders" says who has a descriptor of it: "srv"    *)
(* (stream_fd), "held" (held_fd), "flight" (SCM_RIGHTS in the response     *)
(* queue) or "client".  What the kernel reports about a peer that went     *)
(* away differs between systems for a datagram pair, so the hang-up event  *)
(* may come or not.                                                        *)
(***************************************************************************)
EXTENDS Integers, Sequences

CONSTANTS MaxRequests,   \* requests the peer sends, a bound of the model
          QueueLength,   \* datagrams the kernel queues in one direction
          MaxFaults,     \* failed waits (poll or clock) of the client library
          Library,       \* the peer is maelys_egress_client_connect
          Hold           \* the server keeps its copy of a stream (__APPLE__)

Request == 1 .. MaxRequests

VARIABLES srv,       \* the channel thread
          wake,      \* channel->wakeup is signalled
          owner,     \* the supervisor: "creating", "owned", "joining", "gone"
          requests,  \* the datagrams queued for the server
          responses, \* the datagrams queued for the client
          taken,     \* how many requests serve_one has read
          answered,  \* the requests whose response was queued, in order
          client,    \* the peer
          holders    \* who holds a descriptor of each request's stream

vars == <<srv, wake, owner, requests, responses, taken, answered, client, holders>>

Results == {"OK", "DENIED", "TIMEOUT", "CANCELLED", "STATE", "MEMORY",
            "ARGUMENT", "PROTOCOL", "IO"}
Kinds == {"good", "short", "version", "descriptor"}

(* What the decoder and the flags of the receive say of a datagram.        *)
Decode(kind) ==
    CASE kind = "good" -> "OK"
      [] kind = "version" -> "UNSUPPORTED"
      [] OTHER -> "MALFORMED"

(* status_of: the connector's result on the wire.                          *)
StatusOf(result) ==
    CASE result \in {"OK", "DENIED", "TIMEOUT"} -> result
      [] result \in {"CANCELLED", "STATE"} -> "CANCELLED"
      [] result = "MEMORY" -> "RESOURCE"
      [] result \in {"ARGUMENT", "PROTOCOL"} -> "MALFORMED"
      [] OTHER -> "INTERNAL"

(* from_status: the wire's status for the caller of client_connect.        *)
FromStatus(status) ==
    CASE status \in {"OK", "DENIED", "TIMEOUT", "CANCELLED", "UNSUPPORTED",
                     "RESOURCE"} -> status
      [] status = "MALFORMED" -> "PROTOCOL"
      [] OTHER -> "INTERNAL"

Statuses == {"OK", "UNSUPPORTED", "MALFORMED"} \cup {StatusOf(r) : r \in Results}
ClientResults == {FromStatus(s) : s \in Statuses} \cup {"IO", "UNANSWERED"}

ServerPcs == {"arming", "step", "events", "open", "send", "exited"}
Events == [token : {"requests"}, read : BOOLEAN, hup : BOOLEAN]
          \cup [token : {"wakeup"}]

Init ==
    /\ srv = [pc |-> "arming", batch |-> <<>>, request |-> 0, status |-> "OK",
              serving |-> TRUE, held |-> 0]
    /\ wake = FALSE
    /\ owner = "creating"
    /\ requests = <<>> /\ responses = <<>>
    /\ taken = 0 /\ answered = <<>>
    /\ client = [pc |-> "idle", sent |-> 0, shut |-> FALSE, closed |-> FALSE,
                 faults |-> 0, last |-> [call |-> 0, result |-> "OK", of |-> 0]]
    /\ holders = [r \in Request |-> {}]

Drop(who, r) == [holders EXCEPT ![r] = @ \ {who}]

-----------------------------------------------------------------------------
(* maelys_egress_channel_create: report_armed, then the wait for it.       *)
Armed(ok) ==
    /\ srv.pc = "arming"
    /\ owner = "creating"
    /\ srv' = [srv EXCEPT !.pc = IF ok THEN "step" ELSE "exited"]
    /\ owner' = IF ok THEN "owned" ELSE "joining"
    /\ UNCHANGED <<wake, requests, responses, taken, answered, client, holders>>

Gone == client.closed \/ client.shut

(* check_held, then maelys_sys_loop_step: the batch of ready events.  The  *)
(* kept copy goes at its bound or once the client uses the stream.         *)
Step ==
    /\ srv.pc = "step"
    /\ \E release \in BOOLEAN, hup \in BOOLEAN, first \in BOOLEAN :
          LET ready == [token |-> "requests", read |-> requests # <<>>, hup |-> hup]
              readable == IF ready.read \/ hup THEN <<ready>> ELSE <<>>
              woken == IF wake THEN <<[token |-> "wakeup"]>> ELSE <<>>
          IN /\ release => srv.held # 0
             /\ hup => Gone
             /\ readable \o woken # <<>> \/ release
             /\ srv' = [srv EXCEPT
                   !.held = IF release THEN 0 ELSE @,
                   !.pc = IF readable \o woken = <<>> THEN "step" ELSE "events",
                   !.batch = IF first THEN woken \o readable ELSE readable \o woken]
             /\ holders' = IF release THEN Drop("held", srv.held) ELSE holders
    /\ UNCHANGED <<wake, owner, requests, responses, taken, answered, client>>

(* The end of one event: on to the next one, to the next step, or, once    *)
(* serving is 0, to the end of channel_main, which releases the kept copy  *)
(* and closes server_fd.                                                   *)
Handled(s) ==
    LET left == Tail(s.batch)
    IN CASE ~s.serving -> [s EXCEPT !.batch = <<>>, !.pc = "exited", !.held = 0]
         [] s.serving /\ left = <<>> -> [s EXCEPT !.batch = <<>>, !.pc = "step"]
         [] OTHER -> [s EXCEPT !.batch = left, !.pc = "events"]

AtEnd(s, h) == IF s.pc = "exited" /\ s.held = 0 /\ srv.held # 0
               THEN [h EXCEPT ![srv.held] = @ \ {"held"}] ELSE h

Wakeup ==
    /\ srv.pc = "events" /\ Head(srv.batch).token = "wakeup"
    /\ srv' = Handled([srv EXCEPT !.serving = FALSE])
    /\ holders' = AtEnd(srv', holders)
    /\ UNCHANGED <<wake, owner, requests, responses, taken, answered, client>>

(* A request event that reads nothing: the hang-up alone, or a datagram    *)
(* another event of this batch has taken.                                  *)
NothingToRead ==
    /\ srv.pc = "events" /\ Head(srv.batch).token = "requests"
    /\ ~Head(srv.batch).read \/ requests = <<>>
    /\ srv' = Handled([srv EXCEPT !.serving = ~Head(srv.batch).hup])
    /\ holders' = AtEnd(srv', holders)
    /\ UNCHANGED <<wake, owner, requests, responses, taken, answered, client>>

(* serve_one up to the open: read a datagram, release the kept copy,       *)
(* decode.                                                                 *)
Receive ==
    /\ srv.pc = "events" /\ Head(srv.batch).token = "requests"
    /\ Head(srv.batch).read /\ requests # <<>>
    /\ LET datagram == Head(requests)
           status == Decode(datagram.kind)
       IN /\ srv' = [srv EXCEPT !.request = datagram.id, !.status = status, !.held = 0,
                                !.pc = IF status = "OK" THEN "open" ELSE "send"]
          /\ holders' = IF srv.held # 0 THEN Drop("held", srv.held) ELSE holders
    /\ requests' = Tail(requests)
    /\ taken' = taken + 1
    /\ UNCHANGED <<wake, owner, responses, answered, client>>

(* session_open returns, whatever happened to the channel meanwhile, and   *)
(* session_take_fd moves the stream out of the session.                    *)
Opened(result) ==
    /\ srv.pc = "open"
    /\ srv' = [srv EXCEPT !.pc = "send", !.status = StatusOf(result)]
    /\ holders' = IF result = "OK" THEN [holders EXCEPT ![srv.request] = {"srv"}] ELSE holders
    /\ UNCHANGED <<wake, owner, requests, responses, taken, answered, client>>

(* The nonblocking send: the kernel takes the datagram while the peer      *)
(* reads and its queue has room.                                           *)
Takes == ~Gone /\ Len(responses) < QueueLength

(* Mutant: the response that cannot be queued does not end the channel.    *)
Undelivered(s) == Handled([s EXCEPT !.serving = ~Head(s.batch).hup])

Refused(s) == Handled([s EXCEPT !.serving = FALSE])

(* The rest of serve_one: send_response; hold_stream or the close of the   *)
(* copy; the release of the session; then the hang-up flag of the event.   *)
Send ==
    /\ srv.pc = "send"
    /\ LET r == srv.request
           carried == "srv" \in holders[r]
           kept == Hold /\ carried
           after == Handled([srv EXCEPT !.serving = ~Head(srv.batch).hup,
                                        !.held = IF kept THEN r ELSE 0])
       IN IF Takes
          THEN /\ srv' = after
               /\ responses' = Append(responses, [of |-> r, status |-> srv.status,
                                                  rights |-> carried])
               /\ answered' = Append(answered, r)
               /\ holders' = [holders EXCEPT ![r] =
                     IF carried THEN {"flight"} \cup (IF after.held = r THEN {"held"} ELSE {})
                     ELSE @]
          ELSE /\ srv' = Refused(srv)
               /\ holders' = Drop("srv", r)
               /\ UNCHANGED <<responses, answered>>
    /\ UNCHANGED <<wake, owner, requests, taken, client>>

-----------------------------------------------------------------------------
(* The supervisor.  egress_channel_stop only signals (the broker's reactor *)
(* calls it); maelys_egress_channel_destroy signals and joins.             *)
Stop ==
    /\ owner = "owned"
    /\ wake' = TRUE
    /\ UNCHANGED <<srv, owner, requests, responses, taken, answered, client, holders>>

Destroy ==
    /\ owner = "owned"
    /\ owner' = "joining"
    /\ wake' = TRUE
    /\ UNCHANGED <<srv, requests, responses, taken, answered, client, holders>>

Joined ==
    /\ owner = "joining"
    /\ srv.pc = "exited"
    /\ owner' = "gone"
    /\ UNCHANGED <<srv, wake, requests, responses, taken, answered, client, holders>>

-----------------------------------------------------------------------------
(* maelys_egress_client_connect: the request is sent; the call waits.  A   *)
(* channel that was shut down, or whose server end is closed, refuses.     *)
Call ==
    /\ Library
    /\ owner # "creating"
    /\ client.pc = "idle" /\ ~client.closed
    /\ client.sent < MaxRequests
    /\ LET n == client.sent + 1
           refused == client.shut \/ srv.pc = "exited"
       IN /\ refused \/ Len(requests) < QueueLength
          /\ IF refused
             THEN /\ client' = [client EXCEPT !.sent = n,
                                   !.last = [call |-> n, result |-> "IO", of |-> 0]]
                  /\ UNCHANGED requests
             ELSE /\ client' = [client EXCEPT !.sent = n, !.pc = "wait"]
                  /\ requests' = Append(requests, [id |-> n, kind |-> "good"])
    /\ UNCHANGED <<srv, wake, owner, responses, taken, answered, holders>>

Returns(result, of, shut) ==
    client' = [client EXCEPT !.pc = "idle", !.shut = @ \/ shut,
                  !.last = [call |-> client.sent, result |-> result, of |-> of]]

(* Mutant: the deadline passes and the channel stays open.                 *)
UnansweredOpen ==
    /\ client.pc = "wait"
    /\ Returns("UNANSWERED", 0, FALSE)
    /\ UNCHANGED <<srv, wake, owner, requests, responses, taken, answered, holders>>

(* await_response returns 0: the deadline passed, the channel is shut.     *)
Unanswered ==
    /\ client.pc = "wait"
    /\ Returns("UNANSWERED", 0, TRUE)
    /\ UNCHANGED <<srv, wake, owner, requests, responses, taken, answered, holders>>

(* await_response returns -1: the clock or poll failed.                    *)
WaitFails ==
    /\ client.pc = "wait"
    /\ client.faults < MaxFaults
    /\ client' = [client EXCEPT !.pc = "idle", !.faults = @ + 1,
                     !.last = [call |-> client.sent, result |-> "IO", of |-> 0]]
    /\ UNCHANGED <<srv, wake, owner, requests, responses, taken, answered, holders>>

(* The answer is read: a descriptor on OK and none otherwise.              *)
Answer ==
    /\ client.pc = "wait"
    /\ responses # <<>>
    /\ LET response == Head(responses)
           result == IF (response.status = "OK") = response.rights
                     THEN FromStatus(response.status) ELSE "PROTOCOL"
       IN /\ Returns(result, response.of, FALSE)
          /\ holders' = [holders EXCEPT ![response.of] =
                IF response.rights
                THEN (@ \ {"flight"}) \cup (IF result = "OK" THEN {"client"} ELSE {})
                ELSE @]
    /\ responses' = Tail(responses)
    /\ UNCHANGED <<srv, wake, owner, requests, taken, answered>>

(* The server end is closed and nothing is queued.                         *)
Closed ==
    /\ client.pc = "wait"
    /\ srv.pc = "exited" /\ responses = <<>>
    /\ Returns("IO", 0, FALSE)
    /\ UNCHANGED <<srv, wake, owner, requests, responses, taken, answered, holders>>

(* A peer that is not the library: datagrams of any kind, pipelined, read  *)
(* or left unread.                                                         *)
RawSend(kind) ==
    /\ ~Library
    /\ owner # "creating" /\ srv.pc # "exited"
    /\ ~Gone
    /\ client.sent < MaxRequests /\ Len(requests) < QueueLength
    /\ client' = [client EXCEPT !.sent = @ + 1]
    /\ requests' = Append(requests, [id |-> client.sent + 1, kind |-> kind])
    /\ UNCHANGED <<srv, wake, owner, responses, taken, answered, holders>>

RawRead ==
    /\ ~Library /\ ~Gone
    /\ responses # <<>>
    /\ responses' = Tail(responses)
    /\ holders' = [holders EXCEPT ![Head(responses).of] =
          IF "flight" \in @ THEN (@ \ {"flight"}) \cup {"client"} ELSE @]
    /\ UNCHANGED <<srv, wake, owner, requests, taken, answered, client>>

(* The peer closes its end: what was in flight to it is closed with it.    *)
Close ==
    /\ client.pc = "idle" /\ ~client.closed
    /\ owner # "creating"
    /\ client' = [client EXCEPT !.closed = TRUE]
    /\ responses' = <<>>
    /\ holders' = [r \in Request |-> holders[r] \ {"flight"}]
    /\ UNCHANGED <<srv, wake, owner, requests, taken, answered>>

CloseStream(r) ==
    /\ "client" \in holders[r]
    /\ holders' = Drop("client", r)
    /\ UNCHANGED <<srv, wake, owner, requests, responses, taken, answered, client>>

ServerNext ==
    \/ \E ok \in BOOLEAN : Armed(ok)
    \/ Step \/ Wakeup \/ NothingToRead \/ Receive \/ Send
    \/ \E result \in Results : Opened(result)

Finished == owner = "gone" /\ UNCHANGED vars

Next ==
    \/ ServerNext
    \/ Stop \/ Destroy \/ Joined
    \/ Call \/ Unanswered \/ WaitFails \/ Answer \/ Closed
    \/ \E kind \in Kinds : RawSend(kind)
    \/ RawRead
    \/ Close
    \/ \E r \in Request : CloseStream(r)
    \/ Finished

Spec == Init /\ [][Next]_vars

(* The thread runs while something is ready, an open ends within its       *)
(* deadline (Connector.tla), and a join returns once the thread has.       *)
FairSpec == Spec /\ WF_vars(ServerNext) /\ WF_vars(Joined)

-----------------------------------------------------------------------------
(* The state is well typed: a batch has the events of two watches at most,  *)
(* and neither direction holds more datagrams than the kernel queues.       *)
TypeOK ==
    /\ srv \in [pc : ServerPcs, batch : Seq(Events), request : 0 .. MaxRequests,
                status : Statuses, serving : BOOLEAN, held : 0 .. MaxRequests]
    /\ Len(srv.batch) <= 2
    /\ wake \in BOOLEAN
    /\ owner \in {"creating", "owned", "joining", "gone"}
    /\ requests \in Seq([id : Request, kind : Kinds]) /\ Len(requests) <= QueueLength
    /\ responses \in Seq([of : Request, status : Statuses, rights : BOOLEAN])
    /\ Len(responses) <= QueueLength
    /\ taken \in 0 .. MaxRequests
    /\ answered \in Seq(Request)
    /\ client \in [pc : {"idle", "wait"}, sent : 0 .. MaxRequests, shut : BOOLEAN,
                   closed : BOOLEAN, faults : 0 .. MaxFaults,
                   last : [call : 0 .. MaxRequests,
                           result : ClientResults \cup {"PROTOCOL"}, of : 0 .. MaxRequests]]
    /\ holders \in [Request -> SUBSET {"srv", "held", "flight", "client"}]

(* "while the channel is open it never leaves a request unanswered": when  *)
(* the thread is between two datagrams, every request it read has had its  *)
(* response queued, each once and in the order the requests were sent.     *)
NeverUnanswered ==
    srv.pc \in {"step", "events"} => answered = [n \in 1 .. taken |-> n]

(* The server end has no descriptor of a stream outside serve_one but the  *)
(* one copy it keeps for the client, and none once the thread has ended:   *)
(* a stream nobody received is closed, so its relay ends.                  *)
ServerKeepsNone ==
    /\ srv.pc \notin {"open", "send"} => \A r \in Request :
          /\ "srv" \notin holders[r]
          /\ "held" \in holders[r] <=> srv.held = r
    /\ srv.pc = "exited" => \A r \in Request : holders[r] \subseteq {"flight", "client"}

(* The result a call of maelys_egress_client_connect returns was produced  *)
(* by the request of that very call, never by an earlier one, also after   *)
(* deadlines that passed with their answers on the way (as long as no wait *)
(* of this channel has failed).                                            *)
AnswersPair ==
    client.faults = 0 /\ client.last.of # 0 => client.last.of = client.last.call

(* protocol/egress-channel-v1.md: "A client sends the next request only    *)
(* after reading the previous response" (of those sent on this channel).   *)
OneInFlight ==
    [][client'.pc = "wait" /\ client.pc = "idle" =>
         requests = <<>> /\ responses = <<>> /\ srv.pc \notin {"open", "send"}]_vars

(* What holds of it: a call puts its request on the channel when nothing of *)
(* an earlier one is queued or being served, unless a wait of this channel  *)
(* has failed.                                                              *)
OneAtATime ==
    [][client.faults = 0 /\ client.pc = "idle" /\ client'.pc = "wait" =>
         requests = <<>> /\ responses = <<>> /\ srv.pc \notin {"open", "send"}]_vars

(* maelys_egress_channel_destroy returns, whatever the peer does: a peer   *)
(* that does not read cannot keep the thread in its send.                  *)
DestroyReturns == owner = "joining" ~> owner = "gone"

(* A request in the queue of a channel nobody stops is answered, or the    *)
(* channel ends where its peer can see it.                                 *)
Answered == \A r \in Request :
    (\E i \in 1 .. Len(requests) : requests[i].id = r) ~>
        (srv.pc = "exited" \/ \E i \in 1 .. Len(answered) : answered[i] = r)
=============================================================================
