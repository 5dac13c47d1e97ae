-------------------------------- MODULE Tls --------------------------------
(***************************************************************************)
(* One connection of a TLS listener (src/server/relay.c over the seam of   *)
(* include/maelys/egress_tls.h): every handshake, read, write and shutdown *)
(* step of the session may want the socket readable or writable, the loop  *)
(* watches the client for what was wanted last, and dispatches what is     *)
(* ready.                                                                  *)
(*                                                                         *)
(* The session is the library's: it decrypts whole records and keeps what  *)
(* the caller's buffer had no room for, and it keeps a record it encrypted *)
(* until the socket takes it.  After WANT_WRITE a library expects the same *)
(* write again; Library tells what it reports when the write is longer.    *)
(* The proxy handshake, quotas and half-closed TCP peers are module        *)
(* Relay's.                                                                *)
(***************************************************************************)
EXTENDS Integers, Sequences, FiniteSets

CONSTANTS
    Capacity,       \* buffer_bytes, both directions
    Window,         \* records the socket takes before the client reads
    RecordSizes,    \* plaintext sizes of the client's records
    MaxRecords,     \* bound: records the client sends
    MaxAnswer,      \* bound: units the upstream sends
    Library         \* "wolfssl" or "mbedtls"

VARIABLES
    c,          \* the connection
    session,    \* the library's session
    net,        \* the client's socket: records both ways
    peers       \* the client and the upstream

vars == <<c, session, net, peers>>

Record(kind, size) == [kind |-> kind, size |-> size]
Writable(n) == n.out < Window
Flushed(n) == [n EXCEPT !.out = @ + 1]
Min2(m, n) == IF m < n THEN m ELSE n

-----------------------------------------------------------------------------
(* The library.  A step of it: what it returns, how many units it moved,   *)
(* and the session and socket it leaves.                                   *)
Step(returns, moved, s, n) == [returns |-> returns, moved |-> moved, s |-> s, n |-> n]

(* handshake: read the client's flight, write two records, read its        *)
(* finish; as far as the socket lets it.                                   *)
Handshake(s, n) ==
    LET Has(kind) == n.in # <<>> /\ Head(n.in).kind = kind
        read == [n EXCEPT !.in = Tail(n.in)]
    IN  CASE s.flight = 0 /\ Has("hello") ->
                IF Writable(n) THEN Step("WANT_WRITE", 0, [s EXCEPT !.flight = 2], Flushed(read))
                ELSE Step("WANT_WRITE", 0, [s EXCEPT !.flight = 1], read)
          [] s.flight \in {1, 2} ->
                IF Writable(n)
                THEN Step(IF s.flight = 1 THEN "WANT_WRITE" ELSE "WANT_READ", 0,
                          [s EXCEPT !.flight = @ + 1], Flushed(n))
                ELSE Step("WANT_WRITE", 0, s, n)
          [] s.flight = 3 /\ Has("finish") -> Step("COMPLETE", 0, [s EXCEPT !.flight = 4], read)
          [] OTHER -> Step("WANT_READ", 0, s, n)

(* read into `available' units: what is decrypted already, or the next     *)
(* record.  A record of kind "ask" makes the session answer first.         *)
Read(s, n, available) ==
    LET Decrypted(d, net1) ==
            LET moved == Min2(d, available)
            IN  Step("COMPLETE", moved, [s EXCEPT !.pending = d - moved, !.owes = FALSE], net1)
        rest == [n EXCEPT !.in = Tail(n.in)]
    IN  IF s.owes
        THEN IF Writable(n) THEN Step("WANT_READ", 0, [s EXCEPT !.owes = FALSE], Flushed(n))
             ELSE Step("WANT_WRITE", 0, s, n)
        ELSE IF s.pending > 0 THEN Decrypted(s.pending, n)
        ELSE IF n.in = <<>> THEN Step("WANT_READ", 0, s, n)
        ELSE CASE Head(n.in).kind = "data" -> Decrypted(Head(n.in).size, rest)
               [] Head(n.in).kind = "close" -> Step("CLOSED", 0, s, rest)
               [] OTHER -> IF Writable(n) THEN Step("WANT_READ", 0, s, Flushed(rest))
                           ELSE Step("WANT_WRITE", 0, [s EXCEPT !.owes = TRUE], rest)

(* write `length' units: a record kept from before is flushed first, and   *)
(* reported as its own length, or as the length asked for now.             *)
Write(s, n, length) ==
    LET kept == IF s.out = 0 THEN length ELSE s.out
    IN  IF ~Writable(n) THEN Step("WANT_WRITE", 0, [s EXCEPT !.out = kept], n)
        ELSE Step("COMPLETE", IF Library = "mbedtls" THEN length ELSE kept,
                  [s EXCEPT !.out = 0, !.encrypted = @ + kept], Flushed(n))

Shutdown(s, n) ==
    IF Writable(n) THEN Step("COMPLETE", 0, s, Flushed(n)) ELSE Step("WANT_WRITE", 0, s, n)

-----------------------------------------------------------------------------

tls_interest(returns) ==
    CASE returns = "WANT_READ" -> "READ" [] returns = "WANT_WRITE" -> "WRITE"
      [] OTHER -> "none"

(* The relay's operations are from [c, s, n] to [c, s, n].                 *)
With(x, step, d) == [c |-> d, s |-> step.s, n |-> step.n]

egress_relay_advance_tls_handshake(x) ==
    LET step == Handshake(x.s, x.n)
        done == step.returns = "COMPLETE"
    IN  With(x, step, [x.c EXCEPT !.tls_handshake_interest = tls_interest(step.returns),
                                  !.state = IF done THEN "relay" ELSE @])

read_from_client(x) ==
    LET available == Capacity - x.c.c2u
        step == Read(x.s, x.n, available)
    IN  IF available = 0 THEN x
        ELSE With(x, step, [x.c EXCEPT !.c2u = @ + step.moved,
                                       !.client_eof = @ \/ step.returns = "CLOSED",
                                       !.tls_read_interest = tls_interest(step.returns)])

write_to_client(x) ==
    LET step == Write(x.s, x.n, x.c.u2c)
    IN  With(x, step, [x.c EXCEPT !.u2c = @ - step.moved,
                                  !.bytes_to_client = @ + step.moved,
                                  !.tls_write_interest = tls_interest(step.returns)])

(* apply_half_closes, on the client's side.                                *)
apply_half_closes(x) ==
    IF ~x.c.upstream_eof \/ x.c.u2c > 0 \/ x.c.client_write_shutdown THEN x
    ELSE LET step == Shutdown(x.s, x.n) IN
         With(x, step, [x.c EXCEPT !.tls_shutdown_interest = tls_interest(step.returns),
                                   !.client_write_shutdown = step.returns = "COMPLETE"])

connection_complete(d) ==
    d.state = "relay" /\ d.client_eof /\ d.upstream_eof /\ d.c2u = 0 /\ d.u2c = 0

Wanted(interest, otherwise) == IF interest = "none" THEN otherwise ELSE interest


(* egress_connection_update_watches, of the client.                        *)
update_watches(d) ==
    [d EXCEPT !.watch =
        IF d.state = "tls_handshake" THEN {d.tls_handshake_interest} \ {"none"}
        ELSE (IF ~d.client_eof /\ d.c2u < Capacity
              THEN {Wanted(d.tls_read_interest, "READ")} ELSE {})
             \cup (IF d.u2c > 0 THEN {Wanted(d.tls_write_interest, "WRITE")} ELSE {})
             \cup ({d.tls_shutdown_interest} \ {"none"})]

(* What every dispatch ends with.                                          *)
Finish(x) ==
    \E y \in {apply_half_closes(x)} :
    /\ c' = IF connection_complete(y.c) THEN [y.c EXCEPT !.state = "closed", !.watch = {}]
            ELSE update_watches(y.c)
    /\ session' = y.s /\ net' = y.n

-----------------------------------------------------------------------------
Now == [c |-> c, s |-> session, n |-> net]

(* What the socket is ready for among what is watched.                     *)
Flags == c.watch \cap ((IF net.in # <<>> THEN {"READ"} ELSE {})
                       \cup (IF Writable(net) THEN {"WRITE"} ELSE {}))

(* egress_relay_dispatch, on the client's side.                            *)
DispatchClient ==
    /\ Flags # {}
    /\ \E x \in {IF c.state = "tls_handshake"
                 THEN IF c.tls_handshake_interest \in Flags
                      THEN egress_relay_advance_tls_handshake(Now) ELSE Now
                 ELSE IF Wanted(c.tls_read_interest, "READ") \in Flags
                 THEN read_from_client(Now) ELSE Now} :
       \E y \in {IF /\ x.c.state # "tls_handshake" /\ x.c.u2c > 0
                    /\ Wanted(x.c.tls_write_interest, "WRITE") \in Flags
                 THEN write_to_client(x) ELSE x} : Finish(y)
    /\ UNCHANGED peers

(* And on the upstream's: bytes or the end of the stream arrive, ...       *)
DispatchUpstreamRead ==
    /\ c.state = "relay" /\ ~c.upstream_eof /\ c.u2c < Capacity
    /\ \/ /\ peers.answer < MaxAnswer
          /\ peers' = [peers EXCEPT !.answer = @ + 1]
          /\ Finish([Now EXCEPT !.c.u2c = @ + 1])
       \/ /\ peers.answer > 0
          /\ UNCHANGED peers
          /\ Finish([Now EXCEPT !.c.upstream_eof = TRUE])

(* ... or it takes what the client sent.                                   *)
DispatchUpstreamWrite ==
    /\ c.state = "relay" /\ c.c2u > 0
    /\ \E n \in 1 .. c.c2u :
          /\ peers' = [peers EXCEPT !.delivered = @ + n]
          /\ Finish([Now EXCEPT !.c.c2u = @ - n])

(* A step of the session returns FAILED: the connection is closed.         *)
SessionFails ==
    /\ c.state # "closed"
    /\ c' = [c EXCEPT !.state = "closed", !.watch = {}]
    /\ UNCHANGED <<session, net, peers>>

-----------------------------------------------------------------------------
(* The client: its flights, records of data, perhaps a record the session  *)
(* must answer, and the end of its stream; it reads what was sent to it.   *)
ClientSends(kind, size) ==
    /\ net' = [net EXCEPT !.in = Append(@, Record(kind, size))]
    /\ UNCHANGED <<c, session>>

ClientSpeaks ==
    \/ /\ peers.client = "hello" /\ ClientSends("hello", 0)
       /\ peers' = [peers EXCEPT !.client = "wait"]
    \/ /\ peers.client = "finish" /\ ClientSends("finish", 0)
       /\ peers' = [peers EXCEPT !.client = "open"]

ClientSendsData ==
    /\ peers.client = "open" /\ peers.records < MaxRecords
    /\ \/ \E size \in RecordSizes :
             /\ ClientSends("data", size)
             /\ peers' = [peers EXCEPT !.records = @ + 1, !.sent = @ + size]
       \/ /\ ClientSends("ask", 0)
          /\ peers' = [peers EXCEPT !.records = @ + 1]

ClientEnds ==
    /\ peers.client = "open" /\ ClientSends("close", 0)
    /\ peers' = [peers EXCEPT !.client = "ended"]

ClientReads ==
    /\ net.out > 0
    /\ net' = [net EXCEPT !.out = @ - 1]
    /\ peers' = [peers EXCEPT !.client = IF @ = "wait" /\ session.flight = 3 /\ net.out = 1
                                            THEN "finish" ELSE @]
    /\ UNCHANGED <<c, session>>

Init ==
    /\ c = [state |-> "tls_handshake", c2u |-> 0, u2c |-> 0, watch |-> {"READ"},
            tls_handshake_interest |-> "READ", tls_read_interest |-> "none",
            tls_write_interest |-> "none", tls_shutdown_interest |-> "none",
            client_eof |-> FALSE, upstream_eof |-> FALSE, client_write_shutdown |-> FALSE,
            bytes_to_client |-> 0]
    /\ session = [flight |-> 0, pending |-> 0, owes |-> FALSE, out |-> 0, encrypted |-> 0]
    /\ net = [in |-> <<>>, out |-> 0]
    /\ peers = [client |-> "hello", records |-> 0, sent |-> 0, answer |-> 0, delivered |-> 0]

Next ==
    \/ DispatchClient \/ DispatchUpstreamRead \/ DispatchUpstreamWrite
    \/ SessionFails \/ ClientSpeaks \/ ClientSendsData \/ ClientEnds \/ ClientReads

Spec == Init /\ [][Next]_vars

(* The loop serves what is ready, the upstream takes what it is given, and *)
(* the client completes its handshake and reads.                           *)
Fairness ==
    /\ WF_vars(DispatchClient) /\ WF_vars(DispatchUpstreamWrite)
    /\ WF_vars(ClientSpeaks) /\ WF_vars(ClientReads)

FairSpec == Spec /\ Fairness

-----------------------------------------------------------------------------
(* The close_notify of the server comes after the last byte of the         *)
(* upstream, never in front of one that is still buffered.                 *)
ShutdownLast ==
    c.client_write_shutdown => c.upstream_eof /\ session.encrypted = peers.answer

(* What leaves the buffer was encrypted, byte for byte: the receipt's      *)
(* count of bytes to the client is what the client can decrypt.            *)
BytesToClientExact == c.bytes_to_client = session.encrypted

(* The handshake ends: whichever way the session waits, the loop watches.  *)
HandshakeEnds == <>(c.state # "tls_handshake")

(* Every byte the client sent in its records reaches the upstream, though  *)
(* the client then waits for an answer and sends nothing more.             *)
AllDelivered == <>[](c.state = "closed" \/ peers.delivered = peers.sent)

(* Every byte the upstream sent leaves for the client, and after it the    *)
(* end of the stream.                                                      *)
AnswersLeave ==
    <>[](c.state = "closed" \/ (c.u2c = 0 /\ (c.upstream_eof => c.client_write_shutdown)))
=============================================================================
