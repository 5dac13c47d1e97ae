-------------------------------- MODULE Http --------------------------------
(***************************************************************************)
(* The HTTP side of a handshake (egress_parse_http_request in              *)
(* src/core/http.c and its callers in src/server/connection.c): a request  *)
(* line, header fields, an empty line and a body arrive in segments of any *)
(* length; once the empty line is in the buffer the request is judged, and *)
(* a forward request is rewritten in place, the bytes after it following.  *)
(*                                                                         *)
(* A header field is its name and what the code tells apart about its      *)
(* value.  Sizes are in units: a line counts for what it occupies in the   *)
(* buffer before and after it is rewritten.                                *)
(***************************************************************************)
EXTENDS Integers, Sequences, SequencesExt

CONSTANTS
    Lines,          \* [method, target]: the request lines tried
    Fields,         \* [name, value]: the header fields tried
    MaxFields,      \* bound: fields of one request
    MaxBody,        \* bound: units the client sends after the header
    HANDSHAKE_MAX,  \* EGRESS_HANDSHAKE_MAX
    Capacity        \* buffer_bytes

VARIABLES
    mode,       \* "password", "unix" or "loopback": how clients are known
    message,    \* [line, fields, body]: what the client sends
    sent,       \* units of it that arrived
    length,     \* client_to_upstream.length
    c           \* the connection: its state, its result and its request

vars == <<mode, message, sent, length, c>>

Nobody == "nobody"
Nothing == [host |-> "", who |-> Nobody, forward |-> <<>>, consumed |-> 0]

(* A request line of three units loses its authority when rewritten; the   *)
(* empty line of one unit grows into Connection: close and an empty line.  *)
LineSize == 3
LineRewritten == 2
EndSize == 1
CloseSize == 4

HeaderSize == LineSize + Len(message.fields) + EndSize
Total == HeaderSize + message.body
ForwardSize(request) ==
    IF message.line.method = "CONNECT" THEN 0
    ELSE LineRewritten + Len(request.forward) - 1 + CloseSize

-----------------------------------------------------------------------------
(* The fields the loop drops from a forward request.                       *)
hop_by_hop(name) == name \in {"Proxy-Connection", "Connection", "Keep-Alive"}

forwarded(name) == name # "Proxy-Authorization" /\ ~hop_by_hop(name)

(* A field for which the loop returns at once.                             *)
malformed(field, lengths) ==
    \/ field.name = "malformed"
    \/ field.name = "Host" /\ field.value = "malformed"
    \/ field.name = "Transfer-Encoding"
    \/ field.name = "Content-Length" /\ (lengths > 0 \/ field.value # "decimal")

(* One turn of the loop over the fields.                                   *)
Field(s, field) ==
    IF s.bad \/ malformed(field, s.lengths) THEN [s EXCEPT !.bad = TRUE]
    ELSE LET matches == mode = "password" /\ field.value = "good" IN
         CASE field.name = "Proxy-Authorization" ->
                [s EXCEPT !.auths = @ + 1,
                          !.authenticated = IF mode = "unix" THEN @ ELSE matches,
                          !.who = IF mode = "unix" THEN @
                                  ELSE IF matches THEN "principal" ELSE Nobody,
                          !.out = IF forwarded(field.name) THEN Append(@, field) ELSE @]
           [] field.name = "Host" ->
                [s EXCEPT !.hosts = @ + 1, !.host = field.value, !.out = Append(@, field)]
           [] field.name = "Content-Length" ->
                [s EXCEPT !.lengths = @ + 1, !.out = Append(@, field)]
           [] OTHER -> [s EXCEPT !.out = IF forwarded(field.name) THEN Append(@, field) ELSE @]

header_fields(fields) ==
    LET start == [bad |-> FALSE, auths |-> 0, authenticated |-> FALSE, hosts |-> 0,
                  host |-> "", lengths |-> 0, out |-> <<>>,
                  who |-> IF mode = "unix" THEN "principal" ELSE Nobody]
        after[i \in 0 .. Len(fields)] ==
            IF i = 0 THEN start ELSE Field(after[i - 1], fields[i])
    IN  after[Len(fields)]

auth_fails(s) ==
    \/ mode = "unix" /\ s.auths # 0
    \/ s.auths > 1
    \/ mode = "password" /\ (s.auths # 1 \/ ~s.authenticated)

host_differs(s, target) == s.hosts # 1 \/ s.host # target

(* The bound, looked at only where the end of the header is not found.     *)
oversized(received) == received < HeaderSize /\ received >= HANDSHAKE_MAX

(* egress_parse_http_request on the units received so far.                 *)
egress_parse_http_request(received) ==
    LET s == header_fields(message.fields)
        target == message.line.target
        Ret(r) == [ret |-> r, request |-> Nothing]
    IN  IF oversized(received) THEN Ret(-1)
        ELSE IF received < HeaderSize THEN Ret(0)
        ELSE IF message.line.method = "malformed" \/ target = "malformed" \/ s.bad THEN Ret(-1)
        ELSE IF auth_fails(s) THEN Ret(-2)
        ELSE IF host_differs(s, target) THEN Ret(-1)
        ELSE [ret |-> 1,
              request |-> [host |-> target, who |-> s.who, consumed |-> HeaderSize,
                           forward |-> IF message.line.method = "CONNECT" THEN <<>>
                                       ELSE Append(s.out, [name |-> "Connection",
                                                           value |-> "close"])]]

-----------------------------------------------------------------------------
Refuse(result) == c' = [c EXCEPT !.state = "refused", !.result = result]

(* The part of egress_connection_begin_request that replaces the header by *)
(* the rewritten one, admission granted; a failure closes the connection.  *)
Rewrite(request, received) ==
    LET extra == received - request.consumed
        rewritten == ForwardSize(request) + extra
    IN  IF rewritten > Capacity
        THEN /\ c' = [c EXCEPT !.state = "closed", !.result = "IO"]
             /\ length' = received
        ELSE /\ c' = [c EXCEPT !.state = "admitted", !.request = request]
             /\ length' = rewritten

(* A segment arrives in the handshake: egress_connection_process_handshake. *)
Receive ==
    /\ c.state = "handshake"
    /\ \E n \in 1 .. Total - sent :
          /\ n <= Capacity - length
          /\ sent' = sent + n
          /\ LET parsed == egress_parse_http_request(sent + n) IN
             CASE parsed.ret = 0 -> length' = length + n /\ UNCHANGED c
               [] parsed.ret = -1 -> length' = length + n /\ Refuse("PROTOCOL")
               [] parsed.ret = -2 -> length' = length + n /\ Refuse("DENIED")
               [] parsed.ret = 1 -> Rewrite(parsed.request, sent + n)
    /\ UNCHANGED <<mode, message>>

Init ==
    /\ mode \in {"password", "unix", "loopback"}
    /\ \E line \in Lines, n \in 0 .. MaxFields, body \in 0 .. MaxBody :
          \E fields \in [1 .. n -> Fields] :
             message = [line |-> line, fields |-> fields, body |-> body]
    /\ sent = 0 /\ length = 0
    /\ c = [state |-> "handshake", result |-> "OK", request |-> Nothing]

Next == Receive

Spec == Init /\ [][Next]_vars

-----------------------------------------------------------------------------
Named(name) == SelectSeq(message.fields, LAMBDA f : f.name = name)

Sound ==
    /\ message.line.method # "malformed" /\ message.line.target # "malformed"
    /\ Named("malformed") = <<>> /\ Named("Transfer-Encoding") = <<>>
    /\ \A i \in DOMAIN Named("Host") : Named("Host")[i].value # "malformed"
    /\ Named("Content-Length") \in {<<>>, <<[name |-> "Content-Length", value |-> "decimal"]>>}

Authorised ==
    LET creds == Named("Proxy-Authorization")
    IN  CASE mode = "unix" -> creds = <<>>
          [] mode = "loopback" -> Len(creds) <= 1
          [] mode = "password" ->
                creds = <<[name |-> "Proxy-Authorization", value |-> "good"]>>

NamesTarget == Named("Host") = <<[name |-> "Host", value |-> message.line.target]>>

(* A header within the bound is admitted exactly when it is well formed,   *)
(* authorised by the one way the endpoint asks for, and names its          *)
(* destination once and alike, and is charged to the principal its         *)
(* endpoint or its credentials name; a defect of form is reported before a *)
(* failed authentication, and that before a Host that differs.             *)
VerdictExact ==
    HeaderSize <= HANDSHAKE_MAX =>
        /\ c.state \in {"admitted", "closed"} => Sound /\ Authorised /\ NamesTarget
        /\ c.state = "admitted" =>
              c.request.who = IF mode = "loopback" THEN Nobody ELSE "principal"
        /\ c.state = "refused" =>
              c.result = IF Sound /\ ~Authorised THEN "DENIED" ELSE "PROTOCOL"
        /\ c.state = "refused" => ~(Sound /\ Authorised /\ NamesTarget)

(* What goes upstream of a forward request is what the client sent, in its *)
(* order, without its credentials and its connection management, with one  *)
(* Host that is the destination admitted and one Connection: close.        *)
RewriteClean ==
    c.state = "admitted" /\ message.line.method # "CONNECT" =>
        LET kept == SelectSeq(message.fields, LAMBDA f :
                        f.name \in {"Host", "Content-Length", "Other"})
        IN  /\ c.request.forward =
                  Append(kept, [name |-> "Connection", value |-> "close"])
            /\ SelectSeq(kept, LAMBDA f : f.name = "Host")
                  = <<[name |-> "Host", value |-> c.request.host]>>

(* Within the bound the verdict does not depend on how much of the body    *)
(* came with the header: it is that of the header alone.                   *)
SegmentsIrrelevant ==
    HeaderSize <= HANDSHAKE_MAX /\ sent >= HeaderSize /\ c.state # "closed" =>
        LET alone == egress_parse_http_request(HeaderSize)
        IN  CASE alone.ret = -1 -> c.state = "refused" /\ c.result = "PROTOCOL"
              [] alone.ret = -2 -> c.state = "refused" /\ c.result = "DENIED"
              [] OTHER -> c.state = "admitted" /\ c.request = alone.request

(* "bounded 16 KiB proxy headers": no longer header is admitted.           *)
HeaderBounded == c.state = "admitted" => HeaderSize <= HANDSHAKE_MAX

(* A request that is admitted is carried on: a body that filled the buffer *)
(* waits for room, it does not end the connection.                         *)
ForwardServed == c.state # "closed"
=============================================================================
