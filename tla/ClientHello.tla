---------------------------- MODULE ClientHello ----------------------------
(***************************************************************************)
(* The guard of a destination that asks for its TLS name                   *)
(* (egress_tls_client_hello_matches in src/core/clienthello.c, called by   *)
(* egress_connection_enforce_tunnel_identity): nothing of a tunnel goes    *)
(* upstream before a ClientHello, put together from the records received   *)
(* so far, names the destination.                                          *)
(*                                                                         *)
(* The handshake message is its type, the length it declares and its body; *)
(* how many of its bytes each record carries, and how many bytes have      *)
(* arrived, is up to the client and the network.  A record's header is one *)
(* unit here, the message's Head.  The body is what the parser tells apart.*)
(***************************************************************************)
EXTENDS Integers, Sequences, SequencesExt

CONSTANTS
    HANDSHAKE_MAX,  \* EGRESS_HANDSHAKE_MAX
    Capacity,       \* buffer_bytes, of the client's direction
    Bodies,         \* [type, declared, fixed, extensions]: the messages tried
    Records,        \* [type, size]: the records tried
    MaxRecords,     \* bound: records the client sends
    Expected        \* the canonical host of the destination

VARIABLES
    hello,      \* the message
    records,    \* the records sent, [type, size]; the last may run past it
    arrived,    \* units received
    c           \* the connection: "identity", "relay" or "refused"

vars == <<hello, records, arrived, c>>

MessageHead == 2       \* bytes before the body: handshake type and length
RecordHead == 1

-----------------------------------------------------------------------------
(* The names of one server_name extension, [type, name]; a DNS name is     *)
(* compared in its canonical form, which a name that has none never equals.*)
server_name(names) ==
    /\ \A i \in DOMAIN names : names[i].type = 0 => names[i].name = Expected
    /\ Len(SelectSeq(names, LAMBDA n : n.type = 0)) = 1
    /\ Len(names) = 1

(* The loop over the extensions: FALSE as soon as one is refused.          *)
extensions_match(extensions) ==
    LET after[i \in 0 .. Len(extensions)] ==
            IF i = 0 THEN [ok |-> TRUE, seen_sni |-> FALSE]
            ELSE LET s == after[i - 1]
                     e == extensions[i]
                 IN  CASE e.type \in {"ech", "truncated"} -> [s EXCEPT !.ok = FALSE]
                       [] e.type = "server_name" ->
                            [ok |-> s.ok /\ ~s.seen_sni /\ server_name(e.names),
                             seen_sni |-> TRUE]
                       [] OTHER -> s
        end == after[Len(extensions)]
    IN  end.ok /\ end.seen_sni

(* What the loop over the records waits for.                               *)
needed(handshake_length) ==
    IF handshake_length >= MessageHead THEN MessageHead + hello.declared ELSE MessageHead

(* A record that does not fit what is left of the buffer for the message.  *)
overflows(handshake_length, size, length) == size > HANDSHAKE_MAX - handshake_length

(* The records up to the one that completes the message.                   *)
Reassemble(length) ==
    LET step[i \in 0 .. Len(records) + 1] ==
            IF i = 0 THEN [ret |-> 1, offset |-> 0, handshake_length |-> 0]
            ELSE LET s == step[i - 1] IN
                 IF s.ret # 1 \/ s.handshake_length >= needed(s.handshake_length) THEN s
                 ELSE IF i > Len(records) \/ length - s.offset < RecordHead
                 THEN [s EXCEPT !.ret = 0]
                 ELSE LET r == records[i] IN
                 IF r.type # "handshake" \/ r.size = 0 \/ r.size > HANDSHAKE_MAX
                 THEN [s EXCEPT !.ret = -1]
                 ELSE IF length - s.offset - RecordHead < r.size THEN [s EXCEPT !.ret = 0]
                 ELSE IF overflows(s.handshake_length, r.size, length)
                 THEN [s EXCEPT !.ret = -1]
                 ELSE LET h == s.handshake_length + r.size IN
                      [ret |-> IF h >= MessageHead /\ (hello.type # "ClientHello"
                                   \/ hello.declared > HANDSHAKE_MAX - MessageHead) THEN -1 ELSE 1,
                       offset |-> s.offset + RecordHead + r.size, handshake_length |-> h]
    IN  step[Len(records) + 1].ret

(* egress_tls_client_hello_matches on the bytes received.                  *)
client_hello_matches(length) ==
    LET ret == Reassemble(length) IN
    IF ret # 1 THEN ret
    ELSE IF hello.fixed /\ extensions_match(hello.extensions) THEN 1 ELSE -1

-----------------------------------------------------------------------------
Total(rs) == FoldLeft(LAMBDA n, r : n + RecordHead + r.size, 0, rs)

Init ==
    /\ hello \in Bodies
    /\ records \in UNION {[1 .. n -> Records] : n \in 1 .. MaxRecords}
    /\ arrived = 0
    /\ c = "identity"

(* A segment arrives: read_from_client as far as there is room, then       *)
(* egress_connection_enforce_tunnel_identity.                              *)
Receive ==
    /\ c # "refused"
    /\ \E n \in 1 .. Total(records) - arrived :
          /\ c = "identity" => arrived + n <= Capacity
          /\ arrived' = arrived + n
          /\ LET match == client_hello_matches(arrived + n) IN
             c' = IF c # "identity" \/ match = 0 THEN c
                  ELSE IF match < 0 THEN "refused" ELSE "relay"
    /\ UNCHANGED <<hello, records>>

Next == Receive

Spec == Init /\ [][Next]_vars

-----------------------------------------------------------------------------
(* What the destination asks for, of the message alone.                    *)
NamesDestination ==
    LET sni == {i \in DOMAIN hello.extensions : hello.extensions[i].type = "server_name"}
    IN  /\ hello.type = "ClientHello" /\ hello.fixed
        /\ hello.declared + MessageHead <= HANDSHAKE_MAX
        /\ \A i \in DOMAIN hello.extensions :
              hello.extensions[i].type \notin {"ech", "truncated"}
        /\ \E i \in sni : /\ sni = {i}
                           /\ hello.extensions[i].names = <<[type |-> 0, name |-> Expected]>>

(* The bytes of the message carried by the first k records.                *)
Carried(k) == Total(SubSeq(records, 1, k)) - k * RecordHead

(* Records that carry the message, one after the other and within bounds.  *)
CleanRecords(k) ==
    /\ \A i \in 1 .. k : records[i].type = "handshake" /\ records[i].size > 0
    /\ Carried(k) <= HANDSHAKE_MAX

(* A tunnel opens only for a ClientHello that names the destination once   *)
(* and nothing else, whatever records carry it, and only when all of it    *)
(* arrived.                                                                *)
OnlyItsName ==
    c = "relay" =>
        /\ NamesDestination
        /\ \E k \in 1 .. Len(records) :
              /\ CleanRecords(k)
              /\ Carried(k) >= MessageHead + hello.declared
              /\ arrived >= Total(SubSeq(records, 1, k))

(* And it is refused only for a reason: a ClientHello that names the       *)
(* destination gets through however it was cut into records and segments,  *)
(* as long as the records themselves are sound.                            *)
RefusedForCause ==
    c = "refused" /\ NamesDestination =>
        \E k \in 1 .. Len(records) :
            /\ ~CleanRecords(k)
            /\ Carried(k - 1) < MessageHead + hello.declared

(* What follows the ClientHello in the buffer, and what arrives later,     *)
(* never changes the verdict.                                              *)
DecisionFinal ==
    c # "identity" => client_hello_matches(arrived) = (IF c = "relay" THEN 1 ELSE -1)
=============================================================================
