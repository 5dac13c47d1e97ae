------------------------------- MODULE Socks -------------------------------
(***************************************************************************)
(* The SOCKS5 handshake of a connection, byte by byte (src/core/socks.c,   *)
(* parse_socks and egress_connection_process_handshake in                  *)
(* src/server/connection.c): the client's bytes arrive in segments of any  *)
(* length, the parser reads whole frames from the front of the buffer,     *)
(* answers each, and hands what follows the request to the upstream.       *)
(*                                                                         *)
(* The client's bytes are the encoding of a greeting, perhaps a password   *)
(* frame, a request and a payload, so that what the parser decodes can be  *)
(* compared with what was encoded.  A name is refused by                   *)
(* egress_canonical_host (module Names) when it holds the byte BadByte.    *)
(***************************************************************************)
EXTENDS Integers, Sequences, SequencesExt

CONSTANTS
    MaxHost, MaxUsername, MaxSecret,    \* EGRESS_MAX_*
    Greetings,      \* sequences of authentication methods
    Passwords,      \* [version, user, secret]; at most one is sent
    Requests,       \* [head, host, port]: head is version, command,
                    \* reserved and address type
    Payload         \* what the client sends after the request

VARIABLES
    mode,       \* "none", "password" or "unix": how clients are known
    script,     \* what the client means to send
    sent,       \* how many bytes of it arrived
    buffer,     \* client_to_upstream, from its offset
    c           \* the connection

vars == <<mode, script, sent, buffer, c>>

BadByte == 95
User == <<7>>
Secret == <<9>>
Nobody == 0

-----------------------------------------------------------------------------
(* The client's side.                                                      *)
Greeting(methods) == <<5, Len(methods)>> \o methods

Password(p) == <<p.version, Len(p.user)>> \o p.user \o <<Len(p.secret)>> \o p.secret

Named(r) == r.head[4] = 3

Request(r) == r.head \o (IF Named(r) THEN <<Len(r.host)>> ELSE <<>>) \o r.host \o r.port

Bytes(s) ==
    Greeting(s.methods)
        \o (IF s.passwords = <<>> THEN <<>> ELSE Password(s.passwords[1]))
        \o Request(s.request) \o Payload

-----------------------------------------------------------------------------
(* egress_parse_socks_frame: what it returns, the bytes consumed, the      *)
(* response, and the phase and principal it leaves.                        *)
Frame(d, ret, consumed, response) ==
    [ret |-> ret, consumed |-> consumed, response |-> response,
     phase |-> d.phase, who |-> d.who, request |-> <<>>]

wanted == IF mode = "password" THEN 2 ELSE 0

offered(b) == \E i \in 1 .. b[2] : b[2 + i] = wanted

(* Phase 0.                                                                *)
parse_greeting(d, b) ==
    IF Len(b) < 2 THEN Frame(d, 0, 0, <<>>)
    ELSE IF b[1] # 5 \/ b[2] = 0 THEN Frame(d, -1, 0, <<>>)
    ELSE IF Len(b) < 2 + b[2] THEN Frame(d, 0, 0, <<>>)
    ELSE LET found == offered(b) IN
         [Frame(d, IF found THEN 1 ELSE -1, 2 + b[2], <<5, IF found THEN wanted ELSE 255>>)
            EXCEPT !.phase = IF ~found THEN 0 ELSE IF wanted = 2 THEN 1 ELSE 2,
                   !.who = IF mode = "unix" THEN 1 ELSE @]

(* egress_credentials_lookup.                                              *)
credentials_lookup(user, secret) ==
    /\ Len(user) <= MaxUsername /\ Len(secret) <= MaxSecret
    /\ user = User /\ secret = Secret

(* Phase 1.                                                                *)
parse_password(d, b) ==
    IF Len(b) < 2 THEN Frame(d, 0, 0, <<>>)
    ELSE IF b[1] # 1 \/ b[2] = 0 THEN Frame(d, -1, 0, <<>>)
    ELSE IF Len(b) < 3 + b[2] THEN Frame(d, 0, 0, <<>>)
    ELSE IF b[3 + b[2]] = 0 THEN Frame(d, -1, 0, <<>>)
    ELSE LET needed == 3 + b[2] + b[3 + b[2]]
             known == credentials_lookup(SubSeq(b, 3, 2 + b[2]), SubSeq(b, 4 + b[2], needed))
         IN  IF Len(b) < needed THEN Frame(d, 0, 0, <<>>)
             ELSE [Frame(d, IF known THEN 1 ELSE -2, needed, <<1, IF known THEN 0 ELSE 1>>)
                    EXCEPT !.phase = IF known THEN 2 ELSE 1, !.who = IF known THEN 1 ELSE @]

name_fits(length) == length >= 1 /\ length <= MaxHost

(* Phase 2.  A numeric address has a fixed length, a name one it states.   *)
parse_request(d, b) ==
    IF Len(b) < 4 THEN Frame(d, 0, 0, <<>>)
    ELSE IF SubSeq(b, 1, 3) # <<5, 1, 0>> \/ b[4] \notin {1, 3, 4} THEN Frame(d, -1, 0, <<>>)
    ELSE IF b[4] = 3 /\ Len(b) < 5 THEN Frame(d, 0, 0, <<>>)
    ELSE LET offset == IF b[4] = 3 THEN 5 ELSE 4
             length == CASE b[4] = 1 -> 4 [] b[4] = 4 -> 16 [] b[4] = 3 -> b[5]
             host == SubSeq(b, offset + 1, offset + length)
             needed == offset + length + 2
             port == b[needed - 1] * 256 + b[needed]
         IN  IF b[4] = 3 /\ ~name_fits(length) THEN Frame(d, -1, 0, <<>>)
             ELSE IF Len(b) < needed THEN Frame(d, 0, 0, <<>>)
             ELSE IF port = 0 \/ (b[4] = 3 /\ \E i \in 1 .. length : host[i] \in {0, BadByte})
             THEN Frame(d, -1, 0, <<>>)
             ELSE [Frame(d, 2, needed, <<>>) EXCEPT !.request = <<host, port, d.who>>]

egress_parse_socks_frame(d, b) ==
    CASE d.phase = 0 -> parse_greeting(d, b)
      [] d.phase = 1 -> parse_password(d, b)
      [] d.phase = 2 -> parse_request(d, b)

-----------------------------------------------------------------------------
(* parse_socks and what process_handshake does with its return: frames are *)
(* read until one is incomplete, refused, or the request, whose following  *)
(* bytes stay in the buffer for the upstream (begin_request).              *)
Apply(s, f) ==
    LET d == s.c
        rest == IF f.ret = 2 \/ f.consumed > 0 THEN SubSeq(s.buffer, f.consumed + 1, Len(s.buffer))
                ELSE s.buffer
    IN  [buffer |-> rest, more |-> f.ret = 1,
         c |-> [d EXCEPT !.phase = f.phase, !.who = f.who, !.answers = @ \o f.response,
                         !.request = f.request,
                         !.result = CASE f.ret = -1 -> "PROTOCOL" [] f.ret = -2 -> "DENIED"
                                      [] OTHER -> "OK",
                         !.close_after_flush = f.ret < 0]]


parse_socks(d, b) ==
    LET step[n \in 0 .. 3] ==
            IF n = 0 THEN [buffer |-> b, c |-> d, more |-> TRUE]
            ELSE LET s == step[n - 1] IN
                 IF s.more THEN Apply(s, egress_parse_socks_frame(s.c, s.buffer)) ELSE s
    IN  step[3]

Fresh == [phase |-> 0, who |-> Nobody, answers |-> <<>>, request |-> <<>>,
          result |-> "OK", close_after_flush |-> FALSE]

-----------------------------------------------------------------------------
Scripts == [methods : Greetings, passwords : {<<>>} \cup {<<p>> : p \in Passwords},
            request : Requests]

Init ==
    /\ mode \in {"none", "password", "unix"}
    /\ script \in Scripts
    /\ sent = 0 /\ buffer = <<>> /\ c = Fresh

(* A segment arrives.  In the handshake it is parsed; afterwards it is     *)
(* relayed; a refused connection no longer reads.                          *)
Receive ==
    /\ ~c.close_after_flush
    /\ \E n \in 1 .. Len(Bytes(script)) - sent :
          LET b == buffer \o SubSeq(Bytes(script), sent + 1, sent + n)
              s == IF c.request = <<>> THEN parse_socks(c, b) ELSE [buffer |-> b, c |-> c]
          IN  /\ sent' = sent + n
              /\ buffer' = s.buffer /\ c' = s.c
    /\ UNCHANGED <<mode, script>>

Next == Receive

Spec == Init /\ [][Next]_vars

-----------------------------------------------------------------------------
(* What the client meant, and what the server should say to it.            *)
Verdict(answers, result, request) ==
    [answers |-> answers, result |-> result, request |-> request]

Asked(before, who) ==
    LET r == script.request
        port == r.port[1] * 256 + r.port[2]
    IN  IF /\ SubSeq(r.head, 1, 3) = <<5, 1, 0>> /\ r.head[4] \in {1, 3, 4}
           /\ Named(r) => Len(r.host) \in 1 .. MaxHost
           /\ Named(r) => \A i \in DOMAIN r.host : r.host[i] \notin {0, BadByte}
           /\ port # 0
        THEN Verdict(before, "OK", <<r.host, port, who>>)
        ELSE Verdict(before, "PROTOCOL", <<>>)

Meant ==
    LET methods == script.methods
        sends == script.passwords # <<>>
        p == script.passwords[1]
    IN  IF methods = <<>> THEN Verdict(<<>>, "PROTOCOL", <<>>)
        ELSE IF wanted \notin ToSet(methods) THEN Verdict(<<5, 255>>, "PROTOCOL", <<>>)
        ELSE IF mode # "password"
        THEN IF sends THEN Verdict(<<5, 0>>, "PROTOCOL", <<>>)
             ELSE Asked(<<5, 0>>, IF mode = "unix" THEN 1 ELSE Nobody)
        ELSE IF ~sends \/ p.version # 1 \/ p.user = <<>> \/ p.secret = <<>>
        THEN Verdict(<<5, 2>>, "PROTOCOL", <<>>)
        ELSE IF p.user # User \/ p.secret # Secret THEN Verdict(<<5, 2, 1, 1>>, "DENIED", <<>>)
        ELSE Asked(<<5, 2, 1, 0>>, 1)

(* When all bytes have arrived, in whatever segments, the answers, the     *)
(* refusal, the destination and the principal are those of the greeting,   *)
(* password and request the client encoded, and what is left for the       *)
(* upstream is exactly its payload.                                        *)
DecodesEncoding ==
    sent = Len(Bytes(script)) =>
        /\ Verdict(c.answers, c.result, c.request) = Meant
        /\ c.request # <<>> => buffer = Payload

(* A refusal comes as soon as it is certain, and is the one the client     *)
(* would have met with all of its bytes.                                   *)
RefusedRightly ==
    c.close_after_flush => Verdict(c.answers, c.result, c.request) = Meant

(* The connection is a function of the bytes received, never of how they   *)
(* were cut into segments: it is what the same bytes in one segment make   *)
(* of it.                                                                  *)
PrefixDetermines ==
    LET once == parse_socks(Fresh, SubSeq(Bytes(script), 1, sent))
    IN  /\ sent > 0 => c = once.c
        /\ sent > 0 /\ ~c.close_after_flush => buffer = once.buffer
=============================================================================
