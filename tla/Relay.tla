------------------------------- MODULE Relay -------------------------------
(***************************************************************************)
(* One proxied connection from accept to close: handshake, pinned connect,  *)
(* identity guard, relay with backpressure and half-closes, byte quotas     *)
(* (connection.c, relay.c, quota.c), against two peers and their sockets.   *)
(*                                                                         *)
(* The owner thread collects the events of its level-triggered loop, then   *)
(* dispatches them one by one; a dispatch is one step, as nothing else      *)
(* touches the connection meanwhile.  Each function of the source is an     *)
(* operator from the connection record to the set of records it can leave:  *)
(* the choices are what the kernel, the parser and the peers decide.        *)
(*                                                                         *)
(* Bytes are counted, not stored: a buffer is its length.  One unit of      *)
(* client input stands for one frame of a handshake, one unit of output for *)
(* one reply.  The client side is plaintext (config.tls_provider is NULL).  *)
(***************************************************************************)
EXTENDS Quota, FiniteSetsExt

CONSTANTS
  Capacity,       \* config.buffer_bytes
  Window,         \* what a kernel socket buffer holds
  ClientBytes,    \* bound: units the client may send, handshake included
  UpstreamBytes,  \* bound: units the upstream may send
  Addresses,      \* destination->address_count
  Protocols,      \* what clients speak
  Sni,            \* values require_tls_sni may have
  MaxStream,      \* principal->max_bytes_per_connection
  MaxTotal,       \* principal->max_bytes_total
  Prompt,         \* the peers act well within the idle timeout
  MayReset,       \* peers may reset their connection
  MayFail         \* allocations and watches may fail, the server may stop

ASSUME BoundsAssumption ==
  /\ Capacity \in Nat /\ Capacity >= 2 /\ Window \in Nat \ {0}
  /\ ClientBytes \in Nat /\ UpstreamBytes \in Nat /\ Addresses \in Nat
  /\ "SOCKS5" \in Protocols => Capacity >= 3
  /\ ClientBytes + UpstreamBytes < U64Max
ASSUME ConfigAssumption ==
  /\ Protocols \subseteq {"HTTP_CONNECT", "HTTP_FORWARD", "SOCKS5", "CONNECTOR"}
  /\ Sni \subseteq BOOLEAN /\ Sni # {}
  /\ MaxStream \in U64 /\ MaxTotal \in U64
  /\ Prompt \in BOOLEAN /\ MayReset \in BOOLEAN /\ MayFail \in BOOLEAN

VARIABLES
  k,              \* the egress_connection_t
  events,         \* per side, the flags the loop step reported, not yet dispatched
  cSent, cGot, cFin, cRst,  \* client: units sent, received; half-closed; reset
  uSent, uGot, uFin, uRst   \* upstream, likewise

peers == <<cSent, cGot, cFin, cRst, uSent, uGot, uFin, uRst>>
vars == <<k, events, peers>>

Sides == {"client", "upstream"}
Flags == {"READ", "WRITE", "HUP", "ERROR"}
Interests == {"READ", "WRITE"}
NoEvents == [side \in Sides |-> {}]

(* The connection before its slot is taken; `unused' is also where a close   *)
(* leaves it, with the fields the receipt reports kept for the properties.   *)
Blank == [
  state |-> "new", result |-> "OK", protocol |-> "NONE",
  speaks |-> "NONE",                             \* what the client will speak
  sni |-> FALSE,                                 \* its destination's require_tls_sni
  verified |-> FALSE,                            \* tls_sni_verified
  ok |-> TRUE,                                   \* dispatch's local
  socks_phase |-> 0, address_index |-> 0,
  c2u |-> 0, u2c |-> 0,                          \* client_to_upstream, upstream_to_client
  from_client |-> 0, to_client |-> 0,            \* bytes_from_client, bytes_to_client
  from_upstream |-> 0, to_upstream |-> 0,        \* the counters dispatch ignores
  framing |-> 0,                                 \* input consumed and not forwarded
  client_eof |-> FALSE, upstream_eof |-> FALSE,
  client_hup |-> FALSE, upstream_hup |-> FALSE,
  client_shutdown |-> FALSE, upstream_shutdown |-> FALSE,
  close_after_flush |-> FALSE,
  upstream |-> FALSE,                            \* upstream_socket is open
  aborted |-> FALSE,                             \* its connect was undone by a shutdown
  fin |-> FALSE,                                 \* a FIN really went to the upstream
  client_watch |-> {}, upstream_watch |-> {},    \* armed interests, {} when unwatched
  admitted |-> FALSE, exhausted |-> FALSE, scope |-> "NONE",
  used |-> 0,                                    \* quota_stream_used
  total |-> 0,                                   \* principal_bytes_total
  exempt |-> 0,                                  \* quota_client_exempt_bytes
  unarmed |-> FALSE]                             \* a watch could not be armed

-----------------------------------------------------------------------------
(* The sockets. *)

ClientQueue   == cSent - k.from_client     \* received, not yet read
UpstreamQueue == uSent - k.from_upstream
ToClient      == k.to_client - cGot        \* sent, not yet taken by the peer
ToUpstream    == k.to_upstream - uGot

(* What a level-triggered loop reports for a watch: a half-close is HUP,     *)
(* whether or not READ is armed, and so is a reset, with ERROR.  A reset     *)
(* socket is readable and writable besides: ERROR comes without READ only    *)
(* where READ is not armed.                                                  *)
Report(watch, readable, writable, fin, rst) ==
  IF watch = {} THEN {}
  ELSE {f \in watch : f = "READ" /\ (readable \/ fin \/ rst)}
       \cup {f \in watch : f = "WRITE" /\ (writable \/ rst)}
       \cup (IF fin \/ rst THEN {"HUP"} ELSE {})
       \cup (IF rst THEN {"ERROR"} ELSE {})

Ready ==
  [side \in Sides |->
    IF side = "client"
    THEN Report(k.client_watch, ClientQueue > 0, ToClient < Window, cFin, cRst)
    ELSE IF k.state = "connecting" THEN k.upstream_watch
    ELSE Report(k.upstream_watch, UpstreamQueue > 0, ToUpstream < Window, uFin, uRst)]

-----------------------------------------------------------------------------
(* Helpers of the connection. *)

Close(c) == [c EXCEPT !.state = "unused", !.upstream = FALSE, !.ok = TRUE,
                      !.client_watch = {}, !.upstream_watch = {}]

(* buffer_append and queue_to_client: replies are exempt from the quota. *)
Queue(c) == [c EXCEPT !.u2c = @ + 1, !.exempt = @ + 1]

QueueIfRoom(c) == IF c.u2c < Capacity THEN Queue(c) ELSE c

egress_connection_fail(c, result) ==
  LET d == [c EXCEPT !.result = IF @ = "OK" THEN result ELSE @,
                     !.close_after_flush = TRUE,
                     !.upstream = FALSE, !.upstream_watch = {}]
  IN  IF c.protocol = "CONNECTOR" THEN Close(d) ELSE QueueIfRoom(d)

Allowed(c) == Allowance(c.admitted, MaxStream, c.used, MaxTotal, c.total)

Charge(c, amount) ==
  IF ~c.admitted THEN c
  ELSE [c EXCEPT !.used = AddSaturating(@, amount), !.total = AddSaturating(@, amount)]

egress_quota_deny(c, scope) ==
  [c EXCEPT !.scope = IF @ = "NONE" THEN scope ELSE @, !.result = "DENIED"]

Exhaust(c) == [egress_quota_deny(c, Allowed(c).scope) EXCEPT !.exhausted = TRUE]

(* egress_connection_update_watches: what a side has to wait for, and nothing *)
(* for a half-closed peer that cannot be read yet.                            *)
Wanted(c) ==
  {i \in Interests :
    \/ /\ i = "READ" /\ ~c.close_after_flush /\ ~c.exhausted
       /\ ~c.client_eof /\ c.c2u < Capacity
    \/ i = "WRITE" /\ c.u2c > 0}

(* Mutants: the watch of a half-closed client stays when there is no room to  *)
(* read, or is dropped even after its end of stream.                          *)
InterestsKept(c) == Wanted(c)
InterestsDropped(c) ==
  IF c.client_hup /\ "READ" \notin Wanted(c) THEN {} ELSE Wanted(c)

ClientInterests(c) ==
  IF c.client_hup /\ ~c.client_eof /\ "READ" \notin Wanted(c) THEN {} ELSE Wanted(c)

UpstreamInterests(c) ==
  LET want == {i \in Interests :
        \/ i = "WRITE" /\ c.state = "connecting"
        \/ /\ i = "READ" /\ c.state = "relay" /\ ~c.exhausted
           /\ ~c.upstream_eof /\ c.u2c < Capacity
        \/ i = "WRITE" /\ c.state = "relay" /\ c.c2u > 0}
  IN  IF c.upstream_hup /\ ~c.upstream_eof /\ "READ" \notin want THEN {} ELSE want

Arm(c) ==
  [c EXCEPT !.client_watch = ClientInterests(c),
            !.upstream_watch = IF c.upstream THEN UpstreamInterests(c) ELSE @]

Broken(c) == [c EXCEPT !.ok = FALSE, !.unarmed = TRUE]

UpdateWatches(c) ==
  IF c.state = "unused" THEN {c}
  ELSE {Arm(c)} \cup (IF MayFail THEN {Broken(c)} ELSE {})

-----------------------------------------------------------------------------
(* The way to the upstream. *)

(* Mutant: what is not a complete ClientHello passes the guard. *)
EnforceNothing(c) ==
  IF c.state # "identity" THEN {c} ELSE UpdateWatches([c EXCEPT !.state = "relay"])

(* egress_connection_enforce_tunnel_identity: the ClientHello is incomplete, *)
(* names another host, or matches.                                           *)
EnforceIdentity(c) ==
  IF c.state # "identity" \/ c.c2u = 0 THEN {c}
  ELSE {c} \cup UpdateWatches(egress_connection_fail(c, "DENIED"))
           \cup UpdateWatches([c EXCEPT !.state = "relay", !.verified = TRUE])

CloseIfNotOk(c) == IF c.ok THEN c ELSE Close(c)

Connected(c) ==
  LET tunnel == c.protocol # "HTTP_FORWARD"
      d == [c EXCEPT !.state = IF tunnel /\ c.sni THEN "identity" ELSE "relay"]
      answers == c.protocol \in {"HTTP_CONNECT", "SOCKS5"}
  IN  IF answers /\ d.u2c = Capacity THEN {Close([d EXCEPT !.result = "MEMORY"])}
      ELSE {CloseIfNotOk(e) :
             e \in UNION {IF f.ok THEN UpdateWatches(f) ELSE {f} :
                            f \in EnforceIdentity(IF answers THEN Queue(d) ELSE d)}}

(* egress_connection_connect_next: some addresses are skipped, then one      *)
(* connects at once or is in progress, or none is left.                      *)
ConnectNext(c) ==
  LET tries == {[c EXCEPT !.address_index = i, !.upstream = TRUE,
                          !.aborted = FALSE, !.fin = FALSE] :
                 i \in (c.address_index + 1)..Addresses}
  IN  UpdateWatches(egress_connection_fail([c EXCEPT !.address_index = Addresses], "IO"))
      \cup UNION {Connected(t) \cup UpdateWatches([t EXCEPT !.state = "connecting"]) : t \in tries}

(* egress_connection_begin_request refuses: the policy, the guard, or the    *)
(* quota of active connections, which is then the scope ...                  *)
RequestRefused(c) ==
  UNION {UpdateWatches(egress_connection_fail(d, "DENIED")) :
           d \in {c, [c EXCEPT !.scope = "ACTIVE_CONNECTIONS"]}}

(* ... or admits, and charges the early bytes.                               *)
RequestAdmitted(c, consumed, forward) ==
  LET a == [c EXCEPT !.admitted = TRUE, !.framing = @ + consumed - forward,
                     !.c2u = @ - consumed + forward]
      allowed == Allowed(a)
  IN  IF a.c2u > Capacity THEN {[c EXCEPT !.admitted = TRUE, !.ok = FALSE]}
      ELSE IF \/ a.c2u > allowed.amount
              \/ allowed.amount = 0 /\ (MaxStream # 0 \/ MaxTotal # 0)
      THEN UpdateWatches(egress_connection_fail(egress_quota_deny(a, allowed.scope), "DENIED"))
      ELSE ConnectNext(Charge(a, a.c2u))

BeginRequest(c, consumed, forward) ==
  RequestRefused(c)
  \cup (IF c.sni /\ c.protocol = "HTTP_FORWARD" THEN {} ELSE RequestAdmitted(c, consumed, forward))

(* parse_socks: a greeting asks for no authentication or for a password, a  *)
(* password is right; each is consumed, answered and leads to the next phase *)
(* (egress_parse_socks_frame).                                               *)
SocksAnswer(c, phase) ==
  [Queue(c) EXCEPT !.socks_phase = phase, !.c2u = @ - 1, !.framing = @ + 1]

SocksFrame(c) ==
  IF c.c2u = 0 THEN {}
  ELSE {SocksAnswer(c, phase) : phase \in {p \in 1..2 : p > c.socks_phase}}

(* A frame is malformed, or no method and no password is accepted. *)
SocksRefusal(c) ==
  LET Refused(d, r) == [d EXCEPT !.result = r, !.close_after_flush = TRUE]
  IN  {Refused(c, "PROTOCOL")}
      \cup (IF c.socks_phase = 0 THEN {Refused(SocksAnswer(c, 0), "PROTOCOL")} ELSE {})
      \cup (IF c.socks_phase = 1 THEN {Refused(SocksAnswer(c, 1), "DENIED")} ELSE {})

SocksRequest(c) ==
  {IF d.ok THEN d ELSE [egress_connection_fail(d, "PROTOCOL") EXCEPT !.ok = FALSE] :
     d \in BeginRequest(c, 1, 0)}

(* Each frame is incomplete, answered, refused, or the request. *)
SocksFrames(c) ==
  {c} \cup SocksFrame(c) \cup UNION {SocksFrame(d) : d \in SocksFrame(c)}

Socks(c) ==
  LET frames == SocksFrames([c EXCEPT !.protocol = "SOCKS5"])
      asked == {d \in frames : d.c2u > 0}
  IN  frames
      \cup UNION {SocksRefusal(d) \cup (IF d.socks_phase = 2 THEN SocksRequest(d) ELSE {}) : d \in asked}

(* egress_parse_http_request is incomplete, refuses, or has the request; a   *)
(* forward request is rewritten, and may grow.                               *)
Http(c) ==
  {c}
  \cup {egress_connection_fail([c EXCEPT !.protocol = "HTTP_CONNECT"], r) : r \in {"DENIED", "PROTOCOL"}}
  \cup UNION {BeginRequest([c EXCEPT !.protocol = c.speaks], 1, forward) :
                forward \in IF c.speaks = "HTTP_FORWARD" THEN 1..2 ELSE {0}}

ProcessHandshake(c) ==
  IF c.c2u = 0 THEN {c} ELSE IF c.speaks = "SOCKS5" THEN Socks(c) ELSE Http(c)

-----------------------------------------------------------------------------
(* The data plane. *)

ReadFromClient(c) ==
  LET allowed == IF c.state = "handshake" THEN U64Max ELSE Allowed(c).amount
      room == Min({Capacity - c.c2u, allowed})
      Read(n) == LET d == [c EXCEPT !.c2u = @ + n, !.from_client = @ + n]
                 IN  IF c.state = "handshake" THEN d ELSE Charge(d, n)
  IN  IF allowed = 0 THEN {Exhaust(c)}
      ELSE IF room = 0 THEN {c}
      ELSE IF cRst THEN {[c EXCEPT !.ok = FALSE]}
      ELSE IF ClientQueue > 0 THEN {Read(n) : n \in 1..Min({room, ClientQueue})}
      ELSE {[c EXCEPT !.client_eof = @ \/ cFin]}

WriteToClient(c) ==
  LET allowed == IF c.exempt > 0 THEN c.exempt ELSE Allowed(c).amount
      Wrote(n) == LET d == [c EXCEPT !.u2c = @ - n, !.to_client = @ + n]
                  IN  IF c.exempt > 0 THEN [d EXCEPT !.exempt = @ - n] ELSE Charge(d, n)
  IN  IF allowed = 0 THEN {Exhaust(c)}
      ELSE IF cRst THEN {[c EXCEPT !.ok = FALSE]}
      ELSE IF ToClient = Window THEN {c}
      ELSE {Wrote(n) : n \in 1..Min({c.u2c, allowed, Window - ToClient})}

ReadFromUpstream(c) ==
  LET room == Capacity - c.u2c
  IN  IF room = 0 THEN {c}
      ELSE IF uRst THEN {[c EXCEPT !.ok = FALSE]}
      ELSE IF UpstreamQueue > 0
      THEN {[c EXCEPT !.u2c = @ + n, !.from_upstream = @ + n] : n \in 1..Min({room, UpstreamQueue})}
      ELSE {[c EXCEPT !.upstream_eof = @ \/ uFin]}

WriteToUpstream(c) ==
  IF c.c2u = 0 THEN {c}
  ELSE IF uRst THEN {[c EXCEPT !.ok = FALSE]}
  ELSE IF ToUpstream = Window THEN {c}
  ELSE {[c EXCEPT !.c2u = @ - n, !.to_upstream = @ + n] : n \in 1..Min({c.c2u, Window - ToUpstream})}

(* Mutant: the end of stream overtakes what is still buffered. *)
HalfCloseAtOnce(c) ==
  {[c EXCEPT !.upstream_shutdown = @ \/ (c.client_eof /\ c.upstream),
             !.fin = @ \/ (c.client_eof /\ c.upstream),
             !.client_shutdown = @ \/ (c.upstream_eof /\ c.u2c = 0)]}

(* A shutdown of a socket still connecting sends nothing: it undoes the      *)
(* connect, or is refused by the kernel.                                     *)
ApplyHalfCloses(c) ==
  LET up == IF c.client_eof /\ c.c2u = 0 /\ c.upstream /\ ~c.upstream_shutdown
            THEN IF c.state = "connecting"
                 THEN {[c EXCEPT !.upstream_shutdown = TRUE, !.aborted = b] : b \in BOOLEAN}
                 ELSE {[c EXCEPT !.upstream_shutdown = TRUE, !.fin = TRUE]}
            ELSE {c}
  IN  {[d EXCEPT !.client_shutdown = @ \/ (d.upstream_eof /\ d.u2c = 0)] : d \in up}

(* Mutant: both ends of stream are enough. *)
CompleteEarly(c) ==
  IF c.close_after_flush THEN c.u2c = 0
  ELSE c.state = "relay" /\ c.client_eof /\ c.upstream_eof

Complete(c) ==
  IF c.close_after_flush THEN c.u2c = 0
  ELSE c.state = "relay" /\ c.client_eof /\ c.upstream_eof /\ c.c2u = 0 /\ c.u2c = 0

IoUnlessSet(c) == [c EXCEPT !.result = IF @ = "OK" THEN "IO" ELSE @]

(* The end of egress_relay_dispatch. *)
Finish(c) ==
  LET d == IF c.ok /\ c.admitted /\ Allowed(c).amount = 0 THEN Exhaust(c) ELSE c
  IN  IF c.state = "unused" THEN {c}
      ELSE IF d.ok /\ d.exhausted /\ d.c2u = 0 THEN {Close(d)}
      ELSE IF ~d.ok THEN {Close(IoUnlessSet(d))}
      ELSE UNION {IF Complete(h) THEN {Close(h)}
                  ELSE {IF w.ok THEN w ELSE Close([w EXCEPT !.result = "IO"]) : w \in UpdateWatches(h)} :
                  h \in ApplyHalfCloses(d)}

Sequentially(first, Then(_)) ==
  UNION {IF c.ok /\ c.state # "unused" THEN Then(c) ELSE {c} : c \in first}

HupIsRead(flags) == "HUP" \in flags /\ flags \cap {"READ", "ERROR"} = {}

DispatchClient(c, flags) ==
  LET reads == "READ" \in flags \/ HupIsRead(flags)
      h == [c EXCEPT !.client_hup = @ \/ HupIsRead(flags)]
      Process(d) == IF d.state = "handshake" THEN ProcessHandshake(d) ELSE EnforceIdentity(d)
      Write(d) == IF d.u2c > 0 /\ "WRITE" \in flags THEN WriteToClient(d) ELSE {d}
      afterRead == IF reads /\ ~h.close_after_flush
                   THEN Sequentially(ReadFromClient(h), Process) ELSE {h}
      Eof(d) == IF d.state # "unused" /\ "ERROR" \in flags /\ "READ" \notin flags
                THEN [d EXCEPT !.client_eof = TRUE] ELSE d
  IN  UNION {Finish(Eof(d)) : d \in Sequentially(afterRead, Write)}

DispatchUpstream(c, flags) ==
  LET reads == "READ" \in flags \/ HupIsRead(flags)
      h == [c EXCEPT !.upstream_hup = @ \/ (HupIsRead(flags) /\ c.state # "connecting")]
      refused == [h EXCEPT !.upstream = FALSE, !.upstream_watch = {}]
      Write(d) == IF "WRITE" \in flags THEN WriteToUpstream(d) ELSE {d}
      Eof(d) == IF "ERROR" \in flags /\ "READ" \notin flags
                THEN [d EXCEPT !.upstream_eof = TRUE] ELSE d
      moved == IF c.state = "connecting"
               THEN (IF c.aborted THEN {} ELSE Connected(h)) \cup ConnectNext(refused)
               ELSE IF c.state = "relay"
               THEN {Eof(d) : d \in Sequentially(IF reads THEN ReadFromUpstream(h) ELSE {h}, Write)}
               ELSE {h}
  IN  UNION {Finish(d) : d \in moved}

Dispatched(side, flags) ==
  IF side = "client" THEN DispatchClient(k, flags) ELSE DispatchUpstream(k, flags)

-----------------------------------------------------------------------------
(* The owner thread. *)

Alive == k.state \notin {"new", "unused"}

(* egress_connection_accept_all, for one connection. *)
Accept ==
  /\ k.state = "new"
  /\ \E protocol \in Protocols \ {"CONNECTOR"}, sni \in Sni :
       \E c \in UpdateWatches([Blank EXCEPT !.state = "handshake", !.speaks = protocol,
                                           !.sni = sni]) :
         k' = IF c.ok THEN c ELSE Close([c EXCEPT !.result = "MEMORY"])
  /\ UNCHANGED <<events, peers>>

(* egress_open_commands_process, for one native session. *)
OpenSession ==
  /\ k.state = "new" /\ "CONNECTOR" \in Protocols
  /\ \E sni \in Sni :
       \E c \in BeginRequest([Blank EXCEPT !.state = "handshake", !.speaks = "CONNECTOR",
                                          !.protocol = "CONNECTOR", !.sni = sni], 0, 0) :
         k' = IF c.ok THEN c ELSE Close([c EXCEPT !.result = "IO"])
  /\ UNCHANGED <<events, peers>>

(* maelys_sys_loop_step; a connect may take its time. *)
Collect ==
  /\ Alive /\ events = NoEvents
  /\ \/ events' = Ready
     \/ k.state = "connecting" /\ events' = [Ready EXCEPT !["upstream"] = {}]
  /\ events' # NoEvents
  /\ UNCHANGED <<k, peers>>

(* An event of a connection that is closed is filtered by its generation. *)
Dispatch(side) ==
  /\ events[side] # {}
  /\ k' \in Dispatched(side, events[side])
  /\ events' = IF k'.state = "unused" THEN NoEvents ELSE [events EXCEPT ![side] = {}]
  /\ UNCHANGED peers

(* What each peer can still do on its socket. *)
ClientCanSend == ~cFin /\ ~cRst /\ cSent < ClientBytes /\ ClientQueue < Window
ClientCanRead == ToClient > 0
ClientCanEnd  == ~cFin /\ ~cRst
Peered == k.upstream /\ k.state \in {"identity", "relay"}
UpstreamCanSend ==
  Peered /\ ~uFin /\ ~uRst /\ uSent < UpstreamBytes /\ UpstreamQueue < Window
UpstreamCanRead == Peered /\ ToUpstream > 0
UpstreamCanEnd  == Peered /\ ~uFin /\ ~uRst

(* Nothing can happen before the next deadline of the server. *)
Quiet ==
  /\ events = NoEvents /\ Ready = NoEvents
  /\ ~ClientCanSend /\ ~ClientCanRead /\ ~ClientCanEnd
  /\ ~UpstreamCanSend /\ ~UpstreamCanRead /\ ~UpstreamCanEnd

(* expire_connections: the handshake deadline is fixed; the idle deadline    *)
(* passes only without activity, at once with peers that are never slow.     *)
Expire ==
  /\ Alive /\ events = NoEvents
  /\ Prompt /\ k.state = "relay" => Quiet
  /\ k' = Close([k EXCEPT !.result = "TIMEOUT"])
  /\ UNCHANGED <<events, peers>>

(* The end of maelys_egress_server_run. *)
Stop ==
  /\ MayFail /\ Alive /\ events = NoEvents
  /\ k' = Close([k EXCEPT !.result = IF @ = "OK" THEN "CANCELLED" ELSE @])
  /\ UNCHANGED <<events, peers>>

-----------------------------------------------------------------------------
(* The peers, and the other streams of the principal. *)

ClientSend ==
  /\ Alive /\ ClientCanSend
  /\ cSent' = cSent + 1
  /\ UNCHANGED <<k, events, cGot, cFin, cRst, uSent, uGot, uFin, uRst>>

ClientRead ==
  /\ Alive /\ ClientCanRead
  /\ cGot' = cGot + 1
  /\ UNCHANGED <<k, events, cSent, cFin, cRst, uSent, uGot, uFin, uRst>>

ClientEnd ==
  /\ Alive /\ ClientCanEnd
  /\ cFin' = TRUE
  /\ UNCHANGED <<k, events, cSent, cGot, cRst, uSent, uGot, uFin, uRst>>

UpstreamSend ==
  /\ Alive /\ UpstreamCanSend
  /\ uSent' = uSent + 1
  /\ UNCHANGED <<k, events, cSent, cGot, cFin, cRst, uGot, uFin, uRst>>

UpstreamRead ==
  /\ Alive /\ UpstreamCanRead
  /\ uGot' = uGot + 1
  /\ UNCHANGED <<k, events, cSent, cGot, cFin, cRst, uSent, uFin, uRst>>

UpstreamEnd ==
  /\ Alive /\ UpstreamCanEnd
  /\ uFin' = TRUE
  /\ UNCHANGED <<k, events, cSent, cGot, cFin, cRst, uSent, uGot, uRst>>

Reset ==
  /\ MayReset /\ Alive
  /\ \/ ~cRst /\ cRst' = TRUE /\ UNCHANGED uRst
     \/ Peered /\ ~uRst /\ uRst' = TRUE /\ UNCHANGED cRst
  /\ UNCHANGED <<k, events, cSent, cGot, cFin, uSent, uGot, uFin>>

OtherStream ==
  /\ MaxTotal # 0 /\ Alive
  /\ quota_remaining(MaxTotal, k.total) > 0
  /\ k' = [k EXCEPT !.total = AddSaturating(@, 1)]
  /\ UNCHANGED <<events, peers>>

Init ==
  /\ k = Blank /\ events = NoEvents
  /\ cSent = 0 /\ cGot = 0 /\ cFin = FALSE /\ cRst = FALSE
  /\ uSent = 0 /\ uGot = 0 /\ uFin = FALSE /\ uRst = FALSE

Next ==
  \/ Accept \/ OpenSession \/ Collect \/ (\E side \in Sides : Dispatch(side))
  \/ Expire \/ Stop \/ OtherStream
  \/ ClientSend \/ ClientRead \/ ClientEnd
  \/ UpstreamSend \/ UpstreamRead \/ UpstreamEnd \/ Reset

Spec == Init /\ [][Next]_vars

Fairness ==
  /\ WF_vars(Accept) /\ WF_vars(Collect) /\ WF_vars(Expire)
  /\ \A side \in Sides : WF_vars(Dispatch(side))
  /\ WF_vars(ClientSend) /\ WF_vars(ClientRead) /\ WF_vars(ClientEnd)
  /\ WF_vars(UpstreamSend) /\ WF_vars(UpstreamRead) /\ WF_vars(UpstreamEnd)

FairSpec == Spec /\ Fairness
-----------------------------------------------------------------------------
(* Properties.                                                              *)

States  == {"new", "handshake", "connecting", "identity", "relay", "unused"}
Results == {"OK", "DENIED", "PROTOCOL", "IO", "MEMORY", "TIMEOUT", "CANCELLED"}

TypeOK ==
  /\ k \in [state : States, result : Results, protocol : Protocols \cup {"NONE", "HTTP_CONNECT"},
             speaks : Protocols \cup {"NONE"}, sni : BOOLEAN, verified : BOOLEAN, ok : {TRUE},
             socks_phase : 0..2, address_index : 0..Addresses,
             c2u : 0..Capacity, u2c : 0..Capacity,
             from_client : 0..ClientBytes, to_client : Nat,
             from_upstream : 0..UpstreamBytes, to_upstream : 0..(ClientBytes + 1),
             framing : -1..3, client_eof : BOOLEAN, upstream_eof : BOOLEAN,
             client_hup : BOOLEAN, upstream_hup : BOOLEAN,
             client_shutdown : BOOLEAN, upstream_shutdown : BOOLEAN,
             close_after_flush : BOOLEAN, upstream : BOOLEAN, aborted : BOOLEAN, fin : BOOLEAN,
             client_watch : SUBSET Interests, upstream_watch : SUBSET Interests,
             admitted : BOOLEAN, exhausted : BOOLEAN, scope : Scopes,
             used : U64, total : U64, exempt : 0..Capacity, unarmed : BOOLEAN]
  /\ events \in [Sides -> SUBSET Flags]
  /\ cFin \in BOOLEAN /\ cRst \in BOOLEAN /\ uFin \in BOOLEAN /\ uRst \in BOOLEAN
  /\ ClientQueue \in 0..Window /\ ToClient \in 0..Window
  /\ UpstreamQueue \in 0..Window /\ ToUpstream \in 0..Window

(* A stream that ends with OK was relayed whole: both peers half-closed, and  *)
(* every byte either of them sent was read and passed on before the close     *)
(* (connection_complete).  Left out is a connection closed because a watch    *)
(* could not be armed on a path that sets no result (egress_connection_       *)
(* connected): its receipt says OK with its bytes undelivered.                *)
CleanEnd ==
  k.state = "unused" /\ k.result = "OK" /\ ~k.unarmed =>
    /\ cFin /\ k.from_client = cSent /\ k.to_upstream = k.from_client - k.framing
    /\ uFin /\ k.from_upstream = uSent /\ k.u2c = 0

(* apply_half_closes never overtakes the data: a peer is sent the other's end *)
(* of stream only after all the other sent before it, and a reset is never    *)
(* passed on as one.                                                          *)
HalfCloseAfterTail ==
  /\ k.fin => cFin /\ k.from_client = cSent /\ k.c2u = 0
  /\ k.client_shutdown => uFin /\ k.from_upstream = uSent /\ k.u2c = 0

(* Byte quotas charge exactly the relayed payload of both directions, early   *)
(* bytes included and replies of the proxy excluded, and neither the stream   *)
(* nor the principal, whose other streams run too, exceeds its ceiling.       *)
QuotaExact ==
  /\ k.state \in {"connecting", "identity", "relay"} =>
       k.used = (k.from_client - k.framing) + (k.from_upstream - (k.u2c - k.exempt))
  /\ MaxStream # 0 => k.used <= MaxStream
  /\ MaxTotal # 0 => k.total <= MaxTotal

(* Behind require_tls_sni no byte of the client reaches the upstream before   *)
(* its ClientHello matched, whatever the protocol and however it arrives.     *)
GuardedUntilVerified == k.sni /\ ~k.verified => k.to_upstream = 0

(* A level-triggered event never finds the dispatcher with nothing to do and  *)
(* the same watches: handling what the loop reports changes the connection,   *)
(* as long as that side has not reached its end of stream and the quota, if   *)
(* any, is not used up.                                                       *)
Eof(side) == IF side = "client" THEN k.client_eof ELSE k.upstream_eof
Spins(side) == Alive /\ Ready[side] # {} /\ k \in Dispatched(side, Ready[side])
NoSpinBeforeEof == \A side \in Sides : ~Eof(side) /\ ~k.exhausted => ~Spins(side)

(* The same on every side, half-closed ones included: internal.h says of      *)
(* client_hup and upstream_hup that a level-triggered HUP never spins.        *)
NoSpin == \A side \in Sides : ~Spins(side)

(* A relay never waits for its idle deadline with both peers done: as long as *)
(* it relays, the loop has an event to report or a peer something to do.      *)
(* CHANGELOG.md says that a dropped watch never loses the tail.               *)
NeverStuck == ~(k.state = "relay" /\ Quiet)

(* The ways a relay waits so: update_watches dropped both watches, after both *)
(* peers half-closed against full buffers; or the quota ran out, which stops  *)
(* the reading, with a half-closed upstream left to write to.                 *)
HalfClosedBoth == k.client_hup /\ k.upstream_hup
FullBoth == k.c2u = Capacity /\ k.u2c = Capacity
StuckOnlyHalfClosed ==
  k.state = "relay" /\ Quiet =>
    \/ HalfClosedBoth /\ FullBoth
    \/ k.exhausted /\ k.upstream_hup /\ ~k.upstream_eof /\ k.c2u > 0

(* The half-close of a client reaches the upstream, as the comment of         *)
(* read_into says: once recorded as done on a relay, a FIN went out on the    *)
(* connection to the upstream.                                                *)
HalfCloseReachesUpstream ==
  k.state = "relay" /\ k.upstream_shutdown => k.fin

(* With peers that read, send and half-close in their own time, every relay   *)
(* ends by itself and with OK; the idle deadline ends one only when both      *)
(* peers half-closed against full buffers.                                    *)
RelayFinishes ==
  k.state = "relay" ~>
    k.state = "unused" /\ (k.result = "OK" \/ (k.result = "TIMEOUT" /\ HalfClosedBoth /\ FullBoth))
=============================================================================
