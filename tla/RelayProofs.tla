---------------------------- MODULE RelayProofs ----------------------------
(***************************************************************************)
(* Proofs about Relay, for buffers, socket buffers, streams, ceilings and    *)
(* numbers of addresses of any size.  Every function of the source is an     *)
(* operator on the connection record, so each has a lemma: from a record in  *)
(* Core it leads to records in Core.  Rest is what holds of the connection   *)
(* between two dispatches, Pending of the events not dispatched yet.         *)
(***************************************************************************)
EXTENDS Relay, TLAPS

Record ==
  [state : States, result : Results, protocol : Protocols \cup {"NONE", "HTTP_CONNECT"},
   speaks : Protocols \cup {"NONE"}, sni : BOOLEAN, verified : BOOLEAN, ok : BOOLEAN,
   socks_phase : 0..2, address_index : 0..Addresses, c2u : Int, u2c : Int,
   from_client : Int, to_client : Int, from_upstream : Int, to_upstream : Int,
   framing : Int, client_eof : BOOLEAN, upstream_eof : BOOLEAN,
   client_hup : BOOLEAN, upstream_hup : BOOLEAN,
   client_shutdown : BOOLEAN, upstream_shutdown : BOOLEAN,
   close_after_flush : BOOLEAN, upstream : BOOLEAN, aborted : BOOLEAN, fin : BOOLEAN,
   client_watch : SUBSET Interests, upstream_watch : SUBSET Interests,
   admitted : BOOLEAN, exhausted : BOOLEAN, scope : Scopes,
   used : Int, total : Int, exempt : Int, unarmed : BOOLEAN]

(* The buffers: what the client sent is buffered, passed on or consumed, and *)
(* replies of the proxy come before what the upstream sent.                  *)
Buffers(c) ==
  /\ 0 <= c.exempt /\ c.exempt <= c.u2c /\ c.u2c <= Capacity
  /\ 0 <= c.c2u /\ c.c2u <= Capacity /\ 0 <= c.to_upstream
  /\ -1 <= c.framing /\ c.framing <= 3
  /\ c.from_client = c.c2u + c.to_upstream + c.framing

(* The sockets: what is between the connection and its peers. *)
Sockets(c) ==
  /\ 0 <= c.from_client /\ c.from_client <= cSent /\ cSent <= c.from_client + Window
  /\ cGot <= c.to_client /\ c.to_client <= cGot + Window
  /\ 0 <= c.from_upstream /\ c.from_upstream <= uSent /\ uSent <= c.from_upstream + Window
  /\ uGot <= c.to_upstream /\ c.to_upstream <= uGot + Window

(* The quota: the payload is charged, and the ceilings hold. *)
Payload(c) == c.c2u + c.to_upstream + c.from_upstream - c.u2c + c.exempt

Charged(c) ==
  /\ 0 <= c.used /\ c.used <= U64Max /\ 0 <= c.total /\ c.total <= U64Max
  /\ c.state \in {"connecting", "identity", "relay"} => c.admitted /\ c.used = Payload(c)
  /\ MaxStream # 0 => c.used <= MaxStream
  /\ MaxTotal # 0 => c.total <= MaxTotal

(* The identity guard. *)
Guarded(c) ==
  /\ c.sni /\ ~c.verified => c.to_upstream = 0
  /\ c.state = "relay" /\ c.sni => c.verified
  /\ c.state = "connecting" /\ c.sni => c.protocol # "HTTP_FORWARD"

(* The ends of stream: each is real unless the connection is about to be     *)
(* closed, and what was half-closed had nothing left to pass on.             *)
Ends(c) ==
  /\ c.close_after_flush \/ c.exhausted => c.result # "OK"
  /\ c.client_eof /\ ~c.exhausted /\ c.ok /\ c.state # "unused" =>
       cFin /\ c.from_client = cSent
  /\ c.upstream_eof /\ c.ok /\ c.state # "unused" =>
       c.state = "relay" /\ uFin /\ c.from_upstream = uSent
  /\ c.fin => cFin /\ c.from_client = cSent /\ c.c2u = 0
  /\ c.client_shutdown =>
       c.state \in {"relay", "unused"} /\ uFin /\ c.from_upstream = uSent /\ c.u2c = 0
  /\ c.state = "unused" /\ c.result = "OK" /\ ~c.unarmed =>
       /\ cFin /\ c.from_client = cSent /\ c.c2u = 0
       /\ uFin /\ c.from_upstream = uSent /\ c.u2c = 0

(* Watches go with their socket, and a closed connection has none. *)
Tidy(c) ==
  /\ ~c.upstream => c.upstream_watch = {}
  /\ c.state = "unused" => c.ok /\ c.client_watch = {} /\ c.upstream_watch = {}
  /\ c.state = "handshake" => c.u2c = c.exempt /\ c.from_upstream = 0 /\ c.to_upstream = 0

Base(c) ==
  c \in Record /\ Buffers(c) /\ Sockets(c) /\ Charged(c) /\ Guarded(c) /\ Ends(c) /\ Tidy(c)

(* A handshake that goes on is not charged yet and has no upstream; only the *)
(* frames of the phases of SOCKS5 behind it were answered.                   *)
Unasked(c) ==
  c.state = "handshake" /\ c.ok /\ ~c.close_after_flush =>
    /\ ~c.admitted /\ c.used = 0 /\ ~c.upstream /\ ~c.fin
    /\ 0 <= c.framing /\ c.framing <= c.socks_phase /\ c.u2c <= c.socks_phase

Core(c) == Base(c) /\ Unasked(c)

(* Interest in writing means that there is something to write. *)
Watched(c) ==
  /\ "WRITE" \in c.client_watch => c.u2c > 0
  /\ "WRITE" \in c.upstream_watch => c.state = "connecting" \/ (c.state = "relay" /\ c.c2u > 0)

Rest(c) == Core(c) /\ c.ok /\ Watched(c)

Peers ==
  /\ cSent \in 0..ClientBytes /\ uSent \in 0..UpstreamBytes /\ cGot \in Nat /\ uGot \in Nat
  /\ cFin \in BOOLEAN /\ cRst \in BOOLEAN /\ uFin \in BOOLEAN /\ uRst \in BOOLEAN

(* An error reported without READ comes with WRITE, to a side that has still *)
(* something to write.                                                       *)
Pending ==
  /\ events \in [Sides -> SUBSET Flags]
  /\ events # NoEvents => Alive
  /\ "ERROR" \in events["client"] /\ "READ" \notin events["client"] =>
       cRst /\ "WRITE" \in events["client"] /\ k.u2c > 0
  /\ "ERROR" \in events["upstream"] /\ "READ" \notin events["upstream"] =>
       uRst /\ "WRITE" \in events["upstream"] /\ k.state = "relay" /\ k.c2u > 0

IInv == Rest(k) /\ Peers /\ Pending
-----------------------------------------------------------------------------
(* The constants and the values of the fields. *)

(* The values that the handlers assign to the fields are of their types. *)
LEMMA Values ==
  /\ {} \in SUBSET Interests /\ TRUE \in BOOLEAN /\ FALSE \in BOOLEAN
  /\ "unused" \in States /\ "handshake" \in States /\ "connecting" \in States
  /\ "identity" \in States /\ "relay" \in States
  /\ "OK" \in Results /\ "DENIED" \in Results /\ "PROTOCOL" \in Results /\ "IO" \in Results
  /\ "MEMORY" \in Results /\ "TIMEOUT" \in Results /\ "CANCELLED" \in Results
  BY DEF States, Results

(* The counters of a connection are integers. *)
LEMMA Counters ==
  ASSUME NEW c \in Record
  PROVE  /\ c.c2u \in Int /\ c.u2c \in Int /\ c.framing \in Int /\ c.exempt \in Int
         /\ c.from_client \in Int /\ c.to_client \in Int
         /\ c.from_upstream \in Int /\ c.to_upstream \in Int
         /\ c.used \in Int /\ c.total \in Int
  BY DEF Record

(* What the constants are assumed to be, in one place. *)
LEMMA Numbers ==
  /\ U64Max \in Nat \ {0} /\ Capacity \in Nat /\ Capacity >= 2 /\ Window \in Nat \ {0}
  /\ ClientBytes \in Nat /\ UpstreamBytes \in Nat /\ Addresses \in Nat
  /\ ClientBytes + UpstreamBytes < U64Max
  /\ MaxStream \in 0..U64Max /\ MaxTotal \in 0..U64Max
  BY U64Assumption, BoundsAssumption, ConfigAssumption DEF U64

-----------------------------------------------------------------------------
(* The helpers of the connection. *)

(* A connection is closed with a result other than OK, or because a watch    *)
(* could not be armed, or after both streams passed whole.                   *)
Passed(c) ==
  /\ cFin /\ c.from_client = cSent /\ c.c2u = 0
  /\ uFin /\ c.from_upstream = uSent /\ c.u2c = 0

(* egress_connection_close: what may be closed is at rest after it. *)
LEMMA CloseRest ==
  ASSUME NEW c, Base(c), c.result # "OK" \/ c.unarmed \/ Passed(c)
  PROVE  Rest(Close(c)) /\ Close(c).state = "unused" /\ Close(c).u2c = c.u2c
         /\ Close(c).to_client = c.to_client /\ Close(c).protocol = c.protocol
  <1>1. c \in Record BY DEF Base
  <1>2. Close(c) \in Record
    BY <1>1, Values, ZenonT(60) DEF Close, Record
  <1>3. Buffers(Close(c)) /\ Sockets(Close(c)) /\ Charged(Close(c)) /\ Guarded(Close(c))
    BY <1>1, Numbers DEF Base, Close, Record, Buffers, Sockets, Charged, Guarded
  <1>4. Ends(Close(c)) /\ Tidy(Close(c)) /\ Unasked(Close(c)) /\ Watched(Close(c))
    BY <1>1 DEF Base, Close, Record, Ends, Tidy, Unasked, Watched, Passed
  <1>5. Close(c).ok /\ Close(c).state = "unused" /\ Close(c).u2c = c.u2c
         /\ Close(c).to_client = c.to_client /\ Close(c).protocol = c.protocol
    BY <1>1 DEF Close, Record
  <1>. QED BY <1>2, <1>3, <1>4, <1>5 DEF Rest, Core, Base
(* What the way to the upstream leaves alone. *)
Kept(c, d) ==
  /\ d.u2c >= c.u2c /\ d.to_client = c.to_client /\ d.protocol = c.protocol
  /\ c.state # "new" => d.state # "new"

(* queue_to_client: a reply is queued where there is room, and exempt. *)
LEMMA QueueBase ==
  ASSUME NEW c, Base(c), c.u2c < Capacity, c.state \notin {"new", "unused"}, ~c.client_shutdown
  PROVE  /\ Base(Queue(c)) /\ Kept(c, Queue(c)) /\ Queue(c).state = c.state
         /\ Queue(c).ok = c.ok /\ Queue(c).close_after_flush = c.close_after_flush
         /\ Queue(c).u2c = c.u2c + 1 /\ Queue(c).unarmed = c.unarmed
  <1>1. c \in Record BY DEF Base
  <1>2. c.u2c + 1 \in Int /\ c.exempt + 1 \in Int BY <1>1 DEF Record
  <1>3. Queue(c) \in Record
    BY <1>1, <1>2, ZenonT(60) DEF Queue, Record
  <1>4. Buffers(Queue(c)) /\ Sockets(Queue(c)) /\ Charged(Queue(c)) /\ Guarded(Queue(c))
    BY <1>1, Numbers DEF Base, Queue, Record, Buffers, Sockets, Charged, Guarded, Payload
  <1>5. Ends(Queue(c)) /\ Tidy(Queue(c))
    BY <1>1, Numbers DEF Base, Queue, Record, Ends, Tidy
  <1>6. /\ Kept(c, Queue(c)) /\ Queue(c).state = c.state
        /\ Queue(c).ok = c.ok /\ Queue(c).close_after_flush = c.close_after_flush
        /\ Queue(c).u2c = c.u2c + 1 /\ Queue(c).unarmed = c.unarmed
    BY <1>1 DEF Queue, Record, Kept
  <1>. QED BY <1>3, <1>4, <1>5, <1>6 DEF Base

(* egress_connection_fail closes a native session and answers any other. *)
LEMMA FailCore ==
  ASSUME NEW c, Base(c), c.state \in {"handshake", "connecting", "identity"},
         NEW result \in Results \ {"OK"}, NEW d, d = egress_connection_fail(c, result)
  PROVE  /\ Core(d) /\ Kept(c, d) /\ d.state \in {c.state, "unused"}
         /\ c.protocol # "CONNECTOR" => d.state = c.state /\ d.ok = c.ok
         /\ d.state = "unused" => d.ok /\ Rest(d)
         /\ d.state # "unused" => d.close_after_flush /\ d.ok = c.ok
  <1>1. c \in Record BY DEF Base
  <1>. DEFINE e == [c EXCEPT !.result = IF @ = "OK" THEN result ELSE @,
                             !.close_after_flush = TRUE,
                             !.upstream = FALSE, !.upstream_watch = {}]
              r == IF c.result = "OK" THEN result ELSE c.result
  <1>2. r \in Results BY <1>1 DEF Record
  <1>3. e = [c EXCEPT !.result = r, !.close_after_flush = TRUE,
                      !.upstream = FALSE, !.upstream_watch = {}]
    BY <1>1 DEF Record
  <1>. HIDE DEF r
  <1>4. e \in Record
    <2>1. [c EXCEPT !.result = r, !.close_after_flush = TRUE,
                    !.upstream = FALSE, !.upstream_watch = {}] \in Record
      BY <1>1, <1>2, Values, ZenonT(60) DEF Record
    <2>. QED BY <2>1, <1>3
  <1>5. e.result # "OK" /\ e.state = c.state /\ e.close_after_flush /\ e.ok = c.ok
        /\ Kept(c, e) /\ ~e.client_shutdown
    BY <1>1 DEF Record, Kept, Base, Ends
  <1>6. Base(e)
    <2>1. Buffers(e) /\ Sockets(e) /\ Charged(e) /\ Guarded(e)
      BY <1>1, Numbers DEF Base, Record, Buffers, Sockets, Charged, Guarded, Payload
    <2>2. Ends(e) /\ Tidy(e)
      BY <1>1, Numbers DEF Base, Record, Ends, Tidy
    <2>. QED BY <1>4, <2>1, <2>2 DEF Base
  <1>. HIDE DEF e
  <1>7. d = IF c.protocol = "CONNECTOR" THEN Close(e) ELSE QueueIfRoom(e)
    BY DEF egress_connection_fail, e
  <1>8. CASE c.protocol = "CONNECTOR"
    <2>1. Rest(Close(e)) /\ Close(e).state = "unused" /\ Kept(c, Close(e))
      BY <1>4, <1>5, <1>6, CloseRest DEF Kept, Record
    <2>. QED BY <2>1, <1>7, <1>8 DEF Rest, Core
  <1>9. CASE c.protocol # "CONNECTOR"
    <2>1. CASE e.u2c < Capacity
      <3>1. d = Queue(e) BY <1>7, <1>9, <2>1 DEF QueueIfRoom
      <3>2. Base(d) /\ Kept(c, d) /\ d.state = c.state /\ d.ok = c.ok /\ d.close_after_flush
        BY <3>1, <1>1, <1>4, <1>5, <1>6, <2>1, QueueBase DEF Kept, Record
      <3>. QED BY <3>2 DEF Core, Unasked
    <2>2. CASE ~(e.u2c < Capacity)
      <3>1. d = e BY <1>7, <1>9, <2>2 DEF QueueIfRoom
      <3>. QED BY <3>1, <1>5, <1>6 DEF Core, Unasked
    <2>. QED BY <2>1, <2>2
  <1>. QED BY <1>8, <1>9

(* A connection whose watch could not be armed keeps its type. *)
LEMMA BrokenType ==
  ASSUME NEW c \in Record
  PROVE  Broken(c) \in Record
  BY ZenonT(60) DEF Broken, Record

(* update_watches arms interest in writing only for what is buffered. *)
LEMMA WatchesCore ==
  ASSUME NEW c, Core(c), NEW d \in UpdateWatches(c)
  PROVE  /\ Core(d) /\ Kept(c, d) /\ d.state = c.state /\ d.u2c = c.u2c /\ d.c2u = c.c2u
         /\ c.ok => d.ok \/ d.unarmed
         /\ d.ok => c.ok /\ Watched(d)
         /\ d.close_after_flush = c.close_after_flush /\ d.result = c.result
  <1>1. c \in Record BY DEF Core, Base
  <1>2. CASE d = c /\ c.state = "unused"
    BY <1>1, <1>2 DEF Core, Base, Tidy, Watched, Kept, Record
  <1>3. CASE d = Arm(c) /\ c.state # "unused"
    <2>. DEFINE w == IF c.upstream THEN UpstreamInterests(c) ELSE c.upstream_watch
                v == ClientInterests(c)
    <2>1. v \in SUBSET Interests BY DEF ClientInterests, Wanted
    <2>2. UpstreamInterests(c) \in SUBSET Interests BY DEF UpstreamInterests
    <2>3. w \in SUBSET Interests BY <1>1, <2>2 DEF Record
    <2>4. d = [c EXCEPT !.client_watch = v, !.upstream_watch = w]
      BY <1>1, <1>3 DEF Arm, Record
    <2>5. "WRITE" \in v => c.u2c > 0
      BY DEF ClientInterests, Wanted
    <2>6. "WRITE" \in UpstreamInterests(c) =>
            c.state = "connecting" \/ (c.state = "relay" /\ c.c2u > 0)
      BY DEF UpstreamInterests
    <2>7. ~c.upstream => w = {} BY DEF Core, Base, Tidy
    <2>8. "WRITE" \in w => c.state = "connecting" \/ (c.state = "relay" /\ c.c2u > 0)
      BY <2>6, <2>7
    <2>. HIDE DEF v, w
    <2>9. d \in Record
      BY <1>1, <2>1, <2>3, <2>4, ZenonT(60) DEF Record
    <2>10. Buffers(d) /\ Sockets(d) /\ Charged(d) /\ Guarded(d)
      BY <1>1, <2>4, Numbers DEF Core, Base, Record, Buffers, Sockets, Charged, Guarded, Payload
    <2>11. Ends(d) /\ Tidy(d) /\ Unasked(d)
      BY <1>1, <1>3, <2>4, <2>7 DEF Core, Base, Record, Ends, Tidy, Unasked
    <2>12. Watched(d)
      BY <1>1, <2>4, <2>5, <2>8 DEF Watched, Record
    <2>13. /\ Kept(c, d) /\ d.state = c.state /\ d.u2c = c.u2c /\ d.c2u = c.c2u /\ d.ok = c.ok
           /\ d.close_after_flush = c.close_after_flush /\ d.result = c.result
      BY <1>1, <2>4 DEF Kept, Record
    <2>. QED BY <2>9, <2>10, <2>11, <2>12, <2>13 DEF Core, Base
  <1>4. CASE d = Broken(c) /\ c.state # "unused"
    <2>1. d = [c EXCEPT !.ok = FALSE, !.unarmed = TRUE] BY <1>4 DEF Broken
    <2>2. d \in Record
      BY <1>1, <1>4, BrokenType
    <2>3. Buffers(d) /\ Sockets(d) /\ Charged(d) /\ Guarded(d)
      BY <1>1, <2>1, Numbers DEF Core, Base, Record, Buffers, Sockets, Charged, Guarded, Payload
    <2>4. Ends(d) /\ Tidy(d) /\ Unasked(d)
      BY <1>1, <1>4, <2>1 DEF Core, Base, Record, Ends, Tidy, Unasked
    <2>5. /\ Kept(c, d) /\ d.state = c.state /\ d.u2c = c.u2c /\ d.c2u = c.c2u
          /\ ~d.ok /\ d.unarmed /\ d.close_after_flush = c.close_after_flush /\ d.result = c.result
      BY <1>1, <2>1 DEF Kept, Record
    <2>. QED BY <2>2, <2>3, <2>4, <2>5 DEF Core, Base
  <1>. QED BY <1>2, <1>3, <1>4 DEF UpdateWatches

-----------------------------------------------------------------------------
(* The quota. *)

(* egress_quota_allowance: it is within what both ceilings leave. *)
LEMMA AllowedType ==
  ASSUME NEW c, Base(c)
  PROVE  /\ Allowed(c).amount \in 0..U64Max /\ Allowed(c).scope \in Scopes
         /\ c.admitted /\ MaxStream # 0 => Allowed(c).amount <= MaxStream - c.used
         /\ c.admitted /\ MaxTotal # 0 => Allowed(c).amount <= MaxTotal - c.total
         /\ ~c.admitted \/ (MaxStream = 0 /\ MaxTotal = 0) => Allowed(c).amount = U64Max
  <1>1. c \in Record BY DEF Base
  <1>2. c.used \in Int /\ c.total \in Int BY <1>1 DEF Record
  <1>. QED BY <1>2, Numbers DEF Base, Charged, Allowed, Allowance, quota_remaining, Unlimited, Scopes

(* add_saturating is exact where the sum fits its word. *)
LEMMA AddExact ==
  ASSUME NEW value \in Int, NEW amount \in Int, value + amount <= U64Max
  PROVE  AddSaturating(value, amount) = value + amount
  BY Numbers DEF AddSaturating

(* It never leaves the word. *)
LEMMA AddType ==
  ASSUME NEW value \in 0..U64Max, NEW amount \in Nat
  PROVE  AddSaturating(value, amount) \in 0..U64Max
  BY Numbers DEF AddSaturating
-----------------------------------------------------------------------------
(* The way to the upstream. *)

(* A watch that could not be armed is the only failure left to the caller. *)
Settled(c, d) ==
  /\ Core(d) /\ Kept(c, d)
  /\ d.ok => Watched(d)
  /\ ~d.ok => d.unarmed /\ d.state \in {"handshake", "connecting", "identity", "relay"}

(* A failure, with the refresh of the watches that follows it. *)
LEMMA FailSettled ==
  ASSUME NEW c, Base(c), c.ok, c.state \in {"handshake", "connecting", "identity"},
         NEW result \in Results \ {"OK"}, NEW d \in UpdateWatches(egress_connection_fail(c, result))
  PROVE  Settled(c, d) /\ d.state \in {c.state, "unused"}
  <1>. DEFINE e == egress_connection_fail(c, result)
  <1>1. /\ Core(e) /\ Kept(c, e) /\ e.state \in {c.state, "unused"}
        /\ e.state = "unused" => e.ok
        /\ e.state # "unused" => e.ok = c.ok
    BY FailCore, Zenon
  <1>. HIDE DEF e
  <1>2. /\ Core(d) /\ Kept(e, d) /\ d.state = e.state /\ d.u2c = e.u2c
        /\ d.ok \/ d.unarmed
        /\ d.ok => Watched(d)
    BY <1>1, WatchesCore, Zenon DEF e
  <1>3. d.state = "unused" => d.ok BY <1>2, Zenon DEF Core, Base, Tidy
  <1>4. c.u2c \in Int /\ e.u2c \in Int /\ d.u2c \in Int
    BY <1>1, <1>2 DEF Core, Base, Record
  <1>. QED BY <1>1, <1>2, <1>3, <1>4 DEF Settled, Kept

(* A verified connection keeps its type. *)
LEMMA VerifiedType ==
  ASSUME NEW c \in Record
  PROVE  [c EXCEPT !.state = "relay", !.verified = TRUE] \in Record
  BY Values, ZenonT(60) DEF Record

(* enforce_tunnel_identity acts on a guarded connection, and settles it. *)
LEMMA IdentitySettled ==
  ASSUME NEW c, Core(c), c.ok, NEW d \in EnforceIdentity(c)
  PROVE  d = c \/ (c.state = "identity" /\ Settled(c, d) /\ d.state \in {"identity", "relay", "unused"})
  <1>. DEFINE v == [c EXCEPT !.state = "relay", !.verified = TRUE]
  <1>1. c \in Record BY DEF Core, Base
  <1>2. CASE c.state = "identity" /\ d \in UpdateWatches(egress_connection_fail(c, "DENIED"))
    BY <1>2, FailSettled, Values DEF Core
  <1>3. CASE c.state = "identity" /\ d \in UpdateWatches(v)
    <2>1. v \in Record BY <1>1, VerifiedType, Zenon
    <2>2. Buffers(v) /\ Sockets(v) /\ Charged(v) /\ Guarded(v)
      BY <1>1, <1>3, Numbers DEF Core, Base, Record, Buffers, Sockets, Charged, Guarded, Payload
    <2>3. Ends(v) /\ Tidy(v) /\ Unasked(v)
      BY <1>1, <1>3, ZenonT(60) DEF Core, Base, Record, Ends, Tidy, Unasked
    <2>4. v.ok /\ v.state = "relay" /\ v.u2c = c.u2c /\ v.to_client = c.to_client /\ v.protocol = c.protocol
      BY <1>1 DEF Core, Base, Record
    <2>5. Core(v) BY <2>1, <2>2, <2>3 DEF Core, Base
    <2>. HIDE DEF v
    <2>6. /\ Core(d) /\ Kept(v, d) /\ d.state = v.state /\ d.u2c = v.u2c /\ (d.ok \/ d.unarmed)
          /\ d.ok => Watched(d)
      BY <1>3, <2>4, <2>5, WatchesCore
    <2>7. d.u2c \in Int BY <2>6 DEF Core, Base, Record
    <2>. QED BY <1>3, <2>4, <2>6, <2>7 DEF Settled, Kept
  <1>. QED BY <1>2, <1>3 DEF EnforceIdentity

(* A request admitted and charged, on its way to an upstream. *)
Going(c) ==
  /\ Base(c) /\ c.ok /\ c.state \in {"handshake", "connecting"}
  /\ c.admitted /\ c.used = Payload(c)
  /\ c.sni => c.protocol # "HTTP_FORWARD"

(* The state is a field of its own. *)
LEMMA StateType ==
  ASSUME NEW c \in Record, NEW s \in States
  PROVE  [c EXCEPT !.state = s] \in Record
  BY ZenonT(60) DEF Record

(* So is the result. *)
LEMMA ResultType ==
  ASSUME NEW c \in Record, NEW r \in Results
  PROVE  [c EXCEPT !.result = r] \in Record
  BY ZenonT(60) DEF Record

(* A result other than OK keeps all of Base. *)
LEMMA ResultBase ==
  ASSUME NEW c, Base(c), NEW r \in Results \ {"OK"}
  PROVE  /\ Base([c EXCEPT !.result = r]) /\ [c EXCEPT !.result = r].result = r
         /\ [c EXCEPT !.result = r].state = c.state /\ Kept(c, [c EXCEPT !.result = r])
         /\ [c EXCEPT !.result = r].u2c = c.u2c /\ [c EXCEPT !.result = r].c2u = c.c2u
  <1>. DEFINE d == [c EXCEPT !.result = r]
  <1>1. c \in Record BY DEF Base
  <1>2. d \in Record BY <1>1, ResultType
  <1>3. Buffers(d) /\ Sockets(d) /\ Charged(d) /\ Guarded(d)
    BY <1>1, Numbers DEF Base, Record, Buffers, Sockets, Charged, Guarded, Payload
  <1>4. Ends(d) /\ Tidy(d)
    BY <1>1 DEF Base, Record, Ends, Tidy
  <1>5. d.result = r /\ d.state = c.state /\ Kept(c, d) /\ d.u2c = c.u2c /\ d.c2u = c.c2u
    BY <1>1 DEF Record, Kept
  <1>. QED BY <1>2, <1>3, <1>4, <1>5 DEF Base

(* Kept is transitive. *)
LEMMA KeptTrans ==
  ASSUME NEW c \in Record, NEW d \in Record, NEW e \in Record, Kept(c, d), Kept(d, e)
  PROVE  Kept(c, e)
  <1>1. c.u2c \in Int /\ d.u2c \in Int /\ e.u2c \in Int BY Counters
  <1>. QED BY <1>1 DEF Kept

(* egress_connection_connected: the relay, or its guard, starts. *)
LEMMA ConnectedRest ==
  ASSUME NEW c, Going(c), NEW d \in Connected(c)
  PROVE  Rest(d) /\ Kept(c, d)
  <1>. DEFINE answers == c.protocol \in {"HTTP_CONNECT", "SOCKS5"}
              s == IF c.protocol # "HTTP_FORWARD" /\ c.sni THEN "identity" ELSE "relay"
              e == [c EXCEPT !.state = s]
              g == IF answers THEN Queue(e) ELSE e
  <1>1. c \in Record BY DEF Going, Base
  <1>2. s \in {"identity", "relay"} /\ (s = "relay" => ~c.sni) BY DEF Going
  <1>3. s \in States BY <1>2, Values
  <1>. HIDE DEF s
  <1>4. e \in Record BY <1>1, <1>3, StateType
  <1>5. Buffers(e) /\ Sockets(e) /\ Charged(e) /\ Guarded(e)
    BY <1>1, <1>2, Numbers DEF Going, Base, Record, Buffers, Sockets, Charged, Guarded, Payload
  <1>6. Ends(e) /\ Tidy(e) /\ Unasked(e)
    BY <1>1, <1>2, ZenonT(60) DEF Going, Base, Record, Ends, Tidy, Unasked
  <1>7. e.ok /\ e.state = s /\ Kept(c, e) /\ ~e.client_shutdown /\ e.u2c <= Capacity
    BY <1>1, <1>2, <1>5, Numbers DEF Going, Base, Ends, Record, Kept, Buffers
  <1>8. Base(e) BY <1>4, <1>5, <1>6 DEF Base
  <1>9. \/ answers /\ e.u2c = Capacity /\ d = Close([e EXCEPT !.result = "MEMORY"])
        \/ /\ ~(answers /\ e.u2c = Capacity)
           /\ \E f \in EnforceIdentity(g) :
                \E x \in IF f.ok THEN UpdateWatches(f) ELSE {f} : d = CloseIfNotOk(x)
    BY DEF Connected, s
  <1>. HIDE DEF e
  <1>10. CASE answers /\ e.u2c = Capacity /\ d = Close([e EXCEPT !.result = "MEMORY"])
    <2>. DEFINE m == [e EXCEPT !.result = "MEMORY"]
    <2>1. Base(m) /\ m.result # "OK" /\ Kept(e, m)
      BY <1>8, ResultBase, Values
    <2>. HIDE DEF m
    <2>2. Rest(Close(m)) /\ Kept(m, Close(m))
      BY <2>1, CloseRest DEF Kept, Base, Record
    <2>3. m \in Record /\ Close(m) \in Record BY <2>1, <2>2 DEF Rest, Core, Base
    <2>4. d = Close(m) BY <1>10 DEF m
    <2>. QED BY <1>1, <1>4, <1>7, <2>1, <2>2, <2>3, <2>4, KeptTrans
  <1>11. CASE /\ ~(answers /\ e.u2c = Capacity)
              /\ \E f \in EnforceIdentity(g) :
                   \E x \in IF f.ok THEN UpdateWatches(f) ELSE {f} : d = CloseIfNotOk(x)
    <2>1. Core(g) /\ g.ok /\ Kept(c, g)
      <3>1. CASE answers
        <4>1. e.u2c < Capacity BY <1>4, <1>7, <1>11, <3>1, Numbers DEF Record
        <4>2. Base(Queue(e)) /\ Kept(e, Queue(e)) /\ Queue(e).state = e.state /\ Queue(e).ok = e.ok
          BY <1>2, <1>7, <1>8, <4>1, QueueBase, Zenon
        <4>3. Kept(c, Queue(e)) BY <1>1, <1>4, <1>7, <4>2, KeptTrans DEF Base
        <4>. QED BY <1>2, <1>7, <3>1, <4>2, <4>3, Zenon DEF Core, Unasked
      <3>2. CASE ~answers
        BY <1>2, <1>6, <1>7, <1>8, <3>2, Zenon DEF Core
      <3>. QED BY <3>1, <3>2, Zenon
    <2>. HIDE DEF g
    <2>2. PICK f \in EnforceIdentity(g) :
             \E x \in IF f.ok THEN UpdateWatches(f) ELSE {f} : d = CloseIfNotOk(x)
      BY <1>11, Zenon
    <2>3. PICK x \in IF f.ok THEN UpdateWatches(f) ELSE {f} : d = CloseIfNotOk(x)
      BY <2>2
    <2>4. f \in Record /\ Core(f) /\ Kept(c, f) /\ (~f.ok => f.unarmed)
      <3>1. f = g \/ Settled(g, f) BY <2>1, IdentitySettled
      <3>2. g \in Record BY <2>1 DEF Core, Base
      <3>3. CASE f = g BY <2>1, <3>2, <3>3
      <3>4. CASE Settled(g, f)
        <4>1. f \in Record BY <3>4, Zenon DEF Settled, Core, Base
        <4>. QED BY <1>1, <2>1, <3>2, <3>4, <4>1, KeptTrans DEF Settled
      <3>. QED BY <3>1, <3>3, <3>4
    <2>5. x \in Record /\ Core(x) /\ Kept(c, x) /\ (x.ok => Watched(x)) /\ (~x.ok => x.unarmed)
      <3>1. CASE f.ok
        <4>1. Core(x) /\ Kept(f, x) /\ (x.ok \/ x.unarmed) /\ (x.ok => Watched(x))
          BY <2>3, <2>4, <3>1, WatchesCore
        <4>2. x \in Record BY <4>1 DEF Core, Base
        <4>. QED BY <1>1, <2>4, <4>1, <4>2, KeptTrans
      <3>2. CASE ~f.ok BY <2>3, <2>4, <3>2
      <3>. QED BY <3>1, <3>2
    <2>6. CASE x.ok BY <2>3, <2>5, <2>6 DEF CloseIfNotOk, Rest
    <2>7. CASE ~x.ok
      <3>1. Rest(Close(x)) /\ Kept(x, Close(x))
        BY <2>5, <2>7, CloseRest DEF Kept, Core, Record
      <3>2. Close(x) \in Record BY <3>1, Zenon DEF Rest, Core, Base
      <3>. QED BY <1>1, <2>3, <2>5, <2>7, <3>1, <3>2, KeptTrans, SMTT(30) DEF CloseIfNotOk
    <2>. QED BY <2>6, <2>7
  <1>. QED BY <1>9, <1>10, <1>11

(* An attempt at an address keeps the type. *)
LEMMA TryType ==
  ASSUME NEW c \in Record, NEW i \in 0..Addresses
  PROVE  [c EXCEPT !.address_index = i, !.upstream = TRUE, !.aborted = FALSE, !.fin = FALSE] \in Record
  BY ZenonT(60) DEF Record

(* So does giving up on the addresses. *)
LEMMA AddressType ==
  ASSUME NEW c \in Record, NEW i \in 0..Addresses
  PROVE  [c EXCEPT !.address_index = i] \in Record
  BY ZenonT(60) DEF Record

(* connect_next: an address connects, is tried, or none is left. *)
LEMMA ConnectNextSettled ==
  ASSUME NEW c, Going(c), NEW d \in ConnectNext(c)
  PROVE  Settled(c, d) /\ (~d.ok => d.state \in {"handshake", "connecting"})
  <1>. DEFINE Try(i) == [c EXCEPT !.address_index = i, !.upstream = TRUE,
                                  !.aborted = FALSE, !.fin = FALSE]
              none == [c EXCEPT !.address_index = Addresses]
  <1>1. c \in Record /\ c.address_index \in 0..Addresses BY DEF Going, Base, Record
  <1>2. \/ \E i \in (c.address_index + 1)..Addresses :
             d \in Connected(Try(i)) \cup UpdateWatches([Try(i) EXCEPT !.state = "connecting"])
        \/ d \in UpdateWatches(egress_connection_fail(none, "IO"))
    BY Zenon DEF ConnectNext
  <1>3. ASSUME NEW i \in (c.address_index + 1)..Addresses,
               d \in Connected(Try(i)) \cup UpdateWatches([Try(i) EXCEPT !.state = "connecting"])
        PROVE  Settled(c, d) /\ (~d.ok => d.state = "connecting")
    <2>. DEFINE t == Try(i)
                e == [t EXCEPT !.state = "connecting"]
    <2>1. i \in 0..Addresses BY <1>1, Numbers
    <2>2. t \in Record BY <1>1, <2>1, TryType, Zenon
    <2>3. Buffers(t) /\ Sockets(t) /\ Charged(t) /\ Guarded(t)
      BY <1>1, Numbers DEF Going, Base, Record, Buffers, Sockets, Charged, Guarded, Payload
    <2>4. Ends(t) /\ Tidy(t)
      BY <1>1, ZenonT(60) DEF Going, Base, Record, Ends, Tidy
    <2>5. Kept(c, t) BY <1>1 DEF Kept, Record
    <2>6. Going(t)
      <3>1. /\ t.ok = c.ok /\ t.state = c.state /\ t.admitted = c.admitted /\ t.sni = c.sni
            /\ t.protocol = c.protocol /\ t.used = c.used /\ Payload(t) = Payload(c)
        BY <1>1 DEF Payload, Record
      <3>. QED BY <2>2, <2>3, <2>4, <3>1 DEF Going, Base
    <2>. HIDE DEF t
    <2>7. CASE d \in Connected(t)
      <3>1. Rest(d) /\ Kept(t, d) BY <2>6, <2>7, ConnectedRest
      <3>2. d \in Record BY <3>1, Zenon DEF Rest, Core, Base
      <3>3. Kept(c, d) BY <1>1, <2>2, <2>5, <3>1, <3>2, KeptTrans
      <3>. QED BY <3>1, <3>3 DEF Settled, Rest
    <2>8. CASE d \in UpdateWatches(e)
      <3>1. e \in Record BY <2>2, StateType, Values, SMTT(30)
      <3>2. Buffers(e) /\ Sockets(e) /\ Charged(e) /\ Guarded(e)
        BY <2>2, <2>6, Numbers DEF Going, Base, Record, Buffers, Sockets, Charged, Guarded, Payload
      <3>3. Ends(e) /\ Tidy(e) /\ Unasked(e)
        BY <2>2, <2>6, ZenonT(60) DEF Going, Base, Record, Ends, Tidy, Unasked
      <3>4. Kept(t, e) /\ e.ok /\ e.state = "connecting" BY <2>2, <2>6 DEF Kept, Record, Going
      <3>5. Core(e) BY <3>1, <3>2, <3>3 DEF Core, Base
      <3>. HIDE DEF e
      <3>6. /\ Core(d) /\ Kept(e, d) /\ (d.ok \/ d.unarmed) /\ d.state = "connecting"
            /\ d.ok => Watched(d)
        BY <2>8, <3>4, <3>5, WatchesCore, Zenon
      <3>7. d \in Record BY <3>6, Zenon DEF Core, Base
      <3>8. Kept(c, d) BY <1>1, <2>2, <2>5, <3>1, <3>4, <3>6, <3>7, KeptTrans
      <3>. QED BY <3>6, <3>8, Zenon DEF Settled
    <2>. QED BY <1>3, <2>7, <2>8 DEF t
  <1>4. CASE d \in UpdateWatches(egress_connection_fail(none, "IO"))
    <2>1. none \in Record BY <1>1, AddressType, Numbers
    <2>2. Buffers(none) /\ Sockets(none) /\ Charged(none) /\ Guarded(none)
      BY <1>1, Numbers DEF Going, Base, Record, Buffers, Sockets, Charged, Guarded, Payload
    <2>3. Ends(none) /\ Tidy(none)
      BY <1>1 DEF Going, Base, Record, Ends, Tidy
    <2>4. none.ok = c.ok /\ none.state = c.state /\ Kept(c, none) BY <1>1 DEF Kept, Record
    <2>5. Base(none) /\ none.ok /\ none.state \in {"handshake", "connecting", "identity"}
      BY <2>1, <2>2, <2>3, <2>4 DEF Base, Going
    <2>. HIDE DEF none
    <2>6. Settled(none, d) /\ d.state \in {c.state, "unused"}
      BY <1>4, <2>4, <2>5, FailSettled, Values, Zenon
    <2>7. d \in Record BY <2>6, Zenon DEF Settled, Core, Base
    <2>8. Kept(c, d) BY <1>1, <2>1, <2>4, <2>6, <2>7, KeptTrans DEF Settled
    <2>. QED BY <2>6, <2>8, Zenon DEF Settled, Going
  <1>. QED BY <1>2, <1>3, <1>4, Zenon

(* A charge keeps the type. *)
LEMMA ChargedType ==
  ASSUME NEW c \in Record, NEW x \in Int, NEW y \in Int
  PROVE  [c EXCEPT !.used = x, !.total = y] \in Record
  BY ZenonT(60) DEF Record

(* A charge within the allowance is exact for the stream, and for a principal *)
(* that has a ceiling.                                                        *)
LEMMA ChargeExact ==
  ASSUME NEW c \in Record, c.admitted, NEW n \in Nat, c.used \in 0..U64Max, c.total \in 0..U64Max,
         c.used + n <= U64Max, MaxTotal # 0 => c.total + n <= MaxTotal
  PROVE  \E t \in 0..U64Max : /\ Charge(c, n) = [c EXCEPT !.used = c.used + n, !.total = t]
                              /\ MaxTotal # 0 => t <= MaxTotal
  <1>. DEFINE t == AddSaturating(c.total, n)
              u == AddSaturating(c.used, n)
  <1>1. t \in 0..U64Max BY AddType, Zenon
  <1>2. MaxTotal # 0 => t <= MaxTotal
    BY Numbers, AddExact
  <1>3. u = c.used + n BY AddExact
  <1>4. Charge(c, n) = [c EXCEPT !.used = u, !.total = t]
    BY DEF Charge, Record
  <1>. HIDE DEF t, u
  <1>5. Charge(c, n) = [c EXCEPT !.used = c.used + n, !.total = t]
    BY <1>3, <1>4
  <1>. QED BY <1>1, <1>2, <1>5, Zenon

(* A request that is admitted consumes its bytes and keeps the type. *)
LEMMA AdmitType ==
  ASSUME NEW c \in Record, NEW x \in Int, NEW y \in Int
  PROVE  [c EXCEPT !.admitted = TRUE, !.framing = x, !.c2u = y] \in Record
  BY ZenonT(60) DEF Record

(* A denial keeps the type. *)
LEMMA DenyType ==
  ASSUME NEW c \in Record, NEW x \in Scopes
  PROVE  [c EXCEPT !.scope = x, !.result = "DENIED"] \in Record
  BY Values, ZenonT(60) DEF Record

(* egress_quota_deny keeps the first scope, and the result is not OK. *)
LEMMA DenyBase ==
  ASSUME NEW c, Base(c), NEW scope \in Scopes, NEW d, d = egress_quota_deny(c, scope)
  PROVE  /\ Base(d) /\ Kept(c, d) /\ d.state = c.state /\ d.ok = c.ok /\ d.result # "OK"
         /\ d.u2c = c.u2c /\ d.c2u = c.c2u
  <1>. DEFINE s == IF c.scope = "NONE" THEN scope ELSE c.scope
  <1>1. c \in Record BY DEF Base
  <1>2. s \in Scopes BY <1>1 DEF Record
  <1>3. d = [c EXCEPT !.scope = s, !.result = "DENIED"]
    BY <1>1 DEF egress_quota_deny, Record
  <1>. HIDE DEF s
  <1>4. d \in Record
    <2>1. [c EXCEPT !.scope = s, !.result = "DENIED"] \in Record BY <1>1, <1>2, DenyType, Zenon
    <2>. QED BY <1>3, <2>1, SMTT(30)
  <1>5. Buffers(d) /\ Sockets(d) /\ Charged(d) /\ Guarded(d)
    BY <1>1, <1>3, Numbers DEF Base, Record, Buffers, Sockets, Charged, Guarded, Payload
  <1>6. Ends(d) /\ Tidy(d)
    BY <1>1, <1>3 DEF Base, Record, Ends, Tidy
  <1>7. /\ Kept(c, d) /\ d.state = c.state /\ d.ok = c.ok /\ d.result # "OK"
        /\ d.u2c = c.u2c /\ d.c2u = c.c2u
    BY <1>1, <1>3 DEF Record, Kept
  <1>. QED BY <1>4, <1>5, <1>6, <1>7, Zenon DEF Base

(* The scope is a field of its own. *)
LEMMA ScopeType ==
  ASSUME NEW c \in Record, NEW x \in Scopes
  PROVE  [c EXCEPT !.scope = x] \in Record
  BY ZenonT(60) DEF Record

(* Naming it changes nothing else. *)
LEMMA ScopeBase ==
  ASSUME NEW c, Base(c), NEW d, d = [c EXCEPT !.scope = "ACTIVE_CONNECTIONS"]
  PROVE  Base(d) /\ Kept(c, d) /\ d.state = c.state /\ d.ok = c.ok
  <1>1. c \in Record BY DEF Base
  <1>2. d \in Record
    <2>1. "ACTIVE_CONNECTIONS" \in Scopes BY Zenon DEF Scopes
    <2>. QED BY <1>1, <2>1, ScopeType, Zenon
  <1>3. Buffers(d) /\ Sockets(d) /\ Charged(d) /\ Guarded(d)
    BY <1>1, Numbers DEF Base, Record, Buffers, Sockets, Charged, Guarded, Payload
  <1>4. Ends(d) /\ Tidy(d) BY <1>1 DEF Base, Record, Ends, Tidy
  <1>5. Kept(c, d) /\ d.state = c.state /\ d.ok = c.ok BY <1>1 DEF Record, Kept
  <1>. QED BY <1>2, <1>3, <1>4, <1>5, Zenon DEF Base

(* A request that does not fit the buffer keeps the type. *)
LEMMA NoRoomType ==
  ASSUME NEW c \in Record
  PROVE  [c EXCEPT !.admitted = TRUE, !.ok = FALSE] \in Record
  BY ZenonT(60) DEF Record

(* begin_request refuses, is denied by the quota, or connects. *)
LEMMA BeginRequestCore ==
  ASSUME NEW c, Core(c), c.ok, c.state = "handshake", ~c.close_after_flush,
         NEW consumed \in 0..1, NEW forward \in 0..2,
         consumed = 0 => forward = 0, consumed <= c.c2u,
         NEW d \in BeginRequest(c, consumed, forward)
  PROVE  /\ Core(d) /\ Kept(c, d)
         /\ d.ok => Watched(d)
         /\ ~d.ok => d.state \in {"handshake", "connecting"}
  <1>. DEFINE a == [c EXCEPT !.admitted = TRUE, !.framing = @ + consumed - forward,
                             !.c2u = @ - consumed + forward]
              scope == Allowed(a).scope
              amount == Allowed(a).amount
              denied == egress_quota_deny(a, scope)
              g == Charge(a, a.c2u)
              x == c.framing + consumed - forward
              y == c.c2u - consumed + forward
  <1>1. c \in Record /\ Base(c) BY Zenon DEF Core, Base
  <1>2. c.framing \in Int /\ c.c2u \in Int /\ x \in Int /\ y \in Int BY <1>1 DEF Record
  <1>3. ASSUME NEW r \in {c, [c EXCEPT !.scope = "ACTIVE_CONNECTIONS"]},
               d \in UpdateWatches(egress_connection_fail(r, "DENIED"))
        PROVE  /\ Core(d) /\ Kept(c, d)
               /\ d.ok => Watched(d)
               /\ ~d.ok => d.state \in {"handshake", "connecting"}
    <2>1. Base(r) /\ Kept(c, r) /\ r.state = "handshake" /\ r.ok
      <3>1. CASE r = c BY <1>1, <3>1 DEF Kept, Record
      <3>2. CASE r = [c EXCEPT !.scope = "ACTIVE_CONNECTIONS"] BY <1>1, <3>2, ScopeBase
      <3>. QED BY <3>1, <3>2
    <2>2. Settled(r, d) /\ d.state \in {"handshake", "unused"}
      BY <1>3, <2>1, FailSettled, Values, Zenon
    <2>3. r \in Record /\ d \in Record BY <2>1, <2>2, Zenon DEF Settled, Core, Base
    <2>4. Kept(c, d) BY <1>1, <2>1, <2>2, <2>3, KeptTrans DEF Settled
    <2>. QED BY <2>2, <2>4, Zenon DEF Settled
  <1>4. \/ \E r \in {c, [c EXCEPT !.scope = "ACTIVE_CONNECTIONS"]} :
             d \in UpdateWatches(egress_connection_fail(r, "DENIED"))
        \/ /\ ~(c.sni /\ c.protocol = "HTTP_FORWARD")
           /\ \/ d = [c EXCEPT !.admitted = TRUE, !.ok = FALSE]
              \/ ~(a.c2u > Capacity) /\ d \in UpdateWatches(egress_connection_fail(denied, "DENIED"))
              \/ ~(a.c2u > Capacity) /\ ~(a.c2u > amount) /\ d \in ConnectNext(g)
    <2>1. d \in RequestRefused(c) =>
            \E r \in {c, [c EXCEPT !.scope = "ACTIVE_CONNECTIONS"]} :
              d \in UpdateWatches(egress_connection_fail(r, "DENIED"))
      BY Zenon DEF RequestRefused
    <2>2. d \in RequestAdmitted(c, consumed, forward) =>
            \/ d = [c EXCEPT !.admitted = TRUE, !.ok = FALSE]
            \/ ~(a.c2u > Capacity) /\ d \in UpdateWatches(egress_connection_fail(denied, "DENIED"))
            \/ ~(a.c2u > Capacity) /\ ~(a.c2u > amount) /\ d \in ConnectNext(g)
      BY Zenon DEF RequestAdmitted
    <2>3. \/ d \in RequestRefused(c)
          \/ ~(c.sni /\ c.protocol = "HTTP_FORWARD") /\ d \in RequestAdmitted(c, consumed, forward)
      BY ZenonT(60) DEF BeginRequest
    <2>. HIDE DEF a, denied, amount, g
    <2>. QED BY <2>1, <2>2, <2>3, Zenon
  <1>5. CASE d = [c EXCEPT !.admitted = TRUE, !.ok = FALSE]
    <2>1. d \in Record BY <1>1, <1>5, NoRoomType, Zenon
    <2>2. Buffers(d) /\ Sockets(d) /\ Charged(d) /\ Guarded(d)
      BY <1>1, <1>5, Numbers DEF Base, Record, Buffers, Sockets, Charged, Guarded, Payload
    <2>3. Ends(d) /\ Tidy(d) /\ Unasked(d)
      BY <1>1, <1>5, ZenonT(60) DEF Base, Record, Ends, Tidy, Unasked
    <2>4. Kept(c, d) /\ ~d.ok /\ d.state = "handshake" BY <1>1, <1>5 DEF Record, Kept
    <2>. QED BY <2>1, <2>2, <2>3, <2>4, Zenon DEF Core, Base
  <1>6. a = [c EXCEPT !.admitted = TRUE, !.framing = x, !.c2u = y]
    BY <1>1 DEF Record
  <1>. HIDE DEF a
  <1>7. ASSUME ~(a.c2u > Capacity), ~(c.sni /\ c.protocol = "HTTP_FORWARD")
        PROVE  /\ Base(a) /\ Kept(c, a) /\ a.state = "handshake" /\ a.ok /\ a.admitted
               /\ a.used = 0 /\ Payload(a) = a.c2u /\ a.c2u = y
               /\ a.sni => a.protocol # "HTTP_FORWARD"
    <2>1. a \in Record
      <3>. HIDE DEF x, y
      <3>. QED BY <1>1, <1>2, <1>6, AdmitType, Zenon
    <2>2. Buffers(a) /\ Sockets(a) /\ Charged(a) /\ Guarded(a)
      BY <1>1, <1>6, <1>7, Numbers, SMTT(30)
      DEF Core, Base, Unasked, Record, Buffers, Sockets, Charged, Guarded, Payload
    <2>3. Ends(a) /\ Tidy(a)
      BY <1>1, <1>6, ZenonT(60) DEF Core, Base, Unasked, Record, Ends, Tidy
    <2>4. /\ Kept(c, a) /\ a.state = "handshake" /\ a.ok /\ a.admitted /\ a.used = 0
          /\ a.sni => a.protocol # "HTTP_FORWARD"
      BY <1>1, <1>6, <1>7 DEF Core, Unasked, Record, Kept
    <2>5. Payload(a) = a.c2u /\ a.c2u = y
      BY <1>1, <1>6 DEF Base, Tidy, Record, Payload
    <2>. QED BY <2>1, <2>2, <2>3, <2>4, <2>5, Zenon DEF Base
  <1>8. ASSUME ~(c.sni /\ c.protocol = "HTTP_FORWARD"), ~(a.c2u > Capacity),
               d \in UpdateWatches(egress_connection_fail(denied, "DENIED"))
        PROVE  /\ Core(d) /\ Kept(c, d)
               /\ d.ok => Watched(d)
               /\ ~d.ok => d.state \in {"handshake", "connecting"}
    <2>1. Base(a) /\ Kept(c, a) /\ a.state = "handshake" /\ a.ok BY <1>7, <1>8, Zenon
    <2>2. Base(denied) /\ Kept(a, denied) /\ denied.state = "handshake" /\ denied.ok
      BY <2>1, AllowedType, DenyBase
    <2>. HIDE DEF denied
    <2>3. Settled(denied, d) /\ d.state \in {"handshake", "unused"}
      BY <1>8, <2>2, FailSettled, Values, Zenon
    <2>4. a \in Record /\ denied \in Record /\ d \in Record
      BY <2>1, <2>2, <2>3, Zenon DEF Settled, Core, Base
    <2>5. Kept(c, d) BY <1>1, <2>1, <2>2, <2>3, <2>4, KeptTrans DEF Settled
    <2>. QED BY <2>3, <2>5, Zenon DEF Settled
  <1>9. ASSUME ~(c.sni /\ c.protocol = "HTTP_FORWARD"), ~(a.c2u > Capacity), ~(a.c2u > amount),
               d \in ConnectNext(g)
        PROVE  /\ Core(d) /\ Kept(c, d)
               /\ d.ok => Watched(d)
               /\ ~d.ok => d.state \in {"handshake", "connecting"}
    <2>1. /\ Base(a) /\ Kept(c, a) /\ a.state = "handshake" /\ a.ok /\ a.admitted
          /\ a.used = 0 /\ Payload(a) = a.c2u
          /\ a.sni => a.protocol # "HTTP_FORWARD"
      BY <1>7, <1>9, Zenon
    <2>2. a \in Record /\ a.c2u \in Nat /\ a.total \in 0..U64Max
      BY <2>1, Numbers, SMTT(30) DEF Base, Record, Buffers, Charged
    <2>3. /\ amount \in 0..U64Max
          /\ MaxStream # 0 => amount <= MaxStream
          /\ MaxTotal # 0 => amount <= MaxTotal - a.total
      BY <2>1, <2>2, AllowedType, Numbers, SMTT(30)
    <2>. HIDE DEF amount
    <2>4. /\ a.c2u <= U64Max /\ (MaxStream # 0 => a.c2u <= MaxStream)
          /\ MaxTotal # 0 => a.total + a.c2u <= MaxTotal
      BY <1>9, <2>2, <2>3, Numbers
    <2>5. PICK t \in 0..U64Max : /\ g = [a EXCEPT !.used = a.c2u, !.total = t]
                                 /\ MaxTotal # 0 => t <= MaxTotal
      <3>1. a.used \in 0..U64Max /\ a.used + a.c2u = a.c2u /\ a.used + a.c2u <= U64Max
        BY <2>1, <2>2, <2>4, Numbers
      <3>2. \E t \in 0..U64Max : /\ g = [a EXCEPT !.used = a.used + a.c2u, !.total = t]
                                 /\ MaxTotal # 0 => t <= MaxTotal
        BY <2>1, <2>2, <2>4, <3>1, ChargeExact, Zenon
      <3>. HIDE DEF g
      <3>. QED BY <3>1, <3>2, Zenon
    <2>. HIDE DEF g
    <2>6. g \in Record
      <3>1. a.c2u \in Int /\ t \in Int BY <2>2, Numbers
      <3>. QED BY <2>2, <2>5, <3>1, ChargedType, Zenon
    <2>7. Buffers(g) /\ Sockets(g) /\ Charged(g) /\ Guarded(g)
      BY <2>1, <2>2, <2>4, <2>5, Numbers
      DEF Base, Record, Buffers, Sockets, Charged, Guarded, Payload
    <2>8. Ends(g) /\ Tidy(g)
      BY <2>1, <2>2, <2>5 DEF Base, Record, Ends, Tidy
    <2>9. /\ Kept(a, g) /\ g.ok /\ g.state = "handshake" /\ g.admitted /\ g.used = Payload(g)
          /\ g.sni => g.protocol # "HTTP_FORWARD"
      BY <2>1, <2>2, <2>5 DEF Record, Kept, Payload
    <2>10. Going(g) BY <2>6, <2>7, <2>8, <2>9, Zenon DEF Going, Base
    <2>11. Settled(g, d) /\ (~d.ok => d.state \in {"handshake", "connecting"})
      BY <1>9, <2>10, ConnectNextSettled, Zenon
    <2>12. d \in Record BY <2>11, Zenon DEF Settled, Core, Base
    <2>13. Kept(c, d) BY <1>1, <2>1, <2>2, <2>6, <2>9, <2>11, <2>12, KeptTrans DEF Settled
    <2>. QED BY <2>11, <2>13, Zenon DEF Settled
  <1>. QED BY <1>3, <1>4, <1>5, <1>8, <1>9
-----------------------------------------------------------------------------
(* The handshake. *)

(* What a handshake leaves alone: the protocol is found out in it. *)
Onward(c, d) ==
  /\ d.u2c >= c.u2c /\ d.to_client = c.to_client
  /\ c.state # "new" => d.state # "new"

(* Onward is transitive, and weaker than Kept. *)
LEMMA OnwardTrans ==
  ASSUME NEW c \in Record, NEW d \in Record, NEW e \in Record, Onward(c, d),
         Onward(d, e) \/ Kept(d, e)
  PROVE  Onward(c, e)
  <1>1. c.u2c \in Int /\ d.u2c \in Int /\ e.u2c \in Int BY Counters
  <1>. QED BY <1>1 DEF Onward, Kept

(* A handshake that goes on. *)
Talking(c) == Core(c) /\ c.ok /\ c.state = "handshake" /\ ~c.close_after_flush

(* The protocol is a field of its own. *)
LEMMA ProtocolType ==
  ASSUME NEW c \in Record, NEW p \in Protocols \cup {"NONE", "HTTP_CONNECT"}
  PROVE  [c EXCEPT !.protocol = p] \in Record
  BY ZenonT(60) DEF Record

(* It is known before the request is. *)
LEMMA ProtocolTalking ==
  ASSUME NEW c, Talking(c), NEW p \in Protocols \cup {"NONE", "HTTP_CONNECT"}
  PROVE  LET d == [c EXCEPT !.protocol = p] IN
         /\ Talking(d) /\ Onward(c, d) /\ d.protocol = p /\ d.c2u = c.c2u /\ d.u2c = c.u2c
         /\ d.socks_phase = c.socks_phase
  <1>. DEFINE d == [c EXCEPT !.protocol = p]
  <1>1. c \in Record BY Zenon DEF Talking, Core, Base
  <1>2. d \in Record BY <1>1, ProtocolType
  <1>3. Buffers(d) /\ Sockets(d) /\ Charged(d) /\ Guarded(d)
    BY <1>1, Numbers DEF Talking, Core, Base, Record, Buffers, Sockets, Charged, Guarded, Payload
  <1>4. Ends(d) /\ Tidy(d) /\ Unasked(d)
    BY <1>1, ZenonT(60) DEF Talking, Core, Base, Record, Ends, Tidy, Unasked
  <1>5. /\ Onward(c, d) /\ d.protocol = p /\ d.c2u = c.c2u /\ d.u2c = c.u2c /\ d.ok
        /\ d.state = "handshake" /\ ~d.close_after_flush /\ d.socks_phase = c.socks_phase
    BY <1>1 DEF Talking, Record, Onward
  <1>. QED BY <1>2, <1>3, <1>4, <1>5 DEF Talking, Core, Base

(* A frame of the handshake consumes a unit. *)
LEMMA AnswerType ==
  ASSUME NEW c \in Record, NEW p \in 0..2, NEW x \in Int, NEW y \in Int
  PROVE  [c EXCEPT !.socks_phase = p, !.c2u = x, !.framing = y] \in Record
  BY ZenonT(60) DEF Record

(* It is answered, once in each phase. *)
LEMMA AnswerTalking ==
  ASSUME NEW c, Talking(c), c.c2u > 0, c.socks_phase < 2, NEW p \in 0..2
  PROVE  LET d == SocksAnswer(c, p) IN
         /\ Base(d) /\ d.ok /\ d.state = "handshake" /\ Onward(c, d) /\ d.protocol = c.protocol
         /\ p > c.socks_phase => Talking(d)
  <1>. DEFINE q == Queue(c)
              d == SocksAnswer(c, p)
              x == q.c2u - 1
              y == q.framing + 1
  <1>1. c \in Record BY Zenon DEF Talking, Core, Base
  <1>2. c.socks_phase \in 0..2 /\ c.u2c \in Int /\ c.framing \in Int /\ c.c2u \in Int
    BY <1>1 DEF Record
  <1>3. /\ c.u2c <= c.socks_phase /\ 0 <= c.framing /\ c.framing <= c.socks_phase
        /\ ~c.admitted /\ c.used = 0 /\ ~c.upstream /\ ~c.fin /\ ~c.client_shutdown
    BY <1>1 DEF Talking, Core, Unasked, Base, Ends, Record
  <1>4. c.u2c < Capacity BY <1>2, <1>3, Numbers
  <1>5. /\ Base(q) /\ Kept(c, q) /\ q.state = "handshake" /\ q.ok /\ ~q.close_after_flush
        /\ q.u2c = c.u2c + 1
    BY <1>3, <1>4, QueueBase DEF Talking, Core
  <1>6. /\ q.c2u = c.c2u /\ q.framing = c.framing /\ ~q.admitted /\ q.used = 0 /\ ~q.upstream
        /\ ~q.fin /\ q.protocol = c.protocol
    BY <1>1, <1>3 DEF Queue, Record
  <1>. HIDE DEF q
  <1>7. q \in Record /\ q.c2u \in Int /\ q.framing \in Int /\ x \in Int /\ y \in Int
    BY <1>5 DEF Base, Record
  <1>8. d = [q EXCEPT !.socks_phase = p, !.c2u = x, !.framing = y]
    BY <1>7 DEF Record, SocksAnswer, q
  <1>9. d \in Record
    <2>. HIDE DEF x, y, d
    <2>. QED BY <1>7, <1>8, AnswerType, Zenon
  <1>. HIDE DEF d
  <1>10. Buffers(d)
    BY <1>2, <1>3, <1>5, <1>6, <1>7, <1>8, Numbers DEF Base, Record, Buffers
  <1>11. Sockets(d) /\ Charged(d) /\ Guarded(d)
    BY <1>5, <1>6, <1>7, <1>8, Numbers DEF Base, Record, Sockets, Charged, Guarded, Payload
  <1>12. Ends(d) /\ Tidy(d)
    BY <1>5, <1>6, <1>7, <1>8, Numbers DEF Base, Record, Ends, Tidy
  <1>13. /\ d.ok /\ d.state = "handshake" /\ ~d.close_after_flush /\ d.protocol = c.protocol
         /\ Onward(q, d)
    BY <1>5, <1>6, <1>7, <1>8 DEF Record, Onward
  <1>14. Onward(c, d) BY <1>1, <1>5, <1>7, <1>9, <1>13, OnwardTrans DEF Onward, Kept
  <1>15. ASSUME p > c.socks_phase PROVE Unasked(d)
    BY <1>2, <1>3, <1>5, <1>6, <1>7, <1>8, <1>15 DEF Record, Unasked
  <1>. QED BY <1>9, <1>10, <1>11, <1>12, <1>13, <1>14, <1>15, Zenon DEF Talking, Core, Base, d

(* A refused frame ends the connection once its answer is out. *)
LEMMA RefusedType ==
  ASSUME NEW c \in Record, NEW r \in Results
  PROVE  [c EXCEPT !.result = r, !.close_after_flush = TRUE] \in Record
  BY ZenonT(60) DEF Record

(* So its result is not OK. *)
LEMMA RefusedCore ==
  ASSUME NEW c, Base(c), c.ok, c.state = "handshake", NEW r \in {"DENIED", "PROTOCOL"}
  PROVE  LET d == [c EXCEPT !.result = r, !.close_after_flush = TRUE] IN
         Core(d) /\ Onward(c, d)
  <1>. DEFINE d == [c EXCEPT !.result = r, !.close_after_flush = TRUE]
  <1>1. c \in Record /\ r \in Results BY Values, Zenon DEF Base
  <1>2. d \in Record BY <1>1, RefusedType, Zenon
  <1>3. Buffers(d) /\ Sockets(d) /\ Charged(d) /\ Guarded(d)
    BY <1>1, Numbers DEF Base, Record, Buffers, Sockets, Charged, Guarded, Payload
  <1>4. Ends(d) /\ Tidy(d) /\ Unasked(d)
    BY <1>1, ZenonT(60) DEF Base, Record, Ends, Tidy, Unasked
  <1>5. Onward(c, d) BY <1>1 DEF Onward, Record
  <1>. QED BY <1>2, <1>3, <1>4, <1>5 DEF Core, Base

(* ok is the dispatcher's own. *)
LEMMA NotOkType ==
  ASSUME NEW c \in Record
  PROVE  [c EXCEPT !.ok = FALSE] \in Record
  BY ZenonT(60) DEF Record

(* What failed will be closed. *)
LEMMA NotOkCore ==
  ASSUME NEW c, Base(c), c.state # "unused"
  PROVE  LET d == [c EXCEPT !.ok = FALSE] IN
         /\ Core(d) /\ Onward(c, d) /\ Kept(c, d) /\ ~d.ok /\ d.c2u = c.c2u /\ d.u2c = c.u2c
         /\ d.state = c.state
  <1>. DEFINE d == [c EXCEPT !.ok = FALSE]
  <1>1. c \in Record BY DEF Base
  <1>2. d \in Record BY <1>1, NotOkType
  <1>3. Buffers(d) /\ Sockets(d) /\ Charged(d) /\ Guarded(d)
    BY <1>1, Numbers DEF Base, Record, Buffers, Sockets, Charged, Guarded, Payload
  <1>4. Ends(d) /\ Tidy(d) /\ Unasked(d)
    BY <1>1 DEF Base, Record, Ends, Tidy, Unasked
  <1>5. /\ Onward(c, d) /\ Kept(c, d) /\ ~d.ok /\ d.c2u = c.c2u /\ d.u2c = c.u2c
        /\ d.state = c.state
    BY <1>1 DEF Onward, Kept, Record
  <1>. QED BY <1>2, <1>3, <1>4, <1>5 DEF Core, Base

(* A frame that is answered leads on. *)
LEMMA FrameTalking ==
  ASSUME NEW c, Talking(c), NEW d \in SocksFrame(c)
  PROVE  Talking(d) /\ Onward(c, d) /\ d.protocol = c.protocol
  <1>1. PICK p \in 1..2 : p > c.socks_phase /\ d = SocksAnswer(c, p)
    BY Zenon DEF SocksFrame
  <1>2. c.c2u # 0 BY Zenon DEF SocksFrame
  <1>3. c \in Record /\ Buffers(c) BY Zenon DEF Talking, Core, Base
  <1>4. c.socks_phase \in 0..2 /\ c.c2u \in Int BY <1>3 DEF Record
  <1>5. c.c2u > 0 /\ c.socks_phase < 2 /\ p \in 0..2 BY <1>1, <1>2, <1>3, <1>4 DEF Buffers
  <1>. QED BY <1>1, <1>5, AnswerTalking, Zenon

(* parse_socks. *)
LEMMA SocksCore ==
  ASSUME NEW c, Talking(c), c.c2u > 0, c.speaks = "SOCKS5", NEW d \in Socks(c)
  PROVE  Core(d) /\ Onward(c, d)
  <1>. DEFINE s == [c EXCEPT !.protocol = "SOCKS5"]
              second == SocksFrame(s)
              frames == SocksFrames(s)
  <1>1. c \in Record BY Zenon DEF Talking, Core, Base
  <1>2. "SOCKS5" \in Protocols
    BY <1>1, ZenonT(60) DEF Record
  <1>3. Talking(s) /\ Onward(c, s) /\ s.protocol = "SOCKS5"
    BY <1>2, ProtocolTalking
  <1>4. \/ d \in frames
        \/ \E x \in frames : x.c2u > 0 /\ d \in SocksRefusal(x)
        \/ \E x \in frames : x.c2u > 0 /\ d \in SocksRequest(x)
    <2>. DEFINE asked == {x \in frames : x.c2u > 0}
    <2>1. Socks(c) = frames \cup
            UNION {SocksRefusal(x) \cup (IF x.socks_phase = 2 THEN SocksRequest(x) ELSE {}) : x \in asked}
      BY Zenon DEF Socks
    <2>. HIDE DEF frames
    <2>. QED BY <2>1, Zenon
  <1>. HIDE DEF s
  <1>5. s \in Record BY <1>3, Zenon DEF Talking, Core, Base
  <1>6. ASSUME NEW x \in second
        PROVE  Talking(x) /\ Onward(c, x) /\ x.protocol = "SOCKS5" /\ x \in Record
    <2>1. Talking(x) /\ Onward(s, x) /\ x.protocol = s.protocol BY <1>3, <1>6, FrameTalking, Zenon
    <2>2. x \in Record BY <2>1, Zenon DEF Talking, Core, Base
    <2>3. Onward(c, x) BY <1>1, <1>3, <1>5, <2>1, <2>2, OnwardTrans, Zenon
    <2>. QED BY <1>3, <2>1, <2>2, <2>3, Zenon
  <1>7. ASSUME NEW x \in frames
        PROVE  Talking(x) /\ Onward(c, x) /\ x.protocol = "SOCKS5" /\ x \in Record
    <2>. HIDE DEF second
    <2>1. x = s \/ x \in second \/ \E y \in second : x \in SocksFrame(y)
      BY <1>7, Zenon DEF SocksFrames, second
    <2>2. ASSUME NEW y \in second, x \in SocksFrame(y)
          PROVE  Talking(x) /\ Onward(c, x) /\ x.protocol = "SOCKS5" /\ x \in Record
      <3>1. Talking(y) /\ Onward(c, y) /\ y.protocol = "SOCKS5" /\ y \in Record BY <1>6, Zenon
      <3>2. Talking(x) /\ Onward(y, x) /\ x.protocol = y.protocol BY <2>2, <3>1, FrameTalking, Zenon
      <3>3. x \in Record BY <3>2, Zenon DEF Talking, Core, Base
      <3>4. Onward(c, x) BY <1>1, <3>1, <3>2, <3>3, OnwardTrans, ZenonT(60)
      <3>. QED BY <3>1, <3>2, <3>3, <3>4, Zenon
    <2>. QED BY <1>3, <1>5, <1>6, <2>1, <2>2, Zenon
  <1>. HIDE DEF frames, second
  <1>8. CASE d \in frames BY <1>7, <1>8, Zenon DEF Talking
  <1>9. ASSUME NEW x \in frames, x.c2u > 0, d \in SocksRefusal(x)
        PROVE  Core(d) /\ Onward(c, d)
    <2>. DEFINE a == SocksAnswer(x, x.socks_phase)
    <2>1. Talking(x) /\ Onward(c, x) /\ x \in Record BY <1>7, Zenon
    <2>2. PICK r \in {"DENIED", "PROTOCOL"}, e \in {x, a} :
            /\ d = [e EXCEPT !.result = r, !.close_after_flush = TRUE]
            /\ e = x \/ x.socks_phase \in {0, 1}
      <3>1. \/ d = [x EXCEPT !.result = "PROTOCOL", !.close_after_flush = TRUE]
            \/ /\ x.socks_phase = 0
               /\ d = [SocksAnswer(x, 0) EXCEPT !.result = "PROTOCOL", !.close_after_flush = TRUE]
            \/ /\ x.socks_phase = 1
               /\ d = [SocksAnswer(x, 1) EXCEPT !.result = "DENIED", !.close_after_flush = TRUE]
        BY <1>9, Zenon DEF SocksRefusal
      <3>. QED BY <3>1, Zenon
    <2>3. Base(e) /\ e.ok /\ e.state = "handshake" /\ Onward(x, e)
      <3>1. CASE e = x
        <4>1. Onward(x, x) BY <2>1, Counters DEF Onward
        <4>. QED BY <2>1, <3>1, <4>1, Zenon DEF Talking, Core
      <3>2. CASE e = a /\ x.socks_phase \in {0, 1}
        <4>1. x.socks_phase < 2 /\ x.socks_phase \in 0..2 BY <3>2
        <4>. QED BY <1>9, <2>1, <3>2, <4>1, AnswerTalking, Zenon
      <3>. QED BY <2>2, <3>1, <3>2, Zenon
    <2>. HIDE DEF a
    <2>4. Core(d) /\ Onward(e, d) BY <2>2, <2>3, RefusedCore, Zenon
    <2>5. e \in Record /\ d \in Record BY <2>3, <2>4, Zenon DEF Core, Base
    <2>6. Onward(c, e) BY <1>1, <2>1, <2>3, <2>5, OnwardTrans, Zenon
    <2>. QED BY <1>1, <2>4, <2>5, <2>6, OnwardTrans, Zenon
  <1>10. ASSUME NEW x \in frames, x.c2u > 0, d \in SocksRequest(x)
        PROVE  Core(d) /\ Onward(c, d)
    <2>1. Talking(x) /\ Onward(c, x) /\ x \in Record /\ x.protocol = "SOCKS5" /\ x.c2u \in Int
      BY <1>7 DEF Record
    <2>2. PICK e \in BeginRequest(x, 1, 0) :
            d = IF e.ok THEN e ELSE [egress_connection_fail(e, "PROTOCOL") EXCEPT !.ok = FALSE]
      BY <1>10 DEF SocksRequest
    <2>3. Core(e) /\ Kept(x, e) /\ (~e.ok => e.state \in {"handshake", "connecting"})
      BY <1>10, <2>1, BeginRequestCore DEF Talking
    <2>4. e \in Record BY <2>3, Zenon DEF Core, Base
    <2>5. Onward(c, e) BY <1>1, <2>1, <2>3, <2>4, OnwardTrans, SMTT(30)
    <2>6. CASE e.ok BY <2>2, <2>3, <2>5, <2>6
    <2>7. CASE ~e.ok
      <3>. DEFINE f == egress_connection_fail(e, "PROTOCOL")
      <3>1. e.protocol # "CONNECTOR" BY <2>1, <2>3, Zenon DEF Kept
      <3>2. Core(f) /\ Kept(e, f) /\ f.state = e.state
        BY <2>3, <2>7, <3>1, FailCore, Values, Zenon DEF Core
      <3>. HIDE DEF f
      <3>3. f.state # "unused" BY <2>3, <2>7, <3>2, Zenon
      <3>4. f \in Record BY <3>2, Zenon DEF Core, Base
      <3>5. d = [f EXCEPT !.ok = FALSE] BY <2>2, <2>7 DEF f
      <3>6. Core(d) /\ Onward(f, d) BY <3>2, <3>3, <3>5, NotOkCore, Zenon DEF Core
      <3>7. d \in Record BY <3>6, Zenon DEF Core, Base
      <3>8. Onward(c, f) BY <1>1, <2>4, <2>5, <3>2, <3>4, OnwardTrans, SMTT(30)
      <3>. QED BY <1>1, <3>4, <3>6, <3>7, <3>8, OnwardTrans
    <2>. QED BY <2>6, <2>7, Zenon
  <1>. QED BY <1>4, <1>8, <1>9, <1>10, Zenon

(* egress_parse_http_request and what follows it. *)
LEMMA HttpCore ==
  ASSUME NEW c, Talking(c), c.c2u > 0, NEW d \in Http(c)
  PROVE  Core(d) /\ Onward(c, d)
  <1>. DEFINE s == [c EXCEPT !.protocol = "HTTP_CONNECT"]
              p == [c EXCEPT !.protocol = c.speaks]
  <1>1. c \in Record BY Zenon DEF Talking, Core, Base
  <1>2. c.speaks \in Protocols \cup {"NONE", "HTTP_CONNECT"} BY <1>1, ZenonT(60) DEF Record
  <1>3. Talking(s) /\ Onward(c, s) BY ProtocolTalking
  <1>4. Talking(p) /\ Onward(c, p) /\ p.c2u = c.c2u BY <1>2, ProtocolTalking
  <1>5. \/ d = c
        \/ \E r \in {"DENIED", "PROTOCOL"} : d = egress_connection_fail(s, r)
        \/ \E forward \in 0..2 : d \in BeginRequest(p, 1, forward)
    BY DEF Http
  <1>. HIDE DEF s, p
  <1>6. CASE d = c BY <1>1, <1>6 DEF Talking, Onward, Record
  <1>7. ASSUME NEW r \in {"DENIED", "PROTOCOL"}, d = egress_connection_fail(s, r)
        PROVE  Core(d) /\ Onward(c, d)
    <2>1. Core(d) /\ Kept(s, d) BY <1>3, <1>7, FailCore, Values, Zenon DEF Talking, Core
    <2>2. d \in Record /\ s \in Record BY <1>3, <2>1, Zenon DEF Talking, Core, Base
    <2>. QED BY <1>1, <1>3, <2>1, <2>2, OnwardTrans
  <1>8. ASSUME NEW forward \in 0..2, d \in BeginRequest(p, 1, forward)
        PROVE  Core(d) /\ Onward(c, d)
    <2>1. 1 <= p.c2u BY <1>1, <1>4 DEF Record
    <2>2. Core(d) /\ Kept(p, d) BY <1>4, <1>8, <2>1, BeginRequestCore DEF Talking
    <2>3. d \in Record /\ p \in Record BY <1>4, <2>2, Zenon DEF Talking, Core, Base
    <2>. QED BY <1>1, <1>4, <2>2, <2>3, OnwardTrans
  <1>. QED BY <1>5, <1>6, <1>7, <1>8, Zenon

(* egress_connection_process_handshake. *)
LEMMA HandshakeCore ==
  ASSUME NEW c, Talking(c), NEW d \in ProcessHandshake(c)
  PROVE  Core(d) /\ Onward(c, d)
  <1>1. c \in Record BY Zenon DEF Talking, Core, Base
  <1>2. c.c2u \in Int /\ 0 <= c.c2u BY <1>1, SMTT(30) DEF Talking, Core, Base, Buffers, Record
  <1>3. CASE c.c2u = 0
    <2>1. d = c BY <1>3, Zenon DEF ProcessHandshake
    <2>. QED BY <1>1, <2>1 DEF Talking, Onward, Record
  <1>4. CASE c.c2u # 0
    <2>1. c.c2u > 0 BY <1>2, <1>4
    <2>. QED BY <1>4, <2>1, SocksCore, HttpCore, Zenon DEF ProcessHandshake
  <1>. QED BY <1>3, <1>4, Zenon
-----------------------------------------------------------------------------
(* The data plane. *)

(* The least of two, of three. *)
LEMMA MinTwo ==
  ASSUME NEW a \in Int, NEW b \in Int
  PROVE  Min({a, b}) \in {a, b} /\ Min({a, b}) <= a /\ Min({a, b}) <= b
  <1>1. \E x \in {a, b} : \A y \in {a, b} : x <= y
    <2>1. CASE a <= b BY <2>1
    <2>2. CASE ~(a <= b) BY <2>2
    <2>. QED BY <2>1, <2>2, Zenon
  <1>. QED BY <1>1, Zenon DEF Min

(* The least of three. *)
LEMMA MinThree ==
  ASSUME NEW a \in Int, NEW b \in Int, NEW c \in Int
  PROVE  Min({a, b, c}) \in {a, b, c} /\ Min({a, b, c}) <= a /\ Min({a, b, c}) <= b
         /\ Min({a, b, c}) <= c
  <1>1. \E x \in {a, b, c} : \A y \in {a, b, c} : x <= y
    <2>1. CASE a <= b /\ a <= c BY <2>1
    <2>2. CASE b <= a /\ b <= c BY <2>2
    <2>3. CASE c <= a /\ c <= b BY <2>3
    <2>. QED BY <2>1, <2>2, <2>3
  <1>. QED BY <1>1, Zenon DEF Min

(* The mark of a ceiling that was reached. *)
LEMMA ExhaustedType ==
  ASSUME NEW c \in Record
  PROVE  [c EXCEPT !.exhausted = TRUE] \in Record
  BY ZenonT(60) DEF Record

(* An exhausted quota is final, and its result is never OK. *)
LEMMA ExhaustCore ==
  ASSUME NEW c, Core(c), c.state # "unused"
  PROVE  LET d == Exhaust(c) IN
         /\ Core(d) /\ Onward(c, d) /\ d.state = c.state /\ d.c2u = c.c2u /\ d.u2c = c.u2c
         /\ d.ok = c.ok /\ d.close_after_flush = c.close_after_flush /\ d.exhausted
         /\ d.from_client = c.from_client
  <1>. DEFINE q == egress_quota_deny(c, Allowed(c).scope)
              d == [q EXCEPT !.exhausted = TRUE]
  <1>1. Base(c) /\ c \in Record BY Zenon DEF Core, Base
  <1>2. /\ Base(q) /\ q.state = c.state /\ q.ok = c.ok /\ q.result # "OK"
        /\ q.u2c = c.u2c /\ q.c2u = c.c2u
    BY <1>1, AllowedType, DenyBase
  <1>3. /\ q.close_after_flush = c.close_after_flush /\ q.from_client = c.from_client
        /\ q.to_client = c.to_client
    BY <1>1 DEF egress_quota_deny, Record
  <1>4. Unasked(q) BY <1>1 DEF Core, Unasked, egress_quota_deny, Record
  <1>. HIDE DEF q
  <1>5. q \in Record BY <1>2, Zenon DEF Base
  <1>6. d \in Record BY <1>5, ExhaustedType
  <1>7. Buffers(d) /\ Sockets(d) /\ Charged(d) /\ Guarded(d)
    BY <1>2, <1>5, Numbers DEF Base, Record, Buffers, Sockets, Charged, Guarded, Payload
  <1>8. Ends(d) /\ Tidy(d) /\ Unasked(d)
    BY <1>2, <1>4, <1>5, ZenonT(60) DEF Base, Record, Ends, Tidy, Unasked
  <1>9. /\ Onward(c, d) /\ d.state = c.state /\ d.c2u = c.c2u /\ d.u2c = c.u2c
        /\ d.ok = c.ok /\ d.close_after_flush = c.close_after_flush /\ d.exhausted
        /\ d.from_client = c.from_client
    BY <1>1, <1>2, <1>3, <1>5 DEF Record, Onward
  <1>10. Exhaust(c) = d BY Zenon DEF Exhaust, q
  <1>. HIDE DEF d
  <1>. QED BY <1>6, <1>7, <1>8, <1>9, <1>10, Zenon DEF Core, Base

(* The payload of a stream is within what the peers sent. *)
LEMMA PayloadBound ==
  ASSUME NEW c, Base(c), Peers
  PROVE  Payload(c) \in Int /\ Payload(c) <= c.from_client + 1 + uSent - (c.u2c - c.exempt)
  BY Numbers DEF Base, Record, Buffers, Sockets, Peers, Payload

(* Bytes read from the client. *)
LEMMA ReadType ==
  ASSUME NEW c \in Record, NEW x \in Int, NEW y \in Int
  PROVE  [c EXCEPT !.c2u = x, !.from_client = y] \in Record
  BY ZenonT(60) DEF Record

(* Input that is read and charged keeps the type. *)
LEMMA ReadChargedType ==
  ASSUME NEW c \in Record, NEW x \in Int, NEW y \in Int, NEW u \in Int, NEW t \in Int
  PROVE  [c EXCEPT !.c2u = x, !.from_client = y, !.used = u, !.total = t] \in Record
  BY ZenonT(60) DEF Record

(* What reading and writing on the client's side leave to the dispatcher. *)
Moved(c, d) ==
  /\ Core(d) /\ d.state = c.state /\ d.close_after_flush = c.close_after_flush
  /\ d.c2u >= c.c2u

(* read_from_client in a handshake, not charged yet. *)
LEMMA ReadUncharged ==
  ASSUME NEW c, Core(c), Peers, c.ok, c.state = "handshake",
         c.from_client = k.from_client, NEW n \in Nat \ {0},
         n <= Capacity - c.c2u, n <= ClientQueue
  PROVE  LET d == [c EXCEPT !.c2u = @ + n, !.from_client = @ + n] IN
         Moved(c, d) /\ Onward(c, d)
  <1>. DEFINE d == [c EXCEPT !.c2u = @ + n, !.from_client = @ + n]
              x == c.c2u + n
              y == c.from_client + n
  <1>1. c \in Record BY Zenon DEF Core, Base
  <1>2. /\ c.c2u \in Int /\ c.from_client \in Int /\ x \in Int /\ y \in Int /\ cSent \in Int
        /\ c.from_client + n <= cSent
    BY <1>1, Numbers DEF Record, Peers, ClientQueue
  <1>3. d = [c EXCEPT !.c2u = x, !.from_client = y] BY <1>1 DEF Record
  <1>4. d \in Record
    <2>. HIDE DEF x, y, d
    <2>. QED BY <1>1, <1>2, <1>3, ReadType, Zenon
  <1>5. Buffers(d) /\ Sockets(d) /\ Charged(d) /\ Guarded(d)
    BY <1>1, <1>2, <1>3, Numbers, SMTT(30) DEF Core, Base, Record, Buffers, Sockets, Charged, Guarded,
       Payload, Peers
  <1>6. Ends(d) /\ Tidy(d) /\ Unasked(d)
    BY <1>1, <1>2, <1>3, Numbers, SMTT(30) DEF Core, Base, Record, Ends, Tidy, Unasked, Peers
  <1>7. /\ Onward(c, d) /\ d.state = c.state /\ d.close_after_flush = c.close_after_flush
        /\ d.c2u >= c.c2u
    BY <1>1, <1>2, <1>3, SMTT(30) DEF Record, Onward
  <1>. QED BY <1>4, <1>5, <1>6, <1>7 DEF Moved, Core, Base

(* read_from_client after the request: what it reads is charged. *)
LEMMA ReadCharged ==
  ASSUME NEW c, Core(c), Peers, c.ok, c.state \in {"connecting", "identity", "relay"},
         c.from_client = k.from_client, NEW n \in Nat \ {0},
         n <= Capacity - c.c2u, n <= ClientQueue, n <= Allowed(c).amount
  PROVE  LET d == [c EXCEPT !.c2u = @ + n, !.from_client = @ + n] IN
         Moved(c, Charge(d, n)) /\ Onward(c, Charge(d, n))
  <1>. DEFINE d == [c EXCEPT !.c2u = @ + n, !.from_client = @ + n]
              g == Charge(d, n)
              x == c.c2u + n
              y == c.from_client + n
              u == c.used + n
  <1>1. c \in Record /\ Base(c) BY ZenonT(60) DEF Core, Base
  <1>2. /\ c.c2u \in Int /\ c.from_client \in Int /\ x \in Int /\ y \in Int /\ u \in Int
        /\ c.from_client + n <= cSent /\ cSent \in 0..ClientBytes /\ uSent \in 0..UpstreamBytes
        /\ c.used \in 0..U64Max /\ c.total \in 0..U64Max
        /\ c.u2c \in Int /\ c.exempt \in Int /\ c.exempt <= c.u2c
    BY <1>1, Numbers, SMTT(30) DEF Base, Charged, Buffers, Record, Peers, ClientQueue
  <1>3. c.admitted /\ c.used = Payload(c) BY DEF Core, Base, Charged
  <1>4. u <= U64Max
    BY <1>1, <1>2, <1>3, PayloadBound, Numbers, SMTT(30)
  <1>5. /\ MaxStream # 0 => u <= MaxStream
        /\ MaxTotal # 0 => c.total + n <= MaxTotal
    BY <1>1, <1>2, <1>3, AllowedType, Numbers, SMTT(30)
  <1>6. d = [c EXCEPT !.c2u = x, !.from_client = y] BY <1>1, Zenon DEF Record
  <1>7. d \in Record
    <2>. HIDE DEF x, y, d
    <2>. QED BY <1>1, <1>2, <1>6, ReadType, Zenon
  <1>8. d.admitted /\ d.used = c.used /\ d.total = c.total BY <1>1, <1>3, Zenon DEF Record
  <1>9. PICK t \in 0..U64Max : /\ g = [d EXCEPT !.used = u, !.total = t]
                               /\ MaxTotal # 0 => t <= MaxTotal
    <2>1. \E t \in 0..U64Max : /\ Charge(d, n) = [d EXCEPT !.used = d.used + n, !.total = t]
                               /\ MaxTotal # 0 => t <= MaxTotal
      <3>. HIDE DEF d
      <3>. QED BY <1>2, <1>4, <1>5, <1>7, <1>8, ChargeExact, Zenon
    <2>. HIDE DEF d
    <2>. QED BY <1>8, <2>1, Zenon
  <1>10. g = [c EXCEPT !.c2u = x, !.from_client = y, !.used = u, !.total = t]
    <2>. HIDE DEF x, y, u, g
    <2>. QED BY <1>1, <1>6, <1>9, ZenonT(60) DEF Record
  <1>. HIDE DEF g
  <1>11. g \in Record
    <2>1. t \in Int BY Numbers
    <2>. HIDE DEF x, y, u, d
    <2>. QED BY <1>1, <1>2, <1>10, <2>1, ReadChargedType, Zenon
  <1>. HIDE DEF d
  <1>12. Buffers(g) /\ Sockets(g) /\ Charged(g) /\ Guarded(g)
    <2>1. Buffers(g) /\ Sockets(g)
      BY <1>1, <1>2, <1>10, Numbers, SMTT(30) DEF Base, Record, Buffers, Sockets
    <2>2. Guarded(g)
      BY <1>1, <1>10, Zenon DEF Base, Record, Guarded
    <2>3. /\ g.used = u /\ g.total = t /\ g.admitted /\ g.c2u = x /\ g.to_upstream = c.to_upstream
          /\ g.from_upstream = c.from_upstream /\ g.u2c = c.u2c /\ g.exempt = c.exempt
          /\ c.to_upstream \in Int /\ c.from_upstream \in Int
      BY <1>1, <1>3, <1>10 DEF Record
    <2>4. Charged(g)
      BY <1>2, <1>3, <1>4, <1>5, <1>9, <2>3, Numbers, SMTT(30) DEF Charged, Payload
    <2>. QED BY <2>1, <2>2, <2>4, Zenon
  <1>13. Ends(g) /\ Tidy(g) /\ Unasked(g)
    BY <1>1, <1>2, <1>10, Numbers, SMTT(30) DEF Core, Base, Record, Ends, Tidy, Unasked, Peers
  <1>14. /\ Onward(c, g) /\ g.state = c.state /\ g.close_after_flush = c.close_after_flush
         /\ g.c2u >= c.c2u
    BY <1>1, <1>2, <1>10 DEF Record, Onward
  <1>. QED BY <1>11, <1>12, <1>13, <1>14 DEF Moved, Core, Base, g, d

(* The client's end of stream. *)
LEMMA ClientEofType ==
  ASSUME NEW c \in Record, NEW b \in BOOLEAN
  PROVE  [c EXCEPT !.client_eof = b] \in Record
  BY ZenonT(60) DEF Record

(* It is real, or the connection is about to be closed. *)
LEMMA ClientEofCore ==
  ASSUME NEW c, Core(c), c.state # "unused", NEW b \in BOOLEAN,
         b /\ ~c.exhausted /\ c.ok => cFin /\ c.from_client = cSent
  PROVE  LET d == [c EXCEPT !.client_eof = b] IN
         /\ Moved(c, d) /\ Onward(c, d) /\ d.ok = c.ok /\ d.u2c = c.u2c
         /\ d.c2u = c.c2u
  <1>. DEFINE d == [c EXCEPT !.client_eof = b]
  <1>1. c \in Record BY Zenon DEF Core, Base
  <1>2. d \in Record BY <1>1, ClientEofType
  <1>3. Buffers(d) /\ Sockets(d) /\ Charged(d) /\ Guarded(d)
    BY <1>1, Numbers DEF Core, Base, Record, Buffers, Sockets, Charged, Guarded, Payload
  <1>4. Ends(d) /\ Tidy(d) /\ Unasked(d)
    BY <1>1, ZenonT(60) DEF Core, Base, Record, Ends, Tidy, Unasked
  <1>5. /\ Onward(c, d) /\ d.ok = c.ok /\ d.u2c = c.u2c /\ d.c2u = c.c2u /\ d.c2u >= c.c2u
        /\ d.state = c.state /\ d.close_after_flush = c.close_after_flush
    BY <1>1 DEF Record, Onward
  <1>. QED BY <1>2, <1>3, <1>4, <1>5 DEF Moved, Core, Base

(* egress_relay_read_from_client. *)
LEMMA ReadFromClientCore ==
  ASSUME NEW c, Core(c), Peers, c.ok, c.state \in {"handshake", "connecting", "identity", "relay"},
         c.from_client = k.from_client, NEW d \in ReadFromClient(c)
  PROVE  Moved(c, d) /\ Onward(c, d)
  <1>. DEFINE allowed == IF c.state = "handshake" THEN U64Max ELSE Allowed(c).amount
              room == Min({Capacity - c.c2u, allowed})
              Read(n) == LET e == [c EXCEPT !.c2u = @ + n, !.from_client = @ + n]
                         IN  IF c.state = "handshake" THEN e ELSE Charge(e, n)
  <1>1. c \in Record /\ Base(c) BY ZenonT(60) DEF Core, Base
  <1>2. /\ c.c2u \in Int /\ c.c2u <= Capacity /\ allowed \in 0..U64Max /\ ClientQueue \in Int
        /\ c.from_client \in Int /\ c.from_client <= cSent /\ cSent \in Int
    BY <1>1, AllowedType, Numbers DEF Base, Record, Buffers, Sockets, Peers, ClientQueue
  <1>3. \/ d = Exhaust(c) /\ allowed = 0
        \/ d = c
        \/ d = [c EXCEPT !.ok = FALSE]
        \/ ClientQueue > 0 /\ \E n \in 1..Min({room, ClientQueue}) : d = Read(n)
        \/ ~(ClientQueue > 0) /\ d = [c EXCEPT !.client_eof = @ \/ cFin]
    BY Zenon DEF ReadFromClient
  <1>4. CASE d = Exhaust(c)
    <2>1. c.state # "unused" OBVIOUS
    <2>2. /\ Core(d) /\ Onward(c, d) /\ d.state = c.state /\ d.c2u = c.c2u
          /\ d.close_after_flush = c.close_after_flush
      BY <1>4, <2>1, ExhaustCore, Zenon
    <2>. QED BY <1>2, <2>2 DEF Moved
  <1>5. CASE d = c BY <1>1, <1>2, <1>5, SMTT(30) DEF Moved, Onward, Record
  <1>6. CASE d = [c EXCEPT !.ok = FALSE]
    <2>1. Core(d) /\ Onward(c, d) /\ d.c2u = c.c2u /\ d.state = c.state
      BY <1>1, <1>6, NotOkCore, SMTT(30)
    <2>2. d.close_after_flush = c.close_after_flush BY <1>1, <1>6, Zenon DEF Record
    <2>. QED BY <1>2, <2>1, <2>2 DEF Moved
  <1>7. ASSUME ClientQueue > 0, NEW n \in 1..Min({room, ClientQueue}), d = Read(n)
        PROVE  Moved(c, d) /\ Onward(c, d)
    <2>1. Capacity - c.c2u \in Int BY <1>2, Numbers, SMTT(30)
    <2>2. room \in {Capacity - c.c2u, allowed} /\ room <= Capacity - c.c2u /\ room <= allowed
      <3>1. allowed \in Int BY <1>2, Numbers, SMTT(30)
      <3>. HIDE DEF allowed
      <3>. QED BY <2>1, <3>1, MinTwo, SMTT(30)
    <2>3. room \in Int BY <1>2, <2>1, <2>2, Numbers
    <2>. HIDE DEF room, allowed
    <2>4. Min({room, ClientQueue}) \in Int /\ Min({room, ClientQueue}) <= room
          /\ Min({room, ClientQueue}) <= ClientQueue
      BY <1>2, <2>3, MinTwo, Zenon
    <2>5. n \in Nat \ {0} /\ n <= Capacity - c.c2u /\ n <= allowed /\ n <= ClientQueue
      BY <1>2, <2>1, <2>2, <2>3, <2>4, Numbers, SMTT(30)
    <2>. USE DEF allowed
    <2>6. CASE c.state = "handshake"
      BY <1>7, <2>5, <2>6, ReadUncharged, Zenon
    <2>7. CASE c.state \in {"connecting", "identity", "relay"}
      <3>1. n <= Allowed(c).amount BY <2>5, <2>7
      <3>2. d = Charge([c EXCEPT !.c2u = @ + n, !.from_client = @ + n], n) BY <1>7, <2>7
      <3>. QED BY <2>5, <2>7, <3>1, <3>2, ReadCharged, ZenonT(60)
    <2>. QED BY <2>6, <2>7, Zenon
  <1>8. CASE ~(ClientQueue > 0) /\ d = [c EXCEPT !.client_eof = @ \/ cFin]
    <2>. DEFINE b == c.client_eof \/ cFin
    <2>1. b \in BOOLEAN /\ c.client_eof \in BOOLEAN BY <1>1, Zenon DEF Peers, Record
    <2>2. d = [c EXCEPT !.client_eof = b] BY <1>1, <1>8 DEF Record
    <2>3. b /\ ~c.exhausted /\ c.ok => cFin /\ c.from_client = cSent
      BY <1>1, <1>2, <1>8 DEF Base, Ends, ClientQueue
    <2>. HIDE DEF b
    <2>4. c.state # "unused" OBVIOUS
    <2>. QED BY <2>1, <2>2, <2>3, <2>4, ClientEofCore
  <1>. QED BY <1>3, <1>4, <1>5, <1>6, <1>7, <1>8, Zenon
(* Bytes written to the client. *)
LEMMA WroteType ==
  ASSUME NEW c \in Record, NEW x \in Int, NEW y \in Int, NEW z \in Int
  PROVE  [c EXCEPT !.u2c = x, !.to_client = y, !.exempt = z] \in Record
  BY ZenonT(60) DEF Record

(* Bytes written to the client, and charged. *)
LEMMA WroteChargedType ==
  ASSUME NEW c \in Record, NEW x \in Int, NEW y \in Int, NEW u \in Int, NEW t \in Int
  PROVE  /\ [c EXCEPT !.u2c = x, !.to_client = y, !.used = u, !.total = t] \in Record
         /\ [c EXCEPT !.u2c = x, !.to_client = y] \in Record
  BY ZenonT(60) DEF Record

(* write_to_client: replies of the proxy go first, and are exempt. *)
LEMMA WroteExempt ==
  ASSUME NEW c, Core(c), c.ok, c.state \in {"handshake", "connecting", "identity", "relay"},
         c.exempt > 0, NEW n \in Nat \ {0}, n <= c.u2c, n <= c.exempt,
         cGot \in Nat, c.to_client + n <= cGot + Window
  PROVE  LET d == [[c EXCEPT !.u2c = @ - n, !.to_client = @ + n] EXCEPT !.exempt = @ - n] IN
         Core(d) /\ d.state = c.state /\ d.c2u = c.c2u
  <1>. DEFINE d == [[c EXCEPT !.u2c = @ - n, !.to_client = @ + n] EXCEPT !.exempt = @ - n]
              x == c.u2c - n
              y == c.to_client + n
              z == c.exempt - n
  <1>1. c \in Record /\ Base(c) BY Zenon DEF Core, Base
  <1>2. c.u2c \in Int /\ c.to_client \in Int /\ c.exempt \in Int BY <1>1 DEF Record
  <1>3. x \in Int /\ y \in Int /\ z \in Int BY <1>2
  <1>4. d = [c EXCEPT !.u2c = x, !.to_client = y, !.exempt = z] BY <1>1 DEF Record
  <1>. HIDE DEF d
  <1>5. d \in Record
    <2>. HIDE DEF x, y, z
    <2>. QED BY <1>1, <1>3, <1>4, WroteType, Zenon
  <1>6. Buffers(d) /\ Sockets(d) /\ Guarded(d)
    BY <1>1, <1>2, <1>4, Numbers DEF Base, Record, Buffers, Sockets, Guarded
  <1>7. Charged(d)
    BY <1>1, <1>2, <1>4, SMTT(30) DEF Base, Record, Charged, Payload
  <1>8. Ends(d) /\ Tidy(d) /\ Unasked(d)
    BY <1>1, <1>2, <1>4, Numbers, SMTT(30) DEF Core, Base, Record, Buffers, Ends, Tidy, Unasked
  <1>9. d.state = c.state /\ d.c2u = c.c2u BY <1>1, <1>4, Zenon DEF Record
  <1>. QED BY <1>5, <1>6, <1>7, <1>8, <1>9 DEF Core, Base, d

(* write_to_client: what the upstream sent is charged when it goes out. *)
LEMMA WroteCharged ==
  ASSUME NEW c, Core(c), Peers, c.ok, c.state \in {"connecting", "identity", "relay"},
         c.exempt = 0, NEW n \in Nat \ {0}, n <= c.u2c, n <= Allowed(c).amount,
         c.to_client + n <= cGot + Window
  PROVE  LET d == Charge([c EXCEPT !.u2c = @ - n, !.to_client = @ + n], n) IN
         Core(d) /\ d.state = c.state /\ d.c2u = c.c2u
  <1>. DEFINE d == [c EXCEPT !.u2c = @ - n, !.to_client = @ + n]
              g == Charge(d, n)
              x == c.u2c - n
              y == c.to_client + n
              u == c.used + n
  <1>1. c \in Record /\ Base(c) BY Zenon DEF Core, Base
  <1>2. /\ c.u2c \in Int /\ c.to_client \in Int /\ x \in Int /\ y \in Int /\ u \in Int
        /\ c.used \in 0..U64Max /\ c.total \in 0..U64Max /\ c.from_client \in Int
        /\ c.from_client <= cSent /\ cSent \in 0..ClientBytes /\ uSent \in 0..UpstreamBytes
        /\ cGot \in Nat
    BY <1>1, Numbers, SMTT(30) DEF Base, Charged, Buffers, Record, Peers, Sockets
  <1>3. c.admitted /\ c.used = Payload(c) BY SMTT(30) DEF Core, Base, Charged
  <1>4. u <= U64Max
    BY <1>1, <1>2, <1>3, PayloadBound, Numbers, SMTT(30)
  <1>5. /\ MaxStream # 0 => u <= MaxStream
        /\ MaxTotal # 0 => c.total + n <= MaxTotal
    BY <1>1, <1>2, <1>3, AllowedType, Numbers
  <1>6. d = [c EXCEPT !.u2c = x, !.to_client = y] BY <1>1, Zenon DEF Record
  <1>7. d \in Record
    <2>1. 0 \in Int OBVIOUS
    <2>. HIDE DEF x, y, d
    <2>. QED BY <1>1, <1>2, <1>6, <2>1, WroteChargedType, Zenon
  <1>8. d.admitted /\ d.used = c.used /\ d.total = c.total BY <1>1, <1>3 DEF Record
  <1>9. PICK t \in 0..U64Max : /\ g = [d EXCEPT !.used = u, !.total = t]
                               /\ MaxTotal # 0 => t <= MaxTotal
    <2>1. \E t \in 0..U64Max : /\ Charge(d, n) = [d EXCEPT !.used = d.used + n, !.total = t]
                               /\ MaxTotal # 0 => t <= MaxTotal
      <3>. HIDE DEF d
      <3>. QED BY <1>2, <1>4, <1>5, <1>7, <1>8, ChargeExact, Zenon
    <2>. HIDE DEF d
    <2>. QED BY <1>8, <2>1, Zenon
  <1>10. g = [c EXCEPT !.u2c = x, !.to_client = y, !.used = u, !.total = t]
    <2>. HIDE DEF x, y, u, g
    <2>. QED BY <1>1, <1>6, <1>9, ZenonT(60) DEF Record
  <1>. HIDE DEF g
  <1>11. g \in Record
    <2>1. t \in Int BY Numbers
    <2>. HIDE DEF x, y, u, d
    <2>. QED BY <1>1, <1>2, <1>10, <2>1, WroteChargedType, Zenon
  <1>. HIDE DEF d
  <1>12. Buffers(g) /\ Sockets(g)
    BY <1>1, <1>2, <1>10, Numbers DEF Base, Record, Buffers, Sockets
  <1>13. Guarded(g)
    BY <1>1, <1>10, Zenon DEF Base, Record, Guarded
  <1>14. /\ g.used = u /\ g.total = t /\ g.admitted /\ g.c2u = c.c2u /\ g.to_upstream = c.to_upstream
         /\ g.from_upstream = c.from_upstream /\ g.u2c = x /\ g.exempt = c.exempt
         /\ c.to_upstream \in Int /\ c.from_upstream \in Int /\ c.c2u \in Int /\ c.exempt \in Int
    BY <1>1, <1>3, <1>10, ZenonT(60) DEF Record
  <1>15. Charged(g)
    BY <1>2, <1>3, <1>4, <1>5, <1>9, <1>14, Numbers, SMTT(30) DEF Charged, Payload
  <1>16. Ends(g) /\ Tidy(g) /\ Unasked(g)
    BY <1>1, <1>2, <1>10, Numbers, SMTT(30) DEF Core, Base, Record, Ends, Tidy, Unasked
  <1>17. g.state = c.state /\ g.c2u = c.c2u BY <1>1, <1>10, Zenon DEF Record
  <1>. QED BY <1>11, <1>12, <1>13, <1>15, <1>16, <1>17, Zenon DEF Core, Base, g, d
(* egress_relay_write_to_client: a reset shows, unless the quota comes first. *)
LEMMA WriteToClientCore ==
  ASSUME NEW c, Core(c), Peers, c.ok, c.state \in {"handshake", "connecting", "identity", "relay"},
         c.u2c > 0, c.to_client = k.to_client, NEW d \in WriteToClient(c)
  PROVE  Core(d) /\ d.state = c.state /\ d.c2u = c.c2u /\ (cRst => d.exhausted \/ ~d.ok)
  <1>. DEFINE allowed == IF c.exempt > 0 THEN c.exempt ELSE Allowed(c).amount
              Wrote(n) == LET e == [c EXCEPT !.u2c = @ - n, !.to_client = @ + n]
                          IN  IF c.exempt > 0 THEN [e EXCEPT !.exempt = @ - n] ELSE Charge(e, n)
  <1>1. c \in Record /\ Base(c) BY Zenon DEF Core, Base
  <1>2. /\ c.u2c \in Int /\ c.exempt \in Int /\ 0 <= c.exempt /\ allowed \in Int
        /\ c.to_client \in Int /\ cGot \in Nat /\ ToClient \in Int /\ Window - ToClient \in Int
        /\ ToClient = c.to_client - cGot /\ Window \in Int
    BY <1>1, AllowedType, Numbers DEF Base, Record, Buffers, Peers, ToClient
  <1>3. \/ d = Exhaust(c)
        \/ d = [c EXCEPT !.ok = FALSE]
        \/ d = c /\ ~cRst
        \/ ~cRst /\ \E n \in 1..Min({c.u2c, allowed, Window - ToClient}) : d = Wrote(n)
    BY Zenon DEF WriteToClient
  <1>4. CASE d = Exhaust(c)
    <2>1. c.state # "unused" OBVIOUS
    <2>. QED BY <1>4, <2>1, ExhaustCore, Zenon
  <1>5. CASE d = [c EXCEPT !.ok = FALSE]
    <2>1. c.state # "unused" OBVIOUS
    <2>. QED BY <1>1, <1>5, <2>1, NotOkCore
  <1>6. CASE d = c /\ ~cRst BY <1>6, Zenon
  <1>7. ASSUME ~cRst, NEW n \in 1..Min({c.u2c, allowed, Window - ToClient}), d = Wrote(n)
        PROVE  Core(d) /\ d.state = c.state /\ d.c2u = c.c2u
    <2>. DEFINE least == Min({c.u2c, allowed, Window - ToClient})
    <2>1. least \in {c.u2c, allowed, Window - ToClient} /\ least <= c.u2c /\ least <= allowed
          /\ least <= Window - ToClient
      <3>. HIDE DEF allowed
      <3>. QED BY <1>2, MinThree, Zenon
    <2>2. least \in Int BY <1>2, <2>1
    <2>. HIDE DEF least, allowed
    <2>3. n \in Nat \ {0} /\ n <= c.u2c /\ n <= allowed /\ n <= Window - ToClient
      BY <1>2, <1>7, <2>1, <2>2, SMTT(30) DEF least
    <2>4. c.to_client + n <= cGot + Window BY <1>2, <2>3
    <2>. USE DEF allowed
    <2>5. CASE c.exempt > 0
      <3>1. n <= c.exempt BY <2>3, <2>5
      <3>2. d = [[c EXCEPT !.u2c = @ - n, !.to_client = @ + n] EXCEPT !.exempt = @ - n]
        BY <1>7, <2>5
      <3>. QED BY <1>2, <2>3, <2>4, <2>5, <3>1, <3>2, WroteExempt, Zenon
    <2>6. CASE ~(c.exempt > 0)
      <3>1. n <= Allowed(c).amount BY <2>3, <2>6
      <3>2. d = Charge([c EXCEPT !.u2c = @ - n, !.to_client = @ + n], n)
        BY <1>7, <2>6, SMTT(30)
      <3>3. c.exempt = 0 BY <1>2, <2>6, SMTT(30)
      <3>4. c.state # "handshake" BY <1>2, <3>3 DEF Core, Base, Tidy
      <3>5. c.state \in {"connecting", "identity", "relay"} BY <3>4, Zenon
      <3>. QED BY <2>3, <2>4, <3>1, <3>2, <3>3, <3>5, WroteCharged, ZenonT(60)
    <2>. QED BY <2>5, <2>6, Zenon
  <1>. QED BY <1>3, <1>4, <1>5, <1>6, <1>7, Zenon

(* Bytes read from the upstream. *)
LEMMA ReceivedType ==
  ASSUME NEW c \in Record, NEW x \in Int, NEW y \in Int
  PROVE  [c EXCEPT !.u2c = x, !.from_upstream = y] \in Record
  BY ZenonT(60) DEF Record

(* The upstream's end of stream. *)
LEMMA UpstreamEofType ==
  ASSUME NEW c \in Record, NEW b \in BOOLEAN
  PROVE  [c EXCEPT !.upstream_eof = b] \in Record
  BY ZenonT(60) DEF Record

(* What reading and writing on the upstream's side leave to the dispatcher. *)
Passing(c, d) ==
  /\ Core(d) /\ d.state = c.state /\ d.u2c >= c.u2c /\ d.to_upstream >= c.to_upstream
  /\ d.exhausted = c.exhausted

(* It is real, or the connection is about to be closed. *)
LEMMA UpstreamEofCore ==
  ASSUME NEW c, Core(c), c.state = "relay", NEW b \in BOOLEAN,
         b /\ c.ok => uFin /\ c.from_upstream = uSent
  PROVE  LET d == [c EXCEPT !.upstream_eof = b] IN
         Passing(c, d) /\ d.ok = c.ok /\ d.c2u = c.c2u /\ d.to_upstream = c.to_upstream
  <1>. DEFINE d == [c EXCEPT !.upstream_eof = b]
  <1>1. c \in Record BY Zenon DEF Core, Base
  <1>2. d \in Record BY <1>1, UpstreamEofType
  <1>3. Buffers(d) /\ Sockets(d) /\ Charged(d) /\ Guarded(d)
    BY <1>1, Numbers, SMTT(30) DEF Core, Base, Record, Buffers, Sockets, Charged, Guarded, Payload
  <1>4. Ends(d) /\ Tidy(d) /\ Unasked(d)
    BY <1>1, ZenonT(60) DEF Core, Base, Record, Ends, Tidy, Unasked
  <1>5. /\ d.state = c.state /\ d.u2c >= c.u2c /\ d.to_upstream >= c.to_upstream
        /\ d.exhausted = c.exhausted /\ d.ok = c.ok /\ d.c2u = c.c2u
        /\ d.to_upstream = c.to_upstream
    BY <1>1 DEF Record
  <1>. QED BY <1>2, <1>3, <1>4, <1>5 DEF Passing, Core, Base

(* read_from_upstream: what it reads is charged when it goes out. *)
LEMMA Received ==
  ASSUME NEW c, Core(c), Peers, c.ok, c.state = "relay", NEW n \in Nat \ {0},
         n <= Capacity - c.u2c, c.from_upstream + n <= uSent
  PROVE  LET d == [c EXCEPT !.u2c = @ + n, !.from_upstream = @ + n] IN
         Passing(c, d) /\ d.c2u = c.c2u /\ d.to_upstream = c.to_upstream
  <1>. DEFINE d == [c EXCEPT !.u2c = @ + n, !.from_upstream = @ + n]
              x == c.u2c + n
              y == c.from_upstream + n
  <1>1. c \in Record /\ Base(c) BY Zenon DEF Core, Base
  <1>2. c.u2c \in Int /\ c.from_upstream \in Int /\ x \in Int /\ y \in Int /\ uSent \in Int
    BY <1>1, Numbers DEF Record, Peers
  <1>3. d = [c EXCEPT !.u2c = x, !.from_upstream = y] BY <1>1 DEF Record
  <1>. HIDE DEF d
  <1>4. d \in Record
    <2>. HIDE DEF x, y
    <2>. QED BY <1>1, <1>2, <1>3, ReceivedType, Zenon
  <1>5. Buffers(d) /\ Sockets(d) /\ Guarded(d)
    BY <1>1, <1>2, <1>3, Numbers, SMTT(30) DEF Base, Record, Buffers, Sockets, Guarded
  <1>6. Charged(d)
    BY <1>1, <1>2, <1>3, SMTT(30) DEF Base, Record, Charged, Payload
  <1>7. Ends(d) /\ Tidy(d) /\ Unasked(d)
    BY <1>1, <1>2, <1>3, SMTT(30) DEF Core, Base, Record, Ends, Tidy, Unasked
  <1>8. /\ d.state = c.state /\ d.u2c >= c.u2c /\ d.to_upstream >= c.to_upstream
        /\ d.exhausted = c.exhausted /\ d.c2u = c.c2u /\ d.to_upstream = c.to_upstream
    BY <1>1, <1>2, <1>3 DEF Record
  <1>. QED BY <1>4, <1>5, <1>6, <1>7, <1>8 DEF Passing, Core, Base, d
(* egress_relay_read_from_upstream. *)
LEMMA ReadFromUpstreamCore ==
  ASSUME NEW c, Core(c), Peers, c.ok, c.state = "relay", c.from_upstream = k.from_upstream,
         NEW d \in ReadFromUpstream(c)
  PROVE  Passing(c, d) /\ d.c2u = c.c2u /\ d.to_upstream = c.to_upstream
  <1>. DEFINE room == Capacity - c.u2c
  <1>1. c \in Record /\ Base(c) BY Zenon DEF Core, Base
  <1>2. /\ c.u2c \in Int /\ room \in Int /\ UpstreamQueue \in Int /\ c.from_upstream \in Int
        /\ uSent \in Int /\ UpstreamQueue = uSent - c.from_upstream /\ c.from_upstream <= uSent
        /\ c.to_upstream \in Int
    BY <1>1, Numbers DEF Base, Record, Sockets, Peers, UpstreamQueue
  <1>3. \/ d = c
        \/ d = [c EXCEPT !.ok = FALSE]
        \/ \E n \in 1..Min({room, UpstreamQueue}) :
             d = [c EXCEPT !.u2c = @ + n, !.from_upstream = @ + n]
        \/ ~(UpstreamQueue > 0) /\ d = [c EXCEPT !.upstream_eof = @ \/ uFin]
    BY Zenon DEF ReadFromUpstream
  <1>4. CASE d = c BY <1>2, <1>4, SMTT(30) DEF Passing
  <1>5. CASE d = [c EXCEPT !.ok = FALSE]
    <2>1. Core(d) /\ d.state = c.state /\ d.c2u = c.c2u /\ d.u2c = c.u2c
      BY <1>1, <1>5, NotOkCore
    <2>2. d.exhausted = c.exhausted /\ d.to_upstream = c.to_upstream BY <1>1, <1>5 DEF Record
    <2>. QED BY <1>2, <2>1, <2>2 DEF Passing
  <1>6. ASSUME NEW n \in 1..Min({room, UpstreamQueue}),
               d = [c EXCEPT !.u2c = @ + n, !.from_upstream = @ + n]
        PROVE  Passing(c, d) /\ d.c2u = c.c2u /\ d.to_upstream = c.to_upstream
    <2>. DEFINE least == Min({room, UpstreamQueue})
    <2>1. least \in {room, UpstreamQueue} /\ least <= room /\ least <= UpstreamQueue
      <3>. HIDE DEF room
      <3>. QED BY <1>2, MinTwo, Zenon
    <2>2. least \in Int BY <1>2, <2>1
    <2>. HIDE DEF least
    <2>3. n \in Nat \ {0} /\ n <= Capacity - c.u2c /\ c.from_upstream + n <= uSent
      BY <1>2, <1>6, <2>1, <2>2 DEF least
    <2>. QED BY <1>6, <2>3, Received, Zenon
  <1>7. CASE ~(UpstreamQueue > 0) /\ d = [c EXCEPT !.upstream_eof = @ \/ uFin]
    <2>. DEFINE b == c.upstream_eof \/ uFin
    <2>1. b \in BOOLEAN BY <1>1, Zenon DEF Peers, Record
    <2>2. d = [c EXCEPT !.upstream_eof = b] BY <1>1, <1>7 DEF Record
    <2>3. b /\ c.ok => uFin /\ c.from_upstream = uSent
      BY <1>1, <1>2, <1>7, SMTT(30) DEF Base, Ends
    <2>. HIDE DEF b
    <2>. QED BY <2>1, <2>2, <2>3, UpstreamEofCore, Zenon
  <1>. QED BY <1>3, <1>4, <1>5, <1>6, <1>7, Zenon

(* Bytes written to the upstream. *)
LEMMA ForwardedType ==
  ASSUME NEW c \in Record, NEW x \in Int, NEW y \in Int
  PROVE  [c EXCEPT !.c2u = x, !.to_upstream = y] \in Record
  BY ZenonT(60) DEF Record

(* They were charged when they were read, and the guard has let them pass. *)
LEMMA Forwarded ==
  ASSUME NEW c, Core(c), Peers, c.ok, c.state = "relay", NEW n \in Nat \ {0},
         n <= c.c2u, uGot \in Nat, c.to_upstream + n <= uGot + Window
  PROVE  LET d == [c EXCEPT !.c2u = @ - n, !.to_upstream = @ + n] IN Passing(c, d)
  <1>. DEFINE d == [c EXCEPT !.c2u = @ - n, !.to_upstream = @ + n]
              x == c.c2u - n
              y == c.to_upstream + n
  <1>1. c \in Record /\ Base(c) BY Zenon DEF Core, Base
  <1>2. c.c2u \in Int /\ c.to_upstream \in Int /\ x \in Int /\ y \in Int
    BY <1>1 DEF Record
  <1>3. d = [c EXCEPT !.c2u = x, !.to_upstream = y] BY <1>1 DEF Record
  <1>. HIDE DEF d
  <1>4. d \in Record
    <2>. HIDE DEF x, y
    <2>. QED BY <1>1, <1>2, <1>3, ForwardedType, Zenon
  <1>5. Buffers(d) /\ Sockets(d) /\ Guarded(d)
    BY <1>1, <1>2, <1>3, Numbers DEF Base, Record, Buffers, Sockets, Guarded
  <1>6. Charged(d)
    BY <1>1, <1>2, <1>3, SMTT(30) DEF Base, Record, Charged, Payload
  <1>7. Ends(d) /\ Tidy(d) /\ Unasked(d)
    BY <1>1, <1>2, <1>3, SMTT(30) DEF Core, Base, Record, Ends, Tidy, Unasked
  <1>8. /\ d.state = c.state /\ d.u2c >= c.u2c /\ d.to_upstream >= c.to_upstream
        /\ d.exhausted = c.exhausted
    BY <1>1, <1>2, <1>3 DEF Record
  <1>. QED BY <1>4, <1>5, <1>6, <1>7, <1>8 DEF Passing, Core, Base, d

(* egress_relay_write_to_upstream: a reset shows when there is a tail. *)
LEMMA WriteToUpstreamCore ==
  ASSUME NEW c, Core(c), Peers, c.ok, c.state = "relay", c.to_upstream = k.to_upstream,
         NEW d \in WriteToUpstream(c)
  PROVE  Passing(c, d) /\ (c.c2u > 0 /\ uRst => ~d.ok)
  <1>1. c \in Record /\ Base(c) BY Zenon DEF Core, Base
  <1>2. /\ c.c2u \in Int /\ c.to_upstream \in Int /\ uGot \in Nat /\ ToUpstream \in Int
        /\ Window - ToUpstream \in Int /\ ToUpstream = c.to_upstream - uGot /\ Window \in Int
        /\ c.u2c \in Int
    BY <1>1, Numbers DEF Record, Peers, ToUpstream
  <1>3. \/ d = c /\ ~(c.c2u > 0 /\ uRst)
        \/ d = [c EXCEPT !.ok = FALSE]
        \/ /\ ~uRst
           /\ \E n \in 1..Min({c.c2u, Window - ToUpstream}) :
                d = [c EXCEPT !.c2u = @ - n, !.to_upstream = @ + n]
    <2>1. CASE c.c2u = 0 BY <2>1 DEF WriteToUpstream
    <2>2. CASE c.c2u # 0
      <3>1. CASE uRst BY <2>2, <3>1, Zenon DEF WriteToUpstream
      <3>2. CASE ~uRst /\ ToUpstream = Window BY <2>2, <3>2, Zenon DEF WriteToUpstream
      <3>3. CASE ~uRst /\ ToUpstream # Window BY <2>2, <3>3, Zenon DEF WriteToUpstream
      <3>. QED BY <3>1, <3>2, <3>3, Zenon
    <2>. QED BY <2>1, <2>2, Zenon
  <1>4. CASE d = c /\ ~(c.c2u > 0 /\ uRst) BY <1>2, <1>4, SMTT(30) DEF Passing
  <1>5. CASE d = [c EXCEPT !.ok = FALSE]
    <2>1. Core(d) /\ d.state = c.state /\ d.u2c = c.u2c /\ ~d.ok
      BY <1>1, <1>5, NotOkCore, Zenon
    <2>2. d.exhausted = c.exhausted /\ d.to_upstream = c.to_upstream BY <1>1, <1>5 DEF Record
    <2>. QED BY <1>2, <2>1, <2>2 DEF Passing
  <1>6. ASSUME ~uRst, NEW n \in 1..Min({c.c2u, Window - ToUpstream}),
               d = [c EXCEPT !.c2u = @ - n, !.to_upstream = @ + n]
        PROVE  Passing(c, d)
    <2>. DEFINE least == Min({c.c2u, Window - ToUpstream})
    <2>1. least \in {c.c2u, Window - ToUpstream} /\ least <= c.c2u /\ least <= Window - ToUpstream
      BY <1>2, MinTwo, Zenon
    <2>2. least \in Int BY <1>2, <2>1
    <2>. HIDE DEF least
    <2>3. n \in Nat \ {0} /\ n <= c.c2u /\ c.to_upstream + n <= uGot + Window
      BY <1>2, <1>6, <2>1, <2>2, SMTT(30) DEF least
    <2>. QED BY <1>2, <1>6, <2>3, Forwarded, Zenon
  <1>. QED BY <1>3, <1>4, <1>5, <1>6, Zenon
-----------------------------------------------------------------------------
(* The end of a dispatch. *)

(* The half-closes. *)
LEMMA HalfCloseType ==
  ASSUME NEW c \in Record, NEW a \in BOOLEAN, NEW b \in BOOLEAN, NEW f \in BOOLEAN, NEW s \in BOOLEAN
  PROVE  [c EXCEPT !.upstream_shutdown = a, !.aborted = b, !.fin = f, !.client_shutdown = s] \in Record
  BY ZenonT(60) DEF Record

(* Those of the upstream. *)
LEMMA ShutdownType ==
  ASSUME NEW c \in Record, NEW a \in BOOLEAN, NEW b \in BOOLEAN
  PROVE  /\ [c EXCEPT !.upstream_shutdown = a, !.aborted = b] \in Record
         /\ [c EXCEPT !.upstream_shutdown = a, !.fin = b] \in Record
  <1>1. [c EXCEPT !.upstream_shutdown = a, !.aborted = b] \in Record BY ZenonT(60) DEF Record
  <1>2. [c EXCEPT !.upstream_shutdown = a, !.fin = b] \in Record BY ZenonT(60) DEF Record
  <1>. QED BY <1>1, <1>2

(* apply_half_closes: a half-close is passed on after the tail. *)
LEMMA ApplyHalfClosesCore ==
  ASSUME NEW c, Core(c), c.ok, c.state # "unused", ~(c.exhausted /\ c.c2u = 0),
         NEW d \in ApplyHalfCloses(c)
  PROVE  /\ Core(d) /\ d.ok /\ d.state = c.state /\ d.u2c = c.u2c /\ d.c2u = c.c2u
         /\ d.exhausted = c.exhausted
  <1>1. c \in Record BY Zenon DEF Core, Base
  <1>2. \E a, b, f, s \in BOOLEAN :
          /\ d = [c EXCEPT !.upstream_shutdown = a, !.aborted = b, !.fin = f, !.client_shutdown = s]
          /\ f => c.fin \/ (c.client_eof /\ c.c2u = 0 /\ ~c.exhausted /\ c.upstream)
          /\ s => c.client_shutdown \/ (c.upstream_eof /\ c.u2c = 0)
    <2>. DEFINE goes == c.client_eof /\ c.c2u = 0 /\ c.upstream /\ ~c.upstream_shutdown
                up == IF goes
                      THEN IF c.state = "connecting"
                           THEN {[c EXCEPT !.upstream_shutdown = TRUE, !.aborted = b] : b \in BOOLEAN}
                           ELSE {[c EXCEPT !.upstream_shutdown = TRUE, !.fin = TRUE]}
                      ELSE {c}
                w == c.client_shutdown \/ (c.upstream_eof /\ c.u2c = 0)
    <2>1. PICK e \in up : d = [e EXCEPT !.client_shutdown = @ \/ (e.upstream_eof /\ e.u2c = 0)]
      BY Zenon DEF ApplyHalfCloses
    <2>2. w \in BOOLEAN BY Zenon
    <2>3. CASE ~goes
      <3>1. e = c BY <2>1, <2>3, Zenon
      <3>2. d = [c EXCEPT !.upstream_shutdown = c.upstream_shutdown, !.aborted = c.aborted,
                          !.fin = c.fin, !.client_shutdown = w]
        BY <1>1, <2>1, <3>1, ZenonT(60) DEF Record
      <3>3. c.upstream_shutdown \in BOOLEAN /\ c.aborted \in BOOLEAN /\ c.fin \in BOOLEAN
        BY <1>1, ZenonT(60) DEF Record
      <3>. QED BY <2>2, <3>2, <3>3, Zenon
    <2>4. CASE goes /\ c.state = "connecting"
      <3>1. PICK b \in BOOLEAN : e = [c EXCEPT !.upstream_shutdown = TRUE, !.aborted = b]
        BY <2>1, <2>4, Zenon
      <3>2. d = [c EXCEPT !.upstream_shutdown = TRUE, !.aborted = b, !.fin = c.fin, !.client_shutdown = w]
        <4>1. e \in Record BY <1>1, <3>1, Values, ShutdownType, Zenon
        <4>2. e.client_shutdown = c.client_shutdown /\ e.upstream_eof = c.upstream_eof /\ e.u2c = c.u2c
          BY <1>1, <3>1, ZenonT(60) DEF Record
        <4>3. d = [e EXCEPT !.client_shutdown = w] BY <2>1, <4>1, <4>2, ZenonT(60) DEF Record
        <4>. HIDE DEF w
        <4>. QED BY <1>1, <3>1, <4>3, ZenonT(60) DEF Record
      <3>3. c.fin \in BOOLEAN /\ TRUE \in BOOLEAN BY <1>1, ZenonT(60) DEF Record
      <3>. QED BY <2>2, <3>2, <3>3, Zenon
    <2>5. CASE goes /\ c.state # "connecting"
      <3>1. e = [c EXCEPT !.upstream_shutdown = TRUE, !.fin = TRUE]
        BY <2>1, <2>5, Zenon
      <3>2. d = [c EXCEPT !.upstream_shutdown = TRUE, !.aborted = c.aborted, !.fin = TRUE, !.client_shutdown = w]
        <4>1. e \in Record BY <1>1, <3>1, Values, ShutdownType, Zenon
        <4>2. e.client_shutdown = c.client_shutdown /\ e.upstream_eof = c.upstream_eof /\ e.u2c = c.u2c
          BY <1>1, <3>1, ZenonT(60) DEF Record
        <4>3. d = [e EXCEPT !.client_shutdown = w] BY <2>1, <4>1, <4>2, ZenonT(60) DEF Record
        <4>. HIDE DEF w
        <4>. QED BY <1>1, <3>1, <4>3, ZenonT(60) DEF Record
      <3>3. c.aborted \in BOOLEAN /\ TRUE \in BOOLEAN BY <1>1, ZenonT(60) DEF Record
      <3>. QED BY <2>2, <2>5, <3>2, <3>3, Zenon
    <2>. QED BY <2>3, <2>4, <2>5, Zenon
  <1>3. PICK a, b, f, s \in BOOLEAN :
          /\ d = [c EXCEPT !.upstream_shutdown = a, !.aborted = b, !.fin = f, !.client_shutdown = s]
          /\ f => c.fin \/ (c.client_eof /\ c.c2u = 0 /\ ~c.exhausted /\ c.upstream)
          /\ s => c.client_shutdown \/ (c.upstream_eof /\ c.u2c = 0)
    BY <1>2, Zenon
  <1>4. d \in Record BY <1>1, <1>3, HalfCloseType, Zenon
  <1>5. Buffers(d) /\ Sockets(d) /\ Charged(d) /\ Guarded(d)
    BY <1>1, <1>3, Numbers, SMTT(30) DEF Core, Base, Record, Buffers, Sockets, Charged, Guarded, Payload
  <1>6. Ends(d)
    BY <1>1, <1>3, ZenonT(60) DEF Core, Base, Record, Ends
  <1>7. Tidy(d) /\ Unasked(d)
    BY <1>1, <1>3, ZenonT(60) DEF Core, Base, Record, Tidy, Unasked
  <1>8. /\ d.ok /\ d.state = c.state /\ d.u2c = c.u2c /\ d.c2u = c.c2u
        /\ d.exhausted = c.exhausted
    BY <1>1, <1>3, Zenon DEF Record
  <1>. QED BY <1>4, <1>5, <1>6, <1>7, <1>8, Zenon DEF Core, Base

(* What a close leaves for the receipt. *)
LEMMA CloseFrame ==
  ASSUME NEW c \in Record
  PROVE  Close(c).u2c = c.u2c /\ Close(c).c2u = c.c2u
  BY DEF Close, Record

(* The end of egress_relay_dispatch: the connection is closed or at rest. *)
LEMMA FinishRest ==
  ASSUME NEW c, Core(c), NEW d \in Finish(c)
  PROVE  Rest(d) /\ d.u2c = c.u2c /\ d.c2u = c.c2u /\ d.state \in {c.state, "unused"}
  <1>. DEFINE e == IF c.ok /\ c.admitted /\ Allowed(c).amount = 0 THEN Exhaust(c) ELSE c
  <1>1. c \in Record BY DEF Core, Base
  <1>2. CASE c.state = "unused"
    <2>1. d = c BY <1>2, Zenon DEF Finish
    <2>. QED BY <1>1, <1>2, <2>1, Zenon DEF Rest, Core, Base, Tidy, Watched
  <1>3. CASE c.state # "unused"
    <2>1. /\ Core(e) /\ e.state = c.state /\ e.c2u = c.c2u /\ e.u2c = c.u2c /\ e.ok = c.ok
          /\ e.close_after_flush = c.close_after_flush
      BY <1>3, ExhaustCore, ZenonT(60)
    <2>2. e \in Record /\ Base(e) BY <2>1 DEF Core, Base
    <2>3. d \in IF e.ok /\ e.exhausted /\ e.c2u = 0 THEN {Close(e)}
                ELSE IF ~e.ok THEN {Close(IoUnlessSet(e))}
                ELSE UNION {IF Complete(h) THEN {Close(h)}
                            ELSE {IF w.ok THEN w ELSE Close([w EXCEPT !.result = "IO"]) :
                                    w \in UpdateWatches(h)} :
                            h \in ApplyHalfCloses(e)}
      BY <1>3, Zenon DEF Finish
    <2>. HIDE DEF e
    <2>4. CASE e.ok /\ e.exhausted /\ e.c2u = 0
      <3>1. d = Close(e) BY <2>3, <2>4, Zenon
      <3>2. e.result # "OK" BY <2>2, <2>4, Zenon DEF Base, Ends
      <3>. QED BY <2>1, <2>2, <3>1, <3>2, CloseRest, CloseFrame, Zenon
    <2>5. CASE ~e.ok
      <3>. DEFINE f == IoUnlessSet(e)
                  r == IF e.result = "OK" THEN "IO" ELSE e.result
      <3>1. d = Close(f) BY <2>3, <2>5, Zenon
      <3>2. f = [e EXCEPT !.result = r] BY <2>2, Zenon DEF IoUnlessSet, Record
      <3>3. r \in Results \ {"OK"} BY <2>2, Values, Zenon DEF Record
      <3>. HIDE DEF f, r
      <3>4. Base(f) /\ f.result = r /\ f.u2c = e.u2c /\ f.c2u = e.c2u
        BY <2>2, <3>2, <3>3, ResultBase
      <3>5. f.result # "OK" /\ f \in Record BY <3>3, <3>4, Zenon DEF Base
      <3>. QED BY <2>1, <3>1, <3>4, <3>5, CloseRest, CloseFrame, Zenon
    <2>6. CASE e.ok /\ ~(e.exhausted /\ e.c2u = 0)
      <3>1. PICK h \in ApplyHalfCloses(e) :
              d \in IF Complete(h) THEN {Close(h)}
                    ELSE {IF w.ok THEN w ELSE Close([w EXCEPT !.result = "IO"]) :
                            w \in UpdateWatches(h)}
        BY <2>3, <2>6, Zenon
      <3>2. /\ Core(h) /\ h.ok /\ h.state = e.state /\ h.u2c = e.u2c /\ h.c2u = e.c2u
            /\ h.exhausted = e.exhausted
        BY <1>3, <2>1, <2>6, ApplyHalfClosesCore, Zenon
      <3>3. h \in Record /\ Base(h) BY <3>2, Zenon DEF Core, Base
      <3>4. CASE Complete(h)
        <4>1. d = Close(h) BY <3>1, <3>4, Zenon
        <4>2. h.result # "OK" \/ Passed(h)
          BY <2>6, <3>2, <3>3, <3>4, Zenon DEF Complete, Base, Ends, Passed
        <4>. QED BY <2>1, <3>2, <3>3, <4>1, <4>2, CloseRest, CloseFrame, Zenon
      <3>5. CASE ~Complete(h)
        <4>1. PICK w \in UpdateWatches(h) : d = IF w.ok THEN w ELSE Close([w EXCEPT !.result = "IO"])
          BY <3>1, <3>5, Zenon
        <4>2. /\ Core(w) /\ w.state = h.state /\ w.u2c = h.u2c /\ w.c2u = h.c2u
              /\ w.ok => Watched(w)
          BY <3>2, WatchesCore, Zenon
        <4>3. CASE w.ok BY <2>1, <3>2, <4>1, <4>2, <4>3, Zenon DEF Rest
        <4>4. CASE ~w.ok
          <5>. DEFINE f == [w EXCEPT !.result = "IO"]
          <5>1. d = Close(f) BY <4>1, <4>4, Zenon
          <5>2. Base(f) /\ f.result = "IO" /\ f.u2c = w.u2c /\ f.c2u = w.c2u
            BY <4>2, ResultBase, Values, ZenonT(60) DEF Core
          <5>. HIDE DEF f
          <5>3. f.result # "OK" /\ f \in Record BY <5>2, Zenon DEF Base
          <5>. QED BY <2>1, <3>2, <4>2, <5>1, <5>2, <5>3, CloseRest, CloseFrame, ZenonT(60)
        <4>. QED BY <4>3, <4>4, Zenon
      <3>. QED BY <3>4, <3>5, Zenon
    <2>. QED BY <2>4, <2>5, <2>6, Zenon
  <1>. QED BY <1>2, <1>3, Zenon
-----------------------------------------------------------------------------
(* The dispatch. *)

(* A half-close that the loop reported. *)
LEMMA ClientHupType ==
  ASSUME NEW c \in Record, NEW b \in BOOLEAN
  PROVE  [c EXCEPT !.client_hup = b] \in Record
  BY ZenonT(60) DEF Record

(* The same of the upstream. *)
LEMMA UpstreamHupType ==
  ASSUME NEW c \in Record, NEW b \in BOOLEAN
  PROVE  [c EXCEPT !.upstream_hup = b] \in Record
  BY ZenonT(60) DEF Record

(* It is remembered, and changes nothing else. *)
LEMMA HupCore ==
  ASSUME NEW c, Core(c), NEW b \in BOOLEAN, NEW d,
         d = [c EXCEPT !.client_hup = b] \/ d = [c EXCEPT !.upstream_hup = b]
  PROVE  /\ Core(d) /\ d.ok = c.ok /\ d.state = c.state /\ d.u2c = c.u2c /\ d.c2u = c.c2u
         /\ d.from_client = c.from_client /\ d.to_client = c.to_client
         /\ d.from_upstream = c.from_upstream /\ d.to_upstream = c.to_upstream
         /\ d.close_after_flush = c.close_after_flush /\ d.protocol = c.protocol
         /\ d.aborted = c.aborted
  <1>1. c \in Record BY Zenon DEF Core, Base
  <1>2. d \in Record BY <1>1, ClientHupType, UpstreamHupType
  <1>3. Buffers(d) /\ Sockets(d) /\ Charged(d) /\ Guarded(d)
    BY <1>1, Numbers DEF Core, Base, Record, Buffers, Sockets, Charged, Guarded, Payload
  <1>4. Ends(d) /\ Tidy(d) /\ Unasked(d)
    BY <1>1, SMTT(30) DEF Core, Base, Record, Ends, Tidy, Unasked
  <1>5. /\ d.ok = c.ok /\ d.state = c.state /\ d.u2c = c.u2c /\ d.c2u = c.c2u
        /\ d.from_client = c.from_client /\ d.to_client = c.to_client
        /\ d.from_upstream = c.from_upstream /\ d.to_upstream = c.to_upstream
        /\ d.close_after_flush = c.close_after_flush /\ d.protocol = c.protocol
        /\ d.aborted = c.aborted
    BY <1>1 DEF Record
  <1>. QED BY <1>2, <1>3, <1>4, <1>5 DEF Core, Base

(* What follows a read: the handshake, or the guard. *)
LEMMA ProcessCore ==
  ASSUME NEW c, Core(c), c.ok, c.state = "handshake" => ~c.close_after_flush,
         NEW d \in (IF c.state = "handshake" THEN ProcessHandshake(c) ELSE EnforceIdentity(c))
  PROVE  Core(d) /\ Onward(c, d) /\ (c.state = "relay" => d = c)
  <1>1. c \in Record BY Zenon DEF Core, Base
  <1>2. CASE c.state = "handshake"
    <2>1. Talking(c) /\ d \in ProcessHandshake(c) BY <1>2, Zenon DEF Talking
    <2>. QED BY <1>2, <2>1, HandshakeCore, Zenon
  <1>3. CASE c.state # "handshake"
    <2>1. d \in EnforceIdentity(c) BY <1>3, Zenon
    <2>2. d = c \/ (c.state = "identity" /\ Settled(c, d)) BY <2>1, IdentitySettled, Zenon
    <2>3. Onward(c, c) BY <1>1 DEF Onward, Record
    <2>. QED BY <2>2, <2>3 DEF Settled, Onward, Kept
  <1>. QED BY <1>2, <1>3, Zenon

(* The events of the client leave the connection at rest, and what was to    *)
(* be written to the upstream stays so.                                      *)
LEMMA DispatchClientRest ==
  ASSUME Rest(k), Peers, Alive, NEW flags \in SUBSET Flags,
         "ERROR" \in flags /\ "READ" \notin flags => cRst /\ "WRITE" \in flags /\ k.u2c > 0,
         NEW d \in DispatchClient(k, flags)
  PROVE  /\ Rest(d) /\ d.state # "new"
         /\ k.state = "relay" => d.state \in {"relay", "unused"} /\ d.c2u >= k.c2u
  <1>. DEFINE reads == "READ" \in flags \/ HupIsRead(flags)
              b == k.client_hup \/ HupIsRead(flags)
              h == [k EXCEPT !.client_hup = @ \/ HupIsRead(flags)]
              Process(x) == IF x.state = "handshake" THEN ProcessHandshake(x) ELSE EnforceIdentity(x)
              Write(x) == IF x.u2c > 0 /\ "WRITE" \in flags THEN WriteToClient(x) ELSE {x}
              afterRead == IF reads /\ ~h.close_after_flush
                           THEN Sequentially(ReadFromClient(h), Process) ELSE {h}
              MarkEof(x) == IF x.state # "unused" /\ "ERROR" \in flags /\ "READ" \notin flags
                            THEN [x EXCEPT !.client_eof = TRUE] ELSE x
  <1>1. k \in Record /\ Core(k) /\ k.ok BY Zenon DEF Rest, Core, Base
  <1>2. h = [k EXCEPT !.client_hup = b] /\ b \in BOOLEAN BY <1>1 DEF Record
  <1>3. \E r \in afterRead : \E w \in (IF r.ok /\ r.state # "unused" THEN Write(r) ELSE {r}) :
          d \in Finish(MarkEof(w))
    <2>1. \E w \in Sequentially(afterRead, Write) : d \in Finish(MarkEof(w))
      BY Zenon DEF DispatchClient
    <2>. HIDE DEF afterRead, MarkEof
    <2>2. \A w \in Sequentially(afterRead, Write) :
            \E r \in afterRead : w \in (IF r.ok /\ r.state # "unused" THEN Write(r) ELSE {r})
      BY Zenon DEF Sequentially
    <2>. QED BY <2>1, <2>2, Zenon
  <1>4. PICK r \in afterRead : \E w \in (IF r.ok /\ r.state # "unused" THEN Write(r) ELSE {r}) :
          d \in Finish(MarkEof(w))
    BY <1>3, Zenon
  <1>5. \/ r = h
        \/ /\ ~h.close_after_flush
           /\ \E x \in ReadFromClient(h) : r \in (IF x.ok /\ x.state # "unused" THEN Process(x) ELSE {x})
    <2>1. CASE reads /\ ~h.close_after_flush
      <3>1. r \in Sequentially(ReadFromClient(h), Process) BY <1>4, <2>1, Zenon
      <3>. QED BY <2>1, <3>1, Zenon DEF Sequentially
    <2>2. CASE ~(reads /\ ~h.close_after_flush) BY <1>4, <2>2
    <2>. QED BY <2>1, <2>2, Zenon
  <1>. HIDE DEF b, h, afterRead
  <1>w. PICK w \in (IF r.ok /\ r.state # "unused" THEN Write(r) ELSE {r}) : d \in Finish(MarkEof(w))
    BY <1>4, Zenon
  <1>6. /\ Core(h) /\ h.ok /\ h.state = k.state /\ h.u2c = k.u2c /\ h.c2u = k.c2u
        /\ h.from_client = k.from_client /\ h.to_client = k.to_client
        /\ h \in Record /\ h.u2c \in Int /\ h.c2u \in Int
    <2>1. /\ Core(h) /\ h.ok /\ h.state = k.state /\ h.u2c = k.u2c /\ h.c2u = k.c2u
          /\ h.from_client = k.from_client /\ h.to_client = k.to_client
      BY <1>1, <1>2, HupCore, SMTT(30)
    <2>2. h \in Record BY <2>1, Zenon DEF Core, Base
    <2>3. h.u2c \in Int /\ h.c2u \in Int BY <2>2 DEF Record
    <2>. QED BY <2>1, <2>2, <2>3, Zenon
  <1>7. h.state \in {"handshake", "connecting", "identity", "relay"}
    BY <1>1, <1>6, Zenon DEF Alive, Record, States
  <1>8. /\ Core(r) /\ Onward(h, r)
        /\ k.state = "relay" => r.state \in {"relay", "unused"} /\ r.c2u >= k.c2u
    <2>1. CASE r = h BY <1>6, <2>1, SMTT(30) DEF Onward
    <2>2. ASSUME ~h.close_after_flush, NEW x \in ReadFromClient(h),
                 r \in (IF x.ok /\ x.state # "unused" THEN Process(x) ELSE {x})
          PROVE  /\ Core(r) /\ Onward(h, r)
                 /\ k.state = "relay" => r.state \in {"relay", "unused"} /\ r.c2u >= k.c2u
      <3>1. Moved(h, x) /\ Onward(h, x) BY <1>6, <1>7, ReadFromClientCore, Zenon
      <3>2. Core(x) /\ x.state = h.state /\ ~x.close_after_flush /\ x.c2u >= h.c2u /\ x \in Record
        BY <2>2, <3>1, Zenon DEF Moved, Core, Base
      <3>3. CASE x.ok /\ x.state # "unused"
        <4>1. r \in Process(x) BY <2>2, <3>3, Zenon
        <4>2. Core(r) /\ Onward(x, r) /\ (x.state = "relay" => r = x)
          BY <3>2, <3>3, <4>1, ProcessCore, Zenon
        <4>3. Onward(h, r)
          <5>1. r \in Record BY <4>2, Zenon DEF Core, Base
          <5>. QED BY <1>6, <3>1, <3>2, <4>2, <5>1, OnwardTrans, SMTT(30)
        <4>. QED BY <1>6, <3>2, <4>2, <4>3, Zenon
      <3>4. CASE ~(x.ok /\ x.state # "unused")
        <4>1. r = x BY <2>2, <3>4, Zenon
        <4>. QED BY <1>6, <3>1, <3>2, <4>1, Zenon
      <3>. QED BY <3>3, <3>4, Zenon
    <2>. QED BY <1>5, <2>1, <2>2, ZenonT(60)
  <1>9. /\ r \in Record /\ r.state # "new" /\ r.to_client = k.to_client /\ r.u2c >= k.u2c
        /\ r.u2c \in Int /\ r.c2u \in Int
    BY <1>6, <1>7, <1>8, ZenonT(60) DEF Core, Base, Onward, Record
  <1>10. /\ Core(w) /\ w.state = r.state /\ w.c2u = r.c2u
         /\ w.state # "unused" /\ "ERROR" \in flags /\ "READ" \notin flags => w.exhausted \/ ~w.ok
    <2>1. CASE r.ok /\ r.state # "unused"
      <3>1. w \in Write(r) BY <1>w, <2>1
      <3>2. r.state \in {"handshake", "connecting", "identity", "relay"}
        BY <1>9, <2>1, Zenon DEF Record, States
      <3>3. CASE r.u2c > 0 /\ "WRITE" \in flags
        <4>1. w \in WriteToClient(r) BY <3>1, <3>3, Zenon
        <4>. QED BY <1>8, <1>9, <2>1, <3>2, <3>3, <4>1, WriteToClientCore, SMTT(30)
      <3>4. CASE ~(r.u2c > 0 /\ "WRITE" \in flags)
        <4>1. w = r BY <3>1, <3>4, ZenonT(60)
        <4>2. ~("ERROR" \in flags /\ "READ" \notin flags)
          BY <1>6, <1>9, <3>4, SMTT(30)
        <4>. QED BY <1>8, <4>1, <4>2, Zenon
      <3>. QED BY <3>3, <3>4, Zenon
    <2>2. CASE ~(r.ok /\ r.state # "unused")
      <3>1. w = r BY <1>w, <2>2, Zenon
      <3>. QED BY <1>8, <2>2, <3>1, Zenon
    <2>. QED BY <2>1, <2>2, Zenon
  <1>11. Core(MarkEof(w)) /\ MarkEof(w).state = w.state /\ MarkEof(w).c2u = w.c2u
    <2>1. CASE w.state # "unused" /\ "ERROR" \in flags /\ "READ" \notin flags
      <3>1. MarkEof(w) = [w EXCEPT !.client_eof = TRUE] BY <2>1, Zenon
      <3>2. ~(~w.exhausted /\ w.ok) BY <1>10, <2>1, Zenon
      <3>. HIDE DEF MarkEof
      <3>. QED BY <1>10, <2>1, <3>1, <3>2, ClientEofCore, Values, Zenon DEF Moved
    <2>2. CASE ~(w.state # "unused" /\ "ERROR" \in flags /\ "READ" \notin flags)
      <3>1. MarkEof(w) = w BY <2>2, Zenon
      <3>. QED BY <1>10, <3>1, Zenon
    <2>. QED BY <2>1, <2>2, Zenon
  <1>. HIDE DEF MarkEof
  <1>12. Rest(d) /\ d.c2u = w.c2u /\ d.state \in {w.state, "unused"}
    BY <1>w, <1>11, FinishRest, Zenon
  <1>. QED BY <1>8, <1>9, <1>10, <1>12, Zenon
(* A connect that failed. *)
LEMMA RefusedSocketType ==
  ASSUME NEW c \in Record
  PROVE  [c EXCEPT !.upstream = FALSE, !.upstream_watch = {}] \in Record
  BY Values, ZenonT(60) DEF Record

(* The next address is tried from the same place. *)
LEMMA RefusedGoing ==
  ASSUME NEW c, Going(c), c.state = "connecting", NEW d,
         d = [c EXCEPT !.upstream = FALSE, !.upstream_watch = {}]
  PROVE  Going(d) /\ Kept(c, d)
  <1>1. c \in Record BY Zenon DEF Going, Base
  <1>2. d \in Record BY <1>1, RefusedSocketType, Zenon
  <1>3. Buffers(d) /\ Sockets(d) /\ Charged(d) /\ Guarded(d)
    BY <1>1, Numbers DEF Going, Base, Record, Buffers, Sockets, Charged, Guarded, Payload
  <1>4. Ends(d) /\ Tidy(d)
    BY <1>1, ZenonT(60) DEF Going, Base, Record, Ends, Tidy
  <1>5. /\ d.ok /\ d.state = "connecting" /\ d.admitted /\ d.used = Payload(d)
        /\ d.sni => d.protocol # "HTTP_FORWARD"
    BY <1>1 DEF Going, Record, Payload
  <1>6. Kept(c, d) BY <1>1 DEF Kept, Record
  <1>. QED BY <1>2, <1>3, <1>4, <1>5, <1>6, Zenon DEF Going, Base

(* The events of a connect. *)
LEMMA ConnectingCore ==
  ASSUME NEW c, Core(c), c.ok, c.state = "connecting",
         NEW d \in (IF c.aborted THEN {} ELSE Connected(c))
                   \cup ConnectNext([c EXCEPT !.upstream = FALSE, !.upstream_watch = {}])
  PROVE  Core(d) /\ d.state # "new" /\ d.u2c >= c.u2c
  <1>. DEFINE e == [c EXCEPT !.upstream = FALSE, !.upstream_watch = {}]
  <1>1. Going(c) BY DEF Going, Core, Base, Charged, Guarded
  <1>2. Going(e) /\ Kept(c, e) BY <1>1, RefusedGoing, Zenon
  <1>3. c \in Record /\ e \in Record BY <1>1, <1>2, Zenon DEF Going, Base
  <1>. HIDE DEF e
  <1>4. CASE d \in Connected(c)
    <2>1. Rest(d) /\ Kept(c, d) BY <1>1, <1>4, ConnectedRest
    <2>. QED BY <2>1 DEF Rest, Kept
  <1>5. CASE d \in ConnectNext(e)
    <2>1. Core(d) /\ Kept(e, d) BY <1>2, <1>5, ConnectNextSettled, SMTT(30) DEF Settled
    <2>2. d \in Record BY <2>1, Zenon DEF Core, Base
    <2>3. Kept(c, d) BY <1>2, <1>3, <2>1, <2>2, KeptTrans, SMTT(30)
    <2>. QED BY <2>1, <2>3, Zenon DEF Kept
  <1>. QED BY <1>4, <1>5, SMTT(30) DEF e

(* The events of the upstream of a relay: a read, a write, and the end of    *)
(* stream that stands for an error, found by a write that failed.            *)
LEMMA RelayingCore ==
  ASSUME NEW c, Core(c), Peers, c.ok, c.state = "relay",
         c.from_upstream = k.from_upstream, c.to_upstream = k.to_upstream,
         NEW x, x = c \/ x \in ReadFromUpstream(c),
         NEW y, y = x \/ (x.ok /\ y \in WriteToUpstream(x)),
         NEW d, d = y \/ (/\ d = [y EXCEPT !.upstream_eof = TRUE]
                         /\ uRst /\ c.c2u > 0 /\ x = c /\ y \in WriteToUpstream(x))
  PROVE  Core(d) /\ d.state = "relay" /\ d.u2c >= c.u2c
  <1>1. c \in Record /\ c.u2c \in Int BY DEF Core, Base, Record
  <1>2. Core(x) /\ x.state = "relay" /\ x.u2c >= c.u2c /\ x.to_upstream = k.to_upstream
    <2>1. CASE x = c BY <1>1, <2>1, SMTT(30)
    <2>2. CASE x \in ReadFromUpstream(c)
      BY <2>2, ReadFromUpstreamCore, SMTT(30) DEF Passing
    <2>. QED BY <2>1, <2>2, SMTT(30)
  <1>3. x \in Record /\ x.u2c \in Int BY <1>2 DEF Core, Base, Record
  <1>4. Core(y) /\ y.state = "relay" /\ y.u2c >= x.u2c
    <2>1. CASE y = x BY <1>2, <1>3, <2>1
    <2>2. CASE x.ok /\ y \in WriteToUpstream(x)
      BY <1>2, <2>2, WriteToUpstreamCore, Zenon DEF Passing
    <2>. QED BY <2>1, <2>2
  <1>5. y \in Record /\ y.u2c \in Int BY <1>4 DEF Core, Base, Record
  <1>6. y.u2c >= c.u2c BY <1>1, <1>2, <1>3, <1>4, <1>5, SMTT(30)
  <1>7. CASE d = y BY <1>4, <1>6, <1>7, Zenon
  <1>8. CASE /\ d = [y EXCEPT !.upstream_eof = TRUE]
             /\ uRst /\ c.c2u > 0 /\ x = c /\ y \in WriteToUpstream(x)
    <2>1. ~y.ok BY <1>2, <1>8, WriteToUpstreamCore, Zenon
    <2>2. Passing(y, d) BY <1>4, <1>8, <2>1, UpstreamEofCore, Values, Zenon
    <2>3. d \in Record /\ d.u2c \in Int BY <2>2 DEF Passing, Core, Base, Record
    <2>4. Core(d) /\ d.state = y.state /\ d.u2c >= y.u2c BY <2>2 DEF Passing
    <2>. QED BY <1>1, <1>4, <1>5, <1>6, <2>3, <2>4, SMTT(30)
  <1>. QED BY <1>7, <1>8, Zenon

(* The events of the upstream leave the connection at rest, and what was to  *)
(* be written to the client stays so.                                        *)
LEMMA DispatchUpstreamRest ==
  ASSUME Rest(k), Peers, Alive, NEW flags \in SUBSET Flags,
         "ERROR" \in flags /\ "READ" \notin flags =>
           uRst /\ "WRITE" \in flags /\ k.state = "relay" /\ k.c2u > 0,
         NEW d \in DispatchUpstream(k, flags)
  PROVE  Rest(d) /\ d.state # "new" /\ d.u2c >= k.u2c
  <1>. DEFINE reads == "READ" \in flags \/ HupIsRead(flags)
              b == k.upstream_hup \/ (HupIsRead(flags) /\ k.state # "connecting")
              h == [k EXCEPT !.upstream_hup = @ \/ (HupIsRead(flags) /\ k.state # "connecting")]
              refused == [h EXCEPT !.upstream = FALSE, !.upstream_watch = {}]
              Write(x) == IF "WRITE" \in flags THEN WriteToUpstream(x) ELSE {x}
              MarkEof(x) == IF "ERROR" \in flags /\ "READ" \notin flags
                            THEN [x EXCEPT !.upstream_eof = TRUE] ELSE x
              tries == (IF k.aborted THEN {} ELSE Connected(h)) \cup ConnectNext(refused)
              first == IF reads THEN ReadFromUpstream(h) ELSE {h}
  <1>1. k \in Record /\ Core(k) /\ k.ok /\ k.u2c \in Int BY DEF Rest, Core, Base, Record
  <1>2. h = [k EXCEPT !.upstream_hup = b] /\ b \in BOOLEAN BY <1>1 DEF Record
  <1>3. \E e \in (IF k.state = "connecting" THEN tries
                  ELSE IF k.state = "relay" THEN {MarkEof(x) : x \in Sequentially(first, Write)}
                  ELSE {h}) : d \in Finish(e)
    BY ZenonT(60) DEF DispatchUpstream
  <1>4. CASE k.state = "connecting"
    <2>1. \E e \in tries : d \in Finish(e) BY <1>3, <1>4, Zenon
    <2>2. PICK e \in tries : d \in Finish(e) BY <2>1, Zenon
    <2>. HIDE DEF b, h
    <2>3. /\ Core(h) /\ h.ok /\ h.state = k.state /\ h.u2c = k.u2c /\ h.aborted = k.aborted
      BY <1>1, <1>2, HupCore, SMTT(30)
    <2>4. Core(e) /\ e.state # "new" /\ e.u2c >= h.u2c
      BY <1>4, <2>2, <2>3, ConnectingCore, Zenon
    <2>5. Rest(d) /\ d.u2c = e.u2c /\ d.state \in {e.state, "unused"} BY <2>2, <2>4, FinishRest, Zenon
    <2>. QED BY <2>3, <2>4, <2>5, Zenon
  <1>5. CASE k.state = "relay"
    <2>1. \E x \in first : \E y \in (IF x.ok /\ x.state # "unused" THEN Write(x) ELSE {x}) :
            d \in Finish(MarkEof(y))
      <3>1. \E y \in Sequentially(first, Write) : d \in Finish(MarkEof(y))
        <4>. HIDE DEF first, MarkEof, tries, h
        <4>. QED BY <1>3, <1>5, Zenon
      <3>. HIDE DEF first, MarkEof
      <3>2. \A y \in Sequentially(first, Write) :
              \E x \in first : y \in (IF x.ok /\ x.state # "unused" THEN Write(x) ELSE {x})
        BY Zenon DEF Sequentially
      <3>. QED BY <3>1, <3>2, Zenon
    <2>2. PICK x \in first : \E y \in (IF x.ok /\ x.state # "unused" THEN Write(x) ELSE {x}) :
            d \in Finish(MarkEof(y))
      BY <2>1, Zenon
    <2>3. PICK y \in (IF x.ok /\ x.state # "unused" THEN Write(x) ELSE {x}) : d \in Finish(MarkEof(y))
      BY <2>2, Zenon
    <2>. DEFINE e == MarkEof(y)
    <2>4. d \in Finish(e) BY <2>3, Zenon
    <2>. HIDE DEF b, h
    <2>5. /\ Core(h) /\ h.ok /\ h.state = k.state /\ h.u2c = k.u2c /\ h.c2u = k.c2u
          /\ h.from_upstream = k.from_upstream /\ h.to_upstream = k.to_upstream
      BY <1>1, <1>2, HupCore, SMTT(30)
    <2>6. Core(e) /\ e.state = "relay" /\ e.u2c >= h.u2c
      <3>1. h.ok /\ h.state = "relay" BY <1>5, <2>5, Zenon
      <3>2. x = h \/ x \in ReadFromUpstream(h) BY <2>2, Zenon
      <3>3. y = x \/ (x.ok /\ y \in WriteToUpstream(x)) BY <2>3, SMTT(30)
      <3>4. CASE "ERROR" \in flags /\ "READ" \notin flags
        <4>1. x = h BY <2>2, <3>4, Zenon DEF HupIsRead
        <4>2. y \in WriteToUpstream(x) BY <2>3, <3>1, <3>4, <4>1, SMTT(30)
        <4>3. uRst /\ h.c2u > 0 BY <2>5, <3>4, SMTT(30)
        <4>4. e = [y EXCEPT !.upstream_eof = TRUE] BY <3>4, Zenon
        <4>. HIDE DEF e, first, Write, reads
        <4>. QED BY <2>5, <3>1, <3>2, <3>3, <4>1, <4>2, <4>3, <4>4, RelayingCore, SMTT(30)
      <3>5. CASE ~("ERROR" \in flags /\ "READ" \notin flags)
        <4>1. e = y BY <3>5, Zenon
        <4>. HIDE DEF e, first, Write, reads
        <4>. QED BY <2>5, <3>1, <3>2, <3>3, <4>1, RelayingCore, Zenon
      <3>. QED BY <3>4, <3>5, Zenon
    <2>. HIDE DEF e
    <2>7. Rest(d) /\ d.u2c = e.u2c /\ d.state \in {e.state, "unused"} BY <2>4, <2>6, FinishRest, ZenonT(60)
    <2>. QED BY <2>5, <2>6, <2>7, Zenon
  <1>6. CASE k.state \notin {"connecting", "relay"}
    <2>1. d \in Finish(h) BY <1>3, <1>6, Zenon
    <2>. HIDE DEF b, h
    <2>2. Core(h) /\ h.state = k.state /\ h.u2c = k.u2c BY <1>1, <1>2, HupCore, SMTT(30)
    <2>3. Rest(d) /\ d.u2c = h.u2c /\ d.state \in {h.state, "unused"} BY <2>1, <2>2, FinishRest, Zenon
    <2>. QED BY <1>1, <2>2, <2>3, SMTT(30) DEF Alive
  <1>. QED BY <1>4, <1>5, <1>6, ZenonT(60)
-----------------------------------------------------------------------------
(* The steps. *)

(* What a step that leaves the peers alone makes of the connection. *)
LEMMA RestNext ==
  ASSUME Rest(k'), UNCHANGED peers
  PROVE  Rest(k)'
  <1>1. Sockets(k)' BY DEF Rest, Core, Base, Sockets, peers
  <1>2. Ends(k)' BY Zenon DEF Rest, Core, Base, Ends, peers
  <1>3. Buffers(k)' /\ Charged(k)' /\ Guarded(k)' /\ Tidy(k)' /\ Unasked(k)' /\ Watched(k)'
    BY Zenon DEF Rest, Core, Base, Buffers, Charged, Guarded, Tidy, Unasked, Watched, Payload
  <1>4. (k \in Record)' /\ k'.ok BY Zenon DEF Rest, Core, Base, Record
  <1>. QED BY <1>1, <1>2, <1>3, <1>4, Zenon DEF Rest, Core, Base

(* No event is pending. *)
LEMMA NothingPending ==
  ASSUME events' = NoEvents
  PROVE  Pending'
  BY Zenon DEF Pending, NoEvents, Sides, Flags

(* The peers are as they were. *)
LEMMA PeersNext ==
  ASSUME Peers, UNCHANGED peers
  PROVE  Peers'
  BY Zenon DEF Peers, peers

(* A connection that is closed with a result. *)
LEMMA ClosedRest ==
  ASSUME NEW c, Base(c), NEW r \in Results \ {"OK"}
  PROVE  Rest(Close([c EXCEPT !.result = r])) /\ Close([c EXCEPT !.result = r]).state = "unused"
  <1>. DEFINE d == [c EXCEPT !.result = r]
  <1>1. Base(d) /\ d.result = r BY ResultBase
  <1>. HIDE DEF d
  <1>2. Rest(Close(d)) /\ Close(d).state = "unused" BY <1>1, CloseRest, Zenon
  <1>. QED BY <1>2 DEF d

(* A slot before it is taken is blank. *)
Fresh == k.state = "new" => k = Blank

(* A connection that was just accepted, or a native session. *)
LEMMA TakenType ==
  ASSUME NEW c \in Record, NEW x \in States, NEW s \in Protocols \cup {"NONE"},
         NEW p \in Protocols \cup {"NONE", "HTTP_CONNECT"}, NEW n \in BOOLEAN
  PROVE  [c EXCEPT !.state = x, !.speaks = s, !.protocol = p, !.sni = n] \in Record
  BY ZenonT(60) DEF Record

(* A blank connection has moved nothing yet. *)
Unmoved(b) ==
  /\ b.ok /\ ~b.close_after_flush /\ b.c2u = 0 /\ b.u2c = 0 /\ b.exempt = 0
  /\ b.to_upstream = 0 /\ b.from_upstream = 0 /\ b.framing = 0 /\ b.used = 0
  /\ ~b.admitted /\ ~b.upstream /\ ~b.fin /\ ~b.client_shutdown /\ ~b.client_eof
  /\ ~b.upstream_eof /\ ~b.exhausted

(* Nor has one that was just taken. *)
Taken(b, c) ==
  /\ c \in Record /\ c.ok /\ c.state = "handshake" /\ ~c.close_after_flush
  /\ c.c2u = 0 /\ c.u2c = 0 /\ c.exempt = 0 /\ c.to_upstream = 0 /\ c.from_upstream = 0
  /\ c.framing = 0 /\ c.used = 0 /\ c.total = b.total /\ ~c.admitted /\ ~c.upstream /\ ~c.fin
  /\ ~c.client_shutdown /\ ~c.client_eof /\ ~c.upstream_eof /\ ~c.exhausted
  /\ c.from_client = b.from_client /\ c.to_client = b.to_client
  /\ c.client_watch = b.client_watch /\ c.upstream_watch = b.upstream_watch

(* It starts in Core. *)
LEMMA TakenCore ==
  ASSUME NEW b, Base(b), Unmoved(b), NEW c, Taken(b, c)
  PROVE  Core(c) /\ c.ok /\ c.state = "handshake" /\ ~c.close_after_flush /\ c.c2u = 0
  <1>1. Buffers(c) /\ Sockets(c) /\ Charged(c) /\ Guarded(c)
    BY Numbers, Zenon DEF Base, Buffers, Sockets, Charged, Guarded, Unmoved, Taken
  <1>2. Ends(c) BY DEF Ends, Taken
  <1>3. Tidy(c) BY Zenon DEF Base, Tidy, Unmoved, Taken
  <1>4. Unasked(c)
    <2>1. c.socks_phase \in 0..2 BY ZenonT(60) DEF Taken, Record
    <2>2. 0 <= c.socks_phase /\ 0 <= 0 BY <2>1
    <2>. QED BY <2>2, Zenon DEF Unasked, Taken
  <1>. QED BY <1>1, <1>2, <1>3, <1>4 DEF Core, Base, Taken

(* A blank slot that is taken by a client, or by a native session. *)
LEMMA BlankTaken ==
  ASSUME NEW b, Base(b), b = Blank, NEW s \in Protocols \cup {"NONE"},
         NEW p \in Protocols \cup {"NONE", "HTTP_CONNECT"}, NEW n \in BOOLEAN, NEW c,
         c = [b EXCEPT !.state = "handshake", !.speaks = s, !.protocol = p, !.sni = n]
  PROVE  Unmoved(b) /\ Taken(b, c)
  <1>1. b \in Record BY Zenon DEF Base
  <1>2. c \in Record BY <1>1, TakenType, Values, Zenon
  <1>3. Unmoved(b) BY Zenon DEF Unmoved, Blank
  <1>. QED BY <1>1, <1>2, <1>3, SMTT(30) DEF Taken, Unmoved, Record

(* egress_connection_accept_all. *)
LEMMA AcceptRest ==
  ASSUME IInv, Fresh, Accept
  PROVE  IInv' /\ Fresh'
  <1>1. PICK protocol \in Protocols \ {"CONNECTOR"}, sni \in Sni :
          \E c \in UpdateWatches([Blank EXCEPT !.state = "handshake", !.speaks = protocol,
                                              !.sni = sni]) :
            k' = IF c.ok THEN c ELSE Close([c EXCEPT !.result = "MEMORY"])
    BY Zenon DEF Accept
  <1>. DEFINE e == [Blank EXCEPT !.state = "handshake", !.speaks = protocol, !.sni = sni]
  <1>2. PICK c \in UpdateWatches(e) : k' = IF c.ok THEN c ELSE Close([c EXCEPT !.result = "MEMORY"])
    BY <1>1
  <1>3. k = Blank /\ Base(k) BY DEF Accept, Fresh, IInv, Rest, Core
  <1>4. sni \in BOOLEAN BY ConfigAssumption
  <1>5. Core(e) /\ e.ok /\ e.state = "handshake"
    <2>1. e = [k EXCEPT !.state = "handshake", !.speaks = protocol, !.protocol = k.protocol, !.sni = sni]
      BY <1>3, Zenon DEF Base, Record
    <2>2. /\ k.protocol \in Protocols \cup {"NONE", "HTTP_CONNECT"}
          /\ protocol \in Protocols \cup {"NONE"}
      BY <1>3, Zenon DEF Base, Record
    <2>. HIDE DEF e
    <2>3. Unmoved(k) /\ Taken(k, e)
      BY <1>3, <1>4, <2>1, <2>2, BlankTaken, Zenon
    <2>4. Base(k) BY <1>3, Zenon
    <2>. QED BY <2>3, <2>4, TakenCore, Zenon
  <1>. HIDE DEF e
  <1>6. Core(c) /\ c.state = e.state /\ (c.ok => Watched(c)) BY <1>2, <1>5, WatchesCore, SMTT(30)
  <1>7. Rest(k') /\ k'.state # "new"
    <2>1. CASE c.ok BY <1>2, <1>5, <1>6, <2>1, Zenon DEF Rest
    <2>2. CASE ~c.ok
      <3>1. k' = Close([c EXCEPT !.result = "MEMORY"]) BY <1>2, <2>2, Zenon
      <3>2. Base(c) BY <1>6, Zenon DEF Core
      <3>. QED BY <3>1, <3>2, ClosedRest, Values, Zenon
    <2>. QED BY <2>1, <2>2, Zenon
  <1>8. events' = NoEvents /\ UNCHANGED peers BY DEF Accept, IInv, Pending, Alive
  <1>. QED BY <1>7, <1>8, RestNext, NothingPending, PeersNext, Zenon DEF IInv, Fresh
(* egress_open_commands_process: a session whose slot was just taken asks for *)
(* its destination at once, and one that cannot be set up is closed.          *)
LEMMA OpenSessionRest ==
  ASSUME IInv, Fresh, OpenSession
  PROVE  IInv' /\ Fresh'
  <1>1. PICK sni \in Sni :
          \E c \in BeginRequest([Blank EXCEPT !.state = "handshake", !.speaks = "CONNECTOR",
                                          !.protocol = "CONNECTOR", !.sni = sni], 0, 0) :
            k' = IF c.ok THEN c ELSE Close([c EXCEPT !.result = "IO"])
    BY Zenon DEF OpenSession
  <1>. DEFINE e == [Blank EXCEPT !.state = "handshake", !.speaks = "CONNECTOR",
                                 !.protocol = "CONNECTOR", !.sni = sni]
  <1>2. PICK c \in BeginRequest(e, 0, 0) : k' = IF c.ok THEN c ELSE Close([c EXCEPT !.result = "IO"])
    BY <1>1, SMTT(30)
  <1>3. k = Blank /\ Base(k) BY DEF OpenSession, Fresh, IInv, Rest, Core
  <1>4. sni \in BOOLEAN BY ConfigAssumption
  <1>5. Core(e) /\ e.ok /\ e.state = "handshake" /\ ~e.close_after_flush /\ e.c2u = 0
    <2>1. e = [k EXCEPT !.state = "handshake", !.speaks = "CONNECTOR", !.protocol = "CONNECTOR",
                        !.sni = sni]
      BY <1>3, Zenon
    <2>2. "CONNECTOR" \in Protocols \cup {"NONE"} /\ "CONNECTOR" \in Protocols \cup {"NONE", "HTTP_CONNECT"}
      BY DEF OpenSession
    <2>. HIDE DEF e
    <2>3. Unmoved(k) /\ Taken(k, e)
      BY <1>3, <1>4, <2>1, <2>2, BlankTaken, ZenonT(60)
    <2>4. Base(k) BY <1>3, Zenon
    <2>. QED BY <2>3, <2>4, TakenCore, Zenon
  <1>. HIDE DEF e
  <1>6. Core(c) /\ Kept(e, c) /\ (c.ok => Watched(c))
    <2>1. 0 \in 0..1 /\ 0 \in 0..2 /\ 0 <= e.c2u BY <1>5
    <2>. QED BY <1>2, <1>5, <2>1, BeginRequestCore, SMTT(30)
  <1>7. Rest(k') /\ k'.state # "new"
    <2>1. CASE c.ok BY <1>2, <1>5, <1>6, <2>1, Zenon DEF Rest, Kept
    <2>2. CASE ~c.ok
      <3>1. k' = Close([c EXCEPT !.result = "IO"]) BY <1>2, <2>2, Zenon
      <3>2. Base(c) BY <1>6, Zenon DEF Core
      <3>. QED BY <3>1, <3>2, ClosedRest, Values, Zenon
    <2>. QED BY <2>1, <2>2, Zenon
  <1>8. events' = NoEvents /\ UNCHANGED peers BY DEF OpenSession, IInv, Pending, Alive
  <1>. QED BY <1>7, <1>8, RestNext, NothingPending, PeersNext, Zenon DEF IInv, Fresh

(* The loop reports flags only, and an error without READ only where WRITE   *)
(* was armed.                                                                *)
LEMMA ReportFlags ==
  ASSUME NEW watch \in SUBSET Interests, NEW readable \in BOOLEAN, NEW writable \in BOOLEAN,
         NEW fin \in BOOLEAN, NEW rst \in BOOLEAN
  PROVE  LET r == Report(watch, readable, writable, fin, rst) IN
         /\ r \in SUBSET Flags
         /\ "ERROR" \in r /\ "READ" \notin r => rst /\ "WRITE" \in r /\ "WRITE" \in watch
  BY Zenon DEF Report, Flags, Interests

(* maelys_sys_loop_step. *)
LEMMA CollectRest ==
  ASSUME IInv, Fresh, Collect
  PROVE  IInv' /\ Fresh'
  <1>1. k' = k /\ UNCHANGED peers BY Zenon DEF Collect
  <1>2. k \in Record /\ Watched(k) /\ Rest(k) BY Zenon DEF IInv, Rest, Core, Base
  <1>3. k.client_watch \in SUBSET Interests /\ k.upstream_watch \in SUBSET Interests
    BY <1>2, Zenon DEF Record
  <1>4. cFin \in BOOLEAN /\ cRst \in BOOLEAN /\ uFin \in BOOLEAN /\ uRst \in BOOLEAN
    BY Zenon DEF IInv, Peers
  <1>. DEFINE r == Report(k.client_watch, ClientQueue > 0, ToClient < Window, cFin, cRst)
              s == IF k.state = "connecting" THEN k.upstream_watch
                   ELSE Report(k.upstream_watch, UpstreamQueue > 0, ToUpstream < Window, uFin, uRst)
  <1>5. /\ r \in SUBSET Flags
        /\ "ERROR" \in r /\ "READ" \notin r => cRst /\ "WRITE" \in r /\ k.u2c > 0
    <2>1. (ClientQueue > 0) \in BOOLEAN /\ (ToClient < Window) \in BOOLEAN OBVIOUS
    <2>2. /\ r \in SUBSET Flags
          /\ "ERROR" \in r /\ "READ" \notin r => cRst /\ "WRITE" \in r /\ "WRITE" \in k.client_watch
      BY <1>3, <1>4, <2>1, ReportFlags, ZenonT(60)
    <2>. HIDE DEF r
    <2>. QED BY <1>2, <2>2, Zenon DEF Watched
  <1>6. /\ s \in SUBSET Flags
        /\ "ERROR" \in s /\ "READ" \notin s =>
             uRst /\ "WRITE" \in s /\ k.state = "relay" /\ k.c2u > 0
    <2>1. CASE k.state = "connecting" BY <1>3, <2>1, Zenon DEF Flags, Interests
    <2>2. CASE k.state # "connecting"
      <3>. DEFINE t == Report(k.upstream_watch, UpstreamQueue > 0, ToUpstream < Window, uFin, uRst)
      <3>1. (UpstreamQueue > 0) \in BOOLEAN /\ (ToUpstream < Window) \in BOOLEAN OBVIOUS
      <3>2. /\ t \in SUBSET Flags
            /\ "ERROR" \in t /\ "READ" \notin t =>
                 uRst /\ "WRITE" \in t /\ "WRITE" \in k.upstream_watch
        BY <1>3, <1>4, <3>1, ReportFlags, ZenonT(60)
      <3>3. s = t BY <2>2, Zenon
      <3>. HIDE DEF s, t
      <3>. QED BY <1>2, <2>2, <3>2, <3>3, Zenon DEF Watched
    <2>. QED BY <2>1, <2>2, Zenon
  <1>7. events' = [side \in Sides |-> IF side = "client" THEN r ELSE s]
        \/ events' = [side \in Sides |-> IF side = "client" THEN r ELSE {}]
    <2>1. Ready = [side \in Sides |-> IF side = "client" THEN r ELSE s] BY Zenon DEF Ready
    <2>. HIDE DEF r, s
    <2>. QED BY <2>1, Zenon DEF Collect, Sides
  <1>. HIDE DEF r, s
  <1>8. Pending'
    <2>1. Alive' BY <1>1, Zenon DEF Collect, Alive
    <2>2. cRst' = cRst /\ uRst' = uRst BY <1>1, Zenon DEF peers
    <2>. QED BY <1>1, <1>5, <1>6, <1>7, <2>1, <2>2, Zenon DEF Pending, Sides
  <1>. QED BY <1>1, <1>2, <1>8, RestNext, PeersNext, Zenon DEF IInv, Fresh
(* egress_connection_dispatch: a handler keeps what the event still pending   *)
(* for the other side says of the connection, unless it closes it.            *)
LEMMA DispatchRest ==
  ASSUME IInv, Fresh, NEW side \in Sides, Dispatch(side)
  PROVE  IInv' /\ Fresh'
  <1>1. /\ Rest(k) /\ Peers /\ Pending /\ events[side] # {} /\ UNCHANGED peers
        /\ events' = IF k'.state = "unused" THEN NoEvents ELSE [events EXCEPT ![side] = {}]
    BY Zenon DEF IInv, Dispatch
  <1>2. Alive /\ events[side] \in SUBSET Flags BY <1>1, Zenon DEF Pending, NoEvents
  <1>3. cRst' = cRst /\ uRst' = uRst BY <1>1, Zenon DEF peers
  <1>4. k.u2c \in Int /\ k.c2u \in Int BY <1>1 DEF Rest, Core, Base, Record
  <1>5. Rest(k') /\ k'.state # "new" /\ Pending'
    <2>1. CASE side = "client"
      <3>1. k' \in DispatchClient(k, events["client"]) BY <2>1, Zenon DEF Dispatch, Dispatched
      <3>2. /\ events["client"] \in SUBSET Flags
            /\ "ERROR" \in events["client"] /\ "READ" \notin events["client"] =>
                 cRst /\ "WRITE" \in events["client"] /\ k.u2c > 0
        BY <1>1, <1>2, <2>1, Zenon DEF Pending
      <3>3. /\ Rest(k') /\ k'.state # "new"
            /\ k.state = "relay" => k'.state \in {"relay", "unused"} /\ k'.c2u >= k.c2u
        BY <1>1, <1>2, <3>1, <3>2, DispatchClientRest, Zenon
      <3>4. CASE k'.state = "unused" BY <1>1, <3>3, <3>4, NothingPending, ZenonT(60)
      <3>5. CASE k'.state # "unused"
        <4>1. events' = [events EXCEPT !["client"] = {}] BY <1>1, <2>1, <3>5, Zenon
        <4>2. Alive' BY <3>3, <3>5, Zenon DEF Alive
        <4>3. k'.c2u \in Int BY <3>3, SMTT(30) DEF Rest, Core, Base, Record
        <4>. QED BY <1>1, <1>3, <1>4, <3>3, <3>5, <4>1, <4>2, <4>3, SMTT(30) DEF Pending, Sides
      <3>. QED BY <3>4, <3>5, Zenon
    <2>2. CASE side = "upstream"
      <3>1. k' \in DispatchUpstream(k, events["upstream"]) BY <2>2, Zenon DEF Dispatch, Dispatched
      <3>2. /\ events["upstream"] \in SUBSET Flags
            /\ "ERROR" \in events["upstream"] /\ "READ" \notin events["upstream"] =>
                 uRst /\ "WRITE" \in events["upstream"] /\ k.state = "relay" /\ k.c2u > 0
        BY <1>1, <1>2, <2>2, Zenon DEF Pending
      <3>3. Rest(k') /\ k'.state # "new" /\ k'.u2c >= k.u2c
        BY <1>1, <1>2, <3>1, <3>2, DispatchUpstreamRest, Zenon
      <3>4. CASE k'.state = "unused" BY <1>1, <3>3, <3>4, NothingPending, ZenonT(60)
      <3>5. CASE k'.state # "unused"
        <4>1. events' = [events EXCEPT !["upstream"] = {}] BY <1>1, <2>2, <3>5, Zenon
        <4>2. Alive' BY <3>3, <3>5, ZenonT(60) DEF Alive
        <4>3. k'.u2c \in Int BY <3>3 DEF Rest, Core, Base, Record
        <4>. QED BY <1>1, <1>3, <1>4, <3>3, <3>5, <4>1, <4>2, <4>3, SMTT(30) DEF Pending, Sides
      <3>. QED BY <3>4, <3>5
    <2>. QED BY <2>1, <2>2, Zenon DEF Sides
  <1>. QED BY <1>1, <1>5, RestNext, PeersNext, Zenon DEF IInv, Fresh

(* expire_connections and the end of maelys_egress_server_run. *)
LEMMA CloseStep ==
  ASSUME IInv, Fresh, Expire \/ Stop
  PROVE  IInv' /\ Fresh'
  <1>1. Base(k) /\ k \in Record BY Zenon DEF IInv, Rest, Core, Base
  <1>2. events' = NoEvents /\ UNCHANGED peers BY DEF Expire, Stop
  <1>. DEFINE r == IF Expire THEN "TIMEOUT" ELSE IF k.result = "OK" THEN "CANCELLED" ELSE k.result
  <1>3. r \in Results \ {"OK"} BY <1>1, Zenon DEF Record, Results
  <1>4. k' = Close([k EXCEPT !.result = r]) BY <1>1, Zenon DEF Expire, Stop, Record
  <1>. HIDE DEF r
  <1>5. Rest(k') /\ k'.state = "unused" BY <1>1, <1>3, <1>4, ClosedRest, SMTT(30)
  <1>. QED BY <1>2, <1>5, RestNext, NothingPending, PeersNext, Zenon DEF IInv, Fresh

(* The total of the principal is a field of its own. *)
LEMMA TotalType ==
  ASSUME NEW c \in Record, NEW x \in Int
  PROVE  [c EXCEPT !.total = x] \in Record
  BY ZenonT(60) DEF Record

(* Another stream of the principal is charged within the ceiling. *)
LEMMA OtherStreamRest ==
  ASSUME IInv, Fresh, OtherStream
  PROVE  IInv' /\ Fresh'
  <1>1. /\ Rest(k) /\ Base(k) /\ k \in Record /\ k.total \in 0..U64Max
        /\ MaxTotal # 0 /\ MaxTotal \in 0..U64Max
    BY Numbers DEF IInv, OtherStream, Rest, Core, Base, Charged, Record
  <1>2. k.total + 1 <= MaxTotal BY <1>1 DEF OtherStream, quota_remaining
  <1>3. AddSaturating(k.total, 1) = k.total + 1 BY <1>1, <1>2, AddExact, Numbers
  <1>4. k' = [k EXCEPT !.total = k.total + 1] BY <1>1, <1>3 DEF OtherStream, Record
  <1>5. k' \in Record
    <2>. DEFINE x == k.total + 1
    <2>1. x \in Int BY <1>1
    <2>2. k' = [k EXCEPT !.total = x] BY <1>4
    <2>. HIDE DEF x
    <2>. QED BY <1>1, <2>1, <2>2, TotalType, Zenon
  <1>6. Buffers(k') /\ Sockets(k') /\ Charged(k') /\ Guarded(k')
    BY <1>1, <1>2, <1>4, Numbers, SMTT(30) DEF Base, Record, Buffers, Sockets, Charged, Guarded, Payload
  <1>7. Ends(k') /\ Tidy(k') /\ Unasked(k') /\ Watched(k') /\ k'.ok
    BY <1>1, <1>4, SMTT(30) DEF Rest, Core, Base, Record, Ends, Tidy, Unasked, Watched
  <1>8. Rest(k') BY <1>5, <1>6, <1>7, Zenon DEF Rest, Core, Base
  <1>9. UNCHANGED <<events, peers>> BY Zenon DEF OtherStream
  <1>10. Pending' /\ k'.state # "new"
    <2>1. k'.state = k.state /\ k'.u2c = k.u2c /\ k'.c2u = k.c2u BY <1>1, <1>4, Zenon DEF Record
    <2>. QED BY <1>9, <2>1 DEF IInv, Pending, OtherStream, Alive, peers
  <1>. QED BY <1>8, <1>9, <1>10, RestNext, PeersNext, Zenon DEF IInv, Fresh

(* The peers send, read and end, and may reset. *)
Peer ==
  \/ ClientSend \/ ClientRead \/ ClientEnd
  \/ UpstreamSend \/ UpstreamRead \/ UpstreamEnd \/ Reset

(* What they do changes neither the connection nor what it owes to them. *)
LEMMA PeerRest ==
  ASSUME IInv, Fresh, Peer
  PROVE  IInv' /\ Fresh'
  <1>. USE DEF Peer, ClientSend, ClientRead, ClientEnd, UpstreamSend, UpstreamRead, UpstreamEnd,
               Reset
  <1>1. k' = k /\ events' = events OBVIOUS
  <1>2. Rest(k) /\ Peers /\ Pending /\ k \in Record BY Zenon DEF IInv, Rest, Core, Base
  <1>3. Peers'
    <2>1. cSent' \in 0..ClientBytes /\ uSent' \in 0..UpstreamBytes
      BY <1>2, Numbers, SMTT(30) DEF Peers, ClientCanSend, UpstreamCanSend
    <2>2. cGot' \in Nat /\ uGot' \in Nat BY <1>2 DEF Peers
    <2>3. cFin' \in BOOLEAN /\ cRst' \in BOOLEAN /\ uFin' \in BOOLEAN /\ uRst' \in BOOLEAN
      BY <1>2, Zenon DEF Peers
    <2>. QED BY <2>1, <2>2, <2>3, ZenonT(60) DEF Peers
  <1>4. Sockets(k)'
    <2>1. /\ k.from_client \in Int /\ k.to_client \in Int /\ k.from_upstream \in Int
          /\ k.to_upstream \in Int /\ Sockets(k)
          /\ cSent \in Int /\ cGot \in Int /\ uSent \in Int /\ uGot \in Int
      <3>1. Sockets(k) BY <1>2, Zenon DEF Rest, Core, Base
      <3>. QED BY <1>2, <3>1, Counters, Numbers, SMTT(30) DEF Peers
    <2>2. /\ cSent' = cSent \/ (cSent' = cSent + 1 /\ cSent - k.from_client < Window)
          /\ uSent' = uSent \/ (uSent' = uSent + 1 /\ uSent - k.from_upstream < Window)
          /\ cGot' = cGot \/ (cGot' = cGot + 1 /\ k.to_client - cGot > 0)
          /\ uGot' = uGot \/ (uGot' = uGot + 1 /\ k.to_upstream - uGot > 0)
      BY Zenon DEF ClientCanSend, ClientCanRead, UpstreamCanSend, UpstreamCanRead, ClientQueue,
             UpstreamQueue, ToClient, ToUpstream
    <2>. HIDE DEF Peer
    <2>. QED BY <1>1, <2>1, <2>2, Numbers, SMTT(30) DEF Sockets
  <1>5. Ends(k)'
    BY <1>1, <1>2, Zenon
    DEF Rest, Core, Base, Record, Ends, Peers, ClientCanSend, ClientCanEnd, UpstreamCanSend,
        UpstreamCanEnd, Alive, Peered
  <1>6. Pending' BY <1>1, <1>2, Zenon DEF Pending, Alive
  <1>7. Rest(k)'
    <2>. HIDE DEF Peer
    <2>1. (k \in Record)' /\ k'.ok BY <1>1, <1>2, SMTT(30) DEF Rest, Record
    <2>2. Buffers(k)' /\ Charged(k)' /\ Guarded(k)' /\ Tidy(k)' /\ Unasked(k)' /\ Watched(k)'
      BY <1>1, <1>2, ZenonT(60)
      DEF Rest, Core, Base, Buffers, Charged, Guarded, Tidy, Unasked, Watched, Payload
    <2>. QED BY <1>4, <1>5, <2>1, <2>2, Zenon DEF Rest, Core, Base
  <1>. QED BY <1>1, <1>3, <1>6, <1>7, ZenonT(60) DEF IInv, Fresh
-----------------------------------------------------------------------------
(* The invariant, and what it says of every reachable state. *)

(* The first state: no slot is taken, and no peer has moved. *)
LEMMA InitRest ==
  ASSUME Init
  PROVE  IInv /\ Fresh
  <1>. USE DEF Init
  <1>1. k \in Record
    <2>1. /\ "new" \in States /\ "NONE" \in Scopes /\ 0 \in Int /\ 0 \in 0..Addresses
          /\ 0 \in 0..2 /\ {} \in SUBSET Interests
      BY Numbers DEF States, Scopes
    <2>. QED BY <2>1, Values, ZenonT(60) DEF Blank, Record
  <1>2. Buffers(k) /\ Sockets(k) /\ Charged(k) /\ Guarded(k)
    <2>1. /\ k.exempt = 0 /\ k.u2c = 0 /\ k.c2u = 0 /\ k.to_upstream = 0 /\ k.framing = 0
          /\ k.from_client = 0 /\ k.to_client = 0 /\ k.from_upstream = 0 /\ k.used = 0
          /\ k.total = 0 /\ k.state = "new" /\ ~k.sni
      BY DEF Blank
    <2>2. Buffers(k) BY <2>1, Numbers, SMTT(30) DEF Buffers
    <2>3. Sockets(k) BY <2>1, Numbers, SMTT(30) DEF Sockets
    <2>4. Charged(k) /\ Guarded(k) BY <2>1, Numbers DEF Charged, Guarded
    <2>. QED BY <2>2, <2>3, <2>4, ZenonT(60)
  <1>3. Ends(k) /\ Tidy(k) /\ Unasked(k) /\ Watched(k) /\ k.ok
    BY Zenon DEF Blank, Ends, Tidy, Unasked, Watched
  <1>4. Peers
    <2>1. cSent \in 0..ClientBytes /\ uSent \in 0..UpstreamBytes /\ cGot \in Nat /\ uGot \in Nat
      BY Numbers
    <2>2. cFin \in BOOLEAN /\ cRst \in BOOLEAN /\ uFin \in BOOLEAN /\ uRst \in BOOLEAN BY Zenon
    <2>. QED BY <2>1, <2>2, Zenon DEF Peers
  <1>5. Pending BY Zenon DEF Pending, NoEvents, Sides, Flags
  <1>. QED BY <1>1, <1>2, <1>3, <1>4, <1>5, Zenon DEF IInv, Rest, Core, Base, Fresh

(* A step that changes nothing. *)
LEMMA StutterRest ==
  ASSUME IInv, Fresh, UNCHANGED vars
  PROVE  IInv' /\ Fresh'
  <1>1. k' = k /\ events' = events /\ UNCHANGED peers BY Zenon DEF vars
  <1>2. Rest(k)' BY <1>1, RestNext, Zenon DEF IInv
  <1>3. Pending' BY <1>1, Zenon DEF IInv, Pending, Alive, peers
  <1>. QED BY <1>1, <1>2, <1>3, PeersNext, Zenon DEF IInv, Fresh

(* Every step keeps the invariant. *)
LEMMA NextRest ==
  ASSUME IInv, Fresh, [Next]_vars
  PROVE  IInv' /\ Fresh'
  <1>1. CASE Accept BY <1>1, AcceptRest, Zenon
  <1>2. CASE OpenSession BY <1>2, OpenSessionRest
  <1>3. CASE Collect BY <1>3, CollectRest, Zenon
  <1>4. CASE \E side \in Sides : Dispatch(side) BY <1>4, DispatchRest, Zenon
  <1>5. CASE Expire \/ Stop BY <1>5, CloseStep, Zenon
  <1>6. CASE OtherStream BY <1>6, OtherStreamRest
  <1>7. CASE Peer BY <1>7, PeerRest, Zenon
  <1>8. CASE UNCHANGED vars BY <1>8, StutterRest, Zenon
  <1>. QED BY <1>1, <1>2, <1>3, <1>4, <1>5, <1>6, <1>7, <1>8, Zenon DEF Next, Peer

(* The inductive invariant holds of the relay, whatever the sizes of buffers *)
(* and streams, the ceilings and the protocols.                              *)
THEOREM Invariance == Spec => [](IInv /\ Fresh)
  <1>1. Init => IInv /\ Fresh BY InitRest, Zenon
  <1>2. (IInv /\ Fresh) /\ [Next]_vars => (IInv /\ Fresh)' BY NextRest, Zenon
  <1>. QED BY <1>1, <1>2, PTL DEF Spec

(* egress_quota_charge: the quota counts exactly the payload, and neither     *)
(* the stream nor its principal exceeds its ceiling.                          *)
THEOREM RelayQuotaExact == Spec => []QuotaExact
  <1>1. IInv => QuotaExact
    BY DEF IInv, Rest, Core, Base, Record, Buffers, Charged, Payload, QuotaExact
  <1>. QED BY <1>1, Invariance, PTL

(* require_tls_sni: no byte reaches the upstream before the ClientHello of    *)
(* the client was verified.                                                   *)
THEOREM RelayGuarded == Spec => []GuardedUntilVerified
  <1>1. IInv => GuardedUntilVerified
    BY Zenon DEF IInv, Rest, Core, Base, Guarded, GuardedUntilVerified
  <1>. QED BY <1>1, Invariance, PTL

(* apply_half_closes: an end of stream is passed on only after everything     *)
(* that was sent before it.                                                   *)
THEOREM RelayHalfCloses == Spec => []HalfCloseAfterTail
  <1>1. IInv => HalfCloseAfterTail
    BY ZenonT(60) DEF IInv, Rest, Core, Base, Ends, HalfCloseAfterTail
  <1>. QED BY <1>1, Invariance, PTL

(* connection_complete: a connection that ends with OK relayed both streams   *)
(* whole.                                                                     *)
THEOREM RelayCleanEnd == Spec => []CleanEnd
  <1>1. IInv => CleanEnd
    BY DEF IInv, Rest, Core, Base, Record, Buffers, Ends, CleanEnd
  <1>. QED BY <1>1, Invariance, PTL

(* Every field stays within its range: buffers within their capacity, the     *)
(* sockets within their windows, the counters within their words.             *)
THEOREM RelayTypeOK == Spec => []TypeOK
  <1>1. IInv => TypeOK
    <2>. SUFFICES ASSUME IInv PROVE TypeOK OBVIOUS
    <2>1. k \in Record /\ Buffers(k) /\ Sockets(k) /\ Charged(k) /\ k.ok /\ Peers
      BY Zenon DEF IInv, Rest, Core, Base
    <2>2. /\ k.ok \in {TRUE} /\ k.c2u \in 0..Capacity /\ k.u2c \in 0..Capacity
          /\ k.from_client \in 0..ClientBytes /\ k.to_client \in Nat
          /\ k.from_upstream \in 0..UpstreamBytes /\ k.to_upstream \in 0..(ClientBytes + 1)
          /\ k.framing \in -1..3 /\ k.used \in U64 /\ k.total \in U64
          /\ k.exempt \in 0..Capacity
      BY <2>1, Numbers DEF Record, Buffers, Sockets, Charged, Peers, U64
    <2>3. k \in [state : States, result : Results, protocol : Protocols \cup {"NONE", "HTTP_CONNECT"},
             speaks : Protocols \cup {"NONE"}, sni : BOOLEAN, verified : BOOLEAN, ok : {TRUE},
             socks_phase : 0..2, address_index : 0..Addresses,
             c2u : 0..Capacity, u2c : 0..Capacity,
             from_client : 0..ClientBytes, to_client : Nat,
             from_upstream : 0..UpstreamBytes, to_upstream : 0..(ClientBytes + 1),
             framing : -1..3, client_eof : BOOLEAN, upstream_eof : BOOLEAN,
             client_hup : BOOLEAN, upstream_hup : BOOLEAN,
             client_shutdown : BOOLEAN, upstream_shutdown : BOOLEAN,
             close_after_flush : BOOLEAN, upstream : BOOLEAN, aborted : BOOLEAN, fin : BOOLEAN,
             client_watch : SUBSET Interests, upstream_watch : SUBSET Interests,
             admitted : BOOLEAN, exhausted : BOOLEAN, scope : Scopes,
             used : U64, total : U64, exempt : 0..Capacity, unarmed : BOOLEAN]
      BY <2>1, <2>2, ZenonT(60) DEF Record
    <2>4. /\ ClientQueue \in 0..Window /\ ToClient \in 0..Window
          /\ UpstreamQueue \in 0..Window /\ ToUpstream \in 0..Window
      BY <2>1, Numbers DEF Record, Sockets, Peers, ClientQueue, ToClient, UpstreamQueue, ToUpstream
    <2>. QED BY <2>1, <2>3, <2>4, Zenon DEF IInv, Pending, Peers, TypeOK
  <1>. QED BY <1>1, Invariance, PTL
=============================================================================
