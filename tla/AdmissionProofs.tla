-------------------------- MODULE AdmissionProofs --------------------------
(***************************************************************************)
(* Proofs about Admission, for any number of slots, principals, policies     *)
(* and arrivals.  Safe is what every function of the owner leaves true of    *)
(* its state; Settled is what in addition holds of a connection between two  *)
(* events.  A function changes one slot, so a lemma about each is enough.    *)
(* The last part is about the tokens of the watches.                         *)
(***************************************************************************)
EXTENDS Admission, FiniteSetTheorems, TLAPS

Conn ==
  [state : {"UNUSED", "HANDSHAKE", "CONNECTING", "RELAY"}, generation : Nat,
   protocol : {"NONE", "HTTP", "CONNECTOR"}, principal : Principals \cup {None},
   result : Results, first : Results, flush : BOOLEAN, admitted : BOOLEAN,
   digest : Policies \cup {""}, stamp : Nat, destination : Policies, upstream : Policies]

Left == [result : Results, first : Results, digest : Policies \cup {""}, stamp : Nat,
         upstream : Policies]

OwnerState ==
  [slots : [Slots -> Conn], count : Int, next_id : Nat, active : [Principals -> Int],
   accepted : Nat, live : Int, receipts : Nat, audit_failures : Nat, healthy : BOOLEAN,
   issued : SUBSET Nat, journalled : Nat, last : Left]

(* A connection or a receipt carries one policy. *)
Stamped(c) ==
  c.stamp > 0 =>
    /\ c.stamp \in DOMAIN published /\ c.digest = published[c.stamp]
    /\ c.upstream # None => c.upstream = published[c.stamp]

(* A result once set stays, but for the deadline and a lost watch. *)
Decided(c) ==
  /\ c.result = "OK" <=> c.first = "OK"
  /\ c.first # "OK" => c.result \in {c.first, "TIMEOUT", "IO"}

ConnSafe(c) ==
  /\ Stamped(c) /\ Decided(c)
  /\ c.stamp > 0 /\ c.destination # None => c.destination = published[c.stamp]
  /\ c.admitted => c.principal \in Principals /\ c.state # "UNUSED"

Health(s) == s.audit_failures = 0 => s.journalled = s.receipts

Generations(s) == {s.slots[i].generation : i \in Used(s)}

Numbers(s) ==
  /\ \A i \in Used(s) : s.slots[i].generation \in 1..s.next_id
  /\ \A i, j \in Used(s) : s.slots[i].generation = s.slots[j].generation => i = j
  /\ s.issued = (1..s.next_id) \ Generations(s)
  /\ s.count = Cardinality(Used(s)) /\ s.live = s.count
  /\ s.receipts = Cardinality(s.issued) /\ s.receipts + s.count = s.next_id

HoldingOf(s, p) == {i \in Used(s) : s.slots[i].admitted /\ s.slots[i].principal = p}

Active(s) ==
  \A p \in Principals :
    /\ s.active[p] = Cardinality(HoldingOf(s, p))
    /\ MaxActive > 0 => s.active[p] <= MaxActive

Safe(s) ==
  /\ s \in OwnerState
  /\ \A i \in Slots : ConnSafe(s.slots[i])
  /\ Stamped(s.last) /\ Decided(s.last)
  /\ Health(s) /\ Numbers(s) /\ Active(s)

(* Only a used-up quota is set on a connection that goes on. *)
Calm(c) ==
  /\ ~c.flush => c.first \in {"OK", "DENIED"}
  /\ c.state = "HANDSHAKE" => c.upstream = None

(* Between two events: a counted connection is past its handshake, or has    *)
(* its refusal queued.                                                       *)
Settled(c) == Calm(c) /\ (c.admitted => c.flush \/ c.state # "HANDSHAKE")

PolicyKnown ==
  /\ policy \in Policies /\ published \in Seq(Policies)
  /\ policy_generation = Len(published) /\ policy_generation > 0
  /\ policy = published[policy_generation]

IInv ==
  /\ PolicyKnown /\ Safe(o) /\ \A i \in Slots : Settled(o.slots[i])
  /\ events \subseteq Nat /\ (run # "loop" => events = {})
-----------------------------------------------------------------------------
(* One slot at a time. *)

Put(s, i, c) == [s EXCEPT !.slots[i] = c]

Frame(s, t, i) == \A j \in Slots : j # i => t.slots[j] = s.slots[j]

(* A connection put back: the same identity, counted as it was. *)
SameHolder(c, d) ==
  /\ d \in Conn /\ ConnSafe(d) /\ d.state # "UNUSED" /\ d.generation = c.generation
  /\ d.admitted = c.admitted /\ (c.admitted => d.principal = c.principal)

(* The fields of the owner's state after a change of one slot. *)
LEMMA PutFields ==
  ASSUME NEW s \in OwnerState, NEW i \in Slots, NEW c \in Conn
  PROVE  LET t == Put(s, i, c) IN
         /\ t \in OwnerState /\ t.slots = [s.slots EXCEPT ![i] = c]
         /\ t.slots[i] = c /\ Frame(s, t, i)
         /\ t.count = s.count /\ t.next_id = s.next_id /\ t.active = s.active
         /\ t.accepted = s.accepted /\ t.live = s.live /\ t.receipts = s.receipts
         /\ t.audit_failures = s.audit_failures /\ t.healthy = s.healthy
         /\ t.issued = s.issued /\ t.journalled = s.journalled /\ t.last = s.last
BY DEF Put, OwnerState, Frame

(* Putting it back keeps the owner's state safe. *)
LEMMA PutSafe ==
  ASSUME NEW s, Safe(s), NEW i \in Used(s), NEW c, SameHolder(s.slots[i], c)
  PROVE  LET t == Put(s, i, c) IN
         Safe(t) /\ Frame(s, t, i) /\ Used(t) = Used(s) /\ t.slots[i] = c
<1> DEFINE t == Put(s, i, c)
<1>0. s \in OwnerState /\ i \in Slots /\ c \in Conn
  BY DEF Safe, Used, SameHolder
<1>1. /\ t \in OwnerState /\ t.slots = [s.slots EXCEPT ![i] = c]
      /\ t.slots[i] = c /\ Frame(s, t, i)
      /\ t.count = s.count /\ t.next_id = s.next_id /\ t.active = s.active
      /\ t.accepted = s.accepted /\ t.live = s.live /\ t.receipts = s.receipts
      /\ t.audit_failures = s.audit_failures /\ t.healthy = s.healthy
      /\ t.issued = s.issued /\ t.journalled = s.journalled /\ t.last = s.last
  BY <1>0, PutFields
<1> HIDE DEF t
<1>2. Used(t) = Used(s)
  BY <1>1 DEF Used, Frame, SameHolder
<1>3. \A j \in Slots : ConnSafe(t.slots[j])
  BY <1>1 DEF Safe, Frame, SameHolder
<1>4. \A j \in Slots : t.slots[j].generation = s.slots[j].generation
  BY <1>1 DEF Frame, SameHolder
<1>5. Numbers(t)
  <2>1. Generations(t) = Generations(s)
    BY <1>2, <1>4 DEF Generations, Used
  <2>2. Used(s) \subseteq Slots
    BY DEF Used
  <2> QED
    BY <1>1, <1>2, <1>4, <2>1, <2>2 DEF Safe, Numbers
<1>6. Active(t)
  <2>1. ASSUME NEW p \in Principals PROVE HoldingOf(t, p) = HoldingOf(s, p)
    BY <1>1, <1>2 DEF HoldingOf, Frame, SameHolder, Used
  <2> QED
    BY <1>1, <2>1 DEF Safe, Active
<1>7. Stamped(t.last) /\ Decided(t.last) /\ Health(t)
  BY <1>1 DEF Safe, Health
<1> QED
  BY <1>1, <1>2, <1>3, <1>5, <1>6, <1>7 DEF Safe, t

(* A ceiling is a number, and nobody is not a principal. *)
LEMMA Ceilings ==
  MaxActive \in Nat /\ None \notin Principals
BY AdmissionAssumption

(* The sets that are counted are finite. *)
LEMMA Finite ==
  ASSUME NEW s, Safe(s)
  PROVE  /\ Used(s) \subseteq Slots /\ IsFiniteSet(Used(s)) /\ IsFiniteSet(s.issued)
         /\ \A p \in Principals : IsFiniteSet(HoldingOf(s, p))
<1>1. IsFiniteSet(Slots) /\ Used(s) \subseteq Slots
  BY FS_Interval, AdmissionAssumption DEF Slots, Used
<1>2. IsFiniteSet(Used(s))
  BY <1>1, FS_Subset
<1>3. s.next_id \in Nat /\ s.issued \subseteq 1..s.next_id
  BY DEF Safe, Numbers, OwnerState
<1>4. IsFiniteSet(1..s.next_id)
  BY <1>3, FS_Interval
<1>5. IsFiniteSet(s.issued)
  BY <1>3, <1>4, FS_Subset
<1>6. ASSUME NEW p \in Principals PROVE IsFiniteSet(HoldingOf(s, p))
  <2>1. HoldingOf(s, p) \subseteq Used(s)
    BY DEF HoldingOf
  <2> QED
    BY <1>2, <2>1, FS_Subset
<1> QED
  BY <1>1, <1>2, <1>5, <1>6

(* One count lowered. *)
LEMMA LowerCount ==
  ASSUME NEW S, NEW f \in [S -> Int], NEW x
  PROVE  [f EXCEPT ![x] = @ - 1] \in [S -> Int]
<1>1. [f EXCEPT ![x] = @ - 1] = [y \in S |-> IF y = x THEN f[x] - 1 ELSE f[y]]
  BY Zenon
<1>2. ASSUME NEW y \in S PROVE (IF y = x THEN f[x] - 1 ELSE f[y]) \in Int
  <2>1. f[y] \in Int
    OBVIOUS
  <2>2. CASE y = x
    BY <2>1, <2>2
  <2>3. CASE y # x
    BY <2>1, <2>3
  <2> QED
    BY <2>2, <2>3
<1> QED
  BY <1>1, <1>2, Zenon

(* The state after egress_connection_close, field by field. *)
LEMMA CloseFields ==
  ASSUME NEW s \in OwnerState, NEW i \in Slots, NEW t \in Close(s, i)
  PROVE  LET c == s.slots[i] IN
         /\ t \in OwnerState
         /\ t.slots = [s.slots EXCEPT ![i] = [Unused EXCEPT !.generation = c.generation]]
         /\ t.count = s.count - 1 /\ t.live = s.live - 1 /\ t.next_id = s.next_id
         /\ t.accepted = s.accepted /\ t.receipts = s.receipts + 1
         /\ t.active = Leave(s.active, c) /\ t.issued = s.issued \cup {c.generation}
         /\ t.last = Receipt(c) /\ (Health(s) => Health(t))
<1> DEFINE c == s.slots[i]
           u == [Unused EXCEPT !.generation = c.generation]
<1>1. PICK e \in Emissions(s) :
        t = [Emit(s, c, e) EXCEPT !.slots[i] = u, !.active = Leave(@, c), !.count = @ - 1, !.live = @ - 1]
  BY Zenon DEF Close
<1>2. c \in Conn
  BY DEF OwnerState
<1>3. u \in Conn
  BY <1>2, Zenon DEF Conn, Unused, Results, Policies
<1>4. Receipt(c) \in Left
  BY <1>2, Zenon DEF Conn, Receipt, Left
<1>5. Leave(s.active, c) \in [Principals -> Int]
  <2>1. s.active \in [Principals -> Int]
    BY DEF OwnerState
  <2>2. [s.active EXCEPT ![c.principal] = @ - 1] \in [Principals -> Int]
    BY <2>1, LowerCount
  <2> QED
    BY <2>1, <2>2 DEF Leave
<1>6. e.appended \in BOOLEAN /\ e.attested \in BOOLEAN
  BY DEF Emissions
<1> HIDE DEF c, u
<1>7. /\ t.slots = [s.slots EXCEPT ![i] = u]
      /\ t.count = s.count - 1 /\ t.live = s.live - 1 /\ t.next_id = s.next_id
      /\ t.accepted = s.accepted /\ t.receipts = s.receipts + 1
      /\ t.active = Leave(s.active, c) /\ t.issued = s.issued \cup {c.generation}
      /\ t.last = Receipt(c)
  BY <1>1 DEF Emit, OwnerState
<1>8. /\ t.audit_failures = IF e.appended THEN s.audit_failures ELSE s.audit_failures + 1
      /\ t.journalled = IF e.appended THEN s.journalled + 1 ELSE s.journalled
      /\ t.healthy = (s.healthy /\ (e.attested => e.appended))
  BY <1>1 DEF Emit, OwnerState
<1>9. t \in OwnerState
  <2> DEFINE m == Emit(s, c, e)
  <2>1. m \in OwnerState /\ m.slots = s.slots /\ m.active = s.active
    <3> DEFINE failures == IF e.appended THEN s.audit_failures ELSE s.audit_failures + 1
               written == IF e.appended THEN s.journalled + 1 ELSE s.journalled
               well == s.healthy /\ (e.attested => e.appended)
    <3>1. failures \in Nat /\ written \in Nat /\ s.receipts + 1 \in Nat
      BY DEF OwnerState
    <3>2. well \in BOOLEAN
      BY Zenon
    <3>3. s.issued \cup {c.generation} \in SUBSET Nat
      BY <1>2, Zenon DEF OwnerState, Conn
    <3>4. m = [s EXCEPT !.receipts = s.receipts + 1, !.audit_failures = failures,
                        !.healthy = well, !.journalled = written,
                        !.issued = s.issued \cup {c.generation}, !.last = Receipt(c)]
      BY DEF Emit
    <3> HIDE DEF failures, written, well, m
    <3> QED
      BY <1>4, <3>1, <3>2, <3>3, <3>4, Zenon DEF OwnerState
  <2> HIDE DEF m
  <2>2. m.slots \in [Slots -> Conn] /\ m.count - 1 \in Int /\ m.live - 1 \in Int
    BY <2>1 DEF OwnerState
  <2>3. [m.slots EXCEPT ![i] = u] \in [Slots -> Conn]
    BY <1>3, <2>2
  <2>4. t = [m EXCEPT !.slots = [m.slots EXCEPT ![i] = u], !.active = Leave(m.active, c),
                      !.count = m.count - 1, !.live = m.live - 1]
    BY <1>1 DEF m
  <2> QED
    BY <1>5, <2>1, <2>2, <2>3, <2>4, Zenon DEF OwnerState
<1>10. Health(s) => Health(t)
  BY <1>7, <1>8 DEF Health, OwnerState
<1> QED
  BY <1>7, <1>9, <1>10 DEF c, u

(* egress_connection_close keeps the state safe: the slot's identifier moves *)
(* from those in use to those receipts were issued for.                      *)
LEMMA CloseSafe ==
  ASSUME NEW s, Safe(s), NEW i \in Used(s), NEW t \in Close(s, i)
  PROVE  Safe(t) /\ Frame(s, t, i) /\ i \notin Used(t) /\ Settled(t.slots[i])
<1> DEFINE c == s.slots[i]
           u == [Unused EXCEPT !.generation = c.generation]
<1>0. s \in OwnerState /\ i \in Slots /\ c \in Conn /\ ConnSafe(c)
  BY DEF Safe, Used, OwnerState
<1>1. /\ t \in OwnerState /\ t.slots = [s.slots EXCEPT ![i] = u]
      /\ t.count = s.count - 1 /\ t.live = s.live - 1 /\ t.next_id = s.next_id
      /\ t.accepted = s.accepted /\ t.receipts = s.receipts + 1
      /\ t.active = Leave(s.active, c) /\ t.issued = s.issued \cup {c.generation}
      /\ t.last = Receipt(c) /\ Health(t)
  BY <1>0, CloseFields DEF Safe
<1>2. /\ u.state = "UNUSED" /\ ~u.admitted /\ u.stamp = 0 /\ ~u.flush
      /\ u.result = "OK" /\ u.first = "OK" /\ u.destination = None
  BY DEF Unused
<1> HIDE DEF c, u
<1>3. t.slots[i] = u /\ Frame(s, t, i)
  BY <1>0, <1>1 DEF OwnerState, Frame
<1>4. Used(t) = Used(s) \ {i}
  BY <1>2, <1>3 DEF Used, Frame
<1>5. ConnSafe(u) /\ Settled(u)
  BY <1>2 DEF ConnSafe, Stamped, Decided, Settled, Calm
<1>6. \A j \in Slots : ConnSafe(t.slots[j])
  BY <1>3, <1>5 DEF Safe, Frame
<1>7. Stamped(t.last) /\ Decided(t.last)
  BY <1>0, <1>1 DEF ConnSafe, Stamped, Decided, Receipt
<1>8. Numbers(t)
  <2>1. /\ IsFiniteSet(Used(s)) /\ IsFiniteSet(s.issued) /\ Used(s) \subseteq Slots
    BY Finite
  <2>2. Cardinality(Used(t)) = Cardinality(Used(s)) - 1
    BY <1>4, <2>1, FS_RemoveElement, Zenon
  <2>3. /\ c.generation \in 1..s.next_id /\ c.generation \in Generations(s)
        /\ s.issued = (1..s.next_id) \ Generations(s)
    BY DEF Safe, Numbers, Generations, c
  <2>4. Cardinality(t.issued) = Cardinality(s.issued) + 1
    <3>1. c.generation \notin s.issued
      BY <2>3
    <3>2. t.issued = s.issued \cup {c.generation}
      BY <1>1
    <3> QED
      BY <2>1, <3>1, <3>2, FS_AddElement, Zenon
  <2>5. Generations(t) = Generations(s) \ {c.generation}
    <3>1. \A j \in Used(t) : j \in Used(s) /\ j # i /\ t.slots[j] = s.slots[j]
      BY <1>3, <1>4, <2>1 DEF Frame
    <3>2. \A j \in Used(s) : s.slots[j].generation = c.generation => j = i
      BY DEF Safe, Numbers, c
    <3> QED
      BY <1>4, <3>1, <3>2 DEF Generations, c
  <2>6. t.issued = (1..t.next_id) \ Generations(t)
    BY <1>1, <2>3, <2>5
  <2>7. \A j \in Used(t) : t.slots[j] = s.slots[j] /\ j \in Used(s)
    BY <1>3, <1>4, <2>1, Zenon DEF Frame
  <2>8. /\ s.count = Cardinality(Used(s)) /\ s.live = s.count
        /\ s.receipts = Cardinality(s.issued) /\ s.receipts + s.count = s.next_id
        /\ s.count \in Int /\ s.receipts \in Nat
    BY <1>0 DEF Safe, Numbers, OwnerState
  <2>9. /\ t.count = Cardinality(Used(t)) /\ t.live = t.count
        /\ t.receipts = Cardinality(t.issued) /\ t.receipts + t.count = t.next_id
    BY <1>1, <2>2, <2>4, <2>8
  <2>10. /\ \A j \in Used(t) : t.slots[j].generation \in 1..t.next_id
         /\ \A j, k \in Used(t) : t.slots[j].generation = t.slots[k].generation => j = k
    BY <1>1, <2>7 DEF Safe, Numbers
  <2> QED
    BY <2>6, <2>9, <2>10 DEF Numbers
<1>9. Active(t)
  <2> SUFFICES ASSUME NEW p \in Principals
               PROVE  /\ t.active[p] = Cardinality(HoldingOf(t, p))
                      /\ MaxActive > 0 => t.active[p] <= MaxActive
    BY DEF Active
  <2>1. HoldingOf(t, p) = HoldingOf(s, p) \ {i}
    BY <1>3, <1>4 DEF HoldingOf, Frame, Used
  <2>2. /\ s.active[p] = Cardinality(HoldingOf(s, p))
        /\ MaxActive > 0 => s.active[p] <= MaxActive
    BY DEF Safe, Active
  <2>3. IsFiniteSet(HoldingOf(s, p)) /\ Cardinality(HoldingOf(s, p)) \in Nat
    BY Finite, FS_CardinalityType
  <2>4. s.active \in [Principals -> Int]
    BY <1>0, SMTT(20) DEF OwnerState
  <2>5. CASE c.admitted /\ c.principal = p
    <3>1. i \in HoldingOf(s, p)
      BY <2>5 DEF HoldingOf, c
    <3>2. Cardinality(HoldingOf(t, p)) = Cardinality(HoldingOf(s, p)) - 1
      BY <2>1, <2>3, <3>1, FS_RemoveElement, Zenon
    <3>3. Cardinality(HoldingOf(s, p)) # 0
      BY <2>3, <3>1, FS_EmptySet
    <3>4. t.active[p] = s.active[p] - 1
      BY <1>1, <2>2, <2>3, <2>4, <2>5, <3>3 DEF Leave
    <3> QED
      BY <2>2, <2>3, <3>2, <3>4, Ceilings
  <2>6. CASE ~(c.admitted /\ c.principal = p)
    <3>1. HoldingOf(t, p) = HoldingOf(s, p)
      BY <2>1, <2>6, Zenon DEF HoldingOf, c
    <3>2. t.active[p] = s.active[p]
      BY <1>1, <2>4, <2>6 DEF Leave
    <3> QED
      BY <2>2, <3>1, <3>2
  <2> QED
    BY <2>5, <2>6
<1> QED
  BY <1>1, <1>3, <1>4, <1>5, <1>6, <1>7, <1>8, <1>9, Zenon DEF Safe

(* What a function that works on slot i leaves. *)
Outcome(s, t, i) == Safe(t) /\ Frame(s, t, i) /\ Settled(t.slots[i])

(* Two changes of one slot are one. *)
LEMMA FrameTwice ==
  ASSUME NEW s, NEW t, NEW u, NEW i, Frame(s, t, i), Frame(t, u, i) PROVE Frame(s, u, i)
BY DEF Frame

(* All but the results of two connections. *)
LikeButResult(c, d) ==
  /\ d.state = c.state /\ d.generation = c.generation /\ d.protocol = c.protocol
  /\ d.principal = c.principal /\ d.admitted = c.admitted /\ d.digest = c.digest
  /\ d.stamp = c.stamp /\ d.destination = c.destination /\ d.upstream = c.upstream

(* A connection with another result is the same holder. *)
LEMMA ResultKeeps ==
  ASSUME NEW c \in Conn, ConnSafe(c), c.state # "UNUSED", NEW d \in Conn, LikeButResult(c, d), Decided(d)
  PROVE  SameHolder(c, d)
<1>1. Stamped(d)
  BY DEF ConnSafe, Stamped, LikeButResult
<1>2. ConnSafe(d)
  BY <1>1 DEF ConnSafe, LikeButResult
<1> QED
  BY <1>2 DEF SameHolder, LikeButResult

(* Setting a result. *)
LEMMA SetResultFields ==
  ASSUME NEW c \in Conn, NEW result \in Results
  PROVE  LET d == SetResult(c, result) IN
         /\ d \in Conn /\ LikeButResult(c, d) /\ d.flush = c.flush
         /\ d.result = result /\ d.first = IF c.first = "OK" THEN result ELSE c.first
BY Zenon DEF Conn, SetResult, LikeButResult

(* Queueing a refusal. *)
LEMMA FlushFields ==
  ASSUME NEW c \in Conn
  PROVE  LET d == [c EXCEPT !.flush = TRUE] IN
         /\ d \in Conn /\ LikeButResult(c, d) /\ d.flush = TRUE
         /\ d.result = c.result /\ d.first = c.first
BY Zenon DEF Conn, LikeButResult

(* A reason given at the close: the first one, the deadline or a lost watch. *)
LEMMA CloseWithSafe ==
  ASSUME NEW s, Safe(s), NEW i \in Used(s), NEW result \in Results \ {"OK"},
         s.slots[i].first = "OK" \/ result \in {"TIMEOUT", "IO", s.slots[i].first},
         NEW t \in CloseWith(s, i, result)
  PROVE  Outcome(s, t, i) /\ i \notin Used(t)
<1> DEFINE c == s.slots[i]
           d == SetResult(c, result)
           r == Put(s, i, d)
<1>1. c \in Conn /\ ConnSafe(c) /\ c.state # "UNUSED"
  BY DEF Safe, Used, OwnerState
<1>2. SameHolder(c, d)
  <2>1. /\ d \in Conn /\ LikeButResult(c, d)
        /\ d.result = result /\ d.first = IF c.first = "OK" THEN result ELSE c.first
    BY <1>1, SetResultFields
  <2>2. Decided(d)
    BY <2>1 DEF Decided
  <2> QED
    BY <1>1, <2>1, <2>2, ResultKeeps, Zenon
<1>3. Safe(r) /\ Frame(s, r, i) /\ i \in Used(r)
  BY <1>2, PutSafe
<1>4. t \in Close(r, i)
  BY DEF CloseWith, Put
<1> HIDE DEF r
<1> QED
  BY <1>3, <1>4, CloseSafe, FrameTwice DEF Outcome

(* A close that keeps a result already set. *)
LEMMA AbortSafe ==
  ASSUME NEW s, Safe(s), NEW i \in Used(s), NEW result \in Results \ {"OK"},
         NEW t \in Abort(s, i, result)
  PROVE  Outcome(s, t, i) /\ i \notin Used(t)
<1>1. ConnSafe(s.slots[i])
  BY DEF Safe, Used
<1>2. CASE s.slots[i].result = "OK"
  <2>1. s.slots[i].first = "OK" /\ t \in CloseWith(s, i, result)
    BY <1>1, <1>2 DEF ConnSafe, Decided, Abort
  <2> QED
    BY <2>1, CloseWithSafe, Zenon
<1>3. CASE s.slots[i].result # "OK"
  BY <1>3, CloseSafe DEF Abort, Outcome
<1> QED
  BY <1>2, <1>3

(* egress_connection_fail: the refusal is queued, or the session closed. *)
LEMMA FailSafe ==
  ASSUME NEW s, Safe(s), NEW i \in Used(s), Calm(s.slots[i]), NEW result \in Results \ {"OK"},
         NEW t \in Fail(s, i, result)
  PROVE  Outcome(s, t, i)
<1> DEFINE c == s.slots[i]
           b == IF c.result = "OK" THEN SetResult(c, result) ELSE c
           d == [b EXCEPT !.flush = TRUE]
           r == Put(s, i, d)
<1>1. c \in Conn /\ ConnSafe(c) /\ c.state # "UNUSED"
  BY DEF Safe, Used, OwnerState
<1>2. SameHolder(c, d) /\ Settled(d)
  <2>1. /\ b \in Conn /\ LikeButResult(c, b) /\ Decided(b)
    <3>1. CASE c.result = "OK"
      BY <1>1, <3>1, SetResultFields DEF Decided, ConnSafe
    <3>2. CASE c.result # "OK"
      BY <1>1, <3>2 DEF ConnSafe, LikeButResult
    <3> QED
      BY <3>1, <3>2, Zenon
  <2> HIDE DEF b
  <2>2. /\ d \in Conn /\ LikeButResult(b, d) /\ d.flush = TRUE
        /\ d.result = b.result /\ d.first = b.first
    BY <2>1, FlushFields, Zenon
  <2> HIDE DEF d
  <2>3. LikeButResult(c, d) /\ Decided(d)
    BY <2>1, <2>2, Zenon DEF LikeButResult, Decided
  <2>4. Settled(d)
    BY <2>2, <2>3 DEF Settled, Calm, LikeButResult
  <2> QED
    BY <1>1, <2>2, <2>3, <2>4, ResultKeeps, Zenon
<1>3. Safe(r) /\ Frame(s, r, i) /\ i \in Used(r) /\ r.slots[i] = d
  BY <1>2, PutSafe
<1>4. t = r \/ t \in Close(r, i)
  BY DEF Fail, Put
<1> HIDE DEF r, d, b
<1> QED
  BY <1>2, <1>3, <1>4, CloseSafe, FrameTwice, Zenon DEF Outcome

(* egress_connection_connected: the upstream is the destination that was     *)
(* selected.                                                                 *)
LEMMA ConnectedSafe ==
  ASSUME NEW s, Safe(s), NEW i \in Used(s), Calm(s.slots[i]), NEW t \in Connected(s, i)
  PROVE  Outcome(s, t, i)
<1> DEFINE c == s.slots[i]
           d == [c EXCEPT !.state = "RELAY", !.upstream = c.destination]
           r == Put(s, i, d)
<1>1. c \in Conn /\ ConnSafe(c) /\ s \in OwnerState /\ i \in Slots
  BY DEF Safe, Used, OwnerState
<1>2. /\ d \in Conn /\ d.state = "RELAY" /\ d.upstream = c.destination
      /\ d.generation = c.generation /\ d.principal = c.principal /\ d.admitted = c.admitted
      /\ d.digest = c.digest /\ d.stamp = c.stamp /\ d.destination = c.destination
      /\ d.result = c.result /\ d.first = c.first /\ d.flush = c.flush
  BY <1>1, Zenon DEF Conn
<1>3. r = [s EXCEPT !.slots[i].state = "RELAY", !.slots[i].upstream = s.slots[i].destination]
  BY <1>1, Zenon DEF Put, OwnerState
<1> HIDE DEF d
<1>4. Stamped(d) /\ Decided(d)
  BY <1>1, <1>2, Zenon DEF ConnSafe, Stamped, Decided
<1>5. SameHolder(c, d)
  BY <1>1, <1>2, <1>4, Zenon DEF SameHolder, ConnSafe
<1>6. Settled(d)
  BY <1>2 DEF Settled, Calm
<1>7. Safe(r) /\ Frame(s, r, i) /\ i \in Used(r) /\ r.slots[i] = d
  BY <1>5, PutSafe
<1>8. t = r \/ t \in Close(r, i)
  BY <1>3 DEF Connected
<1> HIDE DEF r
<1> QED
  BY <1>6, <1>7, <1>8, CloseSafe, FrameTwice, Zenon DEF Outcome

(* connect_next: connected, in progress, or refused. *)
LEMMA ConnectNextSafe ==
  ASSUME NEW s, Safe(s), NEW i \in Used(s), Calm(s.slots[i]), NEW t \in ConnectNext(s, i)
  PROVE  Outcome(s, t, i)
<1> DEFINE c == s.slots[i]
           d == [c EXCEPT !.state = "CONNECTING"]
           r == Put(s, i, d)
<1>1. c \in Conn /\ ConnSafe(c) /\ s \in OwnerState /\ i \in Slots
  BY DEF Safe, Used, OwnerState
<1>2. /\ d \in Conn /\ d.state = "CONNECTING" /\ d.upstream = c.upstream
      /\ d.generation = c.generation /\ d.principal = c.principal /\ d.admitted = c.admitted
      /\ d.digest = c.digest /\ d.stamp = c.stamp /\ d.destination = c.destination
      /\ d.result = c.result /\ d.first = c.first /\ d.flush = c.flush
  BY <1>1, Zenon DEF Conn
<1>3. r = [s EXCEPT !.slots[i].state = "CONNECTING"]
  BY <1>1, Zenon DEF Put, OwnerState
<1> HIDE DEF d
<1>4. Stamped(d) /\ Decided(d)
  BY <1>1, <1>2, Zenon DEF ConnSafe, Stamped, Decided
<1>5. SameHolder(c, d)
  BY <1>1, <1>2, <1>4, Zenon DEF SameHolder, ConnSafe
<1>6. Settled(d)
  BY <1>2 DEF Settled, Calm
<1>7. Safe(r) /\ Frame(s, r, i) /\ r.slots[i] = d
  BY <1>5, PutSafe
<1>8. t \in Connected(s, i) \/ t = r \/ t \in Fail(s, i, "IO")
  BY <1>3 DEF ConnectNext
<1> HIDE DEF r
<1>9. "IO" \in Results \ {"OK"}
  BY Zenon DEF Results
<1> QED
  BY <1>6, <1>7, <1>8, <1>9, ConnectedSafe, FailSafe DEF Outcome

(* Raising a principal's count below its ceiling, with the connection it      *)
(* counts.                                                                   *)
Raised(s, i) ==
  LET p == s.slots[i].principal IN
  [s EXCEPT !.slots[i].admitted = p # None, !.active = Enter(@, p)]

(* The count raised stays exact. *)
LEMMA RaisedSafe ==
  ASSUME NEW s, Safe(s), NEW i \in Used(s), ~s.slots[i].admitted, Calm(s.slots[i]),
         s.slots[i].principal # None /\ MaxActive > 0 => s.active[s.slots[i].principal] < MaxActive
  PROVE  LET t == Raised(s, i) IN
         Safe(t) /\ Frame(s, t, i) /\ i \in Used(t) /\ Calm(t.slots[i])
         /\ t.slots[i].first = s.slots[i].first
<1> DEFINE c == s.slots[i]
           p == c.principal
           d == [c EXCEPT !.admitted = p # None]
           active == Enter(s.active, p)
           t == Raised(s, i)
<1>1. c \in Conn /\ ConnSafe(c) /\ s \in OwnerState /\ i \in Slots /\ c.state # "UNUSED"
  BY DEF Safe, Used, OwnerState
<1>2. p \in Principals \cup {None} /\ (p # None) \in BOOLEAN
  BY <1>1, Zenon DEF Conn
<1>3. /\ d \in Conn /\ d.state = c.state /\ d.upstream = c.upstream
      /\ d.generation = c.generation /\ d.principal = c.principal /\ (d.admitted <=> p # None)
      /\ d.digest = c.digest /\ d.stamp = c.stamp /\ d.destination = c.destination
      /\ d.result = c.result /\ d.first = c.first /\ d.flush = c.flush
  BY <1>1, <1>2, Zenon DEF Conn
<1>4. active \in [Principals -> Int] /\ s.active \in [Principals -> Int]
  BY <1>1, <1>2 DEF OwnerState, Enter
<1>5. t = [s EXCEPT !.slots = [s.slots EXCEPT ![i] = d], !.active = active]
  BY DEF Raised
<1> HIDE DEF d, active, t
<1>6. [s.slots EXCEPT ![i] = d] \in [Slots -> Conn]
  BY <1>1, <1>3 DEF OwnerState
<1>7. /\ t \in OwnerState /\ t.slots = [s.slots EXCEPT ![i] = d] /\ t.active = active
      /\ t.count = s.count /\ t.next_id = s.next_id /\ t.live = s.live /\ t.receipts = s.receipts
      /\ t.audit_failures = s.audit_failures /\ t.issued = s.issued
      /\ t.journalled = s.journalled /\ t.last = s.last
  BY <1>1, <1>4, <1>5, <1>6, Zenon DEF OwnerState
<1>8. t.slots[i] = d /\ Frame(s, t, i)
  BY <1>1, <1>7, Zenon DEF OwnerState, Frame
<1>9. Used(t) = Used(s)
  BY <1>1, <1>3, <1>8, Zenon DEF Used, Frame
<1>10. ConnSafe(d) /\ Calm(d)
  <2>1. Stamped(d) /\ Decided(d)
    BY <1>1, <1>3, Zenon DEF ConnSafe, Stamped, Decided
  <2> QED
    BY <1>1, <1>2, <1>3, <2>1, Zenon DEF ConnSafe, Calm
<1>11. \A j \in Slots : ConnSafe(t.slots[j])
  BY <1>8, <1>10, Zenon DEF Safe, Frame
<1>12. Numbers(t)
  <2>1. \A j \in Slots : t.slots[j].generation = s.slots[j].generation
    BY <1>3, <1>8, Zenon DEF Frame
  <2>2. Generations(t) = Generations(s)
    BY <1>9, <2>1, Zenon DEF Generations, Used
  <2>3. Used(s) \subseteq Slots
    BY Zenon DEF Used
  <2> QED
    BY <1>7, <1>9, <2>1, <2>2, <2>3, Zenon DEF Safe, Numbers
<1>13. Active(t)
  <2> SUFFICES ASSUME NEW q \in Principals
               PROVE  /\ t.active[q] = Cardinality(HoldingOf(t, q))
                      /\ MaxActive > 0 => t.active[q] <= MaxActive
    BY Zenon DEF Active
  <2>1. /\ s.active[q] = Cardinality(HoldingOf(s, q))
        /\ MaxActive > 0 => s.active[q] <= MaxActive
    BY Zenon DEF Safe, Active
  <2>2. CASE p = q
    <3>1. q # None
      BY Ceilings, Zenon
    <3>2. HoldingOf(t, q) = HoldingOf(s, q) \cup {i} /\ i \notin HoldingOf(s, q)
      BY <1>3, <1>8, <1>9, <2>2, <3>1 DEF HoldingOf, Frame, Used
    <3>3. Cardinality(HoldingOf(t, q)) = Cardinality(HoldingOf(s, q)) + 1
      BY <3>2, Finite, FS_AddElement, Zenon
    <3>4. t.active[q] = s.active[q] + 1
      BY <1>4, <1>7, <2>2, <3>1, Zenon DEF active, Enter
    <3>5. s.active[q] \in Int /\ (MaxActive > 0 => s.active[q] < MaxActive)
      BY <1>4, <2>2, <3>1, Zenon
    <3> QED
      BY <2>1, <3>3, <3>4, <3>5, Ceilings, SMTT(20)
  <2>3. CASE p # q
    <3>1. HoldingOf(t, q) = HoldingOf(s, q)
      BY <1>3, <1>8, <1>9, <2>3, ZenonT(60) DEF HoldingOf, Frame, Used
    <3>2. t.active[q] = s.active[q]
      BY <1>4, <1>7, <2>3, Zenon DEF active, Enter
    <3> QED
      BY <2>1, <3>1, <3>2, Zenon
  <2> QED
    BY <2>2, <2>3, Zenon
<1>14. Stamped(t.last) /\ Decided(t.last) /\ Health(t)
  BY <1>7 DEF Safe, Health
<1> QED
  BY <1>3, <1>7, <1>8, <1>9, <1>10, <1>11, <1>12, <1>13, <1>14, Zenon DEF Safe, t

(* The results the functions of the owner give. *)
LEMMA Reasons == {"DENIED", "PROTOCOL", "IO", "TIMEOUT", "MEMORY", "CANCELLED"} \subseteq Results \ {"OK"}
BY Zenon DEF Results

(* The end of an admission, once its principal is counted. *)
LEMMA AdmittedSafe ==
  ASSUME NEW s, Safe(s), NEW i \in Used(s), ~s.slots[i].admitted, Calm(s.slots[i]),
         s.slots[i].principal # None /\ MaxActive > 0 => s.active[s.slots[i].principal] < MaxActive,
         NEW t \in Admitted(s, i)
  PROVE  Outcome(s, t, i)
<1> DEFINE r == Raised(s, i)
<1>1. Safe(r) /\ Frame(s, r, i) /\ i \in Used(r) /\ Calm(r.slots[i])
  BY RaisedSafe
<1>2. t \in ConnectNext(r, i) \/ t \in CloseWith(r, i, "IO") \/ t \in Fail(r, i, "DENIED")
  BY Zenon DEF Admitted, Raised
<1> HIDE DEF r
<1>3. CASE t \in ConnectNext(r, i)
  BY <1>1, <1>3, ConnectNextSafe, FrameTwice, Zenon DEF Outcome
<1>4. CASE t \in CloseWith(r, i, "IO")
  BY <1>1, <1>4, CloseWithSafe, Reasons, FrameTwice, Zenon DEF Outcome
<1>5. CASE t \in Fail(r, i, "DENIED")
  BY <1>1, <1>5, FailSafe, Reasons, FrameTwice, Zenon DEF Outcome
<1> QED
  BY <1>2, <1>3, <1>4, <1>5, Zenon

(* A connection in its handshake may be given a principal or a protocol. *)
LEMMA NamedSafe ==
  ASSUME NEW s, Safe(s), NEW i \in Used(s), ~s.slots[i].admitted, Calm(s.slots[i]),
         NEW d, d \in {[s.slots[i] EXCEPT !.principal = q] : q \in Principals \cup {None}}
                       \cup {[s.slots[i] EXCEPT !.protocol = "HTTP"]}
  PROVE  LET r == Put(s, i, d) IN
         /\ Safe(r) /\ Frame(s, r, i) /\ Used(r) = Used(s) /\ r.slots[i] = d /\ r.active = s.active
         /\ ~d.admitted /\ Calm(d) /\ d.upstream = s.slots[i].upstream /\ d.first = s.slots[i].first
<1> DEFINE c == s.slots[i]
<1>1. c \in Conn /\ ConnSafe(c) /\ c.state # "UNUSED" /\ s \in OwnerState /\ i \in Slots
  BY Zenon DEF Safe, Used, OwnerState
<1>2. /\ d \in Conn /\ d.state = c.state /\ d.upstream = c.upstream
      /\ d.generation = c.generation /\ d.admitted = c.admitted
      /\ d.digest = c.digest /\ d.stamp = c.stamp /\ d.destination = c.destination
      /\ d.result = c.result /\ d.first = c.first /\ d.flush = c.flush
  <2>1. CASE d = [c EXCEPT !.protocol = "HTTP"]
    BY <1>1, <2>1, Zenon DEF Conn
  <2>2. ASSUME NEW q \in Principals \cup {None}, d = [c EXCEPT !.principal = q]
        PROVE  /\ d \in Conn /\ d.state = c.state /\ d.upstream = c.upstream
               /\ d.generation = c.generation /\ d.admitted = c.admitted
               /\ d.digest = c.digest /\ d.stamp = c.stamp /\ d.destination = c.destination
               /\ d.result = c.result /\ d.first = c.first /\ d.flush = c.flush
    BY <1>1, <2>2, Zenon DEF Conn
  <2> QED
    BY <2>1, <2>2
<1> HIDE DEF c
<1>3. Stamped(d) /\ Decided(d) /\ Calm(d)
  BY <1>1, <1>2, Zenon DEF ConnSafe, Stamped, Decided, Calm, c
<1>4. SameHolder(c, d) /\ ~d.admitted
  BY <1>1, <1>2, <1>3 DEF SameHolder, ConnSafe, c
<1>5. Put(s, i, d).active = s.active
  BY <1>1, <1>2, PutFields, ZenonT(60)
<1> QED
  BY <1>2, <1>3, <1>4, <1>5, PutSafe DEF c

(* The locked section: digest, generation and destination of one policy. *)
LEMMA SelectedSafe ==
  ASSUME PolicyKnown, NEW s, Safe(s), NEW i \in Used(s), ~s.slots[i].admitted, Calm(s.slots[i]),
         s.slots[i].upstream = None
  PROVE  LET d == Select(s.slots[i]) r == Put(s, i, d) IN
         /\ Safe(r) /\ Frame(s, r, i) /\ Used(r) = Used(s) /\ r.slots[i] = d /\ r.active = s.active
         /\ ~d.admitted /\ Calm(d) /\ d.principal = s.slots[i].principal
<1> DEFINE c == s.slots[i]
           d == Select(c)
<1>1. c \in Conn /\ ConnSafe(c) /\ c.state # "UNUSED" /\ s \in OwnerState /\ i \in Slots
  BY DEF Safe, Used, OwnerState
<1>2. policy_generation \in Nat /\ policy_generation \in DOMAIN published
  BY DEF PolicyKnown
<1>3. /\ d \in Conn /\ d.state = c.state /\ d.upstream = c.upstream
      /\ d.generation = c.generation /\ d.admitted = c.admitted /\ d.principal = c.principal
      /\ d.digest = policy /\ d.stamp = policy_generation /\ d.destination = policy
      /\ d.result = c.result /\ d.first = c.first /\ d.flush = c.flush
  BY <1>1, <1>2, ZenonT(60) DEF Conn, Select, PolicyKnown
<1> HIDE DEF c, d
<1>4. Stamped(d)
  BY <1>2, <1>3 DEF Stamped, PolicyKnown, c
<1>5. Decided(d) /\ Calm(d)
  BY <1>1, <1>3, Zenon DEF ConnSafe, Decided, Calm, c
<1>6. SameHolder(c, d) /\ ~d.admitted
  BY <1>1, <1>3, <1>4, <1>5 DEF SameHolder, ConnSafe, PolicyKnown, c
<1>7. Put(s, i, d).active = s.active
  BY <1>1, <1>3, PutFields, ZenonT(60)
<1> QED
  BY <1>3, <1>5, <1>6, <1>7, PutSafe, SMTT(20) DEF c, d

(* egress_connection_begin_request, of a connection not counted yet. *)
LEMMA BeginSafe ==
  ASSUME PolicyKnown, NEW s, Safe(s), NEW i \in Used(s), ~s.slots[i].admitted, Calm(s.slots[i]),
         s.slots[i].upstream = None, NEW p \in Principals \cup {None},
         NEW t \in BeginRequest(s, i, p)
  PROVE  Outcome(s, t, i)
<1> DEFINE d == [s.slots[i] EXCEPT !.principal = p]
           r == Put(s, i, d)
<1>0. s \in OwnerState /\ i \in Slots /\ s.slots[i] \in Conn
  BY DEF Safe, Used, OwnerState
<1>1. /\ Safe(r) /\ Frame(s, r, i) /\ i \in Used(r) /\ r.slots[i] = d /\ r.active = s.active
      /\ ~d.admitted /\ Calm(d) /\ d.upstream = None
  BY NamedSafe
<1>2. d.principal = p
  BY <1>0, Zenon DEF Conn
<1>3. [s EXCEPT !.slots[i].principal = p] = r
  BY DEF Put
<1> DEFINE e == Select(r.slots[i])
           u == Put(r, i, e)
<1>4. [r EXCEPT !.slots[i] = Select(@)] = u
  BY Zenon DEF Put
<1> HIDE DEF d, r
<1>5. /\ Safe(u) /\ Frame(r, u, i) /\ i \in Used(u) /\ u.slots[i] = e /\ u.active = r.active
      /\ ~e.admitted /\ Calm(e) /\ e.principal = d.principal
  BY <1>1, SelectedSafe
<1>6. \/ t \in Fail(r, i, "DENIED")
      \/ /\ t \in Admitted(u, i) \cup Fail(u, i, "DENIED")
         /\ p # None /\ MaxActive > 0 => ~(s.active[p] >= MaxActive)
  BY <1>3, <1>4, Zenon DEF BeginRequest
<1> HIDE DEF e, u
<1>7. CASE t \in Fail(r, i, "DENIED")
  BY <1>1, <1>7, FailSafe, Reasons, FrameTwice, Zenon DEF Outcome
<1>8. CASE t \in Fail(u, i, "DENIED")
  BY <1>1, <1>5, <1>8, FailSafe, Reasons, FrameTwice, Zenon DEF Outcome
<1>9. ASSUME t \in Admitted(u, i), p # None /\ MaxActive > 0 => ~(s.active[p] >= MaxActive)
      PROVE  Outcome(s, t, i)
  <2>1. u.slots[i].principal # None /\ MaxActive > 0 => u.active[u.slots[i].principal] < MaxActive
    <3>1. u.slots[i].principal = p /\ u.active = s.active
      BY <1>1, <1>2, <1>5, Zenon
    <3>2. p # None => s.active[p] \in Int
      BY <1>0, Zenon DEF OwnerState
    <3> QED
      <4>1. p # None /\ MaxActive > 0 => s.active[p] < MaxActive
        BY <1>9, <3>2, Ceilings
      <4> QED
        BY <3>1, <4>1, Zenon
  <2>2. Outcome(u, t, i)
    BY <1>5, <1>9, <2>1, AdmittedSafe, Zenon
  <2> QED
    BY <1>1, <1>5, <2>2, FrameTwice, Zenon DEF Outcome
<1> QED
  BY <1>6, <1>7, <1>8, <1>9

(* A quota used up, on a connection that is counted. *)
LEMMA ExhaustedSafe ==
  ASSUME NEW s, Safe(s), NEW i \in Used(s), Settled(s.slots[i]), ~s.slots[i].flush,
         NEW t \in Exhausted(s, i)
  PROVE  Outcome(s, t, i)
<1> DEFINE c == s.slots[i]
           d == SetResult(c, "DENIED")
           r == Put(s, i, d)
<1>1. c \in Conn /\ ConnSafe(c) /\ c.state # "UNUSED"
  BY DEF Safe, Used, OwnerState
<1>2. /\ d \in Conn /\ LikeButResult(c, d) /\ d.flush = c.flush /\ d.result = "DENIED"
      /\ d.first = IF c.first = "OK" THEN "DENIED" ELSE c.first
  BY <1>1, SetResultFields, Reasons, Zenon
<1>3. t = r \/ t \in CloseWith(s, i, "DENIED")
  BY DEF Exhausted, Put
<1>4. c.first \in {"OK", "DENIED"}
  BY Zenon DEF Settled, Calm
<1> HIDE DEF d
<1>5. Decided(d) /\ Settled(d)
  BY <1>2, <1>4, Zenon DEF Decided, Settled, Calm, LikeButResult
<1>6. SameHolder(c, d)
  BY <1>1, <1>2, <1>5, ResultKeeps, Zenon
<1>7. Safe(r) /\ Frame(s, r, i) /\ r.slots[i] = d
  BY <1>6, PutSafe
<1> HIDE DEF r
<1>8. CASE t \in CloseWith(s, i, "DENIED")
  BY <1>4, <1>8, CloseWithSafe, Reasons, Zenon
<1> QED
  BY <1>3, <1>5, <1>7, <1>8, Zenon DEF Outcome

(* An event of the client, whatever its bytes say. *)
LEMMA FromClientSafe ==
  ASSUME PolicyKnown, NEW s, Safe(s), NEW i \in Used(s), Settled(s.slots[i]),
         NEW t \in FromClient(s, i)
  PROVE  Outcome(s, t, i)
<1> DEFINE c == s.slots[i]
<1>0. s \in OwnerState /\ i \in Slots /\ c \in Conn /\ Calm(c)
  BY DEF Safe, Used, OwnerState, Settled
<1>1. CASE t = s
  BY <1>1 DEF Outcome, Frame
<1>2. CASE t \in Close(s, i)
  BY <1>2, CloseSafe DEF Outcome
<1>3. CASE t \in Fail(s, i, "DENIED") \cup Fail(s, i, "PROTOCOL")
  BY <1>0, <1>3, FailSafe, Reasons, Zenon
<1>4. CASE t \in Abort(s, i, "IO")
  BY <1>4, AbortSafe, Reasons
<1>5. CASE c.flush
  BY <1>1, <1>2, <1>5, Zenon DEF FromClient
<1>6. CASE c.state = "HANDSHAKE" /\ ~c.flush
  <2> DEFINE d == [c EXCEPT !.protocol = "HTTP"]
             r == Put(s, i, d)
  <2>1. [s EXCEPT !.slots[i].protocol = "HTTP"] = r
    BY Zenon DEF Put
  <2>2. ~c.admitted /\ c.upstream = None
    BY <1>0, <1>6 DEF Settled, Calm
  <2>3. /\ Safe(r) /\ Frame(s, r, i) /\ Used(r) = Used(s) /\ r.slots[i] = d
        /\ ~d.admitted /\ Calm(d) /\ d.upstream = None
    BY <1>0, <2>2, NamedSafe
  <2>4. \/ t \in {s} \cup Fail(s, i, "DENIED") \cup Fail(s, i, "PROTOCOL")
        \/ \E p \in Principals \cup {None} : t \in BeginRequest(r, i, p)
    BY <1>6, <2>1, Zenon DEF FromClient
  <2> HIDE DEF d, r
  <2>5. ASSUME NEW p \in Principals \cup {None}, t \in BeginRequest(r, i, p) PROVE Outcome(s, t, i)
    BY <2>3, <2>5, BeginSafe, FrameTwice, Zenon DEF Outcome
  <2> QED
    BY <1>1, <1>3, <2>4, <2>5
<1>7. CASE c.state # "HANDSHAKE" /\ ~c.flush
  <2>1. t \in {s} \cup Abort(s, i, "IO") \cup Close(s, i) \cup Exhausted(s, i)
    BY <1>7 DEF FromClient
  <2> QED
    BY <1>1, <1>2, <1>4, <1>7, <2>1, ExhaustedSafe, Zenon
<1> QED
  BY <1>5, <1>6, <1>7, Zenon

(* An event of either side, and the watches renewed after it. *)
LEMMA DispatchedSafe ==
  ASSUME PolicyKnown, NEW s, Safe(s), NEW i \in Used(s), Settled(s.slots[i]), NEW side,
         NEW t \in Dispatched(s, i, side)
  PROVE  Outcome(s, t, i)
<1> DEFINE c == s.slots[i]
<1>1. ASSUME NEW u \in FromClient(s, i) PROVE Outcome(s, u, i)
  BY FromClientSafe
<1>2. ASSUME NEW u \in FromUpstream(s, i) PROVE Outcome(s, u, i)
  <2>0. Calm(c)
    BY DEF Settled
  <2>1. CASE u = s
    BY <2>1, Zenon DEF Outcome, Frame
  <2>2. CASE u \in Connected(s, i) \cup Fail(s, i, "IO")
    BY <2>0, <2>2, ConnectedSafe, FailSafe, Reasons, Zenon
  <2>3. u \in {s} \cup Connected(s, i) \cup Fail(s, i, "IO") \cup FromClient(s, i)
    BY DEF FromUpstream
  <2> QED
    BY <1>1, <2>1, <2>2, <2>3, Zenon
<1>3. PICK u \in FromClient(s, i) \cup FromUpstream(s, i) : t = u \/ t \in Unwatchable(u, i)
  BY DEF Dispatched
<1>4. Outcome(s, u, i)
  BY <1>1, <1>2, Zenon
<1>5. CASE t \in Unwatchable(u, i)
  <2>1. i \in Used(u) /\ t \in CloseWith(u, i, "IO")
    BY <1>5, Zenon DEF Unwatchable
  <2> QED
    BY <1>4, <2>1, CloseWithSafe, Reasons, FrameTwice, Zenon DEF Outcome
<1> QED
  BY <1>3, <1>4, <1>5

(* A slot not in use is well formed. *)
LEMMA UnusedConn ==
  /\ Unused \in Conn /\ Unused.state = "UNUSED" /\ ~Unused.admitted /\ Unused.stamp = 0
  /\ Unused.result = "OK" /\ Unused.first = "OK" /\ ~Unused.flush
  /\ Unused.destination = None /\ Unused.upstream = None
<1>1. None \in Policies /\ "" \in Policies \cup {""} /\ "OK" \in Results /\ FALSE \in BOOLEAN
  BY Zenon DEF Policies, Results
<1> QED
  BY <1>1 DEF Unused, Conn

(* A slot taken: a new identifier, and one connection more. *)
LEMMA TakeSafe ==
  ASSUME PolicyKnown, NEW s, Safe(s), NEW i \in Slots \ Used(s), NEW protocol \in {"NONE", "CONNECTOR"}
  PROVE  LET t == Take(s, i, protocol) IN
         /\ Safe(t) /\ Frame(s, t, i) /\ i \in Used(t) /\ Settled(t.slots[i])
         /\ ~t.slots[i].admitted /\ t.slots[i].first = "OK" /\ t.slots[i].upstream = None
<1> DEFINE b == [Unused EXCEPT !.state = "HANDSHAKE", !.generation = s.next_id + 1,
                               !.protocol = protocol]
           d == IF protocol = "CONNECTOR" THEN b
                ELSE [b EXCEPT !.digest = policy, !.stamp = policy_generation]
           t == Take(s, i, protocol)
<1>1. s \in OwnerState /\ s.next_id \in Nat /\ s.count \in Int /\ s.accepted \in Nat /\ s.live \in Int
      /\ s.slots \in [Slots -> Conn]
  BY DEF Safe, OwnerState
<1>2. policy_generation \in Nat /\ policy_generation \in DOMAIN published
  BY DEF PolicyKnown
<1>3. /\ b \in Conn /\ b.state = "HANDSHAKE" /\ b.generation = s.next_id + 1 /\ b.upstream = None
      /\ ~b.admitted /\ b.stamp = 0 /\ b.destination = None /\ b.result = "OK" /\ b.first = "OK"
      /\ ~b.flush
  <2>1. s.next_id + 1 \in Nat
    BY <1>1
  <2> DEFINE n == s.next_id + 1
             a == [Unused EXCEPT !.state = "HANDSHAKE", !.generation = n, !.protocol = protocol]
  <2>2. a = b
    OBVIOUS
  <2> HIDE DEF n, b
  <2>3. a \in Conn
    BY <2>1, UnusedConn, Zenon DEF Conn, n
  <2>4. /\ a.state = "HANDSHAKE" /\ a.generation = n /\ a.upstream = None
        /\ ~a.admitted /\ a.stamp = 0 /\ a.destination = None /\ a.result = "OK" /\ a.first = "OK"
        /\ ~a.flush
    BY UnusedConn, Zenon DEF Conn
  <2> QED
    BY <2>2, <2>3, <2>4, Zenon DEF n
<1>4. t = [s EXCEPT !.next_id = s.next_id + 1, !.count = s.count + 1, !.live = s.live + 1,
                    !.accepted = s.accepted + 1, !.slots = [s.slots EXCEPT ![i] = d]]
  BY DEF Take
<1> HIDE DEF b, t
<1>5. /\ d \in Conn /\ d.state = "HANDSHAKE" /\ d.generation = s.next_id + 1 /\ d.upstream = None
      /\ ~d.admitted /\ d.destination = None /\ d.result = "OK" /\ d.first = "OK" /\ ~d.flush
      /\ d.stamp = 0 \/ (d.stamp = policy_generation /\ d.digest = policy)
  BY <1>2, <1>3, ZenonT(60) DEF Conn, PolicyKnown
<1> HIDE DEF d
<1>6. [s.slots EXCEPT ![i] = d] \in [Slots -> Conn]
  BY <1>1, <1>5
<1>7. /\ t \in OwnerState /\ t.slots = [s.slots EXCEPT ![i] = d] /\ t.active = s.active
      /\ t.count = s.count + 1 /\ t.next_id = s.next_id + 1 /\ t.live = s.live + 1
      /\ t.receipts = s.receipts /\ t.audit_failures = s.audit_failures /\ t.issued = s.issued
      /\ t.journalled = s.journalled /\ t.last = s.last
  <2>1. s.next_id + 1 \in Nat /\ s.count + 1 \in Int /\ s.live + 1 \in Int /\ s.accepted + 1 \in Nat
    BY <1>1
  <2> DEFINE n == s.next_id + 1  k == s.count + 1  l == s.live + 1  a == s.accepted + 1
             q == [s.slots EXCEPT ![i] = d]
  <2>2. n \in Nat /\ k \in Int /\ l \in Int /\ a \in Nat /\ q \in [Slots -> Conn]
    BY <1>6, <2>1
  <2>3. t = [s EXCEPT !.next_id = n, !.count = k, !.live = l, !.accepted = a, !.slots = q]
    BY <1>4
  <2>4. n = s.next_id + 1 /\ k = s.count + 1 /\ l = s.live + 1 /\ q = [s.slots EXCEPT ![i] = d]
    OBVIOUS
  <2> HIDE DEF n, k, l, a, q
  <2>5. /\ t.slots = q /\ t.active = s.active
        /\ t.count = k /\ t.next_id = n /\ t.live = l
        /\ t.receipts = s.receipts /\ t.audit_failures = s.audit_failures /\ t.issued = s.issued
        /\ t.journalled = s.journalled /\ t.last = s.last
    BY <1>1, <2>3 DEF OwnerState
  <2>6. t \in OwnerState
    BY <1>1, <2>2, <2>3, Zenon DEF OwnerState
  <2> QED
    BY <2>4, <2>5, <2>6, Zenon
<1>8. t.slots[i] = d /\ Frame(s, t, i)
  BY <1>1, <1>7, Zenon DEF Frame
<1>9. Used(t) = Used(s) \cup {i}
  BY <1>5, <1>8, Zenon DEF Used, Frame
<1>10. ConnSafe(d) /\ Settled(d)
  <2>1. Stamped(d)
    BY <1>2, <1>5 DEF Stamped, PolicyKnown
  <2> QED
    BY <1>5, <2>1 DEF ConnSafe, Decided, Settled, Calm
<1>11. \A j \in Slots : ConnSafe(t.slots[j])
  BY <1>8, <1>10, Zenon DEF Safe, Frame
<1>12. \A j \in Used(s) : j \in Slots /\ j # i /\ t.slots[j] = s.slots[j]
  BY <1>8, Zenon DEF Used, Frame
<1>13. Numbers(t)
  <2>1. /\ \A j \in Used(s) : s.slots[j].generation \in 1..s.next_id
        /\ \A j, k \in Used(s) : s.slots[j].generation = s.slots[k].generation => j = k
        /\ s.issued = (1..s.next_id) \ Generations(s)
        /\ s.count = Cardinality(Used(s)) /\ s.live = s.count
        /\ s.receipts = Cardinality(s.issued) /\ s.receipts + s.count = s.next_id
        /\ s.receipts \in Nat
    BY <1>1, Zenon DEF Safe, Numbers, OwnerState
  <2>2. Generations(t) = Generations(s) \cup {s.next_id + 1}
    BY <1>5, <1>8, <1>9, <1>12, ZenonT(60) DEF Generations
  <2>3. Generations(s) \subseteq 1..s.next_id
    <3>1. \A j \in Used(s) : s.slots[j].generation \in 1..s.next_id
      BY <2>1, Zenon
    <3> QED
      BY <3>1, Zenon DEF Generations
  <2>4. t.issued = (1..t.next_id) \ Generations(t)
    BY <1>1, <1>7, <2>1, <2>2, <2>3
  <2>5. Cardinality(Used(t)) = Cardinality(Used(s)) + 1
    BY <1>9, Finite, FS_AddElement, Zenon
  <2>6. /\ t.count = Cardinality(Used(t)) /\ t.live = t.count
        /\ t.receipts = Cardinality(t.issued) /\ t.receipts + t.count = t.next_id
    <3>1. /\ t.count = s.count + 1 /\ t.next_id = s.next_id + 1 /\ t.live = s.live + 1
          /\ t.receipts = s.receipts /\ t.issued = s.issued
      BY <1>7, Zenon
    <3>2. t.receipts = Cardinality(t.issued)
      BY <2>1, <3>1, Zenon
    <3>3. t.count = Cardinality(Used(t)) /\ t.live = t.count
      BY <2>1, <2>5, <3>1, Zenon
    <3>4. s.receipts \in Nat /\ s.count \in Int /\ s.next_id \in Nat /\ s.receipts + s.count = s.next_id
      BY <1>1, <2>1, Zenon DEF Safe, OwnerState
    <3>5. t.receipts + t.count = t.next_id
      BY <3>1, <3>4
    <3> QED
      BY <3>2, <3>3, <3>5, Zenon
  <2>7. \A j \in Used(t) : t.slots[j].generation \in 1..t.next_id
    <3>1. s.next_id \in Nat /\ t.next_id = s.next_id + 1
      BY <1>1, <1>7, Zenon DEF OwnerState
    <3>2. ASSUME NEW j \in Used(t) PROVE t.slots[j].generation \in 1..s.next_id \cup {s.next_id + 1}
      BY <1>5, <1>8, <1>9, <1>12, <2>1, Zenon
    <3> QED
      BY <3>1, <3>2
  <2>8. \A j, k \in Used(t) : t.slots[j].generation = t.slots[k].generation => j = k
    <3>1. s.next_id \in Nat /\ \A g \in 1..s.next_id : g # s.next_id + 1
      BY <1>1
    <3> QED
      BY <1>5, <1>8, <1>9, <1>12, <2>1, <3>1, Zenon
  <2> QED
    BY <2>4, <2>6, <2>7, <2>8, Zenon DEF Numbers
<1>14. Active(t)
  <2>1. ASSUME NEW p \in Principals PROVE HoldingOf(t, p) = HoldingOf(s, p)
    BY <1>5, <1>8, <1>9, <1>12, Zenon DEF HoldingOf
  <2> QED
    BY <1>7, <2>1, Zenon DEF Safe, Active
<1>15. Stamped(t.last) /\ Decided(t.last) /\ Health(t)
  BY <1>7 DEF Safe, Health
<1> QED
  BY <1>5, <1>7, <1>8, <1>9, <1>10, <1>11, <1>13, <1>14, <1>15, Zenon DEF Safe, t
-----------------------------------------------------------------------------
(* The specification. *)

(* The owner's part starts with its counters at zero. *)
LEMMA FirstOwner ==
  ASSUME NEW s \in [Slots -> Conn], NEW a \in [Principals -> Int], NEW l \in Left
  PROVE  [slots |-> s, count |-> 0, next_id |-> 0, active |-> a, accepted |-> 0,
          live |-> 0, receipts |-> 0, audit_failures |-> 0, healthy |-> TRUE,
          issued |-> {}, journalled |-> 0, last |-> l] \in OwnerState
<1>1. 0 \in Int /\ 0 \in Nat /\ {} \in SUBSET Nat /\ TRUE \in BOOLEAN
  OBVIOUS
<1> QED
  BY <1>1, Zenon DEF OwnerState

(* The first policy is published, and no slot is in use. *)
LEMMA InitIInv == Init => IInv
<1> SUFFICES ASSUME Init PROVE IInv
  BY Zenon
<1>1. PolicyKnown
  <2>1. policy \in Policies /\ policy_generation = 1 /\ published = <<policy>>
    BY Zenon DEF Init
  <2> QED
    BY <2>1 DEF PolicyKnown
<1>2. Unused \in Conn /\ Unused.state = "UNUSED" /\ ~Unused.admitted /\ Unused.stamp = 0
      /\ Unused.result = "OK" /\ Unused.first = "OK" /\ ~Unused.flush
  BY UnusedConn, Zenon
<1>3. ConnSafe(Unused) /\ Settled(Unused)
  BY <1>2 DEF ConnSafe, Stamped, Decided, Settled, Calm
<1>4. /\ o.slots = [i \in Slots |-> Unused] /\ o.count = 0 /\ o.next_id = 0 /\ o.live = 0
      /\ o.active = [p \in Principals |-> 0] /\ o.receipts = 0 /\ o.audit_failures = 0
      /\ o.issued = {} /\ o.journalled = 0
      /\ o.last = [result |-> "OK", first |-> "OK", digest |-> policy, stamp |-> 1, upstream |-> None]
  BY DEF Init
<1>5. o \in OwnerState
  <2>1. o.last \in Left
    <3>1. policy \in Policies /\ policy \in Policies \cup {""} /\ None \in Policies /\ "OK" \in Results
      BY <1>1, Zenon DEF PolicyKnown, Policies, Results
    <3> DEFINE l == [result |-> "OK", first |-> "OK", digest |-> policy, stamp |-> 1, upstream |-> None]
    <3>2. l \in Left
      BY <3>1, Zenon DEF Left
    <3>3. o.last = l
      BY <1>4, Zenon
    <3> QED
      BY <3>2, <3>3
  <2>2. o.slots \in [Slots -> Conn] /\ o.active \in [Principals -> Int]
    BY <1>2, <1>4
  <2>3. o = [slots |-> o.slots, count |-> 0, next_id |-> 0, active |-> o.active, accepted |-> 0,
             live |-> 0, receipts |-> 0, audit_failures |-> 0, healthy |-> TRUE,
             issued |-> {}, journalled |-> 0, last |-> o.last]
    BY Zenon DEF Init
  <2> QED
    BY <2>1, <2>2, <2>3, FirstOwner, Zenon
<1>6. Used(o) = {}
  BY <1>2, <1>4, Zenon DEF Used
<1>7. Numbers(o)
  BY <1>4, <1>6, FS_EmptySet, SMTT(20) DEF Numbers, Generations
<1>8. Active(o)
  <2>1. ASSUME NEW p \in Principals PROVE HoldingOf(o, p) = {}
    BY <1>6, Zenon DEF HoldingOf
  <2> QED
    <3>1. ASSUME NEW p \in Principals PROVE o.active[p] = 0 /\ Cardinality(HoldingOf(o, p)) = 0
      BY <1>4, <2>1, FS_EmptySet
    <3> QED
      BY <3>1, Ceilings DEF Active
<1>9. Stamped(o.last) /\ Decided(o.last) /\ Health(o)
  BY <1>1, <1>4 DEF Stamped, Decided, Health, PolicyKnown, Init
<1>10. \A i \in Slots : ConnSafe(o.slots[i]) /\ Settled(o.slots[i])
  BY <1>3, <1>4, Zenon
<1> QED
  BY <1>1, <1>5, <1>7, <1>8, <1>9, <1>10, Zenon DEF IInv, Safe, Init

(* A token is a number, and so is the slot it decodes to. *)
LEMMA TokensAreNumbers ==
  /\ \A i \in Slots, g \in Nat, side \in {Client, Upstream} : connection_token(i, g, side) \in Nat
  /\ \A token \in Nat : decode_token(token).slot \in Nat
<1>2. ASSUME NEW n \in Nat, NEW d \in Nat \ {0} PROVE n % d \in Nat
  BY SMT
<1>3. ASSUME NEW i \in Slots, NEW g \in Nat, NEW side \in {Client, Upstream}
      PROVE  connection_token(i, g, side) \in Nat
  <2> DEFINE n == g * 65536
             d == 2 * Flag
  <2>1. n \in Nat /\ d \in Nat \ {0}
    BY FlagAssumption, SMT
  <2> HIDE DEF n, d
  <2>2. n % d \in Nat
    BY <1>2, <2>1, Zenon
  <2>3. i \in Nat /\ side \in Nat
    BY AdmissionAssumption, SMT DEF Slots, Client, Upstream
  <2>4. connection_token(i, g, side) = (n % d) + i * 4 + side
    BY SMT DEF connection_token, n, d
  <2> QED
    BY <2>2, <2>3, <2>4, SMT, Zenon
<1>4. ASSUME NEW token \in Nat PROVE decode_token(token).slot \in Nat
  BY SMT DEF decode_token
<1> QED
  BY <1>3, <1>4, Zenon

(* An event that passes the filter of the run loop is of a slot in use. *)
LEMMA CurrentUsed ==
  ASSUME NEW token \in Nat, Current(o, token)
  PROVE  decode_token(token).slot \in Used(o)
<1>1. decode_token(token).slot \in Nat
  BY TokensAreNumbers, Zenon
<1> HIDE DEF decode_token
<1> QED
  BY <1>1, AdmissionAssumption, SMT DEF Current, Used, Slots

(* A function of the owner that keeps Outcome keeps the invariant. *)
LEMMA OutcomeKeeps ==
  ASSUME IInv, NEW i \in Slots, Outcome(o, o', i), UNCHANGED control,
         events' \subseteq events
  PROVE  IInv'
<1>1. PolicyKnown'
  BY Zenon DEF IInv, PolicyKnown, control
<1>2. Safe(o)'
  BY Zenon DEF Outcome, control, Safe, ConnSafe, Stamped
<1>3. (\A j \in Slots : Settled(o.slots[j]))'
  BY DEF IInv, Outcome, Frame, Settled, Calm
<1>4. (events \subseteq Nat /\ (run # "loop" => events = {}))'
  BY DEF IInv, control
<1> QED
  BY <1>1, <1>2, <1>3, <1>4, Zenon DEF IInv

(* A step that changes neither the table nor the policy. *)
LEMMA IdleKeeps ==
  ASSUME IInv, UNCHANGED <<o, policy, policy_generation, published>>,
         events' \subseteq Nat, run' # "loop" => events' = {}
  PROVE  IInv'
<1>1. PolicyKnown' /\ Safe(o)' /\ (\A i \in Slots : Settled(o.slots[i]))'
  BY Zenon DEF IInv, PolicyKnown, Safe, ConnSafe, Stamped
<1> QED
  BY <1>1, Zenon DEF IInv

(* A connection turned away at the limit is only counted. *)
LEMMA AcceptFullKeeps == ASSUME IInv, AcceptFull PROVE IInv'
<1>1. o \in OwnerState /\ o' = [o EXCEPT !.accepted = o.accepted + 1] /\ o.accepted + 1 \in Nat
  BY DEF IInv, Safe, AcceptFull, OwnerState
<1>2. /\ o' \in OwnerState /\ o'.slots = o.slots /\ o'.active = o.active /\ o'.count = o.count
      /\ o'.next_id = o.next_id /\ o'.live = o.live /\ o'.receipts = o.receipts
      /\ o'.audit_failures = o.audit_failures /\ o'.issued = o.issued
      /\ o'.journalled = o.journalled /\ o'.last = o.last
  BY <1>1 DEF OwnerState
<1>3. Used(o') = Used(o)
  BY <1>2, Zenon DEF Used
<1>4. Numbers(o') /\ Active(o') /\ Health(o')
  <2>1. Generations(o') = Generations(o) /\ \A p \in Principals : HoldingOf(o', p) = HoldingOf(o, p)
    BY <1>2, <1>3 DEF Generations, HoldingOf
  <2>2. Numbers(o) /\ Active(o) /\ Health(o)
    BY Zenon DEF IInv, Safe
  <2>3. Numbers(o')
    BY <1>2, <1>3, <2>1, <2>2, Zenon DEF Numbers
  <2>4. Active(o') /\ Health(o')
    BY <1>2, <2>1, <2>2 DEF Active, Health
  <2> QED
    BY <2>3, <2>4
<1>5. Safe(o')
  BY <1>2, <1>4, Zenon DEF IInv, Safe
<1>6. 0 \in Slots
  BY AdmissionAssumption DEF Slots
<1>7. Outcome(o, o', 0)
  BY <1>2, <1>5, <1>6, Zenon DEF Outcome, Frame, IInv
<1> QED
  BY <1>6, <1>7, OutcomeKeeps DEF AcceptFull, control

(* What a new connection may become before the step that took it ends. *)
LEMMA AcceptOutcome ==
  ASSUME IInv, Accept
  PROVE  \E i \in Slots \ Used(o) : Outcome(o, o', i)
<1>1. PICK i \in FreeSlot(o) : \/ o' = Take(o, i, "NONE")
                               \/ o' \in CloseWith(Take(o, i, "NONE"), i, "MEMORY")
  BY DEF Accept
<1>2. i \in Slots \ Used(o)
  BY <1>1, Zenon DEF FreeSlot, FirstOf
<1> DEFINE t == Take(o, i, "NONE")
<1>3. /\ Safe(t) /\ Frame(o, t, i) /\ i \in Used(t) /\ Settled(t.slots[i])
      /\ t.slots[i].first = "OK"
  BY <1>2, TakeSafe, Zenon DEF IInv
<1> HIDE DEF t
<1>4. CASE o' = t
  BY <1>2, <1>3, <1>4, Zenon DEF Outcome
<1>5. CASE o' \in CloseWith(t, i, "MEMORY")
  <2>1. Outcome(t, o', i)
    BY <1>3, <1>5, CloseWithSafe, Reasons, Zenon
  <2> QED
    BY <1>2, <1>3, <2>1, FrameTwice, Zenon DEF Outcome
<1> QED
  BY <1>1, <1>4, <1>5, Zenon DEF t

(* So for a session that a connector opens. *)
LEMMA OpenOutcome ==
  ASSUME IInv, OpenSession
  PROVE  \E i \in Slots \ Used(o) : Outcome(o, o', i)
<1>1. PICK i \in FreeSlot(o) :
        \/ \E p \in Principals : o' \in BeginRequest(Take(o, i, "CONNECTOR"), i, p)
        \/ o' \in CloseWith(Take(o, i, "CONNECTOR"), i, "MEMORY")
  BY DEF OpenSession
<1>2. i \in Slots \ Used(o)
  BY <1>1, Zenon DEF FreeSlot, FirstOf
<1> DEFINE t == Take(o, i, "CONNECTOR")
<1>3. /\ Safe(t) /\ Frame(o, t, i) /\ i \in Used(t) /\ Settled(t.slots[i])
      /\ ~t.slots[i].admitted /\ t.slots[i].first = "OK" /\ t.slots[i].upstream = None
  BY <1>2, TakeSafe, Zenon DEF IInv
<1>4. Calm(t.slots[i]) /\ PolicyKnown
  BY <1>3, Zenon DEF Settled, IInv
<1> HIDE DEF t
<1>5. Outcome(t, o', i)
  <2>1. CASE o' \in CloseWith(t, i, "MEMORY")
    BY <1>3, <2>1, CloseWithSafe, Reasons, Zenon
  <2>2. CASE \E p \in Principals : o' \in BeginRequest(t, i, p)
    BY <1>3, <1>4, <2>2, BeginSafe
  <2> QED
    BY <1>1, <2>1, <2>2, Zenon DEF t
<1> QED
  BY <1>2, <1>3, <1>5, FrameTwice, Zenon DEF Outcome

(* Publishing a policy leaves the ones before it where they were. *)
LEMMA ReplaceKeeps == ASSUME IInv, ReplacePolicy PROVE IInv'
<1>1. PICK p \in Policies : Publish(p)
  BY DEF ReplacePolicy
<1>2. /\ published \in Seq(Policies) /\ published' = Append(published, p)
      /\ policy_generation = Len(published) /\ policy_generation' = policy_generation + 1
      /\ policy' = p
  BY <1>1 DEF Publish, IInv, PolicyKnown
<1>3. PolicyKnown'
  BY <1>2 DEF PolicyKnown
<1>4. \A g \in DOMAIN published : g \in DOMAIN published' /\ published'[g] = published[g]
  BY <1>2
<1>5. o' = o /\ events' = events /\ run' = run
  BY DEF ReplacePolicy
<1>6. ASSUME NEW c, Stamped(c) PROVE Stamped(c)'
  BY <1>4, <1>6, Zenon DEF Stamped
<1>7. ASSUME NEW c, ConnSafe(c) PROVE ConnSafe(c)'
  BY <1>4, <1>7 DEF ConnSafe, Stamped
<1> QED
  BY <1>3, <1>5, <1>6, <1>7, Zenon DEF IInv, Safe

(* Every step keeps the invariant. *)
LEMMA NextIInv == IInv /\ [Next]_vars => IInv'
<1> SUFFICES ASSUME IInv, [Next]_vars PROVE IInv'
  OBVIOUS
<1>0. /\ \A i \in Used(o) : i \in Slots /\ Settled(o.slots[i])
      /\ PolicyKnown /\ Safe(o) /\ events \subseteq Nat /\ (run # "loop" => events = {})
  BY Zenon DEF IInv, Used
<1>1. CASE Collect
  <2>1. Watched \subseteq Nat
    <3>1. \A i \in Used(o) : i \in Slots /\ o.slots[i].generation \in Nat
      BY <1>0, Zenon DEF Safe, OwnerState, Conn
    <3>2. \A i \in Used(o), side \in {Client, Upstream} :
            connection_token(i, o.slots[i].generation, side) \in Nat
      BY <3>1, TokensAreNumbers, Zenon
    <3>3. TOKEN_LISTENER \in Nat
      BY DEF TOKEN_LISTENER
    <3> QED
      BY <3>2, <3>3, Zenon DEF Watched
  <2>2. events' \subseteq Nat
    BY <1>1, <2>1 DEF Collect
  <2> QED
    BY <1>1, <2>2, IdleKeeps DEF Collect, control
<1>2. CASE AcceptFull
  BY <1>2, AcceptFullKeeps, Zenon
<1>3. CASE Accept
  <2>1. PICK i \in Slots : Outcome(o, o', i)
    BY <1>3, AcceptOutcome, Zenon
  <2> QED
    BY <1>3, <2>1, OutcomeKeeps, Zenon DEF Accept
<1>4. CASE AcceptNone
  BY <1>0, <1>4, IdleKeeps, Zenon DEF AcceptNone, control
<1>5. ASSUME NEW token \in events, Dispatch(token) PROVE IInv'
  <2> DEFINE i == decode_token(token).slot
             side == decode_token(token).side
  <2>1. CASE Current(o, token)
    <3>1. i \in Used(o) /\ o' \in Dispatched(o, i, side)
      BY <1>0, <1>5, <2>1, CurrentUsed, Zenon DEF Dispatch
    <3> HIDE DEF i, side
    <3>2. Outcome(o, o', i) /\ i \in Slots
      BY <1>0, <3>1, DispatchedSafe, Zenon
    <3> QED
      BY <1>5, <3>2, OutcomeKeeps DEF Dispatch
  <2>2. CASE ~Current(o, token)
    BY <1>0, <1>5, <2>2, IdleKeeps, Zenon DEF Dispatch, control
  <2> QED
    BY <2>1, <2>2, Zenon
<1>6. CASE OpenSession
  <2>1. PICK i \in Slots : Outcome(o, o', i)
    BY <1>6, OpenOutcome
  <2> QED
    BY <1>6, <2>1, OutcomeKeeps, Zenon DEF OpenSession
<1>7. CASE Expire
  <2>1. PICK i \in Used(o) : o' \in CloseWith(o, i, "TIMEOUT")
    BY <1>7, Zenon DEF Expire
  <2>2. Outcome(o, o', i)
    BY <1>0, <2>1, CloseWithSafe, Reasons, Zenon
  <2> QED
    BY <1>0, <1>7, <2>2, OutcomeKeeps, Zenon DEF Expire
<1>8. CASE Leaving
  BY <1>0, <1>8, IdleKeeps, Zenon DEF Leaving
<1>9. CASE EndRun
  <2>1. CASE Used(o) = {}
    BY <1>0, <1>9, <2>1, IdleKeeps, Zenon DEF EndRun
  <2>2. CASE Used(o) # {}
    <3>1. PICK i \in Used(o) : o' \in Abort(o, i, run)
      BY <1>9, <2>2, Zenon DEF EndRun, FirstOf
    <3>2. run \in Results \ {"OK"}
      BY <1>9, Reasons, Zenon DEF EndRun
    <3>3. Outcome(o, o', i)
      BY <1>0, <3>1, <3>2, AbortSafe, Zenon
    <3> QED
      BY <1>0, <1>9, <2>2, <3>3, OutcomeKeeps, Zenon DEF EndRun, control
  <2> QED
    BY <2>1, <2>2, Zenon
<1>10. CASE ReplacePolicy
  BY <1>10, ReplaceKeeps
<1>11. CASE Stop
  BY <1>0, <1>11, IdleKeeps, Zenon DEF Stop
<1>12. CASE UNCHANGED vars
  BY <1>0, <1>12, IdleKeeps DEF vars
<1> QED
  BY <1>1, <1>2, <1>3, <1>4, <1>5, <1>6, <1>7, <1>8, <1>9, <1>10, <1>11, <1>12, Zenon DEF Next

(* The invariant holds of every behaviour. *)
LEMMA Invariance == Spec => []IInv
BY InitIInv, NextIInv, PTL DEF Spec
-----------------------------------------------------------------------------
(* What follows. *)

(* StampedByItsPolicy: a connection carries the digest, the generation and   *)
(* the pinned address of one policy, through every replacement of it.        *)
THEOREM OnePolicyEach == Spec => []StampedByItsPolicy
<1>1. IInv => StampedByItsPolicy
  <2> SUFFICES ASSUME IInv, NEW c \in {o.slots[i] : i \in Used(o)} \cup {o.last} PROVE Stamped(c)
    BY Zenon DEF StampedByItsPolicy, Stamped
  <2> QED
    BY Zenon DEF IInv, Safe, ConnSafe, Used
<1> QED
  BY <1>1, Invariance, PTL

(* ActiveExact: the active count of a principal is the number of its         *)
(* admitted connections, and never above its ceiling.                        *)
THEOREM CountsExact == Spec => []ActiveExact
<1>1. IInv => ActiveExact
  BY Zenon DEF IInv, Safe, Active, HoldingOf, ActiveExact, Holding
<1> QED
  BY <1>1, Invariance, PTL

(* OneReceiptEach: a connection leaves one receipt, as it leaves its slot,   *)
(* however it ends.                                                          *)
THEOREM ReceiptsExact == Spec => []OneReceiptEach
<1>1. IInv => OneReceiptEach
  BY Zenon DEF IInv, Safe, Numbers, Generations, OneReceiptEach
<1> QED
  BY <1>1, Invariance, PTL

(* DecidedResultKept: a receipt says the first reason its connection was     *)
(* given, but for the deadline and a lost watch.                             *)
THEOREM ReasonKept == Spec => []DecidedResultKept
<1>1. IInv => DecidedResultKept
  BY Zenon DEF IInv, Safe, Decided, DecidedResultKept
<1> QED
  BY <1>1, Invariance, PTL

(* HealthyMeansJournalled: no receipt is missing from the journal of a       *)
(* server that reports itself healthy.                                       *)
THEOREM HealthHonest == Spec => []HealthyMeansJournalled
<1>1. IInv => HealthyMeansJournalled
  BY Zenon DEF IInv, Safe, Health, HealthyMeansJournalled, Healthz
<1> QED
  BY <1>1, Invariance, PTL

(* What one step does to the slots in use while a batch is dispatched. *)
LEMMA StepOwnEvents ==
  ASSUME IInv, [Next]_vars, NEW i \in Used(o), events # {}, o'.slots[i] # o.slots[i]
  PROVE  \E token \in events \ events' : decode_token(token).generation = o.slots[i].generation
<1>0. /\ i \in Slots /\ Settled(o.slots[i]) /\ \A j \in Used(o) : j \in Slots /\ Settled(o.slots[j])
      /\ PolicyKnown /\ Safe(o) /\ events \subseteq Nat /\ run = "loop" /\ o' # o
  BY Zenon DEF IInv, Used
<1>1. ASSUME \E j \in Slots \ Used(o) : Outcome(o, o', j) PROVE FALSE
  BY <1>0, <1>1, Zenon DEF Outcome, Frame
<1>2. ~Accept
  BY <1>1, AcceptOutcome, Zenon
<1>3. ~AcceptFull
  <2>1. ASSUME AcceptFull PROVE o'.slots = o.slots
    BY <1>0, <2>1 DEF AcceptFull, Safe, OwnerState
  <2> QED
    BY <2>1
<1>4. ~Collect /\ ~AcceptNone /\ ~OpenSession /\ ~Expire /\ ~Leaving /\ ~ReplacePolicy /\ ~Stop
      /\ ~UNCHANGED vars
  BY <1>0, Zenon DEF Collect, AcceptNone, OpenSession, Expire, Leaving, ReplacePolicy, Stop, vars
<1>5. ~EndRun
  BY <1>0 DEF EndRun
<1>6. PICK token \in events : Dispatch(token)
  BY <1>2, <1>3, <1>4, <1>5, Zenon DEF Next
<1>7. Current(o, token) /\ token \in Nat /\ token \in events \ events'
  BY <1>0, <1>6 DEF Dispatch
<1> DEFINE j == decode_token(token).slot
           side == decode_token(token).side
<1>8. j \in Used(o) /\ o' \in Dispatched(o, j, side)
  BY <1>6, <1>7, CurrentUsed, Zenon DEF Dispatch
<1>9. o.slots[j].generation = decode_token(token).generation
  BY <1>7, Zenon DEF Current
<1> HIDE DEF j, side
<1>10. Outcome(o, o', j)
  BY <1>0, <1>8, DispatchedSafe, Zenon
<1>11. i = j
  BY <1>0, <1>10 DEF Outcome, Frame
<1> QED
  BY <1>7, <1>9, <1>11

(* OwnEventsOnly: while a batch is dispatched, a connection is touched only  *)
(* by an event of its own generation.                                        *)
THEOREM EventsReachTheirOwn == Spec => OwnEventsOnly
<1>1. IInv /\ [Next]_vars =>
        [\A i \in Used(o) :
           events # {} /\ o'.slots[i] # o.slots[i] =>
             \E token \in events \ events' :
               decode_token(token).generation = o.slots[i].generation]_vars
  BY StepOwnEvents, Zenon
<1> QED
  BY <1>1, Invariance, PTL DEF Spec, OwnEventsOnly
-----------------------------------------------------------------------------
(* What the tokens of the watches tell apart, for the real width of the flag: *)
(* Flag is any positive multiple of 2^16, 2^63 in the code.                   *)

(* Slots and sides a token has room for, and the generations that fit. *)
Slot(n) == n \in Nat /\ n < 16384
Sides == {Client, Upstream}
Fits(generation, room) == generation \in Nat /\ generation * 65536 < room

(* A token before the flag: its fields put together. *)
Pack(generation, slot, side) == generation * 65536 + slot * 4 + side

(* A number below the modulus is its own remainder. *)
LEMMA SmallMod == ASSUME NEW n \in Nat, NEW m \in Nat, n < m PROVE n % m = n
BY SMTT(30)

(* A multiple is its quotient times the divisor. *)
LEMMA Multiple == ASSUME NEW f \in Nat, f % 65536 = 0 PROVE f = 65536 * (f \div 65536)
BY SMTT(30)

FlagUnits == Flag \div 65536

(* The flag is a whole number of generations. *)
LEMMA FlagMultiple == FlagUnits \in Nat /\ Flag = 65536 * FlagUnits
<1>1. Flag \in Nat /\ Flag % 65536 = 0
  BY FlagAssumption, SMTT(30)
<1>2. Flag = 65536 * (Flag \div 65536)
  BY <1>1, Multiple, SMTT(30)
<1> QED
  BY <1>1, <1>2, SMTT(30) DEF FlagUnits

(* A remainder below the modulus is what the division leaves. *)
LEMMA Remainder ==
  ASSUME NEW g \in Nat, NEW slot \in Nat, slot < 16384, NEW n \in Nat, n = g * 16384 + slot
  PROVE  n % 16384 = slot
BY SMTT(30)

(* So is a side, of four; the rest is the quotient. *)
LEMMA SideLeft ==
  ASSUME NEW m \in Nat, NEW side \in 0..3, NEW n \in Nat, n = m * 4 + side
  PROVE  n % 4 = side /\ n \div 4 = m
<1>1. n % 4 = side
  BY SMTT(30)
<1>2. n \div 4 = m
  BY SMTT(30)
<1> QED
  BY <1>1, <1>2

(* And what is above the sixteen bits of slot and side is the quotient. *)
LEMMA Above ==
  ASSUME NEW g \in Nat, NEW r \in Nat, r < 65536, NEW n \in Nat, n = g * 65536 + r
  PROVE  n \div 65536 = g
BY SMTT(30)

(* So is what slot and side make below 2^16. *)
LEMMA Low ==
  ASSUME NEW slot, Slot(slot), NEW side \in 0..3
  PROVE  slot * 4 + side \in Nat /\ slot * 4 + side < 65536
BY SMTT(30), Zenon DEF Slot

(* The three fields of a number put together come apart again. *)
LEMMA Fields ==
  ASSUME NEW g \in Nat, NEW slot, Slot(slot), NEW side \in 0..3
  PROVE  /\ Pack(g, slot, side) \in Nat
         /\ decode_token(Pack(g, slot, side)) =
              [side |-> side, slot |-> slot, generation |-> g]
<1> DEFINE token == Pack(g, slot, side)
           upper == g * 16384 + slot
           low == slot * 4 + side
<1>1. slot \in Nat /\ slot < 16384
  BY DEF Slot
<1>2. low \in Nat /\ low < 65536
  BY <1>1, Low
<1>3. upper \in Nat
  BY <1>1, SMTT(30)
<1>4. token \in Nat /\ token = upper * 4 + side /\ token = g * 65536 + low
  BY <1>1, SMTT(30) DEF Pack
<1>5. upper % 16384 = slot
  BY <1>1, <1>3, Remainder
<1> HIDE DEF token, upper, low
<1>6. token % 4 = side /\ token \div 4 = upper
  BY <1>3, <1>4, SideLeft
<1>7. token \div 65536 = g
  BY <1>2, <1>4, Above
<1>8. decode_token(token) = [side |-> side, slot |-> slot, generation |-> g]
  BY <1>5, <1>6, <1>7 DEF decode_token
<1> QED
  BY <1>4, <1>8 DEF token

(* decode_token gives back what egress_connection_token put in, as long as   *)
(* the generation fits in its 48 bits: an event reaches the slot, the side   *)
(* and the generation its watch was armed for.                               *)
THEOREM DecodeInverts ==
  ASSUME NEW slot, Slot(slot), NEW side \in Sides,
         NEW generation, Fits(generation, 2 * Flag)
  PROVE  decode_token(connection_token(slot, generation, side)) =
           [side |-> side, slot |-> slot, generation |-> generation]
<1>1. generation \in Nat /\ generation * 65536 \in Nat /\ 2 * Flag \in Nat
      /\ generation * 65536 < 2 * Flag
  BY FlagAssumption, SMTT(30) DEF Fits
<1>2. (generation * 65536) % (2 * Flag) = generation * 65536
  BY <1>1, SmallMod, SMTT(30)
<1>3. connection_token(slot, generation, side) = Pack(generation, slot, side)
  BY <1>2, SMTT(30) DEF connection_token, Pack
<1>4. side \in 0..3
  BY SMTT(30) DEF Sides, Client, Upstream
<1>5. generation \in Nat
  BY <1>1, SMTT(30)
<1> QED
  BY <1>3, <1>4, <1>5, Fields, Zenon

(* Below the flag, by a generation: what the fields add never reaches it. *)
LEMMA PackBelow ==
  ASSUME NEW g \in Nat, g < FlagUnits, NEW slot, Slot(slot), NEW side \in {2, 3}
  PROVE  /\ Pack(g, slot, side) \in Nat /\ Pack(g, slot, side) < Flag
         /\ Pack(g, slot, side) # 1 /\ Pack(g, slot, side) # 4
<1>1. slot \in Nat /\ slot <= 16383 /\ side \in Nat /\ side <= 3 /\ side >= 2
  BY DEF Slot
<1>2. Pack(g, slot, side) < 65536 * (g + 1) /\ Pack(g, slot, side) \in Nat
  BY <1>1, SMTT(30) DEF Pack
<1>3. Pack(g, slot, side) # 1 /\ Pack(g, slot, side) # 4
  BY <1>1, SMTT(30) DEF Pack
<1> QED
  BY <1>2, <1>3, FlagMultiple, SMTT(30)

(* A connection whose generation is below 2^47 is never taken for a client   *)
(* of the admin listener, nor for one of the two listeners: the order of the *)
(* run loop's tests does not matter.                                         *)
THEOREM ConnectionTokensApart ==
  ASSUME NEW slot, Slot(slot), NEW side \in Sides,
         NEW generation, Fits(generation, Flag)
  PROVE  /\ ~IsAdmin(connection_token(slot, generation, side))
         /\ connection_token(slot, generation, side) \notin {TOKEN_LISTENER, TOKEN_ADMIN_LISTENER}
<1>1. generation \in Nat /\ generation * 65536 \in Nat /\ 2 * Flag \in Nat
      /\ generation * 65536 < Flag /\ generation * 65536 < 2 * Flag
  BY FlagAssumption, SMTT(30) DEF Fits
<1>2. (generation * 65536) % (2 * Flag) = generation * 65536
  BY <1>1, SmallMod, SMTT(30)
<1>3. connection_token(slot, generation, side) = Pack(generation, slot, side)
  BY <1>2, SMTT(30) DEF connection_token, Pack
<1>4. FlagUnits \in Nat /\ Flag = 65536 * FlagUnits
  BY FlagMultiple, SMTT(30)
<1>5. generation < FlagUnits
  BY <1>1, <1>4, SMTT(30)
<1>6. side \in {2, 3}
  BY SMTT(30) DEF Sides, Client, Upstream
<1>7. /\ Pack(generation, slot, side) \in Nat /\ Pack(generation, slot, side) < Flag
      /\ Pack(generation, slot, side) # 1 /\ Pack(generation, slot, side) # 4
  <2>1. generation \in Nat
    BY <1>1, SMTT(30)
  <2> QED
    BY <2>1, <1>5, <1>6, PackBelow, Zenon
<1> QED
  BY <1>3, <1>4, <1>7, SMTT(30) DEF IsAdmin, TOKEN_LISTENER, TOKEN_ADMIN_LISTENER

(* A token of an admin client is always taken for one, and without the flag  *)
(* it decodes to the slot and the generation it was made of.                 *)
THEOREM AdminDecodeInverts ==
  ASSUME NEW slot, Slot(slot), NEW generation, Fits(generation, Flag)
  PROVE  /\ IsAdmin(admin_token(slot, generation))
         /\ decode_token(admin_token(slot, generation) - Flag) =
              [side |-> Client, slot |-> slot, generation |-> generation]
<1>1. generation \in Nat /\ generation * 65536 \in Nat /\ Flag \in Nat
      /\ generation * 65536 < Flag
  BY FlagAssumption, SMTT(30) DEF Fits
<1>2. (generation * 65536) % Flag = generation * 65536
  BY <1>1, SmallMod, SMTT(30)
<1>3. Client \in 0..3 /\ slot \in Nat
  BY DEF Client, Slot
<1>4. /\ Pack(generation, slot, Client) \in Nat
      /\ decode_token(Pack(generation, slot, Client)) =
           [side |-> Client, slot |-> slot, generation |-> generation]
  <2>1. generation \in Nat
    BY <1>1, SMTT(30)
  <2> QED
    BY <2>1, <1>3, Fields, Zenon
<1>5. admin_token(slot, generation) = Flag + Pack(generation, slot, Client)
  BY <1>1, <1>2, <1>3, SMTT(30) DEF admin_token, Pack
<1>6. admin_token(slot, generation) - Flag = Pack(generation, slot, Client)
  BY <1>1, <1>4, <1>5, SMTT(30)
<1>7. IsAdmin(admin_token(slot, generation))
  BY <1>1, <1>4, <1>5, SMTT(30) DEF IsAdmin
<1> QED
  BY <1>4, <1>6, <1>7, Zenon
=============================================================================
