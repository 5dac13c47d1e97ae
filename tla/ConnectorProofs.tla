-------------------------- MODULE ConnectorProofs --------------------------
(* Theorems about Connector for every set of calls and every number of slots. *)
EXTENDS Connector, TLAPS

-----------------------------------------------------------------------------
(* Sequences as the open-command queue uses them: what Append and Tail do to  *)
(* the set of elements and to the absence of repetition.                      *)

(* A queue with one more at its end. *)
LEMMA AppendElements ==
  ASSUME NEW S, NEW q \in Seq(S), NEW e \in S
  PROVE  /\ Append(q, e) \in Seq(S)
         /\ Range(Append(q, e)) = Range(q) \cup {e}
         /\ IsInjective(q) /\ e \notin Range(q) => IsInjective(Append(q, e))
<1> DEFINE a == Append(q, e)
<1>1. /\ a \in Seq(S)
      /\ Len(a) = Len(q) + 1
      /\ \A i \in 1..Len(q) : a[i] = q[i]
      /\ a[Len(q) + 1] = e
  OBVIOUS
<1>2. DOMAIN q = 1..Len(q) /\ DOMAIN a = 1..(Len(q) + 1) /\ Len(q) \in Nat
  BY <1>1
<1>3. Range(a) = Range(q) \cup {e}
  BY <1>1, <1>2 DEF Range
<1>4. IsInjective(q) /\ e \notin Range(q) => IsInjective(a)
  BY <1>1, <1>2 DEF Range, IsInjective
<1> QED BY <1>1, <1>3, <1>4

(* And with its head taken. *)
LEMMA TailElements ==
  ASSUME NEW S, NEW q \in Seq(S), q # <<>>
  PROVE  /\ Head(q) \in S /\ Tail(q) \in Seq(S)
         /\ Range(q) = Range(Tail(q)) \cup {Head(q)}
         /\ IsInjective(q) => IsInjective(Tail(q)) /\ Head(q) \notin Range(Tail(q))
<1> DEFINE t == Tail(q)
<1>1. /\ Head(q) \in S /\ t \in Seq(S)
      /\ Len(t) = Len(q) - 1
      /\ \A i \in 1..Len(t) : t[i] = q[i + 1]
  OBVIOUS
<1>2. /\ DOMAIN q = 1..Len(q) /\ DOMAIN t = 1..(Len(q) - 1)
      /\ Len(q) \in Nat \ {0} /\ Head(q) = q[1]
  BY <1>1
<1>3. \A i \in 2..Len(q) : q[i] = t[i - 1] /\ i - 1 \in DOMAIN t
  BY <1>1, <1>2
<1>4. Range(q) = Range(t) \cup {Head(q)}
  <2>1. ASSUME NEW i \in DOMAIN q PROVE q[i] \in Range(t) \cup {Head(q)}
    <3>1. CASE i = 1
      BY <1>2, <3>1
    <3>2. CASE i \in 2..Len(q)
      BY <1>3, <3>2 DEF Range
    <3> QED BY <1>2, <3>1, <3>2
  <2>2. Range(t) \subseteq Range(q)
    BY <1>1, <1>2 DEF Range
  <2>3. Head(q) \in Range(q)
    BY <1>2 DEF Range
  <2> QED BY <2>1, <2>2, <2>3 DEF Range
<1>5. IsInjective(q) => IsInjective(t) /\ Head(q) \notin Range(t)
  BY <1>1, <1>2 DEF Range, IsInjective
<1> QED BY <1>1, <1>4, <1>5

(* An empty queue. *)
LEMMA EmptyElements ==
  Range(<<>>) = {} /\ IsInjective(<<>>) /\ \A S : <<>> \in Seq(S)
BY DEF Range, IsInjective

-----------------------------------------------------------------------------
Inv == TypeOK /\ OwnerControl /\ RefsExact /\ ServerOutlivesConnectors

(* What one to one with 1..n means, without the operators of Functions. *)
LEMMA OneToOne ==
  ASSUME NEW S, NEW B
  PROVE  ExistsBijection(S, B) <=>
           \E f \in [S -> B] : /\ \A i, j \in S : f[i] = f[j] => i = j
                             /\ \A x \in B : \E i \in S : f[i] = x
<1>1. ASSUME NEW f \in [S -> B]
      PROVE  f \in Bijection(S, B) <=> /\ \A i, j \in S : f[i] = f[j] => i = j
                                       /\ \A x \in B : \E i \in S : f[i] = x
  BY DEF Bijection, Injection, Surjection, IsInjective
<1>2. \A f \in Bijection(S, B) : f \in [S -> B]
  BY DEF Bijection, Injection, Surjection
<1> QED
  BY <1>1, <1>2 DEF ExistsBijection

(* No element is counted by zero. *)
LEMMA CountNone == ExistsBijection(1..0, {})
<1>1. [i \in 1..0 |-> 0] \in [1..0 -> {}]
  OBVIOUS
<1> QED
  BY <1>1, OneToOne, Zenon

(* One more element is counted by one more. *)
LEMMA CountAdd ==
  ASSUME NEW n \in Nat, NEW B, NEW x, x \notin B, ExistsBijection(1..n, B)
  PROVE  ExistsBijection(1..(n + 1), B \cup {x})
<1>1. PICK f \in [1..n -> B] : /\ \A i, j \in 1..n : f[i] = f[j] => i = j
                               /\ \A y \in B : \E i \in 1..n : f[i] = y
  BY OneToOne, Zenon
<1> DEFINE g == [i \in 1..(n + 1) |-> IF i = n + 1 THEN x ELSE f[i]]
<1>2. g \in [1..(n + 1) -> B \cup {x}]
  OBVIOUS
<1>3. \A i, j \in 1..(n + 1) : g[i] = g[j] => i = j
  BY <1>1
<1>4. \A y \in B \cup {x} : \E i \in 1..(n + 1) : g[i] = y
  <2>1. g[n + 1] = x /\ n + 1 \in 1..(n + 1)
    OBVIOUS
  <2>2. \A i \in 1..n : i \in 1..(n + 1) /\ g[i] = f[i]
    OBVIOUS
  <2> QED
    BY <1>1, <2>1, <2>2, Zenon
<1> QED
  BY <1>2, <1>3, <1>4, OneToOne, Zenon

(* One element less is counted by one less. *)
LEMMA CountRemove ==
  ASSUME NEW n \in Nat, NEW B, NEW x \in B, ExistsBijection(1..n, B)
  PROVE  n >= 1 /\ ExistsBijection(1..(n - 1), B \ {x})
<1>1. PICK f \in [1..n -> B] : /\ \A i, j \in 1..n : f[i] = f[j] => i = j
                               /\ \A y \in B : \E i \in 1..n : f[i] = y
  BY OneToOne, Zenon
<1>2. PICK k \in 1..n : f[k] = x
  BY <1>1
<1> DEFINE g == [i \in 1..(n - 1) |-> IF i = k THEN f[n] ELSE f[i]]
<1>3. g \in [1..(n - 1) -> B \ {x}]
  BY <1>1, <1>2
<1>4. \A i, j \in 1..(n - 1) : g[i] = g[j] => i = j
  BY <1>1, <1>2
<1>5. \A y \in B \ {x} : \E i \in 1..(n - 1) : g[i] = y
  <2> TAKE y \in B \ {x}
  <2>1. PICK i \in 1..n : f[i] = y
    BY <1>1
  <2>2. i # k
    BY <1>2, <2>1
  <2>3. CASE i = n
    <3>1. k \in 1..(n - 1) /\ g[k] = y
      BY <1>2, <2>1, <2>2, <2>3
    <3> QED
      BY <3>1
  <2>4. CASE i # n
    <3>1. i \in 1..(n - 1) /\ g[i] = y
      BY <2>1, <2>2, <2>4
    <3> QED
      BY <3>1
  <2> QED
    BY <2>3, <2>4
<1>6. n >= 1
  BY <1>2
<1> HIDE DEF g
<1> QED
  BY <1>3, <1>4, <1>5, <1>6, OneToOne, Zenon

(* What the counts give the steps that release a reference. *)
LEMMA CountsPositive ==
  ASSUME Inv
  PROVE  /\ \A c \in Calls : CallerHolds(c) => refs[c] >= 1
         /\ opc \in {"complete", "drop"} => ocmd \in Calls /\ refs[ocmd] >= 1
         /\ \A c \in Calls : Bound(c) => references >= 1
         /\ opc # "destroyed" => references >= 1
<1>1. \A c \in Calls : CallerHolds(c) => refs[c] >= 1
  BY DEF Inv, RefsExact, CallerHolds, ServerHolds
<1>2. opc \in {"complete", "drop"} => ocmd \in Calls /\ refs[ocmd] >= 1
  <2>1. opc \in {"complete", "drop"} => ocmd \in Calls
    BY DEF Inv, TypeOK, OwnerType, OwnerControl, CompletionControl
  <2>2. \A c \in Calls : ServerHolds(c) => refs[c] >= 1
    BY DEF Inv, RefsExact, CallerHolds, ServerHolds
  <2> QED BY <2>1, <2>2 DEF ServerHolds, Completing
<1>3. /\ OwnersReference \in 0..1 /\ references - OwnersReference \in Nat
      /\ ExistsBijection(1..(references - OwnersReference), {c \in Calls : Bound(c)})
  BY DEF Inv, TypeOK, ServerType, ServerOutlivesConnectors, OwnersReference
<1>4. ASSUME NEW c \in Calls, Bound(c) PROVE references >= 1
  <2>1. c \in {d \in Calls : Bound(d)}
    BY <1>4
  <2>2. references - OwnersReference >= 1
    BY <1>3, <2>1, CountRemove, Zenon
  <2>3. references \in Nat
    BY DEF Inv, TypeOK, ServerType
  <2> QED BY <1>3, <2>2, <2>3
<1>5. opc # "destroyed" => references >= 1
  BY DEF Inv, ServerOutlivesConnectors, OwnersReference
<1> QED BY <1>1, <1>2, <1>4, <1>5

(* A new server satisfies the invariant. *)
LEMMA InitInv == Init => Inv
<1> SUFFICES ASSUME Init PROVE Inv
  OBVIOUS
<1>1. TypeOK
  <2>1. queue \in Seq(Calls) /\ batch \in Seq(Calls)
    BY EmptyElements DEF Init
  <2>2. scan \in 1..(MaxConnections + 1)
    BY SlotsAssumption DEF Init
  <2> QED BY <2>1, <2>2, Zenon DEF Init, TypeOK, CallerType, CommandType, PairType, ListType,
      SlotType, ServerType, OwnerType, Results, SocketHolders, ClientHolders, CallerPC, OwnerPC
<1>2. OwnerControl
  BY CallsAssumption, EmptyElements
     DEF Init, OwnerControl, CompletionControl, DetachedControl, SlotControl, EnteredControl, Working,
         ServerHolds, Queued, Batched, Opening, Completing
<1>3. RefsExact
  BY CallsAssumption, EmptyElements
     DEF Init, RefsExact, OnePlace, CallerHolds, ServerHolds, Queued, Batched, Opening, Completing
<1>4. ServerOutlivesConnectors
  <2>1. {c \in Calls : Bound(c)} = {}
    BY DEF Init, Bound
  <2>2. references = 1 /\ OwnersReference = 1
    BY DEF Init, OwnersReference
  <2>3. references >= OwnersReference /\ references - OwnersReference = 0
    BY <2>2
  <2> QED BY <2>1, <2>3, CountNone, Zenon DEF ServerOutlivesConnectors
<1> QED BY <1>1, <1>2, <1>3, <1>4 DEF Inv

(* Types are kept by every step. *)
LEMMA TypeStep == Inv /\ [Next]_vars => TypeOK'
<1> SUFFICES ASSUME Inv, [Next]_vars PROVE TypeOK'
  OBVIOUS
<1> USE DEF commandVars, pairVars, slotVars, flagVars, ownerVars
<1>t. CallerType /\ CommandType /\ PairType /\ ListType /\ SlotType /\ ServerType /\ OwnerType
  BY DEF Inv, TypeOK
<1>1. ASSUME NEW c \in Calls, Bind(c) PROVE TypeOK'
  <2>1. CommandType' /\ PairType' /\ ListType' /\ SlotType' /\ OwnerType'
    BY <1>t, <1>1 DEF Bind, CommandType, PairType, ListType, SlotType, OwnerType
  <2>2. CallerType'
    BY <1>t, <1>1 DEF Bind, CallerType, CallerPC, Results
  <2>3. ServerType'
    BY <1>t, <1>1 DEF Bind, ServerType
  <2> QED BY <2>1, <2>2, <2>3 DEF TypeOK
<1>2. ASSUME NEW c \in Calls, OpenCheck(c) PROVE TypeOK'
  <2>1. CommandType' /\ PairType' /\ ListType' /\ SlotType' /\ ServerType' /\ OwnerType'
    BY <1>t, <1>2 DEF OpenCheck, CommandType, PairType, ListType, SlotType, ServerType, OwnerType
  <2>2. CallerType'
    BY <1>t, <1>2 DEF OpenCheck, Return, CallerType, CallerPC, Results
  <2> QED BY <2>1, <2>2 DEF TypeOK
<1>3. ASSUME NEW c \in Calls, Create(c) PROVE TypeOK'
  <2>1. ListType' /\ SlotType' /\ ServerType' /\ OwnerType'
    BY <1>t, <1>3 DEF Create, ListType, SlotType, ServerType, OwnerType
  <2>2. CallerType'
    BY <1>t, <1>3, FailuresAssumption DEF Create, Return, CallerType, CallerPC, Results
  <2>3. CommandType'
    BY <1>t, <1>3 DEF Create, CommandType, Results
  <2>4. PairType'
    BY <1>t, <1>3 DEF Create, PairType, SocketHolders, ClientHolders
  <2> QED BY <2>1, <2>2, <2>3, <2>4 DEF TypeOK
<1>4. ASSUME NEW c \in Calls, Enqueue(c) PROVE TypeOK'
  <2>1. SlotType' /\ ServerType' /\ OwnerType'
    BY <1>t, <1>4 DEF Enqueue, SlotType, ServerType, OwnerType
  <2>2. CallerType'
    BY <1>t, <1>4 DEF Enqueue, Return, CallerType, CallerPC, Results
  <2>3. CommandType'
    BY <1>t, <1>4, CountsPositive DEF Enqueue, Release, CallerHolds, CommandType, Results
  <2>4. PairType'
    BY <1>t, <1>4 DEF Enqueue, Release, SockAfterRelease, PairType, SocketHolders, ClientHolders
  <2>5. ListType'
    <3>1. Append(queue, c) \in Seq(Calls)
      BY <1>t, AppendElements DEF ListType
    <3> QED BY <1>t, <1>4, <3>1, Zenon DEF Enqueue, ListType
  <2> QED BY <2>1, <2>2, <2>3, <2>4, <2>5 DEF TypeOK
<1>5. ASSUME NEW c \in Calls, Wake(c) PROVE TypeOK'
  <2>1. PairType' /\ ListType' /\ SlotType' /\ OwnerType'
    BY <1>t, <1>5 DEF Wake, PairType, ListType, SlotType, OwnerType
  <2>2. CallerType'
    BY <1>t, <1>5 DEF Wake, CallerType, CallerPC, Results
  <2>3. CommandType'
    BY <1>t, <1>5 DEF Wake, CommandType, Results
  <2>4. ServerType'
    BY <1>t, <1>5 DEF Wake, WakeIfLive, ServerType
  <2> QED BY <2>1, <2>2, <2>3, <2>4, Zenon DEF TypeOK
<1>6. ASSUME NEW c \in Calls, WaitDone(c) PROVE TypeOK'
  <2>1. CommandType' /\ ListType' /\ SlotType' /\ ServerType' /\ OwnerType'
    BY <1>t, <1>6 DEF WaitDone, CommandType, ListType, SlotType, ServerType, OwnerType
  <2>2. CallerType'
    BY <1>t, <1>6, Zenon DEF WaitDone, Finish, Return, CommandType, CallerType, CallerPC, Results
  <2>3. PairType'
    BY <1>t, <1>6, Zenon DEF WaitDone, Finish, PairType, SocketHolders, ClientHolders
  <2> QED BY <2>1, <2>2, <2>3 DEF TypeOK
<1>7. ASSUME NEW c \in Calls, WaitTimeout(c) PROVE TypeOK'
  <2>1. ListType' /\ SlotType' /\ ServerType' /\ OwnerType'
    BY <1>t, <1>7 DEF WaitTimeout, ListType, SlotType, ServerType, OwnerType
  <2>2. CallerType'
    BY <1>t, <1>7 DEF WaitTimeout, Finish, Return, CommandType, CallerType, CallerPC, Results
  <2>3. CommandType'
    BY <1>t, <1>7 DEF WaitTimeout, CommandType, Results
  <2>4. PairType'
    BY <1>t, <1>7 DEF WaitTimeout, Finish, PairType, SocketHolders, ClientHolders
  <2> QED BY <2>1, <2>2, <2>3, <2>4 DEF TypeOK
<1>8. ASSUME NEW c \in Calls, Rewake(c) PROVE TypeOK'
  <2>1. CommandType' /\ PairType' /\ ListType' /\ SlotType' /\ OwnerType'
    BY <1>t, <1>8 DEF Rewake, CommandType, PairType, ListType, SlotType, OwnerType
  <2>2. CallerType'
    BY <1>t, <1>8 DEF Rewake, CallerType, CallerPC, Results
  <2>3. ServerType'
    BY <1>t, <1>8 DEF Rewake, WakeIfLive, ServerType
  <2> QED BY <2>1, <2>2, <2>3 DEF TypeOK
<1>9. ASSUME NEW c \in Calls, CallerRelease(c) PROVE TypeOK'
  <2>1. ListType' /\ SlotType' /\ ServerType' /\ OwnerType'
    BY <1>t, <1>9 DEF CallerRelease, ListType, SlotType, ServerType, OwnerType
  <2>2. CallerType'
    BY <1>t, <1>9 DEF CallerRelease, CallerType, CallerPC, Results
  <2>3. CommandType'
    BY <1>t, <1>9, CountsPositive DEF CallerRelease, Release, CallerHolds, CommandType, Results
  <2>4. PairType'
    BY <1>t, <1>9 DEF CallerRelease, Release, SockAfterRelease, PairType, SocketHolders, ClientHolders
  <2> QED BY <2>1, <2>2, <2>3, <2>4 DEF TypeOK
<1>10. ASSUME NEW c \in Calls, SessionRelease(c) PROVE TypeOK'
  <2>1. CallerType' /\ CommandType' /\ ListType' /\ SlotType' /\ ServerType' /\ OwnerType'
    BY <1>t, <1>10 DEF SessionRelease, CallerType, CommandType, ListType, SlotType, ServerType, OwnerType
  <2>2. PairType'
    BY <1>t, <1>10, Zenon DEF SessionRelease, PairType, SocketHolders, ClientHolders
  <2> QED BY <2>1, <2>2 DEF TypeOK
<1>11. ASSUME NEW c \in Calls, ConnectorRelease(c) PROVE TypeOK'
  <2>1. CommandType' /\ PairType' /\ ListType' /\ SlotType' /\ OwnerType'
    BY <1>t, <1>11, Zenon DEF ConnectorRelease, CommandType, PairType, ListType, SlotType, OwnerType
  <2>2. CallerType'
    BY <1>t, <1>11, Zenon DEF ConnectorRelease, CallerType, CallerPC, Results
  <2>3. ServerType'
    BY <1>t, <1>11, CountsPositive DEF ConnectorRelease, Bound, ServerType
  <2> QED BY <2>1, <2>2, <2>3 DEF TypeOK
<1>12. ASSUME RunStart PROVE TypeOK'
  <2>1. CallerType' /\ CommandType' /\ PairType' /\ ListType' /\ SlotType'
    BY <1>t, <1>12 DEF RunStart, CallerType, CommandType, PairType, ListType, SlotType
  <2>2. ServerType'
    BY <1>t, <1>12 DEF RunStart, ServerType
  <2>3. OwnerType'
    BY <1>t, <1>12 DEF RunStart, OwnerType, OwnerPC, Results
  <2> QED BY <2>1, <2>2, <2>3, Zenon DEF TypeOK
<1>13. ASSUME LoopTop PROVE TypeOK'
  <2>1. CallerType' /\ CommandType' /\ PairType' /\ SlotType' /\ ServerType'
    BY <1>t, <1>13 DEF LoopTop, CallerType, CommandType, PairType, SlotType, ServerType
  <2>2. ListType'
    BY <1>t, <1>13, EmptyElements, Zenon DEF LoopTop, Detach, ListType
  <2>3. OwnerType'
    BY <1>t, <1>13 DEF LoopTop, OwnerType, OwnerPC, Results
  <2> QED BY <2>1, <2>2, <2>3 DEF TypeOK
<1>14. ASSUME Refuse PROVE TypeOK'
  <2>1. CallerType' /\ CommandType' /\ PairType' /\ SlotType' /\ ServerType'
    BY <1>t, <1>14 DEF Refuse, CallerType, CommandType, PairType, SlotType, ServerType
  <2>2. ListType'
    BY <1>t, <1>14, TailElements, Zenon DEF Refuse, ListType
  <2>3. OwnerType'
    BY <1>t, <1>14, TailElements DEF Refuse, StartComplete, ListType, OwnerType, OwnerPC, Results
  <2> QED BY <2>1, <2>2, <2>3 DEF TypeOK
<1>15. ASSUME ProcessEnd PROVE TypeOK'
  <2>1. CallerType' /\ CommandType' /\ PairType' /\ ListType' /\ SlotType' /\ ServerType'
    BY <1>t, <1>15 DEF ProcessEnd, CallerType, CommandType, PairType, ListType, SlotType, ServerType
  <2>2. OwnerType'
    BY <1>t, <1>15, SlotsAssumption DEF ProcessEnd, OwnerType, OwnerPC, Results
  <2> QED BY <2>1, <2>2, Zenon DEF TypeOK
<1>16. ASSUME Connected PROVE TypeOK'
  <2>1. CallerType' /\ CommandType' /\ ListType' /\ ServerType'
    BY <1>t, <1>16, Zenon DEF Connected, CallerType, CommandType, ListType, ServerType
  <2>2. SlotType'
    BY <1>t, <1>16, Zenon DEF Connected, StartClose, FreeSlot, SlotType
  <2>3. PairType'
    BY <1>t, <1>16, Zenon DEF Connected, StartClose, PairType, SocketHolders, ClientHolders
  <2>4. OwnerType'
    <3>1. oslot \in Slots
      BY <1>t, <1>16, Zenon DEF Inv, OwnerControl, CompletionControl, Connected, OwnerType
    <3>2. opencmd[oslot] \in Calls \cup {NoCall}
      BY <1>t, <3>1 DEF SlotType
    <3> QED BY <1>t, <1>16, <3>1, <3>2, SMTT(30)
         DEF Connected, StartClose, StartComplete, OwnerType, OwnerPC, Results
  <2> QED BY <2>1, <2>2, <2>3, <2>4 DEF TypeOK
<1>17. ASSUME Complete PROVE TypeOK'
  <2>1. CallerType' /\ PairType' /\ ListType' /\ SlotType' /\ ServerType'
    BY <1>t, <1>17 DEF Complete, CallerType, PairType, ListType, SlotType, ServerType
  <2>2. CommandType'
    BY <1>t, <1>17, Zenon DEF Complete, CommandType, OwnerType, Results
  <2>3. OwnerType'
    BY <1>t, <1>17 DEF Complete, OwnerType, OwnerPC, Results
  <2> QED BY <2>1, <2>2, <2>3, Zenon DEF TypeOK
<1>18. ASSUME Drop PROVE TypeOK'
  <2>1. CallerType' /\ ListType' /\ ServerType'
    BY <1>t, <1>18 DEF Drop, CallerType, ListType, ServerType
  <2>2. CommandType'
    BY <1>t, <1>18, CountsPositive DEF Drop, Release, CommandType, Results
  <2>3. PairType'
    BY <1>t, <1>18, Zenon DEF Drop, Release, SockAfterRelease, PairType, SocketHolders, ClientHolders
  <2>4. SlotType'
    BY <1>t, <1>18 DEF Drop, FreeSlot, SlotType
  <2>5. OwnerType'
    BY <1>t, <1>18, Zenon DEF Drop, OwnerType, OwnerPC, Results
  <2> QED BY <2>1, <2>2, <2>3, <2>4, <2>5 DEF TypeOK
<1>19. ASSUME CancelScan PROVE TypeOK'
  <2>1. CallerType' /\ CommandType' /\ ListType' /\ ServerType'
    BY <1>t, <1>19, Zenon DEF CancelScan, CallerType, CommandType, ListType, ServerType
  <2>2. SlotType'
    BY <1>t, <1>19, Zenon DEF CancelScan, StartClose, FreeSlot, SlotType
  <2>3. PairType'
    BY <1>t, <1>19, Zenon DEF CancelScan, StartClose, PairType, SocketHolders, ClientHolders
  <2>4. OwnerType'
    BY <1>t, <1>19, SlotsAssumption DEF CancelScan, StartClose, StartComplete, SlotType, Slots,
       OwnerType, OwnerPC, Results
  <2> QED BY <2>1, <2>2, <2>3, <2>4 DEF TypeOK
<1>20. ASSUME LoopFailure PROVE TypeOK'
  <2>1. CallerType' /\ CommandType' /\ PairType' /\ ListType' /\ SlotType'
    BY <1>t, <1>20 DEF LoopFailure, CallerType, CommandType, PairType, ListType, SlotType
  <2>2. ServerType'
    BY <1>t, <1>20 DEF LoopFailure, ServerType
  <2>3. OwnerType'
    BY <1>t, <1>20, Zenon DEF LoopFailure, OwnerType, OwnerPC, Results
  <2> QED BY <2>1, <2>2, <2>3 DEF TypeOK
<1>21. ASSUME DispatchEnd PROVE TypeOK'
  <2>1. CallerType' /\ CommandType' /\ PairType' /\ SlotType' /\ ServerType'
    BY <1>t, <1>21 DEF DispatchEnd, CallerType, CommandType, PairType, SlotType, ServerType
  <2>2. ListType'
    BY <1>t, <1>21, EmptyElements DEF DispatchEnd, Detach, ListType
  <2>3. OwnerType'
    BY <1>t, <1>21, Zenon DEF DispatchEnd, OwnerType, OwnerPC, Results
  <2> QED BY <2>1, <2>2, <2>3 DEF TypeOK
<1>22. ASSUME ExpireEnd PROVE TypeOK'
  <2>1. CallerType' /\ CommandType' /\ PairType' /\ ListType' /\ SlotType' /\ ServerType'
    BY <1>t, <1>22 DEF ExpireEnd, CallerType, CommandType, PairType, ListType, SlotType, ServerType
  <2>2. OwnerType'
    BY <1>t, <1>22, Zenon DEF ExpireEnd, OwnerType, OwnerPC, Results
  <2> QED BY <2>1, <2>2 DEF TypeOK
<1>23. ASSUME Reject PROVE TypeOK'
  <2>1. CallerType' /\ CommandType' /\ PairType' /\ SlotType' /\ ServerType'
    BY <1>t, <1>23 DEF Reject, CallerType, CommandType, PairType, SlotType, ServerType
  <2>2. ListType'
    BY <1>t, <1>23, EmptyElements, Zenon DEF Reject, Detach, ListType
  <2>3. OwnerType'
    BY <1>t, <1>23, Zenon DEF Reject, OwnerType, OwnerPC, Results
  <2> QED BY <2>1, <2>2, <2>3 DEF TypeOK
<1>24. ASSUME RejectOne PROVE TypeOK'
  <2>1. CallerType' /\ CommandType' /\ PairType' /\ SlotType' /\ ServerType'
    BY <1>t, <1>24 DEF RejectOne, CallerType, CommandType, PairType, SlotType, ServerType
  <2>2. ListType'
    BY <1>t, <1>24, TailElements DEF RejectOne, ListType
  <2>3. OwnerType'
    BY <1>t, <1>24, TailElements, SlotsAssumption DEF RejectOne, StartComplete, ListType, OwnerType,
       OwnerPC, Results
  <2> QED BY <2>1, <2>2, <2>3 DEF TypeOK
<1>25. ASSUME CloseAll PROVE TypeOK'
  <2>1. CallerType' /\ CommandType' /\ ListType' /\ ServerType'
    BY <1>t, <1>25 DEF CloseAll, CallerType, CommandType, ListType, ServerType
  <2>2. SlotType'
    BY <1>t, <1>25 DEF CloseAll, StartClose, FreeSlot, SlotType
  <2>3. PairType'
    BY <1>t, <1>25, Zenon DEF CloseAll, StartClose, PairType, SocketHolders, ClientHolders
  <2>4. OwnerType'
    BY <1>t, <1>25, SlotsAssumption DEF CloseAll, StartClose, StartComplete, SlotType, Slots, OwnerType,
       OwnerPC, Results
  <2> QED BY <2>1, <2>2, <2>3, <2>4 DEF TypeOK
<1>26. ASSUME RunReturn PROVE TypeOK'
  <2>1. CallerType' /\ CommandType' /\ PairType' /\ ListType' /\ SlotType'
    BY <1>t, <1>26 DEF RunReturn, CallerType, CommandType, PairType, ListType, SlotType
  <2>2. ServerType'
    BY <1>t, <1>26, Zenon DEF RunReturn, ServerType
  <2>3. OwnerType'
    BY <1>t, <1>26 DEF RunReturn, OwnerType, OwnerPC, Results
  <2> QED BY <2>1, <2>2, <2>3 DEF TypeOK
<1>27. ASSUME Stop PROVE TypeOK'
  <2>1. CallerType' /\ CommandType' /\ PairType' /\ ListType' /\ SlotType' /\ OwnerType'
    BY <1>t, <1>27, Zenon DEF Stop, CallerType, CommandType, PairType, ListType, SlotType, OwnerType
  <2>2. ServerType'
    BY <1>t, <1>27, Zenon DEF Stop, ServerType
  <2> QED BY <2>1, <2>2, Zenon DEF TypeOK
<1>28. ASSUME Destroy PROVE TypeOK'
  <2>1. CallerType' /\ CommandType' /\ PairType' /\ ListType' /\ SlotType'
    BY <1>t, <1>28 DEF Destroy, CallerType, CommandType, PairType, ListType, SlotType
  <2>2. ServerType'
    BY <1>t, <1>28, Zenon DEF Destroy, ServerType
  <2>3. OwnerType'
    BY <1>t, <1>28, Zenon DEF Destroy, OwnerType, OwnerPC, Results
  <2> QED BY <2>1, <2>2, <2>3 DEF TypeOK
<1>29. ASSUME DestroyEnd PROVE TypeOK'
  <2>1. CallerType' /\ CommandType' /\ PairType' /\ ListType' /\ SlotType'
    BY <1>t, <1>29, Zenon DEF DestroyEnd, CallerType, CommandType, PairType, ListType, SlotType
  <2>2. ServerType'
    BY <1>t, <1>29, CountsPositive DEF DestroyEnd, ServerType
  <2>3. OwnerType'
    BY <1>t, <1>29 DEF DestroyEnd, OwnerType, OwnerPC, Results
  <2> QED BY <2>1, <2>2, <2>3 DEF TypeOK
<1>30. ASSUME NEW s \in Slots, Admit(s) PROVE TypeOK'
  <2>1. CallerType' /\ CommandType' /\ ServerType'
    BY <1>t, <1>30, Zenon DEF Admit, CallerType, CommandType, ServerType
  <2>2. ListType'
    BY <1>t, <1>30, TailElements, Zenon DEF Admit, ListType
  <2>3. SlotType'
    <3>1. Head(batch) \in Calls
      BY <1>t, <1>30, TailElements DEF Admit, ListType
    <3> QED BY <1>t, <1>30, <3>1, Zenon DEF Admit, SlotType
  <2>4. PairType'
    BY <1>t, <1>30, Zenon DEF Admit, PairType, SocketHolders, ClientHolders
  <2>5. OwnerType'
    <3>1. Head(batch) \in Calls
      BY <1>t, <1>30, TailElements DEF Admit, ListType
    <3>2. Failures \subseteq Results
      BY FailuresAssumption DEF Results
    <3> QED BY <1>t, <1>30, <3>1, <3>2 DEF Admit, StartComplete, OwnerType, OwnerPC
  <2> QED BY <2>1, <2>2, <2>3, <2>4, <2>5, Zenon DEF TypeOK
<1>31. ASSUME NEW s \in Slots, DispatchConnect(s) PROVE TypeOK'
  <2>1. CallerType' /\ CommandType' /\ ListType' /\ ServerType'
    BY <1>t, <1>31, Zenon DEF DispatchConnect, CallerType, CommandType, ListType, ServerType
  <2>2. SlotType'
    BY <1>t, <1>31, Zenon DEF DispatchConnect, StartClose, FreeSlot, SlotType
  <2>3. PairType'
    BY <1>t, <1>31, Zenon DEF DispatchConnect, StartClose, PairType, SocketHolders, ClientHolders
  <2>4. OwnerType'
    BY <1>t, <1>31, Zenon DEF DispatchConnect, StartClose, StartComplete, SlotType, OwnerType, OwnerPC, Results
  <2> QED BY <2>1, <2>2, <2>3, <2>4, Zenon DEF TypeOK
<1>32. ASSUME NEW s \in Slots, DispatchRelayEnd(s) PROVE TypeOK'
  <2>1. CallerType' /\ CommandType' /\ ListType' /\ ServerType'
    BY <1>t, <1>32, Zenon DEF DispatchRelayEnd, CallerType, CommandType, ListType, ServerType
  <2>2. SlotType'
    BY <1>t, <1>32, Zenon DEF DispatchRelayEnd, StartClose, FreeSlot, SlotType
  <2>3. PairType'
    BY <1>t, <1>32, Zenon DEF DispatchRelayEnd, StartClose, PairType, SocketHolders, ClientHolders
  <2>4. OwnerType'
    BY <1>t, <1>32, ZenonT(60) DEF DispatchRelayEnd, StartClose, StartComplete, SlotType, OwnerType, OwnerPC, Results
  <2> QED BY <2>1, <2>2, <2>3, <2>4 DEF TypeOK
<1>33. ASSUME NEW s \in Slots, Expire(s) PROVE TypeOK'
  <2>1. CallerType' /\ CommandType' /\ ListType' /\ ServerType'
    BY <1>t, <1>33, Zenon DEF Expire, CallerType, CommandType, ListType, ServerType
  <2>2. SlotType'
    BY <1>t, <1>33, Zenon DEF Expire, StartClose, FreeSlot, SlotType
  <2>3. PairType'
    BY <1>t, <1>33, Zenon DEF Expire, StartClose, PairType, SocketHolders, ClientHolders
  <2>4. OwnerType'
    BY <1>t, <1>33 DEF Expire, StartClose, StartComplete, SlotType, OwnerType, OwnerPC, Results
  <2> QED BY <2>1, <2>2, <2>3, <2>4 DEF TypeOK
<1>34. ASSUME NEW traffic \in BOOLEAN, LoopStep(traffic) PROVE TypeOK'
  <2>1. CallerType' /\ CommandType' /\ PairType' /\ ListType' /\ SlotType'
    BY <1>t, <1>34 DEF LoopStep, CallerType, CommandType, PairType, ListType, SlotType
  <2>2. ServerType'
    BY <1>t, <1>34, Zenon DEF LoopStep, ServerType
  <2>3. OwnerType'
    BY <1>t, <1>34, ZenonT(60) DEF LoopStep, OwnerType, OwnerPC, Results
  <2> QED BY <2>1, <2>2, <2>3, ZenonT(60) DEF TypeOK
<1>35. ASSUME UNCHANGED vars PROVE TypeOK'
  BY <1>t, <1>35, Zenon DEF vars, TypeOK, CallerType, CommandType, PairType, ListType, SlotType,
     ServerType, OwnerType
<1> QED BY <1>1, <1>2, <1>3, <1>4, <1>5, <1>6, <1>7, <1>8, <1>9, <1>10, <1>11, <1>12, <1>13, <1>14,
           <1>15, <1>16, <1>17, <1>18, <1>19, <1>20, <1>21, <1>22, <1>23, <1>24, <1>25, <1>26, <1>27,
           <1>28, <1>29, <1>30, <1>31, <1>32, <1>33, <1>34, <1>35, Zenon DEF Next, Owner, Environment,
           Caller

(* The reference count across steps that move no command. *)
LEMMA RefsFrame ==
  ASSUME Inv, UNCHANGED <<refs, queue, batch, opencmd, ocmd>>,
         \A c \in Calls : CallerHolds(c)' <=> CallerHolds(c)
  PROVE  RefsExact'
<1> USE DEF CallerHolds
<1>1. OnePlace'
  BY Zenon DEF Inv, RefsExact, OnePlace, Queued, Batched, Opening, Completing
<1>2. \A c \in Calls : ServerHolds(c)' <=> ServerHolds(c)
  BY DEF ServerHolds, Queued, Batched, Opening, Completing
<1> QED BY <1>1, <1>2, Zenon DEF Inv, RefsExact

(* Across the steps that move commands from one place of the server to        *)
(* another, the set of commands the server holds staying the same.           *)
LEMMA RefsMove ==
  ASSUME Inv, UNCHANGED <<refs, pc>>, OnePlace',
         \A c \in Calls : ServerHolds(c)' <=> ServerHolds(c)
  PROVE  RefsExact'
BY DEF Inv, RefsExact, CallerHolds

(* The owner takes the whole queue for its batch: the references move *)
(* along.                                                             *)
LEMMA DetachMoves ==
  ASSUME Inv, Detach, batch = <<>>, UNCHANGED <<refs, pc, opencmd, ocmd>>
  PROVE  RefsExact'
<1>1. Range(batch) = {} /\ Range(queue') = {} /\ IsInjective(queue') /\ batch' = queue
  BY EmptyElements, Zenon DEF Detach
<1>2. OnePlace'
  BY <1>1 DEF Inv, RefsExact, OnePlace, Queued, Batched, Opening, Completing
<1>3. \A c \in Calls : ServerHolds(c)' <=> ServerHolds(c)
  BY <1>1 DEF ServerHolds, Queued, Batched, Opening, Completing
<1> QED BY <1>2, <1>3, RefsMove

(* The head of the detached list goes into completion. *)
LEMMA HeadCompletes ==
  ASSUME Inv, batch # <<>>, batch' = Tail(batch), ocmd = NoCall, ocmd' = Head(batch),
         UNCHANGED <<refs, pc, opencmd, queue>>
  PROVE  RefsExact'
<1>1. /\ Head(batch) \in Calls
      /\ Range(batch) = Range(batch') \cup {Head(batch)}
      /\ IsInjective(batch') /\ Head(batch) \notin Range(batch')
  BY TailElements, Zenon DEF Inv, TypeOK, ListType, RefsExact, OnePlace
<1>2. OnePlace'
  BY <1>1 DEF Inv, RefsExact, OnePlace, Queued, Batched, Opening, Completing
<1>3. \A c \in Calls : ServerHolds(c)' <=> ServerHolds(c)
  BY <1>1, CallsAssumption DEF ServerHolds, Queued, Batched, Opening, Completing
<1> QED BY <1>2, <1>3, RefsMove, Zenon

(* The head of the detached list goes into a slot. *)
LEMMA HeadOpens ==
  ASSUME Inv, batch # <<>>, batch' = Tail(batch), NEW s \in Slots,
         opencmd[s] = NoCall, opencmd' = [opencmd EXCEPT ![s] = Head(batch)],
         ocmd = NoCall, UNCHANGED <<refs, pc, ocmd, queue>>
  PROVE  RefsExact'
<1>1. /\ Head(batch) \in Calls
      /\ Range(batch) = Range(batch') \cup {Head(batch)}
      /\ IsInjective(batch') /\ Head(batch) \notin Range(batch')
  BY TailElements DEF Inv, TypeOK, ListType, RefsExact, OnePlace
<1>2. /\ opencmd'[s] = Head(batch)
      /\ \A t \in Slots : t # s => opencmd'[t] = opencmd[t]
  BY DEF Inv, TypeOK, SlotType
<1>3. \A c \in Calls : Opening(c)' <=> Opening(c) \/ c = Head(batch)
  BY <1>2, CallsAssumption DEF Opening
<1>4. Batched(Head(batch)) /\ ~Queued(Head(batch)) /\ ~Opening(Head(batch))
  BY <1>1, Zenon DEF Inv, RefsExact, OnePlace, Batched
<1>5. OnePlace'
  <2>1. \A t, u \in Slots : opencmd'[t] = opencmd'[u] => t = u \/ opencmd'[t] = NoCall
    BY <1>2, <1>4 DEF Inv, RefsExact, OnePlace, Opening
  <2>2. \A c \in Calls : Batched(c)' <=> Batched(c) /\ c # Head(batch)
    BY <1>1 DEF Batched
  <2>3. \A c \in Calls : (Queued(c)' <=> Queued(c)) /\ (Completing(c)' <=> Completing(c))
    BY DEF Queued, Completing
  <2>4. ~Completing(Head(batch))
    BY <1>1, CallsAssumption, Zenon DEF Completing
  <2>5. IsInjective(queue')
    BY Zenon DEF Inv, RefsExact, OnePlace
  <2> QED BY <1>1, <1>3, <1>4, <2>1, <2>2, <2>3, <2>4, <2>5, Zenon DEF Inv, RefsExact, OnePlace
<1>6. \A c \in Calls : ServerHolds(c)' <=> ServerHolds(c)
  BY <1>1, <1>3 DEF ServerHolds, Queued, Batched, Completing
<1> QED BY <1>5, <1>6, RefsMove, Zenon

(* The command of a slot goes into completion. *)
LEMMA SlotCompletes ==
  ASSUME Inv, NEW s \in Slots, opencmd[s] # NoCall, ocmd = NoCall,
         opencmd' = [opencmd EXCEPT ![s] = NoCall], ocmd' = opencmd[s],
         UNCHANGED <<refs, pc, queue, batch>>
  PROVE  RefsExact'
<1>1. /\ opencmd'[s] = NoCall /\ opencmd[s] \in Calls
      /\ \A t \in Slots : t # s => opencmd'[t] = opencmd[t]
  BY SMTT(30), Zenon DEF Inv, TypeOK, SlotType
<1>2. \A c \in Calls : Opening(c)' <=> Opening(c) /\ c # opencmd[s]
  BY <1>1, CallsAssumption, ZenonT(60) DEF Opening, Inv, RefsExact, OnePlace
<1>3. \A t, u \in Slots : opencmd'[t] = opencmd'[u] => t = u \/ opencmd'[t] = NoCall
  BY <1>1 DEF Inv, RefsExact, OnePlace
<1>4. \A c \in Calls : /\ Queued(c)' <=> Queued(c)
                       /\ Batched(c)' <=> Batched(c)
                       /\ Completing(c)' <=> c = opencmd[s]
                       /\ ~Completing(c)
  BY CallsAssumption DEF Queued, Batched, Completing
<1>5. Opening(opencmd[s])
  BY DEF Opening
<1>6. OnePlace'
  BY <1>1, <1>2, <1>3, <1>4, <1>5, Zenon DEF Inv, RefsExact, OnePlace
<1>7. \A c \in Calls : ServerHolds(c)' <=> ServerHolds(c)
  BY <1>2, <1>4, <1>5 DEF ServerHolds
<1> QED BY <1>6, <1>7, RefsMove

(* Closing a connection changes no reference but through its command. *)
LEMMA CloseKeepsRefs ==
  ASSUME Inv, NEW s \in Slots, NEW r, NEW k, StartClose(s, r, k), ocmd = NoCall,
         UNCHANGED <<refs, pc, queue, batch>>
  PROVE  RefsExact'
<1>1. CASE opencmd[s] # NoCall
  BY <1>1, SlotCompletes, Zenon DEF StartClose, StartComplete
<1>2. CASE opencmd[s] = NoCall
  BY <1>2, RefsFrame DEF StartClose, CallerHolds
<1> QED BY <1>1, <1>2, Zenon

(* Counts stay exact. *)
LEMMA RefsStep == Inv /\ [Next]_vars => RefsExact'
<1> SUFFICES ASSUME Inv, [Next]_vars PROVE RefsExact'
  OBVIOUS
<1> USE DEF commandVars, pairVars, slotVars, flagVars, ownerVars
<1>t. CallerType /\ CommandType /\ ListType /\ SlotType /\ OwnerType
  BY Zenon DEF Inv, TypeOK
<1>i. opc \notin {"complete", "drop"} => ocmd = NoCall
  BY DEF Inv, OwnerControl, CompletionControl
<1>b. opc \in {"top", "dispatch", "reject"} => batch = <<>>
  BY Zenon DEF Inv, OwnerControl, DetachedControl, Working
<1>1. ASSUME NEW c \in Calls, Bind(c) PROVE RefsExact'
  BY <1>t, <1>1, RefsFrame, Zenon DEF Bind, CallerHolds, CallerType
<1>2. ASSUME NEW c \in Calls, OpenCheck(c) PROVE RefsExact'
  BY <1>t, <1>2, RefsFrame, Zenon DEF OpenCheck, CallerHolds, CallerType
<1>3. ASSUME NEW c \in Calls, Create(c) PROVE RefsExact'
  <2>1. UNCHANGED <<queue, batch, opencmd, ocmd>>
    BY <1>3, Zenon DEF Create
  <2>2. CASE pc'[c] = "done" /\ refs' = refs
    BY <1>t, <1>3, <2>1, <2>2, RefsFrame DEF Create, CallerHolds, CallerType
  <2>3. CASE pc' = [pc EXCEPT ![c] = "enqueue"] /\ refs' = [refs EXCEPT ![c] = 1]
    <3>1. OnePlace'
      BY <2>1 DEF Inv, RefsExact, OnePlace, Queued, Batched, Opening, Completing
    <3>2. \A d \in Calls : ServerHolds(d)' <=> ServerHolds(d)
      BY <2>1 DEF ServerHolds, Queued, Batched, Opening, Completing
    <3>3. ~ServerHolds(c)
      BY <1>3 DEF Create, Inv, OwnerControl, EnteredControl
    <3>4. ASSUME NEW d \in Calls
          PROVE  refs'[d] = (IF CallerHolds(d)' THEN 1 ELSE 0) + (IF ServerHolds(d)' THEN 1 ELSE 0)
      <4>1. CASE d = c
        BY <1>t, <2>3, <3>2, <3>3, <4>1 DEF CallerHolds, CallerType, CommandType
      <4>2. CASE d # c
        <5>1. refs'[d] = refs[d] /\ (CallerHolds(d)' <=> CallerHolds(d))
          BY <1>t, <2>3, <4>2, Zenon DEF CallerHolds, CallerType, CommandType
        <5> QED BY <3>2, <5>1 DEF Inv, RefsExact
      <4> QED BY <4>1, <4>2, Zenon
    <3> QED BY <3>1, <3>4, Zenon DEF RefsExact
  <2> QED BY <1>t, <1>3, <2>2, <2>3, Zenon DEF Create, CallerType
<1>4. ASSUME NEW c \in Calls, Enqueue(c) PROVE RefsExact'
  <2>1. UNCHANGED <<batch, opencmd, ocmd>> /\ ~ServerHolds(c) /\ CallerHolds(c)
    BY <1>4 DEF Enqueue, CallerHolds, Inv, OwnerControl, EnteredControl
  <2>2. refs[c] = 1
    BY <2>1 DEF Inv, RefsExact
  <2>3. CASE queue' = queue /\ pc' = [pc EXCEPT ![c] = "done"] /\ Release(c)
    <3>1. OnePlace'
      BY <2>1, <2>3, Zenon DEF Inv, RefsExact, OnePlace, Queued, Batched, Opening, Completing
    <3>2. \A d \in Calls : ServerHolds(d)' <=> ServerHolds(d)
      BY <2>1, <2>3, Zenon DEF ServerHolds, Queued, Batched, Opening, Completing
    <3> QED BY <1>t, <2>1, <2>2, <2>3, <3>1, <3>2
         DEF Inv, RefsExact, CallerHolds, CallerType, CommandType, Release
  <2>4. CASE /\ queue' = Append(queue, c) /\ pc' = [pc EXCEPT ![c] = "wake"]
             /\ refs' = [refs EXCEPT ![c] = @ + 1]
    <3>a. queue \in Seq(Calls) /\ IsInjective(queue) /\ c \notin Range(queue)
      BY <1>t, <2>1, Zenon DEF Inv, RefsExact, OnePlace, ServerHolds, Queued, ListType
    <3>1. Range(queue') = Range(queue) \cup {c} /\ IsInjective(queue')
      BY <2>4, <3>a, AppendElements, ZenonT(60)
    <3>2. OnePlace'
      BY <2>1, <3>1, Zenon
         DEF Inv, RefsExact, OnePlace, ServerHolds, Queued, Batched, Opening, Completing
    <3>3. \A d \in Calls : ServerHolds(d)' <=> ServerHolds(d) \/ d = c
      BY <2>1, <3>1, Zenon DEF ServerHolds, Queued, Batched, Opening, Completing
    <3> QED BY <1>t, <2>1, <2>2, <2>4, <3>2, <3>3
         DEF Inv, RefsExact, CallerHolds, CallerType, CommandType
  <2> QED BY <1>4, <2>3, <2>4, Zenon DEF Enqueue
<1>5. ASSUME NEW c \in Calls, Wake(c) PROVE RefsExact'
  BY <1>t, <1>5, RefsFrame, Zenon DEF Wake, CallerHolds, CallerType
<1>6. ASSUME NEW c \in Calls, WaitDone(c) PROVE RefsExact'
  BY <1>t, <1>6, RefsFrame, Zenon DEF WaitDone, Finish, CallerHolds, CallerType
<1>7. ASSUME NEW c \in Calls, WaitTimeout(c) PROVE RefsExact'
  BY <1>t, <1>7, RefsFrame DEF WaitTimeout, Finish, CallerHolds, CallerType
<1>8. ASSUME NEW c \in Calls, Rewake(c) PROVE RefsExact'
  BY <1>t, <1>8, RefsFrame, Zenon DEF Rewake, CallerHolds, CallerType
<1>9. ASSUME NEW c \in Calls, CallerRelease(c) PROVE RefsExact'
  <2>1. UNCHANGED <<queue, batch, opencmd, ocmd>> /\ CallerHolds(c)
    BY <1>9 DEF CallerRelease, CallerHolds
  <2>2. OnePlace'
    BY <2>1, Zenon DEF Inv, RefsExact, OnePlace, Queued, Batched, Opening, Completing
  <2>3. \A d \in Calls : ServerHolds(d)' <=> ServerHolds(d)
    BY <2>1, Zenon DEF ServerHolds, Queued, Batched, Opening, Completing
  <2> QED BY <1>t, <1>9, <2>1, <2>2, <2>3
       DEF CallerRelease, Release, Inv, RefsExact, CallerHolds, CallerType, CommandType
<1>10. ASSUME NEW c \in Calls, SessionRelease(c) PROVE RefsExact'
  BY <1>10, RefsFrame DEF SessionRelease, CallerHolds
<1>11. ASSUME NEW c \in Calls, ConnectorRelease(c) PROVE RefsExact'
  BY <1>t, <1>11, RefsFrame DEF ConnectorRelease, CallerHolds, CallerType
<1>12. ASSUME LoopTop PROVE RefsExact'
  <2>1. CASE Detach
    BY <1>b, <1>12, <2>1, DetachMoves, Zenon DEF LoopTop
  <2>2. CASE UNCHANGED <<queue, batch>>
    BY <1>12, <2>2, RefsFrame, Zenon DEF LoopTop, CallerHolds
  <2> QED BY <1>12, <2>1, <2>2 DEF LoopTop
<1>13. ASSUME DispatchEnd \/ Reject PROVE RefsExact'
  BY <1>b, <1>13, DetachMoves, Zenon DEF DispatchEnd, Reject
<1>14. ASSUME Refuse PROVE RefsExact'
  BY <1>i, <1>14, HeadCompletes DEF Refuse, StartComplete
<1>15. ASSUME RejectOne PROVE RefsExact'
  <2>1. CASE batch # <<>>
    BY <1>i, <1>15, <2>1, HeadCompletes DEF RejectOne, StartComplete
  <2>2. CASE batch = <<>>
    BY <1>15, <2>2, RefsFrame, Zenon DEF RejectOne, CallerHolds
  <2> QED BY <2>1, <2>2
<1>16. ASSUME NEW s \in Slots, Admit(s) PROVE RefsExact'
  <2>1. opencmd[s] = NoCall
    BY <1>16, Zenon DEF Admit, Inv, OwnerControl, SlotControl
  <2>2. CASE UNCHANGED opencmd /\ ocmd' = Head(batch)
    BY <1>i, <1>16, <2>2, HeadCompletes DEF Admit
  <2>3. CASE opencmd' = [opencmd EXCEPT ![s] = Head(batch)] /\ UNCHANGED ocmd
    BY <1>i, <1>16, <2>1, <2>3, HeadOpens, Zenon DEF Admit
  <2> QED BY <1>16, <2>2, <2>3, Zenon DEF Admit, StartComplete
<1>17. ASSUME Connected PROVE RefsExact'
  <2>1. /\ oslot \in Slots /\ opencmd[oslot] # NoCall /\ ocmd = NoCall
        /\ UNCHANGED <<refs, pc, queue, batch>>
    BY <1>t, <1>i, <1>17 DEF Connected, Inv, OwnerControl, CompletionControl, OwnerType
  <2> QED BY <1>17, <2>1, SlotCompletes, Zenon DEF Connected, StartClose, StartComplete
<1>18. ASSUME Drop PROVE RefsExact'
  <2>1. /\ UNCHANGED <<pc, queue, batch, opencmd>> /\ ocmd \in Calls /\ ocmd' = NoCall
        /\ Completing(ocmd) /\ ServerHolds(ocmd)
    BY <1>t, <1>18, Zenon DEF Drop, Inv, OwnerControl, CompletionControl, OwnerType, ServerHolds, Completing
  <2>2. \A c \in Calls : /\ Queued(c)' <=> Queued(c)
                         /\ Batched(c)' <=> Batched(c)
                         /\ Opening(c)' <=> Opening(c)
                         /\ ~Completing(c)'
    BY <2>1, CallsAssumption, Zenon DEF Queued, Batched, Opening, Completing
  <2>3. OnePlace'
    BY <2>1, <2>2 DEF Inv, RefsExact, OnePlace
  <2>4. \A c \in Calls : ServerHolds(c)' <=> ServerHolds(c) /\ c # ocmd
    BY <2>1, <2>2, Zenon DEF Inv, RefsExact, OnePlace, ServerHolds, Completing
  <2>5. refs' = [refs EXCEPT ![ocmd] = @ - 1]
    BY <1>18, Zenon DEF Drop, Release
  <2> QED BY <1>t, <2>1, <2>3, <2>4, <2>5, SMTT(30) DEF Inv, RefsExact, CallerHolds, CommandType
<1>19. ASSUME CancelScan PROVE RefsExact'
  <2>1. CASE scan \in Slots /\ StartClose(scan, "CANCELLED", "cancel")
    BY <1>i, <1>19, <2>1, CloseKeepsRefs, ZenonT(60) DEF CancelScan
  <2>2. CASE UNCHANGED <<opencmd, ocmd>>
    BY <1>19, <2>2, RefsFrame DEF CancelScan, CallerHolds
  <2> QED BY <1>19, <2>1, <2>2, Zenon DEF CancelScan
<1>20. ASSUME CloseAll PROVE RefsExact'
  <2>1. CASE \E r : StartClose(scan, r, "closeall")
    BY <1>i, <1>20, <2>1, CloseKeepsRefs, Zenon DEF CloseAll
  <2>2. CASE UNCHANGED <<opencmd, ocmd>>
    BY <1>20, <2>2, RefsFrame, Zenon DEF CloseAll, CallerHolds
  <2> QED BY <1>20, <2>1, <2>2, Zenon DEF CloseAll
<1>21. ASSUME NEW s \in Slots, DispatchConnect(s) PROVE RefsExact'
  <2>1. CASE StartClose(s, "IO", "dispatch")
    BY <1>i, <1>21, <2>1, CloseKeepsRefs, Zenon DEF DispatchConnect
  <2>2. CASE UNCHANGED <<opencmd, ocmd>>
    BY <1>21, <2>2, RefsFrame DEF DispatchConnect, CallerHolds
  <2> QED BY <1>21, <2>1, <2>2, Zenon DEF DispatchConnect
<1>22. ASSUME NEW s \in Slots, DispatchRelayEnd(s) PROVE RefsExact'
  BY <1>i, <1>22, CloseKeepsRefs DEF DispatchRelayEnd
<1>23. ASSUME NEW s \in Slots, Expire(s) PROVE RefsExact'
  BY <1>i, <1>23, CloseKeepsRefs, SMTT(30) DEF Expire
<1>24. ASSUME RunStart \/ LoopFailure \/ ExpireEnd \/ RunReturn \/ Stop \/ Destroy \/ DestroyEnd
       PROVE RefsExact'
  BY <1>24, RefsFrame, Zenon
     DEF RunStart, LoopFailure, ExpireEnd, RunReturn, Stop, Destroy, DestroyEnd, CallerHolds
<1>25. ASSUME ProcessEnd \/ Complete PROVE RefsExact'
  BY <1>25, RefsFrame, Zenon DEF ProcessEnd, Complete, CallerHolds
<1>26. ASSUME NEW traffic \in BOOLEAN, LoopStep(traffic) PROVE RefsExact'
  BY <1>26, RefsFrame, Zenon DEF LoopStep, CallerHolds
<1>27. ASSUME UNCHANGED vars PROVE RefsExact'
  BY <1>27, RefsFrame DEF vars, CallerHolds
<1> QED BY <1>1, <1>2, <1>3, <1>4, <1>5, <1>6, <1>7, <1>8, <1>9, <1>10, <1>11, <1>12, <1>13,
           <1>14, <1>15, <1>16, <1>17, <1>18, <1>19, <1>20, <1>21, <1>22, <1>23, <1>24, <1>25,
           <1>26, <1>27, Zenon DEF Next, Owner, Environment, Caller

(* The owner's control state is its own: no step of a caller changes it. *)
LEMMA CallerLeavesOwner ==
  ASSUME NEW c \in Calls, Caller(c)
  PROVE  UNCHANGED <<batch, slotVars, ownerVars>>
BY Zenon DEF Caller, Bind, OpenCheck, Create, Enqueue, Wake, WaitDone, WaitTimeout, Rewake,
       CallerRelease, SessionRelease, ConnectorRelease

(* The batch is empty wherever the owner is not working on it. *)
LEMMA DetachedStep == Inv /\ [Next]_vars => DetachedControl'
<1> SUFFICES ASSUME Inv, [Next]_vars PROVE DetachedControl'
  OBVIOUS
<1> USE DEF Inv, OwnerControl, CompletionControl, DetachedControl, Working, ownerVars
<1>1. ASSUME NEW c \in Calls, Caller(c) PROVE DetachedControl'
  BY <1>1, CallerLeavesOwner, Zenon
<1>2. ASSUME LoopTop \/ Refuse \/ ProcessEnd \/ Complete \/ Drop \/ RunStart PROVE DetachedControl'
  BY <1>2, Zenon DEF LoopTop, Refuse, ProcessEnd, Complete, Drop, RunStart, Detach, StartComplete
<1>3. ASSUME DispatchEnd \/ ExpireEnd \/ Reject \/ RejectOne \/ RunReturn \/ DestroyEnd \/ LoopFailure
             \/ Stop \/ Destroy
      PROVE DetachedControl'
  BY <1>3, Zenon DEF DispatchEnd, ExpireEnd, Reject, RejectOne, RunReturn, DestroyEnd, LoopFailure,
              Stop, Destroy, Detach, StartComplete
<1>4. ASSUME Connected \/ CancelScan \/ CloseAll PROVE DetachedControl'
  BY <1>4, Zenon DEF Connected, CancelScan, CloseAll, StartClose, StartComplete
<1>5. ASSUME NEW s \in Slots, Admit(s) PROVE DetachedControl'
  BY <1>5 DEF Admit, StartComplete
<1>6. ASSUME NEW s \in Slots, DispatchConnect(s) \/ DispatchRelayEnd(s) \/ Expire(s)
      PROVE DetachedControl'
  BY <1>6, Zenon DEF DispatchConnect, DispatchRelayEnd, Expire, StartClose, StartComplete
<1>7. ASSUME NEW traffic \in BOOLEAN, LoopStep(traffic) PROVE DetachedControl'
  BY <1>7, Zenon DEF LoopStep
<1>8. ASSUME UNCHANGED vars PROVE DetachedControl'
  BY <1>8 DEF vars
<1> QED BY <1>1, <1>2, <1>3, <1>4, <1>5, <1>6, <1>7, <1>8, Zenon DEF Next, Owner, Environment

(* The head of a batch is a command. *)
LEMMA HeadIsCall ==
  ListType /\ batch # <<>> => Head(batch) \in Calls /\ Head(batch) # NoCall
<1> SUFFICES ASSUME ListType, batch # <<>> PROVE Head(batch) \in Calls
  BY CallsAssumption
<1>1. batch \in Seq(Calls)
  BY DEF ListType
<1> QED BY <1>1, TailElements, Zenon

(* Where the owner may go on after a completion. *)
Konts == {"process", "cancel", "dispatch", "expire", "rejecting", "closeall"}

(* Outside a completion the owner works on no command and no slot. *)
LEMMA OwnerIdle ==
  CompletionControl /\ opc \notin Working => ocmd = NoCall /\ oslot = 0
BY Zenon DEF CompletionControl, Working

(* An owner that was not at a command, and is not now, has none. *)
LEMMA OwnerStaysIdle ==
  ASSUME CompletionControl, opc \notin Working, opc' \notin Working, UNCHANGED <<ocmd, oslot>>
  PROVE  CompletionControl'
<1>1. ocmd' = NoCall /\ oslot' = 0
  BY OwnerIdle, Zenon
<1> QED BY <1>1, Zenon DEF CompletionControl, Working

(* A completion may start on any command, and on a slot that gave it up. *)
LEMMA CompletionStarts ==
  ASSUME NEW c \in Calls, NEW r, NEW s, NEW k \in Konts, StartComplete(c, r, s, k),
         s # 0 => opencmd'[s] = NoCall /\ state'[s] # "unused" /\ peer'[s] = c
  PROVE  CompletionControl'
<1>1. ocmd' = c /\ oslot' = s /\ kont' = k /\ opc' = "complete" /\ c # NoCall
  BY CallsAssumption, Zenon DEF StartComplete
<1> QED BY <1>1 DEF CompletionControl, Working, Konts

(* The owner keeps the command it works on. *)
LEMMA CompletionStep == Inv /\ [Next]_vars => CompletionControl'
<1> SUFFICES ASSUME Inv, [Next]_vars PROVE CompletionControl'
  OBVIOUS
<1>t. SlotType /\ OwnerType /\ ListType /\ CompletionControl /\ SlotControl
  BY Zenon DEF Inv, TypeOK, OwnerControl
<1>h. batch # <<>> => Head(batch) \in Calls /\ Head(batch) # NoCall
  BY <1>t, HeadIsCall, Zenon
<1>f. ASSUME UNCHANGED <<opc, kont, ocmd, oslot, state, peer, opencmd>> PROVE CompletionControl'
  BY <1>t, <1>f, Zenon DEF CompletionControl
<1>1. ASSUME NEW c \in Calls, Caller(c) PROVE CompletionControl'
  BY <1>f, <1>1, CallerLeavesOwner, Zenon DEF slotVars, ownerVars
<1>2. ASSUME LoopTop \/ ProcessEnd \/ RunStart PROVE CompletionControl'
  BY <1>t, <1>2, OwnerStaysIdle, Zenon DEF LoopTop, ProcessEnd, RunStart, Working
<1>3. ASSUME DispatchEnd \/ ExpireEnd \/ Reject \/ RunReturn \/ DestroyEnd \/ LoopFailure \/ Destroy
      PROVE CompletionControl'
  BY <1>t, <1>3, OwnerStaysIdle, Zenon
     DEF DispatchEnd, ExpireEnd, Reject, RunReturn, DestroyEnd, LoopFailure, Destroy, Working
<1>4. ASSUME Refuse \/ RejectOne PROVE CompletionControl'
  <2>1. CASE /\ batch # <<>>
             /\ \E r, k : k \in Konts /\ StartComplete(Head(batch), r, 0, k)
    BY <1>h, <2>1, CompletionStarts, Zenon
  <2>2. CASE opc = "rejecting" /\ opc' = "closeall" /\ UNCHANGED <<ocmd, oslot>>
    BY <1>t, <2>2, OwnerStaysIdle, Zenon DEF Working
  <2> QED BY <1>4, <2>1, <2>2, Zenon DEF Refuse, RejectOne, Konts
<1>5. ASSUME Drop PROVE CompletionControl'
  <2>1. ocmd' = NoCall /\ oslot' = 0 /\ opc' = kont /\ kont \in Konts
    BY <1>t, <1>5, Zenon DEF Drop, CompletionControl, Working, Konts
  <2>2. opc' \notin Working
    BY <2>1, Zenon DEF Konts, Working
  <2> QED BY <2>1, <2>2, Zenon DEF CompletionControl, Working
<1>6. ASSUME Complete PROVE CompletionControl'
  <2>1. /\ opc = "complete" /\ opc' = "drop"
        /\ UNCHANGED <<kont, ocmd, oslot, state, peer, opencmd>>
    BY <1>6, Zenon DEF Complete, slotVars
  <2> QED BY <1>t, <2>1 DEF CompletionControl, Working
<1>7. ASSUME NEW s \in Slots, NEW r, NEW k \in Konts, StartClose(s, r, k), opencmd[s] # NoCall
      PROVE  CompletionControl'
  <2>1. opencmd[s] \in Calls /\ peer[s] = opencmd[s] /\ state[s] # "unused"
    BY <1>t, <1>7 DEF SlotType, SlotControl
  <2>2. \E q : StartComplete(opencmd[s], q, s, k)
    BY <1>7, Zenon DEF StartClose
  <2>3. opencmd'[s] = NoCall /\ state' = state /\ peer' = peer
    BY <1>t, <1>7 DEF StartClose, SlotType
  <2> QED BY <2>1, <2>2, <2>3, CompletionStarts, Zenon
<1>8. ASSUME NEW s \in Slots, NEW r, NEW k \in Konts, StartClose(s, r, k), opc \notin Working
      PROVE  CompletionControl'
  <2>1. CASE opencmd[s] # NoCall
    BY <1>7, <1>8, <2>1, Zenon
  <2>2. CASE opencmd[s] = NoCall
    <3>1. opc' = k /\ UNCHANGED <<ocmd, oslot>>
      BY <1>8, <2>2, Zenon DEF StartClose
    <3>2. k \notin Working
      BY <1>8 DEF Konts, Working
    <3> QED BY <1>t, <1>8, <3>1, <3>2, OwnerStaysIdle, Zenon
  <2> QED BY <2>1, <2>2, Zenon
<1>9. ASSUME CancelScan PROVE CompletionControl'
  <2>1. CASE scan \in Slots /\ StartClose(scan, "CANCELLED", "cancel")
    BY <1>8, <1>9, <2>1, Zenon DEF CancelScan, Konts, Working
  <2>2. CASE UNCHANGED <<ocmd, oslot>> /\ opc' \in {"cancel", "step", "expire"}
    BY <1>t, <1>9, <2>2, OwnerStaysIdle, Zenon DEF CancelScan, Working
  <2> QED BY <1>9, <2>1, <2>2, Zenon DEF CancelScan
<1>10. ASSUME CloseAll PROVE CompletionControl'
  <2>1. CASE StartClose(scan, IF failed THEN "IO" ELSE "CANCELLED", "closeall")
    BY <1>8, <1>10, <2>1, Zenon DEF CloseAll, Konts, Working
  <2>2. CASE UNCHANGED <<slotVars, opc, kont, ocmd, oslot>>
    BY <1>f, <2>2, Zenon DEF slotVars
  <2> QED BY <1>10, <2>1, <2>2, Zenon DEF CloseAll
<1>11. ASSUME Connected PROVE CompletionControl'
  <2>1. oslot \in Slots /\ opencmd[oslot] \in Calls /\ opencmd[oslot] # NoCall /\ kont \in Konts
    BY <1>t, <1>11, Zenon DEF Connected, CompletionControl, Working, OwnerType, SlotType, Konts
  <2>2. CASE StartComplete(opencmd[oslot], "OK", 0, kont)
    BY <2>1, <2>2, CompletionStarts, Zenon
  <2>3. CASE \E r : StartClose(oslot, r, kont)
    BY <1>7, <2>1, <2>3, Zenon
  <2> QED BY <1>11, <2>2, <2>3, Zenon DEF Connected
<1>12. ASSUME NEW s \in Slots, Admit(s) PROVE CompletionControl'
  <2>1. /\ opc = "process" /\ batch # <<>> /\ state[s] = "unused"
        /\ peer'[s] = Head(batch) /\ opencmd[s] = NoCall
    BY <1>t, <1>12 DEF Admit, SlotType, SlotControl
  <2>2. CASE /\ state' = [state EXCEPT ![s] = "opening"] /\ UNCHANGED opencmd
             /\ \E r \in Failures : StartComplete(Head(batch), r, s, "process")
    <3>1. state'[s] = "opening" /\ opencmd'[s] = NoCall
      BY <1>t, <2>1, <2>2 DEF SlotType
    <3> QED BY <1>h, <2>1, <2>2, <3>1, CompletionStarts, Zenon DEF Konts
  <2>3. CASE UNCHANGED <<opc, ocmd, oslot>>
    BY <1>t, <2>1, <2>3, OwnerStaysIdle, Zenon DEF Working
  <2>4. CASE /\ opencmd' = [opencmd EXCEPT ![s] = Head(batch)]
             /\ opc' = "connected" /\ oslot' = s /\ kont' = "process" /\ ocmd' = ocmd
             /\ state' = [state EXCEPT ![s] = "relay"]
    <3>1. ocmd' = NoCall
      BY <1>t, <2>1, <2>4, OwnerIdle, Zenon DEF Working
    <3>2. opencmd'[s] # NoCall /\ state'[s] = "relay" /\ s # 0
      BY <1>t, <1>h, <2>1, <2>4, SlotsAssumption DEF SlotType, Slots
    <3> QED BY <2>4, <3>1, <3>2 DEF CompletionControl, Working
  <2> QED BY <1>12, <2>2, <2>3, <2>4, Zenon DEF Admit
<1>13. ASSUME NEW s \in Slots, DispatchConnect(s) PROVE CompletionControl'
  <2>1. CASE StartClose(s, "IO", "dispatch")
    BY <1>8, <1>13, <2>1, Zenon DEF DispatchConnect, Konts, Working
  <2>2. CASE /\ UNCHANGED <<opencmd, ocmd>>
             /\ opc' = "connected" /\ oslot' = s /\ kont' = "dispatch"
             /\ state' = [state EXCEPT ![s] = "relay"]
    <3>1. ocmd' = NoCall
      BY <1>t, <1>13, <2>2, OwnerIdle, Zenon DEF DispatchConnect, Working
    <3>2. opencmd[s] # NoCall
      BY <1>t, <1>13 DEF DispatchConnect, SlotControl
    <3>3. opencmd'[s] # NoCall /\ state'[s] = "relay" /\ s # 0
      BY <1>t, <2>2, <3>2, SlotsAssumption DEF SlotType, Slots
    <3> QED BY <2>2, <3>1, <3>3 DEF CompletionControl, Working
  <2> QED BY <1>13, <2>1, <2>2, Zenon DEF DispatchConnect
<1>14. ASSUME NEW s \in Slots, DispatchRelayEnd(s) \/ Expire(s) PROVE CompletionControl'
  BY <1>8, <1>14, Zenon DEF DispatchRelayEnd, Expire, Konts, Working
<1>15. ASSUME NEW traffic \in BOOLEAN, LoopStep(traffic) PROVE CompletionControl'
  BY <1>t, <1>15, OwnerStaysIdle, Zenon DEF LoopStep, Working
<1>16. ASSUME Stop \/ UNCHANGED vars PROVE CompletionControl'
  BY <1>f, <1>16, Zenon DEF Stop, vars, slotVars, ownerVars
<1> QED BY <1>1, <1>2, <1>3, <1>4, <1>5, <1>6, <1>9, <1>10, <1>11, <1>12, <1>13, <1>14, <1>15,
           <1>16, Zenon DEF Next, Owner, Environment

(* A slot keeps the command it was opened for. *)
LEMMA SlotStep == Inv /\ [Next]_vars => SlotControl'
<1> DEFINE Ok(s) ==
      /\ opencmd[s] # NoCall =>
           /\ peer[s] = opencmd[s]
           /\ state[s] = "connecting" \/ (state[s] = "relay" /\ opc = "connected" /\ oslot = s)
      /\ state[s] = "opening" \/ (state[s] = "connecting" /\ opencmd[s] = NoCall) =>
           opc \in {"complete", "drop"} /\ oslot = s
<1> SUFFICES ASSUME Inv, [Next]_vars, NEW t \in Slots PROVE Ok(t)'
  BY Zenon DEF SlotControl
<1>t. SlotType /\ OwnerType /\ ListType /\ CompletionControl /\ SlotControl
  BY Zenon DEF Inv, TypeOK, OwnerControl
<1>o. \A s \in Slots : Ok(s)
  BY <1>t, Zenon DEF SlotControl
<1>0. t # 0
  BY SlotsAssumption DEF Slots
<1>i. opc \notin Working => oslot = 0
  BY <1>t, OwnerIdle, Zenon
(* A slot an idle owner leaves alone. *)
<1>f. ASSUME UNCHANGED <<opencmd[t], state[t], peer[t]>>, oslot = 0 PROVE Ok(t)'
  BY <1>o, <1>f, <1>0, Zenon
<1>g. ASSUME UNCHANGED <<opencmd, state, peer>>, opc \notin Working PROVE Ok(t)'
  BY <1>f, <1>g, <1>i, Zenon
<1>s. ASSUME UNCHANGED <<opencmd, state, peer, opc, oslot>> PROVE Ok(t)'
  BY <1>o, <1>s, Zenon
<1>1. ASSUME NEW c \in Calls, Caller(c) PROVE Ok(t)'
  BY <1>s, <1>1, CallerLeavesOwner, Zenon DEF slotVars, ownerVars
<1>2. ASSUME LoopTop \/ ProcessEnd \/ RunStart \/ Refuse \/ RejectOne PROVE Ok(t)'
  BY <1>g, <1>2, Zenon DEF LoopTop, ProcessEnd, RunStart, Refuse, RejectOne, slotVars, Working
<1>3. ASSUME DispatchEnd \/ ExpireEnd \/ Reject \/ RunReturn \/ DestroyEnd \/ LoopFailure \/ Destroy
      PROVE Ok(t)'
  BY <1>g, <1>3, Zenon
     DEF DispatchEnd, ExpireEnd, Reject, RunReturn, DestroyEnd, LoopFailure, Destroy, slotVars, Working
<1>4. ASSUME Stop \/ UNCHANGED vars PROVE Ok(t)'
  BY <1>s, <1>4, Zenon DEF Stop, vars, slotVars, ownerVars
<1>5. ASSUME Complete PROVE Ok(t)'
  <2>1. opc = "complete" /\ opc' = "drop" /\ UNCHANGED <<opencmd, state, peer, oslot>>
    BY <1>5, Zenon DEF Complete, slotVars
  <2> QED BY <1>o, <2>1
<1>6. ASSUME Drop PROVE Ok(t)'
  <2>1. CASE oslot = 0
    BY <1>f, <1>6, <2>1, Zenon DEF Drop
  <2>2. CASE oslot # 0
    <3>1. /\ opc = "drop" /\ opencmd' = opencmd /\ opencmd[oslot] = NoCall
          /\ state' = [state EXCEPT ![oslot] = "unused"] /\ peer' = [peer EXCEPT ![oslot] = NoCall]
      BY <1>t, <1>6, <2>2, Zenon DEF Drop, FreeSlot, CompletionControl
    <3>2. CASE t = oslot
      BY <1>t, <3>1, <3>2, Zenon DEF SlotType
    <3>3. CASE t # oslot
      BY <1>t, <1>o, <3>1, <3>3 DEF SlotType
    <3> QED BY <3>2, <3>3, Zenon
  <2> QED BY <2>1, <2>2, Zenon
<1>7. ASSUME NEW s \in Slots, NEW r, NEW k, StartClose(s, r, k), oslot = 0 PROVE Ok(t)'
  <2>1. CASE opencmd[s] # NoCall
    <3>1. /\ opencmd' = [opencmd EXCEPT ![s] = NoCall] /\ UNCHANGED <<state, peer>>
          /\ opc' = "complete" /\ oslot' = s
      BY <1>7, <2>1, Zenon DEF StartClose, StartComplete
    <3>2. CASE t = s
      BY <1>t, <1>o, <1>0, <1>7, <2>1, <3>1, <3>2 DEF SlotType
    <3>3. CASE t # s
      <4>1. opencmd'[t] = opencmd[t]
        BY <1>t, <3>1, <3>3 DEF SlotType
      <4> QED BY <1>f, <1>7, <3>1, <4>1, Zenon
    <3> QED BY <3>2, <3>3, Zenon
  <2>2. CASE opencmd[s] = NoCall
    <3>1. /\ opencmd' = opencmd
          /\ state' = [state EXCEPT ![s] = "unused"] /\ peer' = [peer EXCEPT ![s] = NoCall]
      BY <1>7, <2>2, Zenon DEF StartClose, FreeSlot
    <3>2. CASE t = s
      BY <1>t, <2>2, <3>1, <3>2 DEF SlotType
    <3>3. CASE t # s
      <4>1. state'[t] = state[t] /\ peer'[t] = peer[t]
        BY <1>t, <3>1, <3>3 DEF SlotType
      <4> QED BY <1>f, <1>7, <3>1, <4>1, Zenon
    <3> QED BY <3>2, <3>3, Zenon
  <2> QED BY <2>1, <2>2, Zenon
<1>8. ASSUME CancelScan PROVE Ok(t)'
  BY <1>g, <1>i, <1>7, <1>8, Zenon DEF CancelScan, slotVars, Working
<1>9. ASSUME CloseAll PROVE Ok(t)'
  BY <1>g, <1>i, <1>7, <1>9, Zenon DEF CloseAll, slotVars, Working
<1>10. ASSUME Connected PROVE Ok(t)'
  <2>1. oslot \in Slots /\ opencmd[oslot] # NoCall /\ state[oslot] = "relay" /\ opc = "connected"
    BY <1>t, <1>10, Zenon DEF Connected, CompletionControl, OwnerType
  <2>2. opencmd' = [opencmd EXCEPT ![oslot] = NoCall] /\ UNCHANGED <<state, peer>>
    BY <1>10, <2>1, Zenon DEF Connected, StartClose
  <2>3. CASE t = oslot
    BY <1>t, <2>1, <2>2, <2>3, Zenon DEF SlotType
  <2>4. CASE t # oslot
    <3>1. opencmd'[t] = opencmd[t]
      BY <1>t, <2>2, <2>4 DEF SlotType
    <3> QED BY <1>o, <2>1, <2>2, <2>4, <3>1
  <2> QED BY <2>3, <2>4, Zenon
<1>11. ASSUME NEW s \in Slots, Admit(s) PROVE Ok(t)'
  <2>1. oslot = 0 /\ batch # <<>> /\ Head(batch) # NoCall
    BY <1>t, <1>i, <1>11, HeadIsCall, Zenon DEF Admit, Working
  <2>a. state[s] = "unused"
    BY <1>11, Zenon DEF Admit
  <2>2. state[s] = "unused" /\ opencmd[s] = NoCall
    BY <1>o, <2>a, Zenon
  <2>3. CASE t = s
    <3>1. /\ peer'[s] = Head(batch)
          /\ \/ state'[s] = "opening" /\ opencmd'[s] = NoCall /\ opc' = "complete" /\ oslot' = s
             \/ state'[s] = "connecting" /\ opencmd'[s] = Head(batch)
             \/ state'[s] = "relay" /\ opencmd'[s] = Head(batch) /\ opc' = "connected" /\ oslot' = s
      BY <1>t, <1>11, <2>2 DEF Admit, StartComplete, SlotType
    <3> QED BY <2>1, <2>3, <3>1, Zenon
  <2>4. CASE t # s
    <3>1. opencmd'[t] = opencmd[t] /\ peer'[t] = peer[t] /\ state'[t] = state[t]
      BY <1>t, <1>11, <2>4 DEF Admit, SlotType
    <3> QED BY <1>f, <2>1, <3>1, Zenon
  <2> QED BY <2>3, <2>4, Zenon
<1>12. ASSUME NEW s \in Slots, DispatchConnect(s) PROVE Ok(t)'
  <2>1. oslot = 0
    BY <1>i, <1>12, Zenon DEF DispatchConnect, Working
  <2>2. CASE StartClose(s, "IO", "dispatch")
    BY <1>7, <2>1, <2>2, Zenon
  <2>3. CASE /\ state' = [state EXCEPT ![s] = "relay"] /\ UNCHANGED <<peer, opencmd>>
             /\ opc' = "connected" /\ oslot' = s
    <3>1. CASE t = s
      BY <1>t, <1>o, <2>3, <3>1 DEF SlotType
    <3>2. CASE t # s
      <4>1. state'[t] = state[t]
        BY <1>t, <2>3, <3>2 DEF SlotType
      <4> QED BY <1>f, <2>1, <2>3, <4>1, Zenon
    <3> QED BY <3>1, <3>2, Zenon
  <2> QED BY <1>12, <2>2, <2>3, Zenon DEF DispatchConnect
<1>13. ASSUME NEW s \in Slots, DispatchRelayEnd(s) \/ Expire(s) PROVE Ok(t)'
  BY <1>i, <1>7, <1>13, Zenon DEF DispatchRelayEnd, Expire, Working
<1>14. ASSUME NEW traffic \in BOOLEAN, LoopStep(traffic) PROVE Ok(t)'
  BY <1>g, <1>14, Zenon DEF LoopStep, slotVars, Working
<1> HIDE DEF Ok
<1> QED BY <1>1, <1>2, <1>3, <1>4, <1>5, <1>6, <1>8, <1>9, <1>10, <1>11, <1>12, <1>13, <1>14, Zenon
     DEF Next, Owner, Environment

(* What the server holds grows only by Enqueue; a thread never goes back to   *)
(* before its own Enqueue.                                                    *)
LEMMA EnteredStep == Inv /\ [Next]_vars => EnteredControl'
<1> SUFFICES ASSUME Inv, [Next]_vars, NEW c \in Calls, ServerHolds(c)'
             PROVE  pc'[c] \notin {"unbound", "bound", "create", "enqueue"}
  BY DEF EnteredControl
<1> USE DEF commandVars, pairVars, slotVars, flagVars, ownerVars
<1>t. CallerType /\ CommandType' /\ RefsExact' /\ RefsExact /\ EnteredControl
  BY TypeStep, RefsStep DEF Inv, TypeOK, OwnerControl
<1>1. ASSUME pc' = pc, refs' = refs PROVE ServerHolds(c)
  <2>1. CallerHolds(c)' <=> CallerHolds(c)
    BY <1>1 DEF CallerHolds
  <2> QED BY <1>1, <1>t, <2>1 DEF RefsExact
<1>2. CASE \E d \in Calls : Caller(d)
  <2>1. PICK d \in Calls : Caller(d)
    BY <1>2
  <2>2. UNCHANGED <<batch, slotVars, ownerVars>>
    BY <2>1, CallerLeavesOwner, Zenon
  <2>3. CASE d # c
    <3>1. pc'[c] = pc[c]
      BY <1>t, <2>1, <2>3, Zenon
         DEF Caller, Bind, OpenCheck, Create, Enqueue, Wake, WaitDone, WaitTimeout, Rewake, Finish,
             CallerRelease, SessionRelease, ConnectorRelease, CallerType
    <3>2. Queued(c)' => Queued(c)
      <4>1. CASE Enqueue(d)
        <5>1. Range(Append(queue, d)) = Range(queue) \cup {d}
          BY AppendElements DEF Inv, TypeOK, ListType
        <5> QED BY <2>3, <4>1, <5>1, Zenon DEF Enqueue, Queued
      <4>2. CASE ~Enqueue(d)
        BY <2>1, <4>2, Zenon
           DEF Caller, Bind, OpenCheck, Create, Wake, WaitDone, WaitTimeout, Rewake,
               CallerRelease, SessionRelease, ConnectorRelease, Queued
      <4> QED BY <4>1, <4>2
    <3> QED BY <1>t, <2>2, <3>1, <3>2
         DEF EnteredControl, ServerHolds, Batched, Opening, Completing
  <2>4. CASE d = c
    <3>1. CASE pc[c] \in {"unbound", "bound", "create"}
      <4>1. UNCHANGED queue
        BY <2>1, <2>4, <3>1, Zenon
           DEF Caller, Bind, OpenCheck, Create, Enqueue, Wake, WaitDone, WaitTimeout, Rewake,
               CallerRelease, SessionRelease, ConnectorRelease
      <4>2. ServerHolds(c)
        BY <2>2, <4>1 DEF ServerHolds, Queued, Batched, Opening, Completing
      <4> QED BY <1>t, <3>1, <4>2 DEF EnteredControl
    <3>2. CASE pc[c] \notin {"unbound", "bound", "create"}
      BY <1>t, <2>1, <2>4, <3>2, Zenon
         DEF Caller, Bind, OpenCheck, Create, Enqueue, Wake, WaitDone, WaitTimeout, Rewake, Finish,
             CallerRelease, SessionRelease, ConnectorRelease, CallerType
    <3> QED BY <3>1, <3>2, Zenon
  <2> QED BY <2>3, <2>4
<1>3. CASE Drop
  <2>1. pc' = pc /\ ServerHolds(c)
    BY <1>3, CallsAssumption DEF Drop, ServerHolds, Queued, Batched, Opening, Completing
  <2> QED BY <1>t, <2>1, Zenon DEF EnteredControl
<1>4. CASE (Owner \/ Environment) /\ ~Drop
  <2>1. pc' = pc /\ refs' = refs
    BY <1>4, Zenon DEF Owner, Environment, LoopTop, Refuse, Admit, ProcessEnd, Connected, Complete,
       CancelScan, LoopStep, DispatchEnd, ExpireEnd, Reject, RejectOne, CloseAll, RunReturn,
       DestroyEnd, RunStart, LoopFailure, Stop, Destroy, DispatchConnect, DispatchRelayEnd, Expire
  <2> QED BY <1>t, <1>1, <2>1 DEF EnteredControl
<1>5. CASE UNCHANGED vars
  BY <1>t, <1>1, <1>5 DEF vars, EnteredControl
<1> QED BY <1>2, <1>3, <1>4, <1>5 DEF Next

(* The references of the server stay exact. *)
LEMMA ReferencesStep == Inv /\ [Next]_vars => ServerOutlivesConnectors'
<1> SUFFICES ASSUME Inv, [Next]_vars PROVE ServerOutlivesConnectors'
  OBVIOUS
<1> USE DEF commandVars, pairVars, slotVars, flagVars, ownerVars
<1> DEFINE B == {c \in Calls : Bound(c)}
<1>t. CallerType /\ OwnerType /\ CompletionControl /\ ServerOutlivesConnectors
  BY DEF Inv, TypeOK, OwnerControl
<1> DEFINE n == references - OwnersReference
<1>n. n \in Nat /\ references \in Nat /\ OwnersReference \in 0..1 /\ ExistsBijection(1..n, B)
  BY DEF Inv, TypeOK, ServerType, ServerOutlivesConnectors, OwnersReference
<1>f. ASSUME \A c \in Calls : Bound(c)' <=> Bound(c), references' = references,
             opc' = "destroyed" <=> opc = "destroyed"
      PROVE ServerOutlivesConnectors'
  <2>1. B' = B
    BY <1>f
  <2>2. OwnersReference' = OwnersReference
    BY <1>f, Zenon DEF OwnersReference
  <2> QED BY <1>t, <1>f, <2>1, <2>2, Zenon DEF ServerOutlivesConnectors
<1>1. ASSUME NEW c \in Calls, Bind(c) PROVE ServerOutlivesConnectors'
  <2>1. opc' = opc
    BY <1>1 DEF Bind
  <2>2. CASE references' = references + 1 /\ pc' = [pc EXCEPT ![c] = "bound"]
    <3>1. B' = B \cup {c} /\ c \notin B
      BY <1>t, <1>1, <2>2 DEF Bind, Bound, CallerType
    <3>2. ExistsBijection(1..(n + 1), B')
      <4>1. ExistsBijection(1..(n + 1), B \cup {c})
        BY <1>n, <3>1, CountAdd, Zenon
      <4> QED BY <3>1, <4>1, Zenon
    <3>3. OwnersReference' = OwnersReference
      BY <2>1 DEF OwnersReference
    <3>4. references' - OwnersReference' = n + 1 /\ references' >= OwnersReference'
      BY <1>n, <2>2, <3>3
    <3> QED BY <3>2, <3>4, Zenon DEF ServerOutlivesConnectors
  <2>3. CASE references' = references /\ pc' = [pc EXCEPT ![c] = "gone"]
    BY <1>t, <1>f, <1>1, <2>1, <2>3 DEF Bind, Bound, CallerType
  <2> QED BY <1>1, <2>2, <2>3, Zenon DEF Bind
<1>2. ASSUME NEW c \in Calls, ConnectorRelease(c) PROVE ServerOutlivesConnectors'
  <2>1. B' = B \ {c} /\ c \in B
    BY <1>t, <1>2 DEF ConnectorRelease, Bound, CallerType
  <2>2. n >= 1 /\ ExistsBijection(1..(n - 1), B')
    <3>1. n >= 1 /\ ExistsBijection(1..(n - 1), B \ {c})
      BY <1>n, <2>1, CountRemove, Zenon
    <3> QED BY <2>1, <3>1, Zenon
  <2>3. opc' = opc /\ references' = references - 1
    BY <1>2 DEF ConnectorRelease
  <2>4. OwnersReference' = OwnersReference
    BY <2>3 DEF OwnersReference
  <2>5. references' - OwnersReference' = n - 1 /\ references' >= OwnersReference'
    BY <1>n, <2>2, <2>3, <2>4
  <2> QED BY <2>2, <2>5, Zenon DEF ServerOutlivesConnectors
<1>3. ASSUME NEW c \in Calls, Caller(c), ~Bind(c), ~ConnectorRelease(c)
      PROVE ServerOutlivesConnectors'
  <2>1. references' = references /\ opc' = opc
    BY <1>3, Zenon DEF Caller, OpenCheck, Create, Enqueue, Wake, WaitDone, WaitTimeout, Rewake,
                CallerRelease, SessionRelease
  <2>2. \A d \in Calls : Bound(d)' <=> Bound(d)
    BY <1>t, <1>3, Zenon DEF Caller, OpenCheck, Create, Enqueue, Wake, WaitDone, WaitTimeout, Rewake,
                CallerRelease, SessionRelease, Finish, Bound, CallerType
  <2> QED BY <1>f, <2>1, <2>2
<1>4. ASSUME DestroyEnd PROVE ServerOutlivesConnectors'
  <2>1. B' = B
    BY <1>4 DEF DestroyEnd, Bound
  <2>2. opc = "closeall" /\ opc' = "destroyed" /\ references' = references - 1
    BY <1>4 DEF DestroyEnd
  <2>3. OwnersReference = 1 /\ OwnersReference' = 0
    BY <2>2 DEF OwnersReference
  <2>4. references' - OwnersReference' = n /\ references' >= OwnersReference'
    BY <1>n, <2>2, <2>3
  <2> QED BY <1>n, <2>1, <2>4, Zenon DEF ServerOutlivesConnectors
<1>5. ASSUME Owner \/ Environment, ~DestroyEnd PROVE ServerOutlivesConnectors'
  <2>1. UNCHANGED <<pc, references>>
    BY <1>5, Zenon DEF Owner, Environment, LoopTop, Refuse, Admit, ProcessEnd, Connected, Complete,
       Drop, CancelScan, LoopStep, DispatchEnd, ExpireEnd, Reject, RejectOne, CloseAll, RunReturn,
       RunStart, LoopFailure, Stop, Destroy, DispatchConnect, DispatchRelayEnd, Expire
  <2>2. opc' = "destroyed" <=> opc = "destroyed"
    BY <1>t, <1>5, Zenon DEF Owner, Environment, LoopTop, Refuse, Admit, ProcessEnd, Connected, Complete,
       Drop, CancelScan, LoopStep, DispatchEnd, ExpireEnd, Reject, RejectOne, CloseAll, RunReturn,
       RunStart, LoopFailure, Stop, Destroy, DispatchConnect, DispatchRelayEnd, Expire,
       StartClose, StartComplete, CompletionControl, Working
  <2> QED BY <1>f, <2>1, <2>2 DEF Bound
<1>6. ASSUME UNCHANGED vars PROVE ServerOutlivesConnectors'
  BY <1>f, <1>6 DEF vars, Bound
<1> QED BY <1>1, <1>2, <1>3, <1>4, <1>5, <1>6 DEF Next

(* Together: the invariant is kept by every step. *)
LEMMA InvStep == Inv /\ [Next]_vars => Inv'
BY TypeStep, RefsStep, CompletionStep, DetachedStep, SlotStep, EnteredStep, ReferencesStep
   DEF Inv, OwnerControl

(* And holds at every step. *)
LEMMA Inductive == Spec => []Inv
BY InvStep, InitInv, PTL DEF Spec

(* Type correctness of the connector state. *)
THEOREM TypeCorrect == Spec => []TypeOK
BY Inductive, PTL DEF Inv

(* The reference count of every open command is exact at every step, so the   *)
(* calling thread and the owner thread never use a freed command and the last *)
(* of them frees it (open_command_release).                                   *)
THEOREM RefsAlwaysExact == Spec => []RefsExact
BY Inductive, PTL DEF Inv

(* server->references counts the owner and the bound connectors: destroy does *)
(* not free a server some connector can still reach.                          *)
THEOREM ServerKept == Spec => []ServerOutlivesConnectors
BY Inductive, PTL DEF Inv
=============================================================================
