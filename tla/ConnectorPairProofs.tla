------------------------ MODULE ConnectorPairProofs ------------------------
(***************************************************************************)
(* Proofs about the two ends of a native session, for any set of threads and *)
(* slots: who owns each end of the private pair, what thread and owner agree *)
(* on once a call has returned, and that neither is left waiting for an      *)
(* answer nobody will give.  They rest on the invariant of ConnectorProofs.  *)
(***************************************************************************)
EXTENDS ConnectorProofs

(* The private pairs.  A thread that has not created its command has no pair, *)
(* a command still on its way to the owner holds the relay's end, and a       *)
(* thread that has not come back from its wait has returned nothing.          *)
Untouched == {"unbound", "bound", "create"}
Unanswered == Untouched \cup {"enqueue", "wake", "wait"}
PairControl ==
  \A c \in Calls :
    /\ pc[c] \in Untouched => sock[c] = "none" /\ cfd[c] = "none"
    /\ Queued(c) \/ Batched(c) \/ pc[c] = "enqueue" => sock[c] = "command"
    /\ pc[c] \in Unanswered => ret[c] = "none"
Pairs == PairOwned /\ PairControl

(* What the owner's steps do to the slots and the relay ends they hold: the   *)
(* slots in use stay so, or one of them is freed and its end closed.          *)
SlotsKept ==
  /\ UNCHANGED <<peer, sock>>
  /\ \A s \in Slots : state'[s] = "unused" <=> state[s] = "unused"
Freed(s) ==
  /\ state[s] # "unused"
  /\ FreeSlot(s)
  /\ sock' = [sock EXCEPT ![peer[s]] = "closed"]

(* egress_connection_close keeps the slot for its command, or frees it. *)
LEMMA CloseEffect ==
  ASSUME NEW s \in Slots, NEW r, NEW k, StartClose(s, r, k), state[s] # "unused"
  PROVE  SlotsKept \/ Freed(s)
BY Zenon DEF StartClose, SlotsKept, Freed

(* The steps of the owner that may close a connection. *)
Closing ==
  \/ Connected \/ CancelScan \/ CloseAll
  \/ \E s \in Slots : DispatchConnect(s) \/ DispatchRelayEnd(s) \/ Expire(s)

(* They keep the slots, or free one and close its end. *)
LEMMA ClosingEffect ==
  ASSUME Inv, Closing
  PROVE  /\ UNCHANGED <<pc, ret, refs, cancelled, completed, cresult, cfd, queue, batch,
                        stopping, finalized, failed>>
         /\ SlotsKept \/ \E s \in Slots : Freed(s)
<1>t. SlotType /\ OwnerType /\ CompletionControl /\ SlotControl
  BY Zenon DEF Inv, TypeOK, OwnerControl
<1>1. UNCHANGED <<pc, ret, refs, cancelled, completed, cresult, cfd, queue, batch,
                  stopping, finalized, failed>>
  BY Zenon DEF Closing, Connected, CancelScan, CloseAll, DispatchConnect, DispatchRelayEnd,
               Expire, commandVars, flagVars
<1>k. ASSUME UNCHANGED <<state, peer, sock>> PROVE SlotsKept
  BY <1>k, Zenon DEF SlotsKept
<1>2. ASSUME Connected PROVE SlotsKept \/ \E s \in Slots : Freed(s)
  <2>1. oslot \in Slots /\ state[oslot] # "unused"
    BY <1>t, <1>2 DEF Connected, CompletionControl, OwnerType
  <2>2. UNCHANGED <<state, peer, sock>> \/ \E r, k : StartClose(oslot, r, k)
    BY <1>2, Zenon DEF Connected
  <2> QED BY <1>k, <2>1, <2>2, CloseEffect, Zenon
<1>3. ASSUME CancelScan PROVE SlotsKept \/ \E s \in Slots : Freed(s)
  <2>1. CASE UNCHANGED <<slotVars, sock>>
    BY <1>k, <2>1, Zenon DEF slotVars
  <2>2. CASE scan \in Slots /\ opencmd[scan] # NoCall /\ StartClose(scan, "CANCELLED", "cancel")
    <3>1. state[scan] # "unused"
      BY <1>t, <2>2 DEF SlotControl
    <3> QED BY <2>2, <3>1, CloseEffect, Zenon
  <2> QED BY <1>3, <2>1, <2>2, Zenon DEF CancelScan
<1>4. ASSUME CloseAll PROVE SlotsKept \/ \E s \in Slots : Freed(s)
  BY <1>4, <1>k, CloseEffect, Zenon DEF CloseAll, slotVars
<1>5. ASSUME NEW s \in Slots, DispatchConnect(s) PROVE SlotsKept \/ \E q \in Slots : Freed(q)
  <2>1. state[s] = "connecting"
    BY <1>5, Zenon DEF DispatchConnect
  <2>2. CASE state' = [state EXCEPT ![s] = "relay"] /\ UNCHANGED <<peer, sock>>
    BY <1>t, <2>1, <2>2 DEF SlotsKept, SlotType
  <2>3. CASE StartClose(s, "IO", "dispatch")
    <3>1. state[s] # "unused"
      BY <2>1
    <3> QED BY <2>3, <3>1, CloseEffect, Zenon
  <2> QED BY <1>5, <2>2, <2>3, Zenon DEF DispatchConnect
<1>6. ASSUME NEW s \in Slots, DispatchRelayEnd(s) \/ Expire(s)
      PROVE SlotsKept \/ \E q \in Slots : Freed(q)
  <2>1. state[s] # "unused"
    BY <1>6 DEF DispatchRelayEnd, Expire
  <2>2. \E r, k : StartClose(s, r, k)
    BY <1>6, Zenon DEF DispatchRelayEnd, Expire
  <2> QED BY <2>1, <2>2, CloseEffect, Zenon
<1> QED BY <1>1, <1>2, <1>3, <1>4, <1>5, <1>6, Zenon DEF Closing

(* Steps that move no end of a pair, and add no command to the lists. *)
LEMMA PairsFrame ==
  ASSUME Inv, Pairs, SlotsKept, UNCHANGED <<pc, ret, refs, cfd>>,
         \A c \in Calls : Queued(c)' \/ Batched(c)' => Queued(c) \/ Batched(c)
  PROVE  Pairs'
<1>1. PairOwned'
  BY DEF Pairs, PairOwned, SlotsKept
<1>2. PairControl'
  BY Zenon DEF Pairs, PairControl, SlotsKept
<1> QED BY <1>1, <1>2 DEF Pairs

(* A slot is freed: the end it held is closed, and no other. *)
LEMMA PairsFreed ==
  ASSUME Inv, Pairs, NEW s \in Slots, Freed(s), UNCHANGED <<pc, ret, refs, cfd, queue, batch>>
  PROVE  Pairs'
<1>t. SlotType /\ PairType
  BY DEF Inv, TypeOK
<1>1. /\ peer[s] \in Calls /\ sock[peer[s]] = "slot"
      /\ \A t \in Slots : t # s => peer[t] # peer[s]
  BY <1>t DEF Pairs, PairOwned, Freed, SlotType
<1>2. /\ sock'[peer[s]] = "closed"
      /\ \A c \in Calls : c # peer[s] => sock'[c] = sock[c]
  BY <1>t, <1>1 DEF Freed, PairType
<1>3. /\ state'[s] = "unused" /\ peer'[s] = NoCall
      /\ \A t \in Slots : t # s => state'[t] = state[t] /\ peer'[t] = peer[t]
  BY <1>t DEF Freed, FreeSlot, SlotType
<1>4. PairOwned'
  <2>1. \A c \in Calls : refs'[c] = 0 => sock'[c] # "command" /\ cfd'[c] # "command"
    BY <1>1, <1>2 DEF Pairs, PairOwned
  <2>2. \A t, u \in Slots : state'[t] # "unused" /\ peer'[t] = peer'[u] => t = u
    BY <1>3 DEF Pairs, PairOwned
  <2>3. \A t \in Slots : state'[t] # "unused" <=> peer'[t] # NoCall
    BY <1>3 DEF Pairs, PairOwned
  <2>4. \A c \in Calls : sock'[c] = "slot" <=> \E t \in Slots : peer'[t] = c
    BY <1>1, <1>2, <1>3, CallsAssumption DEF Pairs, PairOwned
  <2> QED BY <2>1, <2>2, <2>3, <2>4, Zenon DEF Pairs, PairOwned
<1>5. PairControl'
  <2>1. \A c \in Calls : sock[c] # "slot" => sock'[c] = sock[c]
    BY <1>1, <1>2
  <2>2. \A c \in Calls : (Queued(c)' <=> Queued(c)) /\ (Batched(c)' <=> Batched(c))
    BY DEF Queued, Batched
  <2> QED BY <2>1, <2>2 DEF Pairs, PairControl
<1> QED BY <1>4, <1>5 DEF Pairs

(* A reference is dropped: the last one closes what the command still holds.  *)
(* The command is not on its way to the owner.                                *)
LEMMA PairsReleased ==
  ASSUME Inv, Pairs, NEW c \in Calls, refs[c] >= 1, Release(c), sock' = SockAfterRelease(c),
         ~Queued(c), ~Batched(c), UNCHANGED <<state, peer, queue, batch>>,
         \A d \in Calls : d # c => pc'[d] = pc[d] /\ ret'[d] = ret[d],
         ret'[c] = "OK" <=> ret[c] = "OK",
         pc'[c] \notin Untouched \cup {"enqueue"},
         pc'[c] \in Unanswered => ret'[c] = "none"
  PROVE  Pairs'
<1>t. PairType /\ CommandType
  BY DEF Inv, TypeOK
<1>1. /\ refs'[c] = refs[c] - 1
      /\ \A d \in Calls : d # c => refs'[d] = refs[d] /\ sock'[d] = sock[d] /\ cfd'[d] = cfd[d]
  BY <1>t DEF Release, SockAfterRelease, PairType, CommandType
<1>2. /\ sock'[c] = IF refs[c] = 1 /\ sock[c] = "command" THEN "closed" ELSE sock[c]
      /\ cfd'[c] = IF refs[c] = 1 /\ cfd[c] = "command" THEN "closed" ELSE cfd[c]
  BY <1>t DEF Release, SockAfterRelease, PairType, CommandType
<1>3. refs[c] \in Nat
  BY <1>t DEF CommandType
<1>4. PairOwned'
  <2>1. \A d \in Calls : refs'[d] = 0 => sock'[d] # "command" /\ cfd'[d] # "command"
    BY <1>1, <1>2, <1>3 DEF Pairs, PairOwned
  <2>2. \A d \in Calls : sock'[d] = "slot" <=> sock[d] = "slot"
    BY <1>1, <1>2, Zenon
  <2>3. \A d \in Calls : cfd'[d] = "caller" => ret'[d] = "OK"
    BY <1>1, <1>2 DEF Pairs, PairOwned
  <2>4. \A d \in Calls : ret'[d] = "OK" => cfd'[d] \in {"caller", "closed"}
    BY <1>1, <1>2 DEF Pairs, PairOwned
  <2> QED BY <2>1, <2>2, <2>3, <2>4 DEF Pairs, PairOwned
<1>5. PairControl'
  <2>1. \A d \in Calls : (Queued(d)' <=> Queued(d)) /\ (Batched(d)' <=> Batched(d))
    BY DEF Queued, Batched
  <2> QED BY <1>1, <2>1, ZenonT(40) DEF Pairs, PairControl
<1> QED BY <1>4, <1>5 DEF Pairs

(* Steps of a calling thread that leave its pair alone. *)
LEMMA PairsThread ==
  ASSUME Inv, Pairs, NEW c \in Calls, UNCHANGED <<refs, sock, cfd, state, peer, queue, batch>>,
         \A d \in Calls : d # c => pc'[d] = pc[d] /\ ret'[d] = ret[d],
         \/ ret'[c] = ret[c]
         \/ ret'[c] \in Results \ {"OK"} /\ pc[c] \in Untouched,
         pc'[c] \in Untouched => pc[c] \in Untouched,
         pc'[c] # "enqueue",
         pc'[c] \in Unanswered => pc[c] \in Unanswered /\ ret'[c] = ret[c]
  PROVE  Pairs'
<1>1. PairOwned'
  <2>1. cfd'[c] = "caller" => ret'[c] = "OK"
    BY DEF Pairs, PairOwned, PairControl
  <2>2. ret'[c] = "OK" => cfd'[c] \in {"caller", "closed"}
    BY DEF Pairs, PairOwned
  <2> QED BY <2>1, <2>2 DEF Pairs, PairOwned
<1>2. PairControl'
  <2>1. \A d \in Calls : (Queued(d)' <=> Queued(d)) /\ (Batched(d)' <=> Batched(d))
    BY DEF Queued, Batched
  <2>2. ASSUME NEW d \in Calls, d # c
        PROVE /\ pc'[d] \in Untouched => sock'[d] = "none" /\ cfd'[d] = "none"
              /\ Queued(d)' \/ Batched(d)' \/ pc'[d] = "enqueue" => sock'[d] = "command"
              /\ pc'[d] \in Unanswered => ret'[d] = "none"
    BY <2>1, <2>2 DEF Pairs, PairControl
  <2>3. /\ pc'[c] \in Untouched => sock'[c] = "none" /\ cfd'[c] = "none"
        /\ Queued(c)' \/ Batched(c)' \/ pc'[c] = "enqueue" => sock'[c] = "command"
        /\ pc'[c] \in Unanswered => ret'[c] = "none"
    BY <2>1 DEF Pairs, PairControl
  <2> QED BY <2>2, <2>3, Zenon DEF PairControl
<1> QED BY <1>1, <1>2 DEF Pairs

(* The command and its pair are allocated. *)
LEMMA PairsCreated ==
  ASSUME Inv, Pairs, NEW c \in Calls, pc[c] = "create",
         refs' = [refs EXCEPT ![c] = 1],
         sock' = [sock EXCEPT ![c] = "command"], cfd' = [cfd EXCEPT ![c] = "command"],
         pc' = [pc EXCEPT ![c] = "enqueue"], UNCHANGED <<ret, state, peer, queue, batch>>
  PROVE  Pairs'
<1>t. PairType /\ CommandType /\ CallerType /\ EnteredControl
  BY DEF Inv, TypeOK, OwnerControl
<1>1. /\ refs'[c] = 1 /\ sock'[c] = "command" /\ cfd'[c] = "command" /\ pc'[c] = "enqueue"
      /\ \A d \in Calls : d # c => /\ refs'[d] = refs[d] /\ sock'[d] = sock[d]
                                   /\ cfd'[d] = cfd[d] /\ pc'[d] = pc[d]
  BY <1>t DEF PairType, CommandType, CallerType
<1>2. sock[c] = "none" /\ cfd[c] = "none" /\ ret[c] = "none"
  BY DEF Pairs, PairControl, Untouched, Unanswered
<1>3. PairOwned'
  <2>1. \A d \in Calls : refs'[d] = 0 => sock'[d] # "command" /\ cfd'[d] # "command"
    BY <1>1 DEF Pairs, PairOwned
  <2>2. \A d \in Calls : sock'[d] = "slot" <=> sock[d] = "slot"
    BY <1>1, <1>2
  <2>3. \A d \in Calls : cfd'[d] = "caller" => ret'[d] = "OK"
    BY <1>1 DEF Pairs, PairOwned
  <2>4. \A d \in Calls : ret'[d] = "OK" => cfd'[d] \in {"caller", "closed"}
    BY <1>1, <1>2 DEF Pairs, PairOwned
  <2> QED BY <2>1, <2>2, <2>3, <2>4 DEF Pairs, PairOwned
<1>4. PairControl'
  <2>1. \A d \in Calls : (Queued(d)' <=> Queued(d)) /\ (Batched(d)' <=> Batched(d))
    BY DEF Queued, Batched
  <2> QED BY <1>1, <1>2, <2>1 DEF Pairs, PairControl, Untouched, Unanswered
<1> QED BY <1>3, <1>4 DEF Pairs

(* The wait ends, and the caller's end goes to a call that returns OK. *)
LEMMA PairsFinish ==
  ASSUME Inv, Pairs, NEW c \in Calls, pc[c] = "wait", NEW r \in Results, Finish(c, r),
         UNCHANGED <<refs, sock, state, peer, queue, batch>>
  PROVE  Pairs'
<1>t. PairType /\ CallerType /\ RefsExact /\ CommandType
  BY DEF Inv, TypeOK
<1>1. /\ ret'[c] = r /\ cfd'[c] = (IF r = "OK" THEN "caller" ELSE cfd[c])
      /\ pc'[c] \in {"release", "rewake"}
      /\ \A d \in Calls : d # c => cfd'[d] = cfd[d] /\ pc'[d] = pc[d] /\ ret'[d] = ret[d]
  BY <1>t DEF Finish, Return, PairType, CallerType
<1>2. ret[c] = "none" /\ refs[c] # 0
  BY <1>t, CountsPositive DEF Pairs, PairControl, Unanswered, CallerHolds, CommandType
<1>3. PairOwned'
  <2>1. \A d \in Calls : refs'[d] = 0 => sock'[d] # "command" /\ cfd'[d] # "command"
    BY <1>1, <1>2 DEF Pairs, PairOwned
  <2>2. \A d \in Calls : cfd'[d] = "caller" => ret'[d] = "OK"
    BY <1>1, <1>2 DEF Pairs, PairOwned
  <2>3. \A d \in Calls : ret'[d] = "OK" => cfd'[d] \in {"caller", "closed"}
    BY <1>1 DEF Pairs, PairOwned
  <2> QED BY <2>1, <2>2, <2>3 DEF Pairs, PairOwned
<1>4. PairControl'
  <2>1. \A d \in Calls : (Queued(d)' <=> Queued(d)) /\ (Batched(d)' <=> Batched(d))
    BY DEF Queued, Batched
  <2> QED BY <1>1, <2>1 DEF Pairs, PairControl, Untouched, Unanswered
<1> QED BY <1>3, <1>4 DEF Pairs

(* A free slot takes the relay's end of the command at the head of the list. *)
LEMMA PairsAdmitted ==
  ASSUME Inv, Pairs, NEW s \in Slots, Admit(s)
  PROVE  Pairs'
<1>t. PairType /\ SlotType /\ ListType /\ EnteredControl /\ RefsExact
  BY DEF Inv, TypeOK, OwnerControl
<1> DEFINE h == Head(batch)
<1>1. h \in Calls /\ Range(batch) = Range(Tail(batch)) \cup {h} /\ h \notin Range(Tail(batch))
  BY <1>t, TailElements, Zenon DEF Admit, ListType, RefsExact, OnePlace
<1>2. Batched(h) /\ ~Queued(h) /\ sock[h] = "command" /\ pc[h] \notin Untouched \cup {"enqueue"}
  <2>1. Batched(h)
    BY <1>1 DEF Batched
  <2> QED BY <1>1, <1>t, <2>1
       DEF Pairs, PairControl, RefsExact, OnePlace, EnteredControl, ServerHolds, Untouched
<1> HIDE DEF h
<1>3. /\ state[s] = "unused" /\ peer' = [peer EXCEPT ![s] = h] /\ sock' = [sock EXCEPT ![h] = "slot"]
      /\ state'[s] # "unused" /\ \A t \in Slots : t # s => state'[t] = state[t]
      /\ batch' = Tail(batch) /\ UNCHANGED <<pc, ret, refs, cfd, queue>>
  BY <1>t, Zenon DEF Admit, SlotType, commandVars, h
<1>4. /\ peer'[s] = h /\ peer[s] = NoCall /\ \A t \in Slots : t # s => peer'[t] = peer[t]
      /\ sock'[h] = "slot" /\ \A d \in Calls : d # h => sock'[d] = sock[d]
      /\ \A t \in Slots : peer[t] # h
  BY <1>t, <1>1, <1>2, <1>3 DEF SlotType, PairType, Pairs, PairOwned
<1>5. PairOwned'
  <2>1. \A d \in Calls : refs'[d] = 0 => sock'[d] # "command" /\ cfd'[d] # "command"
    BY <1>1, <1>3, <1>4 DEF Pairs, PairOwned
  <2>2. \A t, u \in Slots : state'[t] # "unused" /\ peer'[t] = peer'[u] => t = u
    BY <1>3, <1>4 DEF Pairs, PairOwned
  <2>3. \A t \in Slots : state'[t] # "unused" <=> peer'[t] # NoCall
    BY <1>1, <1>3, <1>4, CallsAssumption DEF Pairs, PairOwned
  <2>4. \A d \in Calls : sock'[d] = "slot" <=> \E t \in Slots : peer'[t] = d
    BY <1>1, <1>3, <1>4, CallsAssumption DEF Pairs, PairOwned
  <2> QED BY <1>3, <2>1, <2>2, <2>3, <2>4, Zenon DEF Pairs, PairOwned
<1>6. PairControl'
  <2>1. \A d \in Calls : Queued(d)' \/ Batched(d)' => d # h /\ (Queued(d) \/ Batched(d))
    BY <1>1, <1>2, <1>3 DEF Queued, Batched, h
  <2> QED BY <1>2, <1>3, <1>4, <2>1 DEF Pairs, PairControl
<1> QED BY <1>5, <1>6 DEF Pairs

(* The server's reference is dropped, and with it the slot being closed. *)
LEMMA PairsDropped ==
  ASSUME Inv, Pairs, Drop
  PROVE  Pairs'
<1>t. PairType /\ CommandType /\ OwnerType /\ RefsExact /\ EnteredControl /\ CompletionControl
  BY DEF Inv, TypeOK, OwnerControl
<1>1. ocmd \in Calls /\ refs[ocmd] >= 1
  BY CountsPositive, Zenon DEF Drop
<1>2. /\ ~Queued(ocmd) /\ ~Batched(ocmd)
      /\ pc[ocmd] \notin Untouched \cup {"enqueue"}
  BY <1>t, <1>1 DEF RefsExact, OnePlace, Completing, EnteredControl, ServerHolds, Untouched
<1>3. UNCHANGED <<pc, ret, queue, batch>> /\ Release(ocmd)
  BY DEF Drop
<1>4. CASE oslot = 0
  <2>1. sock' = SockAfterRelease(ocmd) /\ UNCHANGED <<state, peer>>
    BY <1>4 DEF Drop
  <2>2. pc'[ocmd] \in Unanswered => ret'[ocmd] = "none"
    BY <1>1, <1>3 DEF Pairs, PairControl
  <2> QED BY <1>1, <1>2, <1>3, <2>1, <2>2, PairsReleased, Zenon
<1>5. CASE oslot # 0
  <2>1. oslot \in Slots /\ state[oslot] # "unused" /\ peer[oslot] = ocmd
    BY <1>t, <1>5 DEF Drop, OwnerType, CompletionControl
  <2>2. sock[ocmd] = "slot"
    BY <1>1, <2>1 DEF Pairs, PairOwned
  <2>3. sock' = [sock EXCEPT ![ocmd] = "closed"] /\ FreeSlot(oslot)
    BY <1>5, <2>1, <2>2 DEF Drop, SockAfterRelease
  <2>4. /\ sock'[ocmd] = "closed" /\ \A d \in Calls : d # ocmd => sock'[d] = sock[d]
    BY <1>t, <1>1, <2>3 DEF PairType
  <2>5. /\ state'[oslot] = "unused" /\ peer'[oslot] = NoCall
        /\ \A t \in Slots : t # oslot => state'[t] = state[t] /\ peer'[t] = peer[t]
    BY <2>1, <2>3 DEF Inv, TypeOK, FreeSlot, SlotType
  <2>6. /\ refs[ocmd] \in Nat /\ refs'[ocmd] = refs[ocmd] - 1
        /\ cfd'[ocmd] = (IF refs[ocmd] = 1 /\ cfd[ocmd] = "command" THEN "closed" ELSE cfd[ocmd])
        /\ \A d \in Calls : d # ocmd => refs'[d] = refs[d] /\ cfd'[d] = cfd[d]
    BY <1>t, <1>1, <1>3 DEF Release, PairType, CommandType
  <2>7. PairOwned'
    <3>1. \A d \in Calls : refs'[d] = 0 => sock'[d] # "command" /\ cfd'[d] # "command"
      BY <2>4, <2>6 DEF Pairs, PairOwned
    <3>2. \A t, u \in Slots : state'[t] # "unused" /\ peer'[t] = peer'[u] => t = u
      BY <2>5 DEF Pairs, PairOwned
    <3>3. \A t \in Slots : state'[t] # "unused" <=> peer'[t] # NoCall
      BY <2>5 DEF Pairs, PairOwned
    <3>4. \A d \in Calls : sock'[d] = "slot" <=> \E t \in Slots : peer'[t] = d
      BY <2>1, <2>4, <2>5, CallsAssumption DEF Pairs, PairOwned
    <3>5. \A d \in Calls : cfd'[d] = "caller" => ret'[d] = "OK"
      BY <1>3, <2>6 DEF Pairs, PairOwned
    <3>6. \A d \in Calls : ret'[d] = "OK" => cfd'[d] \in {"caller", "closed"}
      BY <1>3, <2>6 DEF Pairs, PairOwned
    <3> QED BY <3>1, <3>2, <3>3, <3>4, <3>5, <3>6, Zenon DEF PairOwned
  <2>8. PairControl'
    <3>1. \A d \in Calls : (Queued(d)' <=> Queued(d)) /\ (Batched(d)' <=> Batched(d))
      BY <1>3 DEF Queued, Batched
    <3> QED BY <1>2, <1>3, <2>4, <2>6, <3>1 DEF Pairs, PairControl
  <2> QED BY <2>7, <2>8 DEF Pairs
<1> QED BY <1>4, <1>5

(* Owner and environment steps that leave pairs, slots in use and lists alone. *)
Passing ==
  \/ ProcessEnd \/ ExpireEnd \/ RunReturn \/ DestroyEnd \/ RunStart \/ LoopFailure \/ Stop \/ Destroy
  \/ \E traffic \in BOOLEAN : LoopStep(traffic)

(* The other owner steps, by what they do to the two lists and the slots. *)
Listing == LoopTop \/ DispatchEnd \/ Reject \/ Refuse \/ RejectOne

(* The steps of the owner and of its environment, by what they touch. *)
LEMMA OwnerSteps ==
  ASSUME Owner \/ Environment
  PROVE  Passing \/ Listing \/ Closing \/ Complete \/ Drop \/ \E s \in Slots : Admit(s)
BY Zenon DEF Owner, Environment, Passing, Listing, Closing

(* No command comes back on a list it left. *)
LEMMA ListingEffect ==
  ASSUME Inv, Listing
  PROVE  /\ UNCHANGED <<pc, ret, commandVars, pairVars, slotVars, flagVars, failed>>
         /\ \A c \in Calls : Queued(c)' \/ Batched(c)' => Queued(c) \/ Batched(c)
<1>1. UNCHANGED <<pc, ret, commandVars, pairVars, slotVars, flagVars, failed>>
  BY Zenon DEF Listing, LoopTop, DispatchEnd, Reject, Refuse, RejectOne
<1>2. CASE Detach
  BY <1>1, <1>2, EmptyElements DEF Detach, Queued, Batched
<1>3. CASE batch # <<>> /\ batch' = Tail(batch) /\ queue' = queue
  <2>1. Range(batch) = Range(Tail(batch)) \cup {Head(batch)}
    BY <1>3, TailElements DEF Inv, TypeOK, ListType
  <2> QED BY <1>1, <1>3, <2>1 DEF Queued, Batched
<1>4. CASE UNCHANGED <<queue, batch>>
  BY <1>1, <1>4 DEF Queued, Batched
<1>5. Detach \/ (batch # <<>> /\ batch' = Tail(batch) /\ queue' = queue) \/ UNCHANGED <<queue, batch>>
  BY Zenon DEF Listing, LoopTop, DispatchEnd, Reject, Refuse, RejectOne
<1> QED BY <1>2, <1>3, <1>4, <1>5

(* They only move the owner. *)
LEMMA PassingEffect ==
  ASSUME Passing
  PROVE  UNCHANGED <<pc, ret, commandVars, pairVars, slotVars, queue, batch, ocmd, oslot, kont>>
BY Zenon DEF Passing, ProcessEnd, ExpireEnd, RunReturn, DestroyEnd, RunStart, LoopFailure, Stop,
             Destroy, LoopStep, ownerVars

(* The owner keeps the ends where the slots say. *)
LEMMA PairsOwner ==
  ASSUME Inv, Pairs, Owner \/ Environment
  PROVE  Pairs'
<1>k. ASSUME UNCHANGED <<state, peer, sock>> PROVE SlotsKept
  BY <1>k, Zenon DEF SlotsKept
<1>l. ASSUME UNCHANGED <<queue, batch>>
      PROVE \A c \in Calls : Queued(c)' \/ Batched(c)' => Queued(c) \/ Batched(c)
  BY <1>l, Zenon DEF Queued, Batched
<1>1. CASE Passing
  BY <1>k, <1>l, <1>1, PassingEffect, PairsFrame, Zenon DEF commandVars, pairVars, slotVars
<1>2. CASE Listing
  BY <1>k, <1>2, ListingEffect, PairsFrame, Zenon DEF commandVars, pairVars, slotVars
<1>3. CASE Closing
  BY <1>l, <1>3, ClosingEffect, PairsFrame, PairsFreed, Zenon
<1>4. CASE Complete
  <2>1. UNCHANGED <<pc, ret, refs, pairVars, queue, batch, slotVars>>
    BY <1>4, Zenon DEF Complete
  <2> QED BY <1>k, <1>l, <2>1, PairsFrame, Zenon DEF pairVars, slotVars
<1>5. CASE Drop
  BY <1>5, PairsDropped, Zenon
<1>6. ASSUME NEW s \in Slots, Admit(s) PROVE Pairs'
  BY <1>6, PairsAdmitted, Zenon
<1> QED BY <1>1, <1>2, <1>3, <1>4, <1>5, <1>6, OwnerSteps, Zenon

(* And so does a calling thread. *)
LEMMA PairsCaller ==
  ASSUME Inv, Pairs, NEW c \in Calls, Caller(c)
  PROVE  Pairs'
<1> USE DEF commandVars, pairVars, slotVars
<1>t. CallerType /\ CommandType /\ PairType /\ ListType /\ EnteredControl
  BY DEF Inv, TypeOK, OwnerControl
<1>1. CASE Bind(c) \/ Wake(c) \/ Rewake(c) \/ ConnectorRelease(c)
  <2>1. /\ UNCHANGED <<ret, refs, sock, cfd, state, peer, queue, batch>>
        /\ \A d \in Calls : d # c => pc'[d] = pc[d]
    BY <1>t, <1>1, Zenon DEF Bind, Wake, Rewake, ConnectorRelease, CallerType
  <2>2. \/ pc[c] = "unbound" /\ pc'[c] \in {"bound", "gone"}
        \/ pc[c] = "wake" /\ pc'[c] = "wait"
        \/ pc'[c] \in {"release", "gone"}
    BY <1>t, <1>1 DEF Bind, Wake, Rewake, ConnectorRelease, CallerType
  <2>3. /\ pc'[c] \in Untouched => pc[c] \in Untouched
        /\ pc'[c] # "enqueue"
        /\ pc'[c] \in Unanswered => pc[c] \in Unanswered
    BY <2>2 DEF Untouched, Unanswered
  <2> QED BY <2>1, <2>3, PairsThread, Zenon
<1>2. CASE OpenCheck(c)
  <2>1. /\ UNCHANGED <<refs, sock, cfd, state, peer, queue, batch>> /\ pc[c] = "bound"
        /\ \A d \in Calls : d # c => pc'[d] = pc[d] /\ ret'[d] = ret[d]
        /\ \/ ret'[c] = "STATE" /\ pc'[c] = "done"
           \/ ret'[c] = ret[c] /\ pc'[c] = "create"
    BY <1>t, <1>2, Zenon DEF OpenCheck, Return, CallerType
  <2>2. /\ \/ ret'[c] = ret[c]
           \/ ret'[c] \in Results \ {"OK"} /\ pc[c] \in Untouched
        /\ pc'[c] \in Untouched => pc[c] \in Untouched
        /\ pc'[c] # "enqueue"
        /\ pc'[c] \in Unanswered => pc[c] \in Unanswered /\ ret'[c] = ret[c]
    BY <2>1 DEF Untouched, Unanswered, Results
  <2> QED BY <2>1, <2>2, PairsThread, Zenon
<1>3. CASE Create(c)
  <2>1. CASE /\ refs' = [refs EXCEPT ![c] = 1]
             /\ sock' = [sock EXCEPT ![c] = "command"] /\ cfd' = [cfd EXCEPT ![c] = "command"]
             /\ pc' = [pc EXCEPT ![c] = "enqueue"] /\ UNCHANGED ret
    BY <1>3, <2>1, PairsCreated, Zenon DEF Create
  <2>2. CASE /\ \E r \in Failures \ {"DENIED"} : Return(c, r)
             /\ pc' = [pc EXCEPT ![c] = "done"] /\ UNCHANGED <<refs, pairVars>>
    <3>1. /\ UNCHANGED <<refs, sock, cfd, state, peer, queue, batch>> /\ pc[c] = "create"
      BY <1>3, <2>2, Zenon DEF Create
    <3>2. /\ \A d \in Calls : d # c => pc'[d] = pc[d] /\ ret'[d] = ret[d]
          /\ ret'[c] \in Failures /\ pc'[c] = "done"
      BY <1>t, <2>2 DEF Return, CallerType
    <3>3. /\ ret'[c] \in Results \ {"OK"} /\ pc[c] \in Untouched
          /\ pc'[c] \notin Untouched /\ pc'[c] \notin Unanswered /\ pc'[c] # "enqueue"
      BY <3>1, <3>2, FailuresAssumption, Zenon DEF Untouched, Unanswered, Results
    <3> QED BY <3>1, <3>2, <3>3, PairsThread, Zenon
  <2> QED BY <1>3, <2>1, <2>2, Zenon DEF Create
<1>4. CASE Enqueue(c) \/ CallerRelease(c)
  <2>1. CASE Release(c) /\ sock' = SockAfterRelease(c) /\ pc' = [pc EXCEPT ![c] = "done"]
    <3>1. /\ UNCHANGED <<state, peer, queue, batch>> /\ pc[c] \in {"enqueue", "release"}
          /\ \A d \in Calls : d # c => pc'[d] = pc[d] /\ ret'[d] = ret[d]
          /\ pc'[c] = "done"
          /\ ret'[c] = ret[c] \/ (pc[c] = "enqueue" /\ ret'[c] = "CANCELLED")
          /\ pc[c] = "enqueue" => ret'[c] = "CANCELLED"
      BY <1>t, <1>4, <2>1, Zenon DEF Enqueue, CallerRelease, Return, CallerType
    <3>2. refs[c] >= 1
      BY <3>1, CountsPositive, Zenon DEF CallerHolds
    <3>3. pc'[c] \notin Untouched \cup {"enqueue"} /\ pc'[c] \notin Unanswered
      BY <3>1, Zenon DEF Untouched, Unanswered
    <3>4. ret'[c] = "OK" <=> ret[c] = "OK"
      BY <3>1, Zenon DEF Pairs, PairControl, Unanswered
    <3>5. CASE ~Queued(c) /\ ~Batched(c)
      BY <2>1, <3>1, <3>2, <3>3, <3>4, <3>5, PairsReleased, Zenon
    <3>6. CASE Queued(c) \/ Batched(c)
      <4>1. ServerHolds(c) /\ pc[c] = "release"
        BY <1>t, <3>1, <3>6, Zenon DEF EnteredControl, ServerHolds
      <4>2. refs[c] = 2
        BY <4>1 DEF Inv, RefsExact, CallerHolds
      <4>3. sock' = sock /\ cfd' = cfd
        BY <2>1, <4>2 DEF Release, SockAfterRelease
      <4>4. /\ refs'[c] = 1 /\ \A d \in Calls : d # c => refs'[d] = refs[d]
        BY <1>t, <2>1, <4>2 DEF Release, CommandType
      <4>5. PairOwned'
        <5>1. \A d \in Calls : refs'[d] = 0 => refs[d] = 0
          BY <4>4
        <5>2. \A d \in Calls : ret'[d] = ret[d]
          BY <3>1, <4>1, Zenon
        <5>3. \A d \in Calls : refs'[d] = 0 => sock'[d] # "command" /\ cfd'[d] # "command"
          BY <4>3, <5>1, ZenonT(60) DEF Pairs, PairOwned
        <5>4. \A s, t \in Slots : state'[s] # "unused" /\ peer'[s] = peer'[t] => s = t
          BY <3>1, ZenonT(60) DEF Pairs, PairOwned
        <5>5. /\ \A s \in Slots : state'[s] # "unused" <=> peer'[s] # NoCall
              /\ \A d \in Calls : sock'[d] = "slot" <=> \E s \in Slots : peer'[s] = d
          <6>1. state' = state /\ peer' = peer /\ sock' = sock BY <3>1, <4>3, Zenon
          <6>2. /\ \A s \in Slots : state[s] # "unused" <=> peer[s] # NoCall
                /\ \A d \in Calls : sock[d] = "slot" <=> \E s \in Slots : peer[s] = d
            BY ZenonT(60) DEF Pairs, PairOwned
          <6> QED BY <6>1, <6>2, SMT
        <5>6. /\ \A d \in Calls : cfd'[d] = "caller" => ret'[d] = "OK"
              /\ \A d \in Calls : ret'[d] = "OK" => cfd'[d] \in {"caller", "closed"}
          BY <4>3, <5>2, ZenonT(60) DEF Pairs, PairOwned
        <5> QED BY <5>3, <5>4, <5>5, <5>6, ZenonT(60) DEF PairOwned
      <4>6. PairControl'
        <5>1. \A d \in Calls : (Queued(d)' <=> Queued(d)) /\ (Batched(d)' <=> Batched(d))
          BY <3>1, Zenon DEF Queued, Batched
        <5> QED BY <3>1, <3>3, <4>3, <5>1, ZenonT(60) DEF Pairs, PairControl
      <4> QED BY <4>5, <4>6, Zenon DEF Pairs
    <3> QED BY <3>5, <3>6
  <2>2. CASE /\ pc[c] = "enqueue" /\ refs' = [refs EXCEPT ![c] = @ + 1]
             /\ queue' = Append(queue, c)
             /\ pc' = [pc EXCEPT ![c] = "wake"]
             /\ UNCHANGED <<ret, pairVars, batch, slotVars>>
    <3>1. /\ refs'[c] = refs[c] + 1 /\ refs[c] \in Nat /\ pc'[c] = "wake"
          /\ \A d \in Calls : d # c => refs'[d] = refs[d] /\ pc'[d] = pc[d]
      BY <1>t, <2>2 DEF CommandType, CallerType
    <3>2. Range(queue') = Range(queue) \cup {c}
      BY <1>t, <2>2, AppendElements DEF ListType
    <3>3. PairOwned'
      <4>1. \A d \in Calls : refs'[d] = 0 => refs[d] = 0
        BY <3>1
      <4> QED BY <2>2, <4>1 DEF Pairs, PairOwned
    <3>4. PairControl'
      <4>1. \A d \in Calls : (Queued(d)' => Queued(d) \/ d = c) /\ (Batched(d)' <=> Batched(d))
        BY <2>2, <3>2 DEF Queued, Batched
      <4> QED BY <2>2, <3>1, <4>1 DEF Pairs, PairControl, Untouched, Unanswered
    <3> QED BY <3>3, <3>4 DEF Pairs
  <2> QED BY <1>4, <2>1, <2>2, Zenon DEF Enqueue, CallerRelease
<1>5. CASE WaitDone(c) \/ WaitTimeout(c)
  <2>1. pc[c] = "wait" /\ UNCHANGED <<refs, sock, state, peer, queue, batch>>
    BY <1>5, Zenon DEF WaitDone, WaitTimeout
  <2>2. \E r \in Results : Finish(c, r)
    <3>1. CASE WaitDone(c)
      BY <1>t, <3>1, Zenon DEF WaitDone, CommandType
    <3>2. CASE WaitTimeout(c)
      <4>1. PICK r \in {"TIMEOUT"} \cup (Failures \cap {"IO"}) :
                   Finish(c, IF completed[c] THEN cresult[c] ELSE r)
        BY <3>2, Zenon DEF WaitTimeout
      <4>2. (IF completed[c] THEN cresult[c] ELSE r) \in Results
        BY <1>t DEF CommandType, Results
      <4> QED BY <4>1, <4>2, Zenon
    <3> QED BY <1>5, <3>1, <3>2
  <2> QED BY <2>1, <2>2, PairsFinish, Zenon
<1>6. CASE SessionRelease(c)
  <2>1. /\ UNCHANGED <<pc, ret, refs, sock, queue, batch, state, peer>>
        /\ pc[c] \notin Untouched /\ cfd[c] = "caller"
        /\ cfd'[c] = "closed" /\ \A d \in Calls : d # c => cfd'[d] = cfd[d]
    BY <1>t, <1>6, Zenon DEF SessionRelease, PairType, Untouched
  <2>2. PairOwned'
    BY <2>1 DEF Pairs, PairOwned
  <2>3. PairControl'
    BY <2>1 DEF Pairs, PairControl, Queued, Batched
  <2> QED BY <2>2, <2>3 DEF Pairs
<1> QED BY <1>1, <1>2, <1>3, <1>4, <1>5, <1>6, Zenon DEF Caller

(* PairOwned, with what it needs, is kept by every step. *)
LEMMA PairsStep == Inv /\ Pairs /\ [Next]_vars => Pairs'
<1> SUFFICES ASSUME Inv, Pairs, [Next]_vars PROVE Pairs'
  BY Zenon
<1>1. CASE UNCHANGED vars
  <2>1. UNCHANGED <<pc, ret, refs, sock, cfd, queue, batch, state, peer>>
    BY <1>1 DEF vars, commandVars, pairVars, slotVars
  <2> QED BY <2>1 DEF Pairs, PairOwned, PairControl, Queued, Batched
<1> QED BY <1>1, PairsOwner, PairsCaller, Zenon DEF Next

-----------------------------------------------------------------------------
(* The answers.  The server takes up a command only by Enqueue, and lets go   *)
(* of it only where it drops its reference.                                   *)
LEMMA HoldsStep ==
  ASSUME Inv, [Next]_vars, NEW c \in Calls
  PROVE  /\ ServerHolds(c)' => ServerHolds(c) \/ pc'[c] = "wake"
         /\ ServerHolds(c) => ServerHolds(c)' \/ (opc = "drop" /\ c = ocmd)
         /\ pc'[c] = "wake" => ServerHolds(c)' \/ pc[c] = "wake"
<1>t. CallerType /\ ListType /\ RefsExact /\ RefsExact'
  BY RefsStep DEF Inv, TypeOK
<1>1. ASSUME pc' = pc, refs' = refs PROVE ServerHolds(c)' <=> ServerHolds(c)
  <2>1. CallerHolds(c)' <=> CallerHolds(c)
    BY <1>1 DEF CallerHolds
  <2> QED BY <1>1, <1>t, <2>1 DEF RefsExact
<1>2. ASSUME NEW d \in Calls, Caller(d)
      PROVE  /\ ServerHolds(c)' => ServerHolds(c) \/ pc'[c] = "wake"
             /\ ServerHolds(c) => ServerHolds(c)'
             /\ pc'[c] = "wake" => ServerHolds(c)' \/ pc[c] = "wake"
  <2>1. UNCHANGED <<batch, opencmd, ocmd>>
    BY <1>2, CallerLeavesOwner, Zenon DEF slotVars, ownerVars
  <2>2. CASE queue' = Append(queue, d) /\ pc' = [pc EXCEPT ![d] = "wake"]
    <3>1. Range(queue') = Range(queue) \cup {d}
      BY <1>t, <2>2, AppendElements DEF ListType
    <3>2. pc'[d] = "wake" /\ (d # c => pc'[c] = pc[c])
      BY <1>t, <2>2 DEF CallerType
    <3> QED BY <2>1, <3>1, <3>2, Zenon DEF ServerHolds, Queued, Batched, Opening, Completing
  <2>3. CASE queue' = queue /\ ~Enqueue(d)
    <3>1. pc'[c] = "wake" => pc[c] = "wake"
      BY <1>t, <1>2, <2>3, Zenon DEF Caller, Bind, OpenCheck, Create, Wake, WaitDone, WaitTimeout,
           Rewake, Finish, CallerRelease, SessionRelease, ConnectorRelease, CallerType
    <3> QED BY <2>1, <2>3, <3>1, ZenonT(40) DEF ServerHolds, Queued, Batched, Opening, Completing
  <2>4. CASE queue' = queue /\ pc' = [pc EXCEPT ![d] = "done"]
    <3>1. pc'[c] = "wake" => pc[c] = "wake"
      BY <1>t, <2>4, Zenon DEF CallerType
    <3> QED BY <2>1, <2>4, <3>1 DEF ServerHolds, Queued, Batched, Opening, Completing
  <2> QED BY <1>2, <2>2, <2>3, <2>4, Zenon
       DEF Caller, Bind, OpenCheck, Create, Enqueue, Wake, WaitDone, WaitTimeout, Rewake,
           CallerRelease, SessionRelease, ConnectorRelease
<1>3. CASE Drop
  <2>1. pc' = pc /\ UNCHANGED <<queue, batch, opencmd>> /\ ocmd' = NoCall /\ opc = "drop"
    BY <1>3, Zenon DEF Drop
  <2> QED BY <2>1, CallsAssumption DEF ServerHolds, Queued, Batched, Opening, Completing
<1>4. CASE (Owner \/ Environment) /\ ~Drop
  <2>1. pc' = pc /\ refs' = refs
    BY <1>4, Zenon DEF Owner, Environment, LoopTop, Refuse, Admit, ProcessEnd, Connected, Complete,
       CancelScan, LoopStep, DispatchEnd, ExpireEnd, Reject, RejectOne, CloseAll, RunReturn,
       DestroyEnd, RunStart, LoopFailure, Stop, Destroy, DispatchConnect, DispatchRelayEnd, Expire,
       commandVars
  <2> QED BY <1>1, <2>1
<1>5. CASE UNCHANGED vars
  BY <1>1, <1>5, Zenon DEF vars, commandVars
<1> QED BY <1>2, <1>3, <1>4, <1>5, Zenon DEF Next

(* A relay end that a slot took stays with it until it is closed. *)
LEMMA CallerKeepsSock ==
  ASSUME Inv, Pairs, NEW c \in Calls, Caller(c), NEW d \in Calls, sock[d] \in {"slot", "closed"}
  PROVE  sock'[d] = sock[d]
<1>t. PairType
  BY DEF Inv, TypeOK
<1>1. \/ sock' = sock \/ sock' = SockAfterRelease(c)
      \/ pc[c] = "create" /\ sock' = [sock EXCEPT ![c] = "command"]
  BY Zenon DEF Caller, Bind, OpenCheck, Create, Enqueue, Wake, WaitDone, WaitTimeout, Rewake,
               CallerRelease, SessionRelease, ConnectorRelease, pairVars
<1>2. pc[c] = "create" => sock[c] = "none"
  BY DEF Pairs, PairControl, Untouched
<1> QED BY <1>t, <1>1, <1>2 DEF SockAfterRelease, PairType

(* An end the owner took never comes back. *)
LEMMA SockStep ==
  ASSUME Inv, Pairs, [Next]_vars, NEW d \in Calls, sock[d] \in {"slot", "closed"}
  PROVE  sock'[d] \in {"slot", "closed"}
<1>t. PairType /\ SlotType
  BY DEF Inv, TypeOK
<1>1. CASE Passing \/ Listing \/ Complete
  BY <1>1, PassingEffect, ListingEffect, Zenon DEF Complete, pairVars
<1>2. CASE Closing
  <2>1. sock' = sock \/ \E e : sock' = [sock EXCEPT ![e] = "closed"]
    BY <1>2, ClosingEffect, Zenon DEF SlotsKept, Freed
  <2> QED BY <1>t, <2>1 DEF PairType
<1>3. CASE Drop
  <2>1. \/ sock' = SockAfterRelease(ocmd)
        \/ sock' = [SockAfterRelease(ocmd) EXCEPT ![peer[oslot]] = "closed"]
    BY <1>3, Zenon DEF Drop
  <2> QED BY <1>t, <2>1 DEF SockAfterRelease, PairType
<1>4. ASSUME NEW s \in Slots, Admit(s) PROVE sock'[d] \in {"slot", "closed"}
  BY <1>t, <1>4 DEF Admit, PairType
<1>5. CASE UNCHANGED vars
  BY <1>5 DEF vars, pairVars
<1> QED BY <1>1, <1>2, <1>3, <1>4, <1>5, OwnerSteps, CallerKeepsSock, Zenon DEF Next

(* A command completed with OK had a slot; a command abandoned by its caller  *)
(* before the server completed it is marked cancelled, so the late completion *)
(* cannot be OK.                                                              *)
Answered == {"rewake", "release", "done", "gone"}
AnswerControl ==
  \A c \in Calls :
    /\ pc[c] \in Untouched \cup {"enqueue"} => ~completed[c]
    /\ completed[c] /\ cresult[c] = "OK" => sock[c] \in {"slot", "closed"}
    /\ pc[c] \in Answered /\ ServerHolds(c) /\ ~completed[c] => cancelled[c]
    /\ opc = "complete" /\ ores = "OK" /\ ocmd = c => sock[c] = "slot"
Answers == Agreement /\ AnswerControl

(* A step that completes no command and moves no thread. *)
LEMMA AnswersFrame ==
  ASSUME Inv, Pairs, Answers, [Next]_vars, UNCHANGED <<pc, ret, cancelled, completed, cresult>>,
         \A c \in Calls : opc' = "complete" /\ ores' = "OK" /\ ocmd' = c => sock'[c] = "slot"
  PROVE  Answers'
<1>1. \A c \in Calls : sock[c] \in {"slot", "closed"} => sock'[c] \in {"slot", "closed"}
  BY SockStep, Zenon
<1>2. \A c \in Calls : pc'[c] \in Answered /\ ServerHolds(c)' => ServerHolds(c)
  BY HoldsStep DEF Answered
<1>3. Agreement'
  BY <1>1, Zenon DEF Answers, Agreement
<1>4. AnswerControl'
  BY <1>1, <1>2, Zenon DEF Answers, AnswerControl
<1> QED BY <1>3, <1>4 DEF Answers

(* egress_open_command_complete: a late OK becomes CANCELLED. *)
LEMMA AnswersComplete ==
  ASSUME Inv, Pairs, Answers, Complete
  PROVE  Answers'
<1>t. CommandType /\ EnteredControl /\ OwnerType
  BY Zenon DEF Inv, TypeOK, OwnerControl
<1>1. ocmd \in Calls
  BY CountsPositive, ZenonT(40) DEF Complete
<1>2. /\ UNCHANGED <<pc, ret, cancelled, sock>> /\ opc = "complete" /\ opc' = "drop"
      /\ \A c \in Calls : ServerHolds(c)' <=> ServerHolds(c)
  BY Zenon DEF Complete, pairVars, slotVars, ServerHolds, Queued, Batched, Opening, Completing
<1>3. ServerHolds(ocmd)
  BY DEF ServerHolds, Completing
<1>4. CASE completed[ocmd]
  <2>1. UNCHANGED <<completed, cresult>>
    BY <1>4, Zenon DEF Complete
  <2>2. Agreement'
    BY <1>2, <2>1, ZenonT(60) DEF Answers, Agreement
  <2>3. AnswerControl'
    BY <1>2, <2>1 DEF Answers, AnswerControl
  <2> QED BY <2>2, <2>3 DEF Answers
<1>5. CASE ~completed[ocmd]
  <2>1. /\ completed'[ocmd] /\ cresult'[ocmd] = IF cancelled[ocmd] /\ ores = "OK" THEN "CANCELLED" ELSE ores
        /\ \A c \in Calls : c # ocmd => completed'[c] = completed[c] /\ cresult'[c] = cresult[c]
    BY <1>t, <1>1, <1>5 DEF Complete, CommandType
  <2>2. cresult'[ocmd] = "OK" => ores = "OK" /\ ~cancelled[ocmd]
    BY <2>1
  <2>3. /\ ret[ocmd] # "OK"
        /\ cresult'[ocmd] = "OK" => sock[ocmd] = "slot" /\ pc[ocmd] \notin Answered
        /\ pc[ocmd] \notin Untouched \cup {"enqueue"}
    <3>1. ret[ocmd] # "OK"
      BY <1>1, <1>5, Zenon DEF Answers, Agreement
    <3>2. cresult'[ocmd] = "OK" => sock[ocmd] = "slot"
      BY <1>1, <1>2, <2>2 DEF Answers, AnswerControl
    <3>3. cresult'[ocmd] = "OK" => pc[ocmd] \notin Answered
      BY <1>1, <1>3, <1>5, <2>2, Zenon DEF Answers, AnswerControl
    <3>4. pc[ocmd] \notin Untouched \cup {"enqueue"}
      BY <1>t, <1>1, <1>3, Zenon DEF EnteredControl, Untouched
    <3> QED BY <3>1, <3>2, <3>3, <3>4
  <2>4. Agreement'
    <3>1. ASSUME NEW c \in Calls
          PROVE /\ ret'[c] = "OK" =>
                     completed'[c] /\ cresult'[c] = "OK" /\ sock'[c] \in {"slot", "closed"}
                /\ completed'[c] /\ cresult'[c] = "OK" /\ pc'[c] \in Answered => ret'[c] = "OK"
      <4>1. CASE c = ocmd
        BY <1>2, <2>3, <4>1, Zenon
      <4>2. CASE c # ocmd
        BY <1>2, <2>1, <4>2 DEF Answers, Agreement, Answered
      <4> QED BY <4>1, <4>2, Zenon
    <3> QED BY <3>1 DEF Agreement, Answered
  <2>5. AnswerControl'
    <3>1. ASSUME NEW c \in Calls, c # ocmd
          PROVE /\ pc'[c] \in Untouched \cup {"enqueue"} => ~completed'[c]
                /\ completed'[c] /\ cresult'[c] = "OK" => sock'[c] \in {"slot", "closed"}
                /\ pc'[c] \in Answered /\ ServerHolds(c)' /\ ~completed'[c] => cancelled'[c]
      BY <1>2, <2>1, <3>1, Zenon DEF Answers, AnswerControl
    <3>2. /\ pc'[ocmd] \notin Untouched \cup {"enqueue"} /\ completed'[ocmd]
          /\ cresult'[ocmd] = "OK" => sock'[ocmd] \in {"slot", "closed"}
      BY <1>2, <2>1, <2>3
    <3>3. opc' # "complete"
      BY <1>2
    <3> QED BY <3>1, <3>2, <3>3, Zenon DEF AnswerControl
  <2> QED BY <2>4, <2>5 DEF Answers
<1> QED BY <1>4, <1>5

(* Closing a connection completes its command with a failure. *)
LEMMA CloseFails ==
  ASSUME NEW s, NEW r, NEW k, StartClose(s, r, k), k # "complete"
  PROVE  ~(opc' = "complete" /\ ores' = "OK")
<1>1. CASE opencmd[s] # NoCall
  <2>1. ores' = IF r = "OK" THEN "IO" ELSE r
    BY <1>1, Zenon DEF StartClose, StartComplete
  <2> QED BY <2>1
<1>2. CASE opencmd[s] = NoCall
  BY <1>2, Zenon DEF StartClose
<1> QED BY <1>1, <1>2

(* Only egress_connection_connected completes with OK, and its slot holds the *)
(* relay's end.                                                               *)
LEMMA CompletesOK ==
  ASSUME Inv, Pairs, Answers, Owner \/ Environment, ~Complete, NEW c \in Calls,
         opc' = "complete", ores' = "OK", ocmd' = c
  PROVE  sock'[c] = "slot"
<1>t. OwnerType /\ SlotType /\ CompletionControl /\ SlotControl
  BY DEF Inv, TypeOK, OwnerControl
<1>1. CASE Passing
  <2>1. UNCHANGED <<opc, ores, ocmd, sock>>
    BY <1>1 DEF Passing, ProcessEnd, ExpireEnd, RunReturn, DestroyEnd, RunStart, LoopFailure, Stop,
             Destroy, LoopStep, ownerVars, pairVars
  <2> QED BY <2>1, ZenonT(60) DEF Answers, AnswerControl
<1>2. CASE Listing
  BY <1>2, Zenon DEF Listing, LoopTop, DispatchEnd, Reject, Refuse, RejectOne, StartComplete
<1>3. CASE Drop
  BY <1>t, <1>3, Zenon DEF Drop, CompletionControl, Working
<1>4. ASSUME NEW s \in Slots, Admit(s) PROVE FALSE
  <2>1. opc = "process" /\ (opc' = opc \/ opc' = "connected" \/ ores' \in Failures)
    BY <1>4, Zenon DEF Admit, StartComplete
  <2> QED BY <2>1, FailuresAssumption
<1>5. CASE Connected
  <2>1. oslot \in Slots /\ opencmd[oslot] # NoCall /\ kont # "complete"
    BY <1>t, <1>5, Zenon DEF Connected, CompletionControl, Working, OwnerType
  <2>2. StartComplete(opencmd[oslot], "OK", 0, kont) /\ sock' = sock
    BY <1>5, <2>1, CloseFails, Zenon DEF Connected
  <2>3. peer[oslot] = c
    BY <1>t, <2>1, <2>2 DEF StartComplete, SlotControl
  <2> QED BY <2>1, <2>2, <2>3, ZenonT(40) DEF Pairs, PairOwned
<1>6. CASE CancelScan
  <2>1. opc = "cancel" /\ (StartClose(scan, "CANCELLED", "cancel") \/ opc' # "complete")
    BY <1>6, Zenon DEF CancelScan
  <2> QED BY <2>1, CloseFails, Zenon
<1>7. CASE CloseAll
  <2>1. opc = "closeall" /\ ((\E r : StartClose(scan, r, "closeall")) \/ opc' = opc)
    BY <1>7, Zenon DEF CloseAll
  <2> QED BY <2>1, CloseFails
<1>8. ASSUME NEW s \in Slots, DispatchConnect(s) \/ DispatchRelayEnd(s) \/ Expire(s) PROVE FALSE
  <2>1. opc' = "connected" \/ \E r, k : k \in {"dispatch", "expire"} /\ StartClose(s, r, k)
    BY <1>8, Zenon DEF DispatchConnect, DispatchRelayEnd, Expire
  <2> QED BY <2>1, CloseFails
<1> QED BY <1>1, <1>2, <1>3, <1>4, <1>5, <1>6, <1>7, <1>8, OwnerSteps, Zenon DEF Closing

(* The owner answers a command once, with what became of its pair. *)
LEMMA AnswersOwner ==
  ASSUME Inv, Pairs, Answers, Owner \/ Environment
  PROVE  Answers'
<1>1. CASE Complete
  BY <1>1, AnswersComplete
<1>2. CASE ~Complete
  <2>1. UNCHANGED <<pc, ret, cancelled, completed, cresult>>
    BY <1>2, OwnerSteps, PassingEffect, ListingEffect, ClosingEffect, Zenon
       DEF Drop, Admit, commandVars
  <2> QED BY <1>2, <2>1, CompletesOK, AnswersFrame, Zenon DEF Next
<1> QED BY <1>1, <1>2

(* What a calling thread does to its own answer: it leaves the wait with what *)
(* the server completed, or it raises cancelled first.                        *)
LEMMA ThreadStep ==
  ASSUME Inv, Pairs, NEW c \in Calls, Caller(c)
  PROVE  /\ \A d \in Calls : d # c => pc'[d] = pc[d] /\ ret'[d] = ret[d]
         /\ UNCHANGED <<completed, cresult>>
         /\ \A d \in Calls : cancelled[d] => cancelled'[d]
         /\ \/ /\ pc[c] \in Untouched \cup {"enqueue"}
               /\ ret'[c] # "OK"
               /\ pc'[c] # "wait"
            \/ /\ pc[c] = "wait" /\ pc'[c] \in Answered
               /\ completed[c] => ret'[c] = cresult[c]
               /\ ~completed[c] => cancelled'[c] /\ ret'[c] # "OK"
            \/ /\ pc[c] \in Answered \cup {"wake"} /\ ret'[c] = ret[c]
               /\ pc'[c] \in Answered \cup {"wait"}
               /\ pc'[c] \in Answered => pc[c] \in Answered
<1>t. CallerType /\ CommandType
  BY DEF Inv, TypeOK
<1>r. pc[c] \in Untouched \cup {"enqueue"} => ret[c] = "none"
  BY DEF Pairs, PairControl, Unanswered
<1> USE DEF commandVars, Return, CallerType
<1>1. ASSUME NEW d \in Calls, d # c PROVE pc'[d] = pc[d] /\ ret'[d] = ret[d]
  BY <1>t, <1>1, Zenon DEF Caller, Bind, OpenCheck, Create, Enqueue, Wake, WaitDone, WaitTimeout,
       Rewake, Finish, CallerRelease, SessionRelease, ConnectorRelease
<1>2. UNCHANGED <<completed, cresult>>
  BY Zenon DEF Caller, Bind, OpenCheck, Create, Enqueue, Wake, WaitDone, WaitTimeout,
       Rewake, CallerRelease, SessionRelease, ConnectorRelease
<1>3. ASSUME NEW d \in Calls, cancelled[d] PROVE cancelled'[d]
  <2>1. cancelled' = cancelled \/ cancelled' = [cancelled EXCEPT ![c] = TRUE]
    BY Zenon DEF Caller, Bind, OpenCheck, Create, Enqueue, Wake, WaitDone, WaitTimeout,
         Rewake, CallerRelease, SessionRelease, ConnectorRelease
  <2> QED BY <1>t, <1>3, <2>1 DEF CommandType
<1>4. CASE Bind(c) \/ OpenCheck(c) \/ Create(c) \/ Enqueue(c)
  <2>1. pc[c] \in Untouched \cup {"enqueue"}
    BY <1>4, Zenon DEF Bind, OpenCheck, Create, Enqueue, Untouched
  <2>2. pc'[c] # "wait"
    BY <1>t, <1>4, ZenonT(60) DEF Bind, OpenCheck, Create, Enqueue
  <2>3. ret'[c] = ret[c] \/ ret'[c] \in {"STATE", "CANCELLED"} \cup Failures
    BY <1>t, <1>4 DEF Bind, OpenCheck, Create, Enqueue
  <2>4. ret'[c] # "OK"
    BY <1>r, <2>1, <2>3, FailuresAssumption
  <2> QED BY <1>1, <1>2, <1>3, <2>1, <2>2, <2>4, Zenon
<1>5. CASE WaitDone(c) \/ WaitTimeout(c)
  <2>1. PICK r : /\ Finish(c, r)
                 /\ completed[c] => r = cresult[c]
                 /\ ~completed[c] => r # "OK" /\ WaitTimeout(c)
    <3>1. CASE WaitDone(c)
      BY <3>1, Zenon DEF WaitDone
    <3>2. CASE WaitTimeout(c)
      <4>1. PICK q \in {"TIMEOUT"} \cup (Failures \cap {"IO"}) :
                   Finish(c, IF completed[c] THEN cresult[c] ELSE q)
        BY <3>2, ZenonT(60) DEF WaitTimeout
      <4>2. q # "OK"
        BY <4>1, Zenon
      <4> QED BY <3>2, <4>1, <4>2, Zenon
    <3> QED BY <1>5, <3>1, <3>2, Zenon
  <2>2. ret'[c] = r /\ pc'[c] \in Answered
    BY <1>t, <2>1, Zenon DEF Finish, Answered
  <2>3. ~completed[c] => cancelled'[c]
    BY <1>t, <2>1, ZenonT(60) DEF WaitTimeout, CommandType
  <2>4. pc[c] = "wait"
    BY <1>5, ZenonT(60) DEF WaitDone, WaitTimeout
  <2> QED BY <1>1, <1>2, <1>3, <2>1, <2>2, <2>3, <2>4, ZenonT(60)
<1>6. CASE Wake(c) \/ Rewake(c) \/ CallerRelease(c) \/ SessionRelease(c) \/ ConnectorRelease(c)
  <2>1. /\ pc[c] \in Answered \cup {"wake"} /\ ret' = ret
        /\ pc'[c] \in Answered \cup {"wait"}
        /\ pc'[c] \in Answered => pc[c] \in Answered
    BY <1>t, <1>6 DEF Wake, Rewake, CallerRelease, SessionRelease, ConnectorRelease, Answered
  <2> QED BY <1>1, <1>2, <1>3, <2>1, Zenon
<1> QED BY <1>4, <1>5, <1>6, Zenon DEF Caller

(* A thread reads the answer it was given. *)
LEMMA AnswersCaller ==
  ASSUME Inv, Pairs, Answers, NEW c \in Calls, Caller(c)
  PROVE  Answers'
<1>t. EnteredControl
  BY DEF Inv, OwnerControl
<1>1. /\ \A d \in Calls : d # c => pc'[d] = pc[d] /\ ret'[d] = ret[d]
      /\ UNCHANGED <<completed, cresult>>
      /\ \A d \in Calls : cancelled[d] => cancelled'[d]
  BY ThreadStep, Zenon
<1>2. \A d \in Calls : sock[d] \in {"slot", "closed"} => sock'[d] = sock[d]
  BY CallerKeepsSock, Zenon
<1>3. \A d \in Calls : pc'[d] \in Answered /\ ServerHolds(d)' => ServerHolds(d)
  BY HoldsStep DEF Next, Answered
<1>4. UNCHANGED <<opc, ores, ocmd>>
  BY CallerLeavesOwner, Zenon DEF ownerVars
<1>5. ASSUME NEW d \in Calls, d # c
      PROVE /\ ret'[d] = "OK" =>
                 completed'[d] /\ cresult'[d] = "OK" /\ sock'[d] \in {"slot", "closed"}
            /\ completed'[d] /\ cresult'[d] = "OK" /\ pc'[d] \in Answered => ret'[d] = "OK"
            /\ pc'[d] \in Untouched \cup {"enqueue"} => ~completed'[d]
            /\ completed'[d] /\ cresult'[d] = "OK" => sock'[d] \in {"slot", "closed"}
            /\ pc'[d] \in Answered /\ ServerHolds(d)' /\ ~completed'[d] => cancelled'[d]
  <2>1. pc'[d] = pc[d] /\ ret'[d] = ret[d] /\ completed'[d] = completed[d] /\ cresult'[d] = cresult[d]
    BY <1>1, <1>5
  <2> QED BY <1>1, <1>2, <1>3, <2>1, Zenon DEF Answers, Agreement, AnswerControl, Answered
<1>6. /\ ret'[c] = "OK" => completed'[c] /\ cresult'[c] = "OK" /\ sock'[c] \in {"slot", "closed"}
      /\ completed'[c] /\ cresult'[c] = "OK" /\ pc'[c] \in Answered => ret'[c] = "OK"
      /\ pc'[c] \in Untouched \cup {"enqueue"} => ~completed'[c]
      /\ completed'[c] /\ cresult'[c] = "OK" => sock'[c] \in {"slot", "closed"}
      /\ pc'[c] \in Answered /\ ServerHolds(c)' /\ ~completed'[c] => cancelled'[c]
  <2>0. completed'[c] = completed[c] /\ cresult'[c] = cresult[c]
    BY <1>1, Zenon
  <2>a. completed[c] /\ cresult[c] = "OK" => sock'[c] \in {"slot", "closed"}
    BY <1>2 DEF Answers, AnswerControl
  <2>1. CASE pc[c] \in Untouched \cup {"enqueue"} /\ ret'[c] # "OK"
    <3>1. ~completed[c]
      BY <2>1 DEF Answers, AnswerControl
    <3>2. ~ServerHolds(c)
      BY <1>t, <2>1 DEF EnteredControl, Untouched
    <3> QED BY <1>3, <2>0, <2>1, <3>1, <3>2, Zenon
  <2>2. CASE /\ pc[c] = "wait" /\ pc'[c] \in Answered
             /\ completed[c] => ret'[c] = cresult[c]
             /\ ~completed[c] => cancelled'[c] /\ ret'[c] # "OK"
    <3>1. pc'[c] \notin Untouched \cup {"enqueue"}
      BY <2>2 DEF Answered, Untouched
    <3> QED BY <2>0, <2>a, <2>2, <3>1, Zenon
  <2>3. CASE /\ pc[c] \in Answered \cup {"wake"} /\ ret'[c] = ret[c]
             /\ pc'[c] \in Answered \cup {"wait"}
             /\ pc'[c] \in Answered => pc[c] \in Answered
    <3>1. pc'[c] \notin Untouched \cup {"enqueue"}
      BY <2>3 DEF Answered, Untouched
    <3>2. ret'[c] = "OK" => completed[c] /\ cresult[c] = "OK"
      BY <2>3, Zenon DEF Answers, Agreement
    <3>3. completed[c] /\ cresult[c] = "OK" /\ pc'[c] \in Answered => ret'[c] = "OK"
      BY <2>3 DEF Answers, Agreement, Answered
    <3>4. pc'[c] \in Answered /\ ServerHolds(c)' /\ ~completed[c] => cancelled'[c]
      BY <1>1, <1>3, <2>3, Zenon DEF Answers, AnswerControl
    <3> QED BY <2>0, <2>a, <3>1, <3>2, <3>3, <3>4, Zenon
  <2> QED BY <2>1, <2>2, <2>3, ThreadStep, Zenon
<1>7. \A d \in Calls : opc' = "complete" /\ ores' = "OK" /\ ocmd' = d => sock'[d] = "slot"
  BY <1>2, <1>4, Zenon DEF Answers, AnswerControl
<1>8. Agreement'
  BY <1>5, <1>6, Zenon DEF Agreement, Answered
<1>9. AnswerControl'
  BY <1>5, <1>6, <1>7 DEF AnswerControl
<1> QED BY <1>8, <1>9 DEF Answers

(* Agreement, with what it needs, is kept by every step. *)
LEMMA AnswersStep == Inv /\ Pairs /\ Answers /\ [Next]_vars => Answers'
<1> SUFFICES ASSUME Inv, Pairs, Answers, [Next]_vars PROVE Answers'
  OBVIOUS
<1>1. CASE UNCHANGED vars
  <2>1. UNCHANGED <<pc, ret, cancelled, completed, cresult, sock, opc, ores, ocmd>>
    BY <1>1, Zenon DEF vars, commandVars, pairVars, ownerVars
  <2>2. \A c \in Calls : opc' = "complete" /\ ores' = "OK" /\ ocmd' = c => sock'[c] = "slot"
    BY <2>1 DEF Answers, AnswerControl
  <2> QED BY <2>1, <2>2, AnswersFrame, Zenon
<1> QED BY <1>1, AnswersOwner, AnswersCaller, Zenon DEF Next

-----------------------------------------------------------------------------
(* The end of a run.  From the rejection of the queue on, the server stops    *)
(* taking commands: stopping is raised, or the reactor failed; what Detach    *)
(* emptied stays empty, and the walk over the slots leaves none in use.       *)
ClosesAll == opc = "closeall" \/ (opc \in {"complete", "drop"} /\ kont = "closeall")
Ending ==
  \/ opc \in {"rejecting", "closeall", "returned", "destroyed"}
  \/ opc \in {"complete", "drop"} /\ kont \in {"rejecting", "closeall"}
Over == opc = "reject" \/ Ending
EndControl ==
  /\ finalized => Over
  /\ opc = "destroyed" => finalized
  /\ Over => stopping \/ (failed /\ ~finalized)
  /\ Ending /\ (~failed \/ finalized) => queue = <<>>
  /\ ClosesAll => \A s \in Slots : s < scan /\ s # oslot => state[s] = "unused"
  /\ opc \in {"returned", "destroyed"} => \A s \in Slots : state[s] = "unused"
  /\ opc = "connected" => kont \in {"process", "dispatch"}

(* While the loop of the run goes on. *)
LEMMA EndsInside ==
  ASSUME EndControl, ~Over, ~Over', finalized' = finalized,
         opc' = "connected" => kont' \in {"process", "dispatch"}
  PROVE  EndControl'
<1>1. ~finalized' /\ ~Ending' /\ ~ClosesAll' /\ opc' \notin {"returned", "destroyed"}
  BY DEF EndControl, Over, Ending, ClosesAll
<1> QED BY <1>1 DEF EndControl

(* StartClose leaves the loop where it was. *)
LEMMA CloseStaysInside ==
  ASSUME NEW s, NEW r, NEW k \in {"process", "cancel", "dispatch", "expire"}, StartClose(s, r, k)
  PROVE  ~Over' /\ opc' # "connected"
<1>1. (opc' = "complete" /\ kont' = k) \/ opc' = k
  BY Zenon DEF StartClose, StartComplete
<1> QED BY <1>1 DEF Over, Ending

(* The owner steps of the loop that stay in it. *)
LEMMA EndsLoop ==
  ASSUME Inv, EndControl,
         \/ LoopTop \/ Refuse \/ ProcessEnd \/ CancelScan \/ DispatchEnd \/ ExpireEnd \/ RunStart
         \/ Connected
         \/ \E s \in Slots : Admit(s) \/ DispatchConnect(s) \/ DispatchRelayEnd(s) \/ Expire(s)
         \/ \E traffic \in BOOLEAN : LoopStep(traffic)
  PROVE  EndControl'
<1>f. UNCHANGED <<stopping, finalized, failed>>
  BY ZenonT(60) DEF LoopTop, Refuse, ProcessEnd, CancelScan, DispatchEnd, ExpireEnd, RunStart, Connected,
               Admit, DispatchConnect, DispatchRelayEnd, Expire, LoopStep, flagVars
<1>i. opc \in {"idle", "top", "process", "cancel", "step", "dispatch", "expire"} => ~Over
  BY DEF Over, Ending
<1>1. CASE LoopTop \/ \E traffic \in BOOLEAN : LoopStep(traffic)
  <2>1. opc \in {"top", "step"} /\ ((stopping /\ opc' = "reject") \/ opc' \in {"process", "dispatch"})
    BY <1>1 DEF LoopTop, LoopStep
  <2>2. CASE opc' \in {"process", "dispatch"}
    <3>1. ~Over' /\ opc' # "connected"
      BY <2>2, Zenon DEF Over, Ending
    <3> QED BY <1>f, <1>i, <2>1, <3>1, EndsInside
  <2>3. CASE stopping /\ opc' = "reject"
    BY <1>f, <1>i, <2>1, <2>3 DEF EndControl, Over, Ending, ClosesAll
  <2> QED BY <2>1, <2>2, <2>3, Zenon
<1>2. CASE ProcessEnd \/ DispatchEnd \/ ExpireEnd \/ RunStart \/ Refuse
  <2>1. /\ opc \in {"idle", "process", "dispatch", "expire"}
        /\ opc' \in {"top", "process", "cancel"} \/ (opc' = "complete" /\ kont' = "process")
    BY <1>2, Zenon DEF ProcessEnd, DispatchEnd, ExpireEnd, RunStart, Refuse, StartComplete
  <2>2. ~Over' /\ opc' # "connected"
    BY <2>1 DEF Over, Ending
  <2> QED BY <1>f, <1>i, <2>1, <2>2, EndsInside, ZenonT(60)
<1>3. CASE CancelScan
  <2>1. opc = "cancel" /\ (StartClose(scan, "CANCELLED", "cancel") \/ opc' \in {"cancel", "step", "expire"})
    BY <1>3, Zenon DEF CancelScan
  <2>2. ~Over' /\ opc' # "connected"
    <3>1. CASE StartClose(scan, "CANCELLED", "cancel")
      BY <3>1, CloseStaysInside
    <3>2. CASE opc' \in {"cancel", "step", "expire"}
      BY <3>2 DEF Over, Ending
    <3> QED BY <2>1, <3>1, <3>2
  <2> QED BY <1>f, <1>i, <2>1, <2>2, EndsInside, Zenon
<1>4. CASE Connected
  <2>1. opc = "connected" /\ kont \in {"process", "dispatch"}
    BY <1>4 DEF Connected, EndControl
  <2>2. ~Over
    BY <2>1 DEF Over, Ending
  <2>3. StartComplete(opencmd[oslot], "OK", 0, kont) \/ \E r : StartClose(oslot, r, kont)
    BY <1>4, Zenon DEF Connected
  <2>4. ~Over' /\ opc' # "connected"
    <3>1. CASE StartComplete(opencmd[oslot], "OK", 0, kont)
      BY <2>1, <3>1 DEF StartComplete, Over, Ending
    <3>2. CASE \E r : StartClose(oslot, r, kont)
      BY <2>1, <3>2, CloseStaysInside
    <3> QED BY <2>3, <3>1, <3>2
  <2> QED BY <1>f, <2>2, <2>4, EndsInside, ZenonT(60)
<1>5. ASSUME NEW s \in Slots, Admit(s) PROVE EndControl'
  <2>1. /\ opc = "process"
        /\ \/ opc' = "complete" /\ kont' = "process"
           \/ opc' = "process"
           \/ opc' = "connected" /\ kont' = "process"
    BY <1>5, Zenon DEF Admit, StartComplete
  <2>2. ~Over' /\ (opc' = "connected" => kont' \in {"process", "dispatch"})
    BY <2>1 DEF Over, Ending
  <2> QED BY <1>f, <1>i, <2>1, <2>2, EndsInside
<1>6. ASSUME NEW s \in Slots, DispatchConnect(s) \/ DispatchRelayEnd(s) \/ Expire(s)
      PROVE EndControl'
  <2>1. /\ opc \in {"dispatch", "expire"}
        /\ \/ opc' = "connected" /\ kont' = "dispatch"
           \/ \E r, k : k \in {"dispatch", "expire"} /\ StartClose(s, r, k)
    BY <1>6, Zenon DEF DispatchConnect, DispatchRelayEnd, Expire
  <2>2. ~Over' /\ (opc' = "connected" => kont' \in {"process", "dispatch"})
    <3>1. CASE opc' = "connected" /\ kont' = "dispatch"
      BY <3>1 DEF Over, Ending
    <3>2. CASE \E r, k : k \in {"dispatch", "expire"} /\ StartClose(s, r, k)
      BY <3>2, CloseStaysInside
    <3> QED BY <2>1, <3>1, <3>2
  <2> QED BY <1>f, <1>i, <2>1, <2>2, EndsInside
<1> QED BY <1>1, <1>2, <1>3, <1>4, <1>5, <1>6, Zenon

(* Entering the end, and walking through it. *)
LEMMA EndsTail ==
  ASSUME Inv, EndControl,
         Reject \/ RejectOne \/ CloseAll \/ RunReturn \/ DestroyEnd \/ LoopFailure \/ Stop \/ Destroy
  PROVE  EndControl'
<1>t. OwnerType /\ SlotType /\ ServerType /\ CompletionControl
  BY Zenon DEF Inv, TypeOK, OwnerControl
<1> USE DEF flagVars, slotVars, ownerVars
<1>1. CASE Reject
  <2>1. /\ opc = "reject" /\ opc' = "rejecting" /\ queue' = <<>>
        /\ UNCHANGED <<stopping, finalized, failed>>
    BY <1>1, Zenon DEF Reject, Detach
  <2> QED BY <2>1 DEF EndControl, Over, Ending, ClosesAll
<1>2. CASE RejectOne
  <2>1. /\ opc = "rejecting" /\ UNCHANGED <<stopping, finalized, failed, queue>>
        /\ (opc' = "complete" /\ kont' = "rejecting") \/ (opc' = "closeall" /\ scan' = 1)
    BY <1>2, Zenon DEF RejectOne, StartComplete
  <2>2. Over /\ Ending /\ Over' /\ Ending'
    BY <2>1 DEF Over, Ending
  <2>3. opc' \notin {"returned", "destroyed", "connected"}
    BY <2>1
  <2>4. ClosesAll' => scan' = 1
    BY <2>1 DEF ClosesAll
  <2>5. \A s \in Slots : ~(s < 1)
    BY SlotsAssumption DEF Slots
  <2> QED BY <2>1, <2>2, <2>3, <2>4, <2>5 DEF EndControl
<1>3. CASE CloseAll
  <2>1. /\ opc = "closeall" /\ scan \in Slots /\ scan' = scan + 1
        /\ UNCHANGED <<stopping, finalized, failed, queue>>
    BY <1>3, Zenon DEF CloseAll
  <2>2. oslot = 0 /\ \A s \in Slots : s < scan /\ s # oslot => state[s] = "unused"
    BY <1>t, <2>1, Zenon DEF CompletionControl, Working, EndControl, ClosesAll
  <2>3. /\ opc' = "closeall" \/ (opc' = "complete" /\ kont' = "closeall")
        /\ \A s \in Slots : s # scan => state'[s] = state[s]
        /\ state'[scan] = "unused" \/ oslot' = scan
    <3>1. CASE state[scan] = "unused"
      BY <1>3, <2>1, <3>1, Zenon DEF CloseAll
    <3>2. CASE state[scan] # "unused" /\ opencmd[scan] # NoCall
      BY <1>3, <2>1, <3>2, ZenonT(60) DEF CloseAll, StartClose, StartComplete
    <3>3. CASE state[scan] # "unused" /\ opencmd[scan] = NoCall
      BY <1>t, <1>3, <2>1, <3>3 DEF CloseAll, StartClose, FreeSlot, SlotType
    <3> QED BY <3>1, <3>2, <3>3, Zenon
  <2>4. \A s \in Slots : s < scan' /\ s # oslot' => state'[s] = "unused"
    <3>1. ASSUME NEW s \in Slots, s < scan', s # oslot' PROVE state'[s] = "unused"
      <4>1. s \in Int /\ scan \in Int
        BY <2>1, SlotsAssumption DEF Slots
      <4>2. CASE s = scan
        BY <2>3, <3>1, <4>2
      <4>3. CASE s # scan
        <5>1. s < scan /\ s # 0
          BY <2>1, <3>1, <4>1, <4>3, SlotsAssumption DEF Slots
        <5> QED BY <2>2, <2>3, <4>3, <5>1
      <4> QED BY <4>2, <4>3
    <3> QED BY <3>1
  <2>5. Over /\ Ending /\ Over' /\ Ending'
    BY <2>1, <2>3, Zenon DEF Over, Ending
  <2>6. opc' \notin {"returned", "destroyed", "connected"}
    BY <2>3, Zenon
  <2> QED BY <2>1, <2>4, <2>5, <2>6 DEF EndControl
<1>4. CASE RunReturn \/ DestroyEnd
  <2>1. /\ opc = "closeall" /\ scan \notin Slots
        /\ UNCHANGED <<stopping, finalized, failed, queue, state>>
        /\ (opc' = "returned" /\ ~finalized) \/ (opc' = "destroyed" /\ finalized)
    BY <1>4, Zenon DEF RunReturn, DestroyEnd
  <2>2. \A s \in Slots : s < scan /\ s # 0
    BY <1>t, <2>1, SlotsAssumption DEF OwnerType, Slots
  <2>3. \A s \in Slots : state[s] = "unused"
    BY <1>t, <2>1, <2>2 DEF EndControl, ClosesAll, CompletionControl, Working
  <2>4. Over /\ Ending /\ Over' /\ Ending' /\ ~ClosesAll' /\ opc' # "connected"
    BY <2>1, Zenon DEF Over, Ending, ClosesAll
  <2> QED BY <2>1, <2>3, <2>4 DEF EndControl
<1>5. CASE LoopFailure
  <2>1. opc = "step" /\ opc' = "reject" /\ failed' = TRUE /\ UNCHANGED <<finalized>>
    BY <1>5, Zenon DEF LoopFailure
  <2>2. ~finalized
    BY <2>1, Zenon DEF EndControl, Over, Ending
  <2> QED BY <2>1, <2>2 DEF EndControl, Over, Ending, ClosesAll
<1>6. CASE Stop
  <2>1. stopping' = TRUE /\ UNCHANGED <<finalized, failed, queue, state, opc, kont, scan, oslot>>
    BY <1>6, Zenon DEF Stop
  <2>2. (Over' <=> Over) /\ (Ending' <=> Ending) /\ (ClosesAll' <=> ClosesAll)
    BY <2>1, Zenon DEF Over, Ending, ClosesAll
  <2> QED BY <2>1, <2>2 DEF EndControl
<1>7. CASE Destroy
  <2>1. stopping' = TRUE /\ opc' = "reject"
    BY <1>7, Zenon DEF Destroy
  <2> QED BY <2>1 DEF EndControl, Over, Ending, ClosesAll
<1> QED BY <1>1, <1>2, <1>3, <1>4, <1>5, <1>6, <1>7

(* Completion during the end. *)
LEMMA EndsCompletion ==
  ASSUME Inv, EndControl, Complete \/ Drop
  PROVE  EndControl'
<1>t. OwnerType /\ SlotType /\ CompletionControl
  BY Zenon DEF Inv, TypeOK, OwnerControl
<1> USE DEF flagVars, slotVars, ownerVars
<1>1. CASE Complete
  <2>1. /\ opc = "complete" /\ opc' = "drop"
        /\ UNCHANGED <<stopping, finalized, failed, queue, state, kont, scan, oslot>>
    BY <1>1, Zenon DEF Complete
  <2>2. (Over' <=> Over) /\ (Ending' <=> Ending) /\ (ClosesAll' <=> ClosesAll)
    BY <2>1, Zenon DEF Over, Ending, ClosesAll
  <2> QED BY <2>1, <2>2 DEF EndControl
<1>2. CASE Drop
  <2>1. /\ opc = "drop" /\ opc' = kont /\ oslot' = 0 /\ kont \in Konts
        /\ UNCHANGED <<stopping, finalized, failed, queue, scan>>
    BY <1>t, <1>2, Zenon DEF Drop, CompletionControl, Working, Konts
  <2>2. (Over' <=> Over) /\ (Ending' <=> Ending) /\ (ClosesAll' <=> ClosesAll)
    BY <2>1 DEF Over, Ending, ClosesAll, Konts
  <2>3. \A s \in Slots : (s # oslot => state'[s] = state[s]) /\ (s = oslot => state'[s] = "unused")
    <3>0. 0 \notin Slots
      BY SlotsAssumption DEF Slots
    <3>1. CASE oslot = 0
      BY <1>2, <3>0, <3>1, Zenon DEF Drop
    <3>2. CASE oslot # 0
      BY <1>t, <1>2, <3>2, Zenon DEF Drop, FreeSlot, SlotType
    <3> QED BY <3>1, <3>2, Zenon
  <2>4. opc' \notin {"returned", "destroyed", "connected"}
    BY <2>1 DEF Konts
  <2>5. ClosesAll' => \A s \in Slots : s < scan' /\ s # oslot' => state'[s] = "unused"
    BY <2>1, <2>2, <2>3, Zenon DEF EndControl
  <2> QED BY <2>1, <2>2, <2>4, <2>5 DEF EndControl
<1> QED BY <1>1, <1>2

(* Enqueue is closed once the run ends, except after a reactor failure. *)
LEMMA EndsCaller ==
  ASSUME Inv, EndControl, NEW c \in Calls, Caller(c)
  PROVE  EndControl'
<1>1. UNCHANGED <<stopping, finalized, failed, state, opc, kont, scan, oslot>>
  <2>1. UNCHANGED <<flagVars, failed>>
    BY Zenon DEF Caller, Bind, OpenCheck, Create, Enqueue, Wake, WaitDone, WaitTimeout, Rewake,
                 CallerRelease, SessionRelease, ConnectorRelease
  <2> QED BY <2>1, CallerLeavesOwner, Zenon DEF flagVars, slotVars, ownerVars
<1>2. queue' = queue \/ (~stopping /\ ~finalized)
  BY Zenon DEF Caller, Bind, OpenCheck, Create, Enqueue, Wake, WaitDone, WaitTimeout, Rewake,
               CallerRelease, SessionRelease, ConnectorRelease
<1>3. (Over' <=> Over) /\ (Ending' <=> Ending) /\ (ClosesAll' <=> ClosesAll)
  BY <1>1, Zenon DEF Over, Ending, ClosesAll
<1>4. Ending' /\ (~failed' \/ finalized') => queue' = <<>>
  BY <1>1, <1>2, <1>3 DEF EndControl, Over
<1> QED BY <1>1, <1>3, <1>4 DEF EndControl

(* Once the server is finalized no step leaves anything behind. *)
LEMMA EndsStep == Inv /\ EndControl /\ [Next]_vars => EndControl'
<1> SUFFICES ASSUME Inv, EndControl, [Next]_vars PROVE EndControl'
  BY Zenon
<1>1. CASE UNCHANGED vars
  <2>1. UNCHANGED <<stopping, finalized, failed, state, opc, kont, scan, oslot, queue>>
    BY <1>1 DEF vars, flagVars, slotVars, ownerVars
  <2>2. (Over' <=> Over) /\ (Ending' <=> Ending) /\ (ClosesAll' <=> ClosesAll)
    BY <2>1, Zenon DEF Over, Ending, ClosesAll
  <2> QED BY <2>1, <2>2, Zenon DEF EndControl
<1> QED BY <1>1, EndsLoop, EndsTail, EndsCompletion, EndsCaller, Zenon DEF Next, Owner, Environment

(* A thread still waiting has its answer, or the server still has its command; *)
(* the server drops a command only after it completed it.                      *)
WaitControl ==
  /\ \A c \in Calls : pc[c] \in {"wake", "wait"} => completed[c] \/ ServerHolds(c)
  /\ opc = "drop" => completed[ocmd]

(* A thread that waits has a command somebody will answer. *)
LEMMA WaitStep == Inv /\ WaitControl /\ [Next]_vars => WaitControl'
<1> SUFFICES ASSUME Inv, WaitControl, [Next]_vars PROVE WaitControl'
  OBVIOUS
<1>t. CallerType /\ CommandType /\ CompletionControl
  BY ZenonT(60) DEF Inv, TypeOK, OwnerControl
<1>1. CASE Complete
  <2>1. ocmd \in Calls /\ UNCHANGED <<pc, ocmd>>
    BY <1>1, CountsPositive, Zenon DEF Complete
  <2>2. completed'[ocmd] /\ \A c \in Calls : completed[c] => completed'[c]
    BY <1>t, <1>1, <2>1, Zenon DEF Complete, CommandType
  <2>3. \A c \in Calls : ServerHolds(c)' <=> ServerHolds(c)
    BY <1>1 DEF Complete, slotVars, ServerHolds, Queued, Batched, Opening, Completing
  <2> QED BY <2>1, <2>2, <2>3 DEF WaitControl
<1>2. CASE ~Complete
  <2>1. completed' = completed
    BY <1>2, OwnerSteps, PassingEffect, ListingEffect, ClosingEffect, ZenonT(60)
       DEF Next, Drop, Admit, commandVars, vars, Caller, Bind, OpenCheck, Create, Enqueue, Wake,
           WaitDone, WaitTimeout, Rewake, CallerRelease, SessionRelease, ConnectorRelease
  <2>2. \A c \in Calls : pc'[c] \in {"wake", "wait"} => pc[c] \in {"wake", "wait"} \/ ServerHolds(c)'
    <3>1. ASSUME NEW d \in Calls, Caller(d), NEW c \in Calls
          PROVE  pc'[c] = "wait" => pc[c] \in {"wake", "wait"}
      BY <1>t, <3>1, Zenon DEF Caller, Bind, OpenCheck, Create, Enqueue, Wake, WaitDone, WaitTimeout, Rewake,
           Finish, CallerRelease, SessionRelease, ConnectorRelease, CallerType
    <3>2. ASSUME Owner \/ Environment PROVE pc' = pc
      BY <3>2, <1>2, OwnerSteps, PassingEffect, ListingEffect, ClosingEffect, Zenon DEF Drop, Admit
    <3>3. ASSUME UNCHANGED vars PROVE pc' = pc
      BY <3>3, Zenon DEF vars
    <3>4. \A c \in Calls : pc'[c] = "wake" => ServerHolds(c)' \/ pc[c] = "wake"
      BY HoldsStep, Zenon
    <3> QED BY <3>1, <3>2, <3>3, <3>4, ZenonT(40) DEF Next
  <2>3. \A c \in Calls : ServerHolds(c) => ServerHolds(c)' \/ completed[c]
    BY HoldsStep, Zenon DEF WaitControl
  <2>4. opc' = "drop" => opc = "drop" /\ ocmd' = ocmd
    <3>1. CASE \E c \in Calls : Caller(c)
      BY <3>1, CallerLeavesOwner, Zenon DEF ownerVars
    <3>2. CASE UNCHANGED vars
      BY <3>2, Zenon DEF vars, ownerVars
    <3>3. CASE Passing
      BY <3>3, Zenon DEF Passing, ProcessEnd, ExpireEnd, RunReturn, DestroyEnd, RunStart, LoopFailure, Stop,
             Destroy, LoopStep, ownerVars
    <3>4. CASE Listing
      BY <3>4, ZenonT(40) DEF Listing, LoopTop, DispatchEnd, Reject, Refuse, RejectOne, StartComplete
    <3>5. CASE Drop
      BY <1>t, <3>5, Zenon DEF Drop, CompletionControl, Working
    <3>6. ASSUME NEW s \in Slots, Admit(s) PROVE opc' # "drop"
      BY <3>6 DEF Admit, StartComplete
    <3>7. CASE Closing
      <4>1. ASSUME NEW s, NEW r, NEW k, StartClose(s, r, k), k # "drop" PROVE opc' # "drop"
        BY <4>1, Zenon DEF StartClose, StartComplete
      <4>2. Connected => opc' # "drop"
        BY <1>t, <4>1, ZenonT(60) DEF Connected, StartComplete, CompletionControl, Working
      <4>3. CancelScan => opc' # "drop"
        BY <4>1 DEF CancelScan
      <4>4. CloseAll => opc' # "drop"
        BY <4>1, Zenon DEF CloseAll
      <4>5. ASSUME NEW s \in Slots, DispatchConnect(s) \/ DispatchRelayEnd(s) \/ Expire(s)
            PROVE opc' # "drop"
        BY <4>1, <4>5, Zenon DEF DispatchConnect, DispatchRelayEnd, Expire
      <4> QED BY <3>7, <4>2, <4>3, <4>4, <4>5, Zenon DEF Closing
    <3> QED BY <1>2, <3>1, <3>2, <3>3, <3>4, <3>5, <3>6, <3>7, OwnerSteps, Zenon DEF Next
  <2>5. opc' = "drop" => completed'[ocmd']
    BY <2>1, <2>4 DEF WaitControl
  <2> QED BY <2>1, <2>2, <2>3, <2>5, Zenon DEF WaitControl
<1> QED BY <1>1, <1>2

(* The five invariants together. *)
SessionInv == Inv /\ Pairs /\ Answers /\ EndControl /\ WaitControl

(* No call was made yet. *)
LEMMA InitSession == Init => SessionInv
<1> SUFFICES ASSUME Init PROVE SessionInv
  BY Zenon
<1>1. \A c \in Calls : ~Queued(c) /\ ~Batched(c) /\ ~ServerHolds(c)
  BY EmptyElements, CallsAssumption DEF Init, ServerHolds, Queued, Batched, Opening, Completing
<1>2. /\ \A c \in Calls : /\ pc[c] = "unbound" /\ ret[c] = "none" /\ ~completed[c]
                          /\ sock[c] = "none" /\ cfd[c] = "none"
      /\ \A s \in Slots : state[s] = "unused" /\ peer[s] = NoCall
      /\ opc = "idle" /\ ~finalized
  BY Zenon DEF Init
<1>3. Pairs
  BY <1>1, <1>2, CallsAssumption, Zenon DEF Pairs, PairOwned, PairControl, Untouched, Unanswered
<1>4. Answers
  BY <1>2, Zenon DEF Answers, Agreement, AnswerControl, Answered
<1>5. EndControl
  BY <1>2, Zenon DEF EndControl, Over, Ending, ClosesAll
<1>6. WaitControl
  BY <1>2 DEF WaitControl
<1> QED BY InitInv, <1>3, <1>4, <1>5, <1>6 DEF SessionInv

(* The invariant of the sessions holds at every step. *)
LEMMA SessionInductive == Spec => []SessionInv
<1>1. SessionInv /\ [Next]_vars => SessionInv'
  BY InvStep, PairsStep, AnswersStep, EndsStep, WaitStep, Zenon DEF SessionInv
<1> QED BY <1>1, InitSession, PTL DEF Spec

(* Each end of a private pair always has exactly one owner: no descriptor is  *)
(* closed twice or leaks between open_command_release, the slot that took     *)
(* command->server_socket and the caller that took command->client_fd.        *)
THEOREM PairsOwned == Spec => []PairOwned
BY SessionInductive, PTL DEF SessionInv, Pairs

(* The calling thread and the owner thread agree on every open, whatever the  *)
(* order of the deadline, the cancellation and the completion.                *)
THEOREM SidesAgree == Spec => []Agreement
BY SessionInductive, PTL DEF SessionInv, Answers

(* When maelys_egress_server_run has returned for a stop, or destroy has      *)
(* finished, nothing is queued, no slot is in use and every thread still in   *)
(* its wait finds its command completed.                                      *)
THEOREM NoneStranded == Spec => []NothingStranded
<1>1. SessionInv => NothingStranded
  <2> SUFFICES ASSUME SessionInv, (opc = "returned" /\ ~failed) \/ opc = "destroyed"
               PROVE  /\ queue = <<>> /\ batch = <<>>
                      /\ \A s \in Slots : state[s] = "unused"
                      /\ \A c \in Calls : pc[c] \in {"wake", "wait"} => completed[c]
    BY DEF NothingStranded
  <2>t. CompletionControl /\ DetachedControl /\ SlotControl
    BY DEF SessionInv, Inv, OwnerControl
  <2>1. queue = <<>> /\ \A s \in Slots : state[s] = "unused"
    BY Zenon DEF SessionInv, EndControl, Ending
  <2>2. batch = <<>> /\ ocmd = NoCall
    BY <2>t, Zenon DEF DetachedControl, CompletionControl, Working
  <2>3. \A s \in Slots : opencmd[s] = NoCall
    BY <2>t, <2>1, Zenon DEF SlotControl
  <2>4. \A c \in Calls : ~ServerHolds(c)
    BY <2>1, <2>2, <2>3, EmptyElements, CallsAssumption
       DEF ServerHolds, Queued, Batched, Opening, Completing
  <2> QED BY <2>1, <2>2, <2>4, Zenon DEF SessionInv, WaitControl
<1> QED BY <1>1, SessionInductive, PTL

=============================================================================
