---------------------------- MODULE ControlProofs ----------------------------
(***************************************************************************)
(* Proofs about the threads of a server that meet its owner: control calls  *)
(* and channel threads.                                                     *)
(*                                                                          *)
(* Control calls (Control), for any set of callers and whether or not       *)
(* destroy waits for them.  The inductive invariant says who owns each      *)
(* policy object: the server until teardown, a caller that swapped one out  *)
(* until it frees it, a caller whose copy is not in force.  Owners are      *)
(* distinct, and exactly the owned objects are live.                        *)
(*                                                                          *)
(* A channel thread (Channel), for any number of requests, any queue of the *)
(* kernel, any peer and either way of keeping a stream: every request read  *)
(* is answered, in order and once, with the stream of that request, and the *)
(* server keeps no descriptor of it.                                        *)
(***************************************************************************)
EXTENDS Control, Integers, SequenceTheorems, TLAPS

Steps == {"away", "cloned", "locked", "drop", "swapped", "count", "done", "stop", "stopped"}
Places == {"run", "ended", "destroy", "teardown", "release", "gone"}

Types ==
  /\ policy \in Objects /\ generation \in Nat \ {0} /\ stopping \in BOOLEAN
  /\ owner \in Places /\ snapshot \in Objects \cup {None}
  /\ call \in [Callers -> [at : Steps, old : Objects \cup {None}, got : Nat]]
  /\ heap \in [Objects -> {"none", "live", "freed", "twice"}]

(* Who holds lifecycle_lock, and what nobody does without it. *)
Locking ==
  /\ lock \in Callers \cup {None, Owner}
  /\ \A t \in Callers : lock = t <=> call[t].at \in {"locked", "stopped"}
  /\ snapshot # None => lock = Owner /\ owner = "run" /\ snapshot = policy
  /\ owner = "teardown" => lock = Owner
  /\ owner \in {"teardown", "release", "gone"} => stopping

Serving == owner \notin {"release", "gone"}

Swapped(t, o) == call[t].at = "swapped" /\ call[t].old = o

Unused(t) == call[t].at \in {"cloned", "locked", "drop"}

Owned(o) ==
  \/ Serving /\ o = policy
  \/ \E t \in Callers : Swapped(t, o)
  \/ o \in Callers /\ Unused(o)

(* An object has one owner, and is live while it has. *)
Owners ==
  /\ \A o \in Objects : heap[o] = "live" <=> Owned(o)
  /\ \A o \in Objects : heap[o] # "twice"
  /\ policy \in Callers => call[policy].at \in {"swapped", "done"}
  /\ \A t \in Callers : call[t].at = "swapped" =>
        /\ call[t].old \in Objects /\ call[t].old # policy
        /\ call[t].old \in Callers => call[call[t].old].at \in {"swapped", "done"}
        /\ \A u \in Callers : Swapped(u, call[t].old) => u = t

(* A generation is handed out once. *)
Numbered ==
  /\ \A t \in Callers : call[t].got <= generation
  /\ \A t \in Callers : call[t].got > 0 => call[t].at \in {"swapped", "done"}
  /\ \A t, u \in Callers : call[t].got = call[u].got /\ call[t].got > 0 => t = u
  /\ policy \in Callers => call[policy].got = generation

IInv == Types /\ Locking /\ Owners /\ Numbered

(* Init establishes the invariant: the server owns the first policy. *)
LEMMA InitIInv == Init => IInv
<1> SUFFICES ASSUME Init PROVE IInv
  OBVIOUS
<1>1. Types
  <2>1. call \in [Callers -> [at : Steps, old : Objects \cup {None}, got : Nat]]
    BY DEF Init, Idle, Steps
  <2>2. heap \in [Objects -> {"none", "live", "freed", "twice"}]
    BY DEF Init
  <2>3. policy \in Objects /\ owner \in Places /\ snapshot \in Objects \cup {None}
    BY DEF Init, Objects, Places
  <2>4. stopping \in BOOLEAN
    BY Zenon DEF Init
  <2>5. generation \in Nat \ {0}
    BY DEF Init
  <2> QED
    BY <2>1, <2>2, <2>3, <2>4, <2>5, Zenon DEF Types
<1>2. Locking
  BY ControlAssumption DEF Init, Locking, Objects, First, Idle, Owner
<1>3. Owners
  BY ControlAssumption DEF Init, Owners, Owned, Serving, Swapped, Unused, Objects, First, Idle
<1>4. Numbered
  BY ControlAssumption DEF Init, Numbered, Objects, First, Idle
<1> QED
  BY <1>1, <1>2, <1>3, <1>4 DEF IInv

(* Every step keeps the types. *)
LEMMA StepTypes == ASSUME Types, [Next]_vars PROVE Types'
<1> USE ControlAssumption DEF Types, Objects, Steps, Places
<1>1. CASE UNCHANGED vars
  BY <1>1 DEF vars
<1>2. ASSUME NEW t \in Callers, Caller(t) PROVE Types'
  <2>1. CASE EnterReplace(t)
    BY <2>1 DEF EnterReplace, At, Goto
  <2>2. CASE CloneFails(t)
    BY <2>2 DEF CloneFails, At, Goto
  <2>3. CASE LockReplace(t)
    BY <2>3 DEF LockReplace, At, Goto
  <2>4. CASE Refused(t)
    BY <2>4 DEF Refused, At, Goto
  <2>5. CASE Swap(t)
    BY <2>5 DEF Swap, At, Goto
  <2>6. CASE FreeOld(t)
    BY <2>6, ZenonT(60) DEF FreeOld, At, Goto, Free
  <2>7. CASE FreeCopy(t)
    BY <2>7 DEF FreeCopy, At, Goto, Free
  <2>8. CASE CountFailure(t)
    BY <2>8 DEF CountFailure, At, Goto
  <2>9. CASE EnterStop(t)
    BY <2>9 DEF EnterStop, At, Goto
  <2>10. CASE LockStop(t)
    BY <2>10 DEF LockStop, At, Goto
  <2>11. CASE UnlockStop(t)
    BY <2>11 DEF UnlockStop, At, Goto
  <2> QED
    BY <1>2, <2>1, <2>2, <2>3, <2>4, <2>5, <2>6, <2>7, <2>8, <2>9, <2>10, <2>11 DEF Caller
<1>3. CASE Select \/ Copied
  BY <1>3 DEF Select, Copied
<1>4. CASE RunEnds \/ Destroy \/ LockDestroy \/ Release
  BY <1>4, Zenon DEF RunEnds, Destroy, LockDestroy, Release
<1>5. CASE Teardown
  BY <1>5 DEF Teardown, Free
<1> QED
  BY <1>1, <1>2, <1>3, <1>4, <1>5 DEF Next

(* Every step keeps the discipline of lifecycle_lock. *)
LEMMA StepLocking ==
  ASSUME Types, Locking, [Next]_vars PROVE Locking'
<1> USE ControlAssumption DEF Types, Locking, Objects, First, Owner
<1>1. CASE UNCHANGED vars
  BY <1>1 DEF vars
<1>2. ASSUME NEW t \in Callers, Caller(t) PROVE Locking'
  <2>1. CASE EnterReplace(t)
    BY <2>1 DEF EnterReplace, At, Goto
  <2>2. CASE CloneFails(t)
    BY <2>2 DEF CloneFails, At, Goto
  <2>3. CASE LockReplace(t)
    BY <2>3 DEF LockReplace, At, Goto
  <2>4. CASE Refused(t)
    BY <2>4 DEF Refused, At, Goto
  <2>5. CASE Swap(t)
    BY <2>5 DEF Swap, At, Goto
  <2>6. CASE FreeOld(t)
    BY <2>6 DEF FreeOld, At, Goto, Free
  <2>7. CASE FreeCopy(t)
    BY <2>7 DEF FreeCopy, At, Goto, Free
  <2>8. CASE CountFailure(t)
    BY <2>8 DEF CountFailure, At, Goto
  <2>9. CASE EnterStop(t)
    BY <2>9 DEF EnterStop, At, Goto
  <2>10. CASE LockStop(t)
    BY <2>10 DEF LockStop, At, Goto
  <2>11. CASE UnlockStop(t)
    BY <2>11 DEF UnlockStop, At, Goto
  <2> QED
    BY <1>2, <2>1, <2>2, <2>3, <2>4, <2>5, <2>6, <2>7, <2>8, <2>9, <2>10, <2>11 DEF Caller
<1>3. CASE Select \/ Copied
  BY <1>3 DEF Select, Copied
<1>4. CASE RunEnds \/ Destroy \/ LockDestroy \/ Release
  BY <1>4 DEF RunEnds, Destroy, LockDestroy, Release
<1>5. CASE Teardown
  BY <1>5 DEF Teardown, Free
<1> QED
  BY <1>1, <1>2, <1>3, <1>4, <1>5 DEF Next

(* Every step keeps the generations apart. *)
LEMMA StepNumbered ==
  ASSUME Types, Owners, Numbered, [Next]_vars PROVE Numbered'
<1> USE ControlAssumption DEF Types, Numbered, Objects
<1>1. CASE UNCHANGED vars
  BY <1>1 DEF vars
<1>2. ASSUME NEW t \in Callers, Caller(t) PROVE Numbered'
  <2>1. CASE EnterReplace(t)
    BY <2>1 DEF EnterReplace, At, Goto
  <2>2. CASE CloneFails(t)
    BY <2>2 DEF CloneFails, At, Goto
  <2>3. CASE LockReplace(t)
    BY <2>3 DEF LockReplace, At, Goto
  <2>4. CASE Refused(t)
    BY <2>4 DEF Refused, At, Goto
  <2>5. CASE Swap(t)
    BY <2>5 DEF Swap, At, Goto
  <2>6. CASE FreeOld(t)
    BY <2>6 DEF FreeOld, At, Goto, Free
  <2>7. CASE FreeCopy(t)
    BY <2>7 DEF FreeCopy, At, Goto, Free
  <2>8. CASE CountFailure(t)
    BY <2>8 DEF CountFailure, At, Goto
  <2>9. CASE EnterStop(t)
    BY <2>9 DEF EnterStop, At, Goto
  <2>10. CASE LockStop(t)
    BY <2>10 DEF LockStop, At, Goto
  <2>11. CASE UnlockStop(t)
    BY <2>11 DEF UnlockStop, At, Goto
  <2> QED
    BY <1>2, <2>1, <2>2, <2>3, <2>4, <2>5, <2>6, <2>7, <2>8, <2>9, <2>10, <2>11 DEF Caller
<1>3. CASE Select \/ Copied
  BY <1>3 DEF Select, Copied
<1>4. CASE RunEnds \/ Destroy \/ LockDestroy \/ Release
  BY <1>4 DEF RunEnds, Destroy, LockDestroy, Release
<1>5. CASE Teardown
  BY <1>5 DEF Teardown, Free
<1> QED
  BY <1>1, <1>2, <1>3, <1>4, <1>5 DEF Next

(* Every step hands an object over whole. *)
LEMMA StepOwners ==
  ASSUME Types, Locking, Owners, [Next]_vars PROVE Owners'
<1> USE ControlAssumption DEF Types, Locking, Owners, Owned, Serving, Swapped, Unused, Objects, First
<1>1. CASE UNCHANGED vars
  BY <1>1 DEF vars
<1>2. ASSUME NEW t \in Callers, Caller(t) PROVE Owners'
  <2>1. CASE EnterReplace(t)
    BY <2>1 DEF EnterReplace, At, Goto
  <2>2. CASE CloneFails(t)
    BY <2>2 DEF CloneFails, At, Goto
  <2>3. CASE LockReplace(t)
    BY <2>3 DEF LockReplace, At, Goto
  <2>4. CASE Refused(t)
    BY <2>4 DEF Refused, At, Goto
  <2>5. CASE Swap(t)
    BY <2>5 DEF Swap, At, Goto
  <2>6. CASE FreeOld(t)
    BY <2>6 DEF FreeOld, At, Goto, Free
  <2>7. CASE FreeCopy(t)
    BY <2>7 DEF FreeCopy, At, Goto, Free
  <2>8. CASE CountFailure(t)
    BY <2>8 DEF CountFailure, At, Goto
  <2>9. CASE EnterStop(t)
    BY <2>9 DEF EnterStop, At, Goto
  <2>10. CASE LockStop(t)
    BY <2>10 DEF LockStop, At, Goto
  <2>11. CASE UnlockStop(t)
    BY <2>11 DEF UnlockStop, At, Goto
  <2> QED
    BY <1>2, <2>1, <2>2, <2>3, <2>4, <2>5, <2>6, <2>7, <2>8, <2>9, <2>10, <2>11 DEF Caller
<1>3. CASE Select \/ Copied
  BY <1>3 DEF Select, Copied
<1>4. CASE RunEnds \/ Destroy \/ LockDestroy \/ Release
  BY <1>4 DEF RunEnds, Destroy, LockDestroy, Release
<1>5. CASE Teardown
  BY <1>5 DEF Teardown, Free
<1> QED
  BY <1>1, <1>2, <1>3, <1>4, <1>5 DEF Next

(* The invariant is inductive. *)
LEMMA NextIInv == IInv /\ [Next]_vars => IInv'
BY StepTypes, StepLocking, StepOwners, StepNumbered DEF IInv

(* A policy is freed once at most, the one in force not before destroy, and  *)
(* none is left: the ownership replace_policy and destroy keep, whatever     *)
(* calls meet and however many.                                              *)
THEOREM FreedOnce == Spec => []PolicyFreedOnce
<1>1. IInv => PolicyFreedOnce
  BY DEF IInv, Types, Owners, Owned, Serving, Swapped, Unused, PolicyFreedOnce, Freed, Returned
<1> QED
  BY <1>1, InitIInv, NextIInv, PTL DEF Spec

(* begin_request copies the destination out of a live policy. *)
THEOREM ReadsLive == Spec => []SnapshotLive
<1>1. IInv => SnapshotLive
  BY DEF IInv, Types, Locking, Owners, Owned, Serving, SnapshotLive
<1> QED
  BY <1>1, InitIInv, NextIInv, PTL DEF Spec

(* replace_policy returns every generation once, the current one for the     *)
(* policy in force.                                                          *)
THEOREM DistinctGenerations == Spec => []GenerationsDistinct
<1>1. IInv => GenerationsDistinct
  BY DEF IInv, Numbered, GenerationsDistinct
<1> QED
  BY <1>1, InitIInv, NextIInv, PTL DEF Spec

(* Together: replace_policy, begin_request and destroy share policies        *)
(* safely, and generations name them.                                        *)
THEOREM PolicyKept == Spec => []PolicyLifetime
BY FreedOnce, ReadsLive, DistinctGenerations, PTL DEF PolicyLifetime

-----------------------------------------------------------------------------
(* The channel thread and its peer. *)

CONSTANTS MaxRequests, QueueLength, MaxFaults, Library, Hold

VARIABLES thread, wake, supervisor, requests, responses, taken, answered, client, holders

C == INSTANCE Channel WITH srv <- thread, owner <- supervisor

(* The bounds of the model are numbers, its switches are Booleans.         *)
Bounds ==
    /\ MaxRequests \in Nat /\ QueueLength \in Nat /\ MaxFaults \in Nat
    /\ Library \in BOOLEAN /\ Hold \in BOOLEAN

Datagrams == [id : C!Request, kind : C!Kinds]
Replies == [of : C!Request, status : C!Statuses, rights : BOOLEAN]
Holders == {"srv", "held", "flight", "client"}

-----------------------------------------------------------------------------
(* Types. *)

(* The records of the thread, by where it stands.                           *)
Threads(pcs) ==
    [pc : pcs, batch : Seq(C!Events), request : 0 .. MaxRequests, status : C!Statuses,
     serving : BOOLEAN, held : 0 .. MaxRequests]

SrvType ==
    thread \in Threads(C!ServerPcs) /\ Len(thread.batch) <= 2

ClientType ==
    client \in [pc : {"idle", "wait"}, sent : 0 .. MaxRequests, shut : BOOLEAN,
                closed : BOOLEAN, faults : 0 .. MaxFaults,
                last : [call : 0 .. MaxRequests,
                        result : C!ClientResults \cup {"PROTOCOL"}, of : 0 .. MaxRequests]]

QueueType ==
    /\ requests \in Seq(Datagrams) /\ Len(requests) <= QueueLength
    /\ responses \in Seq(Replies) /\ Len(responses) <= QueueLength
    /\ taken \in 0 .. MaxRequests
    /\ answered \in Seq(C!Request)

HoldersType == holders \in [C!Request -> SUBSET Holders]

OwnerType == wake \in BOOLEAN /\ supervisor \in {"creating", "owned", "joining", "gone"}

(* While the thread is at an event the batch has one; a datagram is served  *)
(* for an event of the requests.                                            *)
Batch ==
    /\ thread.pc \in {"events", "open", "send"} => thread.batch # <<>>
    /\ thread.pc \in {"open", "send"} => Head(thread.batch).token = "requests" /\ thread.request \in C!Request

(* Requests are numbered as they were sent, read in that order and answered *)
(* in that order; a library that shut its channel, or finds the server gone, *)
(* counts calls that send nothing.                                          *)
Upto(n) == [i \in 1 .. n |-> i]
Order ==
    /\ \A i \in 1 .. Len(requests) : requests[i].id = taken + i
    /\ taken + Len(requests) <= client.sent
    /\ client.shut \/ thread.pc = "exited" \/ taken + Len(requests) = client.sent
    /\ thread.pc \in {"arming", "step", "events"} => answered = Upto(taken)
    /\ thread.pc \in {"open", "send"} =>
             thread.request = taken /\ taken >= 1 /\ answered = Upto(taken - 1)

(* Where the descriptors of the server end are.                             *)
Streams ==
    /\ \A r \in C!Request : "held" \in holders[r] <=> thread.held = r
    /\ thread.pc \in {"arming", "open", "send", "exited"} => thread.held = 0
    /\ \A r \in C!Request : "srv" \in holders[r] => thread.pc = "send" /\ r = thread.request

(* The library has one request on its way while a call waits and none       *)
(* between two calls, as long as no wait failed: its datagram, the thread    *)
(* that serves it, or the response.                                         *)
Inside == thread.pc \in {"open", "send"}
Between ==
    responses = <<>> /\ (thread.pc # "exited" => requests = <<>> /\ ~Inside)
Waiting ==
    /\ Len(responses) <= 1
    /\ \A i \in 1 .. Len(responses) : responses[i].of = client.sent
    /\ thread.pc # "exited" => /\ Len(requests) + Len(responses) <= 1
                               /\ Inside => requests = <<>> /\ responses = <<>>
Paired ==
    /\ client.pc = "wait" => Library /\ ~client.shut
    /\ Library /\ client.faults = 0 /\ ~client.shut /\ client.pc = "idle" => Between
    /\ client.faults = 0 /\ client.pc = "wait" => Waiting
    /\ C!AnswersPair

ChannelState == SrvType /\ ClientType /\ QueueType /\ HoldersType /\ OwnerType
ChannelInv == ChannelState /\ Batch /\ Order /\ Streams /\ Paired

-----------------------------------------------------------------------------
(* What the end of an event leaves: the thread ends, waits or goes on.      *)
LEMMA HandledEffect ==
  ASSUME Bounds, NEW s \in Threads(C!ServerPcs), s.batch # <<>>, Len(s.batch) <= 2
  PROVE  /\ C!Handled(s) \in Threads({"step", "events", "exited"})
         /\ Len(C!Handled(s).batch) <= 2
         /\ C!Handled(s).pc = "events" => C!Handled(s).batch # <<>>
         /\ C!Handled(s).held = IF C!Handled(s).pc = "exited" THEN 0 ELSE s.held
<1> DEFINE left == Tail(s.batch)
<1>0. s.batch \in Seq(C!Events)
  BY DEF Threads
<1>1. left \in Seq(C!Events) /\ Len(left) <= 1
  BY <1>0, HeadTailProperties
<1>2. <<>> \in Seq(C!Events) /\ Len(<<>>) = 0
  BY EmptySeq
<1>3. 0 \in 0 .. MaxRequests
  BY DEF Bounds
<1> HIDE DEF left
<1>4. CASE ~s.serving
  <2>1. C!Handled(s) = [s EXCEPT !.batch = <<>>, !.pc = "exited", !.held = 0]
    BY <1>4 DEF C!Handled
  <2>2. [s EXCEPT !.batch = <<>>, !.pc = "exited", !.held = 0] \in Threads({"step", "events", "exited"})
    BY <1>2, <1>3, Zenon DEF Threads
  <2>3. C!Handled(s).batch = <<>> /\ C!Handled(s).pc = "exited" /\ C!Handled(s).held = 0
    BY <2>1 DEF Threads
  <2> QED
    BY <1>2, <2>1, <2>2, <2>3
<1>5. CASE s.serving /\ left = <<>>
  <2>1. C!Handled(s) = [s EXCEPT !.batch = <<>>, !.pc = "step"]
    BY <1>5 DEF C!Handled, left
  <2>2. [s EXCEPT !.batch = <<>>, !.pc = "step"] \in Threads({"step", "events", "exited"})
    BY <1>2, Zenon DEF Threads
  <2>3. C!Handled(s).batch = <<>> /\ C!Handled(s).pc = "step" /\ C!Handled(s).held = s.held
    BY <2>1 DEF Threads
  <2> QED
    BY <1>2, <2>1, <2>2, <2>3
<1>6. CASE s.serving /\ left # <<>>
  <2>1. C!Handled(s) = [s EXCEPT !.batch = left, !.pc = "events"]
    BY <1>6 DEF C!Handled, left
  <2>2. [s EXCEPT !.batch = left, !.pc = "events"] \in Threads({"step", "events", "exited"})
    BY <1>1, Zenon DEF Threads
  <2>3. C!Handled(s).batch = left /\ C!Handled(s).pc = "events" /\ C!Handled(s).held = s.held
    BY <2>1 DEF Threads
  <2> QED
    BY <1>1, <1>6, <2>1, <2>2, <2>3
<1> QED
  BY <1>4, <1>5, <1>6

(* The event at hand, of the requests, tells whether the peer hung up.      *)
LEMMA EventType ==
  ASSUME SrvType, thread.batch # <<>>
  PROVE  /\ Head(thread.batch) \in C!Events
         /\ Head(thread.batch).token = "requests" => Head(thread.batch).hup \in BOOLEAN
<1>1. thread.batch \in Seq(C!Events)
  BY DEF SrvType, Threads
<1>2. Head(thread.batch) \in C!Events
  BY <1>1, HeadTailProperties
<1>3. \A e \in C!Events : e.token = "requests" => e.hup \in BOOLEAN
  BY DEF C!Events
<1> QED
  BY <1>2, <1>3

(* The thread after an event, whatever it decided about serving on.         *)
LEMMA EndOfEvent ==
  ASSUME Bounds, SrvType, thread.batch # <<>>, NEW b \in BOOLEAN, NEW h \in 0 .. MaxRequests,
         thread' = C!Handled([thread EXCEPT !.serving = b, !.held = h])
  PROVE  /\ SrvType' /\ Batch'
         /\ thread'.pc \in {"step", "events", "exited"}
         /\ thread'.held = IF thread'.pc = "exited" THEN 0 ELSE h
<1> DEFINE s == [thread EXCEPT !.serving = b, !.held = h]
<1>1. s \in Threads(C!ServerPcs) /\ s.batch = thread.batch /\ s.held = h
  BY Zenon DEF SrvType, Threads
<1>2. Len(s.batch) <= 2 /\ s.batch # <<>>
  BY <1>1 DEF SrvType
<1> HIDE DEF s
<1>3. /\ C!Handled(s) \in Threads({"step", "events", "exited"})
      /\ Len(C!Handled(s).batch) <= 2
      /\ C!Handled(s).pc = "events" => C!Handled(s).batch # <<>>
      /\ C!Handled(s).held = IF C!Handled(s).pc = "exited" THEN 0 ELSE s.held
  BY <1>1, <1>2, HandledEffect
<1>4. thread' = C!Handled(s)
  BY DEF s
<1>5. thread' \in Threads({"step", "events", "exited"}) /\ thread'.pc \in {"step", "events", "exited"}
  BY <1>3, <1>4 DEF Threads
<1>6. thread' \in Threads(C!ServerPcs)
  BY <1>5 DEF Threads, C!ServerPcs
<1> QED
  BY <1>1, <1>3, <1>4, <1>5, <1>6 DEF SrvType, Batch

(* An event that changes nothing the server keeps.                          *)
LEMMA SameHeld ==
  ASSUME SrvType, NEW b \in BOOLEAN
  PROVE  [thread EXCEPT !.serving = b] = [thread EXCEPT !.serving = b, !.held = thread.held]
BY Zenon DEF SrvType, Threads

(* The thread after each of its actions; no other action touches it.        *)
ServerActions ==
    \/ \E ok \in BOOLEAN : C!Armed(ok)
    \/ C!Step \/ C!Wakeup \/ C!NothingToRead \/ C!Receive \/ C!Send
    \/ \E result \in C!Results : C!Opened(result)
PeerActions ==
    \/ C!Stop \/ C!Destroy \/ C!Joined
    \/ C!Call \/ C!Unanswered \/ C!WaitFails \/ C!Answer \/ C!Closed
    \/ \E kind \in C!Kinds : C!RawSend(kind)
    \/ C!RawRead \/ C!Close
    \/ \E r \in C!Request : C!CloseStream(r)

(* Every step is one of the thread, or of its peers and owners. *)
LEMMA ChannelSteps == [C!Next]_(C!vars) => ServerActions \/ PeerActions \/ UNCHANGED C!vars
BY Zenon DEF C!Next, C!ServerNext, C!Finished, ServerActions, PeerActions

(* Nobody but the thread moves it, reads a request or answers one. *)
LEMMA PeersLeaveSrv == PeerActions => UNCHANGED <<thread, taken, answered>>
BY ZenonT(60) DEF PeerActions, C!Stop, C!Destroy, C!Joined, C!Call, C!Unanswered, C!WaitFails,
   C!Answer, C!Closed,
       C!RawSend, C!RawRead, C!Close, C!CloseStream, C!Returns

(* Armed: the thread starts serving, or ends.                               *)
LEMMA ArmedEffect ==
  ASSUME Bounds, ChannelState, NEW ok \in BOOLEAN, C!Armed(ok)
  PROVE  /\ SrvType' /\ Batch'
         /\ thread'.pc \in {"step", "exited"} /\ thread'.held = thread.held /\ thread.pc = "arming"
         /\ UNCHANGED <<wake, requests, responses, taken, answered, client, holders>>
<1>1. thread' = [thread EXCEPT !.pc = IF ok THEN "step" ELSE "exited"]
  BY DEF C!Armed
<1>2. thread' \in Threads(C!ServerPcs) /\ thread'.batch = thread.batch /\ thread'.pc \in {"step", "exited"}
      /\ thread'.held = thread.held
  BY <1>1 DEF ChannelState, SrvType, Threads, C!ServerPcs
<1> QED
  BY <1>2 DEF C!Armed, ChannelState, SrvType, Batch

(* Step: a batch of at most one event for each watch, or the release of the *)
(* kept copy alone.                                                         *)
LEMMA StepEffect ==
  ASSUME Bounds, ChannelState, C!Step
  PROVE  /\ SrvType' /\ Batch'
         /\ thread.pc = "step" /\ thread'.pc \in {"step", "events"}
         /\ \/ thread'.held = thread.held /\ holders' = holders
            \/ thread.held # 0 /\ thread'.held = 0 /\ holders' = C!Drop("held", thread.held)
         /\ UNCHANGED <<wake, supervisor, requests, responses, taken, answered, client>>
<1>1. PICK release \in BOOLEAN, hup \in BOOLEAN, first \in BOOLEAN :
          LET ready == [token |-> "requests", read |-> requests # <<>>, hup |-> hup]
              readable == IF ready.read \/ hup THEN <<ready>> ELSE <<>>
              woken == IF wake THEN <<[token |-> "wakeup"]>> ELSE <<>>
          IN /\ release => thread.held # 0
             /\ hup => C!Gone
             /\ readable \o woken # <<>> \/ release
             /\ thread' = [thread EXCEPT
                      !.held = IF release THEN 0 ELSE @,
                      !.pc = IF readable \o woken = <<>> THEN "step" ELSE "events",
                      !.batch = IF first THEN woken \o readable ELSE readable \o woken]
             /\ holders' = IF release THEN C!Drop("held", thread.held) ELSE holders
  BY Zenon DEF C!Step
<1> DEFINE ready == [token |-> "requests", read |-> requests # <<>>, hup |-> hup]
           readable == IF ready.read \/ hup THEN <<ready>> ELSE <<>>
           woken == IF wake THEN <<[token |-> "wakeup"]>> ELSE <<>>
           all == IF first THEN woken \o readable ELSE readable \o woken
<1>2. ready \in C!Events /\ [token |-> "wakeup"] \in C!Events
  BY DEF C!Events
<1>3. /\ readable \in Seq(C!Events) /\ Len(readable) <= 1
      /\ woken \in Seq(C!Events) /\ Len(woken) <= 1
  <2> HIDE DEF ready
  <2>1. \A e \in C!Events : <<e>> \in Seq(C!Events) /\ Len(<<e>>) = 1
    OBVIOUS
  <2>2. <<>> \in Seq(C!Events) /\ Len(<<>>) = 0
    BY EmptySeq
  <2> QED
    BY <1>2, <2>1, <2>2
<1> HIDE DEF ready, readable, woken
<1>4. /\ readable \o woken \in Seq(C!Events) /\ Len(readable \o woken) = Len(readable) + Len(woken)
      /\ woken \o readable \in Seq(C!Events) /\ Len(woken \o readable) = Len(readable) + Len(woken)
  BY <1>3, ConcatProperties
<1>5. \A q \in Seq(C!Events) : q = <<>> <=> Len(q) = 0
  BY EmptySeq
<1>6. all \in Seq(C!Events) /\ Len(all) <= 2 /\ (all = <<>> <=> readable \o woken = <<>>)
  BY <1>3, <1>4, <1>5, LenProperties
<1> HIDE DEF all
<1>7. thread' = [thread EXCEPT !.held = IF release THEN 0 ELSE @,
                               !.pc = IF readable \o woken = <<>> THEN "step" ELSE "events",
                               !.batch = all]
      /\ holders' = (IF release THEN C!Drop("held", thread.held) ELSE holders)
      /\ (release => thread.held # 0)
  BY <1>1, Zenon DEF ready, readable, woken, all
<1>8. 0 \in 0 .. MaxRequests
  BY DEF Bounds
<1>9. /\ thread' \in Threads(C!ServerPcs)
      /\ thread'.batch = all /\ thread'.pc = (IF readable \o woken = <<>> THEN "step" ELSE "events")
      /\ thread'.held = IF release THEN 0 ELSE thread.held
  BY <1>6, <1>7, <1>8, Zenon DEF ChannelState, SrvType, Threads, C!ServerPcs
<1>10. SrvType' /\ Batch'
  BY <1>6, <1>9 DEF SrvType, Batch
<1> QED
  BY <1>7, <1>9, <1>10 DEF C!Step

(* The kept copy goes with the thread, and only then or with a release.     *)
KeptOrDropped ==
    \/ thread'.held = thread.held /\ holders' = holders
    \/ thread.held # 0 /\ thread'.held = 0 /\ holders' = C!Drop("held", thread.held)

(* Wakeup, and an event of the requests that reads nothing.                 *)
LEMMA IdleEventEffect ==
  ASSUME Bounds, ChannelState, Batch, C!Wakeup \/ C!NothingToRead
  PROVE  /\ SrvType' /\ Batch'
         /\ thread.pc = "events" /\ thread'.pc \in {"step", "events", "exited"}
         /\ thread'.pc = "exited" => thread'.held = 0
         /\ KeptOrDropped
         /\ UNCHANGED <<wake, supervisor, requests, responses, taken, answered, client>>
<1>1. thread.batch # <<>> /\ thread.pc = "events" /\ SrvType
  BY DEF Batch, C!Wakeup, C!NothingToRead, ChannelState
<1>2. PICK b \in BOOLEAN : thread' = C!Handled([thread EXCEPT !.serving = b])
  <2>1. CASE C!Wakeup
    BY <2>1, Zenon DEF C!Wakeup
  <2>2. CASE C!NothingToRead
    <3>1. (~Head(thread.batch).hup) \in BOOLEAN
      BY <1>1, <2>2, EventType DEF C!NothingToRead
    <3> QED
      BY <2>2, <3>1, Zenon DEF C!NothingToRead
  <2> QED
    BY <2>1, <2>2
<1>3. thread' = C!Handled([thread EXCEPT !.serving = b, !.held = thread.held])
  BY <1>1, <1>2, SameHeld, Zenon
<1>4. thread.held \in 0 .. MaxRequests
  BY <1>1, SMTT(30) DEF SrvType, Threads
<1>5. /\ SrvType' /\ Batch'
      /\ thread'.pc \in {"step", "events", "exited"}
      /\ thread'.held = IF thread'.pc = "exited" THEN 0 ELSE thread.held
  BY <1>1, <1>3, <1>4, EndOfEvent, Zenon
<1>6. holders' = C!AtEnd(thread', holders)
  BY DEF C!Wakeup, C!NothingToRead
<1>7. KeptOrDropped
  BY <1>5, <1>6, Zenon DEF C!AtEnd, KeptOrDropped, C!Drop
<1> QED
  BY <1>1, <1>5, <1>7 DEF C!Wakeup, C!NothingToRead

(* Receive: the first datagram is taken and the kept copy released.         *)
LEMMA ReceiveEffect ==
  ASSUME Bounds, ChannelState, Batch, C!Receive
  PROVE  /\ thread' \in Threads(C!ServerPcs) /\ thread'.batch = thread.batch
         /\ Head(thread'.batch).token = "requests" /\ thread.batch # <<>>
         /\ thread.pc = "events" /\ thread'.pc \in {"open", "send"} /\ thread'.held = 0
         /\ thread'.request = Head(requests).id /\ thread'.request \in C!Request
         /\ KeptOrDropped
         /\ requests # <<>> /\ requests' = Tail(requests) /\ taken' = taken + 1
         /\ UNCHANGED <<wake, supervisor, responses, answered, client>>
<1>1. thread.pc = "events" /\ thread.batch # <<>> /\ requests # <<>>
      /\ Head(thread.batch).token = "requests"
  BY DEF C!Receive, Batch
<1>2. Head(requests) \in Datagrams
  BY <1>1, HeadTailProperties DEF ChannelState, QueueType
<1>3. Head(requests).id \in C!Request /\ C!Decode(Head(requests).kind) \in C!Statuses
  BY <1>2 DEF Datagrams, C!Decode, C!Statuses
<1>4. thread' = [thread EXCEPT !.request = Head(requests).id, !.status = C!Decode(Head(requests).kind),
                               !.held = 0,
                               !.pc = IF C!Decode(Head(requests).kind) = "OK" THEN "open" ELSE "send"]
      /\ holders' = (IF thread.held # 0 THEN C!Drop("held", thread.held) ELSE holders)
  BY DEF C!Receive
<1>5. 0 \in 0 .. MaxRequests /\ C!Request \subseteq 0 .. MaxRequests
  BY DEF Bounds, C!Request
<1> DEFINE id == Head(requests).id
           status == C!Decode(Head(requests).kind)
<1>6. id \in 0 .. MaxRequests /\ status \in C!Statuses
  BY <1>3, <1>5, Zenon
<1> HIDE DEF id, status
<1>7. thread' = [thread EXCEPT !.request = id, !.status = status, !.held = 0,
                               !.pc = IF status = "OK" THEN "open" ELSE "send"]
  BY <1>4 DEF id, status
<1>8. /\ thread' \in Threads(C!ServerPcs) /\ thread'.batch = thread.batch /\ thread'.request = id
      /\ thread'.pc \in {"open", "send"} /\ thread'.held = 0
  BY <1>5, <1>6, <1>7, Zenon DEF ChannelState, SrvType, Threads, C!ServerPcs
<1>9. KeptOrDropped
  BY <1>4, <1>8, Zenon DEF KeptOrDropped
<1> QED
  BY <1>1, <1>3, <1>8, <1>9, Zenon DEF C!Receive, id

(* Opened: the stream, if any, is the thread's.                             *)
LEMMA OpenedEffect ==
  ASSUME Bounds, ChannelState, NEW result \in C!Results, C!Opened(result)
  PROVE  /\ thread' \in Threads(C!ServerPcs) /\ thread'.batch = thread.batch
         /\ thread.pc = "open" /\ thread'.pc = "send" /\ thread'.held = thread.held
         /\ thread'.request = thread.request
         /\ holders' \in {holders, [holders EXCEPT ![thread.request] = {"srv"}]}
         /\ UNCHANGED <<wake, supervisor, requests, responses, taken, answered, client>>
<1>1. C!StatusOf(result) \in C!Statuses
  BY DEF C!Statuses
<1>2. thread' = [thread EXCEPT !.pc = "send", !.status = C!StatusOf(result)]
  BY DEF C!Opened
<1>3. /\ thread' \in Threads(C!ServerPcs) /\ thread'.batch = thread.batch /\ thread'.pc = "send"
      /\ thread'.held = thread.held /\ thread'.request = thread.request
  BY <1>1, <1>2, Zenon DEF ChannelState, SrvType, Threads, C!ServerPcs
<1> QED
  BY <1>3 DEF C!Opened

(* Send: the response is queued, with the stream on its way and perhaps kept, *)
(* or the channel ends.                                                      *)
Carried == "srv" \in holders[thread.request]

(* A response queued, with or without its stream, or a channel that ends. *)
LEMMA SendEffect ==
  ASSUME Bounds, ChannelState, Batch, C!Send
  PROVE  /\ SrvType' /\ Batch'
         /\ thread.pc = "send" /\ thread'.pc \in {"step", "events", "exited"}
         /\ thread'.pc = "exited" => thread'.held = 0
         /\ \/ /\ C!Takes
               /\ responses' = Append(responses, [of |-> thread.request, status |-> thread.status,
                                                  rights |-> Carried])
               /\ answered' = Append(answered, thread.request)
               /\ thread'.held \in {0, thread.request}
               /\ thread'.held # 0 => Carried
               /\ holders' = [holders EXCEPT ![thread.request] =
                     IF Carried THEN {"flight"} \cup (IF thread'.held = thread.request
                                                       THEN {"held"} ELSE {})
                     ELSE @]
            \/ /\ thread'.pc = "exited" /\ holders' = C!Drop("srv", thread.request)
               /\ UNCHANGED <<responses, answered>>
         /\ UNCHANGED <<wake, supervisor, requests, taken, client>>
<1>1. thread.pc = "send" /\ thread.batch # <<>> /\ SrvType /\ Head(thread.batch).token = "requests"
      /\ thread.request \in C!Request /\ thread.held \in 0 .. MaxRequests
  BY DEF C!Send, Batch, ChannelState, SrvType, Threads
<1>2. (~Head(thread.batch).hup) \in BOOLEAN
  BY <1>1, EventType
<1>3. CASE C!Takes
  <2> DEFINE h == IF Hold /\ Carried THEN thread.request ELSE 0
             after == C!Handled([thread EXCEPT !.serving = ~Head(thread.batch).hup, !.held = h])
  <2>1. h \in 0 .. MaxRequests /\ h \in {0, thread.request} /\ (h # 0 => Carried)
    BY <1>1 DEF C!Request, Bounds
  <2>2. /\ thread' = after
        /\ responses' = Append(responses, [of |-> thread.request, status |-> thread.status,
                                           rights |-> Carried])
        /\ answered' = Append(answered, thread.request)
        /\ holders' = [holders EXCEPT ![thread.request] =
              IF Carried THEN {"flight"} \cup (IF after.held = thread.request THEN {"held"} ELSE {})
              ELSE @]
        /\ UNCHANGED <<wake, supervisor, requests, taken, client>>
    BY <1>3, Zenon DEF C!Send, Carried
  <2> HIDE DEF h
  <2>3. /\ SrvType' /\ Batch'
        /\ thread'.pc \in {"step", "events", "exited"}
        /\ thread'.held = IF thread'.pc = "exited" THEN 0 ELSE h
    BY <1>1, <1>2, <2>1, <2>2, EndOfEvent, Zenon
  <2>4. /\ thread'.pc = "exited" => thread'.held = 0
        /\ thread'.held \in {0, thread.request} /\ (thread'.held # 0 => Carried)
    BY <2>1, <2>3
  <2> HIDE DEF after
  <2>5. holders' = [holders EXCEPT ![thread.request] =
              IF Carried THEN {"flight"} \cup (IF thread'.held = thread.request THEN {"held"} ELSE {})
              ELSE @]
    BY <2>2, Zenon
  <2> QED
    BY <1>1, <1>3, <2>2, <2>3, <2>4, <2>5, Zenon
<1>4. CASE ~C!Takes
  <2>1. /\ thread' = C!Refused(thread) /\ holders' = C!Drop("srv", thread.request)
        /\ UNCHANGED <<responses, answered>> /\ UNCHANGED <<wake, supervisor, requests, taken, client>>
    BY <1>4, ZenonT(60) DEF C!Send
  <2>2. thread' = C!Handled([thread EXCEPT !.serving = FALSE, !.held = thread.held])
    BY <1>1, <2>1, SameHeld, ZenonT(60) DEF C!Refused
  <2>3. /\ SrvType' /\ Batch'
        /\ thread'.pc \in {"step", "events", "exited"}
        /\ thread'.held = IF thread'.pc = "exited" THEN 0 ELSE thread.held
    BY <1>1, <2>2, EndOfEvent, Zenon
  <2>4. thread'.pc = "exited"
    <3>1. thread' = C!Handled([thread EXCEPT !.serving = FALSE])
      BY <2>1 DEF C!Refused
    <3>2. ~[thread EXCEPT !.serving = FALSE].serving
      BY <1>1 DEF SrvType, Threads
    <3>3. thread' = [[thread EXCEPT !.serving = FALSE] EXCEPT !.batch = <<>>, !.pc = "exited", !.held = 0]
      BY <3>1, <3>2 DEF C!Handled
    <3> QED
      BY <1>1, <3>3 DEF SrvType, Threads
  <2> QED
    BY <1>1, <2>1, <2>3, <2>4, Zenon
<1> QED
  BY <1>3, <1>4

-----------------------------------------------------------------------------
(* Types and batch, step by step. *)

(* No action of the peer or of the supervisor touches the thread.           *)
LEMMA SrvStep == ASSUME Bounds, ChannelState, Batch, [C!Next]_(C!vars) PROVE SrvType' /\ Batch'
<1>1. CASE C!Receive
  BY <1>1, ReceiveEffect DEF ChannelState, SrvType, Batch
<1>2. ASSUME NEW result \in C!Results, C!Opened(result) PROVE SrvType' /\ Batch'
  BY <1>2, OpenedEffect DEF ChannelState, SrvType, Batch
<1>3. CASE PeerActions \/ UNCHANGED C!vars
  <2>1. UNCHANGED thread
    BY <1>3, PeersLeaveSrv DEF C!vars
  <2> QED
    BY <2>1 DEF ChannelState, SrvType, Batch
<1>4. ASSUME NEW ok \in BOOLEAN, C!Armed(ok) PROVE SrvType' /\ Batch'
  BY <1>4, ArmedEffect
<1>5. CASE C!Step
  BY <1>5, StepEffect
<1>6. CASE C!Wakeup \/ C!NothingToRead
  BY <1>6, IdleEventEffect
<1>7. CASE C!Send
  BY <1>7, SendEffect
<1> QED
  BY <1>1, <1>2, <1>3, <1>4, <1>5, <1>6, <1>7, ChannelSteps, Zenon DEF ServerActions

(* The client's record after an answer or the end of a wait.                *)
LEMMA ReturnsEffect ==
  ASSUME Bounds, ClientType, NEW result \in C!ClientResults \cup {"PROTOCOL"},
         NEW of \in 0 .. MaxRequests, NEW shut \in BOOLEAN, C!Returns(result, of, shut)
  PROVE  /\ ClientType'
         /\ client'.pc = "idle" /\ client'.sent = client.sent /\ client'.faults = client.faults
         /\ client'.shut = (client.shut \/ shut) /\ client'.closed = client.closed
         /\ client'.last = [call |-> client.sent, result |-> result, of |-> of]
<1> DEFINE l == [call |-> client.sent, result |-> result, of |-> of]
<1>1. l \in [call : 0 .. MaxRequests, result : C!ClientResults \cup {"PROTOCOL"},
             of : 0 .. MaxRequests]
  BY DEF ClientType
<1> HIDE DEF l
<1>2. client' = [client EXCEPT !.pc = "idle", !.shut = @ \/ shut, !.last = l]
  BY DEF C!Returns, l
<1> QED
  BY <1>1, <1>2, Zenon DEF ClientType, l

(* What client_connect may return. *)
LEMMA ResultTypes ==
  /\ {"IO", "UNANSWERED"} \subseteq C!ClientResults
  /\ \A s \in C!Statuses : C!FromStatus(s) \in C!ClientResults
BY DEF C!ClientResults

(* A call: refused at once, or its datagram queued.                         *)
LEMMA CallEffect ==
  ASSUME Bounds, ChannelState, C!Call
  PROVE  /\ ClientType'
         /\ Library /\ client.pc = "idle" /\ client'.sent = client.sent + 1
         /\ client.sent < MaxRequests
         /\ client'.shut = client.shut /\ client'.closed = client.closed
         /\ client'.faults = client.faults
         /\ \/ /\ client.shut \/ thread.pc = "exited"
               /\ client'.pc = "idle" /\ requests' = requests
               /\ client'.last = [call |-> client'.sent, result |-> "IO", of |-> 0]
            \/ /\ ~client.shut /\ thread.pc # "exited" /\ Len(requests) < QueueLength
               /\ client'.pc = "wait" /\ client'.last = client.last
               /\ requests' = Append(requests, [id |-> client'.sent, kind |-> "good"])
         /\ UNCHANGED <<thread, wake, supervisor, responses, taken, answered, holders>>
<1> DEFINE n == client.sent + 1
           l == [call |-> n, result |-> "IO", of |-> 0]
<1>1. n \in 0 .. MaxRequests /\ client.sent < MaxRequests
  BY DEF C!Call, ChannelState, ClientType, Bounds
<1>2. l \in [call : 0 .. MaxRequests, result : C!ClientResults \cup {"PROTOCOL"},
             of : 0 .. MaxRequests]
  BY <1>1, ResultTypes DEF Bounds
<1>3. /\ Library /\ client.pc = "idle"
      /\ UNCHANGED <<thread, wake, supervisor, responses, taken, answered, holders>>
      /\ \/ /\ client.shut \/ thread.pc = "exited"
            /\ client' = [client EXCEPT !.sent = n, !.last = l] /\ requests' = requests
         \/ /\ ~client.shut /\ thread.pc # "exited" /\ Len(requests) < QueueLength
            /\ client' = [client EXCEPT !.sent = n, !.pc = "wait"]
            /\ requests' = Append(requests, [id |-> n, kind |-> "good"])
  BY DEF C!Call
<1> HIDE DEF l, n
<1>4. CASE /\ client.shut \/ thread.pc = "exited"
           /\ client' = [client EXCEPT !.sent = n, !.last = l] /\ requests' = requests
  <2>1. /\ ClientType' /\ client'.sent = n /\ client'.shut = client.shut
        /\ client'.closed = client.closed /\ client'.faults = client.faults
        /\ client'.pc = client.pc /\ client'.last = l
    BY <1>1, <1>2, <1>4, Zenon DEF ChannelState, ClientType
  <2> QED
    BY <1>1, <1>3, <1>4, <2>1 DEF n, l
<1>5. CASE /\ ~client.shut /\ thread.pc # "exited" /\ Len(requests) < QueueLength
           /\ client' = [client EXCEPT !.sent = n, !.pc = "wait"]
           /\ requests' = Append(requests, [id |-> n, kind |-> "good"])
  <2>1. /\ ClientType' /\ client'.sent = n /\ client'.shut = client.shut
        /\ client'.closed = client.closed /\ client'.faults = client.faults
        /\ client'.pc = "wait" /\ client'.last = client.last
    BY <1>1, <1>5, Zenon DEF ChannelState, ClientType
  <2> QED
    BY <1>1, <1>3, <1>5, <2>1 DEF n
<1> QED
  BY <1>3, <1>4, <1>5

(* An answer: the first response is read and the call returns.              *)
LEMMA AnswerEffect ==
  ASSUME Bounds, ChannelState, C!Answer
  PROVE  /\ ClientType'
         /\ client.pc = "wait" /\ client'.pc = "idle" /\ client'.sent = client.sent
         /\ client'.faults = client.faults /\ client'.shut = client.shut
         /\ client'.last.of = Head(responses).of /\ client'.last.call = client.sent
         /\ responses # <<>> /\ responses' = Tail(responses) /\ Head(responses) \in Replies
         /\ UNCHANGED <<thread, wake, supervisor, requests, taken, answered>>
<1>1. responses # <<>> /\ client.pc = "wait"
  BY DEF C!Answer
<1>2. Head(responses) \in Replies
  BY <1>1, HeadTailProperties DEF ChannelState, QueueType
<1>3. PICK result \in C!ClientResults \cup {"PROTOCOL"} : C!Returns(result, Head(responses).of, FALSE)
  <2>1. C!FromStatus(Head(responses).status) \in C!ClientResults
    BY <1>2, ResultTypes DEF Replies
  <2> DEFINE result == IF (Head(responses).status = "OK") = Head(responses).rights
                       THEN C!FromStatus(Head(responses).status) ELSE "PROTOCOL"
  <2>2. C!Returns(result, Head(responses).of, FALSE)
    BY Zenon DEF C!Answer
  <2>3. result \in C!ClientResults \cup {"PROTOCOL"}
    BY <2>1, Zenon
  <2> HIDE DEF result
  <2> QED
    BY <2>2, <2>3, Zenon
<1>4. Head(responses).of \in 0 .. MaxRequests
  BY <1>2 DEF Replies, C!Request, Bounds
<1>5. /\ ClientType'
      /\ client'.pc = "idle" /\ client'.sent = client.sent /\ client'.faults = client.faults
      /\ client'.shut = (client.shut \/ FALSE) /\ client'.closed = client.closed
      /\ client'.last = [call |-> client.sent, result |-> result, of |-> Head(responses).of]
  BY <1>3, <1>4, ReturnsEffect, Zenon DEF ChannelState
<1>6. client'.last.of = Head(responses).of /\ client'.last.call = client.sent
  BY <1>5
<1>7. client'.shut = client.shut
  BY <1>5 DEF ChannelState, ClientType
<1> QED
  BY <1>1, <1>2, <1>5, <1>6, <1>7, Zenon DEF C!Answer

(* A wait that ends without an answer.                                      *)
LEMMA WaitEnds ==
  ASSUME Bounds, ChannelState, C!Unanswered \/ C!WaitFails \/ C!Closed
  PROVE  /\ ClientType'
         /\ client.pc = "wait" /\ client'.pc = "idle" /\ client'.sent = client.sent
         /\ client'.last.of = 0
         /\ client.shut => client'.shut
         /\ \/ client'.shut
            \/ client'.faults # 0
            \/ thread.pc = "exited" /\ responses = <<>> /\ client'.faults = client.faults
         /\ UNCHANGED <<thread, wake, supervisor, requests, responses, taken, answered, holders>>
<1>1. 0 \in 0 .. MaxRequests /\ "IO" \in C!ClientResults \cup {"PROTOCOL"}
      /\ "UNANSWERED" \in C!ClientResults \cup {"PROTOCOL"}
  BY ResultTypes DEF Bounds
<1>2. CASE C!Unanswered
  <2>1. C!Returns("UNANSWERED", 0, TRUE)
    BY <1>2, Zenon DEF C!Unanswered
  <2>2. /\ ClientType' /\ client'.pc = "idle" /\ client'.sent = client.sent /\ client'.shut
        /\ client'.last = [call |-> client.sent, result |-> "UNANSWERED", of |-> 0]
    BY <1>1, <2>1, ReturnsEffect, Zenon DEF ChannelState
  <2> QED
    BY <1>2, <2>2 DEF C!Unanswered
<1>3. CASE C!Closed
  <2>1. C!Returns("IO", 0, FALSE)
    BY <1>3, Zenon DEF C!Closed
  <2>2. /\ ClientType' /\ client'.pc = "idle" /\ client'.sent = client.sent
        /\ client'.shut = (client.shut \/ FALSE) /\ client'.faults = client.faults
        /\ client'.last = [call |-> client.sent, result |-> "IO", of |-> 0]
    BY <1>1, <2>1, ReturnsEffect, Zenon DEF ChannelState
  <2> QED
    BY <1>3, <2>2 DEF C!Closed, ChannelState, ClientType
<1>4. CASE C!WaitFails
  <2> DEFINE l == [call |-> client.sent, result |-> "IO", of |-> 0]
  <2>1. l \in [call : 0 .. MaxRequests, result : C!ClientResults \cup {"PROTOCOL"},
               of : 0 .. MaxRequests] /\ l.of = 0
    BY <1>1 DEF ChannelState, ClientType
  <2> HIDE DEF l
  <2>2. client' = [client EXCEPT !.pc = "idle", !.faults = @ + 1, !.last = l]
        /\ client.faults < MaxFaults
    BY <1>4 DEF C!WaitFails, l
  <2>3. client.faults + 1 \in 0 .. MaxFaults /\ client.faults + 1 # 0
    BY <2>2 DEF ChannelState, ClientType, Bounds
  <2>4. /\ ClientType' /\ client'.pc = "idle" /\ client'.sent = client.sent
        /\ client'.shut = client.shut /\ client'.faults # 0 /\ client'.last = l
    BY <2>1, <2>2, <2>3, Zenon DEF ChannelState, ClientType
  <2> QED
    BY <1>4, <2>1, <2>4 DEF C!WaitFails
<1> QED
  BY <1>2, <1>3, <1>4

(* A datagram of a peer that is not the library.                            *)
LEMMA RawSendEffect ==
  ASSUME Bounds, ChannelState, NEW kind \in C!Kinds, C!RawSend(kind)
  PROVE  /\ ClientType'
         /\ ~Library /\ ~C!Gone /\ thread.pc # "exited"
         /\ client.sent < MaxRequests /\ Len(requests) < QueueLength
         /\ client'.sent = client.sent + 1 /\ client'.sent \in C!Request
         /\ client'.pc = client.pc
         /\ client'.faults = client.faults /\ client'.shut = client.shut
         /\ client'.last = client.last
         /\ requests' = Append(requests, [id |-> client'.sent, kind |-> kind])
         /\ UNCHANGED <<thread, wake, supervisor, responses, taken, answered, holders>>
<1>1. client.sent + 1 \in 0 .. MaxRequests /\ client.sent < MaxRequests
  BY DEF C!RawSend, ChannelState, ClientType, Bounds
<1>2. client' = [client EXCEPT !.sent = client.sent + 1]
  BY DEF C!RawSend
<1>3. /\ ClientType' /\ client'.sent = client.sent + 1 /\ client'.pc = client.pc
      /\ client'.faults = client.faults /\ client'.shut = client.shut
      /\ client'.last = client.last
  BY <1>1, <1>2 DEF ChannelState, ClientType
<1>4. client'.sent \in C!Request
  BY <1>1, <1>3 DEF C!Request, ChannelState, ClientType
<1> QED
  BY <1>1, <1>3, <1>4 DEF C!RawSend

(* The peer reads without the library, or closes its end.                   *)
LEMMA RawReadEffect ==
  ASSUME ChannelState, C!RawRead
  PROVE  /\ ~Library /\ responses # <<>> /\ responses' = Tail(responses)
         /\ Head(responses) \in Replies
         /\ UNCHANGED <<thread, wake, supervisor, requests, taken, answered, client>>
<1>1. responses # <<>>
  BY DEF C!RawRead
<1>2. Head(responses) \in Replies
  BY <1>1, HeadTailProperties DEF ChannelState, QueueType
<1> QED
  BY <1>2 DEF C!RawRead

(* A peer that closes its end drops the responses, and calls no more. *)
LEMMA CloseEffect ==
  ASSUME ChannelState, C!Close
  PROVE  /\ ClientType'
         /\ client.pc = "idle" /\ client'.pc = "idle" /\ client'.sent = client.sent
         /\ client'.faults = client.faults /\ client'.shut = client.shut
         /\ client'.last = client.last /\ responses' = <<>>
         /\ UNCHANGED <<thread, wake, supervisor, requests, taken, answered>>
<1>1. client' = [client EXCEPT !.closed = TRUE] /\ client.pc = "idle"
  BY DEF C!Close
<1>2. /\ ClientType' /\ client'.pc = client.pc /\ client'.sent = client.sent
      /\ client'.faults = client.faults /\ client'.shut = client.shut
      /\ client'.last = client.last
  BY <1>1, Zenon DEF ChannelState, ClientType
<1> QED
  BY <1>1, <1>2 DEF C!Close

(* What only the supervisor and the owner of a stream do.                   *)
Aside == C!Stop \/ C!Destroy \/ C!Joined \/ \E r \in C!Request : C!CloseStream(r)

(* They touch neither the queues nor the two ends. *)
LEMMA AsideEffect ==
  Aside => UNCHANGED <<thread, requests, responses, taken, answered, client>>
BY DEF Aside, C!Stop, C!Destroy, C!Joined, C!CloseStream

(* The steps that are not of the thread, by what they do to the queues. *)
LEMMA PeerCases ==
  PeerActions => \/ C!Call \/ C!Answer \/ (C!Unanswered \/ C!WaitFails \/ C!Closed)
                 \/ (\E kind \in C!Kinds : C!RawSend(kind)) \/ C!RawRead \/ C!Close \/ Aside
BY Zenon DEF PeerActions, Aside

(* The thread knows of its peer only through the queues. *)
LEMMA ServerLeavesClient == ServerActions => UNCHANGED client
BY Zenon DEF ServerActions, C!Armed, C!Step, C!Wakeup, C!NothingToRead, C!Receive, C!Send, C!Opened

(* The peer stays a peer. *)
LEMMA ClientStep == ASSUME Bounds, ChannelState, [C!Next]_(C!vars) PROVE ClientType'
<1>1. CASE C!Call
  BY <1>1, CallEffect
<1>2. CASE C!Answer
  BY <1>2, AnswerEffect
<1>3. CASE C!Unanswered \/ C!WaitFails \/ C!Closed
  BY <1>3, WaitEnds
<1>4. ASSUME NEW kind \in C!Kinds, C!RawSend(kind) PROVE ClientType'
  BY <1>4, RawSendEffect, Zenon
<1>5. CASE C!Close
  BY <1>5, CloseEffect
<1>6. CASE ServerActions \/ C!RawRead \/ Aside \/ UNCHANGED C!vars
  <2>1. UNCHANGED client
    BY <1>6, ServerLeavesClient, RawReadEffect, AsideEffect DEF C!vars
  <2> QED
    BY <2>1 DEF ChannelState, ClientType
<1> QED
  BY <1>1, <1>2, <1>3, <1>4, <1>5, <1>6, ChannelSteps, PeerCases, Zenon

(* The queues: a datagram goes in at the end while there is room, and comes *)
(* out at the front.                                                        *)
LEMMA QueueIn ==
  ASSUME NEW S, NEW q \in Seq(S), NEW e \in S
  PROVE  /\ Append(q, e) \in Seq(S) /\ Len(Append(q, e)) = Len(q) + 1
         /\ \A i \in 1 .. Len(q) : Append(q, e)[i] = q[i]
         /\ Append(q, e)[Len(q) + 1] = e
BY AppendProperties

(* What is left of a queue once its head is read. *)
LEMMA QueueOut ==
  ASSUME NEW S, NEW q \in Seq(S), q # <<>>
  PROVE  /\ Tail(q) \in Seq(S) /\ Len(Tail(q)) = Len(q) - 1 /\ Len(q) \in Nat
         /\ \A i \in 1 .. Len(Tail(q)) : Tail(q)[i] = q[i + 1]
         /\ Head(q) = q[1] /\ Head(q) \in S
BY HeadTailProperties, LenProperties

RequestsType == requests \in Seq(Datagrams) /\ Len(requests) <= QueueLength

(* The queue of requests keeps its type and its bound. *)
LEMMA RequestsStep == ASSUME Bounds, ChannelState, Batch, [C!Next]_(C!vars) PROVE RequestsType'
<1>t. requests \in Seq(Datagrams) /\ Len(requests) <= QueueLength
  BY DEF ChannelState, QueueType
<1>1. CASE C!Call
  <2>1. [id |-> client'.sent, kind |-> "good"] \in Datagrams
    BY <1>1, CallEffect DEF Datagrams, C!Request, C!Kinds, ChannelState, ClientType
  <2>2. CASE requests' = Append(requests, [id |-> client'.sent, kind |-> "good"])
    BY <1>1, <1>t, <2>1, <2>2, CallEffect, QueueIn, LenProperties DEF RequestsType, Bounds
  <2> QED
    BY <1>1, <1>t, <2>2, CallEffect DEF RequestsType
<1>2. ASSUME NEW kind \in C!Kinds, C!RawSend(kind) PROVE RequestsType'
  <2>0. client'.sent \in C!Request
    BY <1>2, RawSendEffect, Zenon
  <2>1. [id |-> client'.sent, kind |-> kind] \in Datagrams
    BY <1>2, <2>0 DEF Datagrams
  <2> QED
    BY <1>2, <1>t, <2>1, RawSendEffect, QueueIn, LenProperties DEF RequestsType, Bounds
<1>3. CASE C!Receive
  <2>1. requests # <<>> /\ requests' = Tail(requests)
    BY <1>3 DEF C!Receive
  <2> QED
    BY <1>t, <2>1, QueueOut DEF RequestsType, Bounds
<1>4. CASE UNCHANGED requests
  BY <1>t, <1>4 DEF RequestsType
<1>5. ServerActions => C!Receive \/ UNCHANGED requests
  BY Zenon DEF ServerActions, C!Armed, C!Step, C!Wakeup, C!NothingToRead, C!Receive, C!Send, C!Opened
<1>6. PeerActions => C!Call \/ (\E kind \in C!Kinds : C!RawSend(kind)) \/ UNCHANGED requests
  BY Zenon DEF PeerActions, C!Stop, C!Destroy, C!Joined, C!Unanswered, C!WaitFails, C!Answer, C!Closed,
         C!RawRead, C!Close, C!CloseStream
<1>7. UNCHANGED C!vars => UNCHANGED requests
  BY DEF C!vars
<1> QED
  BY <1>1, <1>2, <1>3, <1>4, <1>5, <1>6, <1>7, ChannelSteps, Zenon

RepliesType == responses \in Seq(Replies) /\ Len(responses) <= QueueLength

(* And so does the queue of responses. *)
LEMMA RepliesStep == ASSUME Bounds, ChannelState, Batch, [C!Next]_(C!vars) PROVE RepliesType'
<1>t. responses \in Seq(Replies) /\ Len(responses) <= QueueLength
  BY DEF ChannelState, QueueType
<1>1. CASE C!Send
  <2> DEFINE reply == [of |-> thread.request, status |-> thread.status, rights |-> Carried]
  <2>1. reply \in Replies
    BY <1>1 DEF C!Send, Batch, ChannelState, SrvType, Threads, Replies, Carried
  <2>2. \/ Len(responses) < QueueLength /\ responses' = Append(responses, reply)
        \/ responses' = responses
    BY <1>1, SendEffect, Zenon DEF C!Takes
  <2> HIDE DEF reply
  <2> QED
    BY <1>t, <2>1, <2>2, QueueIn, LenProperties DEF RepliesType, Bounds
<1>2. CASE C!Answer \/ C!RawRead
  <2>1. responses # <<>> /\ responses' = Tail(responses)
    BY <1>2, Zenon DEF C!Answer, C!RawRead
  <2> QED
    BY <1>t, <2>1, QueueOut DEF RepliesType, Bounds
<1>3. CASE C!Close
  BY <1>3, EmptySeq DEF C!Close, RepliesType, Bounds
<1>4. CASE UNCHANGED responses
  BY <1>t, <1>4 DEF RepliesType
<1>5. ServerActions => C!Send \/ UNCHANGED responses
  BY Zenon DEF ServerActions, C!Armed, C!Step, C!Wakeup, C!NothingToRead, C!Receive, C!Send, C!Opened
<1>6. PeerActions => C!Answer \/ C!RawRead \/ C!Close \/ UNCHANGED responses
  BY Zenon DEF PeerActions, C!Stop, C!Destroy, C!Joined, C!Unanswered, C!WaitFails, C!Call, C!Closed,
         C!RawSend, C!CloseStream
<1>7. UNCHANGED C!vars => UNCHANGED responses
  BY DEF C!vars
<1> QED
  BY <1>1, <1>2, <1>3, <1>4, <1>5, <1>6, <1>7, ChannelSteps, Zenon

-----------------------------------------------------------------------------
(* Requests are read, and answered, in the order they were sent. *)

(* The numbers up to n, and one more. *)
LEMMA UptoNext ==
  ASSUME NEW n \in Nat, NEW q, q = Upto(n)
  PROVE  Append(q, n + 1) = Upto(n + 1)
<1>1. q \in Seq(Nat) /\ Len(q) = n /\ \A i \in 1 .. n : q[i] = i
  BY DEF Upto
<1>2. Append(q, n + 1) \in Seq(Nat) /\ Len(Append(q, n + 1)) = n + 1
      /\ \A i \in 1 .. n : Append(q, n + 1)[i] = q[i]
      /\ Append(q, n + 1)[n + 1] = n + 1
  BY <1>1, QueueIn
<1>3. Upto(n + 1) \in Seq(Nat) /\ Len(Upto(n + 1)) = n + 1
      /\ \A i \in 1 .. n + 1 : Upto(n + 1)[i] = i
  BY DEF Upto
<1>4. \A i \in 1 .. n + 1 : Append(q, n + 1)[i] = Upto(n + 1)[i]
  BY <1>1, <1>2, <1>3
<1> HIDE DEF Upto
<1> QED
  BY <1>2, <1>3, <1>4, SeqEqual

(* The numbers on the queue, ...                                            *)
InOrder ==
    /\ \A i \in 1 .. Len(requests) : requests[i].id = taken + i
    /\ taken + Len(requests) <= client.sent
    /\ client.shut \/ thread.pc = "exited" \/ taken + Len(requests) = client.sent

(* ... and the answers.                                                     *)
Told ==
    /\ thread.pc \in {"arming", "step", "events"} => answered = Upto(taken)
    /\ thread.pc \in {"open", "send"} =>
             thread.request = taken /\ taken >= 1 /\ answered = Upto(taken - 1)

(* Order is about the numbers of the requests, and about the answers told. *)
LEMMA OrderParts == Order <=> InOrder /\ Told
BY Zenon DEF Order, InOrder, Told

(* An ended thread stays so, and so does a channel that was shut down.      *)
LEMMA Sticky ==
  ASSUME Bounds, ChannelState, Batch, [C!Next]_(C!vars)
  PROVE  /\ thread.pc = "exited" => thread'.pc = "exited"
         /\ client.shut => client'.shut
<1>1. thread.pc = "exited" => thread'.pc = "exited"
  <2>1. thread.pc = "exited" => ~ServerActions
    BY DEF ServerActions, C!Armed, C!Step, C!Wakeup, C!NothingToRead, C!Receive, C!Send, C!Opened
  <2> QED
    BY <2>1, ChannelSteps, PeersLeaveSrv DEF C!vars
<1>2. client.shut => client'.shut
  <2>1. CASE C!Call
    BY <2>1, CallEffect, Zenon
  <2>2. CASE C!Answer
    BY <2>2, AnswerEffect, Zenon
  <2>3. CASE C!Unanswered \/ C!WaitFails \/ C!Closed
    BY <2>3, WaitEnds
  <2>4. ASSUME NEW kind \in C!Kinds, C!RawSend(kind) PROVE client.shut => client'.shut
    BY <2>4, RawSendEffect, Zenon
  <2>5. CASE C!Close
    BY <2>5, CloseEffect, Zenon
  <2>6. CASE ServerActions \/ C!RawRead \/ Aside \/ UNCHANGED C!vars
    BY <2>6, ServerLeavesClient, RawReadEffect, AsideEffect DEF C!vars
  <2> QED
    BY <2>1, <2>2, <2>3, <2>4, <2>5, <2>6, ChannelSteps, PeerCases, Zenon
<1> QED
  BY <1>1, <1>2

(* A datagram queued behind the others has the next number.                 *)
LEMMA NumberedIn ==
  ASSUME Bounds, ChannelState, InOrder, NEW d \in Datagrams, d.id = client.sent + 1,
         ~client.shut, thread.pc # "exited", client'.sent = client.sent + 1,
         requests' = Append(requests, d), UNCHANGED <<thread, taken>>
  PROVE  InOrder'
<1>1. requests \in Seq(Datagrams) /\ Len(requests) \in Nat
  BY LenProperties DEF ChannelState, QueueType
<1>2. /\ Len(requests') = Len(requests) + 1 /\ requests'[Len(requests) + 1] = d
      /\ \A i \in 1 .. Len(requests) : requests'[i] = requests[i]
  BY <1>1, QueueIn
<1>3. taken \in Nat /\ client.sent \in Nat /\ taken + Len(requests) = client.sent
  BY DEF ChannelState, QueueType, ClientType, InOrder
<1>4. ASSUME NEW i \in 1 .. Len(requests') PROVE requests'[i].id = taken + i
  <2>1. CASE i = Len(requests) + 1
    BY <1>1, <1>2, <1>3, <2>1
  <2>2. CASE i # Len(requests) + 1
    BY <1>1, <1>2, <1>3, <2>2 DEF InOrder
  <2> QED
    BY <2>1, <2>2
<1> QED
  BY <1>1, <1>2, <1>3, <1>4 DEF InOrder

(* Requests stay numbered as they were sent. *)
LEMMA NumberedStep == ASSUME Bounds, ChannelState, Batch, InOrder, [C!Next]_(C!vars) PROVE InOrder'
<1>0. /\ thread.pc = "exited" => thread'.pc = "exited"
      /\ client.shut => client'.shut
  BY Sticky
<1>t. requests \in Seq(Datagrams) /\ taken \in Nat /\ client.sent \in Nat /\ Len(requests) \in Nat
  BY LenProperties DEF ChannelState, QueueType, ClientType
<1>1. CASE C!Call
  <2>1. CASE requests' = requests
    BY <1>1, <1>0, <1>t, <2>1, CallEffect DEF InOrder
  <2>2. CASE requests' # requests
    <3>1. [id |-> client'.sent, kind |-> "good"] \in Datagrams
      BY <1>1, CallEffect DEF Datagrams, C!Request, C!Kinds, ChannelState, ClientType
    <3> QED
      BY <1>1, <2>2, <3>1, CallEffect, NumberedIn
  <2> QED
    BY <2>1, <2>2
<1>2. ASSUME NEW kind \in C!Kinds, C!RawSend(kind) PROVE InOrder'
  <2>0. client'.sent \in C!Request
    BY <1>2, RawSendEffect, Zenon
  <2>1. [id |-> client'.sent, kind |-> kind] \in Datagrams
    BY <1>2, <2>0 DEF Datagrams
  <2> QED
    BY <1>2, <2>1, RawSendEffect, NumberedIn DEF C!Gone
<1>3. CASE C!Receive
  <2>1. requests # <<>> /\ requests' = Tail(requests) /\ taken' = taken + 1 /\ UNCHANGED client
    BY <1>3, ReceiveEffect
  <2>2. /\ Len(requests') = Len(requests) - 1
        /\ \A i \in 1 .. Len(requests') : requests'[i] = requests[i + 1]
    BY <1>t, <2>1, QueueOut
  <2>3. thread'.pc # "exited" /\ thread.pc # "exited"
    BY <1>3, ReceiveEffect
  <2>4. ASSUME NEW i \in 1 .. Len(requests') PROVE requests'[i].id = taken' + i
    <3>1. i \in Nat /\ i + 1 \in 1 .. Len(requests) /\ requests'[i] = requests[i + 1]
      BY <1>t, <2>2
    <3>2. requests[i + 1].id = taken + (i + 1)
      BY <3>1 DEF InOrder
    <3> QED
      BY <1>t, <2>1, <3>1, <3>2
  <2>5. taken' + Len(requests') = taken + Len(requests) /\ client' = client
    BY <1>t, <2>1, <2>2
  <2> QED
    BY <2>3, <2>4, <2>5 DEF InOrder
<1>4. CASE UNCHANGED <<requests, taken>> /\ client'.sent = client.sent
  BY <1>0, <1>4 DEF InOrder
<1>5. ServerActions => C!Receive \/ UNCHANGED <<requests, taken, client>>
  BY Zenon DEF ServerActions, C!Armed, C!Step, C!Wakeup, C!NothingToRead, C!Receive, C!Send, C!Opened
<1>6. CASE C!Answer
  BY <1>4, <1>6, AnswerEffect
<1>7. CASE C!Unanswered \/ C!WaitFails \/ C!Closed
  BY <1>4, <1>7, WaitEnds
<1>8. CASE C!RawRead \/ Aside
  BY <1>4, <1>8, RawReadEffect, AsideEffect
<1>9. CASE C!Close
  BY <1>4, <1>9, CloseEffect
<1>10. CASE UNCHANGED C!vars
  BY <1>4, <1>10 DEF C!vars
<1> QED
  BY <1>1, <1>2, <1>3, <1>4, <1>5, <1>6, <1>7, <1>8, <1>9, <1>10, ChannelSteps, PeerCases, Zenon

(* Answers stay in the order of the requests. *)
LEMMA ToldStep == ASSUME Bounds, ChannelState, Batch, InOrder, Told, [C!Next]_(C!vars) PROVE Told'
<1>t. requests \in Seq(Datagrams) /\ taken \in Nat
  BY DEF ChannelState, QueueType
<1>1. CASE C!Receive
  <2>1. /\ requests # <<>> /\ taken' = taken + 1 /\ answered' = answered
        /\ thread.pc = "events" /\ thread'.pc \in {"open", "send"} /\ thread'.request = Head(requests).id
    BY <1>1, ReceiveEffect
  <2>2. Head(requests) = requests[1] /\ 1 \in 1 .. Len(requests)
    BY <1>t, <2>1, QueueOut, LenProperties, EmptySeq
  <2>3. thread'.request = taken + 1
    BY <2>1, <2>2 DEF InOrder
  <2>4. answered = Upto(taken) /\ taken' - 1 = taken
    BY <1>t, <2>1 DEF Told
  <2> QED
    BY <1>t, <2>1, <2>3, <2>4 DEF Told
<1>2. CASE C!Send
  <2>1. /\ thread.pc = "send" /\ thread'.pc \in {"step", "events", "exited"} /\ taken' = taken
        /\ thread'.pc # "exited" => answered' = Append(answered, thread.request)
    BY <1>2, SendEffect
  <2>2. thread.request = taken /\ taken - 1 \in Nat /\ answered = Upto(taken - 1)
    BY <1>t, <2>1 DEF Told
  <2>3. Append(answered, (taken - 1) + 1) = Upto((taken - 1) + 1)
    BY <2>2, UptoNext, Zenon
  <2>4. (taken - 1) + 1 = taken
    BY <1>t
  <2>5. thread'.pc # "exited" => answered' = Upto(taken)
    BY <2>1, <2>2, <2>3, <2>4, Zenon
  <2> QED
    BY <2>1, <2>5 DEF Told
<1>3. ASSUME NEW result \in C!Results, C!Opened(result) PROVE Told'
  BY <1>3, OpenedEffect DEF Told
<1>4. ASSUME NEW ok \in BOOLEAN, C!Armed(ok) PROVE Told'
  BY <1>4, ArmedEffect DEF Told
<1>5. CASE C!Step
  BY <1>5, StepEffect DEF Told
<1>6. CASE C!Wakeup \/ C!NothingToRead
  BY <1>6, IdleEventEffect DEF Told
<1>7. CASE PeerActions \/ UNCHANGED C!vars
  BY <1>7, PeersLeaveSrv DEF Told, C!vars
<1> QED
  BY <1>1, <1>2, <1>3, <1>4, <1>5, <1>6, <1>7, ChannelSteps, Zenon DEF ServerActions

(* What is read was sent, and only requests are answered. *)
LEMMA CountStep ==
  ASSUME Bounds, ChannelState, Batch, InOrder, [C!Next]_(C!vars)
  PROVE  taken' \in 0 .. MaxRequests /\ answered' \in Seq(C!Request)
<1>t. /\ taken \in 0 .. MaxRequests /\ answered \in Seq(C!Request) /\ requests \in Seq(Datagrams)
      /\ client.sent \in 0 .. MaxRequests
  BY DEF ChannelState, QueueType, ClientType
<1>1. CASE C!Receive
  <2>1. requests # <<>> /\ taken' = taken + 1 /\ answered' = answered
    BY <1>1, ReceiveEffect
  <2>2. Len(requests) \in Nat /\ Len(requests) # 0
    BY <1>t, <2>1, LenProperties, EmptySeq
  <2> QED
    BY <1>t, <2>1, <2>2 DEF InOrder, Bounds
<1>2. CASE C!Send
  <2>1. thread.request \in C!Request /\ taken' = taken
        /\ (answered' = answered \/ answered' = Append(answered, thread.request))
    BY <1>2, SendEffect DEF Batch
  <2> QED
    BY <1>t, <2>1, QueueIn, SMTT(30)
<1>3. CASE UNCHANGED <<taken, answered>>
  BY <1>t, <1>3
<1>4. ServerActions => C!Receive \/ C!Send \/ UNCHANGED <<taken, answered>>
  BY Zenon DEF ServerActions, C!Armed, C!Step, C!Wakeup, C!NothingToRead, C!Receive, C!Send, C!Opened
<1> QED
  BY <1>1, <1>2, <1>3, <1>4, ChannelSteps, PeersLeaveSrv DEF C!vars

-----------------------------------------------------------------------------
(* Descriptors of the server end. *)

(* Descriptors may come and go in flight and at the client.                 *)
LEMMA StreamsFrame ==
  ASSUME Streams, thread'.held = thread.held, thread'.request = thread.request, thread'.pc = thread.pc,
         \A r \in C!Request : /\ "held" \in holders'[r] <=> "held" \in holders[r]
                              /\ "srv" \in holders'[r] => "srv" \in holders[r]
  PROVE  Streams'
BY DEF Streams

(* The kept copy is the only one, or goes.                                  *)
LEMMA StreamsKept ==
  ASSUME Bounds, ChannelState, Streams, KeptOrDropped, thread.pc \notin {"open", "send"},
         thread'.pc \in {"arming", "open", "send", "exited"} => thread'.held = 0
  PROVE  HoldersType' /\ Streams'
<1>1. holders \in [C!Request -> SUBSET Holders]
  BY DEF ChannelState, HoldersType
<1>2. CASE thread'.held = thread.held /\ holders' = holders
  BY <1>1, <1>2 DEF Streams, HoldersType
<1>3. CASE thread.held # 0 /\ thread'.held = 0 /\ holders' = C!Drop("held", thread.held)
  <2>1. thread.held \in C!Request /\ 0 \notin C!Request
    BY <1>3 DEF ChannelState, SrvType, Threads, C!Request, Bounds
  <2>2. holders' \in [C!Request -> SUBSET Holders]
    BY <1>1, <1>3, <2>1 DEF C!Drop
  <2>3. \A r \in C!Request : holders'[r] = IF r = thread.held THEN holders[r] \ {"held"} ELSE holders[r]
    BY <1>1, <1>3, <2>1 DEF C!Drop
  <2>4. \A r \in C!Request : "held" \notin holders'[r] /\ "srv" \notin holders'[r]
    BY <2>3, Zenon DEF Streams
  <2> QED
    BY <1>3, <2>1, <2>2, <2>4 DEF Streams, HoldersType
<1> QED
  BY <1>2, <1>3 DEF KeptOrDropped

(* A response leaves its stream with the peer, or nowhere. *)
LEMMA SendStreams ==
  ASSUME Bounds, ChannelState, Batch, Streams, C!Send PROVE HoldersType' /\ Streams'
<1>1. holders \in [C!Request -> SUBSET Holders] /\ thread.request \in C!Request /\ 0 \notin C!Request
  BY DEF ChannelState, HoldersType, Batch, C!Send, C!Request, Bounds
<1>2. /\ thread.pc = "send" /\ thread'.pc \in {"step", "events", "exited"}
      /\ thread'.pc = "exited" => thread'.held = 0
  BY SendEffect
<1>3. /\ thread.held = 0
      /\ \A r \in C!Request : "held" \notin holders[r] /\ ("srv" \in holders[r] => r = thread.request)
  BY <1>1, <1>2 DEF Streams
<1>4. CASE thread'.pc = "exited" /\ holders' = C!Drop("srv", thread.request)
  <2>1. holders' \in [C!Request -> SUBSET Holders]
    BY <1>1, <1>4 DEF C!Drop
  <2>2. \A r \in C!Request : holders'[r] = IF r = thread.request THEN holders[r] \ {"srv"} ELSE holders[r]
    BY <1>1, <1>4, Zenon DEF C!Drop
  <2>3. \A r \in C!Request : "held" \notin holders'[r] /\ "srv" \notin holders'[r]
    BY <1>3, <2>2, Zenon
  <2> QED
    BY <1>1, <1>2, <1>4, <2>1, <2>3 DEF Streams, HoldersType
<1>5. CASE /\ thread'.held \in {0, thread.request} /\ (thread'.held # 0 => Carried)
           /\ holders' = [holders EXCEPT ![thread.request] =
                     IF Carried THEN {"flight"} \cup (IF thread'.held = thread.request
                                                       THEN {"held"} ELSE {})
                     ELSE @]
  <2>1. CASE Carried
    <3>1. holders' = [holders EXCEPT ![thread.request] =
                        {"flight"} \cup (IF thread'.held = thread.request THEN {"held"} ELSE {})]
      BY <1>5, <2>1
    <3>2. \A r \in C!Request : holders'[r] =
             IF r = thread.request
             THEN {"flight"} \cup (IF thread'.held = thread.request THEN {"held"} ELSE {})
             ELSE holders[r]
      BY <1>1, <3>1
    <3>3. holders' \in [C!Request -> SUBSET Holders]
      BY <1>1, <3>1 DEF Holders
    <3>4. \A r \in C!Request : /\ "held" \in holders'[r] <=> thread'.held = r
                               /\ "srv" \notin holders'[r]
      BY <1>1, <1>3, <1>5, <3>2
    <3> QED
      BY <1>2, <3>3, <3>4 DEF Streams, HoldersType
  <2>2. CASE ~Carried
    <3>1. holders' = holders /\ thread'.held = 0
      BY <1>1, <1>5, <2>2
    <3>2. \A r \in C!Request : "srv" \notin holders[r]
      BY <1>3, <2>2 DEF Carried
    <3> QED
      BY <1>1, <1>2, <1>3, <3>1, <3>2 DEF Streams, HoldersType
  <2> QED
    BY <2>1, <2>2
<1> QED
  BY <1>4, <1>5, SendEffect, Zenon

(* A descriptor of the server is the one it works on, or the one it holds. *)
LEMMA StreamsStep ==
  ASSUME Bounds, ChannelState, Batch, Streams, [C!Next]_(C!vars) PROVE HoldersType' /\ Streams'
<1>h. holders \in [C!Request -> SUBSET Holders]
  BY DEF ChannelState, HoldersType
<1>1. CASE C!Receive
  BY <1>1, ReceiveEffect, StreamsKept
<1>2. CASE C!Send
  BY <1>2, SendStreams
<1>3. ASSUME NEW result \in C!Results, C!Opened(result) PROVE HoldersType' /\ Streams'
  <2>1. /\ thread.pc = "open" /\ thread'.pc = "send" /\ thread'.held = thread.held
        /\ thread'.request = thread.request
        /\ holders' \in {holders, [holders EXCEPT ![thread.request] = {"srv"}]}
    BY <1>3, OpenedEffect
  <2>2. thread.request \in C!Request /\ 0 \notin C!Request /\ thread.held = 0
    BY <2>1 DEF Batch, C!Request, Bounds, Streams
  <2>3. CASE holders' = holders
    BY <1>h, <2>1, <2>2, <2>3 DEF HoldersType, Streams
  <2>4. CASE holders' = [holders EXCEPT ![thread.request] = {"srv"}]
    <3>1. holders' \in [C!Request -> SUBSET Holders]
      BY <1>h, <2>2, <2>4 DEF Holders
    <3>2. \A r \in C!Request : holders'[r] = IF r = thread.request THEN {"srv"} ELSE holders[r]
      BY <1>h, <2>2, <2>4
    <3> QED
      BY <2>1, <2>2, <3>1, <3>2 DEF HoldersType, Streams
  <2> QED
    BY <2>1, <2>3, <2>4
<1>4. ASSUME NEW ok \in BOOLEAN, C!Armed(ok) PROVE HoldersType' /\ Streams'
  <2>1. /\ thread'.pc \in {"step", "exited"} /\ thread'.held = thread.held /\ thread.pc = "arming"
        /\ holders' = holders /\ thread.held = 0
    BY <1>4, ArmedEffect DEF Streams
  <2> QED
    BY <1>h, <2>1 DEF Streams, HoldersType
<1>5. CASE C!Step
  <2>1. thread.pc = "step" /\ thread'.pc \in {"step", "events"} /\ KeptOrDropped
    BY <1>5, StepEffect, Zenon DEF KeptOrDropped
  <2> QED
    BY <2>1, StreamsKept
<1>6. CASE C!Wakeup \/ C!NothingToRead
  BY <1>6, IdleEventEffect, StreamsKept
<1>7. CASE PeerActions
  <2>1. UNCHANGED thread
    BY <1>7, PeersLeaveSrv
  <2>2. /\ holders' \in [C!Request -> SUBSET Holders]
        /\ \A r \in C!Request : /\ "held" \in holders'[r] <=> "held" \in holders[r]
                                /\ "srv" \in holders'[r] => "srv" \in holders[r]
    <3>1. CASE C!Answer
      <4>1. Head(responses).of \in C!Request
        BY <3>1, AnswerEffect DEF Replies
      <4>2. PICK got \in SUBSET {"client"} :
               holders' = [holders EXCEPT ![Head(responses).of] =
                  IF Head(responses).rights THEN (@ \ {"flight"}) \cup got ELSE @]
        <5>1. ASSUME NEW result
              PROVE  (IF result = "OK" THEN {"client"} ELSE {}) \in SUBSET {"client"}
          OBVIOUS
        <5> QED
          BY <3>1, <5>1, Zenon DEF C!Answer
      <4> QED
        BY <1>h, <4>1, <4>2, Zenon DEF Holders
    <3>2. CASE C!RawRead
      <4>1. Head(responses).of \in C!Request
        BY <3>2, RawReadEffect DEF Replies
      <4>2. holders' = [holders EXCEPT ![Head(responses).of] =
               IF "flight" \in @ THEN (@ \ {"flight"}) \cup {"client"} ELSE @]
        BY <3>2 DEF C!RawRead
      <4> QED
        BY <1>h, <4>1, <4>2 DEF Holders
    <3>3. CASE C!Close
      <4>1. holders' = [r \in C!Request |-> holders[r] \ {"flight"}]
        BY <3>3 DEF C!Close
      <4> QED
        BY <1>h, <4>1
    <3>4. ASSUME NEW r \in C!Request, C!CloseStream(r)
          PROVE  /\ holders' \in [C!Request -> SUBSET Holders]
                 /\ \A q \in C!Request : /\ "held" \in holders'[q] <=> "held" \in holders[q]
                                         /\ "srv" \in holders'[q] => "srv" \in holders[q]
      <4>1. holders' = [holders EXCEPT ![r] = @ \ {"client"}]
        BY <3>4 DEF C!CloseStream, C!Drop
      <4> QED
        BY <1>h, <4>1
    <3>5. CASE UNCHANGED holders
      BY <1>h, <3>5
    <3>6. \/ C!Answer \/ C!RawRead \/ C!Close \/ (\E r \in C!Request : C!CloseStream(r))
          \/ UNCHANGED holders
      BY <1>7, Zenon DEF PeerActions, C!Stop, C!Destroy, C!Joined, C!Call, C!Unanswered, C!WaitFails, C!Closed,
                  C!RawSend
    <3> QED
      BY <3>1, <3>2, <3>3, <3>4, <3>5, <3>6
  <2> QED
    BY <2>1, <2>2, StreamsFrame DEF HoldersType
<1>8. CASE UNCHANGED C!vars
  BY <1>h, <1>8 DEF C!vars, Streams, HoldersType
<1> QED
  BY <1>1, <1>2, <1>3, <1>4, <1>5, <1>6, <1>7, <1>8, ChannelSteps, Zenon DEF ServerActions

-----------------------------------------------------------------------------
(* The client library: an answer belongs to the call that reads it. *)

(* The thread goes on without touching a queue.                             *)
LEMMA PairedFrame ==
  ASSUME Paired, UNCHANGED <<client, requests, responses>>, Inside' => Inside,
         thread.pc = "exited" => thread'.pc = "exited"
  PROVE  Paired'
BY DEF Paired, Between, Waiting, C!AnswersPair

(* A response is queued while its call waits: it is the only one.           *)
LEMMA SendPaired ==
  ASSUME Bounds, ChannelState, Batch, InOrder, Told, Paired, C!Send PROVE Paired'
<1>1. /\ thread.pc = "send" /\ thread'.pc \in {"step", "events", "exited"}
      /\ UNCHANGED <<client, requests>>
  BY SendEffect
<1>2. Inside /\ ~Inside' /\ thread.pc # "exited"
  BY <1>1 DEF Inside
<1>3. ~(Library /\ client.faults = 0 /\ ~client.shut /\ client.pc = "idle")
  BY <1>2 DEF Paired, Between
<1>4. ASSUME client.faults = 0, client.pc = "wait" PROVE Waiting'
  <2>1. requests = <<>> /\ responses = <<>> /\ ~client.shut
    BY <1>2, <1>4 DEF Paired, Waiting
  <2>2. thread.request = client.sent
    <3>1. thread.request = taken /\ taken \in Nat /\ Len(requests) = 0
      BY <1>1, <2>1, EmptySeq DEF Told, ChannelState, QueueType
    <3> QED
      BY <1>2, <2>1, <3>1 DEF InOrder
  <2>3. CASE responses' = responses
    BY <1>1, <1>2, <2>1, <2>3, EmptySeq DEF Waiting
  <2>4. CASE responses' # responses
    <3> DEFINE reply == [of |-> thread.request, status |-> thread.status, rights |-> Carried]
    <3>1. responses' = Append(responses, reply)
      BY <2>4, SendEffect, Zenon
    <3>2. reply \in Replies /\ reply.of = client.sent
      BY <2>2, <1>1 DEF Batch, ChannelState, SrvType, Threads, Replies, Carried
    <3> HIDE DEF reply
    <3>3. responses \in Seq(Replies) /\ Len(responses) = 0
      BY <2>1, EmptySeq DEF ChannelState, QueueType
    <3>4. Len(responses') = 1 /\ responses'[1] = reply
      BY <3>1, <3>2, <3>3, QueueIn
    <3>5. Len(requests') = 0
      BY <1>1, <2>1, EmptySeq
    <3> QED
      BY <1>1, <1>2, <3>2, <3>4, <3>5 DEF Waiting
  <2> QED
    BY <2>3, <2>4
<1> QED
  BY <1>1, <1>3, <1>4 DEF Paired, C!AnswersPair

(* A request read was the one the call waits for. *)
LEMMA ReceivePaired ==
  ASSUME Bounds, ChannelState, Batch, Paired, C!Receive PROVE Paired'
<1>1. /\ thread.pc = "events" /\ thread'.pc \in {"open", "send"} /\ requests # <<>>
      /\ requests' = Tail(requests) /\ UNCHANGED <<client, responses>>
  BY ReceiveEffect
<1>2. ~(Library /\ client.faults = 0 /\ ~client.shut /\ client.pc = "idle")
  BY <1>1 DEF Paired, Between
<1>3. ASSUME client.faults = 0, client.pc = "wait" PROVE Waiting'
  <2>1. requests \in Seq(Datagrams) /\ responses \in Seq(Replies)
    BY DEF ChannelState, QueueType
  <2>2. Len(requests) + Len(responses) <= 1
    BY <1>1, <1>3 DEF Paired, Waiting
  <2>3. /\ Len(requests) \in Nat /\ Len(requests) # 0 /\ Len(responses) \in Nat
        /\ requests' \in Seq(Datagrams) /\ Len(requests') = Len(requests) - 1
    BY <1>1, <2>1, QueueOut, EmptySeq, LenProperties
  <2>4. Len(responses) = 0 /\ Len(requests') = 0
    BY <2>2, <2>3
  <2>5. responses = <<>> /\ requests' = <<>>
    BY <2>1, <2>3, <2>4, EmptySeq
  <2>6. Len(responses') = 0 /\ Len(requests') = 0 /\ responses' = <<>> /\ requests' = <<>>
    BY <1>1, <2>4, <2>5
  <2> QED
    BY <2>6 DEF Waiting
<1> QED
  BY <1>1, <1>2, <1>3 DEF Paired, C!AnswersPair

(* A call starts with nothing on its way, and puts one request there. *)
LEMMA CallPaired ==
  ASSUME Bounds, ChannelState, Paired, C!Call PROVE Paired'
<1>1. /\ Library /\ client.pc = "idle" /\ client'.shut = client.shut
      /\ client'.faults = client.faults /\ UNCHANGED <<thread, responses>>
  BY CallEffect
<1>2. client.faults = 0 /\ ~client.shut => Between
  BY <1>1 DEF Paired
<1>3. CASE /\ client.shut \/ thread.pc = "exited"
           /\ client'.pc = "idle" /\ requests' = requests
           /\ client'.last = [call |-> client'.sent, result |-> "IO", of |-> 0]
  <2>1. client'.last.of = 0
    BY <1>3
  <2> QED
    BY <1>1, <1>2, <1>3, <2>1 DEF Paired, Between, C!AnswersPair, Inside
<1>4. CASE /\ ~client.shut /\ thread.pc # "exited" /\ client'.pc = "wait"
           /\ client'.last = client.last
           /\ requests' = Append(requests, [id |-> client'.sent, kind |-> "good"])
  <2>1. ASSUME client.faults = 0 PROVE Waiting'
    <3>1. requests = <<>> /\ responses = <<>> /\ ~Inside
      BY <1>2, <1>4, <2>1 DEF Between
    <3>2. [id |-> client'.sent, kind |-> "good"] \in Datagrams
      BY CallEffect DEF Datagrams, C!Request, C!Kinds, ChannelState, ClientType
    <3>3. Len(requests') = 1 /\ Len(responses) = 0
      BY <1>4, <3>1, <3>2, QueueIn, EmptySeq DEF ChannelState, QueueType
    <3> QED
      BY <1>1, <3>1, <3>3 DEF Waiting, Inside
  <2> QED
    BY <1>1, <1>4, <2>1 DEF Paired, C!AnswersPair
<1> QED
  BY <1>3, <1>4, CallEffect, Zenon

(* The response a call takes is the response to that call. *)
LEMMA AnswerPaired ==
  ASSUME Bounds, ChannelState, Paired, C!Answer PROVE Paired'
<1>1. /\ client.pc = "wait" /\ client'.pc = "idle" /\ client'.sent = client.sent
      /\ client'.faults = client.faults /\ client'.shut = client.shut
      /\ client'.last.of = Head(responses).of /\ client'.last.call = client.sent
      /\ responses # <<>> /\ responses' = Tail(responses)
      /\ UNCHANGED <<thread, requests>>
  BY AnswerEffect
<1>2. ASSUME client.faults = 0 PROVE Between' /\ C!AnswersPair'
  <2>1. Waiting
    BY <1>1, <1>2 DEF Paired
  <2>2. requests \in Seq(Datagrams) /\ responses \in Seq(Replies)
    BY DEF ChannelState, QueueType
  <2>3. /\ Len(responses) \in Nat /\ Len(responses) # 0 /\ Len(requests) \in Nat
        /\ responses' \in Seq(Replies) /\ Len(responses') = Len(responses) - 1
        /\ Head(responses) = responses[1]
    BY <1>1, <2>2, QueueOut, EmptySeq, LenProperties
  <2>4. Len(responses) = 1 /\ Len(responses') = 0
    BY <2>1, <2>3 DEF Waiting
  <2>5. responses' = <<>> /\ Head(responses).of = client.sent
    BY <2>1, <2>3, <2>4, EmptySeq DEF Waiting
  <2>6. thread.pc # "exited" => Len(requests) = 0 /\ ~Inside
    BY <1>1, <2>1, <2>3, <2>4 DEF Waiting
  <2>7. thread.pc # "exited" => requests = <<>>
    BY <2>2, <2>6, EmptySeq
  <2> QED
    BY <1>1, <2>5, <2>6, <2>7 DEF Between, Inside, C!AnswersPair
<1> QED
  BY <1>1, <1>2 DEF Paired, C!AnswersPair

(* No step makes a call wait for another call's response. *)
LEMMA PairedStep ==
  ASSUME Bounds, ChannelState, Batch, InOrder, Told, Paired, [C!Next]_(C!vars) PROVE Paired'
<1>1. CASE C!Receive
  BY <1>1, ReceivePaired
<1>2. CASE C!Send
  BY <1>2, SendPaired
<1>3. ASSUME NEW result \in C!Results, C!Opened(result) PROVE Paired'
  BY <1>3, OpenedEffect, PairedFrame DEF Inside
<1>4. ASSUME NEW ok \in BOOLEAN, C!Armed(ok) PROVE Paired'
  BY <1>4, ArmedEffect, PairedFrame DEF Inside
<1>5. CASE C!Step
  BY <1>5, StepEffect, PairedFrame DEF Inside
<1>6. CASE C!Wakeup \/ C!NothingToRead
  BY <1>6, IdleEventEffect, PairedFrame DEF Inside
<1>7. CASE C!Call
  BY <1>7, CallPaired
<1>8. CASE C!Answer
  BY <1>8, AnswerPaired
<1>9. CASE C!Unanswered \/ C!WaitFails \/ C!Closed
  BY <1>9, WaitEnds DEF Paired, Between, C!AnswersPair, Inside
<1>10. ASSUME NEW kind \in C!Kinds, C!RawSend(kind) PROVE Paired'
  BY <1>10, RawSendEffect, Zenon DEF Paired, C!AnswersPair
<1>11. CASE C!RawRead
  BY <1>11, RawReadEffect DEF Paired, C!AnswersPair
<1>12. CASE C!Close
  BY <1>12, CloseEffect DEF Paired, C!AnswersPair, Between, Inside
<1>13. CASE Aside \/ UNCHANGED C!vars
  <2>1. UNCHANGED <<thread, client, requests, responses>>
    BY <1>13, AsideEffect DEF C!vars
  <2> QED
    BY <2>1, PairedFrame DEF Inside
<1> QED
  BY <1>1, <1>2, <1>3, <1>4, <1>5, <1>6, <1>7, <1>8, <1>9, <1>10, <1>11, <1>12, <1>13,
     ChannelSteps, PeerCases, Zenon DEF ServerActions

-----------------------------------------------------------------------------
(* The theorems. *)

(* The supervisor and its wakeup keep their types. *)
LEMMA OwnerStep == ASSUME ChannelState, [C!Next]_(C!vars) PROVE OwnerType'
<1>1. ServerActions => OwnerType'
  BY Zenon DEF ServerActions, C!Armed, C!Step, C!Wakeup, C!NothingToRead, C!Receive, C!Send, C!Opened,
         ChannelState, OwnerType
<1>2. PeerActions => OwnerType'
  BY Zenon DEF PeerActions, C!Stop, C!Destroy, C!Joined, C!Call, C!Unanswered, C!WaitFails, C!Answer, C!Closed,
         C!RawSend, C!RawRead, C!Close, C!CloseStream, ChannelState, OwnerType
<1> QED
  BY <1>1, <1>2, ChannelSteps DEF C!vars, ChannelState, OwnerType

(* A new channel satisfies the invariant. *)
LEMMA InitChannelInv == ASSUME Bounds, C!Init PROVE ChannelInv
<1>1. SrvType /\ Batch
  <2>1. <<>> \in Seq(C!Events) /\ Len(<<>>) = 0 /\ 0 \in 0 .. MaxRequests
    BY EmptySeq DEF Bounds
  <2>2. "OK" \in C!Statuses /\ "arming" \in C!ServerPcs
    BY DEF C!Statuses, C!ServerPcs
  <2> QED
    BY <2>1, <2>2 DEF C!Init, SrvType, Threads, Batch
<1>2. ClientType
  <2>1. "OK" \in C!ClientResults
    BY DEF C!ClientResults, C!FromStatus, C!Statuses
  <2> QED
    BY <2>1 DEF C!Init, ClientType, Bounds
<1>3. QueueType
  BY EmptySeq DEF C!Init, QueueType, Bounds
<1>4. HoldersType /\ OwnerType
  BY Zenon DEF C!Init, HoldersType, OwnerType
<1>5. Order
  <2>1. <<>> = Upto(0)
    BY DEF Upto
  <2> QED
    BY <2>1, EmptySeq DEF C!Init, Order
<1>6. Streams
  BY DEF C!Init, Streams, C!Request, Bounds
<1>7. Paired
  BY DEF C!Init, Paired, Between, Inside, C!AnswersPair
<1> QED
  BY <1>1, <1>2, <1>3, <1>4, <1>5, <1>6, <1>7 DEF ChannelInv, ChannelState

(* And every step keeps it. *)
LEMMA NextChannelInv == ASSUME Bounds, ChannelInv, [C!Next]_(C!vars) PROVE ChannelInv'
<1>1. ChannelState /\ Batch /\ InOrder /\ Told /\ Streams /\ Paired
  BY OrderParts DEF ChannelInv
<1>2. SrvType' /\ Batch'
  BY <1>1, SrvStep
<1>3. ClientType' /\ OwnerType' /\ RequestsType' /\ RepliesType'
  BY <1>1, ClientStep, OwnerStep, RequestsStep, RepliesStep
<1>4. taken' \in 0 .. MaxRequests /\ answered' \in Seq(C!Request)
  BY <1>1, CountStep
<1>5. InOrder' /\ Told'
  BY <1>1, NumberedStep, ToldStep
<1>6. Order'
  BY <1>5, Zenon DEF Order, InOrder, Told
<1>7. HoldersType' /\ Streams'
  BY <1>1, StreamsStep
<1>8. Paired'
  BY <1>1, PairedStep
<1>9. QueueType'
  BY <1>3, <1>4 DEF QueueType, RequestsType, RepliesType
<1> QED
  BY <1>2, <1>3, <1>6, <1>7, <1>8, <1>9, Zenon DEF ChannelInv, ChannelState

(* The types, the order, the streams and the pairing hold at every step of *)
(* a channel of channel_server.c, its peer and its supervisor.             *)
THEOREM Invariant == Bounds => (C!Spec => []ChannelInv)
<1> SUFFICES ASSUME Bounds PROVE C!Spec => []ChannelInv
  OBVIOUS
<1>1. C!Init => ChannelInv
  BY InitChannelInv
<1>2. ChannelInv /\ [C!Next]_(C!vars) => ChannelInv'
  BY NextChannelInv
<1> QED
  BY <1>1, <1>2, PTL DEF C!Spec

(* The state of a channel is well typed, a batch has at most two events, and *)
(* no queue holds more than the kernel takes.                                *)
THEOREM ChannelTypes == Bounds => (C!Spec => []C!TypeOK)
<1> SUFFICES ASSUME Bounds PROVE C!Spec => []C!TypeOK
  OBVIOUS
<1>1. ChannelInv => C!TypeOK
  BY DEF ChannelInv, ChannelState, SrvType, Threads, ClientType, QueueType, HoldersType, OwnerType,
         Datagrams, Replies, Holders, C!TypeOK
<1>2. C!Spec => []ChannelInv
  BY Invariant
<1> QED
  BY <1>1, <1>2, PTL

(* channel_server.c never leaves a request unanswered while the channel is   *)
(* open: each has had its response, once and in the order of the requests.   *)
THEOREM AnsweredInOrder == Bounds => (C!Spec => []C!NeverUnanswered)
<1> SUFFICES ASSUME Bounds PROVE C!Spec => []C!NeverUnanswered
  OBVIOUS
<1>1. ChannelInv => C!NeverUnanswered
  BY DEF ChannelInv, Order, Upto, C!NeverUnanswered
<1>2. C!Spec => []ChannelInv
  BY Invariant
<1> QED
  BY <1>1, <1>2, PTL

(* Outside serve_one the thread has no descriptor of a stream but the one    *)
(* copy it keeps, and none after its end, so an undelivered stream is closed. *)
THEOREM NoStreamKept == Bounds => (C!Spec => []C!ServerKeepsNone)
<1> SUFFICES ASSUME Bounds PROVE C!Spec => []C!ServerKeepsNone
  OBVIOUS
<1>1. ChannelInv => C!ServerKeepsNone
  <2> SUFFICES ASSUME ChannelInv PROVE C!ServerKeepsNone
    OBVIOUS
  <2>1. Streams /\ holders \in [C!Request -> SUBSET Holders] /\ 0 \notin C!Request
    BY DEF ChannelInv, ChannelState, HoldersType, C!Request, Bounds
  <2>2. thread.pc \notin {"open", "send"} => \A r \in C!Request :
               "srv" \notin holders[r] /\ ("held" \in holders[r] <=> thread.held = r)
    BY <2>1 DEF Streams
  <2>3. thread.pc = "exited" => \A r \in C!Request : holders[r] \subseteq {"flight", "client"}
    <3> SUFFICES ASSUME thread.pc = "exited", NEW r \in C!Request
                 PROVE  holders[r] \subseteq {"flight", "client"}
      OBVIOUS
    <3>1. "srv" \notin holders[r] /\ "held" \notin holders[r]
      BY <2>1, <2>2 DEF Streams
    <3>2. holders[r] \subseteq Holders
      BY <2>1
    <3> QED
      BY <3>1, <3>2 DEF Holders
  <2> QED
    BY <2>2, <2>3 DEF C!ServerKeepsNone
<1>2. C!Spec => []ChannelInv
  BY Invariant
<1> QED
  BY <1>1, <1>2, PTL

(* The result of a call of maelys_egress_client_connect is of the request of *)
(* that very call, also after deadlines that passed with their answers on    *)
(* the way, as long as no wait of the channel failed.                        *)
THEOREM AnswersOfTheirCalls == Bounds => (C!Spec => []C!AnswersPair)
<1> SUFFICES ASSUME Bounds PROVE C!Spec => []C!AnswersPair
  OBVIOUS
<1>1. ChannelInv => C!AnswersPair
  BY DEF ChannelInv, Paired
<1>2. C!Spec => []ChannelInv
  BY Invariant
<1> QED
  BY <1>1, <1>2, PTL

(* A call sends its request only when nothing of an earlier one is left on   *)
(* the channel, as long as no wait of it failed.                             *)
THEOREM RequestsOneByOne == Bounds => (C!Spec => C!OneAtATime)
<1> SUFFICES ASSUME Bounds PROVE C!Spec => C!OneAtATime
  OBVIOUS
<1> DEFINE Alone == client.faults = 0 /\ client.pc = "idle" /\ client'.pc = "wait" =>
                      requests = <<>> /\ responses = <<>> /\ thread.pc \notin {"open", "send"}
<1>1. ChannelInv /\ [C!Next]_(C!vars) => [Alone]_(C!vars)
  <2> SUFFICES ASSUME ChannelInv, [C!Next]_(C!vars), client.faults = 0, client.pc = "idle",
                      client'.pc = "wait"
               PROVE  requests = <<>> /\ responses = <<>> /\ thread.pc \notin {"open", "send"}
    BY DEF Alone
  <2>1. ChannelState /\ Paired
    BY DEF ChannelInv
  <2>2. C!Call
    <3>1. ~C!Answer /\ ~(C!Unanswered \/ C!WaitFails \/ C!Closed) /\ ~C!Close
      BY <2>1, AnswerEffect, WaitEnds, CloseEffect
    <3>2. ~\E kind \in C!Kinds : C!RawSend(kind)
      BY <2>1, RawSendEffect
    <3>3. ~C!RawRead /\ ~Aside /\ ~ServerActions /\ ~UNCHANGED C!vars
      BY <2>1, RawReadEffect, AsideEffect, ServerLeavesClient DEF C!vars
    <3> QED
      BY <3>1, <3>2, <3>3, ChannelSteps, PeerCases, Zenon
  <2>3. Library /\ ~client.shut /\ thread.pc # "exited"
    BY <2>1, <2>2, CallEffect
  <2> QED
    BY <2>1, <2>3 DEF Paired, Between, Inside
<1>2. C!Spec => []ChannelInv
  BY Invariant
<1> QED
  BY <1>1, <1>2, PTL DEF C!Spec, C!OneAtATime
=============================================================================
