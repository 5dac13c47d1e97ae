----------------------------- MODULE Connector -----------------------------
(***************************************************************************)
(* Native connector sessions: egress_server_open_stream, run by embedder   *)
(* threads, against the owner thread of the server                         *)
(* (maelys_egress_server_run, _stop, _destroy).                            *)
(*                                                                         *)
(* A call allocates one open command, queues it under command_lock, wakes  *)
(* the reactor and waits on the command's condition up to a deadline.  The *)
(* owner detaches the queue, gives each command a connection slot, and     *)
(* completes it when the upstream connection succeeds or fails.  A call    *)
(* that gives up only raises `cancelled'; the two sides share the command  *)
(* through a reference count, and the two ends of a private TCP pair       *)
(* (server_socket, client_fd) move between command, slot and caller.       *)
(*                                                                         *)
(* One step is one region under a lock or one atomic operation.  The       *)
(* policy, the quotas and the relay are abstracted to the outcomes the     *)
(* open command can see; Relay.tla models them.                            *)
(***************************************************************************)
EXTENDS Integers, Sequences, Functions

CONSTANTS
  Calls,            \* calls of session_open, each by a thread with its own connector
  NoCall,           \* a null egress_open_command_t pointer
  MaxConnections,   \* config.max_connections
  Failures,         \* results of the local and policy failures considered
  WakeMayFail       \* whether maelys_sys_loop_wake of a live loop may fail

ASSUME CallsAssumption == NoCall \notin Calls
ASSUME SlotsAssumption == MaxConnections \in Nat \ {0}
ASSUME FailuresAssumption == Failures \subseteq {"DENIED", "IO", "MEMORY"}
ASSUME WakeAssumption == WakeMayFail \in BOOLEAN

Slots == 1..MaxConnections

Results == {"OK", "DENIED", "TIMEOUT", "CANCELLED", "STATE", "IO", "MEMORY"}

(* Holders of the two ends of a command's private TCP pair. *)
SocketHolders == {"none", "command", "slot", "closed"}
ClientHolders == {"none", "command", "caller", "closed"}

CallerPC == {"unbound", "bound", "create", "enqueue", "wake", "wait",
             "rewake", "release", "done", "gone"}

OwnerPC == {"idle", "top", "process", "connected", "complete", "drop", "cancel",
            "step", "dispatch", "expire", "reject", "rejecting", "closeall",
            "returned", "destroyed"}

VARIABLES
  pc,          \* where each calling thread is
  ret,         \* what egress_server_open_stream returned
  refs,        \* command->references
  cancelled,   \* command->cancelled
  completed,   \* command->completed
  cresult,     \* command->result
  sock,        \* holder of the relay's end, command->server_socket at first
  cfd,         \* holder of the caller's end, command->client_fd at first
  queue,       \* server->command_head .. command_tail
  batch,       \* the list the owner detached (local variable `commands')
  state,       \* connections[s].state
  peer,        \* the call whose server_socket is connections[s].client_socket
  opencmd,     \* connections[s].open_command
  stopping, finalized, running, started,
  references,  \* server->references
  wakeup,      \* a maelys_sys_loop_wake not yet consumed by a loop step
  failed,      \* maelys_egress_server_run left its loop on a reactor error
  opc,         \* where the owner thread is
  phase,       \* which of the two passes of the loop body is running
  kont,        \* where the owner goes on after completing a command
  ocmd, ores,  \* the command being completed, and with what
  oslot,       \* the slot being connected or closed, 0 for none
  scan         \* loop index of a walk over the slots

commandVars == <<refs, cancelled, completed, cresult>>
pairVars    == <<sock, cfd>>
slotVars    == <<state, peer, opencmd>>
flagVars    == <<stopping, finalized, running, started>>
ownerVars   == <<opc, phase, kont, ocmd, ores, oslot, scan>>
vars == <<pc, ret, commandVars, pairVars, queue, batch, slotVars, flagVars,
          references, wakeup, failed, ownerVars>>

CallerType ==
  /\ pc \in [Calls -> CallerPC]
  /\ ret \in [Calls -> Results \cup {"none"}]
CommandType ==
  /\ refs \in [Calls -> Nat]
  /\ cancelled \in [Calls -> BOOLEAN]
  /\ completed \in [Calls -> BOOLEAN]
  /\ cresult \in [Calls -> Results]
PairType == sock \in [Calls -> SocketHolders] /\ cfd \in [Calls -> ClientHolders]
ListType == queue \in Seq(Calls) /\ batch \in Seq(Calls)
SlotType ==
  /\ state \in [Slots -> {"unused", "opening", "connecting", "relay"}]
  /\ peer \in [Slots -> Calls \cup {NoCall}]
  /\ opencmd \in [Slots -> Calls \cup {NoCall}]
ServerType ==
  /\ stopping \in BOOLEAN /\ finalized \in BOOLEAN
  /\ running \in BOOLEAN /\ started \in BOOLEAN
  /\ wakeup \in BOOLEAN /\ failed \in BOOLEAN
  /\ references \in Nat
OwnerType ==
  /\ opc \in OwnerPC /\ kont \in OwnerPC
  /\ phase \in {1, 2}
  /\ ocmd \in Calls \cup {NoCall} /\ ores \in Results
  /\ oslot \in Slots \cup {0}
  /\ scan \in 1..(MaxConnections + 1)

TypeOK ==
  CallerType /\ CommandType /\ PairType /\ ListType /\ SlotType /\ ServerType /\ OwnerType

Init ==
  /\ pc = [c \in Calls |-> "unbound"]
  /\ ret = [c \in Calls |-> "none"]
  /\ refs = [c \in Calls |-> 0]
  /\ cancelled = [c \in Calls |-> FALSE]
  /\ completed = [c \in Calls |-> FALSE]
  /\ cresult = [c \in Calls |-> "OK"]
  /\ sock = [c \in Calls |-> "none"]
  /\ cfd = [c \in Calls |-> "none"]
  /\ queue = <<>> /\ batch = <<>>
  /\ state = [s \in Slots |-> "unused"]
  /\ peer = [s \in Slots |-> NoCall]
  /\ opencmd = [s \in Slots |-> NoCall]
  /\ stopping = FALSE /\ finalized = FALSE /\ running = FALSE /\ started = FALSE
  /\ references = 1
  /\ wakeup = FALSE /\ failed = FALSE
  /\ opc = "idle" /\ phase = 1 /\ kont = "top"
  /\ ocmd = NoCall /\ ores = "OK" /\ oslot = 0 /\ scan = 1

-----------------------------------------------------------------------------
(* open_command_release: the last reference closes what the command still   *)
(* holds of its pair.                                                       *)

Release(c) ==
  /\ refs' = [refs EXCEPT ![c] = @ - 1]
  /\ cfd' = IF refs[c] = 1 /\ cfd[c] = "command"
            THEN [cfd EXCEPT ![c] = "closed"] ELSE cfd

(* Mutant: a command freed before a slot took its relay end leaks it. *)
SockLeaked(c) == sock

SockAfterRelease(c) ==
  IF refs[c] = 1 /\ sock[c] = "command" THEN [sock EXCEPT ![c] = "closed"] ELSE sock

LifecycleFree == finalized => opc = "destroyed"

(* server_loop_wake_if_live. *)
(* Mutant: the wake is not remembered by the loop. *)
WakeLost(woke) ==
  LifecycleFree /\ (woke => ~finalized) /\ UNCHANGED wakeup

WakeIfLive(woke) ==
  /\ LifecycleFree
  /\ woke => ~finalized
  /\ ~woke => finalized \/ WakeMayFail
  /\ wakeup' = (wakeup \/ woke)

-----------------------------------------------------------------------------
(* The calling thread: connector_create, then session_open.                 *)

Return(c, r) == ret' = [ret EXCEPT ![c] = r]

Bind(c) ==
  /\ pc[c] = "unbound"
  /\ references > 0                     \* the caller holds a live server handle
  /\ LifecycleFree
  /\ \/ /\ ~finalized /\ ~stopping      \* authenticated
        /\ references' = references + 1
        /\ pc' = [pc EXCEPT ![c] = "bound"]
     \/ /\ pc' = [pc EXCEPT ![c] = "gone"]   \* stopping, or credentials refused
        /\ UNCHANGED references
  /\ UNCHANGED <<ret, commandVars, pairVars, queue, batch, slotVars, flagVars,
                 wakeup, failed, ownerVars>>

OpenCheck(c) ==
  /\ pc[c] = "bound"
  /\ IF stopping \/ finalized
     THEN Return(c, "STATE") /\ pc' = [pc EXCEPT ![c] = "done"]
     ELSE pc' = [pc EXCEPT ![c] = "create"] /\ UNCHANGED ret
  /\ UNCHANGED <<commandVars, pairVars, queue, batch, slotVars, flagVars,
                 references, wakeup, failed, ownerVars>>

(* Allocation of the command and its private pair, or its failure. *)
Create(c) ==
  /\ pc[c] = "create"
  /\ \/ /\ refs' = [refs EXCEPT ![c] = 1]
        /\ sock' = [sock EXCEPT ![c] = "command"]
        /\ cfd' = [cfd EXCEPT ![c] = "command"]
        /\ pc' = [pc EXCEPT ![c] = "enqueue"]
        /\ UNCHANGED ret
     \/ /\ \E r \in Failures \ {"DENIED"} : Return(c, r)
        /\ pc' = [pc EXCEPT ![c] = "done"]
        /\ UNCHANGED <<refs, pairVars>>
  /\ UNCHANGED <<cancelled, completed, cresult, queue, batch, slotVars,
                 flagVars, references, wakeup, failed, ownerVars>>

(* Under command_lock, which the owner also takes to detach the queue. *)
(* Mutant: stopping is not tested again under the lock. *)
EnqueueUnchecked(c) ==
  /\ pc[c] = "enqueue"
  /\ refs' = [refs EXCEPT ![c] = @ + 1]
  /\ queue' = Append(queue, c)
  /\ pc' = [pc EXCEPT ![c] = "wake"]
  /\ UNCHANGED <<ret, pairVars, cancelled, completed, cresult, batch, slotVars,
                 flagVars, references, wakeup, failed, ownerVars>>

Enqueue(c) ==
  /\ pc[c] = "enqueue"
  /\ IF stopping \/ finalized
     THEN /\ Release(c) /\ sock' = SockAfterRelease(c)
          /\ Return(c, "CANCELLED")
          /\ pc' = [pc EXCEPT ![c] = "done"]
          /\ UNCHANGED queue
     ELSE /\ refs' = [refs EXCEPT ![c] = @ + 1]
          /\ queue' = Append(queue, c)
          /\ pc' = [pc EXCEPT ![c] = "wake"]
          /\ UNCHANGED <<ret, pairVars>>
  /\ UNCHANGED <<cancelled, completed, cresult, batch, slotVars, flagVars,
                 references, wakeup, failed, ownerVars>>

Wake(c) ==
  /\ pc[c] = "wake"
  /\ \E woke \in BOOLEAN :
       /\ WakeIfLive(woke)
       /\ cancelled' = IF woke THEN cancelled ELSE [cancelled EXCEPT ![c] = TRUE]
  /\ pc' = [pc EXCEPT ![c] = "wait"]
  /\ UNCHANGED <<ret, refs, completed, cresult, pairVars, queue, batch,
                 slotVars, flagVars, references, failed, ownerVars>>

(* The end of the wait, with command->mutex held up to the unlock. *)
Finish(c, r) ==
  /\ Return(c, r)
  /\ cfd' = IF r = "OK" THEN [cfd EXCEPT ![c] = "caller"] ELSE cfd
  /\ pc' = [pc EXCEPT ![c] = IF r = "OK" THEN "release" ELSE "rewake"]

WaitDone(c) ==
  /\ pc[c] = "wait"
  /\ completed[c]
  /\ Finish(c, cresult[c])
  /\ UNCHANGED <<commandVars, sock, queue, batch, slotVars, flagVars,
                 references, wakeup, failed, ownerVars>>

(* The condition wait timed out, or failed.  The owner may have completed   *)
(* the command before the thread had the mutex again.                       *)
(* Mutant: the deadline decides, whatever the owner completed meanwhile. *)
WaitTimeoutBlind(c) ==
  /\ pc[c] = "wait"
  /\ cancelled' = [cancelled EXCEPT ![c] = TRUE]
  /\ Finish(c, "TIMEOUT")
  /\ UNCHANGED <<refs, completed, cresult, sock, queue, batch, slotVars,
                 flagVars, references, wakeup, failed, ownerVars>>

WaitTimeout(c) ==
  /\ pc[c] = "wait"
  /\ cancelled' = [cancelled EXCEPT ![c] = TRUE]
  /\ \E r \in {"TIMEOUT"} \cup (Failures \cap {"IO"}) :
       Finish(c, IF completed[c] THEN cresult[c] ELSE r)
  /\ UNCHANGED <<refs, completed, cresult, sock, queue, batch, slotVars,
                 flagVars, references, wakeup, failed, ownerVars>>

Rewake(c) ==
  /\ pc[c] = "rewake"
  /\ \E woke \in BOOLEAN : WakeIfLive(woke)
  /\ pc' = [pc EXCEPT ![c] = "release"]
  /\ UNCHANGED <<ret, commandVars, pairVars, queue, batch, slotVars, flagVars,
                 references, failed, ownerVars>>

CallerRelease(c) ==
  /\ pc[c] = "release"
  /\ Release(c) /\ sock' = SockAfterRelease(c)
  /\ pc' = [pc EXCEPT ![c] = "done"]
  /\ UNCHANGED <<ret, cancelled, completed, cresult, queue, batch, slotVars,
                 flagVars, references, wakeup, failed, ownerVars>>

(* maelys_egress_session_release, or the holder closing the fd it took. *)
SessionRelease(c) ==
  /\ pc[c] \in {"done", "gone"}
  /\ cfd[c] = "caller"
  /\ cfd' = [cfd EXCEPT ![c] = "closed"]
  /\ UNCHANGED <<pc, ret, commandVars, sock, queue, batch, slotVars, flagVars,
                 references, wakeup, failed, ownerVars>>

(* maelys_egress_connector_release by the last holder. *)
(* Mutant: the connector's reference on the server is never given back. *)
ConnectorLeak(c) ==
  /\ pc[c] = "done"
  /\ pc' = [pc EXCEPT ![c] = "gone"]
  /\ UNCHANGED <<ret, commandVars, pairVars, queue, batch, slotVars, flagVars,
                 references, wakeup, failed, ownerVars>>

ConnectorRelease(c) ==
  /\ pc[c] = "done"
  /\ references' = references - 1
  /\ pc' = [pc EXCEPT ![c] = "gone"]
  /\ UNCHANGED <<ret, commandVars, pairVars, queue, batch, slotVars, flagVars,
                 wakeup, failed, ownerVars>>

Caller(c) ==
  \/ Bind(c) \/ OpenCheck(c) \/ Create(c) \/ Enqueue(c) \/ Wake(c)
  \/ WaitDone(c) \/ WaitTimeout(c) \/ Rewake(c) \/ CallerRelease(c)
  \/ SessionRelease(c) \/ ConnectorRelease(c)

-----------------------------------------------------------------------------
(* Completion on the owner thread, in two steps: egress_open_command_complete *)
(* under command->mutex, then the release of the server's reference.  `oslot'  *)
(* is the slot egress_connection_close is closing, 0 when it closes none.     *)

StartComplete(c, r, s, k) ==
  /\ ocmd' = c /\ ores' = r /\ oslot' = s /\ kont' = k
  /\ opc' = "complete"

(* egress_connection_close, its open command aside. *)
FreeSlot(s) ==
  /\ state' = [state EXCEPT ![s] = "unused"]
  /\ peer' = [peer EXCEPT ![s] = NoCall]

StartClose(s, r, k) ==
  IF opencmd[s] # NoCall
  THEN /\ StartComplete(opencmd[s], IF r = "OK" THEN "IO" ELSE r, s, k)
       /\ opencmd' = [opencmd EXCEPT ![s] = NoCall]
       /\ UNCHANGED <<state, peer, sock>>
  ELSE /\ FreeSlot(s)
       /\ sock' = [sock EXCEPT ![peer[s]] = "closed"]
       /\ opc' = k
       /\ UNCHANGED <<opencmd, kont, ocmd, ores, oslot>>

Complete ==
  /\ opc = "complete"
  /\ IF completed[ocmd]
     THEN UNCHANGED <<completed, cresult>>
     ELSE /\ completed' = [completed EXCEPT ![ocmd] = TRUE]
          /\ cresult' = [cresult EXCEPT ![ocmd] =
               IF cancelled[ocmd] /\ ores = "OK" THEN "CANCELLED" ELSE ores]
  /\ opc' = "drop"
  /\ UNCHANGED <<pc, ret, refs, cancelled, pairVars, queue, batch, slotVars,
                 flagVars, references, wakeup, failed, phase, kont, ocmd, ores,
                 oslot, scan>>

Drop ==
  /\ opc = "drop"
  /\ Release(ocmd)
  /\ IF oslot # 0
     THEN /\ FreeSlot(oslot)
          /\ sock' = [SockAfterRelease(ocmd) EXCEPT ![peer[oslot]] = "closed"]
     ELSE /\ sock' = SockAfterRelease(ocmd)
          /\ UNCHANGED <<state, peer>>
  /\ opc' = kont
  /\ ocmd' = NoCall /\ oslot' = 0 /\ ores' = "OK" /\ kont' = "top"
  /\ UNCHANGED <<pc, ret, cancelled, completed, cresult, queue, batch, opencmd,
                 flagVars, references, wakeup, failed, phase, scan>>

-----------------------------------------------------------------------------
(* maelys_egress_server_run.                                                *)

RunStart ==
  /\ opc = "idle"
  /\ ~stopping /\ ~started
  /\ started' = TRUE /\ running' = TRUE
  /\ opc' = "top"
  /\ UNCHANGED <<pc, ret, commandVars, pairVars, queue, batch, slotVars,
                 stopping, finalized, references, wakeup, failed, phase, kont,
                 ocmd, ores, oslot, scan>>

(* Detaching the queue, at the head of egress_open_commands_process and     *)
(* egress_open_commands_reject.                                             *)
(* Mutant: the list is walked and never unlinked. *)
DetachCopy == batch' = queue /\ UNCHANGED queue

Detach == batch' = queue /\ queue' = <<>>

LoopTop ==
  /\ opc = "top"
  /\ IF stopping
     THEN opc' = "reject" /\ UNCHANGED <<queue, batch, phase>>
     ELSE Detach /\ opc' = "process" /\ phase' = 1
  /\ UNCHANGED <<pc, ret, commandVars, pairVars, slotVars, flagVars, references,
                 wakeup, failed, kont, ocmd, ores, oslot, scan>>

(* egress_open_commands_process, one command.  With cancelled or stopping    *)
(* raised the command is refused, and so it is when no slot is free.         *)
Refuse ==
  /\ opc = "process" /\ batch # <<>>
  /\ LET c == Head(batch) IN
       \/ /\ cancelled[c] \/ stopping
          /\ StartComplete(c, "CANCELLED", 0, "process")
       \/ /\ ~(cancelled[c] \/ stopping)
          /\ \A s \in Slots : state[s] # "unused"
          /\ StartComplete(c, "STATE", 0, "process")
  /\ batch' = Tail(batch)
  /\ UNCHANGED <<pc, ret, commandVars, pairVars, queue, slotVars, flagVars,
                 references, wakeup, failed, phase, scan>>

(* The first unused slot takes over the command's relay end, then             *)
(* egress_connection_begin_request refuses it, starts to connect, or is       *)
(* connected at once.                                                         *)
Admit(s) ==
  /\ opc = "process" /\ batch # <<>>
  /\ state[s] = "unused" /\ \A t \in 1..(s - 1) : state[t] # "unused"
  /\ LET c == Head(batch) IN
       /\ ~cancelled[c] /\ ~stopping
       /\ peer' = [peer EXCEPT ![s] = c]
       /\ sock' = [sock EXCEPT ![c] = "slot"]
       /\ \/ \E r \in Failures :
               /\ state' = [state EXCEPT ![s] = "opening"]
               /\ StartComplete(c, r, s, "process")
               /\ UNCHANGED opencmd
          \/ /\ state' = [state EXCEPT ![s] = "connecting"]
             /\ opencmd' = [opencmd EXCEPT ![s] = c]
             /\ UNCHANGED <<opc, kont, ocmd, ores, oslot>>
          \/ /\ state' = [state EXCEPT ![s] = "relay"]
             /\ opencmd' = [opencmd EXCEPT ![s] = c]
             /\ opc' = "connected" /\ oslot' = s /\ kont' = "process"
             /\ UNCHANGED <<ocmd, ores>>
  /\ batch' = Tail(batch)
  /\ UNCHANGED <<pc, ret, commandVars, cfd, queue, flagVars, references, wakeup,
                 failed, phase, scan>>

ProcessEnd ==
  /\ opc = "process" /\ batch = <<>>
  /\ opc' = "cancel" /\ scan' = 1
  /\ UNCHANGED <<pc, ret, commandVars, pairVars, queue, batch, slotVars,
                 flagVars, references, wakeup, failed, phase, kont, ocmd, ores,
                 oslot>>

(* The end of egress_connection_connected: `cancelled' is read outside the   *)
(* command's mutex, so a caller can still raise it before Complete.  A watch  *)
(* that cannot be armed closes the connection.                               *)
Connected ==
  /\ opc = "connected"
  /\ LET c == opencmd[oslot] IN
       \/ /\ ~cancelled[c]
          /\ StartComplete(c, "OK", 0, kont)
          /\ opencmd' = [opencmd EXCEPT ![oslot] = NoCall]
          /\ UNCHANGED <<state, peer, sock>>
       \/ cancelled[c] /\ StartClose(oslot, "CANCELLED", kont)
       \/ StartClose(oslot, "OK", kont)
  /\ UNCHANGED <<pc, ret, commandVars, cfd, queue, batch, flagVars, references,
                 wakeup, failed, phase, scan>>

(* egress_open_commands_cancel, one slot. *)
CancelScan ==
  /\ opc = "cancel"
  /\ IF scan \in Slots
     THEN /\ scan' = scan + 1
          /\ IF opencmd[scan] # NoCall /\ cancelled[opencmd[scan]]
             THEN StartClose(scan, "CANCELLED", "cancel")
             ELSE UNCHANGED <<slotVars, sock, opc, kont, ocmd, ores, oslot>>
     ELSE /\ opc' = IF phase = 1 THEN "step" ELSE "expire"
          /\ scan' = 1
          /\ UNCHANGED <<slotVars, sock, kont, ocmd, ores, oslot>>
  /\ UNCHANGED <<pc, ret, commandVars, cfd, queue, batch, flagVars, references,
                 wakeup, failed, phase>>

Busy == \E s \in Slots : state[s] # "unused"

LoopStep(traffic) ==
  /\ opc = "step"
  /\ \/ /\ stopping
        /\ opc' = "reject" /\ UNCHANGED wakeup
     \/ /\ wakeup \/ Busy \/ traffic
        /\ opc' = "dispatch" /\ wakeup' = FALSE
  /\ UNCHANGED <<pc, ret, commandVars, pairVars, queue, batch, slotVars,
                 flagVars, references, failed, phase, kont, ocmd, ores, oslot,
                 scan>>

LoopFailure ==
  /\ opc = "step"
  /\ failed' = TRUE
  /\ opc' = "reject"
  /\ UNCHANGED <<pc, ret, commandVars, pairVars, queue, batch, slotVars,
                 flagVars, references, wakeup, phase, kont, ocmd, ores, oslot,
                 scan>>

(* egress_relay_dispatch, as an open command sees it. *)
DispatchConnect(s) ==
  /\ opc = "dispatch" /\ state[s] = "connecting"
  /\ \/ /\ state' = [state EXCEPT ![s] = "relay"]
        /\ opc' = "connected" /\ oslot' = s /\ kont' = "dispatch"
        /\ UNCHANGED <<peer, opencmd, sock, ocmd, ores>>
     \/ StartClose(s, "IO", "dispatch")      \* every pinned address refused
  /\ UNCHANGED <<pc, ret, commandVars, cfd, queue, batch, flagVars, references,
                 wakeup, failed, phase, scan>>

DispatchRelayEnd(s) ==
  /\ opc = "dispatch" /\ state[s] = "relay"
  /\ StartClose(s, "OK", "dispatch")
  /\ UNCHANGED <<pc, ret, commandVars, cfd, queue, batch, flagVars, references,
                 wakeup, failed, phase, scan>>

DispatchEnd ==
  /\ opc = "dispatch"
  /\ Detach
  /\ opc' = "process" /\ phase' = 2
  /\ UNCHANGED <<pc, ret, commandVars, pairVars, slotVars, flagVars, references,
                 wakeup, failed, kont, ocmd, ores, oslot, scan>>

(* expire_connections: the handshake deadline of a connection still opening, *)
(* the idle deadline of a relay.                                             *)
Expire(s) ==
  /\ opc = "expire" /\ state[s] # "unused"
  /\ StartClose(s, "TIMEOUT", "expire")
  /\ UNCHANGED <<pc, ret, commandVars, cfd, queue, batch, flagVars, references,
                 wakeup, failed, phase, scan>>

ExpireEnd ==
  /\ opc = "expire"
  /\ opc' = "top"
  /\ UNCHANGED <<pc, ret, commandVars, pairVars, queue, batch, slotVars,
                 flagVars, references, wakeup, failed, phase, kont, ocmd, ores,
                 oslot, scan>>

-----------------------------------------------------------------------------
(* The tail of maelys_egress_server_run, shared with _destroy: reject what   *)
(* is queued, close every connection.                                        *)

Reject ==
  /\ opc = "reject"
  /\ Detach
  /\ opc' = "rejecting"
  /\ UNCHANGED <<pc, ret, commandVars, pairVars, slotVars, flagVars, references,
                 wakeup, failed, phase, kont, ocmd, ores, oslot, scan>>

RejectOne ==
  /\ opc = "rejecting"
  /\ IF batch # <<>>
     THEN /\ StartComplete(Head(batch), "CANCELLED", 0, "rejecting")
          /\ batch' = Tail(batch)
          /\ UNCHANGED scan
     ELSE /\ opc' = "closeall" /\ scan' = 1
          /\ UNCHANGED <<batch, kont, ocmd, ores, oslot>>
  /\ UNCHANGED <<pc, ret, commandVars, pairVars, queue, slotVars, flagVars,
                 references, wakeup, failed, phase>>

CloseAll ==
  /\ opc = "closeall" /\ scan \in Slots
  /\ scan' = scan + 1
  /\ IF state[scan] # "unused"
     THEN StartClose(scan, IF failed THEN "IO" ELSE "CANCELLED", "closeall")
     ELSE UNCHANGED <<slotVars, sock, opc, kont, ocmd, ores, oslot>>
  /\ UNCHANGED <<pc, ret, commandVars, cfd, queue, batch, flagVars, references,
                 wakeup, failed, phase>>

RunReturn ==
  /\ opc = "closeall" /\ scan \notin Slots /\ ~finalized
  /\ running' = FALSE
  /\ opc' = "returned"
  /\ UNCHANGED <<pc, ret, commandVars, pairVars, queue, batch, slotVars,
                 stopping, finalized, started, references, wakeup, failed,
                 phase, kont, ocmd, ores, oslot, scan>>

-----------------------------------------------------------------------------
(* maelys_egress_server_stop, by any thread holding the server; destroy of a  *)
(* running server does the same. A maelys_sys_loop_stop that fails leaves the *)
(* flag raised and the loop unaware of it: LoopStep may still dispatch then,  *)
(* and only the fairness of Owner supposes that the loop learns of the stop.  *)
Stop ==
  /\ ~finalized
  /\ stopping' = TRUE
  /\ UNCHANGED <<pc, ret, commandVars, pairVars, queue, batch, slotVars,
                 finalized, running, started, references, wakeup, failed,
                 ownerVars>>

(* maelys_egress_server_destroy on the owner thread, run returned or never   *)
(* entered; it holds lifecycle_lock until DestroyEnd.                        *)
Destroy ==
  /\ opc \in {"idle", "returned"}
  /\ finalized' = TRUE /\ stopping' = TRUE
  /\ opc' = "reject"
  /\ UNCHANGED <<pc, ret, commandVars, pairVars, queue, batch, slotVars, running,
                 started, references, wakeup, failed, phase, kont, ocmd, ores,
                 oslot, scan>>

DestroyEnd ==
  /\ opc = "closeall" /\ scan \notin Slots /\ finalized
  /\ references' = references - 1
  /\ opc' = "destroyed"
  /\ UNCHANGED <<pc, ret, commandVars, pairVars, queue, batch, slotVars,
                 flagVars, wakeup, failed, phase, kont, ocmd, ores, oslot, scan>>

Owner ==
  \/ LoopTop \/ Refuse \/ (\E s \in Slots : Admit(s)) \/ ProcessEnd
  \/ Connected \/ Complete \/ Drop \/ CancelScan \/ LoopStep(FALSE) \/ DispatchEnd \/ ExpireEnd
  \/ Reject \/ RejectOne \/ CloseAll \/ RunReturn \/ DestroyEnd

Environment ==
  \/ RunStart \/ LoopStep(TRUE) \/ LoopFailure \/ Stop \/ Destroy
  \/ \E s \in Slots : DispatchConnect(s) \/ DispatchRelayEnd(s) \/ Expire(s)

Next == Owner \/ Environment \/ \E c \in Calls : Caller(c)

Spec == Init /\ [][Next]_vars

(* The steps a thread inside session_open takes without being asked; its     *)
(* wait has a finite deadline.                                               *)
CallerStep(c) ==
  \/ OpenCheck(c) \/ Create(c) \/ Enqueue(c) \/ Wake(c) \/ WaitDone(c)
  \/ WaitTimeout(c) \/ Rewake(c) \/ CallerRelease(c)

(* A connection still opening has a fixed handshake deadline; a relay whose   *)
(* client end is closed ends with its peer or at its idle deadline.           *)
ExpireOrphan(s) ==
  /\ Expire(s)
  /\ state[s] = "relay" => cfd[peer[s]] = "closed"

Fairness ==
  /\ WF_vars(Owner)
  /\ \A c \in Calls : WF_vars(CallerStep(c))
  /\ \A s \in Slots : SF_vars(ExpireOrphan(s))

FairSpec == Spec /\ Fairness

-----------------------------------------------------------------------------
(* Properties.                                                              *)

CallerHolds(c) == pc[c] \in {"enqueue", "wake", "wait", "rewake", "release"}

Queued(c)     == c \in Range(queue)
Batched(c)    == c \in Range(batch)
Opening(c)    == \E s \in Slots : opencmd[s] = c
Completing(c) == c = ocmd
ServerHolds(c) == Queued(c) \/ Batched(c) \/ Opening(c) \/ Completing(c)

(* A command reaches the owner in one place only: the queue, the detached     *)
(* list, one slot, or the completion in progress.                            *)
OnePlace ==
  /\ IsInjective(queue) /\ IsInjective(batch)
  /\ \A s, t \in Slots : opencmd[s] = opencmd[t] => s = t \/ opencmd[s] = NoCall
  /\ \A c \in Calls :
       /\ Queued(c)  => ~Batched(c) /\ ~Opening(c) /\ ~Completing(c)
       /\ Batched(c) => ~Opening(c) /\ ~Completing(c)
       /\ Opening(c) => ~Completing(c)

(* Where the owner thread is agrees with what it works on: the command and    *)
(* slot of a completion exist, a detached list is never overwritten, and a    *)
(* slot that still has its command has not been handed over.                  *)
Working == {"connected", "complete", "drop"}
CompletionControl ==
  /\ ocmd # NoCall <=> opc \in {"complete", "drop"}
  /\ oslot # 0 => opc \in Working
  /\ opc = "connected" => oslot # 0 /\ opencmd[oslot] # NoCall /\ state[oslot] = "relay"
  /\ opc \in {"complete", "drop"} /\ oslot # 0 =>
       opencmd[oslot] = NoCall /\ state[oslot] # "unused" /\ peer[oslot] = ocmd
  /\ opc \in Working =>
       kont \in {"process", "cancel", "dispatch", "expire", "rejecting", "closeall"}
DetachedControl ==
  batch # <<>> => \/ opc \in {"process", "rejecting"}
                  \/ opc \in Working /\ kont \in {"process", "rejecting"}
SlotControl ==
  \A s \in Slots :
    /\ opencmd[s] # NoCall =>
         /\ peer[s] = opencmd[s]
         /\ state[s] = "connecting" \/ (state[s] = "relay" /\ opc = "connected" /\ oslot = s)
    /\ state[s] = "opening" \/ (state[s] = "connecting" /\ opencmd[s] = NoCall) =>
         opc \in {"complete", "drop"} /\ oslot = s
EnteredControl ==
  \A c \in Calls : ServerHolds(c) => pc[c] \notin {"unbound", "bound", "create", "enqueue"}
OwnerControl == CompletionControl /\ DetachedControl /\ SlotControl /\ EnteredControl

(* The reference count of a command is exact at every step: one for the       *)
(* thread between its allocation and its release, one for wherever the server *)
(* keeps it, so neither side ever touches a freed command and none leaks.     *)
RefsExact ==
  /\ OnePlace
  /\ \A c \in Calls :
       refs[c] = (IF CallerHolds(c) THEN 1 ELSE 0) + (IF ServerHolds(c) THEN 1 ELSE 0)

(* Each end of a private pair has one owner: a freed command holds neither     *)
(* end, a slot owns the relay's end exactly while it is in use, and the       *)
(* caller's end left the command only to a call that returned OK.             *)
PairOwned ==
  /\ \A c \in Calls : refs[c] = 0 => sock[c] # "command" /\ cfd[c] # "command"
  /\ \A s, t \in Slots : state[s] # "unused" /\ peer[s] = peer[t] => s = t
  /\ \A s \in Slots : state[s] # "unused" <=> peer[s] # NoCall
  /\ \A c \in Calls : sock[c] = "slot" <=> \E s \in Slots : peer[s] = c
  /\ \A c \in Calls : cfd[c] = "caller" => ret[c] = "OK"
  /\ \A c \in Calls : ret[c] = "OK" => cfd[c] \in {"caller", "closed"}

(* The two sides agree on every open: the call returns OK exactly when its    *)
(* command was completed with OK, whatever the order of the deadline, the     *)
(* cancellation and the completion, and then the relay's end had a slot.      *)
Agreement ==
  \A c \in Calls :
    /\ ret[c] = "OK" => completed[c] /\ cresult[c] = "OK" /\ sock[c] \in {"slot", "closed"}
    /\ completed[c] /\ cresult[c] = "OK" /\ pc[c] \in {"rewake", "release", "done", "gone"}
         => ret[c] = "OK"

(* Once maelys_egress_server_run has returned for a stop, or destroy has      *)
(* finished, no command is left behind: nothing is queued, every slot is      *)
(* free, and every thread still waiting finds its command completed.          *)
NothingStranded ==
  (opc = "returned" /\ ~failed) \/ opc = "destroyed" =>
    /\ queue = <<>> /\ batch = <<>>
    /\ \A s \in Slots : state[s] = "unused"
    /\ \A c \in Calls : pc[c] \in {"wake", "wait"} => completed[c]

(* server->references counts the owner and every bound connector, so the      *)
(* server outlives each thread that can still reach it: there is exactly one  *)
(* reference beside the owner's for each of them.                             *)
Bound(c) == pc[c] \notin {"unbound", "gone"}
OwnersReference == IF opc = "destroyed" THEN 0 ELSE 1
ServerOutlivesConnectors ==
  /\ references >= OwnersReference
  /\ ExistsBijection(1..(references - OwnersReference), {c \in Calls : Bound(c)})

(* Every open returns. *)
OpenReturns ==
  \A c \in Calls : pc[c] = "create" ~> pc[c] \in {"done", "gone"}

(* A wakeup is never lost: a running owner detaches what was queued, even     *)
(* when no other event arrives.                                              *)
QueueDrained ==
  \A c \in Calls : Queued(c) ~> ~Queued(c) \/ opc \in {"idle", "returned"}

(* An open that failed leaves nothing behind: its relay end is closed and its *)
(* command freed, or the run is over and waits for destroy.                   *)
FailedOpenReclaimed ==
  \A c \in Calls :
    ret[c] \notin {"none", "OK"} ~>
      \/ refs[c] = 0 /\ sock[c] \in {"none", "closed"}
      \/ opc \in {"idle", "returned"}

(* A stop ends the run. *)
StopEndsRun == stopping ~> opc \in {"idle", "returned", "destroyed"}
=============================================================================
