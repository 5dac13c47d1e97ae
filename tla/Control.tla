------------------------------ MODULE Control ------------------------------
(***************************************************************************)
(* The control calls of a server (server.c): stop and replace_policy from   *)
(* any thread, against the owner's admissions, the end of its run and its   *)
(* destroy.  The unit of interleaving is a critical section of              *)
(* lifecycle_lock or a step outside it.  Policies are heap objects: each    *)
(* call clones one, and someone must free each exactly once.                *)
(***************************************************************************)
EXTENDS Naturals, FiniteSets

CONSTANTS
  Callers,    \* threads, one control call each
  None,
  CallsJoined      \* destroy begins only when every call entered has returned

ASSUME ControlAssumption ==
  /\ CallsJoined \in BOOLEAN
  /\ Callers \cap {None, "owner", "first"} = {}
  /\ None \notin {"owner", "first"}

VARIABLES
  lock,                  \* holder of lifecycle_lock
  policy, generation,    \* server->policy and policy_generation
  stopping,
  owner,                 \* the owner thread: where it is
  snapshot,              \* the object its admission reads from, None when copied
  call,                  \* per caller: where its call is, and what it holds
  heap                   \* the policy objects: live, or freed

vars == <<lock, policy, generation, stopping, owner, snapshot, call, heap>>

Owner == "owner"
First == "first"                   \* the clone made by server_create
Objects == {First} \cup Callers    \* and one clone by replace_policy of each caller

Idle == [at |-> "away", old |-> None, got |-> 0]

Init ==
  /\ lock = None /\ policy = First /\ generation = 1 /\ stopping = FALSE
  /\ owner = "run" /\ snapshot = None
  /\ call = [t \in Callers |-> Idle]
  /\ heap = [o \in Objects |-> IF o = First THEN "live" ELSE "none"]

(* The server structure is freed by the last step of destroy. *)
Freed == owner = "gone"
DestroyBegun == owner \in {"destroy", "teardown", "release", "gone"}
-----------------------------------------------------------------------------
(* maelys_egress_server_replace_policy. *)

At(t, pc) == call[t].at = pc
Goto(t, pc) == call' = [call EXCEPT ![t].at = pc]

EnterReplace(t) ==
  /\ At(t, "away") /\ ~DestroyBegun
  /\ Goto(t, "cloned") /\ heap' = [heap EXCEPT ![t] = "live"]
  /\ UNCHANGED <<lock, policy, generation, stopping, owner, snapshot>>

CloneFails(t) ==
  /\ At(t, "away") /\ ~DestroyBegun
  /\ Goto(t, "count")
  /\ UNCHANGED <<lock, policy, generation, stopping, owner, snapshot, heap>>

LockReplace(t) ==
  /\ At(t, "cloned") /\ lock = None
  /\ lock' = t /\ Goto(t, "locked")
  /\ UNCHANGED <<policy, generation, stopping, owner, snapshot, heap>>

(* A stopping server refuses; the copy is freed and the failure counted after *)
(* the unlock.                                                               *)
Refused(t) ==
  /\ At(t, "locked") /\ stopping
  /\ lock' = None /\ Goto(t, "drop")
  /\ UNCHANGED <<policy, generation, stopping, owner, snapshot, heap>>

Swap(t) ==
  /\ At(t, "locked") /\ ~stopping
  /\ policy' = t /\ generation' = generation + 1 /\ lock' = None
  /\ call' = [call EXCEPT ![t] = [at |-> "swapped", old |-> policy, got |-> generation + 1]]
  /\ UNCHANGED <<stopping, owner, snapshot, heap>>

Free(o) == heap' = [heap EXCEPT ![o] = IF @ = "live" THEN "freed" ELSE "twice"]

FreeOld(t) ==
  /\ At(t, "swapped") /\ Free(call[t].old) /\ Goto(t, "done")
  /\ UNCHANGED <<lock, policy, generation, stopping, owner, snapshot>>

FreeCopy(t) ==
  /\ At(t, "drop") /\ Free(t) /\ Goto(t, "count")
  /\ UNCHANGED <<lock, policy, generation, stopping, owner, snapshot>>

(* metric_reload_failures is in the server. *)
CountFailure(t) ==
  /\ At(t, "count") /\ Goto(t, "done")
  /\ UNCHANGED <<lock, policy, generation, stopping, owner, snapshot, heap>>
-----------------------------------------------------------------------------
(* maelys_egress_server_stop. *)

EnterStop(t) ==
  /\ At(t, "away") /\ ~DestroyBegun /\ Goto(t, "stop")
  /\ UNCHANGED <<lock, policy, generation, stopping, owner, snapshot, heap>>

LockStop(t) ==
  /\ At(t, "stop") /\ lock = None
  /\ lock' = t /\ stopping' = TRUE /\ Goto(t, "stopped")
  /\ UNCHANGED <<policy, generation, owner, snapshot, heap>>

UnlockStop(t) ==
  /\ At(t, "stopped") /\ lock' = None /\ Goto(t, "done")
  /\ UNCHANGED <<policy, generation, stopping, owner, snapshot, heap>>
-----------------------------------------------------------------------------
(* The owner. *)

(* Mutant: the destination is read from the policy after the unlock. *)
SelectByReference ==
  /\ owner = "run" /\ lock = None /\ snapshot = None /\ snapshot' = policy
  /\ UNCHANGED <<lock, policy, generation, stopping, owner, call, heap>>

(* begin_request: the lookup and the copy of the destination, locked. *)
Select ==
  /\ owner = "run" /\ lock = None
  /\ lock' = Owner /\ snapshot' = policy
  /\ UNCHANGED <<policy, generation, stopping, owner, call, heap>>

Copied ==
  /\ owner = "run" /\ snapshot # None
  /\ snapshot' = None /\ lock' = IF lock = Owner THEN None ELSE lock
  /\ UNCHANGED <<policy, generation, stopping, owner, call, heap>>

(* The loop ends on a stop, or by a failure of its own. *)
RunEnds ==
  /\ owner = "run" /\ snapshot = None /\ owner' = "ended"
  /\ UNCHANGED <<lock, policy, generation, stopping, snapshot, call, heap>>

(* maelys_egress_server_destroy, in its three critical steps. *)
Returned == \A t \in Callers : call[t].at \in {"away", "done"}

Destroy ==
  /\ owner = "ended" /\ (CallsJoined => Returned)
  /\ owner' = "destroy"
  /\ UNCHANGED <<lock, policy, generation, stopping, snapshot, call, heap>>

LockDestroy ==
  /\ owner = "destroy" /\ lock = None
  /\ lock' = Owner /\ stopping' = TRUE /\ owner' = "teardown"
  /\ UNCHANGED <<policy, generation, snapshot, call, heap>>

Teardown ==
  /\ owner = "teardown" /\ Free(policy) /\ lock' = None /\ owner' = "release"
  /\ UNCHANGED <<policy, generation, stopping, snapshot, call>>

Release ==
  /\ owner = "release" /\ owner' = "gone"
  /\ UNCHANGED <<lock, policy, generation, stopping, snapshot, call, heap>>

Caller(t) ==
  \/ EnterReplace(t) \/ CloneFails(t) \/ LockReplace(t) \/ Refused(t) \/ Swap(t)
  \/ FreeOld(t) \/ FreeCopy(t) \/ CountFailure(t)
  \/ EnterStop(t) \/ LockStop(t) \/ UnlockStop(t)

Next ==
  \/ \E t \in Callers : Caller(t)
  \/ Select \/ Copied \/ RunEnds \/ Destroy \/ LockDestroy \/ Teardown \/ Release

Spec == Init /\ [][Next]_vars
-----------------------------------------------------------------------------
(* Properties. *)

(* The state is well typed, and the lock has the holder its steps say. *)
TypeOK ==
  /\ lock \in Callers \cup {None, Owner}
  /\ policy \in Objects /\ generation \in 1..Cardinality(Objects)
  /\ owner \in {"run", "ended", "destroy", "teardown", "release", "gone"}
  /\ heap \in [Objects -> {"none", "live", "freed", "twice"}]
  /\ \A t \in Callers : lock = t <=> call[t].at \in {"locked", "stopped"}

(* Whatever replacements, refusals and stops meet: a policy is freed once at *)
(* most, the current one not before destroy, and none is left once every     *)
(* call has returned and the server is gone.                                 *)
PolicyFreedOnce ==
  /\ \A o \in Objects : heap[o] # "twice"
  /\ owner \notin {"release", "gone"} => heap[policy] = "live"
  /\ Freed /\ Returned => \A o \in Objects : heap[o] # "live"

(* An admission reads a policy only while it is allocated. *)
SnapshotLive == snapshot # None => heap[snapshot] = "live"

(* Successful replacements return distinct generations, and the policy in    *)
(* force is the one that was given the current generation.                   *)
GenerationsDistinct ==
  /\ \A t, u \in Callers : call[t].got = call[u].got /\ call[t].got > 0 => t = u
  /\ policy \in Callers => call[policy].got = generation

(* Policies live as long as somebody uses them: the three above.             *)
PolicyLifetime == PolicyFreedOnce /\ SnapshotLive /\ GenerationsDistinct

(* egress.h: "Destruction serializes with an already-entered control call."  *)
(* A call that has entered and still reads or locks the server has a server  *)
(* to do it on.                                                              *)
DestroySerializes ==
  Freed => \A t \in Callers : call[t].at \notin {"cloned", "locked", "count", "stop", "stopped"}
=============================================================================
