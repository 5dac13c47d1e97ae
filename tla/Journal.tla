------------------------------ MODULE Journal ------------------------------
(* What the audit journal promises a key holder: a log of receipts of which a *)
(* prefix is acknowledged. Receipts that were not acknowledged may be lost in *)
(* a crash; nothing is acknowledged once the log cannot be read to its end.   *)
EXTENDS Naturals, Sequences

CONSTANT Receipt

VARIABLES
    log,      \* the receipts a restart would read, in order
    acked,    \* how many of them, from the first, were acknowledged
    damaged   \* a restart would refuse the file

vars == <<log, acked, damaged>>

Init ==
    /\ log = <<>>
    /\ acked = 0
    /\ damaged = FALSE

(* A receipt reaches the file. *)
Write(r) ==
    /\ ~damaged
    /\ log' = Append(log, r)
    /\ UNCHANGED <<acked, damaged>>

(* The last receipt of the file is acknowledged to its emitter. *)
Acknowledge ==
    /\ ~damaged
    /\ acked' = Len(log)
    /\ UNCHANGED <<log, damaged>>

(* A write that stopped half-way. *)
Tear ==
    /\ damaged' = TRUE
    /\ UNCHANGED <<log, acked>>

(* What was not acknowledged may be lost, whole or in part. *)
Crash ==
    /\ \E n \in acked..Len(log) : log' = SubSeq(log, 1, n)
    /\ damaged' \in BOOLEAN
    /\ UNCHANGED acked

Next ==
    \/ \E r \in Receipt : Write(r)
    \/ Acknowledge
    \/ Tear
    \/ Crash

Spec == Init /\ [][Next]_vars
=============================================================================
