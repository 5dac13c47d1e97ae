------------------------------- MODULE Audit -------------------------------
(* The durable receipt journal (src/audit.c) and the emission of receipts     *)
(* into it (src/server/receipt.c): one handle shared by the servers that      *)
(* retained it, each appending from its own thread, over a file that survives *)
(* the process, with failed writes, failed syncs, kills and power losses.     *)
EXTENDS Naturals, Sequences, FiniteSets

CONSTANTS
    Servers,      \* the servers whose configuration may retain the handle
    Creator,        \* the creator of the handle
    None,
    MaxReceipts,  \* bound on the receipts emitted
    MaxFaults     \* bound on kills and power losses

ASSUME AuditAssumption ==
    /\ MaxReceipts \in Nat /\ MaxFaults \in Nat
    /\ Creator \notin Servers /\ None \notin Servers \cup {Creator}

(* A piece of a record without its newline. *)
Torn == [seq |-> 0, prev |-> <<>>, receipt |-> 0]

(* The MAC of a record authenticates its receipt and, through `previous', all *)
(* earlier ones: it is modelled by the sequence of the receipts it covers.    *)
Mac(prev, receipt) == Append(prev, receipt)

VARIABLES
    file,                  \* the pieces of the file, in order
    synced,                \* how many of them are on stable storage
    holders,               \* the references to the handle; {} when there is none
    records, chain_hex, healthy,  \* fields of the handle
    mutex,                 \* the thread inside its lock, or None
    pc,                    \* where each server's thread is in egress_audit_append
    receipt,               \* the receipt it emits
    metric_receipts, metric_audit_failures,
    issued, faults,        \* counters of the bounds
    acked,                 \* history: the indices of the records acknowledged
    emitted                \* history: the receipts each server emitted

handle == <<holders, records, chain_hex, healthy, mutex>>
metrics == <<metric_receipts, metric_audit_failures>>
vars == <<file, synced, handle, pc, receipt, metrics, issued, faults, acked, emitted>>

Idle == [s \in Servers |-> "idle"]
Zero == [s \in Servers |-> 0]

Init ==
    /\ file = <<>> /\ synced = 0
    /\ holders = {} /\ records = 0 /\ chain_hex = <<>> /\ healthy = FALSE
    /\ mutex = None
    /\ pc = Idle /\ receipt = Zero
    /\ metric_receipts = Zero /\ metric_audit_failures = Zero
    /\ issued = 0 /\ faults = 0 /\ acked = {} /\ emitted = [s \in Servers |-> {}]

(* The record at i carries the next sequence number and continues the chain   *)
(* of the record before it.                                                   *)
Follows(i) ==
    LET previous == IF i = 1 THEN <<>> ELSE Mac(file[i - 1].prev, file[i - 1].receipt)
    IN file[i] # Torn /\ file[i].seq = i /\ file[i].prev = previous

(* resume_audit accepts the file. *)
Resumes == \A i \in 1..Len(file) : Follows(i)

(* maelys_egress_audit_file_create; a file that does not resume is refused    *)
(* and the lock of the journal given back. The lock is exclusive: one handle. *)
FileCreate ==
    /\ holders = {} /\ Resumes
    /\ holders' = {Creator} /\ healthy' = TRUE /\ mutex' = None
    /\ records' = Len(file)
    /\ chain_hex' = IF file = <<>> THEN <<>>
                    ELSE Mac(file[Len(file)].prev, file[Len(file)].receipt)
    /\ UNCHANGED <<file, synced, pc, receipt, metrics, issued, faults, acked, emitted>>

(* maelys_egress_config_set_audit, kept by the server created from it. *)
SetAudit(s) ==
    /\ Creator \in holders /\ s \notin holders /\ healthy
    /\ holders' = holders \cup {s}
    /\ UNCHANGED <<file, synced, records, chain_hex, healthy, mutex, pc, receipt,
                   metrics, issued, faults, acked, emitted>>

(* maelys_egress_audit_release; the last one syncs and unlocks the file. *)
AuditRelease(h) ==
    /\ h \in holders
    /\ h \in Servers => pc[h] = "idle"
    /\ holders' = holders \ {h}
    /\ synced' \in IF holders' = {} THEN {synced, Len(file)} ELSE {synced}
    /\ UNCHANGED <<file, records, chain_hex, healthy, mutex, pc, receipt,
                   metrics, issued, faults, acked, emitted>>

(* Mutant: a receipt that was not appended is not counted as a failure. *)
EmitUncounted(s) ==
    /\ pc[s] = "idle" /\ s \in holders /\ issued < MaxReceipts
    /\ issued' = issued + 1
    /\ receipt' = [receipt EXCEPT ![s] = issued + 1]
    /\ emitted' = [emitted EXCEPT ![s] = @ \cup {issued + 1}]
    /\ metric_receipts' = [metric_receipts EXCEPT ![s] = @ + 1]
    /\ \E attestation_ok \in BOOLEAN :
        pc' = IF attestation_ok /\ healthy THEN [pc EXCEPT ![s] = "entered"] ELSE pc
    /\ UNCHANGED <<file, synced, handle, faults, acked, metric_audit_failures>>

(* egress_receipt_emit up to the first line of egress_audit_append. A receipt *)
(* the attestor does not sign is not appended; `healthy' is read without the  *)
(* lock.                                                                      *)
Emit(s) ==
    /\ pc[s] = "idle" /\ s \in holders /\ issued < MaxReceipts
    /\ issued' = issued + 1
    /\ receipt' = [receipt EXCEPT ![s] = issued + 1]
    /\ emitted' = [emitted EXCEPT ![s] = @ \cup {issued + 1}]
    /\ metric_receipts' = [metric_receipts EXCEPT ![s] = @ + 1]
    /\ \E attestation_ok \in BOOLEAN :
        IF attestation_ok /\ healthy
        THEN /\ pc' = [pc EXCEPT ![s] = "entered"]
             /\ UNCHANGED metric_audit_failures
        ELSE /\ metric_audit_failures' = [metric_audit_failures EXCEPT ![s] = @ + 1]
             /\ UNCHANGED pc
    /\ UNCHANGED <<file, synced, handle, faults, acked>>

Lock(s) ==
    /\ pc[s] = "entered" /\ mutex = None
    /\ mutex' = s
    /\ pc' = [pc EXCEPT ![s] = "write"]
    /\ UNCHANGED <<file, synced, holders, records, chain_hex, healthy, receipt,
                   metrics, issued, faults, acked, emitted>>

Record(s) == [seq |-> records + 1, prev |-> chain_hex, receipt |-> receipt[s]]

(* Mutant: a failed append leaves the handle usable. *)
UnlockHealthy(s, ok) ==
    /\ mutex' = None
    /\ pc' = [pc EXCEPT ![s] = "idle"]
    /\ IF ok
       THEN /\ records' = records + 1
            /\ chain_hex' = Mac(chain_hex, receipt[s])
            /\ acked' = acked \cup {Len(file)}
            /\ UNCHANGED metric_audit_failures
       ELSE /\ metric_audit_failures' = [metric_audit_failures EXCEPT ![s] = @ + 1]
            /\ UNCHANGED <<records, chain_hex, acked>>
    /\ UNCHANGED <<holders, healthy, receipt, metric_receipts, issued, faults, emitted>>

(* The end of egress_audit_append: the outcome and the unlock. *)
Unlock(s, ok) ==
    /\ mutex' = None
    /\ pc' = [pc EXCEPT ![s] = "idle"]
    /\ IF ok
       THEN /\ records' = records + 1
            /\ chain_hex' = Mac(chain_hex, receipt[s])
            /\ acked' = acked \cup {Len(file)}
            /\ UNCHANGED <<healthy, metric_audit_failures>>
       ELSE /\ healthy' = FALSE
            /\ metric_audit_failures' = [metric_audit_failures EXCEPT ![s] = @ + 1]
            /\ UNCHANGED <<records, chain_hex, acked>>
    /\ UNCHANGED <<holders, receipt, metric_receipts, issued, faults, emitted>>

(* write_all: the record is written whole. *)
WriteAll(s) ==
    /\ pc[s] = "write"
    /\ file' = Append(file, Record(s))
    /\ pc' = [pc EXCEPT ![s] = "sync"]
    /\ UNCHANGED <<synced, handle, receipt, metrics, issued, faults, acked, emitted>>

(* The record does not fit its buffers or no byte of it can be written, or    *)
(* write_all fails half-way.                                                  *)
WriteFails(s) ==
    /\ pc[s] = "write"
    /\ file' \in {file, Append(file, Torn)}
    /\ Unlock(s, FALSE)
    /\ UNCHANGED synced

(* Mutant: the result of fdatasync is not looked at. *)
SyncIgnored(s) ==
    /\ pc[s] = "sync"
    /\ synced' \in {synced, Len(file)} /\ Unlock(s, TRUE)
    /\ UNCHANGED file

(* fdatasync, which reaches every earlier piece of the file too. *)
Sync(s) ==
    /\ pc[s] = "sync"
    /\ \/ synced' = Len(file) /\ Unlock(s, TRUE)
       \/ synced' = synced /\ Unlock(s, FALSE)
    /\ UNCHANGED file

(* The health the admin listener of s reports, on the thread that emits. *)
Healthz(s) == healthy /\ metric_audit_failures[s] = 0

(* The process is gone: only the file is left. *)
ProcessGone ==
    /\ holders' = {} /\ mutex' = None /\ healthy' = FALSE
    /\ pc' = Idle /\ receipt' = Zero /\ emitted' = [s \in Servers |-> {}]
    /\ metric_receipts' = Zero /\ metric_audit_failures' = Zero
    /\ faults < MaxFaults /\ faults' = faults + 1
    /\ UNCHANGED <<records, chain_hex, issued, acked>>

(* A kill, possibly between two writes of one record. *)
Kill ==
    /\ holders # {}
    /\ file' \in {file} \cup IF \E s \in Servers : pc[s] = "write"
                             THEN {Append(file, Torn)} ELSE {}
    /\ ProcessGone
    /\ UNCHANGED synced

(* A power loss keeps what was synced, and any part of the rest. *)
PowerLoss ==
    /\ \E n \in synced..Len(file) :
        file' \in {SubSeq(file, 1, n)}
                    \cup IF n < Len(file) THEN {Append(SubSeq(file, 1, n), Torn)} ELSE {}
    /\ synced' = Len(file')
    /\ ProcessGone

Next ==
    \/ FileCreate
    \/ \E s \in Servers : \/ SetAudit(s) \/ Emit(s) \/ Lock(s)
                          \/ WriteAll(s) \/ WriteFails(s) \/ Sync(s)
    \/ \E h \in Servers \cup {Creator} : AuditRelease(h)
    \/ Kill
    \/ PowerLoss

Spec == Init /\ [][Next]_vars

-----------------------------------------------------------------------------
Piece == [seq : Nat, prev : Seq(Nat), receipt : Nat]

(* Types of the state. *)
TypeOK ==
    /\ file \in Seq(Piece) /\ synced \in 0..Len(file)
    /\ holders \in SUBSET (Servers \cup {Creator})
    /\ records \in Nat /\ chain_hex \in Seq(Nat) /\ healthy \in BOOLEAN
    /\ mutex \in Servers \cup {None}
    /\ pc \in [Servers -> {"idle", "entered", "write", "sync"}]
    /\ receipt \in [Servers -> Nat]
    /\ metric_receipts \in [Servers -> Nat]
    /\ metric_audit_failures \in [Servers -> Nat]
    /\ issued \in Nat /\ faults \in Nat
    /\ emitted \in [Servers -> SUBSET Nat]
    /\ acked \in SUBSET (1..Len(file))

(* A receipt whose append returned success is a whole record on stable        *)
(* storage, whatever fails afterwards: "fdatasync per receipt".               *)
AckedDurable == \A i \in acked : i \in 1..synced /\ file[i] # Torn

(* The health report of a server is honest: while it says `ok', every receipt *)
(* the server emitted is an acknowledged record of the journal. An attestor   *)
(* that fails, a write or a sync that fails all show in it.                   *)
HealthHonest ==
    \A s \in holders \cap Servers :
        Healthz(s) /\ pc[s] = "idle" =>
            \A r \in emitted[s] : \E i \in acked : file[i].receipt = r

(* Between two appends a healthy handle stands exactly at the end of a file   *)
(* that would resume: what it appends next continues the chain on disk.       *)
HandleAtEnd ==
    holders # {} /\ healthy /\ mutex = None =>
        /\ Resumes
        /\ records = Len(file)
        /\ chain_hex = [i \in 1..Len(file) |-> file[i].receipt]

(* The journal keeps what it acknowledged, says when it cannot, and continues *)
(* where it stopped: the three above.                                         *)
JournalSound == AckedDurable /\ HealthHonest /\ HandleAtEnd

(* After an append failed, the handle acknowledges nothing more: "the append  *)
(* that failed left the journal unhealthy for every receipt after it".        *)
NoneAfterFailure ==
    [][~healthy /\ holders # {} /\ holders' # {} => acked' = acked]_vars

(* The receipts a restart would read. *)
Readable ==
    LET whole == {n \in 0..Len(file) : \A i \in 1..n : Follows(i)}
        last == CHOOSE n \in whole : \A m \in whole : m <= n
    IN [i \in 1..last |-> file[i].receipt]

LastAcked == IF acked = {} THEN 0
             ELSE CHOOSE i \in acked : \A j \in acked : j <= i

J == INSTANCE Journal WITH
        Receipt <- 1..MaxReceipts, log <- Readable, acked <- LastAcked, damaged <- ~Resumes

(* The journal of one server keeps the promise of module Journal: what was    *)
(* acknowledged stays readable in order across kills and power losses, and    *)
(* nothing is acknowledged into a file a restart refuses.                     *)
ImplementsJournal == J!Spec
=============================================================================
