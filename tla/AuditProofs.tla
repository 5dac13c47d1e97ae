---------------------------- MODULE AuditProofs ----------------------------
(***************************************************************************)
(* Proofs about Audit, for any number of receipts and faults: what was       *)
(* acknowledged is durable, health is honest and a healthy handle stands at  *)
(* the end of its file, for any set of servers; and the journal of one       *)
(* server implements module Journal.                                         *)
(***************************************************************************)
EXTENDS Audit, SequenceTheorems, TLAPS

(* The receipts of the first n pieces of a file. *)
Receipts(f, n) == [i \in 1..n |-> f[i].receipt]

(* Follows, of any file. *)
FollowsIn(f, i) ==
  LET previous == IF i = 1 THEN <<>> ELSE Mac(f[i - 1].prev, f[i - 1].receipt)
  IN  f[i] # Torn /\ f[i].seq = i /\ f[i].prev = previous

(* A record that names its place and covers all records before it. *)
Sound(f, i) == f[i].seq = i /\ f[i].prev = Receipts(f, i - 1)

Whole(f) == \A i \in 1..Len(f) : Sound(f, i)

(* Resuming stops after the first n pieces. *)
Prefix(f, n) ==
  /\ \A i \in 1..n : Sound(f, i)
  /\ n = Len(f) \/ ~FollowsIn(f, n + 1)

(* Two files that agree on their first m pieces. *)
Agree(f, g, m) ==
  /\ m \in 0..Len(f) /\ m \in 0..Len(g)
  /\ \A i \in 1..m : g[i] = f[i]
-----------------------------------------------------------------------------
(* Files. *)

(* A piece of a file. *)
LEMMA PieceOf ==
  ASSUME NEW f \in Seq(Piece), NEW i \in 1..Len(f)
  PROVE  f[i] \in Piece /\ f[i].receipt \in Nat
<1>1. f[i] \in Piece
  BY ElementOfSeq
<1> QED
  BY <1>1, Zenon DEF Piece

(* The receipts of a file are a sequence, one longer with each piece. *)
LEMMA ReceiptsSeq ==
  ASSUME NEW f \in Seq(Piece), NEW n \in 0..Len(f)
  PROVE  /\ Receipts(f, n) \in Seq(Nat) /\ Len(Receipts(f, n)) = n
         /\ \A i \in 1..n : Receipts(f, n)[i] = f[i].receipt
         /\ Receipts(f, 0) = <<>>
<1>1. \A i \in 1..n : f[i] \in Piece /\ f[i].receipt \in Nat
  BY PieceOf
<1>2. Receipts(f, n) \in [1..n -> Nat]
  BY <1>1 DEF Receipts
<1>3. Receipts(f, n) \in Seq(Nat) /\ Len(Receipts(f, n)) = n
  BY <1>2
<1>4. Receipts(f, 0) = <<>>
  <2>1. Receipts(f, 0) \in [1..0 -> Nat]
    BY DEF Receipts
  <2>2. Receipts(f, 0) \in Seq(Nat) /\ Len(Receipts(f, 0)) = 0
    BY <2>1
  <2> QED
    BY <2>2, EmptySeq
<1> QED
  BY <1>3, <1>4 DEF Receipts

(* Writing one more piece appends its receipt to the receipts of the pieces     *)
(* written before it.                                                          *)
LEMMA ReceiptsAppend ==
  ASSUME NEW f \in Seq(Piece), NEW n \in 0..Len(f), n < Len(f)
  PROVE  Append(Receipts(f, n), f[n + 1].receipt) = Receipts(f, n + 1)
<1>1. /\ Receipts(f, n) \in Seq(Nat) /\ Len(Receipts(f, n)) = n
      /\ \A i \in 1..n : Receipts(f, n)[i] = f[i].receipt
  BY ReceiptsSeq
<1>2. n + 1 \in 0..Len(f) /\ n + 1 \in 1..Len(f) /\ f[n + 1].receipt \in Nat
  <2>1. n + 1 \in 0..Len(f) /\ n + 1 \in 1..Len(f)
    OBVIOUS
  <2> QED
    BY <2>1, PieceOf
<1>3. /\ Receipts(f, n + 1) \in Seq(Nat) /\ Len(Receipts(f, n + 1)) = n + 1
      /\ \A i \in 1..(n + 1) : Receipts(f, n + 1)[i] = f[i].receipt
  BY <1>2, ReceiptsSeq
<1> DEFINE s == Receipts(f, n)
           t == Receipts(f, n + 1)
           r == f[n + 1].receipt
<1> HIDE DEF s, t, r
<1>4. /\ Append(s, r) \in Seq(Nat) /\ Len(Append(s, r)) = n + 1
      /\ \A i \in 1..n : Append(s, r)[i] = s[i]
      /\ Append(s, r)[n + 1] = r
  BY <1>1, <1>2 DEF s, r
<1>5. ASSUME NEW i \in 1..(n + 1) PROVE Append(s, r)[i] = t[i]
  <2>1. t[i] = f[i].receipt
    BY <1>3 DEF t
  <2>2. CASE i = n + 1
    BY <1>4, <2>1, <2>2 DEF r
  <2>3. CASE i # n + 1
    <3>1. i \in 1..n
      BY <2>3
    <3>2. s[i] = f[i].receipt
      BY <1>1, <3>1 DEF s
    <3> QED
      BY <1>4, <2>1, <3>1, <3>2
  <2> QED
    BY <2>2, <2>3, Zenon
<1> QED
  BY <1>3, <1>4, <1>5, SeqEqual, Zenon DEF s, t, r

(* A sound record follows. *)
LEMMA SoundFollows ==
  ASSUME NEW f \in Seq(Piece), NEW n \in 0..Len(f), \A i \in 1..n : Sound(f, i)
  PROVE  \A i \in 1..n : FollowsIn(f, i)
<1> SUFFICES ASSUME NEW i \in 1..n PROVE FollowsIn(f, i)
  OBVIOUS
<1>1. i \in 1..Len(f) /\ f[i].seq = i /\ f[i].prev = Receipts(f, i - 1)
  BY DEF Sound
<1>2. f[i] # Torn
  <2>1. Torn.seq = 0
    BY DEF Torn
  <2> QED
    BY <1>1, <2>1
<1>3. CASE i = 1
  <2>1. Receipts(f, 0) = <<>>
    BY ReceiptsSeq
  <2> QED
    BY <1>1, <1>2, <1>3, <2>1 DEF FollowsIn
<1>4. CASE i # 1
  <2>1. i - 2 \in 0..Len(f) /\ i - 2 < Len(f) /\ (i - 2) + 1 = i - 1 /\ i - 1 \in 1..n
    BY <1>4
  <2>2. f[i - 1].prev = Receipts(f, i - 2)
    <3>1. (i - 1) - 1 = i - 2
      OBVIOUS
    <3> QED
      BY <2>1, <3>1 DEF Sound
  <2>3. Append(Receipts(f, i - 2), f[(i - 2) + 1].receipt) = Receipts(f, (i - 2) + 1)
    BY <2>1, ReceiptsAppend, Zenon
  <2>4. Mac(f[i - 1].prev, f[i - 1].receipt) = Receipts(f, i - 1)
    BY <2>1, <2>2, <2>3 DEF Mac
  <2> QED
    BY <1>1, <1>2, <1>4, <2>4 DEF FollowsIn
<1> QED
  BY <1>3, <1>4

(* Where files agree, so do these. *)
LEMMA AgreeSame ==
  ASSUME NEW f \in Seq(Piece), NEW g \in Seq(Piece), NEW m, Agree(f, g, m), NEW i \in 1..m
  PROVE  (Sound(g, i) <=> Sound(f, i)) /\ (FollowsIn(g, i) <=> FollowsIn(f, i))
<1>1. g[i] = f[i] /\ m \in Nat /\ \A j \in 1..(i - 1) : g[j] = f[j]
  BY DEF Agree
<1>2. Receipts(g, i - 1) = Receipts(f, i - 1)
  BY <1>1 DEF Receipts
<1>3. i # 1 => g[i - 1] = f[i - 1]
  BY <1>1
<1> QED
  BY <1>1, <1>2, <1>3 DEF Sound, FollowsIn

(* What is cut off, or does not follow, leaves the shorter prefix. *)
LEMMA CutPrefix ==
  ASSUME NEW f \in Seq(Piece), NEW g \in Seq(Piece), NEW m, Agree(f, g, m),
         m = Len(g) \/ ~FollowsIn(g, m + 1), NEW n \in 0..Len(f), Prefix(f, n)
  PROVE  LET k == IF n < m THEN n ELSE m IN k \in 0..Len(g) /\ k \in 0..n /\ Prefix(g, k)
<1>0. m \in Nat /\ m <= Len(f) /\ m <= Len(g) /\ Len(f) \in Nat /\ Len(g) \in Nat
  BY DEF Agree
<1>1. CASE n < m
  <2>1. \A i \in 1..n : i \in 1..m
    BY <1>0, <1>1
  <2>2. n + 1 \in 1..m /\ n # Len(f)
    BY <1>0, <1>1
  <2>3. ~FollowsIn(g, n + 1)
    BY <2>2, AgreeSame DEF Prefix
  <2>4. \A i \in 1..n : Sound(g, i)
    BY <2>1, AgreeSame DEF Prefix
  <2> QED
    BY <1>0, <1>1, <2>3, <2>4 DEF Prefix
<1>2. CASE ~(n < m)
  <2>1. \A i \in 1..m : i \in 1..n
    BY <1>0, <1>2
  <2>2. \A i \in 1..m : Sound(g, i)
    BY <2>1, AgreeSame DEF Prefix
  <2> QED
    BY <1>0, <1>2, <2>2 DEF Prefix
<1> QED
  BY <1>1, <1>2

(* g is f cut after m pieces, with nothing after them that follows. *)
Cut(f, g, m) == Agree(f, g, m) /\ (m = Len(g) \/ ~FollowsIn(g, m + 1))

(* A piece more. *)
LEMMA AppendFile ==
  ASSUME NEW f \in Seq(Piece), NEW x \in Piece
  PROVE  LET g == Append(f, x) IN
         /\ g \in Seq(Piece) /\ Len(g) = Len(f) + 1 /\ g[Len(f) + 1] = x /\ g # <<>>
         /\ Agree(f, g, Len(f))
<1>1. /\ Append(f, x) \in Seq(Piece) /\ Len(Append(f, x)) = Len(f) + 1
      /\ Append(f, x)[Len(f) + 1] = x /\ \A i \in 1..Len(f) : Append(f, x)[i] = f[i]
  OBVIOUS
<1>2. Append(f, x) # <<>>
  <2>1. Len(f) + 1 # 0 /\ Len(<<>>) = 0
    OBVIOUS
  <2> QED
    BY <1>1, <2>1
<1> QED
  BY <1>1, <1>2 DEF Agree

(* A torn piece does not follow. *)
LEMMA TornFile ==
  ASSUME NEW f \in Seq(Piece)
  PROVE  LET g == Append(f, Torn) IN g \in Seq(Piece) /\ Cut(f, g, Len(f)) /\ ~Whole(g)
<1>1. Torn \in Piece
  <2>1. <<>> \in Seq(Nat)
    OBVIOUS
  <2> QED
    BY <2>1 DEF Torn, Piece
<1> DEFINE g == Append(f, Torn)
<1>2. g \in Seq(Piece) /\ Len(g) = Len(f) + 1 /\ g[Len(f) + 1] = Torn /\ Agree(f, g, Len(f))
  BY <1>1, AppendFile
<1> HIDE DEF g
<1>3. ~FollowsIn(g, Len(f) + 1)
  BY <1>2 DEF FollowsIn
<1>4. ~Whole(g)
  <2>1. Len(f) + 1 \in 1..Len(g) /\ Torn.seq = 0
    BY <1>2 DEF Torn
  <2> QED
    BY <1>2, <2>1 DEF Whole, Sound
<1> QED
  BY <1>2, <1>3, <1>4 DEF Cut, g

(* A file cut short, possibly within a piece. *)
LEMMA CutFile ==
  ASSUME NEW f \in Seq(Piece), NEW m \in 0..Len(f),
         NEW g \in {SubSeq(f, 1, m), Append(SubSeq(f, 1, m), Torn)}
  PROVE  g \in Seq(Piece) /\ Cut(f, g, m)
<1> DEFINE h == SubSeq(f, 1, m)
<1>1. h \in Seq(Piece) /\ Len(h) = m /\ \A i \in 1..m : h[i] = f[i]
  OBVIOUS
<1>2. g = h \/ g = Append(h, Torn)
  OBVIOUS
<1> HIDE DEF h
<1>3. CASE g = h
  BY <1>1, <1>3 DEF Cut, Agree
<1>4. CASE g = Append(h, Torn)
  <2>1. g \in Seq(Piece) /\ Agree(h, g, m) /\ (m = Len(g) \/ ~FollowsIn(g, m + 1))
    BY <1>1, <1>4, TornFile DEF Cut
  <2> QED
    BY <1>1, <2>1, Zenon DEF Cut, Agree
<1> QED
  BY <1>2, <1>3, <1>4
-----------------------------------------------------------------------------
(* The invariant. *)

Types ==
  /\ file \in Seq(Piece) /\ synced \in 0..Len(file)
  /\ records \in Nat /\ chain_hex \in Seq(Nat)
  /\ pc \in [Servers -> {"idle", "entered", "write", "sync"}]
  /\ receipt \in [Servers -> Nat] /\ issued \in Nat
  /\ metric_audit_failures \in [Servers -> Nat]
  /\ emitted \in [Servers -> SUBSET Nat]

(* The lock is held by the thread that writes and syncs, for a holder. *)
Locking ==
  \A s \in Servers :
    /\ pc[s] \in {"write", "sync"} <=> mutex = s
    /\ pc[s] # "idle" => s \in holders

(* What is being synced is the record the handle is about to count. *)
Written ==
  \A s \in Servers : pc[s] = "sync" => file # <<>> /\ file[Len(file)] = Record(s)

Prefixed == \E n \in 0..Len(file) : Prefix(file, n)

(* A handle that counts what a whole file holds has the chain of it. *)
AtEnd ==
  holders # {} /\ Whole(file) /\ records = Len(file) => chain_hex = Receipts(file, Len(file))

(* A healthy one counts it, but for the record being synced. *)
Healthy ==
  holders # {} /\ healthy =>
    /\ Whole(file)
    /\ (\A s \in Servers : pc[s] # "sync") => records = Len(file)

(* Only the receipt on its way may be missing from what a server counts. *)
Counted ==
  \A s \in Servers :
    metric_audit_failures[s] = 0 =>
      \A r \in emitted[s] :
        \/ pc[s] # "idle" /\ r = receipt[s]
        \/ \E i \in acked : file[i].receipt = r

IInv ==
  /\ Types /\ Locking /\ Written /\ Prefixed /\ AtEnd /\ Healthy /\ Counted
  /\ AckedDurable

(* With one server no append starts on an unhealthy handle, and what was      *)
(* acknowledged is what a restart reads.                                      *)
Alone ==
  /\ \A s \in Servers : pc[s] # "idle" => healthy /\ receipt[s] \in 1..MaxReceipts
  /\ issued <= MaxReceipts
  /\ \A i \in acked : \A j \in 1..i : Sound(file, j)
  /\ acked # {} => \E i \in acked : \A j \in acked : j <= i
-----------------------------------------------------------------------------
(* The steps. *)

(* The first state. *)
LEMMA InitIInv == Init => IInv /\ Alone
<1> SUFFICES ASSUME Init PROVE IInv /\ Alone
  OBVIOUS
<1>1. /\ file = <<>> /\ file \in Seq(Piece) /\ Len(file) = 0 /\ synced = 0 /\ records = 0
      /\ chain_hex = <<>> /\ chain_hex \in Seq(Nat) /\ issued = 0
  BY DEF Init
<1>2. /\ pc = [s \in Servers |-> "idle"] /\ receipt = [s \in Servers |-> 0] /\ mutex = None
      /\ metric_audit_failures = [s \in Servers |-> 0] /\ emitted = [s \in Servers |-> {}]
      /\ holders = {} /\ acked = {}
  BY DEF Init, Idle, Zero
<1>3. Types
  BY <1>1, <1>2 DEF Types
<1>4. Locking /\ Written /\ AtEnd /\ Healthy /\ Counted /\ AckedDurable
  <2>1. \A s \in Servers : s # None
    BY AuditAssumption
  <2> QED
    BY <1>2, <2>1, Zenon DEF Locking, Written, AtEnd, Healthy, Counted, AckedDurable
<1>5. Prefixed
  <2>1. 0 \in 0..Len(file) /\ Prefix(file, 0)
    BY <1>1 DEF Prefix
  <2> QED
    BY <2>1 DEF Prefixed
<1>6. Alone
  <2>1. issued <= MaxReceipts
    BY <1>1, AuditAssumption
  <2> QED
    BY <1>2, <2>1 DEF Alone
<1> QED
  BY <1>3, <1>4, <1>5, <1>6 DEF IInv

(* The record of an append is a piece. *)
LEMMA RecordPiece == ASSUME Types, NEW s \in Servers PROVE Record(s) \in Piece
<1>1. records + 1 \in Nat /\ chain_hex \in Seq(Nat) /\ receipt[s] \in Nat
  BY DEF Types
<1> QED
  BY <1>1, Zenon DEF Record, Piece

(* Types are kept. *)
LEMMA TypesStep == ASSUME Types, [Next]_vars PROVE Types'
<1>0. file \in Seq(Piece) /\ Len(file) \in Nat /\ synced \in 0..Len(file)
  BY DEF Types
<1>1. CASE FileCreate
  <2>1. Len(file) \in Nat /\ chain_hex' \in Seq(Nat)
    <3>1. CASE file = <<>>
      BY <1>1, <3>1 DEF FileCreate
    <3>2. CASE file # <<>>
      <4>1. Len(file) \in 1..Len(file)
        BY <1>0, <3>2
      <4>2. file[Len(file)] \in Piece
        BY <1>0, <4>1, PieceOf
      <4>3. file[Len(file)].prev \in Seq(Nat) /\ file[Len(file)].receipt \in Nat
        BY <4>2, Zenon DEF Piece
      <4> QED
        BY <1>1, <3>2, <4>3 DEF FileCreate, Mac
    <3> QED
      BY <1>0, <3>1, <3>2
  <2> QED
    BY <1>0, <1>1, <2>1 DEF FileCreate, Types, metrics
<1>2. ASSUME NEW s \in Servers, SetAudit(s) PROVE Types'
  BY <1>2, Zenon DEF SetAudit, Types, metrics
<1>3. ASSUME NEW h, AuditRelease(h) PROVE Types'
  BY <1>0, <1>3 DEF AuditRelease, Types, metrics
<1>4. ASSUME NEW s \in Servers, Emit(s) PROVE Types'
  <2>1. issued' \in Nat /\ issued + 1 \in Nat
    BY <1>4 DEF Emit, Types
  <2>2. receipt' \in [Servers -> Nat]
    BY <1>4, <2>1 DEF Emit, Types
  <2>3. emitted' \in [Servers -> SUBSET Nat]
    <3>1. emitted[s] \cup {issued + 1} \in SUBSET Nat
      BY <2>1 DEF Types
    <3> QED
      BY <1>4, <3>1, Zenon DEF Emit, Types
  <2>4. pc' = pc \/ pc' = [pc EXCEPT ![s] = "entered"]
    BY <1>4, Zenon DEF Emit
  <2>5. \/ metric_audit_failures' = metric_audit_failures
        \/ metric_audit_failures' = [metric_audit_failures EXCEPT ![s] = metric_audit_failures[s] + 1]
    BY <1>4 DEF Emit
  <2>6. pc' \in [Servers -> {"idle", "entered", "write", "sync"}]
    BY <2>4, Zenon DEF Types
  <2>7. metric_audit_failures' \in [Servers -> Nat]
    BY <2>5 DEF Types
  <2> QED
    BY <1>4, <2>1, <2>2, <2>3, <2>6, <2>7, Zenon DEF Emit, Types, handle
<1>5. ASSUME NEW s \in Servers, Lock(s) PROVE Types'
  BY <1>5 DEF Lock, Types, metrics
<1>6. ASSUME NEW s \in Servers, WriteAll(s) PROVE Types'
  <2>1. file' \in Seq(Piece) /\ Len(file') = Len(file) + 1
    BY <1>0, <1>6, RecordPiece, AppendFile DEF WriteAll
  <2>2. pc' \in [Servers -> {"idle", "entered", "write", "sync"}]
    BY <1>6 DEF WriteAll, Types
  <2> QED
    BY <1>0, <1>6, <2>1, <2>2 DEF WriteAll, Types, handle, metrics
<1>7. ASSUME NEW s \in Servers, NEW ok, Unlock(s, ok)
      PROVE  /\ records' \in Nat /\ chain_hex' \in Seq(Nat) /\ receipt' \in [Servers -> Nat]
             /\ issued' \in Nat /\ pc' \in [Servers -> {"idle", "entered", "write", "sync"}]
             /\ metric_audit_failures' \in [Servers -> Nat]
             /\ emitted' \in [Servers -> SUBSET Nat]
  <2>1. \/ metric_audit_failures' = metric_audit_failures
        \/ metric_audit_failures' = [metric_audit_failures EXCEPT ![s] = metric_audit_failures[s] + 1]
    BY <1>7 DEF Unlock
  <2>2. metric_audit_failures' \in [Servers -> Nat]
    BY <2>1 DEF Types
  <2>3. pc' \in [Servers -> {"idle", "entered", "write", "sync"}]
    BY <1>7 DEF Unlock, Types
  <2>4. \/ records' = records /\ chain_hex' = chain_hex
        \/ records' = records + 1 /\ chain_hex' = Append(chain_hex, receipt[s])
    BY <1>7 DEF Unlock, Mac
  <2>5. records' \in Nat /\ chain_hex' \in Seq(Nat)
    <3>1. receipt[s] \in Nat /\ records \in Nat /\ chain_hex \in Seq(Nat)
      BY DEF Types
    <3>2. Append(chain_hex, receipt[s]) \in Seq(Nat) /\ records + 1 \in Nat
      BY <3>1
    <3> QED
      BY <2>4, <3>1, <3>2, Zenon
  <2> QED
    BY <1>7, <2>2, <2>3, <2>5, Zenon DEF Unlock, Types
<1>8. ASSUME NEW s \in Servers, WriteFails(s) PROVE Types'
  <2>1. file' \in Seq(Piece) /\ synced' \in 0..Len(file')
    BY <1>0, <1>8, TornFile DEF WriteFails, Cut, Agree
  <2> QED
    BY <1>7, <1>8, <2>1, Zenon DEF WriteFails, Types
<1>9. ASSUME NEW s \in Servers, Sync(s) PROVE Types'
  <2>1. file' \in Seq(Piece) /\ synced' \in 0..Len(file')
    <3>1. file' = file /\ synced' \in {synced, Len(file)}
      BY <1>9, Zenon DEF Sync
    <3> QED
      BY <1>0, <3>1
  <2> QED
    BY <1>7, <1>9, <2>1, Zenon DEF Sync, Types
<1>10. ASSUME ProcessGone
       PROVE  /\ records' \in Nat /\ chain_hex' \in Seq(Nat) /\ receipt' \in [Servers -> Nat]
              /\ issued' \in Nat /\ pc' \in [Servers -> {"idle", "entered", "write", "sync"}]
              /\ metric_audit_failures' \in [Servers -> Nat]
              /\ emitted' \in [Servers -> SUBSET Nat]
  BY <1>10 DEF ProcessGone, Types, Idle, Zero
<1>11. CASE Kill
  <2>1. file' \in Seq(Piece) /\ synced' \in 0..Len(file')
    BY <1>0, <1>11, TornFile DEF Kill, Cut, Agree
  <2> QED
    BY <1>10, <1>11, <2>1 DEF Kill, Types
<1>12. CASE PowerLoss
  <2>1. file' \in Seq(Piece) /\ synced' \in 0..Len(file')
    <3>1. PICK m \in synced..Len(file) : file' \in {SubSeq(file, 1, m), Append(SubSeq(file, 1, m), Torn)}
      BY <1>12 DEF PowerLoss
    <3>2. m \in 0..Len(file)
      BY <1>0
    <3>3. file' \in Seq(Piece)
      BY <1>0, <3>1, <3>2, CutFile, Zenon
    <3> QED
      BY <1>12, <3>3 DEF PowerLoss
  <2> QED
    BY <1>10, <1>12, <2>1 DEF PowerLoss, Types
<1>13. CASE UNCHANGED vars
  BY <1>13, Zenon DEF vars, handle, metrics, Types
<1> QED
  BY <1>1, <1>2, <1>3, <1>4, <1>5, <1>6, <1>8, <1>9, <1>11, <1>12, <1>13, Zenon DEF Next

(* Steps that leave the journal and what the handle knows of it alone. *)
Quiet ==
  /\ UNCHANGED <<file, records, chain_hex, healthy, acked>>
  /\ holders' # {} => holders # {}
  /\ \A s \in Servers : pc'[s] = "sync" <=> pc[s] = "sync"
  /\ synced' \in {synced, Len(file)}

(* The kinds of step. *)
LEMMA Kinds ==
  ASSUME Types, [Next]_vars
  PROVE  \/ Quiet \/ FileCreate
         \/ \E s \in Servers : WriteAll(s) \/ WriteFails(s) \/ Sync(s)
         \/ Kill \/ PowerLoss
<1>1. ASSUME NEW s \in Servers, SetAudit(s) PROVE Quiet
  BY <1>1 DEF SetAudit, Quiet
<1>2. ASSUME NEW h, AuditRelease(h) PROVE Quiet
  BY <1>2 DEF AuditRelease, Quiet
<1>3. ASSUME NEW s \in Servers, Emit(s) PROVE Quiet
  <2>1. pc[s] = "idle" /\ (pc' = pc \/ pc' = [pc EXCEPT ![s] = "entered"])
    BY <1>3, Zenon DEF Emit
  <2>2. \A t \in Servers : pc'[t] = "sync" <=> pc[t] = "sync"
    BY <2>1 DEF Types
  <2> QED
    BY <1>3, <2>2, Zenon DEF Emit, Quiet, handle
<1>4. ASSUME NEW s \in Servers, Lock(s) PROVE Quiet
  <2>1. \A t \in Servers : pc'[t] = "sync" <=> pc[t] = "sync"
    BY <1>4 DEF Types, Lock
  <2> QED
    BY <1>4, <2>1, Zenon DEF Lock, Quiet
<1>5. ASSUME UNCHANGED vars PROVE Quiet
  BY <1>5, Zenon DEF vars, handle, Quiet
<1> QED
  BY <1>1, <1>2, <1>3, <1>4, <1>5, Zenon DEF Next

(* One thread at a time. *)
LEMMA LockingStep == ASSUME Types, Locking, [Next]_vars PROVE Locking'
<1>0. \A s \in Servers : s # None
  BY AuditAssumption
<1>1. CASE FileCreate
  BY <1>0, <1>1, Zenon DEF FileCreate, Locking
<1>2. ASSUME NEW s \in Servers, SetAudit(s) PROVE Locking'
  BY <1>2, Zenon DEF SetAudit, Locking
<1>3. ASSUME NEW h, AuditRelease(h) PROVE Locking'
  BY <1>3, Zenon DEF AuditRelease, Locking
<1>4. ASSUME NEW s \in Servers, Emit(s) PROVE Locking'
  <2>1. /\ pc[s] = "idle" /\ s \in holders /\ holders' = holders /\ mutex' = mutex
        /\ pc' = pc \/ pc' = [pc EXCEPT ![s] = "entered"]
    BY <1>4, Zenon DEF Emit, handle
  <2> QED
    BY <2>1 DEF Types, Locking
<1>5. ASSUME NEW s \in Servers, Lock(s) PROVE Locking'
  BY <1>0, <1>5 DEF Lock, Types, Locking
<1>6. ASSUME NEW s \in Servers, WriteAll(s) PROVE Locking'
  BY <1>6, Zenon DEF WriteAll, handle, Types, Locking
<1>8. ASSUME NEW s \in Servers, WriteFails(s) \/ Sync(s) PROVE Locking'
  <2>1. /\ pc[s] \in {"write", "sync"} /\ pc' = [pc EXCEPT ![s] = "idle"]
        /\ mutex' = None /\ holders' = holders
    BY <1>8 DEF WriteFails, Sync, Unlock
  <2> QED
    BY <1>0, <2>1 DEF Types, Locking
<1>9. CASE Kill \/ PowerLoss
  BY <1>0, <1>9, Zenon DEF Kill, PowerLoss, ProcessGone, Idle, Locking
<1>10. CASE UNCHANGED vars
  BY <1>10, Zenon DEF vars, handle, Locking
<1> QED
  BY <1>1, <1>2, <1>3, <1>4, <1>5, <1>6, <1>8, <1>9, <1>10, Zenon DEF Next

(* Where the thread that holds the lock is, no other is. *)
LEMMA OneInside ==
  ASSUME Locking, NEW s \in Servers, pc[s] \in {"write", "sync"}, NEW t \in Servers, t # s
  PROVE  pc[t] \notin {"write", "sync"}
BY Zenon DEF Locking

(* The record being synced. *)
LEMMA WrittenStep == ASSUME Types, Locking, Written, [Next]_vars PROVE Written'
<1>1. CASE Quiet
  <2>1. ASSUME NEW s \in Servers, pc[s] = "sync" PROVE receipt'[s] = receipt[s]
    <3>1. ASSUME NEW t \in Servers, Emit(t) PROVE receipt'[s] = receipt[s]
      <4>1. t # s /\ receipt' = [receipt EXCEPT ![t] = issued + 1]
        BY <2>1, <3>1 DEF Emit
      <4> QED
        BY <4>1 DEF Types
    <3>2. ASSUME FileCreate PROVE FALSE
      BY <2>1, <3>2, Zenon DEF FileCreate, Locking
    <3>3. ASSUME Kill \/ PowerLoss PROVE FALSE
      BY <1>1, <2>1, <3>3, Zenon DEF Kill, PowerLoss, ProcessGone, Idle, Quiet
    <3>4. ASSUME NEW t \in Servers, SetAudit(t) \/ Lock(t) \/ WriteAll(t) \/ WriteFails(t) \/ Sync(t)
          PROVE  receipt'[s] = receipt[s]
      BY <3>4, Zenon DEF SetAudit, Lock, WriteAll, WriteFails, Sync, Unlock
    <3>5. ASSUME NEW h, AuditRelease(h) PROVE receipt'[s] = receipt[s]
      BY <3>5, Zenon DEF AuditRelease
    <3>6. ASSUME UNCHANGED vars PROVE receipt'[s] = receipt[s]
      BY <3>6, Zenon DEF vars
    <3> QED
      BY <3>1, <3>2, <3>3, <3>4, <3>5, <3>6, Zenon DEF Next
  <2> QED
    BY <1>1, <2>1, Zenon DEF Written, Record, Quiet
<1>2. CASE FileCreate
  BY <1>2, Zenon DEF FileCreate, Locking, Written
<1>3. ASSUME NEW s \in Servers, WriteAll(s) PROVE Written'
  <2>1. /\ file' = Append(file, Record(s)) /\ Record(s)' = Record(s) /\ file \in Seq(Piece)
        /\ \A t \in Servers : pc'[t] = "sync" => t = s
    <3>1. \A t \in Servers : t # s => pc[t] # "sync" /\ pc'[t] = pc[t]
      BY <1>3, OneInside DEF WriteAll, Types
    <3> QED
      BY <1>3, <3>1 DEF WriteAll, Record, handle, Types
  <2>2. file' # <<>> /\ Len(file') = Len(file) + 1 /\ file'[Len(file) + 1] = Record(s)
    BY <2>1, RecordPiece, AppendFile
  <2> QED
    BY <2>1, <2>2, Zenon DEF Written
<1>4. ASSUME NEW s \in Servers, WriteFails(s) \/ Sync(s) PROVE Written'
  <2>1. \A t \in Servers : pc'[t] # "sync"
    <3>1. pc[s] \in {"write", "sync"} /\ pc' = [pc EXCEPT ![s] = "idle"]
      BY <1>4 DEF WriteFails, Sync, Unlock
    <3> QED
      BY <3>1, OneInside DEF Types
  <2> QED
    BY <2>1, Zenon DEF Written
<1>5. CASE Kill \/ PowerLoss
  BY <1>5, Zenon DEF Kill, PowerLoss, ProcessGone, Idle, Written
<1> QED
  BY <1>1, <1>2, <1>3, <1>4, <1>5, Kinds, Zenon

(* Resuming a whole file stops at its end. *)
LEMMA ResumesWhole ==
  ASSUME Types, Prefixed
  PROVE  Resumes <=> Whole(file)
<1>1. PICK n \in 0..Len(file) : Prefix(file, n)
  BY DEF Prefixed
<1>2. file \in Seq(Piece) /\ Len(file) \in Nat
  BY DEF Types
<1>3. Resumes <=> \A i \in 1..Len(file) : FollowsIn(file, i)
  BY Zenon DEF Resumes, Follows, FollowsIn
<1>4. ASSUME Resumes PROVE Whole(file)
  <2>1. n # Len(file) => n + 1 \in 1..Len(file)
    BY <1>2
  <2>2. n = Len(file)
    BY <1>1, <1>3, <1>4, <2>1 DEF Prefix
  <2> QED
    BY <1>1, <2>2 DEF Prefix, Whole
<1>5. ASSUME Whole(file) PROVE Resumes
  <2>1. Len(file) \in 0..Len(file)
    BY <1>2
  <2> QED
    BY <1>2, <1>3, <1>5, <2>1, SoundFollows DEF Whole
<1> QED
  BY <1>4, <1>5

(* A record written at the end of the file: sound when the handle stands     *)
(* there, and not followed by anything otherwise.                            *)
LEMMA WriteFile ==
  ASSUME Types, AtEnd, NEW s \in Servers, holders # {}, NEW g, g = Append(file, Record(s))
  PROVE  /\ g \in Seq(Piece) /\ Agree(file, g, Len(file)) /\ Len(g) = Len(file) + 1
         /\ g[Len(g)] = Record(s)
         /\ Whole(file) /\ records = Len(file) => Whole(g)
         /\ records # Len(file) => ~FollowsIn(g, Len(file) + 1) /\ ~Sound(g, Len(file) + 1)
<1>1. file \in Seq(Piece) /\ Len(file) \in Nat /\ records \in Nat
  BY DEF Types
<1>2. /\ g \in Seq(Piece) /\ Agree(file, g, Len(file)) /\ Len(g) = Len(file) + 1
      /\ g[Len(file) + 1] = Record(s)
  BY <1>1, RecordPiece, AppendFile
<1>3. Record(s).seq = records + 1 /\ Record(s).prev = chain_hex
  BY DEF Record
<1>4. ASSUME records # Len(file) PROVE ~FollowsIn(g, Len(file) + 1) /\ ~Sound(g, Len(file) + 1)
  <2>1. g[Len(file) + 1].seq # Len(file) + 1
    BY <1>1, <1>2, <1>3, <1>4
  <2> QED
    BY <2>1, Zenon DEF FollowsIn, Sound
<1>5. ASSUME Whole(file), records = Len(file) PROVE Whole(g)
  <2>1. chain_hex = Receipts(file, Len(file))
    BY <1>5 DEF AtEnd
  <2>2. Receipts(g, Len(file)) = Receipts(file, Len(file))
    BY <1>2 DEF Receipts, Agree
  <2>3. (Len(file) + 1) - 1 = Len(file)
    BY <1>1
  <2>4. Sound(g, Len(file) + 1)
    BY <1>2, <1>3, <1>5, <2>1, <2>2, <2>3 DEF Sound
  <2>5. \A i \in 1..Len(file) : Sound(g, i)
    BY <1>1, <1>2, <1>5, AgreeSame, Zenon DEF Whole
  <2>6. \A i \in 1..Len(g) : i \in 1..Len(file) \/ i = Len(file) + 1
    BY <1>1, <1>2
  <2> QED
    BY <2>4, <2>5, <2>6 DEF Whole
<1> QED
  BY <1>2, <1>4, <1>5

(* What a restart reads stays a prefix. *)
LEMMA PrefixedStep ==
  ASSUME Types, Locking, Prefixed, AtEnd, [Next]_vars PROVE Prefixed'
<1>0. PICK n \in 0..Len(file) : Prefix(file, n)
  BY DEF Prefixed
<1>1. file \in Seq(Piece) /\ Len(file) \in Nat /\ synced \in 0..Len(file)
  BY DEF Types
<1>2. ASSUME file' = file PROVE Prefixed'
  BY <1>0, <1>2 DEF Prefixed
<1>3. ASSUME NEW m, file' \in Seq(Piece), Cut(file, file', m) PROVE Prefixed'
  BY <1>0, <1>1, <1>3, CutPrefix DEF Prefixed, Cut
<1>4. ASSUME NEW s \in Servers, WriteAll(s) PROVE Prefixed'
  <2>1. holders # {} /\ file' = Append(file, Record(s))
    BY <1>4, Zenon DEF WriteAll, Locking
  <2>2. /\ file' \in Seq(Piece) /\ Agree(file, file', Len(file)) /\ Len(file') = Len(file) + 1
        /\ Whole(file) /\ records = Len(file) => Whole(file')
        /\ records # Len(file) => ~FollowsIn(file', Len(file) + 1)
    BY <2>1, WriteFile, Zenon
  <2>3. CASE records # Len(file)
    BY <1>3, <2>2, <2>3 DEF Cut
  <2>4. CASE Whole(file) /\ records = Len(file)
    <3>1. Prefix(file', Len(file')) /\ Len(file') \in 0..Len(file')
      BY <1>1, <2>2, <2>4 DEF Prefix, Whole
    <3> QED
      BY <3>1 DEF Prefixed
  <2>5. CASE ~Whole(file)
    <3>1. n # Len(file)
      BY <1>0, <2>5 DEF Prefix, Whole
    <3>2. n + 1 \in 1..Len(file) /\ \A i \in 1..n : i \in 1..Len(file)
      BY <1>1, <3>1
    <3>3. Prefix(file', n)
      BY <1>0, <1>1, <2>2, <3>1, <3>2, AgreeSame DEF Prefix
    <3>4. n \in 0..Len(file')
      BY <1>1, <2>2
    <3> QED
      BY <3>3, <3>4 DEF Prefixed
  <2> QED
    BY <2>3, <2>4, <2>5
<1>5. ASSUME file' = Append(file, Torn) PROVE Prefixed'
  BY <1>1, <1>3, <1>5, TornFile
<1>6. ASSUME NEW s \in Servers, WriteFails(s) \/ Sync(s) PROVE Prefixed'
  BY <1>2, <1>5, <1>6, Zenon DEF WriteFails, Sync
<1>7. CASE Kill
  BY <1>2, <1>5, <1>7 DEF Kill
<1>8. CASE PowerLoss
  <2>1. PICK m \in synced..Len(file) : file' \in {SubSeq(file, 1, m), Append(SubSeq(file, 1, m), Torn)}
    BY <1>8 DEF PowerLoss
  <2>2. m \in 0..Len(file)
    BY <1>1
  <2> QED
    BY <1>1, <1>3, <2>1, <2>2, CutFile, Zenon
<1>9. CASE Quiet \/ FileCreate
  BY <1>2, <1>9, Zenon DEF Quiet, FileCreate
<1> QED
  BY <1>4, <1>6, <1>7, <1>8, <1>9, Kinds, Zenon

(* A counted record: it covers all records before it. *)
LEMMA SyncedChain ==
  ASSUME Types, Written, NEW s \in Servers, pc[s] = "sync"
  PROVE  /\ Len(file) \in 1..Len(file) /\ file[Len(file)].receipt = receipt[s]
         /\ file[Len(file)] # Torn
         /\ Whole(file) => /\ records + 1 = Len(file) /\ records # Len(file)
                           /\ Mac(chain_hex, receipt[s]) = Receipts(file, Len(file))
<1>1. /\ file \in Seq(Piece) /\ Len(file) \in Nat /\ records \in Nat /\ file # <<>>
      /\ file[Len(file)] = Record(s)
  BY DEF Types, Written
<1>2. Len(file) \in 1..Len(file)
  BY <1>1
<1>3. Record(s).seq = records + 1 /\ Record(s).prev = chain_hex /\ Record(s).receipt = receipt[s]
  BY DEF Record
<1>4. Torn.seq = 0 /\ records + 1 # 0
  BY <1>1 DEF Torn
<1>5. ASSUME Whole(file)
      PROVE  records + 1 = Len(file) /\ Mac(chain_hex, receipt[s]) = Receipts(file, Len(file))
  <2>1. Sound(file, Len(file))
    BY <1>2, <1>5 DEF Whole
  <2>2. records + 1 = Len(file) /\ chain_hex = Receipts(file, Len(file) - 1)
    BY <1>1, <1>3, <2>1 DEF Sound
  <2>3. Len(file) - 1 \in 0..Len(file) /\ Len(file) - 1 < Len(file) /\ (Len(file) - 1) + 1 = Len(file)
    BY <1>2
  <2>4. Append(Receipts(file, Len(file) - 1), file[(Len(file) - 1) + 1].receipt)
          = Receipts(file, (Len(file) - 1) + 1)
    BY <1>1, <2>3, ReceiptsAppend, Zenon
  <2> QED
    BY <1>1, <1>3, <2>2, <2>3, <2>4 DEF Mac
<1> QED
  BY <1>1, <1>2, <1>3, <1>4, <1>5

(* What the handle knows of the file. *)
LEMMA AtEndStep ==
  ASSUME IInv, [Next]_vars PROVE AtEnd' /\ Healthy'
<1>0. Types /\ Locking /\ Written /\ Prefixed /\ AtEnd /\ Healthy /\ file \in Seq(Piece)
      /\ Len(file) \in Nat
  BY DEF IInv, Types
<1>1. CASE Quiet
  BY <1>0, <1>1, Zenon DEF Quiet, AtEnd, Healthy
<1>2. CASE FileCreate
  <2>1. /\ file' = file /\ Resumes /\ records' = Len(file) /\ holders' # {}
        /\ chain_hex' = IF file = <<>> THEN <<>> ELSE Mac(file[Len(file)].prev, file[Len(file)].receipt)
    BY <1>2 DEF FileCreate
  <2>2. Whole(file)
    BY <1>0, <2>1, ResumesWhole
  <2>3. chain_hex' = Receipts(file, Len(file))
    <3>1. CASE file = <<>>
      <4>1. Len(file) = 0
        BY <3>1
      <4>2. 0 \in 0..Len(file)
        BY <1>0
      <4>3. Receipts(file, 0) = <<>>
        BY <1>0, <4>2, ReceiptsSeq
      <4> QED
        BY <2>1, <3>1, <4>1, <4>3, Zenon
    <3>2. CASE file # <<>>
      <4> DEFINE n == Len(file) - 1
      <4>1. n \in 0..Len(file) /\ n < Len(file) /\ n + 1 = Len(file) /\ Len(file) \in 1..Len(file)
        BY <1>0, <3>2
      <4>2. file[Len(file)].prev = Receipts(file, n)
        BY <2>2, <4>1 DEF Whole, Sound
      <4> HIDE DEF n
      <4>3. Append(Receipts(file, n), file[n + 1].receipt) = Receipts(file, n + 1)
        BY <1>0, <4>1, ReceiptsAppend
      <4> QED
        BY <2>1, <3>2, <4>1, <4>2, <4>3 DEF Mac
    <3> QED
      BY <3>1, <3>2
  <2> QED
    BY <2>1, <2>2, <2>3, Zenon DEF AtEnd, Healthy
<1>3. ASSUME NEW s \in Servers, WriteAll(s) PROVE AtEnd' /\ Healthy'
  <2>1. /\ holders # {} /\ file' = Append(file, Record(s)) /\ records' = records /\ pc[s] = "write"
        /\ healthy' = healthy /\ holders' = holders
    BY <1>0, <1>3, Zenon DEF WriteAll, Locking, handle
  <2>2. /\ Len(file') = Len(file) + 1
        /\ Whole(file) /\ records = Len(file) => Whole(file')
        /\ records # Len(file) => ~Sound(file', Len(file) + 1)
    BY <1>0, <2>1, WriteFile, Zenon
  <2>3. AtEnd'
    <3>1. Len(file) + 1 \in 1..Len(file') /\ Len(file) # Len(file')
      BY <1>0, <2>2
    <3>2. ~(Whole(file') /\ records' = Len(file'))
      BY <2>1, <2>2, <3>1 DEF Whole
    <3> QED
      BY <3>2, Zenon DEF AtEnd
  <2>4. ASSUME healthy PROVE Whole(file')
    <3>1. \A t \in Servers : pc[t] # "sync"
      BY <1>0, <2>1, OneInside
    <3> QED
      BY <1>0, <2>1, <2>2, <2>4, <3>1, Zenon DEF Healthy
  <2>5. pc'[s] = "sync"
    BY <1>0, <1>3 DEF WriteAll, Types
  <2> QED
    BY <2>1, <2>3, <2>4, <2>5, Zenon DEF Healthy
<1>4. ASSUME NEW s \in Servers, WriteFails(s) PROVE AtEnd' /\ Healthy'
  <2>1. /\ file' \in {file, Append(file, Torn)} /\ records' = records /\ chain_hex' = chain_hex
        /\ healthy' = FALSE /\ holders' = holders
    BY <1>4 DEF WriteFails, Unlock
  <2>2. ~Whole(Append(file, Torn))
    BY <1>0, TornFile
  <2>3. AtEnd'
    BY <1>0, <2>1, <2>2, Zenon DEF AtEnd
  <2> QED
    BY <2>1, <2>3 DEF Healthy
<1>5. ASSUME NEW s \in Servers, Sync(s) PROVE AtEnd' /\ Healthy'
  <2>1. /\ file' = file /\ holders' = holders /\ pc[s] = "sync"
        /\ \/ records' = records + 1 /\ chain_hex' = Mac(chain_hex, receipt[s]) /\ healthy' = healthy
           \/ records' = records /\ healthy' = FALSE
    BY <1>5 DEF Sync, Unlock
  <2>2. Whole(file) => /\ records + 1 = Len(file) /\ records # Len(file)
                      /\ Mac(chain_hex, receipt[s]) = Receipts(file, Len(file))
    BY <1>0, <2>1, SyncedChain
  <2>3. AtEnd'
    BY <2>1, <2>2 DEF AtEnd
  <2>4. Healthy'
    BY <1>0, <2>1, <2>2, Zenon DEF Healthy
  <2> QED
    BY <2>3, <2>4
<1>6. CASE Kill \/ PowerLoss
  BY <1>6, Zenon DEF Kill, PowerLoss, ProcessGone, AtEnd, Healthy
<1> QED
  BY <1>0, <1>1, <1>2, <1>3, <1>4, <1>5, <1>6, Kinds, Zenon

(* No step takes an acknowledged record away. *)
LEMMA AckedKept ==
  ASSUME Types, Locking, AtEnd, AckedDurable, [Next]_vars
  PROVE  \A i \in acked : file'[i] = file[i] /\ i \in 1..synced' /\ i \in acked'
<1>0. /\ file \in Seq(Piece) /\ Len(file) \in Nat /\ synced \in Nat /\ synced <= Len(file)
      /\ \A i \in acked : i \in 1..synced /\ i \in 1..Len(file)
  BY DEF Types, AckedDurable
<1>1. ASSUME NEW m \in synced..Len(file), Agree(file, file', m), synced' \in {synced, Len(file')}
      PROVE  \A i \in acked : file'[i] = file[i] /\ i \in 1..synced'
  <2>1. \A i \in acked : i \in 1..m
    BY <1>0
  <2>2. Len(file') \in Nat => synced' >= synced /\ synced' \in Nat
    BY <1>0, <1>1 DEF Agree
  <2>3. synced' = Len(file') => \A i \in acked : i \in 1..synced'
    BY <1>0, <1>1 DEF Agree
  <2> QED
    BY <1>0, <1>1, <2>1, <2>3 DEF Agree
<1>2. CASE Quiet \/ FileCreate
  <2>1. acked' = acked /\ file' = file /\ synced' \in {synced, Len(file)}
    BY <1>2, Zenon DEF Quiet, FileCreate
  <2> QED
    BY <1>0, <2>1
<1>3. ASSUME NEW s \in Servers, WriteAll(s)
      PROVE  \A i \in acked : file'[i] = file[i] /\ i \in 1..synced' /\ i \in acked'
  <2>1. holders # {} /\ file' = Append(file, Record(s)) /\ synced' = synced /\ acked' = acked
    BY <1>3, Zenon DEF WriteAll, Locking
  <2>2. Agree(file, file', Len(file))
    BY <2>1, WriteFile, Zenon
  <2>3. Len(file) \in synced..Len(file) /\ synced' \in {synced, Len(file')}
    BY <1>0, <2>1
  <2> QED
    BY <1>1, <2>1, <2>2, <2>3, Zenon
<1>4. ASSUME file' \in {file, Append(file, Torn)}, synced' = synced
      PROVE  \A i \in acked : file'[i] = file[i] /\ i \in 1..synced'
  <2>1. Agree(file, Append(file, Torn), Len(file)) /\ Len(file) \in synced..Len(file)
    BY <1>0, TornFile DEF Cut
  <2> QED
    BY <1>0, <1>1, <1>4, <2>1
<1>5. ASSUME NEW s \in Servers, WriteFails(s)
      PROVE  \A i \in acked : file'[i] = file[i] /\ i \in 1..synced' /\ i \in acked'
  <2>1. acked' = acked /\ file' \in {file, Append(file, Torn)} /\ synced' = synced
    BY <1>5 DEF WriteFails, Unlock
  <2> QED
    BY <1>4, <2>1
<1>6. ASSUME NEW s \in Servers, Sync(s)
      PROVE  \A i \in acked : file'[i] = file[i] /\ i \in 1..synced' /\ i \in acked'
  <2>1. file' = file /\ synced' \in {synced, Len(file)} /\ acked \subseteq acked'
    BY <1>6 DEF Sync, Unlock
  <2> QED
    BY <1>0, <2>1, Zenon
<1>7. CASE Kill
  <2>1. acked' = acked /\ file' \in {file, Append(file, Torn)} /\ synced' = synced
    BY <1>7 DEF Kill, ProcessGone
  <2> QED
    BY <1>4, <2>1
<1>8. CASE PowerLoss
  <2>1. PICK m \in synced..Len(file) : file' \in {SubSeq(file, 1, m), Append(SubSeq(file, 1, m), Torn)}
    BY <1>8 DEF PowerLoss
  <2>2. m \in 0..Len(file) /\ acked' = acked /\ synced' = Len(file')
    BY <1>0, <1>8 DEF PowerLoss, ProcessGone
  <2>3. Agree(file, file', m)
    BY <1>0, <2>1, <2>2, CutFile, Zenon DEF Cut
  <2> QED
    BY <1>1, <2>2, <2>3
<1> QED
  BY <1>2, <1>3, <1>5, <1>6, <1>7, <1>8, Kinds, Zenon

(* An acknowledged record is durable and whole. *)
LEMMA AckedStep == ASSUME IInv, [Next]_vars PROVE AckedDurable'
<1>0. Types /\ Locking /\ Written /\ AtEnd /\ AckedDurable
  BY Zenon DEF IInv
<1>1. \A i \in acked : file'[i] # Torn /\ i \in 1..synced'
  BY <1>0, AckedKept, Zenon DEF AckedDurable
<1>2. ASSUME acked' = acked PROVE AckedDurable'
  BY <1>1, <1>2, Zenon DEF AckedDurable
<1>3. ASSUME NEW s \in Servers, Sync(s) PROVE AckedDurable'
  <2>1. /\ file' = file /\ pc[s] = "sync"
        /\ \/ acked' = acked
           \/ acked' = acked \cup {Len(file)} /\ synced' = Len(file)
    BY <1>3, Zenon DEF Sync, Unlock
  <2>2. Len(file) \in 1..Len(file) /\ file[Len(file)] # Torn
    BY <1>0, <2>1, SyncedChain, Zenon
  <2> QED
    BY <1>1, <1>2, <2>1, <2>2, Zenon DEF AckedDurable
<1>4. ASSUME NEW s \in Servers, WriteAll(s) \/ WriteFails(s) PROVE acked' = acked
  BY <1>4 DEF WriteAll, WriteFails, Unlock
<1>5. ASSUME Quiet \/ FileCreate \/ Kill \/ PowerLoss PROVE acked' = acked
  BY <1>5, Zenon DEF Quiet, FileCreate, Kill, PowerLoss, ProcessGone
<1> QED
  BY <1>0, <1>2, <1>3, <1>4, <1>5, Kinds, Zenon

(* Every receipt of a server is in the journal or counted as a failure. *)
LEMMA CountedStep == ASSUME IInv, [Next]_vars PROVE Counted'
<1>0. Types /\ Locking /\ Written /\ AtEnd /\ Counted /\ AckedDurable
  BY Zenon DEF IInv
<1>1. \A i \in acked : file'[i] = file[i] /\ i \in acked'
  BY <1>0, AckedKept, Zenon
<1>2. ASSUME NEW s \in Servers, metric_audit_failures'[s] = metric_audit_failures[s],
             emitted'[s] = emitted[s], receipt'[s] = receipt[s], pc[s] # "idle" => pc'[s] # "idle",
             metric_audit_failures'[s] = 0, NEW r \in emitted'[s]
      PROVE  (pc'[s] # "idle" /\ r = receipt'[s]) \/ \E i \in acked' : file'[i].receipt = r
  BY <1>0, <1>1, <1>2, Zenon DEF Counted
<1>3. ASSUME UNCHANGED <<metric_audit_failures, emitted, receipt>>,
             \A s \in Servers : pc[s] # "idle" => pc'[s] # "idle"
      PROVE  Counted'
  BY <1>2, <1>3, Zenon DEF Counted
<1>4. ASSUME NEW t \in Servers, SetAudit(t) \/ Lock(t) \/ WriteAll(t) PROVE Counted'
  <2>1. /\ UNCHANGED <<metric_audit_failures, emitted, receipt>>
        /\ \A s \in Servers : pc[s] # "idle" => pc'[s] # "idle"
    BY <1>0, <1>4 DEF SetAudit, Lock, WriteAll, metrics, Types
  <2> QED
    BY <1>3, <2>1, Zenon
<1>5. ASSUME FileCreate \/ UNCHANGED vars \/ \E h \in Servers \cup {Creator} : AuditRelease(h) PROVE Counted'
  <2>1. UNCHANGED <<metric_audit_failures, emitted, receipt, pc>>
    BY <1>5, Zenon DEF FileCreate, AuditRelease, metrics, vars
  <2> QED
    BY <1>3, <2>1, Zenon
<1>6. ASSUME NEW t \in Servers, Emit(t) PROVE Counted'
  <2>1. /\ pc[t] = "idle" /\ acked' = acked
        /\ receipt' = [receipt EXCEPT ![t] = issued + 1]
        /\ emitted' = [emitted EXCEPT ![t] = emitted[t] \cup {issued + 1}]
        /\ \/ pc' = [pc EXCEPT ![t] = "entered"] /\ metric_audit_failures' = metric_audit_failures
           \/ pc' = pc /\ metric_audit_failures' =
                 [metric_audit_failures EXCEPT ![t] = metric_audit_failures[t] + 1]
    BY <1>6 DEF Emit
  <2>2. ASSUME NEW s \in Servers, s # t
        PROVE  /\ metric_audit_failures'[s] = metric_audit_failures[s]
               /\ emitted'[s] = emitted[s] /\ receipt'[s] = receipt[s] /\ pc'[s] = pc[s]
    BY <1>0, <2>1, <2>2 DEF Types
  <2>3. ASSUME metric_audit_failures'[t] = 0, NEW r \in emitted'[t]
        PROVE  (pc'[t] # "idle" /\ r = receipt'[t]) \/ \E i \in acked' : file'[i].receipt = r
    <3>1. pc'[t] # "idle" /\ metric_audit_failures[t] = 0
      BY <1>0, <2>1, <2>3 DEF Types
    <3>2. receipt'[t] = issued + 1 /\ (r = issued + 1 \/ r \in emitted[t])
      BY <1>0, <2>1, <2>3 DEF Types
    <3>3. r \in emitted[t] => \E i \in acked : file[i].receipt = r
      BY <1>0, <2>1, <3>1, Zenon DEF Counted
    <3> QED
      BY <1>1, <3>1, <3>2, <3>3, Zenon
  <2> QED
    BY <1>2, <2>2, <2>3, Zenon DEF Counted
<1>7. ASSUME NEW t \in Servers, WriteFails(t) \/ Sync(t) PROVE Counted'
  <2>1. /\ emitted' = emitted /\ receipt' = receipt /\ pc' = [pc EXCEPT ![t] = "idle"]
        /\ \/ metric_audit_failures' = [metric_audit_failures EXCEPT ![t] = metric_audit_failures[t] + 1]
           \/ /\ pc[t] = "sync" /\ file' = file /\ acked' = acked \cup {Len(file)}
              /\ metric_audit_failures' = metric_audit_failures
    BY <1>7 DEF WriteFails, Sync, Unlock
  <2>2. ASSUME NEW s \in Servers, s # t
        PROVE  metric_audit_failures'[s] = metric_audit_failures[s] /\ pc'[s] = pc[s]
    BY <1>0, <2>1, <2>2 DEF Types
  <2>3. ASSUME metric_audit_failures'[t] = 0, NEW r \in emitted'[t]
        PROVE  \E i \in acked' : file'[i].receipt = r
    <3>1. /\ pc[t] = "sync" /\ file' = file /\ acked' = acked \cup {Len(file)}
          /\ metric_audit_failures[t] = 0 /\ r \in emitted[t]
      BY <1>0, <2>1, <2>3 DEF Types
    <3>2. file[Len(file)].receipt = receipt[t]
      BY <1>0, <3>1, SyncedChain
    <3>3. r = receipt[t] \/ \E i \in acked : file[i].receipt = r
      BY <1>0, <3>1, Zenon DEF Counted
    <3> QED
      BY <3>1, <3>2, <3>3, Zenon
  <2> QED
    BY <1>2, <2>1, <2>2, <2>3, Zenon DEF Counted
<1>8. CASE Kill \/ PowerLoss
  BY <1>8, Zenon DEF Kill, PowerLoss, ProcessGone, Counted
<1> QED
  BY <1>4, <1>5, <1>6, <1>7, <1>8, Zenon DEF Next

(* Every step keeps the invariant. *)
LEMMA NextIInv == IInv /\ [Next]_vars => IInv'
<1> SUFFICES ASSUME IInv, [Next]_vars PROVE IInv'
  OBVIOUS
<1>1. Types /\ Locking /\ Written /\ Prefixed /\ AtEnd
  BY Zenon DEF IInv
<1> QED
  BY <1>1, TypesStep, LockingStep, WrittenStep, PrefixedStep, AtEndStep, CountedStep, AckedStep, Zenon
  DEF IInv

(* The invariant holds of every behaviour. *)
LEMMA Invariance == Spec => []IInv
BY InitIInv, NextIInv, PTL DEF Spec
-----------------------------------------------------------------------------
(* What follows, for any set of servers. *)

(* AckedDurable: a receipt whose append returned success is a whole record   *)
(* on stable storage, through kills and power losses.                        *)
THEOREM Durable == Spec => []AckedDurable
<1>1. IInv => AckedDurable
  BY Zenon DEF IInv
<1> QED
  BY <1>1, Invariance, PTL

(* HealthHonest: a server that reports itself healthy between two emissions  *)
(* has all its receipts in the journal.                                      *)
THEOREM HealthReported == Spec => []HealthHonest
<1>1. IInv => HealthHonest
  BY Zenon DEF IInv, Counted, HealthHonest, Healthz
<1> QED
  BY <1>1, Invariance, PTL

(* HandleAtEnd: between two appends a healthy handle has the chain of the    *)
(* file on disk, which would resume.                                         *)
THEOREM Continues == Spec => []HandleAtEnd
<1>1. IInv => HandleAtEnd
  <2> SUFFICES ASSUME IInv, holders # {}, healthy, mutex = None
               PROVE  /\ Resumes /\ records = Len(file)
                      /\ chain_hex = [i \in 1..Len(file) |-> file[i].receipt]
    BY Zenon DEF HandleAtEnd
  <2>1. \A s \in Servers : pc[s] # "sync"
    <3>1. \A s \in Servers : s # None
      BY AuditAssumption
    <3> QED
      BY <3>1, Zenon DEF IInv, Locking
  <2>2. Whole(file) /\ records = Len(file) /\ chain_hex = Receipts(file, Len(file))
    BY <2>1, Zenon DEF IInv, Healthy, AtEnd
  <2>3. Resumes
    BY <2>2, ResumesWhole, Zenon DEF IInv
  <2> QED
    BY <2>2, <2>3, Zenon DEF Receipts
<1> QED
  BY <1>1, Invariance, PTL

(* Together: what a caller was told is on disk, /healthz says whether the    *)
(* journal works, and the handle is where the next receipt belongs.          *)
THEOREM JournalKept == Spec => []JournalSound
BY Durable, HealthReported, Continues, PTL DEF JournalSound
-----------------------------------------------------------------------------
(* One server: the journal it keeps. *)

(* Readable, of any file. *)
ReadableIn(f) ==
  LET whole == {n \in 0..Len(f) : \A i \in 1..n : FollowsIn(f, i)}
      last == CHOOSE n \in whole : \A m \in whole : m <= n
  IN [i \in 1..last |-> f[i].receipt]

(* It is the prefix at which resuming stops. *)
LEMMA ReadablePrefix ==
  ASSUME NEW f \in Seq(Piece), NEW n \in 0..Len(f), Prefix(f, n)
  PROVE  ReadableIn(f) = Receipts(f, n)
<1>1. Len(f) \in Nat /\ n \in Nat /\ n <= Len(f)
  OBVIOUS
<1> DEFINE whole == {m \in 0..Len(f) : \A i \in 1..m : FollowsIn(f, i)}
           last == CHOOSE m \in whole : \A k \in whole : k <= m
<1>2. \A i \in 1..n : FollowsIn(f, i)
  BY <1>1, SoundFollows DEF Prefix
<1>4. n \in whole
  BY <1>2
<1>5. \A m \in whole : m <= n
  <2> SUFFICES ASSUME NEW m \in whole, ~(m <= n) PROVE FALSE
    OBVIOUS
  <2>1. m \in Nat /\ n + 1 \in 1..m /\ n # Len(f)
    BY <1>1
  <2>2. FollowsIn(f, n + 1)
    BY <2>1
  <2> QED
    BY <2>1, <2>2 DEF Prefix
<1>6. whole \subseteq Nat
  BY <1>1
<1> HIDE DEF whole
<1>7. last = n
  <2>1. last \in whole /\ \A k \in whole : k <= last
    BY <1>4, <1>5, Zenon
  <2>2. last <= n /\ n <= last /\ last \in Nat /\ n \in Nat
    BY <1>1, <1>4, <1>5, <1>6, <2>1, Zenon
  <2> HIDE DEF last
  <2> QED
    BY <2>2
<1>8. ReadableIn(f) = [i \in 1..last |-> f[i].receipt]
  BY DEF ReadableIn, whole
<1> QED
  BY <1>7, <1>8, Zenon DEF Receipts

(* What the abstract journal sees, before and after a step. *)
LEMMA Seen ==
  /\ Readable = ReadableIn(file) /\ Readable' = ReadableIn(file')
  /\ Resumes <=> \A i \in 1..Len(file) : FollowsIn(file, i)
  /\ Resumes' <=> \A i \in 1..Len(file') : FollowsIn(file', i)
<1>1. \A i : (Follows(i) <=> FollowsIn(file, i)) /\ (Follows(i)' <=> FollowsIn(file', i))
  BY Zenon DEF Follows, FollowsIn
<1>2. Readable = ReadableIn(file)
  BY Zenon DEF Readable, ReadableIn, Follows, FollowsIn
<1>3. Readable' = ReadableIn(file')
  BY Zenon DEF Readable, ReadableIn, Follows, FollowsIn
<1> QED
  BY <1>1, <1>2, <1>3, Zenon DEF Resumes

(* The last acknowledged record. *)
LEMMA LastIs ==
  ASSUME Types, AckedDurable, Alone
  PROVE  /\ LastAcked \in 0..synced /\ (acked # {} => LastAcked \in acked)
         /\ \A j \in acked : j <= LastAcked
<1>1. CASE acked = {}
  BY <1>1 DEF LastAcked, Types
<1>2. CASE acked # {}
  <2>1. \E i \in acked : \A j \in acked : j <= i
    BY <1>2, Zenon DEF Alone
  <2>2. LastAcked \in acked /\ \A j \in acked : j <= LastAcked
    BY <1>2, <2>1, Zenon DEF LastAcked
  <2> QED
    BY <1>2, <2>2 DEF AckedDurable, Types
<1> QED
  BY <1>1, <1>2

(* Whatever happens, the durable part of the file stays. *)
LEMMA DurableAgrees ==
  ASSUME Types, Locking, AtEnd, [Next]_vars
  PROVE  \E m \in synced..Len(file) : Agree(file, file', m) /\ file' \in Seq(Piece)
<1>0. file \in Seq(Piece) /\ Len(file) \in Nat /\ synced \in 0..Len(file)
      /\ Len(file) \in synced..Len(file)
  BY DEF Types
<1>1. ASSUME file' = file PROVE Agree(file, file', Len(file)) /\ file' \in Seq(Piece)
  BY <1>0, <1>1 DEF Agree
<1>2. ASSUME file' = Append(file, Torn) PROVE Agree(file, file', Len(file)) /\ file' \in Seq(Piece)
  BY <1>0, <1>2, TornFile DEF Cut
<1>3. ASSUME NEW s \in Servers, WriteAll(s) PROVE Agree(file, file', Len(file)) /\ file' \in Seq(Piece)
  <2>1. holders # {} /\ file' = Append(file, Record(s))
    BY <1>3, Zenon DEF WriteAll, Locking
  <2> QED
    BY <2>1, WriteFile, Zenon
<1>4. ASSUME PowerLoss PROVE \E m \in synced..Len(file) : Agree(file, file', m) /\ file' \in Seq(Piece)
  <2>1. PICK m \in synced..Len(file) : file' \in {SubSeq(file, 1, m), Append(SubSeq(file, 1, m), Torn)}
    BY <1>4 DEF PowerLoss
  <2>2. m \in 0..Len(file)
    BY <1>0
  <2>3. Agree(file, file', m) /\ file' \in Seq(Piece)
    BY <1>0, <2>1, <2>2, CutFile, Zenon DEF Cut
  <2> QED
    BY <2>3, Zenon
<1>5. ASSUME Quiet \/ FileCreate \/ Kill \/ \E s \in Servers : WriteFails(s) \/ Sync(s)
      PROVE  file' = file \/ file' = Append(file, Torn)
  BY <1>5, Zenon DEF Quiet, FileCreate, Kill, WriteFails, Sync
<1> QED
  BY <1>0, <1>1, <1>2, <1>3, <1>4, <1>5, Kinds, Zenon

OneServer == \A a, b \in Servers : a = b

(* What one server alone keeps true. *)
LEMMA AloneStep == ASSUME OneServer, IInv, Alone, [Next]_vars PROVE Alone'
<1>0. /\ Types /\ Locking /\ Written /\ AtEnd /\ Healthy /\ AckedDurable
      /\ file \in Seq(Piece) /\ Len(file) \in Nat /\ synced \in 0..Len(file) /\ issued \in Nat
      /\ MaxReceipts \in Nat
  BY AuditAssumption DEF IInv, Types
<1>1. (\A s \in Servers : pc[s] # "idle" => healthy /\ receipt[s] \in 1..MaxReceipts)'
      /\ issued' <= MaxReceipts
  <2>1. CASE FileCreate
    BY <2>1, Zenon, <1>0 DEF FileCreate, Alone, Locking
  <2>2. ASSUME NEW s \in Servers, SetAudit(s) \/ Lock(s) \/ WriteAll(s)
        PROVE  /\ UNCHANGED <<healthy, receipt, issued>>
               /\ \A t \in Servers : pc'[t] # "idle" => pc[t] # "idle"
    BY <1>0, <2>2, Zenon DEF SetAudit, Lock, WriteAll, handle, Types
  <2>3. ASSUME UNCHANGED vars \/ \E h \in Servers \cup {Creator} : AuditRelease(h)
        PROVE  UNCHANGED <<healthy, receipt, issued, pc>>
    BY <2>3, Zenon DEF AuditRelease, vars, handle
  <2>4. ASSUME NEW s \in Servers, Emit(s)
        PROVE  /\ issued' <= MaxReceipts
               /\ pc'[s] # "idle" => healthy' /\ receipt'[s] \in 1..MaxReceipts
    <3>1. /\ pc[s] = "idle" /\ issued < MaxReceipts /\ issued' = issued + 1 /\ healthy' = healthy
          /\ receipt' = [receipt EXCEPT ![s] = issued + 1]
          /\ pc' = pc \/ (pc' = [pc EXCEPT ![s] = "entered"] /\ healthy)
      BY <2>4 DEF Emit, handle
    <3>2. pc'[s] # "idle" => healthy'
      BY <1>0, <3>1 DEF Types
    <3>3. receipt'[s] = issued + 1
      BY <1>0, <3>1 DEF Types
    <3> QED
      BY <1>0, <3>1, <3>2, <3>3
  <2>5. ASSUME NEW s \in Servers, WriteFails(s) \/ Sync(s) PROVE pc'[s] = "idle" /\ issued' = issued
    <3>1. pc' = [pc EXCEPT ![s] = "idle"] /\ issued' = issued
      BY <2>5 DEF WriteFails, Sync, Unlock
    <3> QED
      BY <1>0, <3>1, Zenon DEF Types
  <2>6. ASSUME Kill \/ PowerLoss PROVE (\A s \in Servers : pc'[s] = "idle") /\ issued' = issued
    BY <2>6, Zenon DEF Kill, PowerLoss, ProcessGone, Idle
  <2> DEFINE G == /\ \A t \in Servers : pc'[t] # "idle" => healthy' /\ receipt'[t] \in 1..MaxReceipts
                  /\ issued' <= MaxReceipts
  <2>7. ASSUME NEW s \in Servers, SetAudit(s) \/ Lock(s) \/ WriteAll(s) PROVE G
    <3>1. /\ healthy' = healthy /\ receipt' = receipt /\ issued' = issued
          /\ \A t \in Servers : pc'[t] # "idle" => pc[t] # "idle"
      BY <2>2, <2>7
    <3> QED
      BY <3>1, Zenon DEF Alone
  <2>8. ASSUME UNCHANGED vars \/ \E h \in Servers \cup {Creator} : AuditRelease(h) PROVE G
    <3>1. healthy' = healthy /\ receipt' = receipt /\ issued' = issued /\ pc' = pc
      BY <2>3, <2>8
    <3> QED
      BY <3>1 DEF Alone
  <2>9. ASSUME NEW s \in Servers, Emit(s) PROVE G
    BY <2>4, <2>9, Zenon DEF OneServer
  <2>10. ASSUME NEW s \in Servers, WriteFails(s) \/ Sync(s) PROVE G
    BY <2>5, <2>10, Zenon DEF OneServer, Alone
  <2>11. ASSUME Kill \/ PowerLoss PROVE G
    BY <2>6, <2>11, Zenon DEF Alone
  <2>12. ASSUME FileCreate PROVE G
    BY <2>1, <2>12, Zenon
  <2> HIDE DEF G
  <2>13. G
    BY <2>7, <2>8, <2>9, <2>10, <2>11, <2>12, Zenon DEF Next
  <2> QED
    BY <2>13, Zenon DEF G
<1>2. \A i \in acked : \A j \in 1..i : Sound(file', j)
  <2>1. PICK m \in synced..Len(file) : Agree(file, file', m) /\ file' \in Seq(Piece)
    BY <1>0, DurableAgrees, Zenon
  <2>2. ASSUME NEW i \in acked, NEW j \in 1..i PROVE j \in 1..m
    BY <1>0, <2>2 DEF AckedDurable
  <2> QED
    BY <1>0, <2>1, <2>2, AgreeSame DEF Alone
<1>3. ASSUME acked' = acked PROVE Alone'
  BY <1>1, <1>2, <1>3, Zenon DEF Alone
<1>4. ASSUME NEW s \in Servers, Sync(s) PROVE Alone'
  <2>1. /\ file' = file /\ pc[s] = "sync"
        /\ acked' = acked \/ acked' = acked \cup {Len(file)}
    BY <1>4 DEF Sync, Unlock
  <2>2. Whole(file)
    BY <1>0, <2>1, Zenon DEF Alone, Locking, Healthy
  <2>3. \A j \in 1..Len(file) : Sound(file', j)
    BY <2>1, <2>2 DEF Whole
  <2>4. \A j \in acked \cup {Len(file)} : j <= Len(file)
    BY <1>0 DEF AckedDurable
  <2>5. CASE acked' = acked \cup {Len(file)}
    BY <1>1, <1>2, <2>3, <2>4, <2>5, Zenon DEF Alone
  <2> QED
    BY <1>3, <2>1, <2>5, Zenon
<1>5. ASSUME NEW s \in Servers, WriteAll(s) \/ WriteFails(s) PROVE acked' = acked
  BY <1>5 DEF WriteAll, WriteFails, Unlock
<1>6. ASSUME Quiet \/ FileCreate \/ Kill \/ PowerLoss PROVE acked' = acked
  BY <1>6, Zenon DEF Quiet, FileCreate, Kill, PowerLoss, ProcessGone
<1> QED
  BY <1>0, <1>3, <1>4, <1>5, <1>6, Kinds, Zenon

(* A shorter prefix of the receipts. *)
LEMMA ReceiptsCut ==
  ASSUME NEW f \in Seq(Piece), NEW g \in Seq(Piece), NEW n \in 0..Len(f), NEW k \in 0..n,
         Agree(f, g, k)
  PROVE  Receipts(g, k) = SubSeq(Receipts(f, n), 1, k)
<1>1. /\ Receipts(f, n) \in Seq(Nat) /\ Len(Receipts(f, n)) = n
      /\ \A i \in 1..n : Receipts(f, n)[i] = f[i].receipt
  BY ReceiptsSeq
<1>2. k \in 0..Len(g) /\ \A i \in 1..k : g[i] = f[i]
  BY DEF Agree
<1>3. /\ Receipts(g, k) \in Seq(Nat) /\ Len(Receipts(g, k)) = k
      /\ \A i \in 1..k : Receipts(g, k)[i] = g[i].receipt
  BY <1>2, ReceiptsSeq, Zenon
<1> DEFINE s == Receipts(f, n)
           t == Receipts(g, k)
<1> HIDE DEF s, t
<1>4. /\ SubSeq(s, 1, k) \in Seq(Nat) /\ Len(SubSeq(s, 1, k)) = k
      /\ \A i \in 1..k : SubSeq(s, 1, k)[i] = s[i]
  BY <1>1 DEF s
<1>5. ASSUME NEW i \in 1..k PROVE SubSeq(s, 1, k)[i] = t[i]
  <2>1. i \in 1..n
    OBVIOUS
  <2> QED
    BY <1>1, <1>2, <1>3, <1>4, <2>1, Zenon DEF s, t
<1> QED
  BY <1>3, <1>4, <1>5, SeqEqual DEF s, t

(* A cut is a crash of the abstract journal. *)
LEMMA CutCrash ==
  ASSUME IInv, Alone, IInv', acked' = acked, NEW m \in synced..Len(file), Cut(file, file', m)
  PROVE  J!Crash
<1>0. /\ Types /\ Prefixed /\ AckedDurable /\ file \in Seq(Piece) /\ Len(file) \in Nat
      /\ synced \in 0..Len(file) /\ m \in 0..Len(file) /\ m \in Nat /\ synced <= m
  BY DEF IInv, Types
<1>1. Types' /\ file' \in Seq(Piece)
  BY Zenon DEF IInv, Types
<1>2. PICK n \in 0..Len(file) : Prefix(file, n)
  BY <1>0 DEF Prefixed
<1> DEFINE k == IF n < m THEN n ELSE m
<1>3. k \in 0..Len(file') /\ k \in 0..n /\ Prefix(file', k)
  BY <1>0, <1>1, <1>2, CutPrefix DEF Cut
<1>4. Readable = Receipts(file, n)
  BY <1>0, <1>2, ReadablePrefix, Seen, Zenon
<1>5. Readable' = Receipts(file', k)
  <2> HIDE DEF k
  <2> QED
    BY <1>1, <1>3, ReadablePrefix, Seen, Zenon
<1>6. Agree(file, file', k)
  BY <1>0, <1>3 DEF Cut, Agree
<1>7. LastAcked' = LastAcked
  BY DEF LastAcked
<1>8. Len(Readable) = n
  BY <1>0, <1>4, ReceiptsSeq
<1>9. LastAcked \in 0..synced /\ LastAcked <= n
  <2>1. LastAcked \in 0..synced /\ (acked # {} => LastAcked \in acked) /\ (acked = {} => LastAcked = 0)
    BY <1>0, LastIs, Zenon DEF LastAcked
  <2>2. ASSUME acked # {}, ~(LastAcked <= n) PROVE FALSE
    <3>1. /\ LastAcked \in 1..Len(file) /\ \A j \in 1..LastAcked : Sound(file, j)
      BY <1>0, <2>1, <2>2 DEF Alone, AckedDurable
    <3>2. \A j \in 1..LastAcked : FollowsIn(file, j)
      <4>1. LastAcked \in 0..Len(file)
        BY <3>1
      <4> QED
        BY <1>0, <3>1, <4>1, SoundFollows
    <3>3. n + 1 \in 1..LastAcked /\ n # Len(file)
      BY <1>0, <2>2, <3>1
    <3> QED
      BY <1>2, <3>2, <3>3, Zenon DEF Prefix
  <2> QED
    BY <1>0, <2>1, <2>2
<1>10. k \in LastAcked..Len(Readable)
  BY <1>0, <1>3, <1>8, <1>9
<1>11. Readable' = SubSeq(Readable, 1, k)
  <2> HIDE DEF k
  <2> QED
    BY <1>0, <1>1, <1>3, <1>4, <1>5, <1>6, ReceiptsCut, Zenon
<1> HIDE DEF k
<1>12. (~Resumes)' \in BOOLEAN
  OBVIOUS
<1> QED
  BY <1>7, <1>10, <1>11, <1>12, Zenon DEF J!Crash

(* A record the only server writes is the next receipt of the journal. *)
LEMMA WriteIsWrite ==
  ASSUME OneServer, IInv, Alone, IInv', NEW s \in Servers, WriteAll(s)
  PROVE  J!Write(receipt[s]) /\ receipt[s] \in 1..MaxReceipts
<1>0. /\ Types /\ Locking /\ AtEnd /\ Healthy /\ file \in Seq(Piece) /\ Len(file) \in Nat
      /\ pc[s] = "write" /\ holders # {} /\ file' = Append(file, Record(s)) /\ acked' = acked
  <2>1. pc[s] = "write" /\ file' = Append(file, Record(s)) /\ acked' = acked
    BY DEF WriteAll
  <2>2. holders # {}
    BY <2>1, Zenon DEF IInv, Locking
  <2>3. Types /\ Locking /\ AtEnd /\ Healthy /\ file \in Seq(Piece)
    BY Zenon DEF IInv, Types
  <2>4. Len(file) \in Nat
    BY <2>3
  <2> QED
    BY <2>1, <2>2, <2>3, <2>4, Zenon
<1>1. healthy /\ receipt[s] \in 1..MaxReceipts
  BY <1>0 DEF Alone
<1>2. Whole(file) /\ records = Len(file)
  <2>1. \A t \in Servers : pc[t] # "sync"
    BY <1>0, OneInside, Zenon
  <2> QED
    BY <1>0, <1>1, <2>1, Zenon DEF Healthy
<1>3. /\ file' \in Seq(Piece) /\ Agree(file, file', Len(file)) /\ Len(file') = Len(file) + 1
      /\ file'[Len(file')] = Record(s) /\ Whole(file')
  BY <1>0, <1>2, WriteFile, Zenon
<1>4. Prefix(file, Len(file)) /\ Prefix(file', Len(file'))
  BY <1>2, <1>3 DEF Prefix, Whole
<1>5. Resumes /\ Resumes'
  <2>1. Len(file) \in 0..Len(file) /\ Len(file') \in 0..Len(file')
    BY <1>0, <1>3
  <2>2. \A i \in 1..Len(file) : FollowsIn(file, i)
    BY <1>0, <1>2, <2>1, SoundFollows DEF Whole
  <2>3. \A i \in 1..Len(file') : FollowsIn(file', i)
    BY <1>3, <2>1, SoundFollows DEF Whole
  <2> QED
    BY <2>2, <2>3, Seen
<1>6. Readable = Receipts(file, Len(file)) /\ Readable' = Receipts(file', Len(file'))
  <2>1. Len(file) \in 0..Len(file) /\ Len(file') \in 0..Len(file')
    BY <1>0, <1>3
  <2> QED
    BY <1>0, <1>3, <1>4, <2>1, ReadablePrefix, Seen, Zenon
<1>7. Readable' = Append(Readable, receipt[s])
  <2>1. Len(file) \in 0..Len(file') /\ Len(file) < Len(file')
    BY <1>0, <1>3
  <2>2. Append(Receipts(file', Len(file)), file'[Len(file) + 1].receipt) = Receipts(file', Len(file) + 1)
    BY <1>3, <2>1, ReceiptsAppend, Zenon
  <2>3. Receipts(file', Len(file)) = Receipts(file, Len(file))
    BY <1>3 DEF Receipts, Agree
  <2>4. Record(s).receipt = receipt[s]
    BY DEF Record
  <2> QED
    BY <1>3, <1>6, <2>2, <2>3, <2>4
<1>8. LastAcked' = LastAcked
  BY <1>0 DEF LastAcked
<1> QED
  BY <1>1, <1>5, <1>7, <1>8, Zenon DEF J!Write

(* A record the only server gets synced is acknowledged, and is the last. *)
LEMMA SyncIsAcknowledge ==
  ASSUME OneServer, IInv, Alone, NEW s \in Servers, pc[s] = "sync", file' = file,
         acked' = acked \cup {Len(file)}
  PROVE  J!Acknowledge
<1>0. /\ Types /\ Locking /\ Written /\ Healthy /\ AckedDurable /\ file \in Seq(Piece)
      /\ Len(file) \in Nat /\ synced \in 0..Len(file) /\ Len(file) \in 0..Len(file)
  BY DEF IInv, Types
<1>1. Whole(file)
  BY <1>0, Zenon DEF Alone, Locking, Healthy
<1>2. Resumes /\ Resumes'
  <2>1. \A i \in 1..Len(file) : FollowsIn(file, i)
    BY <1>0, <1>1, SoundFollows DEF Whole
  <2> QED
    BY <2>1, Seen, Zenon
<1>3. Readable' = Readable /\ Len(Readable) = Len(file)
  <2>1. Prefix(file, Len(file))
    BY <1>1, Zenon DEF Prefix, Whole
  <2>2. Readable = Receipts(file, Len(file))
    BY <1>0, <2>1, ReadablePrefix, Seen
  <2>3. Readable' = Readable
    BY Seen, Zenon
  <2>4. Len(Receipts(file, Len(file))) = Len(file)
    BY <1>0, ReceiptsSeq
  <2> QED
    BY <2>2, <2>3, <2>4
<1>4. LastAcked' = Len(file)
  <2>1. Len(file) \in acked' /\ \A j \in acked' : j \in Nat /\ j <= Len(file)
    BY <1>0 DEF AckedDurable
  <2>2. acked' # {}
    BY <2>1
  <2> DEFINE last == CHOOSE i \in acked' : \A j \in acked' : j <= i
  <2>3. last \in acked' /\ \A j \in acked' : j <= last
    BY <2>1
  <2>4. LastAcked' = last
    BY <2>2, Zenon DEF LastAcked
  <2> HIDE DEF last
  <2>5. last = Len(file)
    BY <1>0, <2>1, <2>3
  <2> QED
    BY <2>4, <2>5
<1> QED
  BY <1>2, <1>3, <1>4, Zenon DEF J!Acknowledge

(* Every step of the one server's journal is a step of the abstract one. *)
LEMMA StepJournal ==
  ASSUME OneServer, IInv, Alone, IInv', [Next]_vars
  PROVE  [J!Next]_(J!vars)
<1>0. Types /\ file \in Seq(Piece) /\ Len(file) \in Nat /\ synced \in 0..Len(file)
      /\ Len(file) \in synced..Len(file)
  BY DEF IInv, Types
<1>1. ASSUME file' = file, acked' = acked PROVE UNCHANGED J!vars
  <2>1. Readable' = Readable /\ (Resumes' <=> Resumes)
    BY <1>1, Seen, Zenon
  <2>2. LastAcked' = LastAcked
    BY <1>1 DEF LastAcked
  <2> QED
    BY <2>1, <2>2, Zenon DEF J!vars
<1>2. ASSUME file' = Append(file, Torn), acked' = acked PROVE J!Next
  <2>1. Cut(file, file', Len(file))
    BY <1>0, <1>2, TornFile
  <2>2. J!Crash
    BY <1>0, <1>2, <2>1, CutCrash
  <2> QED
    BY <2>2, Zenon DEF J!Next
<1>3. ASSUME NEW s \in Servers, WriteAll(s) PROVE J!Next
  BY <1>3, WriteIsWrite, Zenon DEF J!Next
<1>4. ASSUME NEW s \in Servers, WriteFails(s) \/ Sync(s) PROVE [J!Next]_(J!vars)
  <2>1. \/ acked' = acked /\ file' \in {file, Append(file, Torn)}
        \/ pc[s] = "sync" /\ file' = file /\ acked' = acked \cup {Len(file)}
    BY <1>4 DEF WriteFails, Sync, Unlock
  <2>2. ASSUME pc[s] = "sync", file' = file, acked' = acked \cup {Len(file)} PROVE J!Next
    BY <2>2, SyncIsAcknowledge, Zenon DEF J!Next
  <2> QED
    BY <1>1, <1>2, <2>1, <2>2, Zenon
<1>5. CASE Kill
  <2>1. acked' = acked /\ file' \in {file, Append(file, Torn)}
    BY <1>5 DEF Kill, ProcessGone
  <2> QED
    BY <1>1, <1>2, <2>1
<1>6. CASE PowerLoss
  <2>1. PICK m \in synced..Len(file) : file' \in {SubSeq(file, 1, m), Append(SubSeq(file, 1, m), Torn)}
    BY <1>6 DEF PowerLoss
  <2>2. m \in 0..Len(file) /\ acked' = acked
    BY <1>0, <1>6 DEF PowerLoss, ProcessGone
  <2>3. Cut(file, file', m)
    BY <1>0, <2>1, <2>2, CutFile, Zenon
  <2>4. J!Crash
    BY <2>2, <2>3, CutCrash
  <2> QED
    BY <2>4, Zenon DEF J!Next
<1>7. CASE Quiet \/ FileCreate
  BY <1>1, <1>7, Zenon DEF Quiet, FileCreate
<1> QED
  BY <1>0, <1>3, <1>4, <1>5, <1>6, <1>7, Kinds, Zenon

(* The empty file is the empty journal. *)
LEMMA InitJournal == Init => J!Init
<1> SUFFICES ASSUME Init PROVE J!Init
  OBVIOUS
<1>1. /\ Types /\ Prefixed /\ file \in Seq(Piece) /\ Len(file) = 0 /\ acked = {}
  BY InitIInv DEF IInv, Init
<1>2. Prefix(file, 0) /\ 0 \in 0..Len(file)
  BY <1>1 DEF Prefix
<1>3. Readable = <<>>
  <2>1. ReadableIn(file) = Receipts(file, 0)
    BY <1>1, <1>2, ReadablePrefix, Zenon
  <2>2. Receipts(file, 0) = <<>>
    BY <1>1, <1>2, ReceiptsSeq, Zenon
  <2>3. Readable = ReadableIn(file)
    BY Seen, Zenon
  <2> QED
    BY <2>1, <2>2, <2>3, Zenon
<1>4. LastAcked = 0
  BY <1>1 DEF LastAcked
<1>5. Resumes
  BY <1>1 DEF Resumes
<1> QED
  BY <1>3, <1>4, <1>5, Zenon DEF J!Init

(* ImplementsJournal: what the journal of one server acknowledges stays      *)
(* readable, in order, through every kill and power loss, and nothing is     *)
(* acknowledged into a file that a restart refuses.                          *)
THEOREM Implements == OneServer => (Spec => ImplementsJournal)
<1> SUFFICES ASSUME OneServer PROVE Spec => ImplementsJournal
  OBVIOUS
<1>1. Init => IInv /\ Alone /\ J!Init
  BY InitIInv, InitJournal
<1>2. IInv /\ Alone /\ [Next]_vars => IInv' /\ Alone'
  BY NextIInv, AloneStep
<1>3. IInv /\ Alone /\ IInv' /\ [Next]_vars => [J!Next]_(J!vars)
  BY StepJournal
<1> QED
  BY <1>1, <1>2, <1>3, PTL DEF Spec, ImplementsJournal, J!Spec
=============================================================================
