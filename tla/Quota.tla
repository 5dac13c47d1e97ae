------------------------------- MODULE Quota -------------------------------
(***************************************************************************)
(* The arithmetic of the byte quotas (quota.c): what a stream may still     *)
(* move, and which ceiling says so.  A ceiling of 0 is no ceiling.          *)
(***************************************************************************)
EXTENDS Integers

CONSTANT U64Max    \* UINT64_MAX

ASSUME U64Assumption == U64Max \in Nat \ {0}

U64 == 0..U64Max

Scopes == {"NONE", "ACTIVE_CONNECTIONS", "CONNECTION_BYTES", "EXECUTION_BYTES"}

AddSaturating(value, amount) ==
  IF U64Max - value < amount THEN U64Max ELSE value + amount

(* Mutant: the remainder is taken without looking at what is used up. *)
RemainingLoose(maximum, used) ==
  IF maximum = 0 THEN U64Max ELSE IF used > maximum THEN 0 ELSE maximum - used + 1

quota_remaining(maximum, used) ==
  IF maximum = 0 THEN U64Max ELSE IF used >= maximum THEN 0 ELSE maximum - used

(* egress_quota_allowance: the smaller of what the stream and the principal *)
(* have left; the principal's ceiling is named on a tie.                    *)
Unlimited == [amount |-> U64Max, scope |-> "NONE"]

Allowance(admitted, maxStream, used, maxTotal, total) ==
  LET stream == quota_remaining(maxStream, used)
      left   == quota_remaining(maxTotal, total)
  IN  IF ~admitted THEN Unlimited
      ELSE IF maxTotal # 0 /\ left <= stream
      THEN [amount |-> left, scope |-> "EXECUTION_BYTES"]
      ELSE IF maxStream # 0
      THEN [amount |-> stream, scope |-> "CONNECTION_BYTES"]
      ELSE Unlimited
=============================================================================
