------------------------------- MODULE Tokens -------------------------------
(***************************************************************************)
(* The 64-bit token of a watch (internal.h, admin.c): generation above bit  *)
(* 16, slot in bits 2 to 15, side in bits 0 and 1, bit 63 for the admin     *)
(* listener's clients.  The fields do not overlap, so the source's | is a   *)
(* sum.  Flag stands for 2^63, a value TLC cannot hold.                     *)
(***************************************************************************)
EXTENDS Integers

CONSTANT Flag    \* TOKEN_ADMIN_FLAG

ASSUME FlagAssumption == Flag \in Nat \ {0} /\ Flag % 65536 = 0

TOKEN_LISTENER       == 1
TOKEN_ADMIN_LISTENER == 4
Client   == 2     \* TOKEN_SIDE_CLIENT
Upstream == 3     \* TOKEN_SIDE_UPSTREAM

(* Shifting a generation out of 64 bits drops its high bits. *)
connection_token(slot, generation, side) ==
  ((generation * 65536) % (2 * Flag)) + slot * 4 + side

admin_token(slot, generation) ==
  Flag + ((generation * 65536) % Flag) + slot * 4 + Client

decode_token(token) ==
  [side       |-> token % 4,
   slot       |-> (token \div 4) % 16384,
   generation |-> token \div 65536]

(* What the loop compares a token with, before it decodes it. *)
IsAdmin(token) == token >= Flag
=============================================================================
