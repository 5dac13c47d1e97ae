----------------------------- MODULE Addresses -----------------------------
(***************************************************************************)
(* Which addresses a destination may be pinned to without asking for       *)
(* private ones (src/core/common.c): the comparisons of ipv4_private and   *)
(* egress_address_is_private, against the special-purpose blocks of the    *)
(* registries written as prefixes.  An address is its family and its first *)
(* bytes; the IPv4 address inside a mapped or a NAT64 address follows      *)
(* their twelve fixed bytes, which the family stands for.                  *)
(***************************************************************************)
EXTENDS Naturals, Sequences

CONSTANTS
    Seconds,        \* the second bytes tried
    Others          \* the third and fourth bytes tried

VARIABLES family, bytes

vars == <<family, bytes>>

Families == {"ipv4", "mapped", "nat64", "ipv6"}

ipv4_private(first, second) ==
    \/ first \in {0, 10, 127} \/ first >= 224
    \/ first = 100 /\ second >= 64 /\ second <= 127
    \/ first = 169 /\ second = 254
    \/ first = 172 /\ second >= 16 /\ second <= 31
    \/ first = 192 /\ second \in {0, 88, 168}
    \/ first = 198 /\ second \in {18, 19, 51}
    \/ first = 203 /\ second = 0

(* egress_address_is_private.                                              *)
address_is_private(f, b) ==
    IF f \in {"ipv4", "mapped", "nat64"} THEN ipv4_private(b[1], b[2])
    ELSE \/ b[1] \div 32 # 1
         \/ b[1] = 32 /\ b[2] = 1 /\ b[3] <= 1
         \/ b[1] = 32 /\ b[2] = 2
         \/ b[1] = 63 /\ b[2] = 255 /\ b[3] \div 16 = 0
         \/ b[1] = 32 /\ b[2] = 1 /\ b[3] = 13 /\ b[4] = 184

-----------------------------------------------------------------------------
(* The special-purpose blocks that are not globally reachable, as leading  *)
(* bytes and the number of leading bits that count.                        *)
Special4 == {
    <<<<0>>, 8>>, <<<<10>>, 8>>, <<<<100, 64>>, 10>>, <<<<127>>, 8>>,
    <<<<169, 254>>, 16>>, <<<<172, 16>>, 12>>, <<<<192, 0, 0>>, 24>>,
    <<<<192, 0, 2>>, 24>>, <<<<192, 88, 99>>, 24>>, <<<<192, 168>>, 16>>,
    <<<<198, 18>>, 15>>, <<<<198, 51, 100>>, 24>>, <<<<203, 0, 113>>, 24>>,
    <<<<224>>, 4>>, <<<<240>>, 4>>}

Special6 == {
    <<<<0>>, 8>>, <<<<1, 0>>, 16>>, <<<<95, 0>>, 16>>, <<<<32, 1, 0>>, 23>>,
    <<<<32, 1, 13, 184>>, 32>>, <<<<32, 2>>, 16>>, <<<<63, 255, 0>>, 20>>,
    <<<<252>>, 7>>, <<<<254, 128>>, 10>>, <<<<255>>, 8>>}

Min2(m, n) == IF m < n THEN m ELSE n

(* Does the address start with the leading bits of the block?              *)
InBlock(b, block) ==
    \A i \in DOMAIN block[1] :
        LET bits == Min2(8, block[2] - 8 * (i - 1))
        IN  b[i] \div 2 ^ (8 - bits) = block[1][i] \div 2 ^ (8 - bits)

Specials(f) == IF f = "ipv6" THEN Special6 ELSE Special4

-----------------------------------------------------------------------------
Init == family \in Families /\ bytes = <<>>

(* Another byte of the address.                                            *)
More ==
    /\ Len(bytes) < 4
    /\ \E b \in (CASE Len(bytes) = 0 -> 0 .. 255
                   [] Len(bytes) = 1 -> Seconds
                   [] OTHER -> Others) : bytes' = Append(bytes, b)
    /\ UNCHANGED family

Next == More

Spec == Init /\ [][Next]_vars

Complete == Len(bytes) = 4

(* Every address of a block that is not globally reachable is private,     *)
(* also when it is written inside a mapped or a NAT64 address.             *)
SpecialRefused ==
    Complete /\ (\E block \in Specials(family) : InBlock(bytes, block))
        => address_is_private(family, bytes)

(* And none else, up to the granularity of the comparisons: an IPv4        *)
(* address is refused for the sixteen bits of a block it shares, an IPv6   *)
(* address outside 2000::/3 always.                                        *)
GlobalAdmitted ==
    Complete /\ address_is_private(family, bytes) =>
        IF family = "ipv6"
        THEN \/ \E block \in Special6 : InBlock(bytes, block)
             \/ bytes[1] \notin 32 .. 63
        ELSE \E block \in Special4 :
                InBlock(bytes, <<SubSeq(block[1], 1, Min2(2, Len(block[1]))),
                                 Min2(16, block[2])>>)
=============================================================================
