------------------------------- MODULE Names -------------------------------
(***************************************************************************)
(* The canonical form of a host name (src/core/common.c): the one pass     *)
(* egress_canonical_host makes over the bytes, with the index where the    *)
(* current label starts, checked against the grammar its comment states.   *)
(* A byte is a one-character string.  IPv6 literals, recognised by the     *)
(* system's inet_pton and kept as written, are left out: no input here     *)
(* holds a colon.                                                          *)
(*                                                                         *)
(* The state is a name being typed, so that every name over the alphabet   *)
(* up to a length is met.                                                  *)
(***************************************************************************)
EXTENDS Naturals, Sequences, SequencesExt, FiniteSets

CONSTANTS
    Alphabet,       \* the bytes of the names tried
    MaxTyped,       \* the longest name tried
    MaxHost,        \* EGRESS_MAX_HOST
    MaxLabel        \* 63

VARIABLE input

Lowered(c) == CASE c = "A" -> "a" [] c = "F" -> "f" [] c = "X" -> "x" [] OTHER -> c

Digit(c) == c \in {"0", "1", "2", "5", "6", "9"}
Value(c) == CASE c = "0" -> 0 [] c = "1" -> 1 [] c = "2" -> 2 [] c = "5" -> 5
              [] c = "6" -> 6 [] c = "9" -> 9
HexLetter(c) == c \in {"a", "A", "f", "F"}
Alnum(c) == Digit(c) \/ HexLetter(c) \/ c \in {"x", "X", "z"}

-----------------------------------------------------------------------------
(* Mutant: the prefix 0X is not recognised.                                *)
numeric_label_lower(label) ==
    LET hexadecimal == Len(label) > 2 /\ label[1] = "0" /\ label[2] = "x"
    IN  /\ label # <<>>
        /\ \A i \in (IF hexadecimal THEN 3 ELSE 1) .. Len(label) :
              Digit(label[i]) \/ (hexadecimal /\ HexLetter(label[i]))

(* numeric_label: decimal digits only, or 0x and at least one hexadecimal  *)
(* digit.                                                                  *)
numeric_label(label) ==
    LET hexadecimal == Len(label) > 2 /\ label[1] = "0" /\ label[2] \in {"x", "X"}
    IN  /\ label # <<>>
        /\ \A i \in (IF hexadecimal THEN 3 ELSE 1) .. Len(label) :
              Digit(label[i]) \/ (hexadecimal /\ HexLetter(label[i]))

(* The value of a run of digits, as the loops of the parsers build it.     *)
Decimal(digits) ==
    LET upto[i \in 0 .. Len(digits)] ==
            IF i = 0 THEN 0 ELSE upto[i - 1] * 10 + Value(digits[i])
    IN  upto[Len(digits)]

(* What strict_ipv4 asks of the bytes between two dots.                    *)
octet(part) ==
    /\ Len(part) \in 1 .. 3
    /\ Len(part) > 1 => part[1] # "0"
    /\ \A i \in DOMAIN part : Digit(part[i])
    /\ Decimal(part) <= 255

(* strict_ipv4: the position past the end closes the last octet.           *)
strict_ipv4(name) ==
    LET scan[i \in 0 .. Len(name) + 1] ==
            IF i = 0 THEN [ok |-> TRUE, octets |-> 0, start |-> 1]
            ELSE LET at == scan[i - 1] IN
                 IF ~at.ok \/ (i <= Len(name) /\ name[i] # ".") THEN at
                 ELSE [ok |-> octet(SubSeq(name, at.start, i - 1)) /\ at.octets < 4,
                       octets |-> at.octets + 1, start |-> i + 1]
        end == scan[Len(name) + 1]
    IN  end.ok /\ end.octets = 4

(* A label from `first' up to, not including, `next'.                      *)
label_fits(name, first, next) ==
    /\ next - first \in 1 .. MaxLabel
    /\ Lowered(name[first]) # "-" /\ Lowered(name[next - 1]) # "-"

Refused == <<".">>

(* egress_canonical_host: the output, or Refused.                          *)
canonical_host(name) ==
    LET scan[i \in 0 .. Len(name)] ==
            IF i = 0 THEN [ok |-> TRUE, start |-> 1]
            ELSE LET at == scan[i - 1] IN
                 IF name[i] = "." /\ at.ok
                 THEN [ok |-> label_fits(name, at.start, i), start |-> i + 1]
                 ELSE [at EXCEPT !.ok = @ /\ (Alnum(name[i]) \/ name[i] = "-")]
        end == scan[Len(name)]
        final == SubSeq(name, end.start, Len(name))
    IN  IF /\ Len(name) \in 1 .. MaxHost
           /\ end.ok
           /\ label_fits(name, end.start, Len(name) + 1)
           /\ numeric_label(final) => strict_ipv4(name)
        THEN [i \in DOMAIN name |-> Lowered(name[i])]
        ELSE Refused

-----------------------------------------------------------------------------
(* The grammar of the comment, in terms of the labels between the dots.    *)
Ends(name) == {0, Len(name) + 1} \cup {i \in DOMAIN name : name[i] = "."}

Labels(name) ==
    {<<i, SubSeq(name, i + 1, j - 1)>> : <<i, j>> \in
        {p \in Ends(name) \X Ends(name) :
            p[1] < p[2] /\ \A k \in p[1] + 1 .. p[2] - 1 : k \notin Ends(name)}}

LastLabel(name) == (CHOOSE l \in Labels(name) : \A m \in Labels(name) : m[1] <= l[1])[2]

DecimalOctet(label) ==
    /\ \A i \in DOMAIN label : Digit(label[i])
    /\ label[1] = "0" => label = <<"0">>
    /\ Decimal(label) <= 255

Number(label) ==
    \/ \A i \in DOMAIN label : Digit(label[i])
    \/ /\ Len(label) >= 3 /\ label[1] = "0" /\ Lowered(label[2]) = "x"
       /\ \A i \in 3 .. Len(label) : Digit(label[i]) \/ HexLetter(label[i])

Grammatical(name) ==
    /\ Len(name) <= MaxHost
    /\ \A l \in Labels(name) :
          /\ l[2] # <<>> /\ Len(l[2]) <= MaxLabel
          /\ \A i \in DOMAIN l[2] : Alnum(l[2][i]) \/ l[2][i] = "-"
          /\ Head(l[2]) # "-" /\ Last(l[2]) # "-"
    /\ Number(LastLabel(name)) =>
          /\ Cardinality(Labels(name)) = 4
          /\ \A l \in Labels(name) : DecimalOctet(l[2])

-----------------------------------------------------------------------------
vars == input

Init == input = <<>>

Type ==
    /\ Len(input) < MaxTyped
    /\ \E c \in Alphabet : input' = Append(input, c)

Next == Type

Spec == Init /\ [][Next]_vars

(* The pass over the bytes accepts exactly the names of the grammar its    *)
(* comment states, and answers with the name in lower case.                *)
CanonicalExact ==
    canonical_host(input) =
        IF Grammatical(input) THEN [i \in DOMAIN input |-> Lowered(input[i])]
        ELSE Refused

(* A canonical name is its own canonical form: what a policy stores, a     *)
(* request asks for and a ClientHello names are compared byte by byte.     *)
CanonicalStable ==
    canonical_host(input) # Refused =>
        canonical_host(canonical_host(input)) = canonical_host(input)

(* A number spelled two ways is accepted at most once: no other spelling   *)
(* of an octet of an accepted address would be accepted in its place.      *)
SpelledOnce ==
    canonical_host(input) # Refused /\ numeric_label(LastLabel(input)) =>
        \A l \in Labels(input) :
            \A spelling \in UNION {[1 .. n -> Alphabet \ {"."}] : n \in 1 .. 3} :
                octet(spelling) /\ Decimal(spelling) = Decimal(l[2])
                    => spelling = l[2]
=============================================================================
