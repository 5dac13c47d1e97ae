------------------------------- MODULE Policy -------------------------------
(***************************************************************************)
(* Building, sealing and looking up a policy (core/policy.c).  A handle is  *)
(* built by allow_tcp and require_tls_sni in any order, sealed against a    *)
(* resolver that may answer differently every time or fail halfway, and     *)
(* resealed into another handle.  Hosts and addresses are numbers in the    *)
(* order strcmp and address_compare put them; SHA-256 is an injection, so a  *)
(* digest is the text it is computed from.  The name given to allow_tcp is   *)
(* its canonical form (module Names).                                       *)
(***************************************************************************)
EXTENDS Naturals, Sequences, SequencesExt, FiniteSets

CONSTANTS
  Handles,           \* policy handles a program holds
  Hosts, Numeric,    \* canonical hosts, and those that are literals
  Ports,
  Optins,            \* values of allow_private_addresses a program passes
  Addresses, NonGlobal,
  MaxDestinations,   \* EGRESS_MAX_DESTINATIONS
  MaxPinned,         \* EGRESS_MAX_PINNED_ADDRESSES
  MaxAnswers,        \* bound: addresses in one answer of the resolver
  MaxSeals           \* bound: calls of seal per handle

VARIABLES
  policies,   \* handle -> its policy
  strays,     \* handle -> addresses it pins that its last seal was not answered
  seals       \* handle -> calls of seal

vars == <<policies, strays, seals>>

Absent == [made |-> FALSE, sealed |-> FALSE, destinations |-> <<>>, digest |-> <<>>]
Created == [Absent EXCEPT !.made = TRUE]

Init ==
  /\ policies = [p \in Handles |-> Absent]
  /\ strays = [p \in Handles |-> {}]
  /\ seals = [p \in Handles |-> 0]
-----------------------------------------------------------------------------
Named(d, host, port) == d.host = host /\ d.port = port
Names(p) == {<<p.destinations[i].host, p.destinations[i].port>> : i \in DOMAIN p.destinations}

allow_tcp(p, host, port, private) ==
  IF p.sealed \/ <<host, port>> \in Names(p) \/ Len(p.destinations) >= MaxDestinations
  THEN [ok |-> FALSE, p |-> p]
  ELSE [ok |-> TRUE, p |-> [p EXCEPT !.destinations = Append(@,
         [host |-> host, port |-> port, allow_private |-> private,
          require_tls_sni |-> FALSE, addresses |-> <<>>])]]

require_tls_sni(p, host, port) ==
  IF p.sealed \/ host \in Numeric \/ <<host, port>> \notin Names(p)
  THEN [ok |-> FALSE, p |-> p]
  ELSE [ok |-> TRUE, p |-> [p EXCEPT !.destinations =
         [i \in DOMAIN @ |-> [@[i] EXCEPT !.require_tls_sni = @ \/ Named(p.destinations[i], host, port)]]]]
-----------------------------------------------------------------------------
(* The resolver: a failure, or addresses in any order, repeats included. *)
Failure == <<0>>
Answers == {Failure} \cup UNION {[1..n -> Addresses] : n \in 0..MaxAnswers}

(* One address of an answer; the first that is refused ends the loop. *)
Pin(d, address) ==
  IF d.result # "OK" THEN d
  ELSE IF ~d.allow_private /\ address \in NonGlobal THEN [d EXCEPT !.result = "DENIED"]
  ELSE IF address \in Range(d.addresses) THEN d
  ELSE IF Len(d.addresses) >= MaxPinned THEN [d EXCEPT !.result = "ARGUMENT"]
  ELSE [d EXCEPT !.addresses = Append(@, address)]

(* Mutant: addresses keep the order of the answer. *)
ResolveUnsorted(d, answer) ==
  IF answer = Failure THEN [d EXCEPT !.result = "IO"]
  ELSE LET e == FoldLeft(Pin, d, answer) IN
       IF e.result = "OK" /\ e.addresses = <<>> THEN [e EXCEPT !.result = "IO"] ELSE e

resolve_destination(d, answer) ==
  IF answer = Failure THEN [d EXCEPT !.result = "IO"]
  ELSE LET e == FoldLeft(Pin, d, answer)
           f == IF e.result = "OK" THEN [e EXCEPT !.addresses = SortSeq(@, <)] ELSE e
       IN  IF f.result = "OK" /\ f.addresses = <<>> THEN [f EXCEPT !.result = "IO"] ELSE f

Before(d, e) == d.host < e.host \/ (d.host = e.host /\ d.port < e.port)

compute_digest(destinations) ==
  FlattenSeq([i \in DOMAIN destinations |->
    LET d == destinations[i] IN
    <<<<"tcp", d.host, d.port, d.allow_private, d.require_tls_sni>>>>
      \o [j \in DOMAIN d.addresses |-> <<"addr", d.addresses[j]>>]])

(* The destinations in order, each resolved until one fails; those before it *)
(* keep their addresses, and the failed one those pinned so far.             *)
ResolveAll(destinations, answers) ==
  LET resolved == [i \in DOMAIN destinations |->
        resolve_destination(destinations[i] @@ [result |-> "OK"], answers[i])]
      ok(i) == resolved[i].result = "OK"
  IN  [ok |-> \A i \in DOMAIN destinations : ok(i),
       destinations |-> [i \in DOMAIN destinations |->
         IF \A j \in 1..i - 1 : ok(j)
         THEN [destinations[i] EXCEPT !.addresses = resolved[i].addresses]
         ELSE destinations[i]]]

(* maelys_egress_policy_seal: digested is false when computing the digest    *)
(* runs out of memory.                                                       *)
seal(p, answers, digested) ==
  IF p.sealed \/ p.destinations = <<>> THEN p
  ELSE LET r == ResolveAll(SortSeq(p.destinations, Before), answers)
           q == [p EXCEPT !.destinations = r.destinations]
       IN  IF ~r.ok \/ ~digested THEN q
           ELSE [q EXCEPT !.digest = compute_digest(r.destinations), !.sealed = TRUE]

(* The copy maelys_egress_policy_reseal builds before it seals it. *)
Rebuild(source) ==
  LET Step(acc, d) ==
        IF ~acc.ok THEN acc
        ELSE LET a == allow_tcp(acc.p, d.host, d.port, d.allow_private)
             IN  IF a.ok /\ d.require_tls_sni THEN require_tls_sni(a.p, d.host, d.port) ELSE a
  IN  FoldLeft(Step, [ok |-> TRUE, p |-> Created], source.destinations)

(* egress_policy_find: a scan that stops at the first greater host. *)
find(p, host, port) ==
  LET hit(i) == Named(p.destinations[i], host, port)
      past(i) == host < p.destinations[i].host
      found == {i \in DOMAIN p.destinations : hit(i) /\ \A j \in 1..i - 1 : ~past(j)}
  IN  IF ~p.sealed \/ port = 0 THEN {} ELSE {p.destinations[i] : i \in found}
-----------------------------------------------------------------------------
Becomes(h, p) == policies' = [policies EXCEPT ![h] = p]

Create(h) == ~policies[h].made /\ Becomes(h, Created) /\ UNCHANGED <<strays, seals>>

Allow(h) ==
  /\ policies[h].made
  /\ \E host \in Hosts, port \in Ports, private \in Optins :
       Becomes(h, allow_tcp(policies[h], host, port, private).p)
  /\ UNCHANGED <<strays, seals>>

Require(h) ==
  /\ policies[h].made
  /\ \E host \in Hosts, port \in Ports : Becomes(h, require_tls_sni(policies[h], host, port).p)
  /\ UNCHANGED <<strays, seals>>

Strays(p, answers) ==
  UNION {LET d == p.destinations[i] IN
         {<<d.host, d.port, a>> : a \in Range(d.addresses) \ Range(answers[i])} :
         i \in DOMAIN p.destinations}

Seal(h) ==
  /\ policies[h].made /\ ~policies[h].sealed /\ seals[h] < MaxSeals
  /\ \E answers \in [DOMAIN policies[h].destinations -> Answers], digested \in BOOLEAN :
       \E p \in {seal(policies[h], answers, digested)} :
       /\ Becomes(h, p)
       /\ strays' = [strays EXCEPT ![h] = IF p.sealed THEN Strays(p, answers) ELSE {}]
  /\ seals' = [seals EXCEPT ![h] = @ + 1]

(* maelys_egress_policy_reseal into a fresh handle; a failed one leaves none. *)
Reseal(h, g) ==
  /\ policies[h].sealed /\ ~policies[g].made
  /\ \E copy \in {Rebuild(policies[h])} :
       /\ copy.ok
       /\ \E answers \in [DOMAIN policies[h].destinations -> Answers] :
          \E p \in {seal(copy.p, answers, TRUE)} :
            /\ p.sealed
            /\ Becomes(g, p)
            /\ strays' = [strays EXCEPT ![g] = Strays(p, answers)]
  /\ UNCHANGED seals

Destroy(h) ==
  /\ policies[h].made /\ Becomes(h, Absent)
  /\ strays' = [strays EXCEPT ![h] = {}] /\ seals' = [seals EXCEPT ![h] = 0]

Next == \E h \in Handles :
  \/ Create(h) \/ Allow(h) \/ Require(h) \/ Seal(h) \/ Destroy(h)
  \/ \E g \in Handles : Reseal(h, g)

Spec == Init /\ [][Next]_vars
-----------------------------------------------------------------------------
(* Properties. *)

(* Policies are within their limits, with one destination per host and port. *)
TypeOK ==
  /\ \A h \in Handles : LET p == policies[h] IN
       /\ Len(p.destinations) <= MaxDestinations
       /\ Cardinality(Names(p)) = Len(p.destinations)
       /\ p.sealed => p.made /\ p.destinations # <<>>
       /\ \A i \in DOMAIN p.destinations :
            Len(p.destinations[i].addresses) <= MaxPinned
  /\ seals \in [Handles -> 0..MaxSeals]

Sealed == {policies[h] : h \in {g \in Handles : policies[g].sealed}}

(* The scan of a sealed policy finds a destination exactly when it is        *)
(* allowed, whatever order the calls and a failed seal left them in.         *)
FindExact ==
  \A p \in Sealed, host \in Hosts, port \in Ports :
    find(p, host, port) = {d \in Range(p.destinations) : Named(d, host, port)}

(* No address outside the global space is pinned without the opt-in, not by  *)
(* a seal that failed either, and a sealed destination has an address.       *)
PinnedGlobal ==
  \A h \in Handles : \A d \in Range(policies[h].destinations) :
    /\ d.allow_private \/ Range(d.addresses) \cap NonGlobal = {}
    /\ policies[h].sealed => d.addresses # <<>>

Content(p) ==
  {[host |-> d.host, port |-> d.port, private |-> d.allow_private,
    sni |-> d.require_tls_sni, addresses |-> Range(d.addresses)] : d \in Range(p.destinations)}

(* The digest identifies what is enforced: it describes the policy as it is  *)
(* now, and two policies have one digest exactly when they allow the same    *)
(* destinations with the same addresses, in whatever order they were built.  *)
DigestCanonical ==
  /\ \A p \in Sealed : p.digest = compute_digest(p.destinations)
  /\ \A p, q \in Sealed : p.digest = q.digest <=> Content(p) = Content(q)

Rules(p) == {[d EXCEPT !.addresses = <<>>] : d \in Range(p.destinations)}

(* A reseal can fail by resolution only: the copy it builds from a sealed    *)
(* policy is never refused, and has every rule of its source.                *)
ResealRebuilds == \A p \in Sealed : Rebuild(p).ok /\ Rules(Rebuild(p).p) = Rules(p)

(* README: "DNS resolution at policy sealing": the addresses of a sealed     *)
(* policy are those its sealing was answered.                                *)
PinnedBySealing == \A h \in Handles : strays[h] = {}
=============================================================================
