------------------------------ MODULE MCInputs ------------------------------
(***************************************************************************)
(* What the proxy decides from its inputs alone, on small instances: the    *)
(* configuration it is given (Config), names and addresses (Names,          *)
(* Addresses) and the requests and ClientHellos of its clients (Socks,      *)
(* Http, ClientHello).  These parts do not share state.  A behaviour is one *)
(* of a single part, named by part; the variables of the others stand       *)
(* still.                                                                   *)
(***************************************************************************)
EXTENDS Config

VARIABLES
  part,                              \* the part this behaviour is of
  input,                             \* Names
  family, bytes,                     \* Addresses
  mode, sent, c,                     \* Socks and Http; c also ClientHello
  script, buffer, message, length,   \* Socks; Http
  hello, records, arrived            \* ClientHello

nameVars == input
addressVars == <<family, bytes>>
parserVars == <<mode, sent, c, script, buffer, message, length, hello, records, arrived>>
-----------------------------------------------------------------------------
(* Names of letters of both cases, hexadecimal prefixes, digits, hyphens,    *)
(* dots and a foreign byte; and strings of digits and dots.                  *)
Typed == INSTANCE Names WITH
  Alphabet <- {"a", "A", "x", "X", "0", "-", ".", "_"}, MaxTyped <- 6, MaxHost <- 5, MaxLabel <- 3
Numbers == INSTANCE Names WITH
  Alphabet <- {"0", "2", "6", "."}, MaxTyped <- 8, MaxHost <- 8, MaxLabel <- 3

(* Octets at and around the edges of the special-purpose blocks.             *)
Blocks == INSTANCE Addresses WITH
  Seconds <- {0, 1, 2, 15, 16, 18, 19, 20, 31, 32, 51, 63, 64, 88, 127, 128, 168, 254, 255},
  Others <- {0, 2, 13, 16, 99, 184}
-----------------------------------------------------------------------------
(* SOCKS5 frames with every kind of defect.                                  *)
Greetings == {<<>>, <<0>>, <<2>>, <<1, 2>>, <<2, 0>>, <<1>>}

Passwords ==
  {[version |-> 1, user |-> u, secret |-> s] :
     u \in {<<>>, <<7>>, <<8>>, <<7, 7>>}, s \in {<<>>, <<9>>, <<9, 9>>}}
  \cup {[version |-> 5, user |-> <<7>>, secret |-> <<9>>]}

(* The host byte 95 is one that no name may hold.                            *)
Requests ==
  {[head |-> <<5, 1, 0, 3>>, host |-> h, port |-> p] :
     h \in {<<>>, <<97>>, <<97, 0>>, <<95>>, <<97, 97>>, <<97, 97, 97>>},
     p \in {<<0, 0>>, <<0, 80>>, <<1, 0>>}}
  \cup {[head |-> <<5, 1, 0, 1>>, host |-> <<9, 9, 9, 9>>, port |-> <<0, 80>>],
        [head |-> <<5, 1, 0, 4>>, host |-> [i \in 1..16 |-> i], port |-> <<0, 80>>],
        [head |-> <<5, 1, 0, 2>>, host |-> <<9>>, port |-> <<0, 80>>]}
  \cup {[head |-> h, host |-> <<97>>, port |-> <<0, 80>>] :
          h \in {<<4, 1, 0, 3>>, <<5, 2, 0, 3>>, <<5, 1, 1, 3>>}}

Frames == INSTANCE Socks WITH
  MaxHost <- 2, MaxUsername <- 1, MaxSecret <- 1, Payload <- <<5, 1>>
-----------------------------------------------------------------------------
(* Request lines and header fields with every kind of defect.                *)
Lines ==
  {[method |-> m, target |-> t] : m \in {"CONNECT", "GET"}, t \in {"a", "malformed"}}
  \cup {[method |-> "malformed", target |-> "a"]}

Fields ==
  {[name |-> f[1], value |-> f[2]] : f \in
     {<<"Proxy-Authorization", "good">>, <<"Proxy-Authorization", "wrong">>,
      <<"Host", "a">>, <<"Host", "b">>, <<"Host", "malformed">>,
      <<"Connection", "x">>, <<"Transfer-Encoding", "x">>,
      <<"Content-Length", "decimal">>, <<"Content-Length", "x">>,
      <<"Other", "x">>, <<"malformed", "x">>}}

Heads == INSTANCE Http WITH MaxFields <- 3, MaxBody <- 1, HANDSHAKE_MAX <- 7, Capacity <- 9
-----------------------------------------------------------------------------
(* ClientHello messages with every kind of defect.                           *)
Dns(n) == [type |-> 0, name |-> n]
Sni(names) == [type |-> "server_name", names |-> names]
Ext(t) == [type |-> t, names |-> <<>>]
Good == Sni(<<Dns("host")>>)

Bodies ==
  {[type |-> "ClientHello", declared |-> 2, fixed |-> TRUE, extensions |-> e] : e \in
     {<<>>, <<Ext("other")>>, <<Good>>, <<Ext("other"), Good>>, <<Good, Ext("other")>>,
      <<Good, Good>>, <<Good, Ext("ech")>>, <<Ext("ech"), Good>>, <<Good, Ext("truncated")>>,
      <<Sni(<<>>)>>, <<Sni(<<Dns("other")>>)>>, <<Sni(<<Dns("host"), Dns("other")>>)>>,
      <<Sni(<<Dns("host"), [type |-> 1, name |-> "x"]>>)>>,
      <<Sni(<<[type |-> 1, name |-> "host"]>>)>>, <<Good, Sni(<<Dns("other")>>)>>}}
  \cup {[type |-> t, declared |-> d, fixed |-> f, extensions |-> <<Good>>] :
          t \in {"ClientHello", "other"}, d \in {0, 1, 4, 5}, f \in BOOLEAN}

Records ==
  {[type |-> "handshake", size |-> n] : n \in {0, 1, 2, 4, 7}}
  \cup {[type |-> "alert", size |-> 2]}

Hellos == INSTANCE ClientHello WITH
  HANDSHAKE_MAX <- 6, Capacity <- 9, MaxRecords <- 3, Expected <- "host"
-----------------------------------------------------------------------------
(* The specification. *)

Parts == {"configuration", "names", "numbers", "addresses", "socks", "http", "client hello"}

InputsInit ==
  /\ part \in Parts
  /\ Init
  /\ Typed!Init
  /\ IF part = "addresses" THEN Blocks!Init ELSE family = "ipv4" /\ bytes = <<>>
  /\ CASE part = "socks" -> Frames!Init
       [] part = "http" -> Heads!Init
       [] part = "client hello" -> Hellos!Init /\ mode = "" /\ sent = 0
       [] OTHER -> mode = "" /\ sent = 0 /\ c = ""
  /\ part # "socks" => script = <<>> /\ buffer = <<>>
  /\ part # "http" => message = <<>> /\ length = 0
  /\ part # "client hello" => hello = <<>> /\ records = <<>> /\ arrived = 0

InputsNext ==
  /\ UNCHANGED part
  /\ \/ /\ part = "configuration" /\ Next
        /\ UNCHANGED <<nameVars, addressVars, parserVars>>
     \/ /\ \/ part = "names" /\ Typed!Next
           \/ part = "numbers" /\ Numbers!Next
        /\ UNCHANGED <<vars, addressVars, parserVars>>
     \/ /\ part = "addresses" /\ Blocks!Next
        /\ UNCHANGED <<vars, nameVars, parserVars>>
     \/ /\ \/ part = "socks" /\ Frames!Next /\ UNCHANGED <<message, length, hello, records, arrived>>
           \/ part = "http" /\ Heads!Next /\ UNCHANGED <<script, buffer, hello, records, arrived>>
           \/ /\ part = "client hello" /\ Hellos!Next
              /\ UNCHANGED <<mode, sent, script, buffer, message, length>>
        /\ UNCHANGED <<vars, nameVars, addressVars>>

InputsSpec == InputsInit /\ [][InputsNext]_<<part, vars, nameVars, addressVars, parserVars>>
-----------------------------------------------------------------------------
(* Properties, next to those of Config. *)

(* egress_canonical_host, one pass over the bytes, accepts exactly the names *)
(* of the grammar its comment states and answers in lower case; its answers  *)
(* are stable, and a number is accepted in one spelling.                     *)
(* egress_address_is_private refuses exactly the blocks that are not         *)
(* globally reachable, also inside a mapped or a NAT64 address, up to the    *)
(* granularity of its comparisons.                                           *)
HostsExact ==
  /\ part = "names" => Typed!CanonicalExact /\ Typed!CanonicalStable
  /\ part = "numbers" => Numbers!CanonicalExact /\ Numbers!SpelledOnce
  /\ part = "addresses" => Blocks!SpecialRefused /\ Blocks!GlobalAdmitted

=============================================================================
