------------------------------- MODULE Config -------------------------------
(***************************************************************************)
(* A configuration under any sequence of calls (config.c), what             *)
(* server_create makes of it (server.c), and who a request to the server     *)
(* then is (core/http.c, core/socks.c).  Usernames and secrets are members   *)
(* of small sets of well-formed ones; the others are refused first.          *)
(***************************************************************************)
EXTENDS Naturals, Sequences, Functions

CONSTANTS
  Users, Secrets,
  None,
  Kinds,           \* shared handles a configuration may hold: "tls", "audit", "attestor"
  MaxPrincipals    \* EGRESS_MAX_PRINCIPALS

ASSUME ConfigAssumption ==
  None \notin Users \cup Secrets /\ MaxPrincipals \in Nat \ {0}
  /\ Kinds \subseteq {"tls", "audit", "attestor"}

VARIABLES
  config,    \* the configuration, or None once destroyed
  server,    \* the handles a server holds, or None
  program,   \* the handles the program itself still holds
  refs       \* handle -> its reference count

vars == <<config, server, program, refs>>

Default ==
  [native_only |-> FALSE, listen_unix |-> FALSE, listen_host |-> "loopback",
   unix_peer_policy |-> "AUTHENTICATED", principals |-> <<>>,
   authentication_set |-> FALSE, unauthenticated_loopback |-> FALSE,
   unix_principal_bound |-> FALSE, native_principal_bound |-> FALSE, held |-> {}]

Init ==
  /\ config = Default /\ server = None
  /\ program = Kinds /\ refs = [k \in Kinds |-> 1]

(* What a configuration can hold. *)
Configurations ==
  [native_only : BOOLEAN, listen_unix : BOOLEAN, listen_host : {"loopback", "remote", ""},
   unix_peer_policy : {"AUTHENTICATED", "SAME_EUID"},
   principals : Seq([username : Users, secret : Secrets \cup {None}, limited : BOOLEAN]),
   authentication_set : BOOLEAN, unauthenticated_loopback : BOOLEAN,
   unix_principal_bound : BOOLEAN, native_principal_bound : BOOLEAN, held : SUBSET Kinds]

ASSUME NoneAssumption ==
  None \notin Configurations /\ \A handles \in SUBSET Kinds : None # handles

Bound(c) == c.native_principal_bound \/ c.unix_principal_bound
-----------------------------------------------------------------------------
(* The setters, as functions of the configuration; a refusal changes nothing. *)

(* Mutant: a bound configuration can be moved to a TCP listener. *)
SetListenAlways(c, host) ==
  [c EXCEPT !.listen_host = host, !.native_only = FALSE, !.listen_unix = FALSE]

set_listen(c, host) ==
  IF Bound(c) THEN c
  ELSE [c EXCEPT !.listen_host = host, !.native_only = FALSE, !.listen_unix = FALSE]

set_listen_unix(c, peer) ==
  IF Bound(c) THEN c
  ELSE [c EXCEPT !.native_only = FALSE, !.listen_unix = TRUE, !.unix_peer_policy = peer]

Principal(user, secret) == [username |-> user, secret |-> secret, limited |-> FALSE]

set_unix_principal(c, user) ==
  IF \/ ~c.listen_unix \/ c.unix_peer_policy # "SAME_EUID"
     \/ Bound(c) \/ c.principals # <<>> \/ c.authentication_set
  THEN c
  ELSE [c EXCEPT !.principals = <<Principal(user, None)>>, !.unix_principal_bound = TRUE]

set_native_only(c, enabled) ==
  IF Bound(c) THEN c
  ELSE IF enabled THEN [c EXCEPT !.native_only = TRUE, !.listen_unix = FALSE, !.listen_host = ""]
  ELSE [c EXCEPT !.native_only = FALSE, !.listen_host = IF @ = "" THEN "loopback" ELSE @]

set_native_principal(c, user) ==
  IF \/ ~c.native_only \/ c.listen_unix \/ "tls" \in c.held
     \/ c.unauthenticated_loopback \/ c.principals # <<>> \/ c.authentication_set \/ Bound(c)
  THEN c
  ELSE [c EXCEPT !.principals = <<Principal(user, None)>>, !.native_principal_bound = TRUE]

(* One principal instead of those there. *)
set_authentication(c, user, secret) ==
  IF Bound(c) THEN c
  ELSE [c EXCEPT !.principals = <<Principal(user, secret)>>, !.authentication_set = TRUE]

SecretsOf(c) == {p.secret : p \in Range(c.principals)}

(* Mutant: the username is what must be new. *)
AddPrincipalByName(c, user, secret) ==
  IF \/ Bound(c) \/ Len(c.principals) >= MaxPrincipals
     \/ user \in {p.username : p \in Range(c.principals)}
  THEN c
  ELSE [c EXCEPT !.principals = Append(@, Principal(user, secret)), !.authentication_set = TRUE]

add_principal(c, user, secret) ==
  IF Bound(c) \/ Len(c.principals) >= MaxPrincipals \/ secret \in SecretsOf(c) THEN c
  ELSE [c EXCEPT !.principals = Append(@, Principal(user, secret)), !.authentication_set = TRUE]

(* The first principal of that name. *)
set_principal_quota(c, user, limited) ==
  LET named == {i \in DOMAIN c.principals : c.principals[i].username = user} IN
  [c EXCEPT !.principals = [i \in DOMAIN @ |->
     IF i \in named /\ \A j \in named : i <= j THEN [@[i] EXCEPT !.limited = limited] ELSE @[i]]]

allow_unauthenticated_loopback(c, enabled) ==
  IF c.native_principal_bound THEN c ELSE [c EXCEPT !.unauthenticated_loopback = enabled]
-----------------------------------------------------------------------------
(* maelys_egress_server_create: what it refuses. *)

loopback(c) == ~c.native_only /\ ~c.listen_unix /\ c.listen_host = "loopback"

RemoteWithoutTls(c) == ~(c.native_only \/ c.listen_unix \/ loopback(c)) /\ "tls" \notin c.held

InvalidUnixBinding(c) ==
  c.unix_principal_bound
  /\ (~c.listen_unix \/ c.unix_peer_policy # "SAME_EUID" \/ Len(c.principals) = 0)

InvalidNativeBinding(c) ==
  c.native_principal_bound
  /\ \/ ~c.native_only \/ c.listen_unix \/ Len(c.principals) # 1 \/ c.authentication_set
     \/ c.unix_principal_bound \/ c.unauthenticated_loopback \/ "tls" \in c.held

Unauthenticated(c) ==
  /\ ~c.authentication_set /\ ~Bound(c)
  /\ c.listen_unix \/ ~c.unauthenticated_loopback \/ ~loopback(c)

Accepted(c) ==
  ~RemoteWithoutTls(c) /\ ~InvalidUnixBinding(c) /\ ~InvalidNativeBinding(c) /\ ~Unauthenticated(c)
-----------------------------------------------------------------------------
(* Who a request is: the index of a principal, 0 for nobody in particular    *)
(* (SIZE_MAX in the code), or Refused, past all of them.  A credential is [user, secret]; with *)
(* a Bearer token the user is None and any username matches.                 *)
Refused == MaxPrincipals + 1

egress_credentials_lookup(c, cred) ==
  LET hits == {i \in DOMAIN c.principals :
                 /\ cred.user \in {None, c.principals[i].username}
                 /\ cred.secret = c.principals[i].secret}
  IN  IF ~c.authentication_set \/ hits = {} THEN Refused
      ELSE CHOOSE i \in hits : \A j \in hits : j <= i

unix_principal_lookup(c) ==
  IF c.listen_unix /\ c.unix_principal_bound /\ Len(c.principals) > 0 THEN 1 ELSE 0

(* egress_parse_http_request: creds are its Proxy-Authorization headers. *)
HttpIdentity(c, creds) ==
  LET bound == unix_principal_lookup(c) IN
  IF Len(creds) > 1 THEN Refused
  ELSE IF bound # 0 THEN IF creds = <<>> THEN bound ELSE Refused
  ELSE IF c.authentication_set THEN IF creds = <<>> THEN Refused
                                    ELSE egress_credentials_lookup(c, creds[1])
  ELSE IF c.unauthenticated_loopback THEN 0 ELSE Refused

(* egress_parse_socks_frame: the methods the client offers, and what it      *)
(* presents when method 2 is chosen.                                         *)
SocksIdentity(c, methods, cred) ==
  LET bound == unix_principal_lookup(c)
      wanted == IF bound # 0 THEN 0 ELSE IF c.authentication_set THEN 2 ELSE 0
  IN  IF wanted \notin methods THEN Refused
      ELSE IF wanted = 2 THEN egress_credentials_lookup(c, cred)
      ELSE bound

(* egress_server_connector_bind: with a credential, or as the native         *)
(* principal of the server.                                                  *)
ConnectorIdentity(c, cred) ==
  IF c.native_principal_bound THEN Refused ELSE egress_credentials_lookup(c, cred)

NativeIdentity(c) ==
  IF c.native_only /\ c.native_principal_bound /\ Len(c.principals) = 1 THEN 1 ELSE Refused
-----------------------------------------------------------------------------
(* Handles: set_tls_listener, set_audit and set_receipt_attestor retain the   *)
(* new one, if any, before they release the old one.                         *)

Retained(r, ks) == [k \in Kinds |-> IF k \in ks THEN r[k] + 1 ELSE r[k]]
Released(r, ks) == [k \in Kinds |-> IF k \in ks THEN r[k] - 1 ELSE r[k]]

Set(f) == config # None /\ config' = f /\ UNCHANGED <<server, program, refs>>

Hold(k) ==
  /\ config # None /\ k \in program
  /\ k = "tls" => ~config.native_principal_bound
  /\ config' = [config EXCEPT !.held = @ \cup {k}]
  /\ refs' = Released(Retained(refs, {k}), config.held \cap {k})
  /\ UNCHANGED <<server, program>>

Clear(k) ==
  /\ config # None
  /\ k = "tls" => ~config.native_principal_bound
  /\ config' = [config EXCEPT !.held = @ \ {k}]
  /\ refs' = Released(refs, config.held \cap {k})
  /\ UNCHANGED <<server, program>>

ProgramReleases(k) ==
  /\ k \in program /\ program' = program \ {k} /\ refs' = Released(refs, {k})
  /\ UNCHANGED <<config, server>>

(* A server copies the configuration, handles included.  One that cannot be  *)
(* built is destroyed again before create returns (module Endpoint).         *)
Create ==
  /\ config # None /\ server = None /\ Accepted(config)
  /\ server' = config.held /\ refs' = Retained(refs, config.held)
  /\ UNCHANGED <<config, program>>

DestroyServer ==
  /\ server # None /\ server' = None /\ refs' = Released(refs, server)
  /\ UNCHANGED <<config, program>>

DestroyConfig ==
  /\ config # None /\ config' = None /\ refs' = Released(refs, config.held)
  /\ UNCHANGED <<server, program>>

Listen == \E host \in {"loopback", "remote"} : Set(set_listen(config, host))
ListenUnix == \E peer \in {"AUTHENTICATED", "SAME_EUID"} : Set(set_listen_unix(config, peer))
BindUnix == \E u \in Users : Set(set_unix_principal(config, u))
NativeOnly == \E b \in BOOLEAN : Set(set_native_only(config, b))
BindNative == \E u \in Users : Set(set_native_principal(config, u))
Authenticate == \E u \in Users, s \in Secrets : Set(set_authentication(config, u, s))
Add == \E u \in Users, s \in Secrets : Set(add_principal(config, u, s))
Limit == \E u \in Users, b \in BOOLEAN : Set(set_principal_quota(config, u, b))
OptOut == \E b \in BOOLEAN : Set(allow_unauthenticated_loopback(config, b))

Next ==
  \/ Listen \/ ListenUnix \/ BindUnix \/ NativeOnly \/ BindNative
  \/ Authenticate \/ Add \/ Limit \/ OptOut
  \/ \E k \in Kinds : Hold(k) \/ Clear(k) \/ ProgramReleases(k)
  \/ Create \/ DestroyServer \/ DestroyConfig

Spec == Init /\ [][Next]_vars
-----------------------------------------------------------------------------
(* Properties. *)

(* The state is well typed. *)
TypeOK ==
  /\ config # None =>
       /\ config \in Configurations /\ Len(config.principals) <= MaxPrincipals
       /\ config.listen_host = "" => config.native_only \/ config.listen_unix
  /\ server # None => server \subseteq Kinds
  /\ program \subseteq Kinds

(* The setters keep a binding valid by themselves: no sequence of calls      *)
(* makes server_create refuse a bound configuration for its binding.         *)
BindingsStayValid ==
  config # None => ~InvalidUnixBinding(config) /\ ~InvalidNativeBinding(config)

Endpoint(c) == <<c.native_only, c.listen_unix, c.listen_host, c.unix_peer_policy,
                 [i \in DOMAIN c.principals |-> c.principals[i].username], c.authentication_set,
                 c.unix_principal_bound, c.native_principal_bound>>

(* egress.h: a binding "is immutable for the rest of the configuration       *)
(* lifetime".                                                                *)
BoundImmutable ==
  [][config # None /\ config' # None /\ Bound(config) => Endpoint(config') = Endpoint(config)]_vars

Credentials == [user : Users \cup {None}, secret : Secrets]
Headers == {<<>>} \cup {<<x>> : x \in Credentials} \cup {<<x, y>> : x, y \in Credentials}
Offers == (SUBSET {0, 2}) \ {{}}

(* On any server create accepts, over either protocol, a request is          *)
(* somebody's, unless the operator opted out on a loopback TCP listener; the  *)
(* opt-out never reaches a Unix or remote listener.                          *)
EndpointsAuthenticated ==
  config # None /\ Accepted(config) /\ ~config.native_only =>
    \/ loopback(config) /\ config.unauthenticated_loopback
    \/ /\ \A creds \in Headers : HttpIdentity(config, creds) # 0
       /\ \A methods \in Offers, cred \in Credentials : SocksIdentity(config, methods, cred) # 0

(* A credential stands for one principal: the one whose secret it carries,   *)
(* whichever protocol or connector presents it, and a Bearer token names the *)
(* same one.  A native-only server always has someone to serve.              *)
OneIdentity ==
  config # None /\ Accepted(config) =>
  /\ config.native_only => config.authentication_set \/ NativeIdentity(config) = 1
  /\ config.authentication_set => \A i \in DOMAIN config.principals :
      LET p == config.principals[i]
          cred == [user |-> p.username, secret |-> p.secret] IN
      /\ HttpIdentity(config, <<cred>>) = i
      /\ HttpIdentity(config, <<[cred EXCEPT !.user = None]>>) = i
      /\ SocksIdentity(config, {2}, cred) = i /\ ConnectorIdentity(config, cred) = i

(* A shared handle lives exactly as long as the program, the configuration   *)
(* or the server holds it.                                                   *)
HandlesCounted ==
  \A k \in Kinds :
    LET One(holds) == IF holds THEN 1 ELSE 0 IN
    refs[k] = One(k \in program) + One(config # None /\ k \in config.held)
              + One(server # None /\ k \in server)

(* Whatever the setters were called with and in which order: the bindings    *)
(* stay valid, what create accepts is authenticated and gives each           *)
(* credential one principal, and every handle is counted.                    *)
ConfigSound ==
  BindingsStayValid /\ EndpointsAuthenticated /\ OneIdentity /\ HandlesCounted
=============================================================================
