---------------------------- MODULE ConfigProofs ----------------------------
(***************************************************************************)
(* Proofs about Config, for any users, secrets and number of principals.     *)
(* A binding is inductive by itself once the configuration is well typed:    *)
(* each setter either refuses a bound configuration or leaves alone what     *)
(* server_create will test.                                                  *)
(***************************************************************************)
EXTENDS Config, TLAPS

Principals == [username : Users, secret : Secrets \cup {None}, limited : BOOLEAN]

Typed == config # None => config \in Configurations

(* Principals changed one by one stay as many. *)
LEMMA SameLength ==
  ASSUME NEW S, NEW p \in Seq(S), NEW q \in [DOMAIN p -> S]
  PROVE  q \in Seq(S) /\ Len(q) = Len(p) /\ DOMAIN q = DOMAIN p
OBVIOUS

(* A quota changes no name, and neither how many principals there are. *)
LEMMA QuotaKeeps ==
  ASSUME NEW c \in Configurations, NEW u \in Users, NEW b \in BOOLEAN
  PROVE  LET d == set_principal_quota(c, u, b) IN
         /\ d = [c EXCEPT !.principals = d.principals]
         /\ d.principals \in Seq(Principals) /\ Len(d.principals) = Len(c.principals)
         /\ [i \in DOMAIN d.principals |-> d.principals[i].username] =
            [i \in DOMAIN c.principals |-> c.principals[i].username]
<1> DEFINE named == {i \in DOMAIN c.principals : c.principals[i].username = u}
           p == c.principals
           q == [i \in DOMAIN p |-> IF i \in named /\ \A j \in named : i <= j
                                    THEN [p[i] EXCEPT !.limited = b] ELSE p[i]]
<1>1. p \in Seq(Principals)
  BY Zenon DEF Configurations, Principals
<1>2. set_principal_quota(c, u, b) = [c EXCEPT !.principals = q]
  BY DEF set_principal_quota
<1>3. ASSUME NEW i \in DOMAIN p
      PROVE  q[i] \in Principals /\ q[i].username = p[i].username
  <2>1. p[i] \in Principals
    BY <1>1
  <2>2. [p[i] EXCEPT !.limited = b] \in Principals /\ [p[i] EXCEPT !.limited = b].username = p[i].username
    BY <2>1 DEF Principals
  <2>3. q[i] = p[i] \/ q[i] = [p[i] EXCEPT !.limited = b]
    OBVIOUS
  <2> HIDE DEF q
  <2> QED
    BY <2>1, <2>2, <2>3, Zenon
<1>4. q \in [DOMAIN p -> Principals]
  BY <1>3, Zenon
<1> HIDE DEF q
<1>5. q \in Seq(Principals) /\ Len(q) = Len(p) /\ DOMAIN q = DOMAIN p
  BY <1>1, <1>4, SameLength
<1>6. [i \in DOMAIN q |-> q[i].username] = [i \in DOMAIN p |-> p[i].username]
  BY <1>3, <1>5
<1>7. [c EXCEPT !.principals = q].principals = q
  BY Zenon DEF Configurations
<1> QED
  BY <1>2, <1>5, <1>6, <1>7

Valid(c) == ~InvalidUnixBinding(c) /\ ~InvalidNativeBinding(c)

(* What a setter owes the configuration it is given. *)
Kept(c, d) ==
  /\ d \in Configurations /\ (Valid(c) => Valid(d))
  /\ Bound(c) => Endpoint(d) = Endpoint(c)
  /\ d.held = c.held

(* One principal, and one more. *)
LEMMA PrincipalSeqs ==
  ASSUME NEW c \in Configurations, NEW u \in Users, NEW x \in Secrets \cup {None}
  PROVE  /\ <<Principal(u, x)>> \in Seq(Principals) /\ Len(<<Principal(u, x)>>) = 1
         /\ Append(c.principals, Principal(u, x)) \in Seq(Principals)
<1>1. c.principals \in Seq(Principals) /\ Principal(u, x) \in Principals
  BY Zenon DEF Configurations, Principals, Principal
<1> QED
  BY <1>1

(* The setters that only refuse a bound configuration. *)
LEMMA ListenKeeps ==
  ASSUME NEW c \in Configurations
  PROVE  /\ \A host \in {"loopback", "remote"} : Kept(c, set_listen(c, host))
         /\ \A peer \in {"AUTHENTICATED", "SAME_EUID"} : Kept(c, set_listen_unix(c, peer))
         /\ \A b \in BOOLEAN : Kept(c, set_native_only(c, b))
<1> USE DEF Kept, Valid, InvalidUnixBinding, InvalidNativeBinding, Bound, Configurations
<1>1. ASSUME NEW host \in {"loopback", "remote"} PROVE Kept(c, set_listen(c, host))
  BY ZenonT(60) DEF set_listen
<1>2. ASSUME NEW peer \in {"AUTHENTICATED", "SAME_EUID"} PROVE Kept(c, set_listen_unix(c, peer))
  BY ZenonT(60) DEF set_listen_unix
<1>3. ASSUME NEW b \in BOOLEAN PROVE Kept(c, set_native_only(c, b))
  BY ZenonT(60) DEF set_native_only
<1> QED
  BY <1>1, <1>2, <1>3, Zenon

(* The two bindings are made only where create accepts them. *)
LEMMA BindKeeps ==
  ASSUME NEW c \in Configurations, NEW u \in Users
  PROVE  Kept(c, set_unix_principal(c, u)) /\ Kept(c, set_native_principal(c, u))
<1> USE DEF Kept, Valid, InvalidUnixBinding, InvalidNativeBinding, Bound
<1>1. <<Principal(u, None)>> \in Seq(Principals) /\ Len(<<Principal(u, None)>>) = 1
  BY PrincipalSeqs
<1>2. Kept(c, set_unix_principal(c, u))
  <2> DEFINE one == <<Principal(u, None)>>
             d == [c EXCEPT !.principals = one, !.unix_principal_bound = TRUE]
  <2>1. one \in Seq(Principals) /\ Len(one) = 1
    BY <1>1
  <2> HIDE DEF one
  <2>2. d \in Configurations /\ d.held = c.held
    BY <2>1, Zenon DEF Configurations, Principals
  <2>3. /\ d.listen_unix = c.listen_unix /\ d.unix_peer_policy = c.unix_peer_policy
        /\ d.principals = one /\ d.native_principal_bound = c.native_principal_bound
    BY Zenon DEF Configurations
  <2>4. ASSUME c.listen_unix, c.unix_peer_policy = "SAME_EUID", ~Bound(c)
        PROVE  Kept(c, d)
    <3>1. ~InvalidUnixBinding(d)
      <4>1. d.listen_unix /\ d.unix_peer_policy = "SAME_EUID" /\ d.principals = one
        BY <2>4, Zenon DEF Configurations
      <4> HIDE DEF d
      <4>2. Len(d.principals) = 1
        BY <2>1, <4>1, Zenon
      <4>3. Len(d.principals) # 0
        BY <4>2
      <4> QED
        BY <4>1, <4>3, Zenon DEF InvalidUnixBinding
    <3>2. ~InvalidNativeBinding(d)
      BY <2>4, Zenon DEF Configurations
    <3> HIDE DEF d
    <3> QED
      BY <2>2, <2>4, <3>1, <3>2
  <2>5. set_unix_principal(c, u) = c \/ (set_unix_principal(c, u) = d /\ c.listen_unix
          /\ c.unix_peer_policy = "SAME_EUID" /\ ~Bound(c))
    BY DEF set_unix_principal, one
  <2>6. Kept(c, c)
    OBVIOUS
  <2> QED
    BY <2>4, <2>5, <2>6, Zenon
<1>3. Kept(c, set_native_principal(c, u))
  BY <1>1, ZenonT(60) DEF set_native_principal, Configurations, Principals
<1> QED
  BY <1>2, <1>3

(* Principals with secrets go to configurations without a binding. *)
LEMMA SecretKeeps ==
  ASSUME NEW c \in Configurations, NEW u \in Users, NEW x \in Secrets
  PROVE  Kept(c, set_authentication(c, u, x)) /\ Kept(c, add_principal(c, u, x))
<1> USE DEF Kept, Valid, InvalidUnixBinding, InvalidNativeBinding, Bound
<1>1. /\ <<Principal(u, x)>> \in Seq(Principals)
      /\ Append(c.principals, Principal(u, x)) \in Seq(Principals)
  BY PrincipalSeqs
<1>2. Kept(c, set_authentication(c, u, x))
  BY <1>1, Zenon DEF set_authentication, Configurations, Principals
<1>3. Kept(c, add_principal(c, u, x))
  BY <1>1, ZenonT(60) DEF add_principal, Configurations, Principals
<1> QED
  BY <1>2, <1>3

(* A quota may be set on a bound configuration too. *)
LEMMA LimitKeeps ==
  ASSUME NEW c \in Configurations, NEW u \in Users, NEW b \in BOOLEAN
  PROVE  Kept(c, set_principal_quota(c, u, b))
<1> DEFINE d == set_principal_quota(c, u, b)
<1>1. /\ d = [c EXCEPT !.principals = d.principals]
      /\ d.principals \in Seq(Principals) /\ Len(d.principals) = Len(c.principals)
      /\ [i \in DOMAIN d.principals |-> d.principals[i].username] =
         [i \in DOMAIN c.principals |-> c.principals[i].username]
  BY QuotaKeeps
<1> HIDE DEF d
<1>2. d \in Configurations /\ (Valid(c) => Valid(d)) /\ d.held = c.held
  BY <1>1, Zenon DEF Configurations, Principals, Valid, InvalidUnixBinding, InvalidNativeBinding
<1>3. Endpoint(d) = Endpoint(c)
  BY <1>1, Zenon DEF Configurations, Endpoint
<1> QED
  BY <1>2, <1>3 DEF Kept, d

(* So may the opt-out, but not on a native one. *)
LEMMA OptOutKeeps ==
  ASSUME NEW c \in Configurations, NEW b \in BOOLEAN
  PROVE  Kept(c, allow_unauthenticated_loopback(c, b))
BY ZenonT(60) DEF Kept, Valid, InvalidUnixBinding, InvalidNativeBinding, Bound, Configurations,
       allow_unauthenticated_loopback, Endpoint

(* A handle is not part of an endpoint, and TLS never joins a native binding. *)
LEMMA HeldKeeps ==
  ASSUME NEW c \in Configurations, NEW h \in SUBSET Kinds,
         "tls" \in h => "tls" \in c.held \/ ~c.native_principal_bound
  PROVE  LET d == [c EXCEPT !.held = h] IN
         /\ d \in Configurations /\ (Valid(c) => Valid(d)) /\ Endpoint(d) = Endpoint(c)
<1> DEFINE d == [c EXCEPT !.held = h]
<1>1. d \in Configurations
  BY Zenon DEF Configurations
<1>2. /\ d.native_only = c.native_only /\ d.listen_unix = c.listen_unix
      /\ d.listen_host = c.listen_host /\ d.unix_peer_policy = c.unix_peer_policy
      /\ d.principals = c.principals /\ d.authentication_set = c.authentication_set
      /\ d.unauthenticated_loopback = c.unauthenticated_loopback
      /\ d.unix_principal_bound = c.unix_principal_bound
      /\ d.native_principal_bound = c.native_principal_bound /\ d.held = h
  BY Zenon DEF Configurations
<1> HIDE DEF d
<1>3. Valid(c) => Valid(d)
  BY <1>2 DEF Valid, InvalidUnixBinding, InvalidNativeBinding
<1>4. Endpoint(d) = Endpoint(c)
  BY <1>2 DEF Endpoint
<1> QED
  BY <1>1, <1>3, <1>4 DEF d

(* Every step that leaves a configuration keeps it so. *)
LEMMA StepKeeps ==
  ASSUME Typed, [Next]_vars, config # None, config' # None
  PROVE  /\ config' \in Configurations /\ (Valid(config) => Valid(config'))
         /\ Bound(config) => Endpoint(config') = Endpoint(config)
<1>1. config \in Configurations
  BY DEF Typed
<1>2. CASE config' = config
  BY <1>1, <1>2
<1>3. CASE Kept(config, config')
  BY <1>3 DEF Kept
<1>4. CASE Listen \/ ListenUnix \/ NativeOnly
  BY <1>1, <1>3, <1>4, ListenKeeps, Zenon DEF Listen, ListenUnix, NativeOnly, Set
<1>5. CASE BindUnix \/ BindNative
  BY <1>1, <1>3, <1>5, BindKeeps, Zenon DEF BindUnix, BindNative, Set
<1>6. CASE Authenticate \/ Add
  BY <1>1, <1>3, <1>6, SecretKeeps, Zenon DEF Authenticate, Add, Set
<1>7. CASE Limit
  BY <1>1, <1>3, <1>7, LimitKeeps, Zenon DEF Limit, Set
<1>8. CASE OptOut
  BY <1>1, <1>3, <1>8, OptOutKeeps, Zenon DEF OptOut, Set
<1>9. ASSUME NEW k \in Kinds, Hold(k) \/ Clear(k)
      PROVE  /\ config' \in Configurations /\ (Valid(config) => Valid(config'))
             /\ Bound(config) => Endpoint(config') = Endpoint(config)
  <2>1. PICK h \in SUBSET Kinds :
          /\ config' = [config EXCEPT !.held = h]
          /\ "tls" \in h => "tls" \in config.held \/ ~config.native_principal_bound
    <3>1. config.held \cup {k} \in SUBSET Kinds /\ config.held \ {k} \in SUBSET Kinds
      BY <1>1, Zenon DEF Configurations
    <3> QED
      BY <1>9, <3>1 DEF Hold, Clear
  <2> QED
    BY <1>1, <2>1, HeldKeeps
<1>10. CASE Create \/ DestroyServer \/ DestroyConfig \/ UNCHANGED vars
  BY <1>2, <1>10 DEF Create, DestroyServer, DestroyConfig, vars
<1>11. ASSUME NEW k \in Kinds, ProgramReleases(k)
       PROVE  config' = config
  BY <1>11 DEF ProgramReleases
<1> QED
  BY <1>2, <1>4, <1>5, <1>6, <1>7, <1>8, <1>9, <1>10, <1>11 DEF Next

IInv == Typed /\ BindingsStayValid

(* The default configuration has no binding. *)
LEMMA InitIInv == Init => IInv
<1> SUFFICES ASSUME Init PROVE IInv
  OBVIOUS
<1>1. Default \in Configurations /\ Default.principals = <<>>
  BY DEF Default, Configurations
<1>2. BindingsStayValid
  BY DEF Init, BindingsStayValid, InvalidUnixBinding, InvalidNativeBinding, Default
<1> QED
  BY <1>1, <1>2 DEF Init, IInv, Typed

(* The invariant is inductive: a destroyed configuration does not come back. *)
LEMMA NextIInv == IInv /\ [Next]_vars => IInv'
<1> SUFFICES ASSUME IInv, [Next]_vars PROVE IInv'
  OBVIOUS
<1>1. config' # None => config # None
  BY Zenon DEF Next, vars, Listen, ListenUnix, NativeOnly, BindUnix, BindNative, Authenticate,
     Add, Limit,
         OptOut, Set, Hold, Clear, ProgramReleases, Create, DestroyServer, DestroyConfig
<1> QED
  BY <1>1, StepKeeps DEF IInv, Typed, BindingsStayValid, Valid

(* No sequence of setter calls makes server_create refuse a configuration    *)
(* for the binding it carries.                                               *)
THEOREM BindingsValid == Spec => []BindingsStayValid
<1>1. IInv => BindingsStayValid
  BY DEF IInv
<1> QED
  BY <1>1, InitIInv, NextIInv, PTL DEF Spec

(* A bound configuration keeps its endpoint, its names and its bindings:     *)
(* egress.h's "immutable for the rest of the configuration lifetime".        *)
THEOREM BoundStays == Spec => BoundImmutable
<1>1. IInv /\ [Next]_vars =>
        [config # None /\ config' # None /\ Bound(config) => Endpoint(config') = Endpoint(config)]_vars
  BY StepKeeps DEF IInv
<1> QED
  BY <1>1, InitIInv, NextIInv, PTL DEF Spec, BoundImmutable
-----------------------------------------------------------------------------
(* Handles. *)

Counts(k) ==
  LET One(holds) == IF holds THEN 1 ELSE 0 IN
  One(k \in program) + One(config # None /\ k \in config.held) + One(server # None /\ k \in server)

Counted ==
  /\ program \subseteq Kinds /\ (server # None => server \subseteq Kinds)
  /\ refs = [k \in Kinds |-> Counts(k)]

(* A setter other than those of the handles counts nothing. *)
LEMMA SetCounts ==
  ASSUME Typed, Counted, config # None, Kept(config, config'), UNCHANGED <<server, program, refs>>
  PROVE  Counted'
<1>1. config' # None /\ config'.held = config.held
  BY NoneAssumption DEF Kept
<1>2. ASSUME NEW k \in Kinds PROVE Counts(k)' = Counts(k)
  BY <1>1 DEF Counts
<1> QED
  BY <1>2 DEF Counted

(* Taking, giving up and copying handles moves their counts along. *)
LEMMA HandleCounts ==
  ASSUME Typed, Counted,
         \/ \E k \in Kinds : Hold(k) \/ Clear(k) \/ ProgramReleases(k)
         \/ Create \/ DestroyServer \/ DestroyConfig
  PROVE  Counted'
<1> USE NoneAssumption DEF Counted, Counts, Retained, Released
<1>1. ASSUME NEW k \in Kinds, Hold(k) PROVE Counted'
  <2>1. config' \in Configurations /\ config'.held = config.held \cup {k}
    BY <1>1, Zenon DEF Hold, Typed, Configurations
  <2>2. config # None /\ config' # None /\ k \in program /\ server' = server /\ program' = program
    BY <1>1, <2>1, Zenon DEF Hold
  <2>3. refs' = [j \in Kinds |-> IF j = k /\ k \notin config.held THEN refs[j] + 1 ELSE refs[j]]
    BY <1>1 DEF Hold
  <2>4. ASSUME NEW j \in Kinds PROVE refs'[j] = Counts(j)'
    BY <2>1, <2>2, <2>3
  <2> QED
    BY <2>2, <2>3, <2>4
<1>2. ASSUME NEW k \in Kinds, Clear(k) PROVE Counted'
  <2>1. config' \in Configurations /\ config'.held = config.held \ {k}
    BY <1>2, Zenon DEF Clear, Typed, Configurations
  <2>2. config # None /\ config' # None /\ server' = server /\ program' = program
    BY <1>2, <2>1 DEF Clear
  <2>3. refs' = [j \in Kinds |-> IF j = k /\ k \in config.held THEN refs[j] - 1 ELSE refs[j]]
    BY <1>2 DEF Clear
  <2>4. ASSUME NEW j \in Kinds PROVE refs'[j] = Counts(j)'
    BY <2>1, <2>2, <2>3
  <2> QED
    BY <2>2, <2>3, <2>4
<1>3. ASSUME NEW k \in Kinds, ProgramReleases(k) PROVE Counted'
  BY <1>3 DEF ProgramReleases
<1>4. CASE Create
  <2>1. config.held \subseteq Kinds /\ config.held # None
    BY <1>4, Zenon DEF Create, Typed, Configurations
  <2>2. ASSUME NEW j \in Kinds PROVE refs'[j] = Counts(j)'
    BY <1>4, <2>1 DEF Create
  <2> QED
    BY <1>4, <2>1, <2>2 DEF Create
<1>5. CASE DestroyServer
  BY <1>5 DEF DestroyServer
<1>6. CASE DestroyConfig
  <2>1. config # None /\ config' = None /\ server' = server /\ program' = program
    BY <1>6 DEF DestroyConfig
  <2>2. refs' = [j \in Kinds |-> IF j \in config.held THEN refs[j] - 1 ELSE refs[j]]
    BY <1>6 DEF DestroyConfig
  <2>3. ASSUME NEW j \in Kinds PROVE refs'[j] = Counts(j)'
    BY <2>1, <2>2
  <2> QED
    BY <2>1, <2>2, <2>3
<1> QED
  BY <1>1, <1>2, <1>3, <1>4, <1>5, <1>6

(* A shared handle is counted once for each of the program, the              *)
(* configuration and the server that holds it: retain and release of the     *)
(* setters, of create and of the two destroys balance in any order.          *)
THEOREM HandlesBalance == Spec => []HandlesCounted
<1>1. Init => Counted
  BY NoneAssumption DEF Init, Counted, Counts, Default
<1>2. IInv /\ Counted /\ [Next]_vars => Counted'
  <2> SUFFICES ASSUME IInv, Counted, [Next]_vars PROVE Counted'
    OBVIOUS
  <2> USE DEF IInv
  <2>1. ASSUME config # None, Kept(config, config'), UNCHANGED <<server, program, refs>>
        PROVE  Counted'
    BY <2>1, SetCounts
  <2>2. CASE Listen \/ ListenUnix \/ NativeOnly
    BY <2>1, <2>2, ListenKeeps, Zenon DEF Listen, ListenUnix, NativeOnly, Set, Typed
  <2>3. CASE BindUnix \/ BindNative
    BY <2>1, <2>3, BindKeeps, Zenon DEF BindUnix, BindNative, Set, Typed
  <2>4. CASE Authenticate \/ Add
    BY <2>1, <2>4, SecretKeeps, Zenon DEF Authenticate, Add, Set, Typed
  <2>5. CASE Limit
    BY <2>1, <2>5, LimitKeeps, Zenon DEF Limit, Set, Typed
  <2>6. CASE OptOut
    BY <2>1, <2>6, OptOutKeeps, Zenon DEF OptOut, Set, Typed
  <2>7. CASE UNCHANGED vars
    BY <2>7 DEF vars, Counted, Counts
  <2> QED
    BY <2>2, <2>3, <2>4, <2>5, <2>6, <2>7, HandleCounts DEF Next
<1>3. Counted => HandlesCounted
  BY DEF Counted, Counts, HandlesCounted
<1> QED
  BY <1>1, <1>2, <1>3, InitIInv, NextIInv, PTL DEF Spec
-----------------------------------------------------------------------------
(* Identities. *)

(* egress_credentials_lookup finds principals by their secret, so it needs   *)
(* each secret once, and a secret for each principal.  A native-only server  *)
(* has no Unix listener.                                                     *)
Distinct(c) ==
  /\ Len(c.principals) <= MaxPrincipals
  /\ c.authentication_set => ~Bound(c)
  /\ c.native_only => ~c.listen_unix
  /\ ~Bound(c) => \A i \in DOMAIN c.principals : c.principals[i].secret \in Secrets
  /\ \A i, j \in DOMAIN c.principals : c.principals[i].secret = c.principals[j].secret => i = j

Apart == config # None => Distinct(config)

(* One principal is apart from itself. *)
LEMMA OneDistinct ==
  ASSUME NEW c, NEW u, NEW x, c.principals = <<Principal(u, x)>>,
         c.native_only => ~c.listen_unix,
         Bound(c) => ~c.authentication_set, Bound(c) \/ x \in Secrets
  PROVE  Distinct(c)
<1>1. /\ DOMAIN c.principals = {1} /\ Len(c.principals) = 1 /\ c.principals[1].secret = x
  BY DEF Principal
<1> QED
  BY <1>1, ConfigAssumption DEF Distinct

(* A setter that changes no secret and no binding keeps them apart. *)
LEMMA SameDistinct ==
  ASSUME NEW c, NEW d, Distinct(c), DOMAIN d.principals = DOMAIN c.principals,
         Len(d.principals) = Len(c.principals),
         \A i \in DOMAIN c.principals : d.principals[i].secret = c.principals[i].secret,
         d.authentication_set = c.authentication_set, Bound(d) <=> Bound(c),
         d.native_only => ~d.listen_unix
  PROVE  Distinct(d)
BY DEF Distinct

(* add_principal refuses a secret that is taken and a full table. *)
LEMMA AddDistinct ==
  ASSUME NEW c \in Configurations, NEW u \in Users, NEW x \in Secrets, Distinct(c)
  PROVE  Distinct(add_principal(c, u, x))
<1> DEFINE p == c.principals
           q == Append(p, Principal(u, x))
           d == [c EXCEPT !.principals = q, !.authentication_set = TRUE]
<1>1. p \in Seq(Principals) /\ Principal(u, x) \in Principals /\ Principal(u, x).secret = x
  BY Zenon DEF Configurations, Principals, Principal
<1>2. CASE add_principal(c, u, x) = c
  BY <1>2
<1>3. CASE ~Bound(c) /\ ~(Len(p) >= MaxPrincipals) /\ x \notin SecretsOf(c)
  <2>1. /\ Len(q) = Len(p) + 1 /\ DOMAIN q = 1..Len(p) + 1 /\ DOMAIN p = 1..Len(p) /\ Len(p) \in Nat
        /\ q[Len(p) + 1] = Principal(u, x)
        /\ \A i \in 1..Len(p) : q[i] = p[i]
    BY <1>1
  <2>2. \A i \in DOMAIN p : p[i].secret # x
    BY <1>3 DEF SecretsOf, Range
  <2>3. d.principals = q /\ d.authentication_set /\ ~Bound(d) /\ (d.native_only => ~d.listen_unix)
    BY <1>3, Zenon DEF Configurations, Bound, Distinct
  <2>4. add_principal(c, u, x) = d
    BY <1>3 DEF add_principal
  <2>5. Len(q) <= MaxPrincipals
    BY <1>3, <2>1, ConfigAssumption
  <2>6. \A i \in DOMAIN p : p[i].secret \in Secrets
    BY <1>3 DEF Distinct
  <2>7. \A i, j \in DOMAIN p : p[i].secret = p[j].secret => i = j
    BY DEF Distinct
  <2> HIDE DEF p, q, d
  <2>8. \A i \in DOMAIN q : q[i].secret \in Secrets
    BY <1>1, <2>1, <2>6
  <2>9. \A i, j \in DOMAIN q : q[i].secret = q[j].secret => i = j
    BY <1>1, <2>1, <2>2, <2>7
  <2> QED
    BY <2>3, <2>4, <2>5, <2>8, <2>9 DEF Distinct
<1> QED
  BY <1>2, <1>3 DEF add_principal

(* A quota changes no secret. *)
LEMMA LimitDistinct ==
  ASSUME NEW c \in Configurations, NEW u \in Users, NEW b \in BOOLEAN, Distinct(c)
  PROVE  Distinct(set_principal_quota(c, u, b))
<1> DEFINE named == {i \in DOMAIN c.principals : c.principals[i].username = u}
           p == c.principals
           q == [i \in DOMAIN p |-> IF i \in named /\ \A j \in named : i <= j
                                    THEN [p[i] EXCEPT !.limited = b] ELSE p[i]]
           d == set_principal_quota(c, u, b)
<1>1. p \in Seq(Principals)
  BY Zenon DEF Configurations, Principals
<1>2. d = [c EXCEPT !.principals = q]
  BY DEF set_principal_quota
<1>3. /\ d.principals = q /\ d.authentication_set = c.authentication_set /\ (Bound(d) <=> Bound(c))
      /\ d.native_only => ~d.listen_unix
  BY <1>2, Zenon DEF Configurations, Bound, Distinct
<1>4. ASSUME NEW i \in DOMAIN p PROVE q[i].secret = p[i].secret
  <2>1. [p[i] EXCEPT !.limited = b].secret = p[i].secret
    BY <1>1 DEF Principals
  <2> QED
    BY <2>1
<1>5. Len(q) = Len(p)
  BY <1>1, <1>3, QuotaKeeps
<1>6. DOMAIN q = DOMAIN p
  OBVIOUS
<1> HIDE DEF q, d
<1>7. Distinct(d)
  BY <1>3, <1>4, <1>5, <1>6, SameDistinct
<1> QED
  BY <1>7 DEF d

(* The setters that only move the endpoint, the opt-out and the handles. *)
LEMMA OtherDistinct ==
  ASSUME NEW c \in Configurations, Distinct(c)
  PROVE  /\ \A host \in {"loopback", "remote"} : Distinct(set_listen(c, host))
         /\ \A peer \in {"AUTHENTICATED", "SAME_EUID"} : Distinct(set_listen_unix(c, peer))
         /\ \A b \in BOOLEAN : Distinct(set_native_only(c, b))
         /\ \A b \in BOOLEAN : Distinct(allow_unauthenticated_loopback(c, b))
         /\ \A h : Distinct([c EXCEPT !.held = h])
<1>1. ASSUME NEW d, d.principals = c.principals, d.authentication_set = c.authentication_set,
             d.unix_principal_bound = c.unix_principal_bound,
             d.native_principal_bound = c.native_principal_bound,
             d.native_only => ~d.listen_unix
      PROVE  Distinct(d)
  BY <1>1 DEF Distinct, Bound
<1>2. ASSUME NEW host \in {"loopback", "remote"} PROVE Distinct(set_listen(c, host))
  BY <1>1, Zenon DEF set_listen, Configurations, Distinct
<1>3. ASSUME NEW peer \in {"AUTHENTICATED", "SAME_EUID"} PROVE Distinct(set_listen_unix(c, peer))
  BY <1>1, ZenonT(60) DEF set_listen_unix, Configurations, Distinct
<1>4. ASSUME NEW b \in BOOLEAN PROVE Distinct(set_native_only(c, b))
  BY <1>1, ZenonT(60) DEF set_native_only, Configurations, Distinct
<1>5. ASSUME NEW b \in BOOLEAN PROVE Distinct(allow_unauthenticated_loopback(c, b))
  BY <1>1, Zenon DEF allow_unauthenticated_loopback, Configurations, Distinct
<1>6. ASSUME NEW h PROVE Distinct([c EXCEPT !.held = h])
  BY <1>1, Zenon DEF Configurations, Distinct
<1> QED
  BY <1>2, <1>3, <1>4, <1>5, <1>6

(* The bindings put their one principal where there is none. *)
LEMMA BindDistinct ==
  ASSUME NEW c \in Configurations, NEW u \in Users, Distinct(c)
  PROVE  Distinct(set_unix_principal(c, u)) /\ Distinct(set_native_principal(c, u))
<1>1. Distinct(set_unix_principal(c, u))
  <2> DEFINE d == [c EXCEPT !.principals = <<Principal(u, None)>>, !.unix_principal_bound = TRUE]
  <2>1. d.principals = <<Principal(u, None)>> /\ d.unix_principal_bound
        /\ d.authentication_set = c.authentication_set /\ (d.native_only => ~d.listen_unix)
    BY Zenon DEF Configurations, Distinct
  <2> HIDE DEF d
  <2>2. ~c.authentication_set => Distinct(d)
    BY <2>1, OneDistinct DEF Bound
  <2>3. set_unix_principal(c, u) = c \/ (~c.authentication_set /\ set_unix_principal(c, u) = d)
    BY DEF set_unix_principal, d
  <2> QED
    BY <2>2, <2>3
<1>2. Distinct(set_native_principal(c, u))
  <2> DEFINE d == [c EXCEPT !.principals = <<Principal(u, None)>>, !.native_principal_bound = TRUE]
  <2>1. d.principals = <<Principal(u, None)>> /\ d.native_principal_bound
        /\ d.authentication_set = c.authentication_set /\ (d.native_only => ~d.listen_unix)
    BY Zenon DEF Configurations, Distinct
  <2> HIDE DEF d
  <2>2. ~c.authentication_set => Distinct(d)
    BY <2>1, OneDistinct DEF Bound
  <2>3. set_native_principal(c, u) = c \/ (~c.authentication_set /\ set_native_principal(c, u) = d)
    BY DEF set_native_principal, d
  <2> QED
    BY <2>2, <2>3
<1> QED
  BY <1>1, <1>2

(* set_authentication puts one in the place of those there. *)
LEMMA PutDistinct ==
  ASSUME NEW c \in Configurations, NEW u \in Users, NEW x \in Secrets, Distinct(c)
  PROVE  Distinct(set_authentication(c, u, x))
<1> DEFINE d == [c EXCEPT !.principals = <<Principal(u, x)>>, !.authentication_set = TRUE]
<1>1. /\ d.principals = <<Principal(u, x)>> /\ (Bound(d) <=> Bound(c))
      /\ d.native_only => ~d.listen_unix
  BY Zenon DEF Configurations, Bound, Distinct
<1> HIDE DEF d
<1>2. ~Bound(c) => Distinct(d)
  BY <1>1, OneDistinct
<1>3. set_authentication(c, u, x) = c \/ (~Bound(c) /\ set_authentication(c, u, x) = d)
  BY DEF set_authentication, d
<1> QED
  BY <1>2, <1>3

(* Principals stay apart under every call. *)
LEMMA NextApart == IInv /\ Apart /\ [Next]_vars => Apart'
<1> SUFFICES ASSUME IInv, Apart, [Next]_vars, config' # None PROVE Distinct(config')
  BY DEF Apart
<1>1. config' = config \/ config # None
  BY Zenon DEF Next, vars, Listen, ListenUnix, NativeOnly, BindUnix, BindNative, Authenticate,
     Add, Limit,
         OptOut, Set, Hold, Clear, ProgramReleases, Create, DestroyServer, DestroyConfig
<1>2. CASE config' = config
  BY <1>2 DEF Apart
<1>3. CASE config # None
  <2>1. config \in Configurations /\ Distinct(config)
    BY <1>3 DEF IInv, Typed, Apart
  <2>2. CASE Listen \/ ListenUnix \/ NativeOnly \/ OptOut
    BY <2>1, <2>2, OtherDistinct, Zenon DEF Listen, ListenUnix, NativeOnly, OptOut, Set
  <2>3. CASE Authenticate \/ Add
    BY <2>1, <2>3, PutDistinct, AddDistinct, Zenon DEF Authenticate, Add, Set
  <2>4. CASE BindUnix \/ BindNative
    BY <2>1, <2>4, BindDistinct, Zenon DEF BindUnix, BindNative, Set
  <2>5. CASE Limit
    BY <2>1, <2>5, LimitDistinct, Zenon DEF Limit, Set
  <2>6. ASSUME NEW k \in Kinds, Hold(k) \/ Clear(k) PROVE Distinct(config')
    BY <2>1, <2>6, OtherDistinct DEF Hold, Clear
  <2>7. CASE Create \/ DestroyServer \/ DestroyConfig \/ UNCHANGED vars
    BY <1>2, <2>7 DEF Create, DestroyServer, DestroyConfig, vars
  <2>8. ASSUME NEW k \in Kinds, ProgramReleases(k) PROVE config' = config
    BY <2>8 DEF ProgramReleases
  <2> QED
    BY <1>2, <2>2, <2>3, <2>4, <2>5, <2>6, <2>7, <2>8 DEF Next
<1> QED
  BY <1>1, <1>2, <1>3

(* A credential is nobody's, or that of the one principal with its secret. *)
LEMMA LookupExact ==
  ASSUME NEW c \in Configurations, Distinct(c), NEW cred
  PROVE  LET r == egress_credentials_lookup(c, cred) IN
         /\ r # 0
         /\ \A i \in DOMAIN c.principals :
              c.authentication_set /\ cred.secret = c.principals[i].secret
              /\ cred.user \in {None, c.principals[i].username} => r = i
<1> DEFINE hits == {i \in DOMAIN c.principals :
                     /\ cred.user \in {None, c.principals[i].username}
                     /\ cred.secret = c.principals[i].secret}
           r == egress_credentials_lookup(c, cred)
<1>1. r = IF ~c.authentication_set \/ hits = {} THEN Refused
          ELSE CHOOSE i \in hits : \A j \in hits : j <= i
  BY DEF egress_credentials_lookup
<1>2. DOMAIN c.principals \subseteq Nat \ {0}
  <2>1. c.principals \in Seq(Principals)
    BY Zenon DEF Configurations, Principals
  <2> QED
    BY <2>1
<1>3. \A i, j \in hits : i = j
  BY DEF Distinct
<1>4. hits \subseteq Nat \ {0}
  BY <1>2
<1>5. Refused # 0
  BY ConfigAssumption DEF Refused
<1> HIDE DEF hits, r
<1>6. ASSUME NEW i \in hits PROVE (CHOOSE j \in hits : \A m \in hits : m <= j) = i
  <2>1. \A m \in hits : m <= i
    BY <1>3, <1>4
  <2> QED
    BY <1>3, <2>1
<1>7. r # 0
  BY <1>1, <1>4, <1>5, <1>6, Zenon
<1>8. ASSUME NEW i \in DOMAIN c.principals, c.authentication_set,
             cred.secret = c.principals[i].secret, cred.user \in {None, c.principals[i].username}
      PROVE  r = i
  <2>1. i \in hits
    BY <1>8 DEF hits
  <2> QED
    BY <1>1, <1>6, <1>8, <2>1
<1> QED
  BY <1>7, <1>8 DEF r

(* On a server create accepts, whoever is served is somebody, unless the     *)
(* operator opted out on a loopback TCP listener.                            *)
LEMMA AuthenticatedEndpoint == IInv /\ Apart => EndpointsAuthenticated
<1> SUFFICES ASSUME IInv, Apart, config # None, Accepted(config), ~config.native_only,
                    ~(loopback(config) /\ config.unauthenticated_loopback)
             PROVE  /\ \A creds \in Headers : HttpIdentity(config, creds) # 0
                    /\ \A methods \in Offers, cred \in Credentials :
                         SocksIdentity(config, methods, cred) # 0
  BY Zenon DEF EndpointsAuthenticated
<1>1. config \in Configurations /\ Distinct(config)
  BY DEF IInv, Typed, Apart
<1>2. \A cred : egress_credentials_lookup(config, cred) # 0
  BY <1>1, LookupExact
<1>3. Refused # 0
  BY ConfigAssumption DEF Refused
<1>4. config.authentication_set \/ unix_principal_lookup(config) # 0
  <2>1. config.authentication_set \/ Bound(config)
    BY DEF Accepted, Unauthenticated
  <2>2. ~config.native_principal_bound
    BY DEF Accepted, InvalidNativeBinding
  <2>3. config.unix_principal_bound => config.listen_unix /\ Len(config.principals) # 0
    BY DEF Accepted, InvalidUnixBinding
  <2>4. Len(config.principals) \in Nat
    <3>1. config.principals \in Seq(Principals)
      BY <1>1, Zenon DEF Configurations, Principals
    <3> QED
      BY <3>1
  <2> QED
    BY <2>1, <2>2, <2>3, <2>4 DEF Bound, unix_principal_lookup
<1>5. ASSUME NEW creds \in Headers PROVE HttpIdentity(config, creds) # 0
  BY <1>2, <1>3, <1>4 DEF HttpIdentity
<1>6. ASSUME NEW methods \in Offers, NEW cred \in Credentials
      PROVE  SocksIdentity(config, methods, cred) # 0
  BY <1>2, <1>3, <1>4 DEF SocksIdentity
<1> QED
  BY <1>5, <1>6

(* A credential is the same principal over HTTP, SOCKS and a connector, with *)
(* its username or as a Bearer token.                                        *)
LEMMA IdentityUnique == IInv /\ Apart => OneIdentity
<1> SUFFICES ASSUME IInv, Apart, config # None, Accepted(config) PROVE OneIdentity
  BY Zenon DEF OneIdentity
<1>1. config \in Configurations /\ Distinct(config)
  BY DEF IInv, Typed, Apart
<1>2. config.native_only => config.authentication_set \/ NativeIdentity(config) = 1
  BY <1>1 DEF Accepted, Unauthenticated, InvalidUnixBinding, InvalidNativeBinding, NativeIdentity,
              Bound, loopback, Distinct
<1>3. ASSUME config.authentication_set, NEW i \in DOMAIN config.principals
      PROVE  LET p == config.principals[i]
                 cred == [user |-> p.username, secret |-> p.secret] IN
             /\ HttpIdentity(config, <<cred>>) = i
             /\ HttpIdentity(config, <<[cred EXCEPT !.user = None]>>) = i
             /\ SocksIdentity(config, {2}, cred) = i /\ ConnectorIdentity(config, cred) = i
  <2> DEFINE p == config.principals[i]
             cred == [user |-> p.username, secret |-> p.secret]
             bearer == [cred EXCEPT !.user = None]
  <2>1. unix_principal_lookup(config) = 0 /\ ~config.native_principal_bound
    BY <1>1, <1>3 DEF Distinct, Bound, unix_principal_lookup
  <2>2. cred.secret = p.secret /\ cred.user = p.username /\ bearer.secret = p.secret /\ bearer.user = None
    OBVIOUS
  <2> HIDE DEF cred, bearer
  <2>3. egress_credentials_lookup(config, cred) = i /\ egress_credentials_lookup(config, bearer) = i
    BY <1>1, <1>3, <2>2, LookupExact
  <2>4. \A x : Len(<<x>>) = 1 /\ <<x>> # <<>> /\ <<x>>[1] = x
    OBVIOUS
  <2>5. HttpIdentity(config, <<cred>>) = i /\ HttpIdentity(config, <<bearer>>) = i
    BY <1>3, <2>1, <2>3, <2>4 DEF HttpIdentity
  <2>6. SocksIdentity(config, {2}, cred) = i /\ ConnectorIdentity(config, cred) = i
    BY <1>3, <2>1, <2>3 DEF SocksIdentity, ConnectorIdentity
  <2> QED
    BY <2>5, <2>6 DEF cred, bearer
<1> QED
  BY <1>2, <1>3, Zenon DEF OneIdentity

(* Whatever the setters are called with and in which order: bindings stay    *)
(* valid, what server_create accepts is authenticated and gives every        *)
(* credential one principal, and every shared handle is counted.             *)
THEOREM ConfigKept == Spec => []ConfigSound
<1>1. Init => Apart
  <2>1. Default.principals = <<>> /\ ~Default.authentication_set /\ ~Bound(Default)
    BY DEF Default, Bound
  <2>2. DOMAIN Default.principals = {} /\ Len(Default.principals) = 0 /\ ~Default.native_only
    BY <2>1 DEF Default
  <2> QED
    BY <2>1, <2>2, ConfigAssumption DEF Init, Apart, Distinct
<1> QED
  BY <1>1, NextApart, InitIInv, NextIInv, BindingsValid, AuthenticatedEndpoint, IdentityUnique,
     HandlesBalance, PTL DEF Spec, ConfigSound
=============================================================================
