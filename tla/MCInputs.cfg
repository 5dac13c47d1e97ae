SPECIFICATION InputsSpec
CONSTANTS
  Users = {u1, u2}
  Secrets = {s1, s2}
  None = None
  Kinds = {"tls", "audit"}
  MaxPrincipals = 2
INVARIANTS
  ConfigSound HostsExact 
PROPERTY BoundImmutable
CHECK_DEADLOCK FALSE
