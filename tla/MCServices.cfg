SPECIFICATION ServicesSpec
CONSTANTS
  Callers = {t1, t2, t3}
  None = None
  CallsJoined = TRUE
  Clients = {c1, c2}
SYMMETRY Interchangeable
INVARIANTS
  PolicyLifetime
  PolicyExact AnswersReach BrokerExact JournalShared
