SPECIFICATION LoopFairSpec
CONSTANTS
  Servers = {s1}
  Creator = Creator
  None = None
  MaxReceipts = 3
  MaxFaults = 3
INVARIANTS
  JournalSound NothingLost
PROPERTIES
  ImplementsJournal OpensSettle 
CHECK_DEADLOCK FALSE
