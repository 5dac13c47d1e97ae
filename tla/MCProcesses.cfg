SPECIFICATION ProcessSpec
CONSTANTS
  Processes = {a, b}
  MaxAttempts = 2
INVARIANTS
  PathExact  JoinsHold
PROPERTIES
  OthersKept CommandsEnd
