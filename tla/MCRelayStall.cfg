CONSTANTS
  U64Max = 15
  Capacity = 2
  Window = 1
  ClientBytes = 5
  UpstreamBytes = 4
  Addresses = 1
  Protocols = {"HTTP_CONNECT"}
  Sni = {FALSE}
  MaxStream = 0
  MaxTotal = 0
  Prompt = TRUE
  MayReset = FALSE
  MayFail = FALSE
SPECIFICATION Spec
INVARIANT NeverStuck
CHECK_DEADLOCK FALSE
