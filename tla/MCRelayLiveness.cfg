CONSTANTS
  U64Max = 15
  Capacity = 2
  Window = 1
  ClientBytes = 5
  UpstreamBytes = 3
  Addresses = 1
  Protocols = {"HTTP_CONNECT", "HTTP_FORWARD"}
  Sni = {TRUE, FALSE}
  MaxStream = 0
  MaxTotal = 0
  Prompt = TRUE
  MayReset = FALSE
  MayFail = FALSE
SPECIFICATION FairSpec
PROPERTY RelayFinishes
CHECK_DEADLOCK FALSE
