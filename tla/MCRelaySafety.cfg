CONSTANTS
  U64Max = 15
  Capacity = 3
  Window = 1
  ClientBytes = 4
  UpstreamBytes = 2
  Addresses = 2
  Protocols = {"HTTP_FORWARD", "SOCKS5", "CONNECTOR"}
  Sni = {TRUE, FALSE}
  MaxStream = 2
  MaxTotal = 3
  Prompt = FALSE
  MayReset = TRUE
  MayFail = TRUE
SPECIFICATION Spec
INVARIANTS QuotaExact GuardedUntilVerified HalfCloseAfterTail CleanEnd NoSpinBeforeEof StuckOnlyHalfClosed
CHECK_DEADLOCK FALSE
