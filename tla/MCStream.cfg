\* two messages of any kind, cut into transfers in every way; transfers may lose bytes
SPECIFICATION FairStreamSpec
CONSTANTS
  Messages <- MCAll
  MaxMessages = 2
  MaxPayload = 5
  MaxTransfer = 8
  PartialTimeouts = TRUE
INVARIANTS
  NothingLost
PROPERTIES
  ImplementsChannel
  ValidIsHandled
  StopEndsStream
\* the stream ends
CHECK_DEADLOCK FALSE
