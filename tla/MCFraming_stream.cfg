SPECIFICATION FairSpec
CONSTANTS
  ByteBits = 6
  U32 = 2
  U64 = 2
  IdBytes = 1
  Poly = 3724
  None = None
  Malformed = Malformed
  Bad = Malformed
  Writers = {"accounting", "roll"}
  MCPayloads = {2, 70}
  Messages <- MCMessages
  HeaderSize = 4
  Limit = 61
  Capacity = 4
  MaxSends = 2
  Frame <- MCFrame
  LengthIn <- MCLengthIn
  Parse <- MCParse
INVARIANTS
  NeverMisread
  CutShortNeverDecodes
PROPERTIES
  DeliversInOrder
  SendReturns
  SentArrives
CHECK_DEADLOCK FALSE
