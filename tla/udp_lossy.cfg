\* The default grid of 40x20, 7 + 800 + 1 bytes, and the largest, of 200x200.
CONSTANTS
  FrameLengths = {808, 40008}
  MaxConnects = 2
  MaxFrames = 2
  MaxDatagrams = 3
SPECIFICATION Spec
INVARIANTS BufferUnshared ReceivedIsShown FirstConnectionReceives
PROPERTIES
  ContractSpec
  DisconnectReturns
CHECK_DEADLOCK FALSE
