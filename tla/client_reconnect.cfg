CONSTANTS
  MaxConnects = 2
  MaxFrames = 3
  Sizes = {2, 3}
SPECIFICATION FairSpec
INVARIANTS ReportsInOrder NewestIsLast
PROPERTIES
  ContractSpec
  DisconnectReturns
  LossReported
  LostByServerUnlessInherited
  StreamUnlessInherited
CHECK_DEADLOCK FALSE
