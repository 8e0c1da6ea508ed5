CONSTANTS
  mWidth = 4
  mHeight = 3
SPECIFICATION ServerSpec
INVARIANTS LoopInv AcceptedOptionsWork HandlerFindsLogger ExitTells
PROPERTIES PlaysLife ViewerSeesLife SignalHeeded
CHECK_DEADLOCK FALSE
