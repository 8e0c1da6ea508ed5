CONSTANTS
  IoThreads = {t1}
  Main = main
  MaxFrames = 2
SPECIFICATION FairSpec
INVARIANT NoDanglingHandler
CHECK_DEADLOCK FALSE
