CONSTANTS
  IoThreads = {t1}
  Main = main
  MaxFrames = 2
SPECIFICATION FairSpec
PROPERTY QueueDrains
CHECK_DEADLOCK FALSE
