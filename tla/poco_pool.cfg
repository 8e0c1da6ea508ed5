\* One worker, as in Server::Application, or two.
CONSTANTS
  MaxThreads = 2
  MaxFrames = 4
SPECIFICATION FairSpec
INVARIANTS RunningIsActive SentOnce PoolOutlivesTasks RunningHasPool
PROPERTIES
  TasksAreStarted
  StopReturns
  StreamSpec
CHECK_DEADLOCK FALSE
