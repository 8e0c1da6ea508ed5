CONSTANTS
  IoThreads = {t1}
  Main = main
  Conns = {c1}
  NoConn = none
  MaxErrors = 1
SPECIFICATION FairSpec
PROPERTY CtrlCStops
CHECK_DEADLOCK FALSE
