CONSTANTS
  IoThreads = {t1, t2}
  Main = main
  Conns = {c1, c2}
  NoConn = none
  MaxErrors = 1
SPECIFICATION Spec
SYMMETRY Symmetry
INVARIANTS AcceptChain ListedIsServed StoppedClean
CHECK_DEADLOCK FALSE
