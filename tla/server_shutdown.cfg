\* One io thread, as Server::Application starts BeastServer.
CONSTANTS
  IoThreads = {t1}
  Main = main
  Conns = {c1, c2}
  NoConn = none
  MaxErrors = 0
SPECIFICATION PatientSpec
PROPERTIES
  ShutdownCompletes
  ViewerForgotten
CHECK_DEADLOCK FALSE
