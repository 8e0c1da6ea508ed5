\* One io thread, as Server::Application starts BeastServer.
CONSTANTS
  IoThreads = {t1}
  Main = main
  MaxFrames = 3
SPECIFICATION FairSpec
PROPERTIES
  QuietAfterClose
  Released
  StreamSpec
CHECK_DEADLOCK FALSE
