CONSTANTS
  MaxSide = 2
  MaxFrames = 3
SPECIFICATION FairSpec
INVARIANTS WrongPictureIsPending OrderlyEnd
PROPERTY LastFrameDrawn
CHECK_DEADLOCK FALSE
