CONSTANTS IoThreads = {t1, t2}
 Main = main
 MaxFrames = 3
SPECIFICATION Spec
SYMMETRY Symmetry
INVARIANTS TypeOK SingleWriter WriterInv
CHECK_DEADLOCK FALSE
