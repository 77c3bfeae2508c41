\* Two connections, four pictures, and a counter that restarts at the last.
SPECIFICATION FairSpec
CONSTANTS
  Conns = {c1, c2}
  MaxFrames = 4
  MaxCount = 3
INVARIANTS TypeOK CaughtUp FewRepeats
PROPERTIES ImplementsLatestFrame KeepsUp
CHECK_DEADLOCK FALSE
