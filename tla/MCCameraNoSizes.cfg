\* No size of the camera lies between the configured limits.
SPECIFICATION Spec
CONSTANTS
  Formats = {mjpeg}
  Sizes <- NoSizes
  MaxFaults = 0
  MaxMoves = 0
INVARIANT KeepsTrying
CHECK_DEADLOCK FALSE
