\* A camera with three resolutions, two faults and three adjustments.
SPECIFICATION Spec
CONSTANTS
  Formats = {mjpeg, yuyv}
  Sizes <- ThreeSizes
  MaxFaults = 2
  MaxMoves = 3
INVARIANTS ActiveExists FormatFollows OneDevice
PROPERTY Recovers
CHECK_DEADLOCK FALSE
