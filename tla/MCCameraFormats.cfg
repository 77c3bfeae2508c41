\* A camera that offers two pixel formats.
SPECIFICATION Spec
CONSTANTS
  Formats = {mjpeg, yuyv}
  Sizes <- ThreeSizes
  MaxFaults = 1
  MaxMoves = 1
PROPERTY SameFormat
CHECK_DEADLOCK FALSE
