\* Two connections, a picture that either is sent whenever it joins, a camera
\* of two sizes that does not fail (MCCamera has faults), and two adjustments,
\* which may be those of two connections.  A panic stops the server.
SPECIFICATION ServerSpec
CONSTANTS
  Conns = {c1, c2}
  MaxPeers = 2
  MaxFrames = 1
  MaxCount = 1
  Formats = {mjpeg}
  Sizes <- TwoSizes
  MaxFaults = 0
  MaxMoves = 2
INVARIANTS MembersSee AddBytesSafe
PROPERTIES AsCameraAssumes GivenBack
CHECK_DEADLOCK FALSE
