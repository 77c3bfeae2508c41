\* Three connections, two of which are admitted at a time and compete for the
\* one handshake slot.
SPECIFICATION Spec
CONSTANTS
  Conns = {c1, c2, c3}
  MaxPeers = 2
INVARIANT CountsRight
PROPERTIES PeersLimited OneHandshake TurnComes SilentDropped
CHECK_DEADLOCK FALSE
