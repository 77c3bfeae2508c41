\* Every length from 0 to 1616 bytes, on two connections.
SPECIFICATION Spec
CONSTANTS
  Lengths <- MCLengths
  MaxConns = 2
INVARIANTS GivesBack WholeBlocks RightKey
