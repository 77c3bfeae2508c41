\* A right and a wrong password, and two failures.
SPECIFICATION Spec
CONSTANTS
  Right = right
  Passwords = {right, wrong}
  MaxFaults = 2
INVARIANTS NoneWaiting TakingTurns StatusRight FewSenders
PROPERTIES AskedOnce Watches AsksAgain
