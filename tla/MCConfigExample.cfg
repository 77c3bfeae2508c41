\* A server that creates the example, and is started again.
SPECIFICATION Spec
CONSTANTS
  Procs = {p1, p2}
  Passwords <- MCPasswords
  MaxEdits = 0
INVARIANT ExampleLoads
