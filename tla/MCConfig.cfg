\* Two servers that start and restart, and two edits or removals.
SPECIFICATION Spec
CONSTANTS
  Procs = {p1, p2}
  Passwords <- MCPasswords
  MaxEdits = 2
INVARIANT RunsAsSwiped
PROPERTY OwnFileOnly
