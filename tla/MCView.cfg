\* Two fingers, passwords of two strokes, two sizes, two texts, and two paint
\* events at most.  A view that looks up no arrow dies: it may stop.
SPECIFICATION Spec
CONSTANTS
  Fingers = {0, 1}
  PassLen = 2
  Deltas <- Upward
  Sizes = {small, large}
  Texts = {swipe, connected}
  MaxPaints = 2
INVARIANTS StartsAfresh GestureRight OnStage FrameFits TextKept Painting
PROPERTY HideEnds
CHECK_DEADLOCK FALSE
