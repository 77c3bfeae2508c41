\* The limits of the example configuration; factors around each threshold.
SPECIFICATION Spec
CONSTANTS
  Factors = {1, 30, 50, 89, 90, 105, 106, 199, 200, 330, 2000}
  MinFPS = 5
  MaxFPS = 20
  MinQ = 30
  MaxQ = 100
  Levels = 3
  Pixels <- MCPixels
PROPERTIES RightWay MovesOn Adapts
