SPECIFICATION Spec
CONSTANTS
  SEC = 5
  IntHalf = 16
  TickTime = 8
  MaxExec = 10
  MaxJitter = 1
  MaxScans = 6
PROPERTY PacingLostForGood
