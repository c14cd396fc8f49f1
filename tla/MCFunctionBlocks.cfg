SPECIFICATION BlockSpec
CONSTANTS
  SEC = 5
  IntHalf = 16
  TickTime = 3
  MaxExec = 4
  MaxJitter = 1
  MaxScans = 6
  Blocks = {"TON", "TOF", "TP", "RTC", "CTU", "CTD", "CTUD", "R_TRIG", "F_TRIG"}
  Presets = {0, 3, 7}
INVARIANTS TimeIsScans DeadlineOnGrid TimersPunctual ElapsedExact NeverEarly EdgesOnce
