SPECIFICATION OptimizerSpec
CONSTANTS
  IfLines <- MCIfLines
  MaxLines = 9
 
PROPERTY SecondRunChangesNothing
CHECK_DEADLOCK FALSE
