SPECIFICATION Spec
CONSTANTS
  Inputs = {"i"}
  Outputs = {"q"}
  Memory = {"h", "l"}
  Published = {"q", "h"}
  Val = {0, 1}
  Conns = {c1}
  Requests <- SafetyRequests
  Commands <- SafetyCommands
  Logic <- Program
  Initial <- Zeros
  MaxPosted = 1
INVARIANTS TypeOK MutualExclusion
PROPERTY ActsAtomically
CHECK_DEADLOCK FALSE
