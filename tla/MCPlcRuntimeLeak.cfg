SPECIFICATION FairSpec
CONSTANTS
  Inputs = {}
  Outputs = {"q"}
  Memory = {"h"}
  Published = {"h"}
  Val = {0, 1}
  Conns = {}
  Requests <- ProgressRequests
  Commands <- LeakCommands
  Logic <- Copy
  Initial <- Zeros
  MaxPosted = 1
PROPERTY ScanRecurs
CHECK_DEADLOCK FALSE
