SPECIFICATION FairSpec
CONSTANTS
  Inputs = {}
  Outputs = {"q"}
  Memory = {"h"}
  Published = {"h"}
  Val = {0, 1}
  Conns = {c1}
  Requests <- ProgressRequests
  Commands <- CatchUpCommands
  Logic <- Copy
  Initial <- Zeros
  MaxPosted = 2
PROPERTIES ScanRecurs RequestsAnswered DatabaseCatchesUp
