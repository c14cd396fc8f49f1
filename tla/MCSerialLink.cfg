SPECIFICATION Spec
CONSTANTS
  Payloads <- MCPayloads
  PayloadSize = 2
  OutputSize = 2
  Outputs <- MCOutputs
  ReadSize = 21
  Losses = {"none", "start", "end"}
  MaxFrames = 3
  Settled = TRUE
INVARIANTS  OutputsOfOneScan
PROPERTIES  LastFrameArrives
