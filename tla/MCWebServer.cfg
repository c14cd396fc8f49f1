SPECIFICATION Spec
CONSTANTS
  ProgramNames = {"a.st", "b.st"}
  ConfigNames = {"mb.cfg"}
  MaxForms = 3
  MaxRuns = 2
  Patient = TRUE
INVARIANTS TypeOK  RunsLastUpload 
PROPERTIES  StopWorks
CHECK_DEADLOCK FALSE
