SPECIFICATION Spec
CONSTANTS
  N = 2
  Row = 2
  MaxBits = 3
  Layouts <- BothLayouts
  Located <- SomeOfEach
  MaxCount = 2
  MaxRequests = 1
INVARIANTS UpdateNeverMeetsNull GlueAttaches
PROPERTIES WriteIsExact MastersAgree CoilsServed MultipleIsSingles
CHECK_DEADLOCK FALSE
