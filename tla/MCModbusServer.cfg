SPECIFICATION Spec
CONSTANTS
  Clients = {c1, c2, c3}
  Workers = {w1, w2}
  Fds = {4, 5, 6}
  MaxRequests = 2
  Pieces = 1
  MaxUnanswered = 2
  Staggered = TRUE
INVARIANTS HandledByOwnThread 
SYMMETRY WorkerSymmetry
CHECK_DEADLOCK FALSE
