SPECIFICATION FairSpec
CONSTANTS
  Clients = {c1, c2, c3}
  Workers = {w1, w2}
  Fds = {4, 5}
  MaxRequests = 1
  Pieces = 1
  MaxUnanswered = 1
  Staggered = TRUE
INVARIANT ClientLossIsLocal
 
CHECK_DEADLOCK FALSE
