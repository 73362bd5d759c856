SPECIFICATION PoolSpec
CONSTANTS
  Requests = {q1, q2, q3, q4}
  MaxConnections = 2
  NoRequest = NoRequest
SYMMETRY RequestSymmetry
INVARIANTS PoolNeverJams
CHECK_DEADLOCK FALSE
