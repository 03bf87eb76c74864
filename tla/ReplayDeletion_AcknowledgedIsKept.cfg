CONSTANTS
  p1 = p1
  p2 = p2
  i1 = i1
  s1 = s1
  Procs = {p1, p2}
  Hosts = {p1, p2}
  Inits = {i1}
  Segments = {s1}
  InitOf <- MCInitOf
  Policies = {"expire"}
  MaxGen = 4
  Together = 4
SPECIFICATION DeletionSpec
CONSTRAINT Bounded
CHECK_DEADLOCK FALSE
INVARIANTS AcknowledgedIsKept
