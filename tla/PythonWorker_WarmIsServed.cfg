CONSTANTS
  N = 3
  MaxConcurrency = 1
  MaxQueueLength = 1
SPECIFICATION Spec
CHECK_DEADLOCK FALSE
INVARIANTS WarmIsServed
