CONSTANTS
  N = 4
  MaxConcurrency = 2
  MaxQueueLength = 1
SPECIFICATION Spec
CHECK_DEADLOCK FALSE
INVARIANTS TypeOK FlightIsCarried WorkConserving NoStrayProcess
PROPERTIES KeepsPromise EveryRequestSettles
