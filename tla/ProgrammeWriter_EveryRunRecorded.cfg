CONSTANTS
  p1 = p1
  p2 = p2
  Procs = {p1, p2}
  MaxToken = 3
  MaxEvents = 2
  MaxJournal = 1
SPECIFICATION Spec
INVARIANTS EveryRunRecorded
