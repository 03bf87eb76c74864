SPECIFICATION FairSpec
CONSTANTS
  Calls = {c1}
  Accounts = {alice, bob}
  Nobody = nobody
  RingingWindow = 2
  AnswerGrace = 1
  ReconnectWindow = 2
INVARIANTS
  TypeOK
  CallIsAccounted
PROPERTIES
  FinishedIsFinal
  WaitingEnds
