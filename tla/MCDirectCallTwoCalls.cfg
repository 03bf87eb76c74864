SPECIFICATION Spec
CONSTANTS
  alice = alice
  bob = bob
  phoneA = phoneA
  phoneB = phoneB
  Calls = {c1, c2}
  Accounts = {alice, bob}
  Nobody = nobody
  RingingWindow = 1
  AnswerGrace = 1
  ReconnectWindow = 1
  Phones = {phoneA, phoneB}
  AccountOf <- MCAccountOf
  DisconnectGrace = 1
  ForgetDelay = 1
\* Two seats left on dead sockets stop the call for good (see the README).
CHECK_DEADLOCK FALSE
CONSTRAINT TwoCallsBound
INVARIANTS
  OneCallPerSocket
