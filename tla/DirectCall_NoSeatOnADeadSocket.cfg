SPECIFICATION Spec
CONSTANTS
  alice = alice
  bob = bob
  phoneA = phoneA
  phoneB = phoneB
  Calls = {c1}
  Accounts = {alice, bob}
  Nobody = nobody
  RingingWindow = 2
  AnswerGrace = 1
  ReconnectWindow = 2
  Phones = {phoneA, phoneB}
  AccountOf <- MCAccountOf
  DisconnectGrace = 3
  ForgetDelay = 3
\* Two seats left on dead sockets stop the call for good (see the README).
CHECK_DEADLOCK FALSE
INVARIANT
  NoSeatOnADeadSocket
