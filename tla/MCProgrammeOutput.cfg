CONSTANTS
  Hosts <- TwoHosts
  Languages = {"yo"}
  Delays = {1}
  MaxTime = 2
  MaxSentences = 2
  AtOnce = 1
SPECIFICATION Spec
INVARIANTS TypeOK GivenOnceInOrder
PROPERTIES HeldBack FinalStands EndingIsReleased
