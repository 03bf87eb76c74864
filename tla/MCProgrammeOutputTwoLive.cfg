CONSTANTS
  Hosts <- TwoHosts
  Languages = {"yo"}
  Delays = {1}
  MaxTime = 1
  MaxSentences = 2
  AtOnce = 2
SPECIFICATION Spec
INVARIANTS TypeOK GivenOnceInOrder
PROPERTIES HeldBack FinalStands EndingIsReleased
