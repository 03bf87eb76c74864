CONSTANTS
  Hosts <- OneHost
  Languages = {"yo"}
  Delays = {2}
  MaxTime = 3
  MaxSentences = 2
  AtOnce = 1
SPECIFICATION Spec
PROPERTIES SentWhenReached
