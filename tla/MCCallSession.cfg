SPECIFICATION Spec
CONSTANTS
  Calls = {c1}
  Languages <- Languages2
  Profiles <- PairProfiles
  Setups <- PairSetups
  AudioModes = {"heard", "original"}
  CaptionChoices = {TRUE, FALSE}
  Modes = {"normal", "translated"}
  NoSubject = NoSubject
  MaxParticipants = 3
  MaxSerial = 3
  MaxRevision = 4
  MaxLanguageRevision = 2
\* A call whose serials or revisions are used up has no further step.
CHECK_DEADLOCK FALSE
INVARIANTS
  TypeOK
  EverybodyServed
  NothingMadeForTheDeparted
