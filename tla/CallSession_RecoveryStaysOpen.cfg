SPECIFICATION Spec
CONSTANTS
  Calls = {c1}
  Languages <- Languages2
  Profiles <- SeatsProfiles
  Setups <- SeatsSetups
  AudioModes = {"heard"}
  CaptionChoices = {FALSE}
  Modes = {"normal", "translated"}
  NoSubject = NoSubject
  MaxParticipants = 3
  MaxSerial = 3
  MaxRevision = 3
  MaxLanguageRevision = 2
\* A call whose serials or revisions are used up has no further step.
CHECK_DEADLOCK FALSE
INVARIANT RecoveryStaysOpen
