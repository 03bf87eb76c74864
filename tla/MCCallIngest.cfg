SPECIFICATION Spec
CONSTANTS
  Calls = {c1}
  Languages <- IngestLanguages
  Profiles <- IngestProfiles
  Setups <- IngestSetups
  AudioModes = {"original"}
  CaptionChoices = {TRUE}
  Modes = {"normal", "translated"}
  NoSubject = NoSubject
  MaxParticipants = 3
  MaxSerial = 2
  MaxRevision = 2
  MaxLanguageRevision = 2
  MaxWalks = 2
  Faults = {"refused"}
CHECK_DEADLOCK FALSE
INVARIANTS
  RegistryFollowsSeats
  NoOrphan
