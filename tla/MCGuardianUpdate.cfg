SPECIFICATION GuardiansSpec
CONSTANTS
  Candidates = {ann, bob}
  Names = {n1, n2}
  NoName = none
  registrationDepositWei = 2
  registrationMinTime = 1
  MaxGuardianTime = 2
  MaxGuardianRequests = 1
PROPERTIES
  UpdatesAreTaken
CHECK_DEADLOCK FALSE
