SPECIFICATION FairSpec
CONSTANTS
  Clients = {c1}
  NoClient = NoClient
  Transports = {"TCP", "UDP"}
  UnwrappedAudio = TRUE
  MaxSetups = 1
PROPERTIES Answered VideoArrives
CHECK_DEADLOCK FALSE
