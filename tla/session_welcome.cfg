SPECIFICATION Spec
CONSTANTS
  Clients = {c1}
  NoClient = NoClient
  Transports = {"TCP"}
  UnwrappedAudio = FALSE
  MaxSetups = 1
INVARIANT ServerSetUpFirst
CHECK_DEADLOCK FALSE
