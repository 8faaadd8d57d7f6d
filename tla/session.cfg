SPECIFICATION Spec
CONSTANTS
  Clients = {c1, c2}
  NoClient = NoClient
  Transports = {"TCP", "UDP"}
  UnwrappedAudio = FALSE
  MaxSetups = 2
SYMMETRY ClientSymmetry
INVARIANTS TypeOK LockStep Agreement AtMostOneStrayFrame OneBinderPerPort
PROPERTIES EndsHaveCause KeepsPromise
CHECK_DEADLOCK FALSE
