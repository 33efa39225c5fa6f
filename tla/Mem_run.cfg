SPECIFICATION Spec
CONSTANTS
  Mtu = 4
  BufPerMap = 2
  PageSize = 4
  Word = 2
  AddrMod = 128
  Ram <- Addresses
  Works <- Transfers
INVARIANTS DataIntact OutcomeTrue AtomicInPlace
CHECK_DEADLOCK FALSE
