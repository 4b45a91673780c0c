CONSTANTS
  Clients <- MCClients
  Payloads <- MCPackets
  MaxLost = 3
  MaxClock = 5
SPECIFICATION Spec
INVARIANTS TypeOK Seamless PairedOutputs OutputLength
CHECK_DEADLOCK FALSE
