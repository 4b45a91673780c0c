CONSTANTS
  Clients <- MCStereoCapi
  Payloads <- MCPackets
  MaxLost = 1
  MaxClock = 5
SPECIFICATION Spec
PROPERTIES RightContinues
CHECK_DEADLOCK FALSE
