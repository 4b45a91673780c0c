CONSTANTS
  InRates = {8000, 22050, 32000}
  OutRates = {16000, 32000}
  Capacities = {320, 700}
  MaxMade = 3
  MaxServed = 2
SPECIFICATION AcmSpec
INVARIANTS BlockServed ChannelsInStep FilterKept
CHECK_DEADLOCK FALSE
