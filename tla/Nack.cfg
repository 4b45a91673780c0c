CONSTANTS
  SeqSpan = 24
  TsSpan = 1024
  nack_threshold_packets = 2
  kNackListSizeLimit = 4
  SeqStart = 22
  TsStart = 1000
  Streams <- MCStreams
  Rate = 2000
  Reorder = 3
  Jump = 4
  Lag = 6
  MaxPulls = 5
  Sizes <- MCSizes
  RoundTrips = {0, 30}
SPECIFICATION Spec
INVARIANTS TypeOK ListExact EntriesTrue AskedFor EstimatesOrdered AssertionsHold
