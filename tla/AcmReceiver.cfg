CONSTANTS
  SeqSpan = 32
  TsSpan = 1048576
  nack_threshold_packets = 2
  kNackListSizeLimit = 4
  late_packet_threshold = 2
  AudioCodecs = {"A", "B"}
  Stereo = {"B"}
  Khz <- MCKhz
  OutKhz <- MCKhz
  PayloadType <- MCPt
  ClockSpan = 1048576
  MaxPackets = 4
  DelayLimit = 60
  Delays = {0, 20, 100}
  NackSizes = {0, 2}
  Streams <- MCStreams
  SeqStart = 30
  TsStart = 1048560
  ClockStart = 1000
  MaxClock = 40
  Reorder = 1
  MaxCalls = 2
  DelayAnyTime = FALSE
SPECIFICATION Spec
INVARIANTS TypeOK SyncTrue DelayKept NeverAhead AssertsKnown

