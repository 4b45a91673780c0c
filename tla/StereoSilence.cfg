CONSTANTS
  SeqSpan = 16
  TsSpan = 128
  MaxPackets = 3
  SpeechTypes = {"A", "B", "S"}
  NoiseTypes = {"cng", "cng2"}
  Format <- MCFormat
  kReinitAfterExpands = 3
  kMaxWaitForPacket = 2
  kMinTimescaleInterval = 2
  Levels = {0, 4}
  Extra = {0, 1}
  Cut = {0, 3}
  kMaxFrameSize = 12
  Streams <- MCStereo
  SeqStart = 14
  TsStart = 120
  MaxNoise = 12
  Reorder = 1
  MaxSpare = 1
  MaxErrors = 1
SPECIFICATION Spec
INVARIANT FullBlocks
