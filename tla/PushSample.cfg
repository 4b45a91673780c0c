CONSTANTS
  MonoRates <- MCMono
  StereoRates <- MCStereo
  ChannelCounts <- MCChannels
  PushLengths <- MCLengths
  MaxPushes = 3
SPECIFICATION ApiSpec
INVARIANTS LegalLengthsServed
