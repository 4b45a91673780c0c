--------------------------- MODULE MCResamplerApi ---------------------------
(* Small instances of ResamplerApi: mono and stereo handles over ratios     *)
(* above and below one, that the multiple rounds up and down, one the mono  *)
(* resampler does not know, lengths on and off the blocks.                  *)
EXTENDS ResamplerApi

MCMono       == { <<8000, 8000>>, <<8000, 16000>>, <<16000, 48000>>, <<32000, 48000>>,
                  <<16000, 44000>>, <<8000, 44000>>, <<48000, 16000>>, <<48000, 32000>>,
                  <<22000, 8000>>, <<16000, 22000>>, <<22000, 32000>>, <<5000, 7000>> }
MCStereo     == { <<8000, 16000>>, <<48000, 32000>>, <<48000, 48000>>, <<16000, 24000>>,
                  <<32000, 44000>> }
MCChannels   == {0, 1, 2, 3}
MCLengths    == {0, 80, 160, 220, 480, 960}
None         == {}
=============================================================================
