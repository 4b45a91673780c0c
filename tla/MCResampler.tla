---------------------------- MODULE MCResampler ----------------------------
(* Small instances of ResamplerStream: rates that give every mode, a pair   *)
(* that gives none, lengths on and off the block sizes, room for the output *)
(* and no room for it.                                                      *)
EXTENDS ResamplerStream

\* Every mode but 1:1.
AllRates == { <<8000, 16000>>, <<16000, 48000>>, <<8000, 32000>>,
              <<8000, 48000>>, <<8000, 96000>>, <<32000, 48000>>, <<8000, 44000>>,
              <<16000, 44000>>, <<16000, 22000>>, <<11000, 16000>>, <<11000, 32000>>,
              <<16000, 8000>>, <<48000, 16000>>, <<32000, 8000>>, <<48000, 8000>>,
              <<96000, 8000>>, <<22000, 4000>>, <<22000, 8000>>, <<22000, 16000>>,
              <<48000, 32000>>, <<5000, 7000>> }

EveryType == {"Synchronous", "Asynchronous", "SynchronousStereo", "AsynchronousStereo"}

\* Multiples of eight: halving an odd length, a channel's included, drops a
\* sample of it without telling.
MCLengths == {80, 160, 240, 440, 480, 960}
TwoRooms  == {60, 6000}
=============================================================================
