# A verification project for acodec

acodec packages audio codecs and sample-rate converters taken from WebRTC and
libopus behind a C API (`capi.h`) and a JNI layer (`jni_capi.cc`). This directory
holds TLA+ models of its stateful parts, the TLC configurations that check them
and theorems checked by TLAPS. Paths below are relative to `src/`.

    tlc -workers 2 -config Nack.cfg MCNack.tla       # one run
    tlapm SincResampler_proofs.tla                   # one module of proofs

## 1. The system

`common.mak` and `Makefile.unix` build `capi.cc`, `jni_capi.cc`, the interfaces of
G.711, G.722 and Opus, iSAC, `common_audio/resampler`, `common_audio/signal_processing`
and libopus, with `-g -O2` and without `NDEBUG`: assertions are active in the product.
NetEq, the audio coding module (acm2), iLBC and comfort noise are in the
repository but in no makefile; they are WebRTC's clients of the parts above, and
the part of the repository where threads, the network and time meet.

| part | state it keeps | operations | called by |
|---|---|---|---|
| codec API: `capi.cc` 93-391, `jni_capi.cc` 40-180 | a heap block per handle: codec id, decoder or encoder, native instance, `error` | create, destroy, decode, FEC, PLC, encode, set option | Java `ADecoder`, `AEncoder` |
| Opus wrapper: `codecs/opus/opus_interface.c` | two libopus decoders, two 48-to-32 kHz filter memories, `prev_decoded_samples` | 4 decode calls, 3 concealment calls, FEC, 3 resets, encoder | codec API, NetEq |
| resampler API: `capi.cc` 26-91, `jni_capi.cc` 182-230 | a handle over one of two resamplers | create (mono, stereo), destroy, multiple, push | Java `Resampler` |
| `webrtc::Resampler`: `resampler.cc` | mode, type, up to three filter states, two slaves if stereo | `Reset`, `ResetIfNeeded`, `Push` (`Insert`, `Pull`: no caller) | resampler API |
| `PushResampler`: `push_resampler.cc` | rates, channels, one or two `PushSincResampler` | `InitializeIfNeeded`, `Resample` | resampler API, `ACMResampler` |
| `PushSincResampler`, `SincResampler` | input ring, region pointers, virtual index, `buffer_primed_`, `first_pass_`, `source_available_` | `Resample`, the `Run` callback, `Flush` (`SetRatio`: no caller but tests) | `PushResampler` |
| `ACMResampler`: `acm2/acm_resampler.cc` | one `PushResampler` | `Resample10Msec` | `AcmReceiver` |
| NACK list: `acm2/nack.cc` | last packet received and decoded, packet size, ordered list | report received, report decoded, list, limit, reset | `AcmReceiver` |
| receive side: `acm2/acm_receiver.cc` | last audio codec, registered codecs, NACK list, initial delay, under `crit_sect_`; NetEq, under `decode_lock_` | insert packet (network thread), get audio (playout thread), delay, codecs, NACK, flush (any thread) | application |
| initial delay: `acm2/initial_delay_manager.cc` | last packet, step, audio buffered, whether buffering | packet received, late packets, end buffering | `AcmReceiver` |
| NetEq: `modules/audio_coding/neteq` | packet buffer, current types and SSRC, sync buffer with its end timestamp, last mode, decision logic | insert packet, insert sync packet, get audio, flush | `AcmReceiver` |
| send side: `acm2/audio_coding_module_impl.cc` | encoders, RED, DTX | register, add 10 ms, process | not modelled |

In the C API calls are synchronous and a handle, as `capi.h` and the Java classes use
it, belongs to one thread. What is hard there is protocol and memory across calls:
filters that must continue where they stopped, whatever call came between; two
channels, or a master and a slave, that must stay in step through failures and
reconfiguration; indices that wrap; constructors refused halfway. On the receive side it is a
network that loses, repeats, delays and reorders, two threads that interleave wherever a lock
is released, and a playout clock that waits for nobody.

What makes each part correct:

- codec API: no block leaks or is freed twice; a call changes only its handle, and
  only if the handle is of the right kind; a length means the same in every layer;
- Opus wrapper: a filter always continues the stretch of audio it ended; master and
  slave agree; concealment has the length of the last decoded packet and fits;
- resamplers: a rejected call moves nothing; channels stay aligned; the output is
  whole, in bounds, and at the ratio asked for; the sinc resampler uses
  consecutive samples, at the exact phase, and takes its input once per call;
- NACK list: it lists exactly the packets that can still be useful, with the
  true time until they must be played;
- initial delay: nothing is played before as much audio as was asked for has come; a
  sync packet stands for a packet that was sent, with its timestamp, and not for one still on its way;
- NetEq: packets are taken in the order sent, each once and in its best copy, none
  untaken but what came too late; the end timestamp is that of the audio; every call gives a
  whole block; nothing waits for ever.

The full list of hazards, each at its line and with the properties against it, is
`hazards` in `PROJECT.json`.

## 2. Modules

    OpusDecoder <- OpusStream <- MCOpusStream, OpusStream_proofs
    OpusDecoder <- CodecApi <- MCCodecApi, CodecApi_proofs
    SampleStream <~ SincResampler <- MCSincResampler
    PushResampler <- AcmResampler;  SincResampler, AcmResampler <- SincResampler_proofs
    Resampler <- ResamplerStream <- MCResampler, ResamplerStream_proofs
    Resampler, PushResampler <- ResamplerApi <- MCResamplerApi, ResamplerStream_proofs
    RtpNumbers <- Nack <- NackStream <- MCNack, NackStream_proofs
    RtpNumbers <- InitialDelay;  Nack, InitialDelay <- AcmReceiver <- MCAcmReceiver, AcmReceiver_proofs
    RtpNumbers <- RtpNumbers_proofs <- NackStream_proofs, AcmReceiver_proofs, NetEq_proofs
    RtpNumbers <- PacketBuffer <- NetEq <- MCNetEq, NetEq_proofs
    JitterBuffer <~ NetEq                 ( <- extends, <~ is implemented by )

**OpusDecoder** is an instance of `opus_interface.c` as operators from a state to an
outcome: the new state, the value returned, the 16-bit samples left in the caller's
buffer. A filter memory holds *which libopus decoder's which stretch* its seven
samples came from; `clock` counts the stretches. libopus itself is what the
wrapper sees of it: frame sizes, error codes, `OPUS_RESET_STATE`.
**OpusStream** is one instance and its client. A client is the part of the header
it uses: NetEq (`audio_decoder_impl.cc`: `DecodeNew`, `DecodeFec`, `DecodePlc`,
`DecoderInitNew`), the C API (`Decode`, `DecodeFec`, `DecodePlc`), and the split
interface (`Decode` then `DecodeSlave`, `DecodePlcMaster` then `DecodePlcSlave`, and
the two resets), which only `opus_unittest.cc` calls. `owed` keeps the slave call that is due.
NetEq and the C API use mono and stereo instances (`capi.cc:138`), the split interface is for stereo. The C
API mixes the two ways of a stereo instance: its `Decode` moves the left filter only, its
`DecodeFec` and `DecodePlc` move both.

**CodecApi** adds `capi.cc` and the JNI functions: `heap` is the set of allocated
blocks, `codecs` the live handles, `told` and `last` history. A constructor asks for
its pieces and the environment may refuse any of them (`got`) or fail the Init call
(`inited`). Handles may be given to functions of the other kind, which the C types
allow; not after they are destroyed.

**Resampler** is `resampler.cc` as operators: a mode is a chain of filters with the
block sizes, accepted lengths and temporary buffers of its case in `Push`; `fed`
counts what each filter has taken. **ResamplerStream** is its client.
**PushResampler** is `push_resampler.cc` as operators (a `PushSincResampler` is its
sizes, who made it, what it served), **AcmResampler** the acm2 client that
reconfigures it on the fly, **ResamplerApi** the handles of `capi.cc` over either.

**SincResampler** opens the `PushSincResampler`: the input ring is `buf`, where a
sample is *the number of the source sample it is*; `v` is `virtual_source_idx_`
kept exactly in units of 1/DestFrames. The steps are those of the code:
`Push` (up to the first inner call), `Prime`, `Block` (head of the while loop),
`Convolve` (one turn of the for loop), `Wrap` (wrap, slide, refill through `Run`). **SampleStream** is the
abstract promise: calls supply SourceFrames samples, output *j* uses the kernel's samples
around *j* SourceFrames/DestFrames, only of what was supplied, and every call returns
all its outputs.

**Nack** is `nack.cc` as operators on one instance, with its assertions
(`AddAsserts`, `DecodeAsserts`); **NackStream** is the network, NetEq's decoding and
the history (`got`, `played`, `heard`, `floor`) that states without any wrap what is true of each packet.
A stream gives each packet the time it is to be heard. Two things bound what the code leaves to its
surroundings: playout lags the newest packet by at most `Lag` packets, as NetEq's packet buffer is limited and
flushed when full, and a stream ends before its timestamps have come round to the first one's.
**RtpNumbers** holds the numbers that wrap and the order of `IsNewerSequenceNumber` and `IsNewerTimestamp`.

**InitialDelay** is `initial_delay_manager.cc` as operators on one instance; a sync
stream is a count, the first packet's header and the step. **AcmReceiver** composes it
with `Nack`: a part of a call under `crit_sect_` is one step (`Arrive`, `PlayStarts`,
`PlayEnds`, the functions of other threads), a part under `decode_lock_` is one step for each call
into NetEq (`NetLocks`, `NetSync`, `NetInsert`; `PlayLocks`, `PlaySync`, `PlayPulls`), so that
anything may run between the two parts, as it may in the code. `RemoveCodec` is two steps, as it takes the codec out of NetEq first, without a lock, and out of the
receiver's table under `crit_sect_` (`CodecRemoved`). NetEq is there what the
receiver asks of it: its decoder database (`known`), packets held, the last one decoded, the payload type and the
flushes. `GetAudio` reads the output's rate under `decode_lock_` and keeps it to the end of the call (`play.khz`). The stream
sent, each packet's codec and the time it was sent, is a choice of `Init`; `clock` moves by 10 ms with every `GetAudio`, which is when the playout thread runs.

**PacketBuffer** is the list of `packet_buffer.cc` with the order of `packet.h`.
**NetEq** is `NetEqImpl` under its one lock: `InsertPacket`, `InsertSyncPacket`,
`FlushBuffers`, and `GetAudio`, which is the choice of an operation (`Decisions`, the decision
logic) and one action for each way the block comes about: `KeepPlaying`, `Conceal`,
`Stretch`, `PlayOn`, `PlayNoise`, `PlayPackets`, `PacketMissing`. The sync buffer is its end
timestamp and how much is left to play. What depends on signal or statistics is left open: the buffer's
level (`Levels`), whether stretching works, how much concealing, merging and slowing down add (`Extra`) and how much
speeding up removes (`Cut`: at most 15 ms, the longest pitch period, as `accelerate.cc` asserts). Time counts units of 5 ms.
`LEGACY_BITEXACT` is defined in the code (`neteq_impl.cc:48`) and so in the model.
**JitterBuffer** is the abstract promise about packets: insert, restart, drop what is too late, take
consecutive slots in order, each by the best copy held. `NetEq!Jitter` maps the packets held to copies [slot, kind] and the
history variable `taken` to the last one taken. A slot may be taken "astray", when its audio did not end where it
should (a packet that does not decode), or "unsettled", when a decoder was taken into use without a restart: it is played right
after what came before, in the place of earlier slots, which may still come and be taken then.

Definitions named `Slip...` are plausible mistakes in the definition that follows
them; `mutants` in `PROJECT.json` says which property each one breaks.

## 3. Runs

Passing runs:

| run | shows | bounds, and why they are enough |
|---|---|---|
| OpusClients | `Seamless` (three filters; the right one of a stereo handle of the C API is exempt, see StereoConceal), `PairedOutputs`, `OutputLength` for each client, NetEq and the C API in mono and in stereo | 4 packets: 20 ms with FEC, 120 ms in two frames, 2.5 ms CELT, damaged. 3 lost frames exceed 120 ms for the long one. 5 stretches per decoder: a property relates a call to the one before and to the last decode |
| CodecHandles | `HeapExact`, `PlcFollowsOwnPackets`, `WrongKindHarmless` | 2 handles, 3 kinds (PCMU is handled as PCMA), an unknown id, channel counts 0 and 2, every refusal; 8 addresses, exactly two stereo decoders; one option, as a setting matters only by being one; 2 stretches |
| Sinc | the ring's properties, refinement of `SampleStream` with liveness | 7 to 11 samples, kernel 4, 12 calls: block ends fall on, before and after an output. The theorems cover the rest |
| Resampler | `FiltersInStep`, `ChannelsAligned`, `WritesAll`, `UnderTheRatioAsked` | all modes but 1:1, one unknown ratio, 4 types; lengths on and off every block size, room 60 or 6000; about two blocks between resets |
| AcmResampler | `BlockServed`, `ChannelsInStep`, `FilterKept` | three rates in (one of odd block length), two out, 1 or 2 channels, 3 reconfigurations: mono between two stereo streams is the case that matters |
| PushSample | `LegalLengthsServed` | 12 mono and 5 stereo ratios, three of them rounded down, refused channel counts, lengths on and off blocks, 3 pushes |
| Nack | `ListExact`, `EntriesTrue`, `AskedFor`, `EstimatesOrdered`, `AssertionsHold` | 7 packets, of 20 ms or of 20 that become 10, list of 4, reordering by 3, jumps of 4, playout any number of packets behind (`Lag` is the whole stream); sequence numbers wrap at 24 from 22 and timestamps at 1024 from 1000, so both wrap within the stream; the window stays under half of the sequence space, as it does in the code (500 of 65536) |
| AcmReceiver | `SyncTrue`, `DelayKept`, `NeverAhead`, `AssertsKnown`; `TypeOK` holds the locks' discipline | three streams of 4 or 5 packets of 10 ms: one codec, a codec change, and a stereo codec with comfort noise and DTMF before a change; 4 calls of `GetAudio`, reordering by 1, packets late by any time, delays of 20 ms and one refused, a buffer of 4 packets (so that it is nearly full, full and flushed), late threshold 2 (5 in the code), 2 calls of other threads. Sequence numbers wrap at the third packet, timestamps at the third and fourth. Rates are 1 kHz: `SyncTrue` relates timestamps of one clock |
| NetEq | `FullBlocks`, `EndTrue`, `AssertsKnown`, `ImplementsJitterBuffer`, `AllLeave` | eight streams of 3 or 4 slots: 20 ms with a redundant copy, 10 ms, 30 ms, comfort noise of RFC 3389 and in-band, a codec change of another rate, a change of source that starts with comfort noise, a source that opens with comfort noise of two types; loss of any packets, reordering by 1, one duplicate, sync packet or flush, one packet that does not decode, a buffer of 3. Both kinds of number wrap at the third slot. Waiting and reinitialisation thresholds are 2 and 3 blocks (10 and 100 in the code), beyond and below the gaps of the streams; `MaxNoise` exceeds every gap; a frame is at most 60 ms (`kMaxFrameSize`, `neteq_impl.h:205`), and half of the 128 timestamps is more than a stream and a full buffer last; speeding up removes nothing or 15 ms |

Runs in which the code departs from what is written about it (one `finding` each):

| run | disagreement |
|---|---|
| StereoConceal | `opus_interface.c:391` in stereo `WebRtcOpus_Decode` gives the left channel and `Decode_slave` the right; `capi.cc:219` makes the first call only, so the right channel of a packet is never put out, while `capi.cc:242` and `255` put out both: after a packet the right filter goes on from a stretch that was not the last |
| NackTold | `nack.h:28` the list is told of every pull; `acm_receiver.cc:413` tests a result that is 0 on success, so the list is never told what was decoded |
| StereoSilence | `neteq_impl.cc:1246` silence "with the same frame size as the last decode"; in stereo each sync packet is half the frame before it (1255), down to an under-run |

Disagreements met while modelling that no run keeps, because the passing runs assume them
away by their inputs or allow for them by name:

- `capi.h:90` "decoded length"; with two channels FEC and PLC write twice what they return and JNI hands on half (`capi.cc:242`);
- `capi.h:49` the length of the buffer; `PushSample` allocates that many bytes and passes the number on as samples (`jni_capi.cc:221`);
- `opus_interface.h:36` "Samples per channel"; the API passes the whole array's length (`capi.cc:379`);
- `capi.h:32` "all kinds of frequency"; 10 ms at 22050 Hz stereo is 441 samples, one is dropped per call (`push_resampler.cc:69`);
- mode 3:2 tests the block size after its first filter has run (`resampler.cc:896`), so a rejected push moves that filter (`FiltersInStep` exempts it);
- `capi.h:114` complexity "default 10"; `opus_encoder.c:224` starts at 9 and nothing sets it;
- `capi.h:111` bit rate from 0; `opus_encoder.c:2313` refuses 0;
- `capi.h:41` "output will be [N-1, N)"; `capi.cc:70` rounds to nearest, so 16000 to 22000 Hz gives 1 and
  `PushSample` never returns audio for it (`RoundsUp` in `LegalLengthsServed`);
- `capi.h:32` against the assertion of `sinc_resampler.cc:179`: a stereo handle below 4900 Hz stops the process (`RatesAssumption`);
- `resampler.h:79` "all output samples are written"; the filters of `resample_by_2.c:70` take an `int16_t` length, so 11040 samples in mode 2:3 return success and no output;
- `resampler.h:76` "if any parameter has changed"; `resampler.cc:105` compares whole kHz, so 44000 and 44100 are the same;
- mode 1:1 never looks at `maxLen` (`resampler.cc:500`);
- an odd number of samples into a halving filter loses one (lengths in `MCLengths` are multiples of 8);
- `nack.h:87` "expected time-to-play larger than"; `nack.cc:211` is an unsigned difference, so a packet skipped after playout passed it is asked for (`EntriesTrue` and `AskedFor` speak of packets playout has not reached);
- `opus_interface.h:133` "resets state"; `prev_decoded_samples` survives (`opus_interface.c:205`);
- an empty payload given to `WebRtcOpus_Decode` conceals 120 ms and is remembered as the frame length (`opus_interface.c:419`); the clients modelled pass no empty payload;
- `acm_receiver.cc:340`: with a delay set or ended during a call (`DelayAnyTime` TRUE) the test, the assertion at 850 and the use of the stream see what another thread frees;
- `initial_delay_manager.cc:43` "has to be true": a codec's first packet whose number was given to a sync packet is ignored, and the next trips the assertion (`AssertsKnown` of AcmReceiver, `overtaken`);
- `initial_delay_manager.cc` adds the difference of two timestamps to what is buffered: when packets get shorter
  while some are late, the timestamp made up for those lies ahead of the next packet's, the difference wraps and
  the delay ends early (`DelayKept` speaks of steady streams);
- `acm_receiver.cc:783`: packets of the last codec that fill the buffer end the delay of the new one (`crowded`);
- `acm_receiver.cc:369`: the clock is in units of the output's rate, the receive timestamps in those of the RTP clock; for Opus (48 and 32 kHz) these differ; `NowInTimestamp` wraps at 2^26 ms, not where the timestamps do;
- `neteq_impl.cc:947` "the only valid reason": after `FlushBuffers` before a new codec's first `GetAudio`, or when its first packet is comfort noise that is discarded as too old, there is no packet to restart from (`bereft`);
- `sync_buffer.h:94` "timestamp of the last sample": a decoder taken into use without a restart, after comfort noise that brought the new codec, sets it to where playing had come (`neteq_impl.cc:1156`, `EndTrue` exempts the packet); the end then lies behind what was played, and
  slots before that are played after it, as in a stream that opens with comfort noise of two types (`JitterBuffer`'s "unsettled");
- `neteq_impl.cc:1803`: the assertion that a packet has a decoder fails once a codec is removed while packets of it are held (NetEq in `AcmReceiver` plays on as it did; `NetEq` registers no codec during a call);
- `neteq_impl.cc:887`: old comfort noise is told by comparing timestamps without wrapping;
- `neteq_impl.cc:957`: a restart while comfort noise waits turns a packet of speech into comfort noise (the code's comments at 959 and 1547 say so);
- codec-internal comfort noise does not move the end timestamp, so a duplicate or redundant copy of it is played again (`JitterBuffer` lets comfort noise be taken again);
- after a packet that does not decode the end timestamp moves by the frame length of the last, 30 ms at first, and good packets before it are discarded (`Reach`);
- `packet.h:75` and `packet_buffer.cc:194` count half a circle one less than `IsNewerTimestamp` does: a packet at just that distance is neither old nor newer;
- a sync packet goes before the redundant copy of its slot: silence is played where audio was there (`Rank`);
- `ExtractPackets` never updates `prev_timestamp` (`neteq_impl.cc:1819`), so a third part of one packet is not recognised as its next.

`CHECK_DEADLOCK FALSE` appears where a bound stops the model (`MaxCalls`, `MaxClock`, `MaxMade`).
In AcmReceiver the clock ends while `Ended` says that no call is in progress, so a deadlock of the
two locks would be found; in NetEq `GetAudio` is always possible.

## 4. Fairness

`SincResampler` has `WF_vars(Step)`. A call, once begun, runs to its
end in the caller's thread, whose loop does not wait for anyone; nothing obliges
the caller to call again, so `Push` is not fair. Liveness (`ImplementsStream` with
`WF(Emit)`) says that every call returns all its outputs.

`NetEq` has weak fairness of `GetAudio`: the playout thread calls it every 10 ms for as
long as there is a call, and it waits for nothing. It is stated on `beat`, a history variable
that every `GetAudio` changes and nothing else does. Nothing obliges the network to
deliver. `AllLeave` says that under it every packet leaves the buffer, through
concealment, comfort noise and stretching. The other models have no obligation.

## 5. Proofs

`SincResampler_proofs`, for every `SourceFrames`, `DestFrames`, `HalfKernel` that
satisfies `SizesAssumption` (the constructor's two assertions, and more than one output per call),
and any number of calls:

- `Invariance`: `Spec => []Inv`, where `Inv` is `TypeOK /\ IInv`;
- `TypeCorrect`, `TakesOncePerCall`, `NoAssertionFails`, `NoGaps`, `NeverDrifts`: the
  invariants of the Sinc run, as theorems;
- `RefinesStream`: the safety part of `SampleStream`.

`OneRunPerCall` is not inductive: whether a call needs one refill or two depends
on where the index stands, and that on all outputs before. `IInv` ties the three
together. `PhaseInv` fixes the index by the number of outputs and of refills;
`BufferInv` fixes the ring by the number of refills; and `IdleInv`, `LeadInv`, `RealInv` say how
many outputs each part of a call has left. The argument: the discarded first
pass stops `Slack` short of the end of the first block, less than one output; every
real call then starts there, computes at most one output (`Early`), refills once, and
has in the block exactly what the rest needs. `Steps` (the ceiling division of the
loop bound), `LeadFacts` and the lemmas on integer division carry the arithmetic.

The second part of `SincResampler_proofs` is about `AcmResampler`, for all rates. `InStep` is `AcmSpec => []ChannelsInStep`; the
invariant adds only that the instance is a record of the fields it has; `Configured` and
`ServedTogether` say that configuring and serving treat both channels alike. `AlwaysServed` and `KeepsItsFilters` are `[]BlockServed` and `[]FilterKept`. Their
invariant `BlockInv` adds to `StepInv` that the left resampler gives 10 ms at the rate the instance
remembers (`Made`): a block of the format of the one before is served by the resampler it finds.

`ResamplerStream_proofs`, for all ratios (3:2 and unknown ones included), types and rooms, proves the
properties of the Resampler run:

- `Aligned`: `Spec => []ChannelsAligned`. That alone does not survive a push, since an instance of stereo
  type without slaves would push two unrelated values; `Twins` adds that a stereo type always has slaves;
- `TypeCorrect`, from the types of the enum only: any rates, any lengths. `TypeInv` adds that the slaves are
  twins of the type the instance has (`Sided`), so that they are typed as it is;
- `RatioAsked`, if rates of one number of whole kHz have one ratio (`RatesTold`): `ResetIfNeeded` compares kHz. `AskedInv`
  says that the instance remembers the kHz last asked for, and that while it can push its mode is
  their ratio; `ModesReduced` needs that the recursive `gcd` is what it should be on the modes, for which
  `GcdSteps` shows by the largest common divisor that such a function exists;
- `FiltersStay`, if lengths are multiples of 8 and no more than 10922 (`WholeLengths`): an odd length that is halved
  loses a sample, and the filters that double and halve count lengths in `int16_t`, where one behind a filter
  that triples is passed three times a call's. `FiltersInv` says that what was accepted is `SidesOf` times a
  share of whole blocks, which is what makes what two calls brought add up (`PassedSum`);
- `AllIsWritten`, if besides no ratio is 1:1 (`NoCopies`), where `Push` never looks at `maxLen`;
- `LengthsServed`: `[]LegalLengthsServed` of `ResamplerApi`, if 10 ms of a stereo handle's rates are whole samples
  (`WholeHundreds`; of 22050 Hz they are not, and what comes out is not the share of what went in). The mode of a handle that
  can push is the ratio of its own two rates (`MonoHandle`), and rates are that ratio times their greatest common
  divisor: of the pairs for which the recursive `gcd` were no divisor there would be one of
  least second number, and the pair it steps to is smaller (`LeastNumber`, `GcdDivides`, `RatesReduce`). `MultipleRounds` shows that
  the multiple covers the ratio exactly when `RoundsUp` holds.

The first four hypotheses are disagreements of section 3, and TLC finds all of them true of `MCResampler`. The proofs rest on a
table, `UnitsFlow`: for each of the twenty modes that convert, how many samples each of its filters is passed of
one unit of input, that these are whole blocks, fit the temporary, and come out in the mode's ratio. A longer
input is k units, its run through the chain k times the table's row (`OneRun`, `AlongGoesOn`, `ChainServes`, `PassedOfUnits`).
The recursive functions of a run are unfolded by an explicit witness over the at most three filters (`RunUnfolds`).

`OpusStream_proofs`, for all clients of `ClientsAssumption` (a mono instance gets no slave calls; a
stereo one is used through NetEq's calls, the C API's, or the split interface), all packets and losses:
`NoClicks`, `ChannelsPaired`, `LengthsTrue`, `StreamTypes`. These are all the clients in the repository. `Seamless`
says of the right filter that it goes on where it ended unless the client is a stereo one of the C API, of which it is false (run
StereoConceal); the left filter and the slave's are at their seams for that client too. `PairedOutputs` is not inductive: the
slave's call must find the length to conceal with that its master used. `StreamInv` adds
that `prev_decoded_samples` is the length of the last packet decoded (`Remembered`) and that the call
owed would return now what its master returned (`OwedTrue`). One lemma per function of
`opus_interface.c` says what it returns and where it leaves filters and clocks.

`CodecApi_proofs`, for all finite sets of addresses, codecs, channel counts and options, and any
refusals: `NothingLeaks`, `HandlesApart`, `ApiTypes`, and, if no payload is empty, `OwnPackets`.
`HeapExact` with the shape of a handle is inductive; `NothingHeld` says that a constructor that fails
frees all it was granted, whichever pieces those are, and `Apart` that destroying a handle
reaches no block of another.

`AcmReceiver_proofs`, for all codecs, delays and bounds of `ReceiverAssumption` (audio codecs are not comfort
noise or DTMF, no payload type is the invalid one), and all streams of packets sent one after the other:

- `MutualExclusion`: `decode_lock_` is held by exactly the thread that is inside NetEq;
- `NeverOverfull`: NetEq holds at most `MaxPackets`;
- `AssertsHold`: `[]AssertsKnown` under `~DelayAnyTime`. `DelayInv` adds that a thread inserting sync
  packets has a delay manager (`StreamsUsed`), which is where the assumption is needed, that the manager knows the
  payload type of the codec heard last unless it was overtaken (`CodecKnown`), and that no codec is known before
  the first packet.

- `ReceiverTypes`: `[]TypeOK`, with `KnownInv` (NetEq knows no codec that is not registered, though a codec
  leaves the two tables one after the other) and `ValueInv`, which bounds the number of sync packets of a stream by the
  numbers it counts in: a sum of timestamps that wraps is only typed while its terms are;
- `SyncPacketsTrue`, `SyncPacketsCame`: `[]SyncTrue`, `[]NeverAhead`, under `OneClock` and `ShortCall`. `OneClock`, one rate of
  RTP clock and output for all codecs, is needed since the receiver's clock counts in units of the output's
  rate; `ShortCall`, since that clock wraps at 2^26 ms, timestamps once round, and an order of
  sequence numbers is one within half a trip. Neither is a limit of the network: loss, lateness and reordering are
  arbitrary. `PaceInv` is the invariant: the delay manager stands at a number of the stream, with its
  timestamp and a receive time at which that packet may have come (`Stands`), each stream of sync packets begins
  at one and ends at one that may have come (`StreamTrue`), and so has every packet held (`HeldTrue`). The last is what
  makes it inductive: the number of late packets is a quotient of two clock readings, and one sync packet too
  many would be taken for the next standing point;
- `InitialDelayKept`: `[]DelayKept`, also under `~DelayAnyTime`. `BufferInv` adds that what is counted as buffered is no more
  than lies between the codec's first packet and the newest, and than up to the number the manager stands
  at, from which the next difference is taken.

`NackStream_proofs`, for all streams, numbers, windows and list limits of `NackStream`'s assumptions (the window under half of the
sequence numbers, packets heard one after the other, no stream longer than one trip of its timestamps), proves
the six invariants of the Nack run: `TypeCorrect`, `ListIsExact`, `EntriesAreTrue`, `AsksForWhatHelps`, `EstimatesInOrder`,
`NoAssertionFails`. Their invariant, `NackInv`, has three parts. `HistoryInv` relates the history: playout is at most
`Lag` packets behind, and the window's floor never passes the newest packet. `InstanceInv` says that the wrapped members are
the images of the unwrapped ones. `ListInv` speaks of each packet wanted: listed under its number (`ListsWanted`, `Complete`),
marked missing when it is past the threshold, with an estimate no further back than the first packet. `EntriesTrue` alone is not
inductive: the time to play is computed from the estimated timestamp, so that must be known to be exact whenever the stream is
steady; and `EstimatesOrdered` speaks of differences on a circle, which add up only because each is
known to be shorter than the stream (`Behind`). That wrapped numbers compare as their packets were
sent is `StretchOrdered`, for all packets of a window.

`RtpNumbers_proofs`, for spans of any even size (`SpansAssumption`): `NumbersOrdered`, `StretchOrdered`, and the lemmas on
places of a circle (`Places`, `Within`, `GoesOn`, `Between`) that the two proofs above share: how far
one number is past another, when sums of such distances are again distances.

`NetEq_proofs`, for all payload types, formats, streams, buffer sizes, thresholds and choices of what is left open that
`NetEq`'s assumptions admit: types of speech and of noise are distinct, no frame is longer than `kMaxFrameSize`, a
slot is sent after the one before, and a stream with a full buffer behind it lasts less than half of the timestamps
(2^31 samples in the code, twelve hours at 48 kHz). Loss, lateness, reordering, errors, sync packets and flushes are arbitrary.

- `TypesRight`: `[]TypeOK`. `Types` adds that every packet held was sent, as itself, as a redundant copy or as a sync
  packet in its place (`Arrived`), and `OneCodec` that all speech held is of the current payload type: the
  buffer is flushed when it changes, which is why a list of packets may be given to one decoder.
- `AssertsRight`: `[]AssertsKnown`, by `Watched`. An operation is undefined when a new codec finds nothing to restart from.
  That must be excluded where the first packet was there: `Empty` says that nothing is held before a stream's first
  packet, `Near` that the end timestamp is no further from what is held than the window of a stream,
  so that `IsObsoleteTimestamp` is the order in which packets were sent, and `Watch` that with a new codec, and no packet lost since to
  a flush or as too old, a packet is held that playing will take. Under `MonoNoise`: a stream with comfort noise has one channel and
  no frame of speech under 10 ms, so that the end of noise stands before the next packet (`Steady`); a stream
  without comfort noise needs no hypothesis (`Quiet`).
- `BlocksWhole`: `[]FullBlocks`, by `Filled`, and `Served`: `[](~bereft => full)`. Each way a block comes about gives what
  is left plus what it makes; `Steady` says that a frame remembered is never under a block, from which what a sync packet or a
  failed decode lasts follows, and `InUse` that the sync buffer's channels are the codec's once one is in use. Under
  `MonoStreams` (every stream has one channel and no frame of speech under 10 ms), which cannot be dropped: run StereoSilence is the
  counterexample, and a frame of 5 ms with none behind it would be another.

- `EndsRight`: `[]EndTrue`, by `Paced`. That decoding adds up to where the audio ends is a matter of the buffer's order, which
  `TypeOK` says nothing of: packets are held by the start of their audio (`Sorted`), and a redundant copy stands before
  the packet that carried it (`Carried`). From these, consecutive sequence numbers are consecutive audio
  (`GoesOnByFrames`), and a list of packets decodes to what lies between its ends (`DecodesToEnd`).
  `Framed` and `Formatted` keep what a sync packet decodes to, the last frame on each channel, equal to a packet's length. Under
  `OneRhythm`: every stream has one channel (a sync packet in stereo decodes to less, run StereoSilence); speech in frames of one
  length (a sync packet lasts as long as the frame before); where a frame is under 20 ms, consecutive packets of speech follow at
  once (`ExtractPackets` compares sequence numbers only, so a gap between them, as in-band comfort noise leaves
  one, is skipped when two are decoded together); no more packets than sequence numbers; and one format in
  a stream with comfort noise. The streams of run NetEq meet all of these.

- `PacketsInTurn`: `Spec => ImplementsJitterBuffer`, the refinement step by step (`SettledNext` with `JitterStep`): an
  insertion is `Insert` or, with a flush, `Restart`; discarding is `Drop`; playing is `Drop`, `Take` or both, seen as one `Take`; all else
  stutters. The code knows nothing of slots: it compares timestamps with the end timestamp and takes the head of a
  list. `Settled`, on top of `Paced`, relates the two. `Ranked`: the buffer is ordered by slot and, within one, by how good a
  copy is, so that the head is the best copy of the first slot held (`Best`). `InPlace`: where the end timestamp stands
  relative to the slot taken last, for each kind of take, so that what is not too old by timestamp comes after it and
  what is discarded as too old came before it or is within `Reach`. `Voiced`: only speech is stood in for by a sync packet.
  Under `Regular`: `OneRhythm`, as `EndsRight`; more than 4 sequence numbers (so that a packet's number
  is older than the next one's, which orders a packet before the copy of it that the next carries); and `InTurn` of every stream: slots follow one another, at least a unit of time apart; a redundant
  copy is of the slot that ends where its carrier starts and lasts as long as it; speech lasts 10 ms or more; and in-band comfort noise lasts 20 ms or more. The last
  cannot be dropped: a shorter one may be decoded in one call with speech before it, and since it leaves the end timestamp where
  it was, a duplicate of that speech would be played again. The streams of run NetEq meet all of these.

  The proof found a mistake in `JitterBuffer`: `InPlace` failed to be inductive for a stream that opens with comfort noise
  of two types, which no stream of the run did. There the code takes slots out of order, so `JitterBuffer` now says
  when it may ("unsettled"), and the run has such a stream.

Their lists are not bounded, so the proofs count. `StepByStep` is induction over the natural numbers for a *set* of numbers:
the library's theorems take the property as an operator, which no backend instantiates, but that the numbers are well-founded
(`WFMin`) does not. With it `TurnByTurn` gives what the decoding loop leaves after each packet, and `NthIs` that the n-th of a finite
set of places is its n-th.

Only model-checked: liveness (`ImplementsStream`'s fairness and `AllLeave`), which is out of the provers' reach.
No module of the models declares a RECURSIVE operator.

## 6. Not modelled

Left out for good: sample arithmetic (iSAC, iLBC, comfort noise, companding, the
kernels and filters, NetEq's expand, merge and stretching), libopus beyond what its callers
see, timing inside a call, logging. `SincResampler` keeps the index exactly where the code adds
doubles, so rounding of the ratio over long streams is outside the model. `Insert`, `Pull` and `SetRatio` have no
callers. Use of a handle of the C API after its destruction, or from two threads, is excluded.

Of the receive side: `RemoveAllCodecs`, playout timestamps, VAD and statistics, and the
resampling of the output in `AcmReceiver` (`AcmResampler` has it alone); in NetEq DTMF, RED and the
splitting of long packets, the timestamp scaler, fax and streaming modes, `SetMinimumDelay`'s
effect, `reset_decoder_`, errors of the comfort noise decoder, registering payload types during
a call. A decoder that makes its own comfort noise is taken to give a frame when asked with an
empty payload (`neteq_impl.cc:1604` adds whatever it returns); a redundant copy lasts as long as the packet that carries
it, as `PacketDurationRedundant` of the decoders here says. The error `kDecodedTooMuch` (`neteq_impl.cc:1297`) is left out:
packets are taken until they last what the call requires, at most 20 ms, so that they last less than 80 ms in all,
and `decoded_buffer_` has room for 2880 samples per channel, 90 ms at 32 kHz and 60 ms at 48 kHz; only a 48 kHz stream that mixes
frames of 60 ms with short ones could reach it. The delay manager and the level filter are statistics of arrival times; `NetEq`
leaves what they decide open, so that its properties hold whatever they do.

Not modelled at all: the send side of the audio coding module, which the makefiles do not build
and no client here calls.

Most of the repository by lines is codec arithmetic (libopus, iSAC, iLBC, the signal
processing library), which has no control to speak of; the models cover the
stateful code around it, a few thousand lines.
