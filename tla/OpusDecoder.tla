---------------------------- MODULE OpusDecoder ----------------------------
(***************************************************************************)
(* One decoder instance of opus_interface.c, as operators on its state:    *)
(* two libopus decoders, the memories of the two 48-to-32 kHz filters, and *)
(* the frame length concealment asks for.  Audio is abstracted to counts   *)
(* of samples and to stamps: the n-th stretch a libopus decoder produced.  *)
(***************************************************************************)
EXTENDS Integers

OPUS_BAD_ARG        == -1
OPUS_INVALID_PACKET == -4

kMaxFrameSizePerChannel == 48 * 120
kDefaultFrameSize       == 960

Sides == {"left", "right"}

\* What a call reads: a payload, or no payload at all (NULL or zero bytes).
\* samples: per libopus frame at 48 kHz; frames: libopus frames in the packet;
\* celt: CELT-only mode; lbrr: the first frame has redundant data of the frame
\* before it; ok: libopus can parse it.
Packet == [samples : {120, 480, 960, 1920, 2880}, frames : 1..6,
           celt : BOOLEAN, lbrr : BOOLEAN, ok : BOOLEAN]
NoPacket == [samples |-> 0, frames |-> 0, celt |-> FALSE, lbrr |-> FALSE,
             ok |-> FALSE]

\* A filter memory: which libopus decoder its seven samples came from, and
\* which stretch of that decoder.  Stretch 0 is the cleared memory.
Cleared == [from |-> "none", at |-> 0]

Created(channels) ==
    [channels |-> channels, prev_decoded_samples |-> kDefaultFrameSize,
     clock |-> [s \in Sides |-> 0], filter |-> [s \in Sides |-> Cleared]]

\* libopus rejects a packet it cannot parse or one longer than 120 ms.
Parses(p) == p.ok /\ p.samples * p.frames <= kMaxFrameSizePerChannel

PacketHasFec(p) == p # NoPacket /\ ~p.celt /\ Parses(p) /\ p.lbrr

\* Samples per channel that libopus produces, or its error code.
opus_decode(p, frame_size, fec) ==
    IF frame_size <= 0 THEN OPUS_BAD_ARG
    ELSE IF p = NoPacket
         THEN IF frame_size % 120 # 0 THEN OPUS_BAD_ARG ELSE frame_size
    ELSE IF ~Parses(p) THEN OPUS_INVALID_PACKET
    ELSE IF fec THEN frame_size ELSE p.samples * p.frames

Resampled48to32(length) == 2 * (length \div 3)

\* The outcome of a call: the new state, the value returned, and how many
\* 16-bit samples the call left in the caller's buffer.
Outcome(d, ret, written) == [dec |-> d, ret |-> ret, written |-> written]
Failed(d, ret) == Outcome(d, ret, 0)

\* libopus decoder s has produced one more stretch; the filters of `through`
\* have consumed it.
Advance(d, s, through) ==
    [d EXCEPT !.clock[s] = @ + 1,
              !.filter = [c \in Sides |-> IF c \in through
                                          THEN [from |-> s, at |-> d.clock[s] + 1]
                                          ELSE @[c]]]

Remember(d, n) == [d EXCEPT !.prev_decoded_samples = n]

BothSides(d) == IF d.channels = 2 THEN Sides ELSE {"left"}
Interleaved(d, n) == IF d.channels = 2 THEN 2 * n ELSE n

DecodeNew(d, p) ==
    LET n == opus_decode(p, kMaxFrameSizePerChannel, FALSE)
        r == Resampled48to32(n)
    IN  IF n < 0 THEN Failed(d, n)
        ELSE Outcome(Remember(Advance(d, "left", BothSides(d)), n),
                     r, Interleaved(d, r))

Decode(d, p) ==
    LET n == opus_decode(p, kMaxFrameSizePerChannel, FALSE)
        r == Resampled48to32(n)
    IN  IF n < 0 THEN Failed(d, n)
        ELSE Outcome(Remember(Advance(d, "left", {"left"}), n), r, r)

DecodeSlave(d, p) ==
    LET n == opus_decode(p, kMaxFrameSizePerChannel, FALSE)
        r == Resampled48to32(n)
    IN  IF n < 0 THEN Failed(d, -1)
        ELSE IF d.channels # 2
        THEN Failed([d EXCEPT !.clock["right"] = @ + 1], -1)
        ELSE Outcome(Advance(d, "right", {"right"}), r, r)

\* Slip: no cap on what is concealed at once.
SlipPlcSamples(d, lost) == lost * d.prev_decoded_samples

PlcSamples(d, lost) ==
    LET wanted == lost * d.prev_decoded_samples
    IN  IF wanted <= kMaxFrameSizePerChannel THEN wanted
                                             ELSE kMaxFrameSizePerChannel

DecodePlc(d, lost) ==
    LET n == opus_decode(NoPacket, PlcSamples(d, lost), FALSE)
        r == Resampled48to32(n)
    IN  IF n < 0 THEN Failed(d, -1)
        ELSE Outcome(Advance(d, "left", BothSides(d)), r, Interleaved(d, r))

\* Slip: the master's concealment remembers its own length.
SlipPlcMasterRemembers(d, lost) ==
    LET n == opus_decode(NoPacket, PlcSamples(d, lost), FALSE)
        r == Resampled48to32(n)
    IN  IF n < 0 THEN Failed(d, -1)
        ELSE Outcome(Remember(Advance(d, "left", {"left"}), n), r, r)
DecodePlcMaster(d, lost) ==
    LET n == opus_decode(NoPacket, PlcSamples(d, lost), FALSE)
        r == Resampled48to32(n)
    IN  IF n < 0 THEN Failed(d, -1)
        ELSE Outcome(Advance(d, "left", {"left"}), r, r)

DecodePlcSlave(d, lost) ==
    LET n == opus_decode(NoPacket, PlcSamples(d, lost), FALSE)
        r == Resampled48to32(n)
    IN  IF d.channels # 2 \/ n < 0 THEN Failed(d, -1)
        ELSE Outcome(Advance(d, "right", {"right"}), r, r)

\* Slip: redundant data sets the length to conceal with.
SlipDecodeFec(d, p) ==
    IF ~PacketHasFec(p) THEN Failed(d, 0)
    ELSE LET n == opus_decode(p, p.samples, TRUE)
             r == Resampled48to32(n)
         IN  IF n <= 0 THEN Failed(d, -1)
             ELSE Outcome(Remember(Advance(d, "left", BothSides(d)), n),
                          r, Interleaved(d, r))

DecodeFec(d, p) ==
    IF ~PacketHasFec(p) THEN Failed(d, 0)
    ELSE LET n == opus_decode(p, p.samples, TRUE)
             r == Resampled48to32(n)
         IN  IF n <= 0 THEN Failed(d, -1)
             ELSE Outcome(Advance(d, "left", BothSides(d)), r, Interleaved(d, r))

\* OPUS_RESET_STATE starts the libopus decoder over; its clock restarts too.
DecoderInit(d) ==
    [d EXCEPT !.clock["left"] = 0, !.filter["left"] = Cleared]

DecoderInitSlave(d) ==
    [d EXCEPT !.clock["right"] = 0, !.filter["right"] = Cleared]

\* Slips: the right filter is not cleared; the length to conceal with is.
SlipInitKeepsRight(d) == [d EXCEPT !.clock["left"] = 0, !.filter["left"] = Cleared]
SlipInitZeroes(d) ==
    [d EXCEPT !.clock["left"] = 0, !.filter = [s \in Sides |-> Cleared],
              !.prev_decoded_samples = 0]

DecoderInitNew(d) ==
    [d EXCEPT !.clock["left"] = 0, !.filter = [s \in Sides |-> Cleared]]
=============================================================================
