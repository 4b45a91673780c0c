----------------------------- MODULE OpusStream -----------------------------
(***************************************************************************)
(* A client driving one Opus decoder instance.  A client is the part of    *)
(* opus_interface.h it uses and a number of channels: NetEq's              *)
(* AudioDecoderOpus calls DecodeNew, DecodeFec, DecodePlc and              *)
(* DecoderInitNew; capi.cc calls Decode, DecodeFec and DecodePlc, for mono *)
(* and for stereo; the split interface calls a master and then its slave   *)
(* for every frame, lost or not.                                           *)
(***************************************************************************)
EXTENDS OpusDecoder

CONSTANTS Clients,   \* who may own the instance: [calls, channels]
          Payloads,  \* the packets clients pass as payload
          MaxLost,   \* largest number_of_lost_frames they ask for
          MaxClock   \* bound: stretches a libopus decoder produces

Names == {"DecodeNew", "Decode", "DecodeSlave", "DecodePlc", "DecodePlcMaster",
          "DecodePlcSlave", "DecodeFec", "DecoderInitNew", "DecoderInit",
          "DecoderInitSlave"}

\* The ways to decode stereo: both channels in one call; both in two; and
\* capi.cc's, the left one alone from a payload and both when it conceals.
NetEqCalls == {"DecodeNew", "DecodeFec", "DecodePlc", "DecoderInitNew"}
CapiCalls  == {"Decode", "DecodeFec", "DecodePlc"}
SlaveCalls == {"DecodeSlave", "DecodePlcSlave", "DecoderInitSlave"}
SplitCalls == SlaveCalls \cup {"Decode", "DecodePlcMaster", "DecoderInit"}

\* A slave call needs a second libopus channel; a stereo client keeps to one of
\* the three ways.
ASSUME ClientsAssumption ==
    \A c \in Clients :
        /\ c.calls \subseteq Names /\ c.channels \in 1..2
        /\ IF c.channels = 1 THEN c.calls \cap SlaveCalls = {}
           ELSE \/ c.calls \subseteq NetEqCalls \/ c.calls \subseteq CapiCalls
                \/ c.calls \subseteq SplitCalls /\ "DecodeSlave" \in c.calls
ASSUME PayloadsAssumption == Payloads \subseteq Packet
ASSUME BoundsAssumption   == MaxLost \in Nat \ {0} /\ MaxClock \in Nat

VARIABLES client, \* who owns the instance
          dec,    \* the instance
          last,   \* the latest call: [call, lost, ret, written]
          frame,  \* history: 48 kHz samples in the last packet decoded
          owed    \* the slave call the split interface still owes: a record of
                \* the master's call, its arguments and its return value

vars == <<client, dec, last, frame, owed>>

Nothing == "nothing"
Debt(call, p, lost, ret) ==
    [master |-> call, packet |-> p, lost |-> lost, ret |-> ret]
NoDebt == Debt(Nothing, NoPacket, 0, 0)

TypeOK ==
    /\ client \in Clients /\ dec.channels = client.channels
    /\ dec.prev_decoded_samples \in 1..kMaxFrameSizePerChannel
    /\ \A s \in Sides : /\ dec.clock[s] \in Nat
                        /\ dec.filter[s].from \in Sides \cup {"none"}
                        /\ dec.filter[s].at \in Nat
    /\ last.call \in Names \cup {Nothing} /\ last.ret \in Int
    /\ last.written \in Nat
    /\ frame \in 1..kMaxFrameSizePerChannel

Init ==
    /\ client \in Clients
    /\ dec = Created(client.channels)
    /\ last = [call |-> Nothing, lost |-> 0, ret |-> 0, written |-> 0]
    /\ frame = kDefaultFrameSize
    /\ owed = NoDebt

\* The client calls a master and then its slave for every frame.
Splits == "DecodeSlave" \in client.calls

\* The client decodes payloads with Decode and never asks the slave for the
\* right channel: the C API's stereo decoder.
LeftAlone == dec.channels = 2 /\ "Decode" \in client.calls /\ ~Splits

Bounded == \A s \in Sides : dec.clock[s] < MaxClock

\* A call of name c whose outcome is o.
Returns(c, lost, o) ==
    /\ c \in client.calls
    /\ Bounded
    /\ dec' = o.dec
    /\ last' = [call |-> c, lost |-> lost, ret |-> o.ret, written |-> o.written]
    /\ UNCHANGED client

Decoded(p, o) ==
    frame' = IF o.ret > 0 THEN p.samples * p.frames ELSE frame

CallDecodeNew(p) ==
    /\ Returns("DecodeNew", 0, DecodeNew(dec, p))
    /\ Decoded(p, DecodeNew(dec, p))
    /\ UNCHANGED owed

CallDecode(p) ==
    /\ owed = NoDebt
    /\ Returns("Decode", 0, Decode(dec, p))
    /\ Decoded(p, Decode(dec, p))
    /\ owed' = IF Splits THEN Debt("Decode", p, 0, last'.ret) ELSE NoDebt

CallDecodeSlave ==
    /\ owed.master = "Decode"
    /\ Returns("DecodeSlave", owed.ret, DecodeSlave(dec, owed.packet))
    /\ owed' = NoDebt
    /\ UNCHANGED frame

CallDecodePlc(lost) ==
    /\ Returns("DecodePlc", lost, DecodePlc(dec, lost))
    /\ UNCHANGED <<frame, owed>>

CallDecodePlcMaster(lost) ==
    /\ owed = NoDebt
    /\ Returns("DecodePlcMaster", lost, DecodePlcMaster(dec, lost))
    /\ owed' = Debt("DecodePlcMaster", NoPacket, lost, last'.ret)
    /\ UNCHANGED frame

CallDecodePlcSlave ==
    /\ owed.master = "DecodePlcMaster"
    /\ Returns("DecodePlcSlave", owed.ret, DecodePlcSlave(dec, owed.lost))
    /\ owed' = NoDebt
    /\ UNCHANGED frame

CallDecodeFec(p) ==
    /\ Returns("DecodeFec", 0, DecodeFec(dec, p))
    /\ UNCHANGED <<frame, owed>>

\* The stream restarts: NetEq does this on a new source or codec.
CallDecoderInitNew ==
    /\ Returns("DecoderInitNew", 0, Outcome(DecoderInitNew(dec), 0, 0))
    /\ UNCHANGED <<frame, owed>>

\* The split interface resets each of its two decoders by itself, between
\* frames.
CallDecoderInit ==
    /\ owed = NoDebt
    /\ Returns("DecoderInit", 0, Outcome(DecoderInit(dec), 0, 0))
    /\ UNCHANGED <<frame, owed>>

CallDecoderInitSlave ==
    /\ owed = NoDebt
    /\ Returns("DecoderInitSlave", 0, Outcome(DecoderInitSlave(dec), 0, 0))
    /\ UNCHANGED <<frame, owed>>

Next ==
    \/ \E p \in Payloads : \/ CallDecodeNew(p)
                           \/ CallDecode(p)
                           \/ CallDecodeFec(p)
    \/ \E n \in 1..MaxLost : CallDecodePlc(n) \/ CallDecodePlcMaster(n)
    \/ CallDecodeSlave
    \/ CallDecodePlcSlave
    \/ CallDecoderInitNew
    \/ CallDecoderInit
    \/ CallDecoderInitSlave

Spec == Init /\ [][Next]_vars

-----------------------------------------------------------------------------
\* A filter that was left by the latest stretch of decoder s, or that was
\* cleared together with a decoder that has produced nothing since.
Follows(side, s) ==
    dec.filter[side] = IF dec.clock[s] = 0 THEN Cleared
                       ELSE [from |-> s, at |-> dec.clock[s]]

\* The 48-to-32 kHz filter of the left channel always starts from the end of
\* the stretch that precedes the one it filters, whatever mix of decoding,
\* concealment, redundant data and resets came before: no click at a seam.
LeftSeamless == Follows("left", "left")

\* The same for the right channel of a stereo stream whose two channels come
\* from one libopus decoder (DecodeNew, DecodeFec, DecodePlc).  The C API's
\* stereo decoder is no such stream (see RightContinues).
RightSeamless ==
    dec.channels = 2 /\ ~Splits /\ ~LeftAlone => Follows("right", "left")

\* The same for the right channel of the split interface, whose filter belongs
\* to the slave decoder also while a slave call is still owed.
SlaveSeamless == Splits => Follows("right", "right")

\* No click at a seam, on any channel a client asks for in every call.
Seamless == LeftSeamless /\ RightSeamless /\ SlaveSeamless

\* A call that puts out a right channel continues where the last right channel
\* ended: "calls to WebRtcOpus_Decode_slave() give right channel as output" for
\* every packet, NetEq "requires two calls to the decoder to produce stereo".
\* The C API's stereo decoder makes the first call only, and conceals (and
\* recovers) both channels: its right filter then continues a stretch that was
\* not the last.
RightContinues ==
    [][LET old == dec.filter["right"]
           new == dec'.filter["right"]
       IN  new \notin {old, Cleared} =>
               old = IF new.at = 1 THEN Cleared ELSE [new EXCEPT !.at = @ - 1]]_dec

\* A slave call answers its master: it fails exactly when the master failed,
\* and otherwise gives the same number of samples, so that left and right can
\* be interleaved; concealment included, whose length only masters set.
\* (`last.lost` holds the master's return value after a slave call.)
PairedOutputs ==
    last.call \in {"DecodeSlave", "DecodePlcSlave"} =>
        IF last.lost > 0 THEN last.ret = last.lost ELSE last.ret < 0

\* However many frames are lost and however long they were, a call never
\* writes more than 120 ms per channel at 32 kHz (the local buffers' size).
OutputBounded == last.written <= dec.channels * 32 * 120

\* Concealing n lost frames yields n times the length of the last packet that
\* was decoded, up to 120 ms: opus_interface.h says number_of_lost_frames is
\* the "Number of PLC frames to produce".
PlcLength ==
    last.call \in {"DecodePlc", "DecodePlcMaster"} =>
        last.ret = Resampled48to32(IF last.lost * frame <= kMaxFrameSizePerChannel
                                   THEN last.lost * frame
                                   ELSE kMaxFrameSizePerChannel)

\* How much a call writes: what its caller has room for, and of concealment what
\* was lost.
OutputLength == OutputBounded /\ PlcLength
=============================================================================
