------------------------------ MODULE CodecApi ------------------------------
(***************************************************************************)
(* The codec half of capi.cc with the JNI functions over it: handles, the  *)
(* native instances behind them, the blocks both are made of, and the      *)
(* error register the JNI functions keep in the handle.  Handles are used  *)
(* from one thread at a time and never after they were destroyed, which is *)
(* what the Java classes ask of their callers.                             *)
(***************************************************************************)
EXTENDS Integers, FiniteSets, FiniteSetsExt, Functions, OpusDecoder

CONSTANTS Addr,      \* block addresses, none of them NULL (0)
          Frames,    \* the frames clients decode (Opus packets or sizes)
          Raw,       \* sizes, in samples, of the buffers they encode
          Options,   \* the <<option, value>> pairs they set
          CodecIds,  \* the codec ids they ask for
          ChannelCounts,  \* the channel counts they ask for
          MaxHandles,  \* bound: handles alive at once
          MaxClock   \* bound: stretches a libopus decoder produces

ASSUME AddrAssumption == IsFiniteSet(Addr) /\ Addr \subseteq Nat \ {0}
ASSUME FramesAssumption == Frames \subseteq Packet \cup {NoPacket}
ASSUME RawAssumption == Raw \subseteq Nat
ASSUME OptionsAssumption ==
    Options \subseteq {"AUDIO_ENCODER_BITRATE", "AUDIO_ENCODER_LOSSRATE",
                      "AUDIO_ENCODER_FEC", "AUDIO_ENCODER_COMPLEXITY"} \X Int

VARIABLES heap,      \* the addresses of allocated blocks
          codecs,    \* live handles: audio_codec_t and what its ptr leads to
          told,      \* history, by handle: the latest frame call's outcome
          last       \* history: the latest call

vars == <<heap, codecs, told, last>>

PCMA == "PCMA_CODEC"
PCMU == "PCMU_CODEC"
OPUS == "OPUS_CODEC"
G722 == "G722_CODEC"
AUDIO_UNKNOWN == "AUDIO_UNKNOWN"

-----------------------------------------------------------------------------
(* libopus' encoder: the settings the options reach.                        *)
OPUS_OK == 0

opus_encoder_init(ch) ==
    [channels |-> ch, bitrate |-> -1000, loss |-> 0, fec |-> 0, complexity |-> 9]

NoEncoder == opus_encoder_init(0)
NoDecoder == Created(0)

Least(a, b) == IF a < b THEN a ELSE b

opus_encoder_ctl(e, option, value) ==
    CASE option = "AUDIO_ENCODER_BITRATE" ->
            IF value <= 0 /\ value \notin {-1000, -1} THEN [enc |-> e, ret |-> OPUS_BAD_ARG]
            ELSE [enc |-> [e EXCEPT !.bitrate =
                              IF value < 0 THEN value
                              ELSE IF value <= 500 THEN 500
                              ELSE Least(value, 300000 * e.channels)],
                  ret |-> OPUS_OK]
      [] option = "AUDIO_ENCODER_LOSSRATE" ->
            IF value \notin 0..100 THEN [enc |-> e, ret |-> OPUS_BAD_ARG]
            ELSE [enc |-> [e EXCEPT !.loss = value], ret |-> OPUS_OK]
      [] option = "AUDIO_ENCODER_FEC" ->
            [enc |-> [e EXCEPT !.fec = IF value # 0 THEN 1 ELSE 0], ret |-> OPUS_OK]
      [] option = "AUDIO_ENCODER_COMPLEXITY" ->
            IF value \notin 0..10 THEN [enc |-> e, ret |-> OPUS_BAD_ARG]
            ELSE [enc |-> [e EXCEPT !.complexity = value], ret |-> OPUS_OK]

-----------------------------------------------------------------------------
(* Allocation.  A constructor asks for its pieces one by one and any of     *)
(* them may be refused; `got` is the set of those it was granted.           *)
Pieces(id, is_dec) ==
    CASE id = OPUS /\ is_dec  -> {"inst", "left", "right"}
      [] id = OPUS /\ ~is_dec -> {"inst", "encoder"}
      [] id = G722            -> {"inst"}
      [] OTHER                -> {}

\* Without the instance nothing else is asked for; libopus gives nothing for a
\* channel count other than 1 or 2.
Grants(id, is_dec, ch) ==
    LET want == IF id = OPUS /\ ch \notin 1..2 THEN {"inst"} ELSE Pieces(id, is_dec)
    IN  {got \in SUBSET want : "inst" \notin got => got = {}}

\* The pieces a failed constructor frees.
FreedOpusDec(got) == {"left", "right", "inst"} \cap got
FreedOpusEnc(got) == {"inst"} \cap got
FreedByCreate(id, is_dec, got) ==
    CASE id = OPUS /\ is_dec  -> FreedOpusDec(got)
      [] id = OPUS /\ ~is_dec -> FreedOpusEnc(got)
      [] OTHER                -> {}

\* Slip: the instance is forgotten when the Init call fails.
SlipFreedByInit(id, is_dec, got) == {}
\* The pieces create_audio_decoder frees when the Init call fails, through
\* WebRtcOpus_DecoderFree and WebRtcG722_FreeDecoder.
FreedByInit(id, is_dec, got) == Pieces(id, is_dec)

\* n addresses the allocator picks among the free ones.
Fresh(n) == CHOOSE B \in kSubset(n, Addr \ heap) : TRUE
Room(n) == Cardinality(Addr \ heap) >= n

Encoder(id, ch) ==
    LET e0 == opus_encoder_init(ch)
        e1 == opus_encoder_ctl(e0, "AUDIO_ENCODER_BITRATE", 64000).enc
        e2 == opus_encoder_ctl(e1, "AUDIO_ENCODER_FEC", 1).enc
    IN  IF id = OPUS THEN opus_encoder_ctl(e2, "AUDIO_ENCODER_LOSSRATE", 5).enc
                     ELSE NoEncoder

TypeOK ==
    /\ heap \subseteq Addr
    /\ DOMAIN codecs \subseteq heap /\ DOMAIN told = DOMAIN codecs
    /\ \A h \in DOMAIN codecs :
          /\ codecs[h].id \in {PCMA, PCMU, OPUS, G722}
          /\ codecs[h].is_dec \in BOOLEAN /\ codecs[h].error \in Int
          /\ codecs[h].parts \subseteq heap

Init ==
    /\ heap = {}
    /\ codecs = <<>>
    /\ told = <<>>
    /\ last = [call |-> "none", on |-> 0, ret |-> 0]

Said(call, on, ret) == last' = [call |-> call, on |-> on, ret |-> ret]

-----------------------------------------------------------------------------
(* Construction and destruction.                                            *)
\* Slip: no default case in the switch over the codec id.
SlipConstructed(id, is_dec, ch, got, inited) == got = Pieces(id, is_dec) /\ inited
Constructed(id, is_dec, ch, got, inited) ==
    /\ id \in {PCMA, PCMU, OPUS, G722}
    /\ got = Pieces(id, is_dec)
    /\ inited

NewCodec(id, is_dec, ch, parts) ==
    [id |-> id, is_dec |-> is_dec, error |-> 0, parts |-> parts,
     dec |-> IF id = OPUS /\ is_dec THEN DecoderInit(Created(ch)) ELSE NoDecoder,
     enc |-> IF is_dec THEN NoEncoder ELSE Encoder(id, ch)]

Put(h, c) == [x \in DOMAIN codecs \cup {h} |-> IF x = h THEN c ELSE codecs[x]]

\* create_audio_decoder (is_dec) and create_audio_encoder.
Create(id, is_dec, ch) ==
    \E got \in Grants(id, is_dec, ch), inited \in BOOLEAN :
        LET held == got \ (IF got = Pieces(id, is_dec)
                           THEN IF inited THEN {} ELSE FreedByInit(id, is_dec, got)
                           ELSE FreedByCreate(id, is_dec, got))
            blocks == Fresh(Cardinality(got) + 1)
            h == CHOOSE a \in blocks : TRUE
        IN  /\ ~inited => id = G722 \/ (id = OPUS /\ is_dec)
            /\ Room(Cardinality(got) + 1)
            /\ Cardinality(DOMAIN codecs) < MaxHandles
            /\ IF Constructed(id, is_dec, ch, got, inited)
               THEN /\ heap' = heap \cup blocks
                    /\ codecs' = Put(h, NewCodec(id, is_dec, ch, blocks \ {h}))
                    /\ told' = [x \in DOMAIN codecs \cup {h} |->
                                   IF x = h THEN kDefaultFrameSize ELSE told[x]]
               ELSE /\ heap' = heap \cup Fresh(Cardinality(held))
                    /\ UNCHANGED <<codecs, told>>
            /\ Said("create", h, 0)

\* Slip: the kind of the handle is not looked at.
SlipFreed(h, as_dec) == codecs[h].parts \cup {h}
\* destroy_audio_decoder (as_dec) and destroy_audio_encoder, on any handle.
Freed(h, as_dec) ==
    IF codecs[h].is_dec = as_dec THEN codecs[h].parts \cup {h} ELSE {}

Destroy(h, as_dec) ==
    /\ heap' = heap \ Freed(h, as_dec)
    /\ codecs' = Restrict(codecs, DOMAIN codecs \ Freed(h, as_dec))
    /\ told' = Restrict(told, DOMAIN codecs')
    /\ Said(IF as_dec THEN "destroy_audio_decoder" ELSE "destroy_audio_encoder", h, 0)

-----------------------------------------------------------------------------
(* Frame calls.  For codecs other than Opus a frame is its size in bytes,   *)
(* in the field samples; only the counts of samples are kept.               *)
Result(c, ret) == [codec |-> c, ret |-> ret]
FromOpus(c, o) == Result([c EXCEPT !.dec = o.dec], o.ret)

decode_audio_frame(c, p) ==
    CASE c.id \in {PCMA, PCMU} -> Result(c, p.samples)
      [] c.id = G722           -> Result(c, 2 * p.samples)
      [] c.id = OPUS           -> FromOpus(c, Decode(c.dec, p))

decode_audio_fec(c, p) ==
    IF c.id = OPUS THEN FromOpus(c, DecodeFec(c.dec, p)) ELSE Result(c, -1)

decode_audio_plc(c) ==
    IF c.id = OPUS THEN FromOpus(c, DecodePlc(c.dec, 1)) ELSE Result(c, -1)

\* opus_encode takes `samples` samples of every channel; it gives some bytes
\* for a legal frame size, and an error otherwise.
opus_encode(e, samples) ==
    IF samples \in {120, 240, 480, 960, 1920, 2880} THEN 1 ELSE OPUS_BAD_ARG

encode_audio_frame(c, n) ==
    CASE c.id \in {PCMA, PCMU} -> Result(c, n)
      [] c.id = G722           -> Result(c, n \div 2)
      [] c.id = OPUS           ->
            IF n > 48 * 60 \/ opus_encode(c.enc, n) <= 0 THEN Result(c, -1)
            ELSE Result(c, opus_encode(c.enc, n))

\* What the JNI functions leave in the handle after any frame call.
WithError(r) == [r.codec EXCEPT !.error = IF r.ret > 0 THEN 0 ELSE r.ret]

Finish(call, h, r) ==
    /\ codecs' = [codecs EXCEPT ![h] = WithError(r)]
    /\ Said(call, h, r.ret)
    /\ UNCHANGED heap

Decoding(h, r) == IF codecs[h].is_dec THEN r ELSE Result(codecs[h], -1)
Encoding(h, r) == IF codecs[h].is_dec THEN Result(codecs[h], -1) ELSE r

DecodeFrame(h, p) ==
    LET r == Decoding(h, decode_audio_frame(codecs[h], p))
    IN  /\ codecs[h].dec.clock["left"] < MaxClock
        /\ Finish("decode", h, r)
        /\ told' = [told EXCEPT ![h] = IF p # NoPacket /\ r.ret > 0
                                       THEN p.samples * p.frames ELSE @]

DecodeFrameFec(h, p) ==
    /\ codecs[h].dec.clock["left"] < MaxClock
    /\ Finish("fec", h, Decoding(h, decode_audio_fec(codecs[h], p)))
    /\ UNCHANGED told

DecodeFramePlc(h) ==
    /\ codecs[h].dec.clock["left"] < MaxClock
    /\ Finish("plc", h, Decoding(h, decode_audio_plc(codecs[h])))
    /\ UNCHANGED told

EncodeFrame(h, n) ==
    /\ Finish("encode", h, Encoding(h, encode_audio_frame(codecs[h], n)))
    /\ UNCHANGED told

\* set_audio_encoder_option; it does not touch the error register.
SetEncoderOption(h, option, value) ==
    LET c == codecs[h]
        r == IF c.is_dec \/ c.id # OPUS THEN [enc |-> c.enc, ret |-> -1]
             ELSE opus_encoder_ctl(c.enc, option, value)
    IN  /\ codecs' = [codecs EXCEPT ![h].enc = r.enc]
        /\ Said(option, h, r.ret)
        /\ UNCHANGED <<heap, told>>

Next ==
    \/ \E id \in CodecIds, is_dec \in BOOLEAN, ch \in ChannelCounts :
          Create(id, is_dec, ch)
    \/ \E h \in DOMAIN codecs :
          \/ \E as_dec \in BOOLEAN : Destroy(h, as_dec)
          \/ \E p \in Frames : DecodeFrame(h, p) \/ DecodeFrameFec(h, p)
          \/ DecodeFramePlc(h)
          \/ \E n \in Raw : EncodeFrame(h, n)
          \/ \E o \in Options : SetEncoderOption(h, o[1], o[2])

Spec == Init /\ [][Next]_vars

-----------------------------------------------------------------------------
\* Every allocated block belongs to exactly one live handle, and a handle has
\* all the pieces of its kind: a constructor refused halfway leaves nothing
\* behind, and a destroyed handle neither.
HeapExact ==
    /\ heap = UNION {{h} \cup codecs[h].parts : h \in DOMAIN codecs}
    /\ \A h \in DOMAIN codecs :
          /\ Cardinality(codecs[h].parts)
                = Cardinality(Pieces(codecs[h].id, codecs[h].is_dec))
          /\ \A g \in DOMAIN codecs \ {h} :
                ({h} \cup codecs[h].parts) \cap ({g} \cup codecs[g].parts) = {}

\* A handle passed to a function of the other kind (a decoder destroyed as an
\* encoder, an encoder asked to decode) and a handle that is not the one the
\* call names keep their native state and their blocks.
Untouched(h) ==
    /\ h \in DOMAIN codecs'
    /\ codecs'[h].dec = codecs[h].dec /\ codecs'[h].enc = codecs[h].enc
    /\ codecs'[h].parts = codecs[h].parts /\ codecs[h].parts \subseteq heap'

DecoderCalls == {"decode", "fec", "plc", "destroy_audio_decoder"}

WrongKindHarmless ==
    [][\A h \in DOMAIN codecs :
          \/ Untouched(h)
          \/ /\ last'.on = h
             /\ codecs[h].is_dec = (last'.call \in DecoderCalls)
      ]_vars

\* The concealment of a decoder asks for the length of the last packet that
\* this decoder decoded, however calls on several handles are mixed and
\* whichever of them fail.
PlcFollowsOwnPackets ==
    \A h \in DOMAIN codecs : codecs[h].is_dec /\ codecs[h].id = OPUS =>
        codecs[h].dec.prev_decoded_samples = told[h]
=============================================================================
