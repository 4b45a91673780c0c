-------------------------- MODULE CodecApi_proofs --------------------------
(***************************************************************************)
(* Theorems about CodecApi, for all addresses, codecs, channel counts,     *)
(* frames, options and numbers of handles, whatever allocation is refused. *)
(***************************************************************************)
EXTENDS CodecApi, FiniteSetTheorems, TLAPS

CodecFields == {"id", "is_dec", "error", "parts", "dec", "enc"}
DecoderFields == {"channels", "prev_decoded_samples", "clock", "filter"}

\* The shape of a handle: its fields, so that an update of one leaves the others.
IsDecoderState(d) == DOMAIN d = DecoderFields /\ d.prev_decoded_samples \in Int
IsCodec(c) ==
    /\ DOMAIN c = CodecFields
    /\ c.id \in {PCMA, PCMU, OPUS, G722} /\ c.is_dec \in BOOLEAN /\ c.error \in Int
    /\ IsDecoderState(c.dec)

Shapes ==
    /\ heap \subseteq Addr
    /\ DOMAIN told = DOMAIN codecs
    /\ \A h \in DOMAIN codecs : IsCodec(codecs[h])

\* The blocks of a handle.
Blocks(c, h) == {h} \cup c.parts

ApiInv == Shapes /\ HeapExact

-----------------------------------------------------------------------------
\* Of a finite set with room for n there is a subset of n.
LEMMA SubsetOfSize ==
    ASSUME NEW S, IsFiniteSet(S), NEW n \in Nat, Cardinality(S) >= n
    PROVE  \E T \in SUBSET S : Cardinality(T) = n
<1> DEFINE c == Cardinality(S)
<1>1. c \in Nat /\ ExistsBijection(1..c, S)
  BY FS_CardinalityType
<1>2. PICK f \in Bijection(1..c, S) : TRUE
  BY <1>1 DEF ExistsBijection
<1> DEFINE T == {f[i] : i \in 1..n}
           g == [i \in 1..n |-> f[i]]
<1>3. f \in [1..c -> S] /\ \A i, j \in 1..c : f[i] = f[j] => i = j
  BY <1>2 DEF Bijection, Injection, IsInjective
<1>4. 1..n \subseteq 1..c
  BY <1>1
<1>5. T \in SUBSET S
  BY <1>3, <1>4
<1>6. g \in Bijection(1..n, T)
  BY <1>3, <1>4 DEF Bijection, Injection, IsInjective, Surjection
<1>7. Cardinality(T) = n
  <2>1. ExistsBijection(1..n, T)
    BY <1>6 DEF ExistsBijection
  <2> QED
    BY <2>1, FS_CountingElements
<1> QED
  BY <1>5, <1>7

\* What the allocator returns is free and as much as was asked for.
LEMMA FreshIs ==
    ASSUME heap \subseteq Addr, NEW n \in Nat, Room(n)
    PROVE  Fresh(n) \subseteq Addr /\ Fresh(n) \cap heap = {} /\ Cardinality(Fresh(n)) = n
<1>1. IsFiniteSet(Addr \ heap)
  BY AddrAssumption, FS_Subset
<1>2. \E B \in SUBSET (Addr \ heap) : Cardinality(B) = n
  BY <1>1, SubsetOfSize DEF Room
<1>3. Fresh(n) \in kSubset(n, Addr \ heap)
  BY <1>2 DEF Fresh, kSubset
<1> QED
  BY <1>3 DEF kSubset

LEMMA FreshNothing == Fresh(0) = {}
<1>1. kSubset(0, Addr \ heap) = {{}}
  <2>1. ASSUME NEW B \in SUBSET (Addr \ heap) PROVE Cardinality(B) = 0 <=> B = {}
    <3>1. IsFiniteSet(B)
      BY AddrAssumption, FS_Subset
    <3> QED
      BY <3>1, FS_EmptySet
  <2> QED
    BY <2>1 DEF kSubset
<1> QED
  BY <1>1 DEF Fresh

\* A constructor asks for finitely many pieces.
LEMMA GrantsFinite ==
    ASSUME NEW id, NEW is_dec \in BOOLEAN, NEW ch, NEW got \in Grants(id, is_dec, ch)
    PROVE  got \subseteq Pieces(id, is_dec) /\ IsFiniteSet(got) /\ Cardinality(got) \in Nat
<1>1. got \subseteq Pieces(id, is_dec)
  BY DEF Grants, Pieces, OPUS, G722
<1>2. IsFiniteSet({}) /\ IsFiniteSet({"inst"}) /\ IsFiniteSet({"inst", "encoder"})
      /\ IsFiniteSet({"inst", "left", "right"})
  <2>1. IsFiniteSet({"inst"})
    BY FS_Singleton
  <2>2. IsFiniteSet({"inst"} \cup {"encoder"}) /\ IsFiniteSet({"inst"} \cup {"left"})
    BY <2>1, FS_AddElement
  <2>3. IsFiniteSet(({"inst"} \cup {"left"}) \cup {"right"})
    BY <2>2, FS_AddElement
  <2>4. /\ {"inst"} \cup {"encoder"} = {"inst", "encoder"}
        /\ ({"inst"} \cup {"left"}) \cup {"right"} = {"inst", "left", "right"}
    OBVIOUS
  <2> QED
    BY <2>1, <2>2, <2>3, <2>4, FS_EmptySet
<1>3. IsFiniteSet(Pieces(id, is_dec))
  BY <1>2 DEF Pieces
<1> QED
  BY <1>1, <1>3, FS_Subset, FS_CardinalityType

\* A constructor that fails gives back all it was granted.
LEMMA NothingHeld ==
    ASSUME NEW id, NEW is_dec \in BOOLEAN, NEW ch, NEW got \in Grants(id, is_dec, ch),
           NEW inited \in BOOLEAN, ~inited => id = G722 \/ (id = OPUS /\ is_dec),
           ~Constructed(id, is_dec, ch, got, inited)
    PROVE  got \ (IF got = Pieces(id, is_dec)
                  THEN IF inited THEN {} ELSE FreedByInit(id, is_dec, got)
                  ELSE FreedByCreate(id, is_dec, got)) = {}
<1>1. got \subseteq Pieces(id, is_dec)
  BY GrantsFinite
<1>2. CASE got = Pieces(id, is_dec)
  <2>1. CASE inited
    <3>1. id \notin {PCMA, PCMU, OPUS, G722}
      BY <1>2, <2>1 DEF Constructed
    <3>2. got = {}
      BY <1>2, <3>1 DEF Pieces
    <3> QED
      BY <3>2
  <2>2. CASE ~inited
    BY <1>2, <2>2 DEF FreedByInit
  <2> QED
    BY <2>1, <2>2
<1>3. CASE got # Pieces(id, is_dec)
  <2>1. CASE id = OPUS /\ is_dec
    BY <1>1, <1>3, <2>1 DEF Pieces, FreedByCreate, FreedOpusDec
  <2>2. CASE id = OPUS /\ ~is_dec
    <3>1. "inst" \notin got => got = {}
      BY DEF Grants
    <3>2. got = {} \/ got = {"inst"}
      BY <1>1, <1>3, <2>2, <3>1 DEF Pieces
    <3> QED
      BY <1>3, <2>2, <3>2 DEF FreedByCreate, FreedOpusEnc, Pieces
  <2>3. CASE id # OPUS
    <3>1. got = {}
      <4>1. "inst" \notin got => got = {}
        BY DEF Grants
      <4> QED
        BY <1>1, <1>3, <2>3, <4>1 DEF Pieces
    <3> QED
      BY <1>3, <3>1
  <2> QED
    BY <2>1, <2>2, <2>3
<1> QED
  BY <1>2, <1>3

-----------------------------------------------------------------------------
(* What the calls into the Opus wrapper leave: an instance of the same       *)
(* fields, and the length to conceal with unless a packet was decoded.       *)
LEMMA AdvanceKeeps ==
    ASSUME NEW d, IsDecoderState(d), NEW s, NEW through
    PROVE  /\ IsDecoderState(Advance(d, s, through))
           /\ Advance(d, s, through).prev_decoded_samples = d.prev_decoded_samples
BY DEF IsDecoderState, DecoderFields, Advance

LEMMA RememberKeeps ==
    ASSUME NEW d, IsDecoderState(d), NEW n \in Int
    PROVE  IsDecoderState(Remember(d, n)) /\ Remember(d, n).prev_decoded_samples = n
BY DEF IsDecoderState, DecoderFields, Remember

LEMMA Durations ==
    ASSUME NEW p \in Packet
    PROVE  /\ p # NoPacket /\ p.samples \in Int /\ p.samples >= 120
           /\ p.samples * p.frames \in Int /\ p.samples * p.frames >= 120
<1>1. p.samples \in {120, 480, 960, 1920, 2880} /\ p.frames \in 1..6
  BY DEF Packet
<1>2. p.samples * p.frames \in Int /\ p.samples * p.frames >= 120
  <2>1. CASE p.samples = 120
    BY <1>1, <2>1
  <2>2. CASE p.samples = 480
    BY <1>1, <2>2
  <2>3. CASE p.samples = 960
    BY <1>1, <2>3
  <2>4. CASE p.samples = 1920
    BY <1>1, <2>4
  <2>5. CASE p.samples = 2880
    BY <1>1, <2>5
  <2> QED
    BY <1>1, <2>1, <2>2, <2>3, <2>4, <2>5
<1> QED
  BY <1>1, <1>2 DEF NoPacket

\* A packet decoded gives samples and is the one to conceal like; one rejected
\* gives an error and changes nothing; no packet at all is concealed.
LEMMA DecodeIs ==
    ASSUME NEW d, IsDecoderState(d), NEW p \in Packet \cup {NoPacket}
    PROVE  LET o == Decode(d, p)
           IN  /\ IsDecoderState(o.dec) /\ o.ret \in Int
               /\ p # NoPacket =>
                     o.dec.prev_decoded_samples = IF o.ret > 0 THEN p.samples * p.frames
                                                  ELSE d.prev_decoded_samples
<1> DEFINE n == opus_decode(p, kMaxFrameSizePerChannel, FALSE)
           r == Resampled48to32(n)
<1>1. CASE p # NoPacket /\ ~Parses(p)
  BY <1>1 DEF opus_decode, kMaxFrameSizePerChannel, OPUS_INVALID_PACKET, Decode, Failed, Outcome
<1>2. ASSUME n \in Int, n >= 120, p # NoPacket => n = p.samples * p.frames
      PROVE  LET o == Decode(d, p)
             IN  /\ IsDecoderState(o.dec) /\ o.ret \in Int
                 /\ p # NoPacket =>
                       o.dec.prev_decoded_samples = IF o.ret > 0 THEN p.samples * p.frames
                                                    ELSE d.prev_decoded_samples
  <2>1. Decode(d, p) = IF n < 0 THEN Failed(d, n)
                       ELSE Outcome(Remember(Advance(d, "left", {"left"}), n), r, r)
    BY DEF Decode
  <2> HIDE DEF n
  <2>2. r \in Int /\ r > 0
    BY <1>2 DEF Resampled48to32
  <2> HIDE DEF r
  <2>3. Decode(d, p) = Outcome(Remember(Advance(d, "left", {"left"}), n), r, r)
    BY <1>2, <2>1
  <2>4. IsDecoderState(Remember(Advance(d, "left", {"left"}), n))
        /\ Remember(Advance(d, "left", {"left"}), n).prev_decoded_samples = n
    BY <1>2, AdvanceKeeps, RememberKeeps
  <2> QED
    BY <1>2, <2>2, <2>3, <2>4 DEF Outcome
<1>3. CASE p # NoPacket /\ Parses(p)
  <2>1. n = p.samples * p.frames
    BY <1>3 DEF opus_decode, kMaxFrameSizePerChannel
  <2>2. p.samples * p.frames \in Int /\ p.samples * p.frames >= 120
    BY <1>3, Durations
  <2> HIDE DEF n
  <2>3. n \in Int /\ n >= 120
    BY <2>1, <2>2
  <2> QED
    BY <1>2, <2>1, <2>3
<1>4. CASE p = NoPacket
  <2>1. n = 48 * 120
    BY <1>4 DEF opus_decode, kMaxFrameSizePerChannel
  <2> HIDE DEF n
  <2>2. n \in Int /\ n >= 120
    BY <2>1
  <2> QED
    BY <1>2, <1>4, <2>2
<1> QED
  BY <1>1, <1>3, <1>4

LEMMA DecodeFecIs ==
    ASSUME NEW d, IsDecoderState(d), NEW p \in Packet \cup {NoPacket}
    PROVE  LET o == DecodeFec(d, p)
           IN  /\ IsDecoderState(o.dec) /\ o.ret \in Int
               /\ o.dec.prev_decoded_samples = d.prev_decoded_samples
<1> DEFINE n == opus_decode(p, p.samples, TRUE)
<1>1. CASE ~PacketHasFec(p)
  BY <1>1 DEF DecodeFec, Failed, Outcome
<1>2. CASE PacketHasFec(p)
  <2>1. n \in Int
    <3>1. p \in Packet
      BY <1>2 DEF PacketHasFec
    <3> QED
      BY <3>1, Durations DEF opus_decode, OPUS_BAD_ARG, OPUS_INVALID_PACKET
  <2>2. DecodeFec(d, p) = IF n <= 0 THEN Failed(d, -1)
                          ELSE Outcome(Advance(d, "left", BothSides(d)), Resampled48to32(n),
                                       Interleaved(d, Resampled48to32(n)))
    BY <1>2 DEF DecodeFec
  <2> HIDE DEF n
  <2>3. Resampled48to32(n) \in Int
    BY <2>1 DEF Resampled48to32
  <2>4. IsDecoderState(Advance(d, "left", BothSides(d)))
        /\ Advance(d, "left", BothSides(d)).prev_decoded_samples = d.prev_decoded_samples
    BY AdvanceKeeps
  <2> QED
    BY <2>1, <2>2, <2>3, <2>4 DEF Failed, Outcome
<1> QED
  BY <1>1, <1>2

LEMMA DecodePlcIs ==
    ASSUME NEW d, IsDecoderState(d)
    PROVE  LET o == DecodePlc(d, 1)
           IN  /\ IsDecoderState(o.dec) /\ o.ret \in Int
               /\ o.dec.prev_decoded_samples = d.prev_decoded_samples
<1> DEFINE n == opus_decode(NoPacket, PlcSamples(d, 1), FALSE)
<1>1. PlcSamples(d, 1) \in Int
  BY DEF PlcSamples, kMaxFrameSizePerChannel, IsDecoderState
<1>2. n \in Int
  BY <1>1 DEF opus_decode, OPUS_BAD_ARG
<1> HIDE DEF n
<1>3. Resampled48to32(n) \in Int
  BY <1>2 DEF Resampled48to32
<1>4. IsDecoderState(Advance(d, "left", BothSides(d)))
      /\ Advance(d, "left", BothSides(d)).prev_decoded_samples = d.prev_decoded_samples
  BY AdvanceKeeps
<1>5. DecodePlc(d, 1) = IF n < 0 THEN Failed(d, -1)
                        ELSE Outcome(Advance(d, "left", BothSides(d)), Resampled48to32(n),
                                     Interleaved(d, Resampled48to32(n)))
  BY DEF DecodePlc, n
<1> QED
  BY <1>2, <1>3, <1>4, <1>5 DEF Failed, Outcome

-----------------------------------------------------------------------------
LEMMA ApiInvInit == Init => ApiInv
BY DEF Init, ApiInv, Shapes, HeapExact

\* A call that changes neither what a handle is nor its blocks.
SameHandle(c, d) ==
    IsCodec(c) /\ c.id = d.id /\ c.is_dec = d.is_dec /\ c.parts = d.parts

LEMMA CallKeeps ==
    ASSUME ApiInv, NEW h \in DOMAIN codecs, NEW c, SameHandle(c, codecs[h]),
           codecs' = [codecs EXCEPT ![h] = c], heap' = heap, DOMAIN told' = DOMAIN told
    PROVE  ApiInv'
<1>1. DOMAIN codecs' = DOMAIN codecs
      /\ \A g \in DOMAIN codecs : codecs'[g] = IF g = h THEN c ELSE codecs[g]
  OBVIOUS
<1>2. \A g \in DOMAIN codecs : SameHandle(codecs'[g], codecs[g])
  BY <1>1 DEF ApiInv, Shapes, SameHandle
<1>3. Shapes'
  BY <1>1, <1>2 DEF ApiInv, Shapes, SameHandle
<1>4. HeapExact'
  <2>1. UNION {{g} \cup codecs'[g].parts : g \in DOMAIN codecs'}
           = UNION {{g} \cup codecs[g].parts : g \in DOMAIN codecs}
    BY <1>1, <1>2 DEF SameHandle
  <2> QED
    BY <1>1, <1>2, <2>1 DEF ApiInv, HeapExact, SameHandle
<1> QED
  BY <1>3, <1>4 DEF ApiInv

\* A handle asked to decode or to encode, whatever its kind.
LEMMA DecodingIs ==
    ASSUME ApiInv, NEW h \in DOMAIN codecs, NEW o, IsDecoderState(o.dec), o.ret \in Int
    PROVE  LET r == Decoding(h, FromOpus(codecs[h], o))
           IN  SameHandle(WithError(r), codecs[h])
<1>1. IsCodec(codecs[h])
  BY DEF ApiInv, Shapes
<1> QED
  BY <1>1 DEF Decoding, FromOpus, Result, WithError, SameHandle, IsCodec, CodecFields

LEMMA CountIs ==
    ASSUME ApiInv, NEW h \in DOMAIN codecs, NEW ret \in Int
    PROVE  /\ SameHandle(WithError(Result(codecs[h], ret)), codecs[h])
           /\ SameHandle(WithError(Decoding(h, Result(codecs[h], ret))), codecs[h])
           /\ SameHandle(WithError(Encoding(h, Result(codecs[h], ret))), codecs[h])
<1>1. IsCodec(codecs[h])
  BY DEF ApiInv, Shapes
<1> QED
  BY <1>1 DEF Decoding, Encoding, Result, WithError, SameHandle, IsCodec, CodecFields

LEMMA FramesAre ==
    ASSUME NEW p \in Frames
    PROVE  p \in Packet \cup {NoPacket} /\ p.samples \in Int
BY FramesAssumption DEF Packet, NoPacket

LEMMA DecodeSame ==
    ASSUME ApiInv, NEW h \in DOMAIN codecs, NEW p \in Frames
    PROVE  SameHandle(WithError(Decoding(h, decode_audio_frame(codecs[h], p))), codecs[h])
<1>1. IsCodec(codecs[h])
  BY DEF ApiInv, Shapes
<1>2. CASE codecs[h].id = OPUS
  <2>1. decode_audio_frame(codecs[h], p) = FromOpus(codecs[h], Decode(codecs[h].dec, p))
    BY <1>2 DEF decode_audio_frame, OPUS, PCMA, PCMU, G722
  <2>2. IsDecoderState(Decode(codecs[h].dec, p).dec) /\ Decode(codecs[h].dec, p).ret \in Int
    BY <1>1, DecodeIs, FramesAre DEF IsCodec
  <2> QED
    BY <2>1, <2>2, DecodingIs
<1>3. CASE codecs[h].id # OPUS
  <2>1. \E n \in Int : decode_audio_frame(codecs[h], p) = Result(codecs[h], n)
    <3>1. p.samples \in Int /\ 2 * p.samples \in Int
      BY FramesAre
    <3> QED
      BY <1>1, <1>3, <3>1 DEF decode_audio_frame, IsCodec
  <2> QED
    BY <2>1, CountIs
<1> QED
  BY <1>2, <1>3

LEMMA FecSame ==
    ASSUME ApiInv, NEW h \in DOMAIN codecs, NEW p \in Frames
    PROVE  SameHandle(WithError(Decoding(h, decode_audio_fec(codecs[h], p))), codecs[h])
<1>1. IsDecoderState(codecs[h].dec)
  BY DEF ApiInv, Shapes, IsCodec
<1>2. IsDecoderState(DecodeFec(codecs[h].dec, p).dec) /\ DecodeFec(codecs[h].dec, p).ret \in Int
  BY <1>1, DecodeFecIs, FramesAre
<1> QED
  BY <1>2, DecodingIs, CountIs DEF decode_audio_fec

LEMMA PlcSame ==
    ASSUME ApiInv, NEW h \in DOMAIN codecs
    PROVE  SameHandle(WithError(Decoding(h, decode_audio_plc(codecs[h]))), codecs[h])
<1>1. IsDecoderState(codecs[h].dec)
  BY DEF ApiInv, Shapes, IsCodec
<1>2. IsDecoderState(DecodePlc(codecs[h].dec, 1).dec) /\ DecodePlc(codecs[h].dec, 1).ret \in Int
  BY <1>1, DecodePlcIs
<1> QED
  BY <1>2, DecodingIs, CountIs DEF decode_audio_plc

LEMMA EncodeSame ==
    ASSUME ApiInv, NEW h \in DOMAIN codecs, NEW n \in Raw
    PROVE  /\ SameHandle(WithError(Encoding(h, encode_audio_frame(codecs[h], n))), codecs[h])
           /\ WithError(Encoding(h, encode_audio_frame(codecs[h], n))).dec = codecs[h].dec
           /\ WithError(Encoding(h, encode_audio_frame(codecs[h], n))).enc = codecs[h].enc
<1>1. IsCodec(codecs[h])
  BY DEF ApiInv, Shapes
<1>2. \E ret \in Int : encode_audio_frame(codecs[h], n) = Result(codecs[h], ret)
  <2>1. n \in Int /\ n \div 2 \in Int /\ opus_encode(codecs[h].enc, n) \in Int
    BY RawAssumption DEF opus_encode, OPUS_BAD_ARG
  <2> QED
    BY <1>1, <2>1 DEF encode_audio_frame, IsCodec
<1> QED
  <2>1. PICK ret \in Int : encode_audio_frame(codecs[h], n) = Result(codecs[h], ret)
    BY <1>2
  <2>2. SameHandle(WithError(Encoding(h, Result(codecs[h], ret))), codecs[h])
    BY CountIs
  <2> QED
    BY <1>1, <2>1, <2>2 DEF Encoding, Result, WithError, IsCodec, CodecFields

-----------------------------------------------------------------------------
(* The actions.                                                              *)
LEMMA CreateKeeps ==
    ASSUME ApiInv, NEW id, NEW is_dec \in BOOLEAN, NEW ch, Create(id, is_dec, ch)
    PROVE  /\ ApiInv'
           /\ \A g \in DOMAIN codecs : /\ g \in DOMAIN codecs' /\ codecs'[g] = codecs[g]
                                       /\ told'[g] = told[g]
           /\ \A g \in DOMAIN codecs' \ DOMAIN codecs :
                 codecs'[g].is_dec /\ codecs'[g].id = OPUS =>
                     codecs'[g].dec.prev_decoded_samples = told'[g]
<1>1. PICK got \in Grants(id, is_dec, ch), inited \in BOOLEAN :
        LET held == got \ (IF got = Pieces(id, is_dec)
                           THEN IF inited THEN {} ELSE FreedByInit(id, is_dec, got)
                           ELSE FreedByCreate(id, is_dec, got))
            blocks == Fresh(Cardinality(got) + 1)
            h == CHOOSE a \in blocks : TRUE
        IN  /\ ~inited => id = G722 \/ (id = OPUS /\ is_dec)
            /\ Room(Cardinality(got) + 1)
            /\ IF Constructed(id, is_dec, ch, got, inited)
               THEN /\ heap' = heap \cup blocks
                    /\ codecs' = Put(h, NewCodec(id, is_dec, ch, blocks \ {h}))
                    /\ told' = [x \in DOMAIN codecs \cup {h} |->
                                   IF x = h THEN kDefaultFrameSize ELSE told[x]]
               ELSE /\ heap' = heap \cup Fresh(Cardinality(held))
                    /\ UNCHANGED <<codecs, told>>
  BY DEF Create
<1> DEFINE blocks == Fresh(Cardinality(got) + 1)
           h == CHOOSE a \in blocks : TRUE
           c == NewCodec(id, is_dec, ch, blocks \ {h})
<1>2. CASE ~Constructed(id, is_dec, ch, got, inited)
  <2>1. UNCHANGED <<heap, codecs, told>>
    <3> DEFINE held == got \ (IF got = Pieces(id, is_dec)
                              THEN IF inited THEN {} ELSE FreedByInit(id, is_dec, got)
                              ELSE FreedByCreate(id, is_dec, got))
    <3>1. heap' = heap \cup Fresh(Cardinality(held)) /\ UNCHANGED <<codecs, told>>
      BY <1>1, <1>2
    <3>2. ~inited => id = G722 \/ (id = OPUS /\ is_dec)
      BY <1>1
    <3>3. held = {}
      BY <1>2, <3>2, NothingHeld
    <3> HIDE DEF held
    <3>4. Fresh(Cardinality(held)) = {}
      BY <3>3, FreshNothing, FS_EmptySet
    <3> QED
      BY <3>1, <3>4
  <2>2. ApiInv'
    BY <2>1 DEF ApiInv, Shapes, HeapExact
  <2> QED
    BY <2>1, <2>2
<1>3. CASE Constructed(id, is_dec, ch, got, inited)
  <2>1. /\ heap' = heap \cup blocks
        /\ codecs' = Put(h, c)
        /\ told' = [x \in DOMAIN codecs \cup {h} |->
                       IF x = h THEN kDefaultFrameSize ELSE told[x]]
    BY <1>1, <1>3
  <2>2. Cardinality(got) \in Nat /\ Room(Cardinality(got) + 1)
    BY <1>1, GrantsFinite
  <2>3. /\ blocks \subseteq Addr /\ blocks \cap heap = {} /\ Cardinality(blocks) = Cardinality(got) + 1
        /\ IsFiniteSet(blocks)
    BY <2>2, FreshIs, AddrAssumption, FS_Subset DEF ApiInv, Shapes
  <2>4. id \in {PCMA, PCMU, OPUS, G722} /\ got = Pieces(id, is_dec)
    BY <1>3 DEF Constructed
  <2> HIDE DEF blocks
  <2>5. h \in blocks
    <3>1. blocks # {}
      BY <2>2, <2>3, FS_EmptySet
    <3> QED
      BY <3>1
  <2> HIDE DEF h
  <2>6. Cardinality(blocks \ {h}) = Cardinality(got)
    <3>1. Cardinality(blocks \ {h}) = Cardinality(blocks) - 1
      BY <2>3, <2>5, FS_RemoveElement
    <3> QED
      BY <2>2, <2>3, <3>1
  <2>7. /\ IsCodec(c) /\ c.id = id /\ c.is_dec = is_dec /\ c.parts = blocks \ {h}
        /\ id = OPUS /\ is_dec => c.dec.prev_decoded_samples = kDefaultFrameSize
    BY <2>4 DEF NewCodec, IsCodec, CodecFields, IsDecoderState, DecoderFields, DecoderInit, NoDecoder,
                Created, kDefaultFrameSize
  <2> HIDE DEF c
  <2>8. h \notin DOMAIN codecs /\ DOMAIN codecs \subseteq heap
    BY <2>3, <2>5 DEF ApiInv, HeapExact
  <2>9. /\ DOMAIN codecs' = DOMAIN codecs \cup {h} /\ codecs'[h] = c
        /\ \A g \in DOMAIN codecs : codecs'[g] = codecs[g] /\ codecs'[g].parts \subseteq heap
    <3>1. \A g \in DOMAIN codecs : codecs[g].parts \subseteq heap
      BY DEF ApiInv, HeapExact
    <3> QED
      BY <2>1, <2>8, <3>1 DEF Put
  <2>10. Shapes'
    BY <2>1, <2>3, <2>7, <2>9 DEF ApiInv, Shapes
  <2>11. heap' = UNION {{g} \cup codecs'[g].parts : g \in DOMAIN codecs'}
    <3>1. {{g} \cup codecs'[g].parts : g \in DOMAIN codecs'}
             = {{g} \cup codecs[g].parts : g \in DOMAIN codecs} \cup {{h} \cup (blocks \ {h})}
      BY <2>7, <2>9
    <3>2. {h} \cup (blocks \ {h}) = blocks
      BY <2>5
    <3>3. heap = UNION {{g} \cup codecs[g].parts : g \in DOMAIN codecs}
      BY DEF ApiInv, HeapExact
    <3> QED
      BY <2>1, <3>1, <3>2, <3>3
  <2>12. ASSUME NEW f \in DOMAIN codecs'
         PROVE  /\ Cardinality(codecs'[f].parts)
                      = Cardinality(Pieces(codecs'[f].id, codecs'[f].is_dec))
                /\ \A g \in DOMAIN codecs' \ {f} :
                      ({f} \cup codecs'[f].parts) \cap ({g} \cup codecs'[g].parts) = {}
    <3>1. CASE f = h
      <4>1. Cardinality(codecs'[f].parts) = Cardinality(Pieces(codecs'[f].id, codecs'[f].is_dec))
        BY <2>4, <2>6, <2>7, <2>9, <3>1
      <4>2. {f} \cup codecs'[f].parts = blocks
        BY <2>5, <2>7, <2>9, <3>1
      <4> QED
        BY <2>3, <2>8, <2>9, <3>1, <4>1, <4>2
    <3>2. CASE f # h
      <4>1. f \in DOMAIN codecs /\ codecs'[f] = codecs[f]
        BY <2>9, <3>2
      <4>2. /\ Cardinality(codecs[f].parts) = Cardinality(Pieces(codecs[f].id, codecs[f].is_dec))
            /\ \A g \in DOMAIN codecs \ {f} :
                  ({f} \cup codecs[f].parts) \cap ({g} \cup codecs[g].parts) = {}
        BY <4>1 DEF ApiInv, HeapExact
      <4>3. {h} \cup codecs'[h].parts = blocks
        BY <2>5, <2>7, <2>9
      <4>4. {f} \cup codecs'[f].parts \subseteq heap
        BY <2>8, <2>9, <4>1
      <4> QED
        BY <2>3, <2>9, <4>1, <4>2, <4>3, <4>4
    <3> QED
      BY <3>1, <3>2
  <2> QED
    <3>1. ApiInv'
      BY <2>10, <2>11, <2>12 DEF ApiInv, HeapExact
    <3>2. \A g \in DOMAIN codecs : g # h /\ told'[g] = told[g]
      BY <2>1, <2>8
    <3>3. told'[h] = kDefaultFrameSize
      BY <2>1
    <3> QED
      BY <2>7, <2>9, <3>1, <3>2, <3>3
<1> QED
  BY <1>2, <1>3

\* The blocks of one handle are those of no other.
LEMMA Apart ==
    ASSUME ApiInv, NEW h \in DOMAIN codecs, NEW g \in DOMAIN codecs, g # h
    PROVE  g \notin Freed(h, codecs[h].is_dec) /\ codecs[g].parts \cap Freed(h, codecs[h].is_dec) = {}
<1>1. ({h} \cup codecs[h].parts) \cap ({g} \cup codecs[g].parts) = {}
  BY DEF ApiInv, HeapExact
<1> QED
  BY <1>1 DEF Freed

LEMMA DestroyKeeps ==
    ASSUME ApiInv, NEW h \in DOMAIN codecs, NEW as_dec \in BOOLEAN, Destroy(h, as_dec)
    PROVE  /\ ApiInv'
           /\ \A g \in DOMAIN codecs : \/ g \in DOMAIN codecs'
                                       \/ g = h /\ codecs[h].is_dec = as_dec
           /\ \A g \in DOMAIN codecs' : g \in DOMAIN codecs /\ codecs'[g] = codecs[g]
                                        /\ told'[g] = told[g]
<1> DEFINE F == Freed(h, as_dec)
<1>1. /\ heap' = heap \ F /\ DOMAIN codecs' = DOMAIN codecs \ F
      /\ \A g \in DOMAIN codecs \ F : codecs'[g] = codecs[g]
      /\ DOMAIN told' = DOMAIN codecs'
      /\ \A g \in DOMAIN codecs' : told'[g] = told[g]
  BY DEF Destroy, Restrict
<1>2. CASE codecs[h].is_dec # as_dec
  <2>1. F = {}
    BY <1>2 DEF Freed
  <2>2. heap' = heap /\ DOMAIN codecs' = DOMAIN codecs
        /\ \A g \in DOMAIN codecs : codecs'[g] = codecs[g]
    BY <1>1, <2>1
  <2>3. HeapExact'
    <3>1. UNION {{g} \cup codecs'[g].parts : g \in DOMAIN codecs'}
             = UNION {{g} \cup codecs[g].parts : g \in DOMAIN codecs}
      BY <2>2
    <3> QED
      BY <2>2, <3>1 DEF ApiInv, HeapExact
  <2> QED
    BY <1>1, <2>2, <2>3 DEF ApiInv, Shapes
<1>3. CASE codecs[h].is_dec = as_dec
  <2>1. F = {h} \cup codecs[h].parts
    BY <1>3 DEF Freed
  <2>2. \A g \in DOMAIN codecs \ {h} : F \cap ({g} \cup codecs[g].parts) = {}
    BY <1>3, Apart
  <2>3. DOMAIN codecs' = DOMAIN codecs \ {h}
    BY <1>1, <2>1, <2>2
  <2> HIDE DEF F
  <2>4. \A g \in DOMAIN codecs' : g \in DOMAIN codecs /\ codecs'[g] = codecs[g]
    BY <1>1
  <2>5. heap' = UNION {{g} \cup codecs'[g].parts : g \in DOMAIN codecs'}
    <3>1. heap = UNION {{g} \cup codecs[g].parts : g \in DOMAIN codecs}
      BY DEF ApiInv, HeapExact
    <3>2. ASSUME NEW b \in heap' PROVE b \in UNION {{g} \cup codecs'[g].parts : g \in DOMAIN codecs'}
      <4>1. PICK g \in DOMAIN codecs : b \in {g} \cup codecs[g].parts
        BY <1>1, <3>1, <3>2
      <4>2. g # h
        BY <1>1, <2>1, <3>2, <4>1
      <4> QED
        BY <2>3, <2>4, <4>1, <4>2
    <3>3. ASSUME NEW g \in DOMAIN codecs' PROVE {g} \cup codecs'[g].parts \subseteq heap'
      <4>1. {g} \cup codecs[g].parts \subseteq heap
        BY <2>4, <3>1
      <4> QED
        BY <1>1, <2>2, <2>3, <2>4, <4>1
    <3> QED
      BY <3>2, <3>3
  <2>6. HeapExact'
    BY <2>3, <2>4, <2>5 DEF ApiInv, HeapExact
  <2>7. Shapes'
    BY <1>1, <2>3, <2>4 DEF ApiInv, Shapes
  <2> QED
    BY <1>1, <1>3, <2>3, <2>4, <2>6, <2>7 DEF ApiInv
<1> QED
  BY <1>2, <1>3

\* Setting an option reaches the encoder and nothing else.
LEMMA OptionSame ==
    ASSUME ApiInv, NEW h \in DOMAIN codecs, NEW option, NEW value,
           SetEncoderOption(h, option, value)
    PROVE  \E e : LET c == [codecs[h] EXCEPT !.enc = e]
                  IN  /\ SameHandle(c, codecs[h]) /\ c.dec = codecs[h].dec
                      /\ codecs' = [codecs EXCEPT ![h] = c]
                      /\ codecs[h].is_dec => c.enc = codecs[h].enc
<1> DEFINE r == IF codecs[h].is_dec \/ codecs[h].id # OPUS THEN [enc |-> codecs[h].enc, ret |-> -1]
                ELSE opus_encoder_ctl(codecs[h].enc, option, value)
           c == [codecs[h] EXCEPT !.enc = r.enc]
<1>1. codecs' = [codecs EXCEPT ![h] = c]
  BY DEF SetEncoderOption
<1>2. codecs[h].is_dec => r.enc = codecs[h].enc
  OBVIOUS
<1> HIDE DEF r
<1>3. IsCodec(codecs[h])
  BY DEF ApiInv, Shapes
<1>4. SameHandle(c, codecs[h]) /\ c.dec = codecs[h].dec /\ c.enc = r.enc
  BY <1>3 DEF SameHandle, IsCodec, CodecFields
<1> QED
  BY <1>1, <1>2, <1>4

\* The calls that leave the heap and the handles as they are.
LEMMA FrameKeeps ==
    ASSUME ApiInv, NEW h \in DOMAIN codecs, NEW call, NEW r,
           SameHandle(WithError(r), codecs[h]), Finish(call, h, r), DOMAIN told' = DOMAIN told
    PROVE  ApiInv'
BY CallKeeps DEF Finish

LEMMA ApiInvNext == ApiInv /\ [Next]_vars => ApiInv'
<1> SUFFICES ASSUME ApiInv, [Next]_vars PROVE ApiInv'
  OBVIOUS
<1>1. ASSUME NEW id \in CodecIds, NEW is_dec \in BOOLEAN, NEW ch \in ChannelCounts,
             Create(id, is_dec, ch)
      PROVE  ApiInv'
  BY <1>1, CreateKeeps
<1>2. ASSUME NEW h \in DOMAIN codecs, NEW as_dec \in BOOLEAN, Destroy(h, as_dec)
      PROVE  ApiInv'
  BY <1>2, DestroyKeeps
<1>3. ASSUME NEW h \in DOMAIN codecs, NEW p \in Frames, DecodeFrame(h, p)
      PROVE  ApiInv'
  BY <1>3, DecodeSame, FrameKeeps DEF DecodeFrame
<1>4. ASSUME NEW h \in DOMAIN codecs, NEW p \in Frames, DecodeFrameFec(h, p)
      PROVE  ApiInv'
  BY <1>4, FecSame, FrameKeeps DEF DecodeFrameFec
<1>5. ASSUME NEW h \in DOMAIN codecs, DecodeFramePlc(h)
      PROVE  ApiInv'
  BY <1>5, PlcSame, FrameKeeps DEF DecodeFramePlc
<1>6. ASSUME NEW h \in DOMAIN codecs, NEW n \in Raw, EncodeFrame(h, n)
      PROVE  ApiInv'
  BY <1>6, EncodeSame, FrameKeeps DEF EncodeFrame
<1>7. ASSUME NEW h \in DOMAIN codecs, NEW o \in Options, SetEncoderOption(h, o[1], o[2])
      PROVE  ApiInv'
  <2>1. UNCHANGED <<heap, told>>
    BY <1>7 DEF SetEncoderOption
  <2> QED
    BY <1>7, <2>1, OptionSame, CallKeeps
<1>8. CASE UNCHANGED vars
  BY <1>8 DEF vars, ApiInv, Shapes, HeapExact
<1> QED
  BY <1>1, <1>2, <1>3, <1>4, <1>5, <1>6, <1>7, <1>8 DEF Next

LEMMA ApiInvAlways == Spec => []ApiInv
  BY ApiInvInit, ApiInvNext, PTL DEF Spec

\* However many constructors are refused, wherever, and whatever is destroyed by
\* which function: the blocks allocated are those of the live handles, each of
\* one handle, and a handle has all of its kind.
THEOREM NothingLeaks == Spec => []HeapExact
<1>1. ApiInv => HeapExact
  BY DEF ApiInv
<1> QED
  BY ApiInvAlways, <1>1, PTL

\* Handles, and the error register in each, keep their types.
THEOREM ApiTypes == Spec => []TypeOK
<1>1. ApiInv => TypeOK
  BY DEF ApiInv, Shapes, HeapExact, IsCodec, TypeOK
<1> QED
  BY ApiInvAlways, <1>1, PTL

-----------------------------------------------------------------------------
(* What a call leaves of the handles it does not name.                       *)
LEMMA OthersUntouched ==
    ASSUME ApiInv, NEW h \in DOMAIN codecs, NEW c, SameHandle(c, codecs[h]),
           codecs' = [codecs EXCEPT ![h] = c], heap' = heap
    PROVE  /\ \A g \in DOMAIN codecs \ {h} : Untouched(g)
           /\ c.dec = codecs[h].dec /\ c.enc = codecs[h].enc => Untouched(h)
<1>1. \A g \in DOMAIN codecs : codecs[g].parts \subseteq heap
  BY DEF ApiInv, HeapExact
<1> QED
  BY <1>1 DEF Untouched, SameHandle

LEMMA WrongKindKept ==
    ASSUME ApiInv, NEW h \in DOMAIN codecs, NEW r
    PROVE  LET wrong == WithError(Result(codecs[h], -1))
           IN  /\ SameHandle(wrong, codecs[h])
               /\ wrong.dec = codecs[h].dec /\ wrong.enc = codecs[h].enc
               /\ ~codecs[h].is_dec => Decoding(h, r) = Result(codecs[h], -1)
<1>1. IsCodec(codecs[h])
  BY DEF ApiInv, Shapes
<1>2. SameHandle(WithError(Result(codecs[h], -1)), codecs[h])
  BY CountIs
<1> QED
  BY <1>1, <1>2 DEF WithError, Result, Decoding, IsCodec, CodecFields

Harmless == \A h \in DOMAIN codecs :
               \/ Untouched(h)
               \/ /\ last'.on = h
                  /\ codecs[h].is_dec = (last'.call \in DecoderCalls)

\* A frame call to a decoder.
LEMMA DecoderHarmless ==
    ASSUME ApiInv, NEW h \in DOMAIN codecs, NEW call \in {"decode", "fec", "plc"}, NEW r,
           SameHandle(WithError(Decoding(h, r)), codecs[h]), Finish(call, h, Decoding(h, r))
    PROVE  Harmless
<1>1. /\ codecs' = [codecs EXCEPT ![h] = WithError(Decoding(h, r))] /\ heap' = heap
      /\ last'.on = h /\ last'.call \in DecoderCalls
  BY DEF Finish, Said, DecoderCalls
<1>2. \A g \in DOMAIN codecs \ {h} : Untouched(g)
  BY <1>1, OthersUntouched
<1>3. CASE codecs[h].is_dec
  BY <1>1, <1>2, <1>3 DEF Harmless, ApiInv, Shapes, IsCodec
<1>4. CASE ~codecs[h].is_dec
  <2>1. Untouched(h)
    <3> DEFINE c == WithError(Result(codecs[h], -1))
    <3>1. SameHandle(c, codecs[h]) /\ c.dec = codecs[h].dec /\ c.enc = codecs[h].enc
          /\ Decoding(h, r) = Result(codecs[h], -1)
      BY <1>4, WrongKindKept
    <3>2. codecs' = [codecs EXCEPT ![h] = c] /\ heap' = heap
      BY <1>1, <3>1
    <3> HIDE DEF c
    <3> QED
      BY <3>1, <3>2, OthersUntouched
  <2> QED
    BY <1>2, <2>1 DEF Harmless
<1> QED
  BY <1>3, <1>4

LEMMA HarmlessNext == ApiInv /\ [Next]_vars => [Harmless]_vars
<1> SUFFICES ASSUME ApiInv, Next PROVE Harmless
  OBVIOUS
<1>1. ASSUME NEW id \in CodecIds, NEW is_dec \in BOOLEAN, NEW ch \in ChannelCounts,
             Create(id, is_dec, ch)
      PROVE  Harmless
  <2>1. ApiInv' /\ \A g \in DOMAIN codecs : g \in DOMAIN codecs' /\ codecs'[g] = codecs[g]
    BY <1>1, CreateKeeps
  <2>2. \A g \in DOMAIN codecs' : codecs'[g].parts \subseteq heap'
    BY <2>1 DEF ApiInv, HeapExact
  <2> QED
    BY <2>1, <2>2 DEF Harmless, Untouched
<1>2. ASSUME NEW h \in DOMAIN codecs, NEW as_dec \in BOOLEAN, Destroy(h, as_dec)
      PROVE  Harmless
  <2>1. /\ ApiInv'
        /\ \A g \in DOMAIN codecs : \/ g \in DOMAIN codecs'
                                    \/ g = h /\ codecs[h].is_dec = as_dec
        /\ \A g \in DOMAIN codecs' : g \in DOMAIN codecs /\ codecs'[g] = codecs[g]
                                     /\ told'[g] = told[g]
    BY <1>2, DestroyKeeps
  <2>2. \A g \in DOMAIN codecs' : codecs'[g].parts \subseteq heap'
    BY <2>1 DEF ApiInv, HeapExact
  <2>3. last'.on = h /\ (last'.call \in DecoderCalls) = as_dec
    BY <1>2 DEF Destroy, Said, DecoderCalls
  <2> QED
    BY <2>1, <2>2, <2>3 DEF Harmless, Untouched
<1>3. ASSUME NEW h \in DOMAIN codecs, NEW p \in Frames, DecodeFrame(h, p)
      PROVE  Harmless
  BY <1>3, DecodeSame, DecoderHarmless DEF DecodeFrame
<1>4. ASSUME NEW h \in DOMAIN codecs, NEW p \in Frames, DecodeFrameFec(h, p)
      PROVE  Harmless
  BY <1>4, FecSame, DecoderHarmless DEF DecodeFrameFec
<1>5. ASSUME NEW h \in DOMAIN codecs, DecodeFramePlc(h)
      PROVE  Harmless
  BY <1>5, PlcSame, DecoderHarmless DEF DecodeFramePlc
<1>6. ASSUME NEW h \in DOMAIN codecs, NEW n \in Raw, EncodeFrame(h, n)
      PROVE  Harmless
  <2> DEFINE c == WithError(Encoding(h, encode_audio_frame(codecs[h], n)))
  <2>1. SameHandle(c, codecs[h]) /\ c.dec = codecs[h].dec /\ c.enc = codecs[h].enc
    BY EncodeSame
  <2>2. codecs' = [codecs EXCEPT ![h] = c] /\ heap' = heap
    BY <1>6 DEF EncodeFrame, Finish
  <2> HIDE DEF c
  <2> QED
    BY <2>1, <2>2, OthersUntouched DEF Harmless
<1>7. ASSUME NEW h \in DOMAIN codecs, NEW o \in Options, SetEncoderOption(h, o[1], o[2])
      PROVE  Harmless
  <2>1. heap' = heap /\ last'.on = h /\ last'.call = o[1]
    BY <1>7 DEF SetEncoderOption, Said
  <2>2. last'.call \notin DecoderCalls
    BY <2>1, OptionsAssumption DEF DecoderCalls
  <2>3. (\A g \in DOMAIN codecs \ {h} : Untouched(g)) /\ (codecs[h].is_dec => Untouched(h))
    <3>1. PICK e : LET c == [codecs[h] EXCEPT !.enc = e]
                   IN  /\ SameHandle(c, codecs[h]) /\ c.dec = codecs[h].dec
                       /\ codecs' = [codecs EXCEPT ![h] = c]
                       /\ codecs[h].is_dec => c.enc = codecs[h].enc
      BY <1>7, OptionSame
    <3> DEFINE c == [codecs[h] EXCEPT !.enc = e]
    <3>2. /\ SameHandle(c, codecs[h]) /\ c.dec = codecs[h].dec /\ codecs' = [codecs EXCEPT ![h] = c]
          /\ codecs[h].is_dec => c.enc = codecs[h].enc
      BY <3>1
    <3> HIDE DEF c
    <3> QED
      BY <2>1, <3>2, OthersUntouched
  <2>4. codecs[h].is_dec \in BOOLEAN
    BY DEF ApiInv, Shapes, IsCodec
  <2> QED
    BY <2>1, <2>2, <2>3, <2>4 DEF Harmless
<1> QED
  BY <1>1, <1>2, <1>3, <1>4, <1>5, <1>6, <1>7 DEF Next

\* A function of the other kind, or a call that names another handle, leaves a
\* handle its native state and its blocks.
THEOREM HandlesApart == Spec => WrongKindHarmless
<1>1. Harmless <=> \A h \in DOMAIN codecs :
                      \/ Untouched(h)
                      \/ /\ last'.on = h
                         /\ codecs[h].is_dec = (last'.call \in DecoderCalls)
  BY DEF Harmless
<1> QED
  BY ApiInvAlways, HarmlessNext, <1>1, PTL DEF Spec, WrongKindHarmless

-----------------------------------------------------------------------------
\* A call that decodes no packet keeps the length to conceal with.
LEMMA PrevKept ==
    ASSUME ApiInv, PlcFollowsOwnPackets, NEW h \in DOMAIN codecs, NEW c,
           SameHandle(c, codecs[h]), codecs' = [codecs EXCEPT ![h] = c],
           \A g \in DOMAIN codecs \ {h} : told'[g] = told[g],
           codecs[h].is_dec /\ codecs[h].id = OPUS => c.dec.prev_decoded_samples = told'[h]
    PROVE  PlcFollowsOwnPackets'
BY DEF PlcFollowsOwnPackets, SameHandle

\* An Opus decoder's calls are the wrapper's.
LEMMA OpusDecoded ==
    ASSUME NEW h \in DOMAIN codecs, IsCodec(codecs[h]), codecs[h].is_dec, codecs[h].id = OPUS
    PROVE  /\ \A p : LET r == Decoding(h, decode_audio_frame(codecs[h], p))
                         o == Decode(codecs[h].dec, p)
                     IN  WithError(r).dec = o.dec /\ r.ret = o.ret
           /\ \A p : WithError(Decoding(h, decode_audio_fec(codecs[h], p))).dec
                        = DecodeFec(codecs[h].dec, p).dec
           /\ WithError(Decoding(h, decode_audio_plc(codecs[h]))).dec
                 = DecodePlc(codecs[h].dec, 1).dec
BY DEF Decoding, decode_audio_frame, decode_audio_fec, decode_audio_plc, FromOpus, Result,
       WithError, IsCodec, CodecFields, OPUS, PCMA, PCMU, G722

\* However calls on several handles are mixed, and whichever of them fail, the
\* concealment of a decoder asks for the length of the last packet it decoded;
\* as long as no payload is empty.
THEOREM OwnPackets ==
    ASSUME NoPacket \notin Frames
    PROVE  Spec => []PlcFollowsOwnPackets
<1>1. Init => PlcFollowsOwnPackets
  BY DEF Init, PlcFollowsOwnPackets
<1>2. ASSUME ApiInv, PlcFollowsOwnPackets, [Next]_vars PROVE PlcFollowsOwnPackets'
  <2> USE <1>2
  <2>0. ASSUME NEW h \in DOMAIN codecs PROVE IsCodec(codecs[h])
    BY DEF ApiInv, Shapes
  <2>1. ASSUME NEW id \in CodecIds, NEW is_dec \in BOOLEAN, NEW ch \in ChannelCounts,
               Create(id, is_dec, ch)
        PROVE  PlcFollowsOwnPackets'
    BY <2>1, CreateKeeps DEF PlcFollowsOwnPackets
  <2>2. ASSUME NEW h \in DOMAIN codecs, NEW as_dec \in BOOLEAN, Destroy(h, as_dec)
        PROVE  PlcFollowsOwnPackets'
    BY <2>2, DestroyKeeps DEF PlcFollowsOwnPackets
  <2>3. ASSUME NEW h \in DOMAIN codecs, NEW p \in Frames, DecodeFrame(h, p)
        PROVE  PlcFollowsOwnPackets'
    <3> DEFINE o == Decode(codecs[h].dec, p)
               r == Decoding(h, decode_audio_frame(codecs[h], p))
    <3>1. p \in Packet /\ p # NoPacket
      BY FramesAssumption
    <3>2. codecs' = [codecs EXCEPT ![h] = WithError(r)]
          /\ told' = [told EXCEPT ![h] = IF r.ret > 0 THEN p.samples * p.frames ELSE @]
      BY <2>3, <3>1 DEF DecodeFrame, Finish
    <3>3. SameHandle(WithError(r), codecs[h])
      BY DecodeSame
    <3> DEFINE c == WithError(r)
    <3>6. \A g \in DOMAIN codecs \ {h} : told'[g] = told[g]
      BY <3>2 DEF ApiInv, Shapes
    <3>4. CASE codecs[h].is_dec /\ codecs[h].id = OPUS
      <4>1. WithError(r).dec = o.dec /\ r.ret = o.ret
        BY <2>0, <3>4, OpusDecoded
      <4>2. o.dec.prev_decoded_samples = IF o.ret > 0 THEN p.samples * p.frames
                                         ELSE codecs[h].dec.prev_decoded_samples
        BY <2>0, <3>1, DecodeIs DEF IsCodec
      <4>3. told'[h] = IF r.ret > 0 THEN p.samples * p.frames ELSE told[h]
        BY <3>2 DEF ApiInv, Shapes
      <4>4. codecs[h].dec.prev_decoded_samples = told[h]
        BY <3>4 DEF PlcFollowsOwnPackets
      <4>5. c.dec.prev_decoded_samples = told'[h]
        BY <4>1, <4>2, <4>3, <4>4
      <4>6. codecs' = [codecs EXCEPT ![h] = c] /\ SameHandle(c, codecs[h])
        BY <3>2, <3>3
      <4> HIDE DEF r, c
      <4> QED
        BY <3>6, <4>5, <4>6, PrevKept
    <3>5. CASE ~(codecs[h].is_dec /\ codecs[h].id = OPUS)
      <4>1. codecs' = [codecs EXCEPT ![h] = c] /\ SameHandle(c, codecs[h])
        BY <3>2, <3>3
      <4> HIDE DEF r, c
      <4> QED
        BY <3>5, <3>6, <4>1, PrevKept
    <3> QED
      BY <3>4, <3>5
  <2>4. ASSUME NEW h \in DOMAIN codecs, NEW p \in Frames, DecodeFrameFec(h, p)
        PROVE  PlcFollowsOwnPackets'
    <3> DEFINE r == Decoding(h, decode_audio_fec(codecs[h], p))
    <3>1. codecs' = [codecs EXCEPT ![h] = WithError(r)] /\ told' = told
      BY <2>4 DEF DecodeFrameFec, Finish
    <3>2. SameHandle(WithError(r), codecs[h])
      BY FecSame
    <3>3. codecs[h].is_dec /\ codecs[h].id = OPUS =>
              WithError(r).dec.prev_decoded_samples = codecs[h].dec.prev_decoded_samples
      <4>1. DecodeFec(codecs[h].dec, p).dec.prev_decoded_samples
               = codecs[h].dec.prev_decoded_samples
        BY <2>0, DecodeFecIs, FramesAre DEF IsCodec
      <4> QED
        BY <2>0, <4>1, OpusDecoded
    <3> HIDE DEF r
    <3> QED
      BY <3>1, <3>2, <3>3, PrevKept DEF PlcFollowsOwnPackets
  <2>5. ASSUME NEW h \in DOMAIN codecs, DecodeFramePlc(h)
        PROVE  PlcFollowsOwnPackets'
    <3> DEFINE r == Decoding(h, decode_audio_plc(codecs[h]))
    <3>1. codecs' = [codecs EXCEPT ![h] = WithError(r)] /\ told' = told
      BY <2>5 DEF DecodeFramePlc, Finish
    <3>2. SameHandle(WithError(r), codecs[h])
      BY PlcSame
    <3>3. codecs[h].is_dec /\ codecs[h].id = OPUS =>
              WithError(r).dec.prev_decoded_samples = codecs[h].dec.prev_decoded_samples
      <4>1. DecodePlc(codecs[h].dec, 1).dec.prev_decoded_samples
               = codecs[h].dec.prev_decoded_samples
        BY <2>0, DecodePlcIs DEF IsCodec
      <4> QED
        BY <2>0, <4>1, OpusDecoded
    <3> HIDE DEF r
    <3> QED
      BY <3>1, <3>2, <3>3, PrevKept DEF PlcFollowsOwnPackets
  <2>6. ASSUME NEW h \in DOMAIN codecs, NEW n \in Raw, EncodeFrame(h, n)
        PROVE  PlcFollowsOwnPackets'
    <3>1. told' = told
      BY <2>6 DEF EncodeFrame
    <3> DEFINE c == WithError(Encoding(h, encode_audio_frame(codecs[h], n)))
    <3>2. SameHandle(c, codecs[h]) /\ c.dec = codecs[h].dec
      BY EncodeSame
    <3>3. codecs' = [codecs EXCEPT ![h] = c]
      BY <2>6 DEF EncodeFrame, Finish
    <3> HIDE DEF c
    <3>4. codecs[h].is_dec /\ codecs[h].id = OPUS => c.dec.prev_decoded_samples = told'[h]
      BY <3>1, <3>2 DEF PlcFollowsOwnPackets
    <3> QED
      BY <3>1, <3>2, <3>3, <3>4, PrevKept
  <2>7. ASSUME NEW h \in DOMAIN codecs, NEW o \in Options, SetEncoderOption(h, o[1], o[2])
        PROVE  PlcFollowsOwnPackets'
    <3>1. told' = told
      BY <2>7 DEF SetEncoderOption
    <3>2. PICK e : LET c == [codecs[h] EXCEPT !.enc = e]
                   IN  /\ SameHandle(c, codecs[h]) /\ c.dec = codecs[h].dec
                       /\ codecs' = [codecs EXCEPT ![h] = c]
      BY <2>7, OptionSame
    <3> DEFINE c == [codecs[h] EXCEPT !.enc = e]
    <3>3. SameHandle(c, codecs[h]) /\ c.dec = codecs[h].dec /\ codecs' = [codecs EXCEPT ![h] = c]
      BY <3>2
    <3> HIDE DEF c
    <3>4. codecs[h].is_dec /\ codecs[h].id = OPUS => c.dec.prev_decoded_samples = told'[h]
      BY <3>1, <3>3 DEF PlcFollowsOwnPackets
    <3> QED
      BY <3>1, <3>3, <3>4, PrevKept
  <2>8. CASE UNCHANGED vars
    BY <2>8 DEF vars, PlcFollowsOwnPackets
  <2> QED
    BY <2>1, <2>2, <2>3, <2>4, <2>5, <2>6, <2>7, <2>8 DEF Next
<1> QED
  BY ApiInvAlways, <1>1, <1>2, PTL DEF Spec
=============================================================================
