------------------------- MODULE OpusStream_proofs -------------------------
(***************************************************************************)
(* Theorems about OpusStream, for all clients, payloads, numbers of lost   *)
(* frames and stream lengths.                                              *)
(***************************************************************************)
EXTENDS OpusStream, TLAPS

\* What libopus may be asked to conceal: a multiple of 2.5 ms, up to 120 ms.
Stretch == {n \in 120 .. kMaxFrameSizePerChannel : n % 120 = 0}

Memories == [from : Sides \cup {"none"}, at : Nat]
Instances == [channels : 1..2, prev_decoded_samples : Stretch,
              clock : [Sides -> Nat], filter : [Sides -> Memories]]
Calls == [call : Names \cup {Nothing}, lost : Int, ret : Int, written : Nat]

\* Follows, of any instance.
Seam(d, side, s) ==
    d.filter[side] = IF d.clock[s] = 0 THEN Cleared ELSE [from |-> s, at |-> d.clock[s]]
\* Seamless, of any client and instance.
Seams(c, d) ==
    /\ Seam(d, "left", "left")
    /\ d.channels = 2 /\ {"Decode", "DecodeSlave"} \cap c.calls = {} => Seam(d, "right", "left")
    /\ "DecodeSlave" \in c.calls => Seam(d, "right", "right")

TypeInv == client \in Clients /\ dec \in Instances /\ last \in Calls /\ dec.channels = client.channels

\* Concealment asks for the length of the packet decoded last.
Remembered == frame = dec.prev_decoded_samples

\* The slave call that is owed would do to the other channel what its master did.
OwedTrue ==
    Splits =>
        \/ owed = NoDebt
        \/ /\ owed.master = "Decode" /\ owed.packet \in Payloads
           /\ owed.ret = Decode(dec, owed.packet).ret
        \/ /\ owed.master = "DecodePlcMaster" /\ owed.lost \in 1..MaxLost
           /\ owed.ret = DecodePlcMaster(dec, owed.lost).ret

StreamInv ==
    /\ TypeInv /\ Remembered /\ Seams(client, dec)
    /\ OwedTrue /\ PairedOutputs /\ OutputLength

-----------------------------------------------------------------------------
LEMMA StretchFacts ==
    ASSUME NEW n \in Stretch
    PROVE  /\ n \in Nat /\ n >= 120 /\ n <= kMaxFrameSizePerChannel /\ n % 120 = 0
           /\ n \in Int /\ ~(n <= 0) /\ ~(n < 0) /\ n >= 3
<1>1. n \in 120 .. 48 * 120 /\ n % 120 = 0
  BY DEF Stretch, kMaxFrameSizePerChannel
<1> QED
  BY <1>1 DEF kMaxFrameSizePerChannel

\* What libopus returns.
LEMMA PacketStretch ==
    ASSUME NEW p \in Packet
    PROVE  /\ p # NoPacket /\ p.samples \in Stretch
           /\ Parses(p) => p.samples * p.frames \in Stretch
<1>1. p.samples \in {120, 480, 960, 1920, 2880} /\ p.frames \in 1..6
  BY DEF Packet
<1>2. p.samples * p.frames >= 120 /\ p.samples * p.frames \in Nat
      /\ (p.samples * p.frames) % 120 = 0
  <2>1. CASE p.samples = 120
    BY <1>1, <2>1
  <2>2. CASE p.samples = 480
    BY <1>1, <2>2
  <2>3. CASE p.samples = 960
    BY <1>1, <2>3
  <2>4. CASE p.samples = 1920
    BY <1>1, <2>4
  <2>5. CASE p.samples = 2880
    BY <1>1, <2>5
  <2> QED
    BY <1>1, <2>1, <2>2, <2>3, <2>4, <2>5
<1>3. p.samples \in Stretch /\ p # NoPacket
  BY <1>1 DEF Stretch, kMaxFrameSizePerChannel, NoPacket
<1> QED
  BY <1>2, <1>3 DEF Parses, Stretch, kMaxFrameSizePerChannel

LEMMA Decodes ==
    ASSUME NEW p \in Packet
    PROVE  LET n == opus_decode(p, kMaxFrameSizePerChannel, FALSE)
           IN  \/ n \in Int /\ n < 0
               \/ n \in Stretch /\ n = p.samples * p.frames
BY PacketStretch DEF opus_decode, OPUS_INVALID_PACKET, kMaxFrameSizePerChannel

LEMMA Recovers ==
    ASSUME NEW p \in Packet
    PROVE  LET n == opus_decode(p, p.samples, TRUE)
           IN  n \in Stretch \/ (n \in Int /\ n < 0)
<1>1. p.samples \in Stretch /\ p # NoPacket
  BY PacketStretch
<1>2. ~(p.samples <= 0)
  BY <1>1, StretchFacts
<1>3. opus_decode(p, p.samples, TRUE) = IF ~Parses(p) THEN OPUS_INVALID_PACKET ELSE p.samples
  BY <1>1, <1>2 DEF opus_decode
<1>4. OPUS_INVALID_PACKET \in Int /\ OPUS_INVALID_PACKET < 0
  BY DEF OPUS_INVALID_PACKET
<1> QED
  BY <1>1, <1>3, <1>4

LEMMA Conceals ==
    ASSUME NEW d \in Instances, NEW lost \in 1..MaxLost
    PROVE  LET n == PlcSamples(d, lost)
               wanted == lost * d.prev_decoded_samples
           IN  /\ n \in Stretch /\ opus_decode(NoPacket, n, FALSE) = n
               /\ n = IF wanted <= kMaxFrameSizePerChannel THEN wanted
                      ELSE kMaxFrameSizePerChannel
<1> DEFINE prev == d.prev_decoded_samples
           wanted == lost * prev
           n == PlcSamples(d, lost)
<1>1. lost \in Nat /\ lost >= 1 /\ prev \in Nat /\ prev >= 120 /\ prev % 120 = 0
  <2>1. prev \in Stretch
    BY DEF Instances
  <2>2. lost \in Nat /\ lost >= 1
    BY BoundsAssumption
  <2> HIDE DEF prev
  <2> QED
    BY <2>1, <2>2, StretchFacts
<1>2. PICK k \in Nat : prev = 120 * k /\ k >= 1
  <2> HIDE DEF prev
  <2>1. prev \div 120 \in Nat /\ prev = 120 * (prev \div 120) /\ prev \div 120 >= 1
    BY <1>1
  <2> QED
    BY <2>1
<1>3. wanted \in Nat /\ wanted >= 120 /\ wanted % 120 = 0
  <2>1. lost * k \in Nat /\ lost * k >= 1 /\ wanted = 120 * (lost * k)
    BY <1>1, <1>2
  <2> QED
    BY <2>1
<1>4. n = IF wanted <= kMaxFrameSizePerChannel THEN wanted ELSE kMaxFrameSizePerChannel
  BY DEF PlcSamples
<1>5. n \in Stretch
  BY <1>3, <1>4 DEF Stretch, kMaxFrameSizePerChannel
<1>6. opus_decode(NoPacket, n, FALSE) = n
  <2> HIDE DEF n
  <2>1. ~(n <= 0) /\ n % 120 = 0
    BY <1>5 DEF Stretch, kMaxFrameSizePerChannel
  <2> QED
    BY <2>1 DEF opus_decode
<1> QED
  BY <1>4, <1>5, <1>6

\* The resampled length: some samples, and no more than 120 ms.
LEMMA Shrinks ==
    ASSUME NEW n \in Stretch
    PROVE  Resampled48to32(n) \in 1 .. 32 * 120
BY DEF Stretch, Resampled48to32, kMaxFrameSizePerChannel

-----------------------------------------------------------------------------
\* One more stretch of decoder s, filtered by `through`.
LEMMA Advances ==
    ASSUME NEW d \in Instances, NEW s \in Sides, NEW through \in SUBSET Sides
    PROVE  LET a == Advance(d, s, through)
           IN  /\ a \in Instances /\ a.channels = d.channels
               /\ a.prev_decoded_samples = d.prev_decoded_samples
               /\ \A c \in through : Seam(a, c, s)
               /\ \A c \in Sides \ through, t \in Sides \ {s} : Seam(d, c, t) => Seam(a, c, t)
<1> DEFINE clock == [d.clock EXCEPT ![s] = @ + 1]
           filter == [c \in Sides |-> IF c \in through THEN [from |-> s, at |-> d.clock[s] + 1]
                                      ELSE d.filter[c]]
           a == Advance(d, s, through)
<1>1. a = [d EXCEPT !.clock = clock, !.filter = filter]
  BY DEF Advance, Instances
<1>2. d.clock \in [Sides -> Nat] /\ d.filter \in [Sides -> Memories] /\ d.clock[s] \in Nat
  BY DEF Instances
<1>3. clock \in [Sides -> Nat] /\ clock[s] = d.clock[s] + 1
      /\ \A t \in Sides \ {s} : clock[t] = d.clock[t]
  BY <1>2
<1>4. [from |-> s, at |-> d.clock[s] + 1] \in Memories
  BY <1>2 DEF Memories
<1>5. filter \in [Sides -> Memories]
  BY <1>2, <1>4
<1>6. /\ \A c \in through : filter[c] = [from |-> s, at |-> clock[s]]
      /\ \A c \in Sides \ through : filter[c] = d.filter[c]
  BY <1>3
<1> HIDE DEF clock, filter
<1>7. a \in Instances /\ a.channels = d.channels /\ a.clock = clock /\ a.filter = filter
      /\ a.prev_decoded_samples = d.prev_decoded_samples
  BY <1>1, <1>3, <1>5 DEF Instances
<1> HIDE DEF a
<1>8. clock[s] # 0
  BY <1>2, <1>3
<1> QED
  BY <1>3, <1>6, <1>7, <1>8 DEF Seam, a

\* What is remembered to conceal with touches no filter.
LEMMA Remembers ==
    ASSUME NEW d \in Instances, NEW n \in Stretch
    PROVE  LET a == Remember(d, n)
           IN  /\ a \in Instances /\ a.channels = d.channels /\ a.prev_decoded_samples = n
               /\ a.clock = d.clock /\ a.filter = d.filter
BY DEF Remember, Instances

LEMMA SidesAre == "left" \in Sides /\ "right" \in Sides /\ "left" # "right"
                  /\ Sides = {"left", "right"}
BY DEF Sides

\* One call for both channels, by a client that does not split them.
LEMMA BothSeams ==
    ASSUME NEW c, NEW d \in Instances, "DecodeSlave" \notin c.calls
    PROVE  Seams(c, Advance(d, "left", BothSides(d)))
<1> DEFINE a == Advance(d, "left", BothSides(d))
<1>1. BothSides(d) \in SUBSET Sides /\ "left" \in BothSides(d)
      /\ (d.channels = 2 => "right" \in BothSides(d))
  BY SidesAre DEF BothSides
<1>2. a.channels = d.channels /\ \A s \in BothSides(d) : Seam(a, s, "left")
  BY <1>1, SidesAre, Advances
<1> QED
  BY <1>1, <1>2 DEF Seams

\* One call for the left channel, by a client that has only it, splits them, or
\* leaves the other behind.
LEMMA LeftSeams ==
    ASSUME NEW c, NEW d \in Instances, Seams(c, d),
           d.channels = 1 \/ {"Decode", "DecodeSlave"} \cap c.calls # {}
    PROVE  Seams(c, Advance(d, "left", {"left"}))
<1> DEFINE a == Advance(d, "left", {"left"})
<1>1. a.channels = d.channels /\ Seam(a, "left", "left")
      /\ (Seam(d, "right", "right") => Seam(a, "right", "right"))
  BY SidesAre, Advances
<1> QED
  BY <1>1 DEF Seams

\* One call for the right channel, by a client that splits them.
LEMMA RightSeams ==
    ASSUME NEW c, NEW d \in Instances, Seams(c, d), "DecodeSlave" \in c.calls
    PROVE  Seams(c, Advance(d, "right", {"right"}))
<1> DEFINE a == Advance(d, "right", {"right"})
<1>1. a.channels = d.channels /\ Seam(a, "right", "right")
      /\ (Seam(d, "left", "left") => Seam(a, "left", "left"))
  BY SidesAre, Advances
<1> QED
  BY <1>1 DEF Seams

\* A reset starts decoder s over and clears some filters.
Restarted(d, s, cleared) ==
    [d EXCEPT !.clock = [@ EXCEPT ![s] = 0],
              !.filter = [t \in Sides |-> IF t \in cleared THEN Cleared ELSE @[t]]]

LEMMA Restarts ==
    ASSUME NEW d \in Instances, NEW s \in Sides, NEW cleared \in SUBSET Sides
    PROVE  LET i == Restarted(d, s, cleared)
           IN  /\ i \in Instances /\ i.channels = d.channels
               /\ i.prev_decoded_samples = d.prev_decoded_samples
               /\ i.clock[s] = 0 /\ \A t \in Sides \ {s} : i.clock[t] = d.clock[t]
               /\ \A t \in cleared : i.filter[t] = Cleared
               /\ \A t \in Sides \ cleared : i.filter[t] = d.filter[t]
<1> DEFINE clock == [d.clock EXCEPT ![s] = 0]
           filter == [t \in Sides |-> IF t \in cleared THEN Cleared ELSE d.filter[t]]
           i == Restarted(d, s, cleared)
<1>1. Cleared \in Memories
  BY DEF Cleared, Memories
<1>2. d.clock \in [Sides -> Nat] /\ d.filter \in [Sides -> Memories]
  BY DEF Instances
<1>3. clock \in [Sides -> Nat] /\ clock[s] = 0 /\ \A t \in Sides \ {s} : clock[t] = d.clock[t]
  BY <1>2
<1>4. filter \in [Sides -> Memories]
  BY <1>1, <1>2
<1>5. /\ \A t \in cleared : filter[t] = Cleared
      /\ \A t \in Sides \ cleared : filter[t] = d.filter[t]
  OBVIOUS
<1>6. i = [d EXCEPT !.clock = clock, !.filter = filter]
  BY DEF Instances, Restarted
<1> HIDE DEF clock, filter
<1>7. i \in Instances /\ i.channels = d.channels /\ i.clock = clock /\ i.filter = filter
      /\ i.prev_decoded_samples = d.prev_decoded_samples
  BY <1>3, <1>4, <1>6 DEF Instances
<1> QED
  BY <1>3, <1>5, <1>7

LEMMA ResetsAre ==
    ASSUME NEW d \in Instances
    PROVE  /\ DecoderInitNew(d) = Restarted(d, "left", Sides)
           /\ DecoderInit(d) = Restarted(d, "left", {"left"})
           /\ DecoderInitSlave(d) = Restarted(d, "right", {"right"})
<1>1. d.filter \in [Sides -> Memories] /\ d.clock \in [Sides -> Nat]
  BY DEF Instances
<1>2. ASSUME NEW s \in Sides
      PROVE  [d.filter EXCEPT ![s] = Cleared] =
               [t \in Sides |-> IF t \in {s} THEN Cleared ELSE d.filter[t]]
  BY <1>1
<1> QED
  BY <1>1, <1>2, SidesAre
     DEF DecoderInitNew, DecoderInit, DecoderInitSlave, Restarted, Instances

\* Each reset clears the filters that its decoder feeds.
LEMMA ResetSeams ==
    ASSUME NEW c, NEW d \in Instances, Seams(c, d)
    PROVE  /\ "DecodeSlave" \notin c.calls => Seams(c, DecoderInitNew(d))
           /\ d.channels = 1 \/ "DecodeSlave" \in c.calls => Seams(c, DecoderInit(d))
           /\ "DecodeSlave" \in c.calls => Seams(c, DecoderInitSlave(d))
<1>1. "DecodeSlave" \notin c.calls => Seams(c, DecoderInitNew(d))
  BY SidesAre, ResetsAre, Restarts DEF Seams, Seam
<1>2. d.channels = 1 \/ "DecodeSlave" \in c.calls => Seams(c, DecoderInit(d))
  <2> DEFINE i == Restarted(d, "left", {"left"})
  <2>1. /\ i.channels = d.channels /\ i.clock["left"] = 0 /\ i.filter["left"] = Cleared
        /\ i.clock["right"] = d.clock["right"] /\ i.filter["right"] = d.filter["right"]
    BY SidesAre, Restarts
  <2> QED
    BY <2>1, SidesAre, ResetsAre DEF Seams, Seam
<1>3. "DecodeSlave" \in c.calls => Seams(c, DecoderInitSlave(d))
  <2> DEFINE i == Restarted(d, "right", {"right"})
  <2>1. /\ i.channels = d.channels /\ i.clock["right"] = 0 /\ i.filter["right"] = Cleared
        /\ i.clock["left"] = d.clock["left"] /\ i.filter["left"] = d.filter["left"]
    BY SidesAre, Restarts
  <2> QED
    BY <2>1, SidesAre, ResetsAre DEF Seams, Seam
<1> QED
  BY <1>1, <1>2, <1>3

-----------------------------------------------------------------------------
\* An outcome of a call on instance d for client c: it has room, it leaves an
\* instance, and no click.
Fine(o, d, c) ==
    /\ o.ret \in Int /\ o.written \in Nat /\ o.written <= d.channels * 32 * 120
    /\ o.dec \in Instances /\ o.dec.channels = d.channels /\ Seams(c, o.dec)

LEMMA Failures ==
    ASSUME NEW c, NEW d \in Instances, Seams(c, d), NEW ret \in Int
    PROVE  Fine(Failed(d, ret), d, c)
<1>1. d.channels * 32 * 120 >= 0
  BY DEF Instances
<1> QED
  BY <1>1 DEF Fine, Failed, Outcome

\* Room for both channels of n samples.
LEMMA Rooms ==
    ASSUME NEW d \in Instances, NEW n \in Stretch
    PROVE  LET r == Resampled48to32(n)
           IN  /\ r \in Nat /\ r <= d.channels * 32 * 120 /\ r > 0
               /\ Interleaved(d, r) \in Nat /\ Interleaved(d, r) <= d.channels * 32 * 120
<1> DEFINE r == Resampled48to32(n)
<1>1. r \in 1 .. 32 * 120
  BY Shrinks
<1> HIDE DEF r
<1>2. d.channels \in 1..2
  BY DEF Instances
<1>3. Interleaved(d, r) \in {r, 2 * r} /\ (d.channels = 1 => Interleaved(d, r) = r)
  BY <1>2 DEF Interleaved
<1>4. /\ r \in Nat /\ r <= d.channels * 32 * 120 /\ r > 0
      /\ Interleaved(d, r) \in Nat /\ Interleaved(d, r) <= d.channels * 32 * 120
  <2>1. CASE d.channels = 1
    BY <1>1, <1>3, <2>1
  <2>2. CASE d.channels = 2
    BY <1>1, <1>3, <2>2
  <2> QED
    BY <1>2, <2>1, <2>2
<1> QED
  BY <1>4 DEF r

LEMMA DecodeNewFine ==
    ASSUME NEW c, NEW d \in Instances, Seams(c, d), "DecodeSlave" \notin c.calls, NEW p \in Packet
    PROVE  LET o == DecodeNew(d, p)
           IN  /\ Fine(o, d, c)
               /\ \/ o.ret > 0 /\ o.dec.prev_decoded_samples = p.samples * p.frames
                  \/ ~(o.ret > 0) /\ o.dec = d
<1> DEFINE n == opus_decode(p, kMaxFrameSizePerChannel, FALSE)
           r == Resampled48to32(n)
           a == Advance(d, "left", BothSides(d))
           o == DecodeNew(d, p)
<1>1. CASE n \in Int /\ n < 0
  <2>1. o = Failed(d, n)
    BY <1>1 DEF DecodeNew
  <2>2. Fine(o, d, c)
    BY <2>1, <1>1, Failures
  <2>3. o.ret = n /\ o.dec = d
    BY <2>1 DEF Failed, Outcome
  <2>4. ~(o.ret > 0)
    <3> HIDE DEF n, o
    <3> QED
      BY <2>3, <1>1
  <2> QED
    BY <2>2, <2>3, <2>4
<1>2. CASE n \in Stretch /\ n = p.samples * p.frames
  <2>1. o = Outcome(Remember(a, n), r, Interleaved(d, r))
    BY <1>2, StretchFacts DEF DecodeNew
  <2>2. a \in Instances /\ a.channels = d.channels /\ Seams(c, a)
    BY SidesAre, Advances, BothSeams DEF BothSides
  <2> HIDE DEF a, n
  <2>3. LET m == Remember(a, n)
        IN  /\ m \in Instances /\ m.channels = d.channels /\ Seams(c, m)
            /\ m.prev_decoded_samples = n
    BY <1>2, <2>2, Remembers DEF Seams, Seam
  <2> QED
    BY <1>2, <2>1, <2>3, Rooms DEF Fine, Outcome
<1> QED
  BY <1>1, <1>2, Decodes

LEMMA DecodeFine ==
    ASSUME NEW c, NEW d \in Instances, Seams(c, d),
           d.channels = 1 \/ {"Decode", "DecodeSlave"} \cap c.calls # {}, NEW p \in Packet
    PROVE  LET o == Decode(d, p)
           IN  /\ Fine(o, d, c)
               /\ \/ o.ret > 0 /\ o.dec.prev_decoded_samples = p.samples * p.frames
                  \/ ~(o.ret > 0) /\ o.dec = d
<1> DEFINE n == opus_decode(p, kMaxFrameSizePerChannel, FALSE)
           r == Resampled48to32(n)
           a == Advance(d, "left", {"left"})
           o == Decode(d, p)
<1>1. CASE n \in Int /\ n < 0
  <2>1. o = Failed(d, n)
    BY <1>1 DEF Decode
  <2>2. Fine(o, d, c)
    BY <2>1, <1>1, Failures
  <2>3. o.ret = n /\ o.dec = d
    BY <2>1 DEF Failed, Outcome
  <2>4. ~(o.ret > 0)
    <3> HIDE DEF n, o
    <3> QED
      BY <2>3, <1>1
  <2> QED
    BY <2>2, <2>3, <2>4
<1>2. CASE n \in Stretch /\ n = p.samples * p.frames
  <2>1. o = Outcome(Remember(a, n), r, r)
    BY <1>2, StretchFacts DEF Decode
  <2>2. a \in Instances /\ a.channels = d.channels /\ Seams(c, a)
    BY SidesAre, Advances, LeftSeams
  <2> HIDE DEF a, n
  <2>3. LET m == Remember(a, n)
        IN  /\ m \in Instances /\ m.channels = d.channels /\ Seams(c, m)
            /\ m.prev_decoded_samples = n
    BY <1>2, <2>2, Remembers DEF Seams, Seam
  <2> QED
    BY <1>2, <2>1, <2>3, Rooms DEF Fine, Outcome
<1> QED
  BY <1>1, <1>2, Decodes

\* The slave's decoding answers its master's.
LEMMA DecodeSlaveFine ==
    ASSUME NEW c, NEW d \in Instances, Seams(c, d), d.channels = 2, "DecodeSlave" \in c.calls,
           NEW p \in Packet
    PROVE  LET o == DecodeSlave(d, p)
               master == Decode(d, p).ret
           IN  /\ Fine(o, d, c) /\ o.dec.prev_decoded_samples = d.prev_decoded_samples
               /\ IF master > 0 THEN o.ret = master ELSE o.ret < 0
<1> DEFINE n == opus_decode(p, kMaxFrameSizePerChannel, FALSE)
           r == Resampled48to32(n)
           a == Advance(d, "right", {"right"})
           o == DecodeSlave(d, p)
<1>1. CASE n \in Int /\ n < 0
  <2>1. o = Failed(d, -1)
    BY <1>1 DEF DecodeSlave
  <2>2. Decode(d, p) = Failed(d, n)
    BY <1>1 DEF Decode
  <2>3. Fine(o, d, c)
    BY <2>1, Failures
  <2>4. o.ret = -1 /\ o.dec = d /\ Decode(d, p).ret = n
    BY <2>1, <2>2 DEF Failed, Outcome
  <2>5. ~(Decode(d, p).ret > 0) /\ o.ret < 0
    <3> HIDE DEF n, o
    <3> QED
      BY <2>4, <1>1
  <2> QED
    BY <2>3, <2>4, <2>5
<1>2. CASE n \in Stretch /\ n = p.samples * p.frames
  <2>1. o = Outcome(a, r, r) /\ Decode(d, p).ret = r
    BY <1>2, StretchFacts DEF DecodeSlave, Decode, Outcome
  <2>2. a \in Instances /\ a.channels = d.channels /\ Seams(c, a)
        /\ a.prev_decoded_samples = d.prev_decoded_samples
    BY SidesAre, Advances, RightSeams
  <2> HIDE DEF a, n
  <2> QED
    BY <1>2, <2>1, <2>2, Rooms DEF Fine, Outcome
<1> QED
  BY <1>1, <1>2, Decodes

\* Each concealment gives what was lost.
LEMMA DecodePlcFine ==
    ASSUME NEW c, NEW d \in Instances, Seams(c, d), "DecodeSlave" \notin c.calls,
           NEW lost \in 1..MaxLost
    PROVE  LET o == DecodePlc(d, lost)
           IN  /\ Fine(o, d, c) /\ o.dec.prev_decoded_samples = d.prev_decoded_samples
               /\ o.ret = Resampled48to32(PlcSamples(d, lost)) /\ o.ret > 0
<1> DEFINE n == PlcSamples(d, lost)
           r == Resampled48to32(n)
           a == Advance(d, "left", BothSides(d))
           o == DecodePlc(d, lost)
<1>1. n \in Stretch /\ opus_decode(NoPacket, n, FALSE) = n /\ ~(n < 0)
  BY Conceals, StretchFacts
<1>2. o = Outcome(a, r, Interleaved(d, r))
  BY <1>1 DEF DecodePlc
<1>3. /\ a \in Instances /\ a.channels = d.channels /\ Seams(c, a)
      /\ a.prev_decoded_samples = d.prev_decoded_samples
  BY SidesAre, Advances, BothSeams DEF BothSides
<1> HIDE DEF a, n
<1> QED
  BY <1>1, <1>2, <1>3, Rooms DEF Fine, Outcome, n

LEMMA DecodePlcMasterFine ==
    ASSUME NEW c, NEW d \in Instances, Seams(c, d), d.channels = 1 \/ "DecodeSlave" \in c.calls,
           NEW lost \in 1..MaxLost
    PROVE  LET o == DecodePlcMaster(d, lost)
           IN  /\ Fine(o, d, c) /\ o.dec.prev_decoded_samples = d.prev_decoded_samples
               /\ o.ret = Resampled48to32(PlcSamples(d, lost)) /\ o.ret > 0
<1> DEFINE n == PlcSamples(d, lost)
           r == Resampled48to32(n)
           a == Advance(d, "left", {"left"})
           o == DecodePlcMaster(d, lost)
<1>1. n \in Stretch /\ opus_decode(NoPacket, n, FALSE) = n /\ ~(n < 0)
  BY Conceals, StretchFacts
<1>2. o = Outcome(a, r, r)
  BY <1>1 DEF DecodePlcMaster
<1>3. /\ a \in Instances /\ a.channels = d.channels /\ Seams(c, a)
      /\ a.prev_decoded_samples = d.prev_decoded_samples
  BY SidesAre, Advances, LeftSeams
<1> HIDE DEF a, n
<1> QED
  BY <1>1, <1>2, <1>3, Rooms DEF Fine, Outcome, n

LEMMA DecodePlcSlaveFine ==
    ASSUME NEW c, NEW d \in Instances, Seams(c, d), d.channels = 2, "DecodeSlave" \in c.calls,
           NEW lost \in 1..MaxLost
    PROVE  LET o == DecodePlcSlave(d, lost)
           IN  /\ Fine(o, d, c) /\ o.dec.prev_decoded_samples = d.prev_decoded_samples
               /\ o.ret = Resampled48to32(PlcSamples(d, lost)) /\ o.ret > 0
<1> DEFINE n == PlcSamples(d, lost)
           r == Resampled48to32(n)
           a == Advance(d, "right", {"right"})
           o == DecodePlcSlave(d, lost)
<1>1. n \in Stretch /\ opus_decode(NoPacket, n, FALSE) = n /\ ~(n < 0)
  BY Conceals, StretchFacts
<1>2. o = Outcome(a, r, r)
  BY <1>1 DEF DecodePlcSlave
<1>3. /\ a \in Instances /\ a.channels = d.channels /\ Seams(c, a)
      /\ a.prev_decoded_samples = d.prev_decoded_samples
  BY SidesAre, Advances, RightSeams
<1> HIDE DEF a, n
<1> QED
  BY <1>1, <1>2, <1>3, Rooms DEF Fine, Outcome, n

LEMMA DecodeFecFine ==
    ASSUME NEW c, NEW d \in Instances, Seams(c, d), "DecodeSlave" \notin c.calls, NEW p \in Packet
    PROVE  LET o == DecodeFec(d, p)
           IN  Fine(o, d, c) /\ o.dec.prev_decoded_samples = d.prev_decoded_samples
<1> DEFINE n == opus_decode(p, p.samples, TRUE)
           r == Resampled48to32(n)
           a == Advance(d, "left", BothSides(d))
           o == DecodeFec(d, p)
<1>1. CASE PacketHasFec(p) /\ n \in Stretch
  <2>1. o = Outcome(a, r, Interleaved(d, r))
    BY <1>1, StretchFacts DEF DecodeFec
  <2>2. /\ a \in Instances /\ a.channels = d.channels /\ Seams(c, a)
        /\ a.prev_decoded_samples = d.prev_decoded_samples
    BY SidesAre, Advances, BothSeams DEF BothSides
  <2> HIDE DEF a, n
  <2> QED
    BY <1>1, <2>1, <2>2, Rooms DEF Fine, Outcome
<1>2. CASE ~PacketHasFec(p) \/ (n \in Int /\ n < 0)
  <2>1. o \in {Failed(d, 0), Failed(d, -1)}
    <3>1. n \in Int /\ n < 0 => n <= 0
      <4> HIDE DEF n
      <4> QED
        OBVIOUS
    <3>2. ~PacketHasFec(p) => o = Failed(d, 0)
      BY DEF DecodeFec
    <3>3. PacketHasFec(p) /\ n <= 0 => o = Failed(d, -1)
      BY DEF DecodeFec
    <3> QED
      BY <1>2, <3>1, <3>2, <3>3
  <2>2. Fine(o, d, c)
    BY <2>1, Failures
  <2>3. o.dec = d
    BY <2>1 DEF Failed, Outcome
  <2> QED
    BY <2>2, <2>3
<1> QED
  BY <1>1, <1>2, Recovers

-----------------------------------------------------------------------------
\* Who may call what.
LEMMA ClientsAre ==
    ASSUME TypeInv, NEW name \in client.calls
    PROVE  /\ name \in NetEqCalls => ~Splits
           /\ name \in {"DecodePlcMaster", "DecoderInit"} => dec.channels = 1 \/ Splits
           /\ name \in SlaveCalls => dec.channels = 2 /\ Splits
BY ClientsAssumption DEF TypeInv, Splits, NetEqCalls, CapiCalls, SplitCalls, SlaveCalls

\* What a master returns depends on the packet, or on the length remembered.
LEMMA MastersReturn ==
    ASSUME NEW d, NEW e, NEW p, NEW lost
    PROVE  /\ Decode(d, p).ret = Decode(e, p).ret
           /\ d.prev_decoded_samples = e.prev_decoded_samples =>
                 DecodePlcMaster(d, lost).ret = DecodePlcMaster(e, lost).ret
<1>1. Decode(d, p).ret = Decode(e, p).ret
  BY DEF Decode, Failed, Outcome
<1>2. d.prev_decoded_samples = e.prev_decoded_samples => PlcSamples(d, lost) = PlcSamples(e, lost)
  BY DEF PlcSamples
<1> QED
  BY <1>1, <1>2 DEF DecodePlcMaster, Failed, Outcome

\* What every call that returns a fine outcome keeps.
LEMMA Returned ==
    ASSUME TypeInv, NEW name \in Names, NEW lost \in Int, NEW o, Fine(o, dec, client),
           Returns(name, lost, o)
    PROVE  /\ TypeInv' /\ Seams(client, dec)' /\ OutputBounded'
           /\ dec' = o.dec /\ client' = client /\ name \in client.calls
           /\ last'.call = name /\ last'.lost = lost /\ last'.ret = o.ret
BY DEF TypeInv, Returns, Fine, OutputBounded, Calls

\* The length of a concealment.
LEMMA Concealed ==
    ASSUME NEW d \in Instances, NEW lost \in 1..MaxLost, NEW f, f = d.prev_decoded_samples
    PROVE  PlcSamples(d, lost) = IF lost * f <= kMaxFrameSizePerChannel THEN lost * f
                                 ELSE kMaxFrameSizePerChannel
BY Conceals

LEMMA StreamInvInit == Init => StreamInv
<1> SUFFICES ASSUME Init PROVE StreamInv
  OBVIOUS
<1>1. client.channels \in 1..2 /\ client \in Clients
  BY ClientsAssumption DEF Init
<1>2. /\ [s \in Sides |-> 0] \in [Sides -> Nat]
      /\ [s \in Sides |-> Cleared] \in [Sides -> Memories]
  BY DEF Cleared, Memories
<1>3. kDefaultFrameSize \in Stretch
  BY DEF kDefaultFrameSize, Stretch, kMaxFrameSizePerChannel
<1>4. dec \in Instances /\ dec.channels = client.channels
      /\ dec.prev_decoded_samples = kDefaultFrameSize
  BY <1>1, <1>2, <1>3 DEF Init, Created, Instances
<1>5. Seams(client, dec)
  BY SidesAre DEF Init, Created, Seams, Seam
<1>6. last = [call |-> Nothing, lost |-> 0, ret |-> 0, written |-> 0]
  BY DEF Init
<1>7. last \in Calls /\ last.call = Nothing /\ last.written = 0
  BY <1>6 DEF Calls
<1>8. PairedOutputs /\ PlcLength
  BY <1>7 DEF PairedOutputs, PlcLength, Nothing
<1>9. OutputBounded
  BY <1>1, <1>4, <1>7 DEF OutputBounded
<1> QED
  BY <1>1, <1>4, <1>5, <1>7, <1>8, <1>9
     DEF StreamInv, TypeInv, Remembered, OwedTrue, OutputLength, Init

\* What is left to show of a call once its outcome is fine.
LEMMA Kept ==
    ASSUME TypeInv', Seams(client, dec)', OutputBounded', Remembered', OwedTrue',
           PairedOutputs', PlcLength'
    PROVE  StreamInv'
BY DEF StreamInv, OutputLength

LEMMA NewKeeps ==
    ASSUME StreamInv, NEW p \in Payloads, CallDecodeNew(p)
    PROVE  StreamInv'
<1> DEFINE o == DecodeNew(dec, p)
<1>1. Returns("DecodeNew", 0, o) /\ Decoded(p, o) /\ UNCHANGED owed /\ TypeInv
  BY DEF CallDecodeNew, StreamInv
<1>2. "DecodeNew" \in client.calls /\ ~Splits /\ p \in Packet
  BY <1>1, ClientsAre, PayloadsAssumption DEF Returns, NetEqCalls
<1>3. /\ Fine(o, dec, client)
      /\ \/ o.ret > 0 /\ o.dec.prev_decoded_samples = p.samples * p.frames
         \/ ~(o.ret > 0) /\ o.dec = dec
  BY <1>2, DecodeNewFine DEF StreamInv, TypeInv, Splits
<1> HIDE DEF o
<1>4. /\ TypeInv' /\ Seams(client, dec)' /\ OutputBounded'
      /\ dec' = o.dec /\ client' = client /\ last'.call = "DecodeNew"
  BY <1>1, <1>3, Returned DEF Names
<1>5. Remembered'
  BY <1>1, <1>3, <1>4 DEF Decoded, Remembered, StreamInv
<1>6. OwedTrue' /\ PairedOutputs' /\ PlcLength'
  BY <1>2, <1>4 DEF OwedTrue, Splits, PairedOutputs, PlcLength
<1> QED
  BY <1>4, <1>5, <1>6, Kept

LEMMA DecodeKeeps ==
    ASSUME StreamInv, NEW p \in Payloads, CallDecode(p)
    PROVE  StreamInv'
<1> DEFINE o == Decode(dec, p)
<1>1. Returns("Decode", 0, o) /\ Decoded(p, o) /\ TypeInv
      /\ owed' = IF Splits THEN Debt("Decode", p, 0, last'.ret) ELSE NoDebt
  BY DEF CallDecode, StreamInv
<1>2. "Decode" \in client.calls /\ p \in Packet
  BY <1>1, PayloadsAssumption DEF Returns
<1>3. /\ Fine(o, dec, client)
      /\ \/ o.ret > 0 /\ o.dec.prev_decoded_samples = p.samples * p.frames
         \/ ~(o.ret > 0) /\ o.dec = dec
  BY <1>2, DecodeFine DEF StreamInv, TypeInv, Splits
<1>4. o.ret = Decode(dec', p).ret
  BY MastersReturn
<1> HIDE DEF o
<1>5. /\ TypeInv' /\ Seams(client, dec)' /\ OutputBounded'
      /\ dec' = o.dec /\ client' = client /\ last'.call = "Decode" /\ last'.ret = o.ret
  BY <1>1, <1>3, Returned DEF Names
<1>6. Remembered'
  BY <1>1, <1>3, <1>5 DEF Decoded, Remembered, StreamInv
<1>7. OwedTrue' /\ PairedOutputs' /\ PlcLength'
  BY <1>1, <1>4, <1>5 DEF OwedTrue, Splits, Debt, PairedOutputs, PlcLength
<1> QED
  BY <1>5, <1>6, <1>7, Kept

LEMMA SlaveKeeps ==
    ASSUME StreamInv, CallDecodeSlave
    PROVE  StreamInv'
<1> DEFINE p == owed.packet
           o == DecodeSlave(dec, p)
<1>1. Returns("DecodeSlave", owed.ret, o) /\ owed.master = "Decode" /\ owed' = NoDebt
      /\ UNCHANGED frame /\ TypeInv
  BY DEF CallDecodeSlave, StreamInv
<1>2. dec.channels = 2 /\ Splits
  BY <1>1, ClientsAre DEF Returns, SlaveCalls
<1>3. p \in Payloads /\ p \in Packet /\ owed.ret = Decode(dec, p).ret
  BY <1>1, <1>2, PayloadsAssumption DEF StreamInv, OwedTrue, NoDebt, Debt, Nothing
<1>4. /\ Fine(o, dec, client) /\ o.dec.prev_decoded_samples = dec.prev_decoded_samples
      /\ IF owed.ret > 0 THEN o.ret = owed.ret ELSE o.ret < 0
  BY <1>2, <1>3, DecodeSlaveFine DEF StreamInv, TypeInv, Splits
<1>5. owed.ret \in Int
  BY <1>2, <1>3, DecodeFine DEF StreamInv, TypeInv, Splits, Fine
<1> HIDE DEF o, p
<1>6. /\ TypeInv' /\ Seams(client, dec)' /\ OutputBounded'
      /\ dec' = o.dec /\ client' = client
      /\ last'.call = "DecodeSlave" /\ last'.lost = owed.ret /\ last'.ret = o.ret
  BY <1>1, <1>4, <1>5, Returned DEF Names
<1>7. Remembered'
  BY <1>1, <1>4, <1>6 DEF Remembered, StreamInv
<1>8. OwedTrue' /\ PairedOutputs' /\ PlcLength'
  BY <1>1, <1>4, <1>6 DEF OwedTrue, PairedOutputs, PlcLength
<1> QED
  BY <1>6, <1>7, <1>8, Kept

LEMMA PlcKeeps ==
    ASSUME StreamInv, NEW n \in 1..MaxLost, CallDecodePlc(n)
    PROVE  StreamInv'
<1> DEFINE o == DecodePlc(dec, n)
<1>1. Returns("DecodePlc", n, o) /\ UNCHANGED <<frame, owed>> /\ TypeInv /\ n \in Int
  BY BoundsAssumption DEF CallDecodePlc, StreamInv
<1>2. ~Splits /\ dec \in Instances
  BY <1>1, ClientsAre DEF Returns, NetEqCalls, TypeInv
<1>3. /\ Fine(o, dec, client) /\ o.dec.prev_decoded_samples = dec.prev_decoded_samples
      /\ o.ret = Resampled48to32(PlcSamples(dec, n))
  BY <1>2, DecodePlcFine DEF StreamInv, Splits
<1> HIDE DEF o
<1>4. /\ TypeInv' /\ Seams(client, dec)' /\ OutputBounded' /\ dec' = o.dec /\ client' = client
      /\ last'.call = "DecodePlc" /\ last'.lost = n /\ last'.ret = o.ret
  BY <1>1, <1>3, Returned DEF Names
<1>5. Remembered'
  BY <1>1, <1>3, <1>4 DEF Remembered, StreamInv
<1>6. PlcLength'
  BY <1>1, <1>2, <1>3, <1>4, Concealed DEF PlcLength, Remembered, StreamInv
<1>7. OwedTrue' /\ PairedOutputs'
  BY <1>2, <1>4 DEF OwedTrue, Splits, PairedOutputs
<1> QED
  BY <1>4, <1>5, <1>6, <1>7, Kept

LEMMA PlcMasterKeeps ==
    ASSUME StreamInv, NEW n \in 1..MaxLost, CallDecodePlcMaster(n)
    PROVE  StreamInv'
<1> DEFINE o == DecodePlcMaster(dec, n)
<1>1. Returns("DecodePlcMaster", n, o) /\ UNCHANGED frame /\ TypeInv /\ n \in Int
      /\ owed' = Debt("DecodePlcMaster", NoPacket, n, last'.ret)
  BY BoundsAssumption DEF CallDecodePlcMaster, StreamInv
<1>2. (dec.channels = 1 \/ Splits) /\ dec \in Instances
  BY <1>1, ClientsAre DEF Returns, TypeInv
<1>3. /\ Fine(o, dec, client) /\ o.dec.prev_decoded_samples = dec.prev_decoded_samples
      /\ o.ret = Resampled48to32(PlcSamples(dec, n))
  BY <1>2, DecodePlcMasterFine DEF StreamInv, Splits
<1>4. o.dec.prev_decoded_samples = dec.prev_decoded_samples =>
        o.ret = DecodePlcMaster(o.dec, n).ret
  BY MastersReturn
<1> HIDE DEF o
<1>5. /\ TypeInv' /\ Seams(client, dec)' /\ OutputBounded' /\ dec' = o.dec /\ client' = client
      /\ last'.call = "DecodePlcMaster" /\ last'.lost = n /\ last'.ret = o.ret
  BY <1>1, <1>3, Returned DEF Names
<1>6. Remembered'
  BY <1>1, <1>3, <1>5 DEF Remembered, StreamInv
<1>7. PlcLength'
  BY <1>1, <1>2, <1>3, <1>5, Concealed DEF PlcLength, Remembered, StreamInv
<1>8. OwedTrue' /\ PairedOutputs'
  BY <1>1, <1>3, <1>4, <1>5 DEF OwedTrue, Debt, PairedOutputs
<1> QED
  BY <1>5, <1>6, <1>7, <1>8, Kept

LEMMA PlcSlaveKeeps ==
    ASSUME StreamInv, CallDecodePlcSlave
    PROVE  StreamInv'
<1> DEFINE n == owed.lost
           o == DecodePlcSlave(dec, n)
<1>1. Returns("DecodePlcSlave", owed.ret, o) /\ owed.master = "DecodePlcMaster"
      /\ owed' = NoDebt /\ UNCHANGED frame /\ TypeInv
  BY DEF CallDecodePlcSlave, StreamInv
<1>2. dec.channels = 2 /\ Splits /\ dec \in Instances
  BY <1>1, ClientsAre DEF Returns, SlaveCalls, TypeInv
<1>3. n \in 1..MaxLost /\ owed.ret = DecodePlcMaster(dec, n).ret
  BY <1>1, <1>2 DEF StreamInv, OwedTrue, NoDebt, Debt, Nothing
<1>4. /\ Fine(o, dec, client) /\ o.dec.prev_decoded_samples = dec.prev_decoded_samples
      /\ o.ret = Resampled48to32(PlcSamples(dec, n)) /\ o.ret > 0
  BY <1>2, <1>3, DecodePlcSlaveFine DEF StreamInv, Splits
<1>5. owed.ret = o.ret
  BY <1>2, <1>3, <1>4, DecodePlcMasterFine DEF StreamInv, Splits
<1> HIDE DEF o, n
<1>6. o.ret \in Int
  BY <1>4 DEF Fine
<1>7. /\ TypeInv' /\ Seams(client, dec)' /\ OutputBounded' /\ dec' = o.dec /\ client' = client
      /\ last'.call = "DecodePlcSlave" /\ last'.lost = owed.ret /\ last'.ret = o.ret
  BY <1>1, <1>4, <1>5, <1>6, Returned DEF Names
<1>8. Remembered'
  BY <1>1, <1>4, <1>7 DEF Remembered, StreamInv
<1>9. OwedTrue' /\ PairedOutputs' /\ PlcLength'
  BY <1>1, <1>4, <1>5, <1>7 DEF OwedTrue, PairedOutputs, PlcLength
<1> QED
  BY <1>7, <1>8, <1>9, Kept

LEMMA FecKeeps ==
    ASSUME StreamInv, NEW p \in Payloads, CallDecodeFec(p)
    PROVE  StreamInv'
<1> DEFINE o == DecodeFec(dec, p)
<1>1. Returns("DecodeFec", 0, o) /\ UNCHANGED <<frame, owed>> /\ TypeInv
  BY DEF CallDecodeFec, StreamInv
<1>2. ~Splits /\ p \in Packet
  BY <1>1, ClientsAre, PayloadsAssumption DEF Returns, NetEqCalls
<1>3. Fine(o, dec, client) /\ o.dec.prev_decoded_samples = dec.prev_decoded_samples
  BY <1>2, DecodeFecFine DEF StreamInv, TypeInv, Splits
<1> HIDE DEF o
<1>4. /\ TypeInv' /\ Seams(client, dec)' /\ OutputBounded'
      /\ dec' = o.dec /\ client' = client /\ last'.call = "DecodeFec"
  BY <1>1, <1>3, Returned DEF Names
<1>5. Remembered'
  BY <1>1, <1>3, <1>4 DEF Remembered, StreamInv
<1>6. OwedTrue' /\ PairedOutputs' /\ PlcLength'
  BY <1>2, <1>4 DEF OwedTrue, Splits, PairedOutputs, PlcLength
<1> QED
  BY <1>4, <1>5, <1>6, Kept

\* Only its name tells one reset from another.
LEMMA InitKeeps ==
    ASSUME StreamInv, NEW name \in {"DecoderInitNew", "DecoderInit", "DecoderInitSlave"}, NEW i,
           i \in Instances, i.channels = dec.channels,
           i.prev_decoded_samples = dec.prev_decoded_samples, Seams(client, i),
           Returns(name, 0, Outcome(i, 0, 0)), UNCHANGED <<frame, owed>>,
           ~Splits \/ owed = NoDebt
    PROVE  StreamInv'
<1> DEFINE o == Outcome(i, 0, 0)
<1>1. o.dec = i /\ o.ret = 0 /\ o.written = 0
  BY DEF Outcome
<1>2. dec.channels * 32 * 120 >= 0
  BY DEF StreamInv, TypeInv, Instances
<1>3. Fine(o, dec, client)
  BY <1>1, <1>2 DEF Fine
<1> HIDE DEF o
<1>4. /\ TypeInv' /\ Seams(client, dec)' /\ OutputBounded'
      /\ dec' = o.dec /\ client' = client /\ last'.call = name
  <2>1. Returns(name, 0, o) /\ name \in Names /\ TypeInv
    BY DEF o, Names, StreamInv
  <2> QED
    BY <2>1, <1>3, Returned
<1>5. Remembered'
  BY <1>1, <1>4 DEF Remembered, StreamInv
<1>6. OwedTrue' /\ PairedOutputs' /\ PlcLength'
  BY <1>4 DEF OwedTrue, Splits, PairedOutputs, PlcLength
<1> QED
  BY <1>4, <1>5, <1>6, Kept

LEMMA InitsKeep ==
    ASSUME StreamInv, CallDecoderInitNew \/ CallDecoderInit \/ CallDecoderInitSlave
    PROVE  StreamInv'
<1>1. TypeInv /\ dec \in Instances /\ Seams(client, dec)
  BY DEF StreamInv, TypeInv
<1>2. ASSUME NEW s \in Sides, NEW cleared \in SUBSET Sides
      PROVE  LET i == Restarted(dec, s, cleared)
             IN  /\ i \in Instances /\ i.channels = dec.channels
                 /\ i.prev_decoded_samples = dec.prev_decoded_samples
  BY <1>1, Restarts
<1>3. CASE CallDecoderInitNew
  <2>1. Returns("DecoderInitNew", 0, Outcome(DecoderInitNew(dec), 0, 0)) /\ ~Splits
    BY <1>1, <1>3, ClientsAre DEF CallDecoderInitNew, Returns, NetEqCalls
  <2>2. Seams(client, DecoderInitNew(dec))
    BY <1>1, <2>1, ResetSeams DEF Splits
  <2> QED
    BY <1>1, <1>2, <1>3, <2>1, <2>2, SidesAre, ResetsAre, InitKeeps DEF CallDecoderInitNew
<1>4. CASE CallDecoderInit
  <2>1. Returns("DecoderInit", 0, Outcome(DecoderInit(dec), 0, 0)) /\ (dec.channels = 1 \/ Splits)
    BY <1>1, <1>4, ClientsAre DEF CallDecoderInit, Returns
  <2>2. Seams(client, DecoderInit(dec))
    BY <1>1, <2>1, ResetSeams DEF Splits
  <2> QED
    BY <1>1, <1>2, <1>4, <2>1, <2>2, SidesAre, ResetsAre, InitKeeps DEF CallDecoderInit
<1>5. CASE CallDecoderInitSlave
  <2>1. Returns("DecoderInitSlave", 0, Outcome(DecoderInitSlave(dec), 0, 0)) /\ Splits
    BY <1>1, <1>5, ClientsAre DEF CallDecoderInitSlave, Returns, SlaveCalls
  <2>2. Seams(client, DecoderInitSlave(dec))
    BY <1>1, <2>1, ResetSeams DEF Splits
  <2> QED
    BY <1>1, <1>2, <1>5, <2>1, <2>2, SidesAre, ResetsAre, InitKeeps DEF CallDecoderInitSlave
<1> QED
  BY <1>3, <1>4, <1>5

LEMMA StreamInvNext == StreamInv /\ [Next]_vars => StreamInv'
<1>1. StreamInv /\ Next => StreamInv'
  BY NewKeeps, DecodeKeeps, SlaveKeeps, PlcKeeps, PlcMasterKeeps, PlcSlaveKeeps, FecKeeps,
     InitsKeep DEF Next
<1>2. StreamInv /\ UNCHANGED vars => StreamInv'
  BY DEF vars, StreamInv, TypeInv, Remembered, Seams, Seam, OwedTrue, Splits, PairedOutputs,
         OutputLength, OutputBounded, PlcLength
<1> QED
  BY <1>1, <1>2

\* The filter of every channel a client asks for in each call (all but the right one
\* of a stereo handle of the C API) always continues the stretch that precedes the one
\* it filters, whatever mix of decoding, concealment, redundant data and resets a
\* client calls for.
THEOREM NoClicks == Spec => []Seamless
<1>1. StreamInv => Seamless
  BY SidesAre DEF StreamInv, Seams, Seam, Seamless, LeftSeamless, RightSeamless, SlaveSeamless,
                  Follows, Splits, LeftAlone
<1> QED
  BY StreamInvInit, StreamInvNext, <1>1, PTL DEF Spec

\* Left and right of the split interface always give as many samples, or both fail.
THEOREM ChannelsPaired == Spec => []PairedOutputs
<1>1. StreamInv => PairedOutputs
  BY DEF StreamInv
<1> QED
  BY StreamInvInit, StreamInvNext, <1>1, PTL DEF Spec

\* No call writes more than its caller has room for, and concealment gives
\* exactly what was lost, up to 120 ms.
THEOREM LengthsTrue == Spec => []OutputLength
<1>1. StreamInv => OutputLength
  BY DEF StreamInv
<1> QED
  BY StreamInvInit, StreamInvNext, <1>1, PTL DEF Spec

\* The state keeps its types.
THEOREM StreamTypes == Spec => []TypeOK
<1>1. StreamInv => TypeOK
  <2> SUFFICES ASSUME StreamInv PROVE TypeOK
    OBVIOUS
  <2>1. dec.prev_decoded_samples \in 1 .. kMaxFrameSizePerChannel
    <3>1. dec.prev_decoded_samples \in Stretch
      BY DEF StreamInv, TypeInv, Instances
    <3> QED
      BY <3>1, StretchFacts
  <2>2. \A s \in Sides : /\ dec.clock[s] \in Nat
                          /\ dec.filter[s].from \in Sides \cup {"none"}
                          /\ dec.filter[s].at \in Nat
    BY DEF StreamInv, TypeInv, Instances, Memories
  <2>3. last.call \in Names \cup {Nothing} /\ last.ret \in Int /\ last.written \in Nat
    BY DEF StreamInv, TypeInv, Calls
  <2> QED
    BY <2>1, <2>2, <2>3 DEF TypeOK, StreamInv, TypeInv, Remembered
<1> QED
  BY StreamInvInit, StreamInvNext, <1>1, PTL DEF Spec
=============================================================================
