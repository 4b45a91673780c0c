------------------------ MODULE AcmReceiver_proofs ------------------------
(***************************************************************************)
(* Theorems about AcmReceiver, for all codecs, streams, delays, bounds and *)
(* numbers of packets.                                                     *)
(***************************************************************************)
EXTENDS AcmReceiver, RtpNumbers_proofs, FiniteSetTheorems

\* What the proofs need to know of the state's shape: which fields the records
\* have, so that an update of one leaves the others.
ManagerFields == {"type", "seq", "ts", "pt", "recv", "step", "audioPt", "delay", "buffered",
                  "buffering", "playout"}
Shapes ==
    /\ DOMAIN av = {"on", "m", "missing", "late"} /\ DOMAIN av.m = ManagerFields
    /\ DOMAIN net = {"pc", "n"} /\ DOMAIN play = {"pc", "silence", "khz"}
    /\ DOMAIN heard = {"first", "newest", "lag", "crowded", "overtaken"}

NetEqFields == {"pt", "held", "decoded", "reached", "khz", "known"}

\* A NetEq that holds no more packets than its buffer has room for.
Bounded(q) ==
    /\ DOMAIN q = NetEqFields
    /\ IsFiniteSet(q.held) /\ Cardinality(q.held) <= MaxPackets

\* decode_lock_ is held by the thread that is inside, and by no other.
Exclusive ==
    /\ decode_lock = "net" <=> net.pc \in {"sync", "insert"}
    /\ decode_lock = "play" <=> play.pc \in {"sync", "pull"}

\* A thread that is inserting sync packets has a delay manager's stream to
\* take them from.
StreamsUsed == net.pc = "sync" \/ play.pc = "sync" => av.on

\* The delay manager knows the payload type of the codec heard last, unless it
\* took that codec's first packet for an old one.
CodecKnown ==
    av.on /\ last_audio # None /\ ~heard.overtaken =>
        av.m.audioPt = PayloadType[last_audio] /\ av.m.pt # kInvalidPayloadType

NothingHeard == got = {} => last_audio = None

LockInv == Shapes /\ Exclusive /\ Bounded(neteq)

DelayInv ==
    /\ StreamsUsed /\ CodecKnown /\ NothingHeard
    /\ sent \in Streams /\ AssertsKnown

-----------------------------------------------------------------------------
\* What the delay manager makes of a packet: an instance of the same fields, and
\* one that knows the payload type of audio that starts anew.
LEMMA ManagerUpdated ==
    ASSUME NEW m, DOMAIN m = ManagerFields, NEW p, NEW recv, NEW type, NEW new_codec \in BOOLEAN,
           NEW hz
    PROVE  LET u == UpdateLastPacket(m, p, recv, type, new_codec, hz).m
           IN  /\ DOMAIN u = ManagerFields
               /\ ~Ignored(m, p, type) =>
                     /\ u.pt = p.pt
                     /\ (new_codec \/ m.pt = kInvalidPayloadType) =>
                           u.audioPt = IF type = "audio" THEN p.pt ELSE kInvalidPayloadType
                     /\ ~new_codec /\ m.pt # kInvalidPayloadType => u.audioPt = m.audioPt
               /\ Ignored(m, p, type) => u = m
<1> DEFINE a == Accumulate(m, p, hz)
<1>1. /\ DOMAIN Restart(m, p, recv, type, hz) = ManagerFields
      /\ Restart(m, p, recv, type, hz).pt = p.pt
      /\ Restart(m, p, recv, type, hz).audioPt =
            IF type = "audio" THEN p.pt ELSE kInvalidPayloadType
  <2> DEFINE r == [RecordLastPacket(m, p, recv, type) EXCEPT
                      !.step = 0, !.buffered = 0, !.buffering = TRUE,
                      !.audioPt = IF type = "audio" THEN p.pt ELSE kInvalidPayloadType]
  <2>1. /\ DOMAIN r = ManagerFields /\ r.pt = p.pt
        /\ r.audioPt = IF type = "audio" THEN p.pt ELSE kInvalidPayloadType
    <3>1. /\ DOMAIN RecordLastPacket(m, p, recv, type) = ManagerFields
          /\ RecordLastPacket(m, p, recv, type).pt = p.pt
      BY DEF RecordLastPacket, ManagerFields
    <3> QED
      BY <3>1 DEF ManagerFields
  <2>2. Restart(m, p, recv, type, hz) = UpdatePlayoutTimestamp(r, p, hz)
    BY DEF Restart
  <2> HIDE DEF r
  <2> QED
    BY <2>1, <2>2 DEF UpdatePlayoutTimestamp, ManagerFields
<1>2. DOMAIN a = ManagerFields /\ a.audioPt = m.audioPt
  BY DEF Accumulate, UpdatePlayoutTimestamp, ManagerFields
<1>3. ASSUME NEW s
      PROVE  LET l == RecordLastPacket([a EXCEPT !.step = s], p, recv, type)
             IN  DOMAIN l = ManagerFields /\ l.pt = p.pt /\ l.audioPt = m.audioPt
  <2> HIDE DEF a
  <2> QED
    BY <1>2 DEF RecordLastPacket, ManagerFields
<1>4. LET c == Continue(a, p, recv, type).m
      IN  DOMAIN c = ManagerFields /\ c.pt = p.pt /\ c.audioPt = m.audioPt
  <2> HIDE DEF a
  <2> QED
    BY <1>3 DEF Continue
<1> HIDE DEF a
<1>5. UpdateLastPacket(m, p, recv, type, new_codec, hz) =
        IF Ignored(m, p, type) THEN [m |-> m, sync |-> NoSync]
        ELSE IF new_codec \/ m.pt = kInvalidPayloadType
        THEN [m |-> Restart(m, p, recv, type, hz), sync |-> NoSync]
        ELSE Continue(a, p, recv, type)
  BY DEF UpdateLastPacket, a
<1> QED
  BY <1>1, <1>4, <1>5

\* Counting late packets forgets no payload type.
LEMMA ManagerLate ==
    ASSUME NEW m, DOMAIN m = ManagerFields, NEW now
    PROVE  LET l == LatePackets(m, now).m
           IN  /\ DOMAIN l = ManagerFields /\ l.audioPt = m.audioPt
               /\ m.pt # kInvalidPayloadType => l.pt # kInvalidPayloadType
<1>1. ASSUME NEW ahead
      PROVE  LET f == Faked(m, ahead)
             IN  DOMAIN f = ManagerFields /\ f.audioPt = m.audioPt /\ f.pt = m.audioPt
  BY DEF Faked, ManagerFields
<1> QED
  BY <1>1 DEF LatePackets, CannotEstimate

-----------------------------------------------------------------------------
LEMMA OneMore ==
    ASSUME NEW S, IsFiniteSet(S), NEW x
    PROVE  IsFiniteSet(S \cup {x}) /\ Cardinality(S \cup {x}) <= Cardinality(S) + 1
<1>1. IsFiniteSet(S \cup {x}) /\ Cardinality(S \cup {x}) \in Nat /\ Cardinality(S) \in Nat
  BY FS_AddElement, FS_CardinalityType
<1>2. x \in S => Cardinality(S \cup {x}) = Cardinality(S)
  BY FS_AddElement
<1>3. x \notin S => Cardinality(S \cup {x}) = Cardinality(S) + 1
  BY FS_AddElement
<1> QED
  BY <1>1, <1>2, <1>3

\* A flush leaves room for one packet.
LEMMA FlushMakesRoom ==
    ASSUME NEW q, Bounded(q)
    PROVE  Bounded(Fresh(q)) /\ Cardinality(Fresh(q).held) < MaxPackets
<1>1. Fresh(q).held = {} /\ DOMAIN Fresh(q) = NetEqFields
  BY DEF Fresh, Bounded, NetEqFields
<1> QED
  BY <1>1, FS_EmptySet, ReceiverAssumption DEF Bounded

\* Where there is room for a packet, adding one keeps the bound.
LEMMA AddKeepsRoom ==
    ASSUME NEW q, Bounded(q), Cardinality(q.held) < MaxPackets, NEW p, NEW sync
    PROVE  Bounded(Add(q, p, sync))
<1> DEFINE same == {h \in q.held : h.ts = p.ts}
           x == [no |-> NumberOf(p.seq), ts |-> p.ts, sync |-> sync]
           held == (q.held \ same) \cup {x}
           new == [q EXCEPT !.held = held]
<1>1. /\ IsFiniteSet(q.held \ same) /\ Cardinality(q.held \ same) <= Cardinality(q.held)
      /\ Cardinality(q.held) \in Nat /\ Cardinality(q.held \ same) \in Nat
  BY FS_Subset, FS_CardinalityType DEF Bounded
<1>2. IsFiniteSet(held) /\ Cardinality(held) <= Cardinality(q.held \ same) + 1
  BY <1>1, OneMore
<1>3. IsFiniteSet(held) /\ Cardinality(held) <= MaxPackets
  BY <1>1, <1>2, FS_CardinalityType, ReceiverAssumption
<1>4. new.held = held /\ DOMAIN new = NetEqFields
  BY DEF Bounded, NetEqFields
<1>5. Bounded(new)
  BY <1>3, <1>4 DEF Bounded
<1>6. Add(q, p, sync) \in {q, new}
  BY DEF Add
<1> QED
  BY <1>5, <1>6

\* Neither sort of packet overfills NetEq, and decoding takes from it.
LEMMA NetEqBounded ==
    ASSUME NEW q, Bounded(q), NEW p, NEW codec
    PROVE  /\ Bounded(InsertPacket(q, p, codec))
           /\ Bounded(InsertSyncPacket(q, p))
           /\ \A r \in Pulled(q) : Bounded(r)
<1>1. Cardinality(q.held) # MaxPackets => Cardinality(q.held) < MaxPackets
  BY FS_CardinalityType, ReceiverAssumption DEF Bounded
<1>2. ASSUME NEW sync
      PROVE  /\ Bounded(Add(Fresh(q), p, sync))
             /\ Cardinality(q.held) # MaxPackets => Bounded(Add(q, p, sync))
  BY <1>1, FlushMakesRoom, AddKeepsRoom
<1>3. ASSUME NEW r, Bounded(r), NEW s, DOMAIN s = DOMAIN r, s.held = r.held
      PROVE  Bounded(s)
  BY <1>3 DEF Bounded
<1>4. Bounded(InsertPacket(q, p, codec))
  <2> DEFINE first == q.pt = kInvalidPayloadType
             changed == codec \in AudioCodecs /\ p.pt # q.pt
             flush == first \/ changed \/ Cardinality(q.held) = MaxPackets
             refused == codec = "avt" \/ codec \notin q.known
             a == Add(IF flush THEN Fresh(q) ELSE q, p, FALSE)
             pt == IF first \/ changed THEN p.pt ELSE a.pt
             khz == IF flush THEN OutKhz[codec] ELSE a.khz
  <2>1. Bounded(a)
    <3>1. CASE flush
      <4>1. a = Add(Fresh(q), p, FALSE)
        BY <3>1
      <4> QED
        BY <4>1, <1>2
    <3>2. CASE ~flush
      <4>1. a = Add(q, p, FALSE) /\ Cardinality(q.held) # MaxPackets
        BY <3>2
      <4> QED
        BY <4>1, <1>2
    <3> QED
      BY <3>1, <3>2
  <2>2. InsertPacket(q, p, codec) =
          IF refused THEN [q EXCEPT !.pt = IF first THEN p.pt ELSE q.pt]
          ELSE [a EXCEPT !.pt = pt, !.khz = khz]
    BY DEF InsertPacket
  <2> HIDE DEF a, pt, khz, refused
  <2> DEFINE s == InsertPacket(q, p, codec)
  <2>3. CASE refused
    <3>1. DOMAIN s = DOMAIN q /\ s.held = q.held
      BY <2>2, <2>3 DEF Bounded, NetEqFields
    <3> QED
      BY <3>1, <1>3
  <2>4. CASE ~refused
    <3>1. DOMAIN s = DOMAIN a /\ s.held = a.held
      BY <2>1, <2>2, <2>4 DEF Bounded, NetEqFields
    <3> QED
      BY <3>1, <2>1, <1>3
  <2> QED
    BY <2>3, <2>4
<1>5. Bounded(InsertSyncPacket(q, p))
  <2>1. InsertSyncPacket(q, p) =
          IF p.pt # q.pt \/ \A c \in q.known : PayloadType[c] # p.pt THEN q
          ELSE IF Cardinality(q.held) = MaxPackets THEN Add(Fresh(q), p, TRUE)
          ELSE Add(q, p, TRUE)
    BY DEF InsertSyncPacket
  <2> QED
    BY <1>2, <2>1
<1>6. ASSUME NEW held \in SUBSET q.held, NEW n, NEW s,
             s \in {[q EXCEPT !.held = held],
                   [q EXCEPT !.held = held, !.decoded = n, !.reached = n]}
      PROVE  Bounded(s)
  <2>1. IsFiniteSet(held) /\ Cardinality(held) <= Cardinality(q.held)
        /\ Cardinality(held) \in Nat /\ Cardinality(q.held) \in Nat
    BY FS_Subset, FS_CardinalityType DEF Bounded
  <2>2. s.held = held /\ DOMAIN s = DOMAIN q
    BY <1>6 DEF Bounded, NetEqFields
  <2> QED
    BY <2>1, <2>2, ReceiverAssumption DEF Bounded
<1>7. ASSUME NEW r \in Pulled(q)
      PROVE  Bounded(r)
  <2> DEFINE useful == {h \in q.held : h.no > q.reached}
  <2>1. CASE r = [q EXCEPT !.held = useful]
    <3>1. useful \in SUBSET q.held
      OBVIOUS
    <3> HIDE DEF useful
    <3> QED
      BY <2>1, <3>1, <1>6
  <2>2. ASSUME NEW h \in useful,
               r = [q EXCEPT !.held = useful \ {h}, !.decoded = h.no, !.reached = h.no]
        PROVE  Bounded(r)
    <3>1. useful \ {h} \in SUBSET q.held
      OBVIOUS
    <3> HIDE DEF useful
    <3> QED
      BY <2>2, <3>1, <1>6
  <2> QED
    BY <2>1, <2>2 DEF Pulled
<1> QED
  BY <1>4, <1>5, <1>7

-----------------------------------------------------------------------------
LEMMA LockInvInit == Init => LockInv
<1> SUFFICES ASSUME Init PROVE LockInv
  OBVIOUS
<1>1. Shapes /\ Exclusive
  BY DEF Init, Shapes, Exclusive, NoAv, NewManager, ManagerFields, IdleNet, IdlePlay, Unheard,
         None
<1>2. neteq.held = {} /\ DOMAIN neteq = NetEqFields
  BY DEF Init, NewNetEq, NetEqFields
<1>3. Bounded(neteq)
  BY <1>2, FS_EmptySet, ReceiverAssumption DEF Bounded
<1> QED
  BY <1>1, <1>3 DEF LockInv

\* What every step keeps of the records' shapes.
LEMMA ShapesNext == LockInv /\ [Next]_vars => Shapes'
<1> SUFFICES ASSUME Shapes, [Next]_vars PROVE Shapes'
  BY DEF LockInv
<1> USE DEF Shapes
<1>1. ASSUME NEW n \in Packets, Arrive(n)
      PROVE  Shapes'
  <2>1. CASE Refused(sent[n].codec)
    BY <1>1, <2>1 DEF Arrive, receiver
  <2>2. CASE ~Refused(sent[n].codec)
    <3> DEFINE codec == sent[n].codec
               new_codec == codec \in AudioCodecs /\ codec # last_audio
               u == UpdateLastPacket(av.m, Header(n), NowInTimestamp(Khz[codec], clock),
                                     TypeOf(codec), new_codec, Khz[codec] * 1000)
    <3>1. ArrivalUpdates(n) /\ UNCHANGED <<neteq, play>>
      BY <1>1, <2>2 DEF Arrive
    <3>2. av' = IF av.on THEN [av EXCEPT !.m = u.m, !.missing = u.sync] ELSE av
      BY <3>1 DEF ArrivalUpdates
    <3>3. DOMAIN u.m = ManagerFields
      <4>1. new_codec \in BOOLEAN
        OBVIOUS
      <4> HIDE DEF new_codec, codec
      <4> QED
        BY <4>1, ManagerUpdated
    <3>4. DOMAIN net' = {"pc", "n"}
          /\ DOMAIN heard' = {"first", "newest", "lag", "crowded", "overtaken"}
      BY <3>1 DEF ArrivalUpdates
    <3> HIDE DEF u
    <3> QED
      BY <3>1, <3>2, <3>3, <3>4
  <2> QED
    BY <2>1, <2>2
<1>2. CASE NetLocks \/ NetSync \/ NetInsert
  BY <1>2 DEF NetLocks, NetSync, NetInsert, receiver, IdleNet
<1>3. CASE PlayStarts
  <2> DEFINE silence == av.on /\ av.m.buffering /\ ~Crowded(neteq)
             m == IF av.on /\ av.m.buffering /\ Crowded(neteq) THEN DisableBuffering(av.m)
                  ELSE av.m
             l == LatePackets(m, NowInTimestamp(rate', clock'))
  <2>1. DOMAIN m = ManagerFields
    BY DEF DisableBuffering
  <2>2. DOMAIN l.m = ManagerFields
    BY <2>1, ManagerLate
  <2>3. /\ av' = IF av.on THEN [av EXCEPT !.m = l.m, !.late = l.sync] ELSE av
        /\ play' = [IdlePlay EXCEPT !.pc = "decode", !.silence = silence]
        /\ heard' = [heard EXCEPT !.crowded = @ \/ m # av.m]
        /\ UNCHANGED net
    BY <1>3 DEF PlayStarts
  <2> HIDE DEF l, m, silence
  <2> QED
    BY <2>2, <2>3 DEF IdlePlay
<1>4. CASE PlayLocks \/ PlaySync \/ PlayPulls \/ PlayEnds
  BY <1>4 DEF PlayLocks, PlaySync, PlayPulls, PlayEnds, receiver, IdlePlay
<1>5. ASSUME NEW ms \in Delays, SetInitialDelay(ms)
      PROVE  Shapes'
  BY <1>5 DEF SetInitialDelay, Elsewhere, NoAv, NewManager, ManagerFields
<1>6. ASSUME NEW size \in NackSizes, EnableNack(size)
      PROVE  Shapes'
  BY <1>6 DEF EnableNack, Call, Elsewhere
<1>7. ASSUME NEW codec \in AudioCodecs, AddCodec(codec) \/ RemoveCodec(codec) \/ CodecRemoved(codec)
      PROVE  Shapes'
  BY <1>7 DEF AddCodec, RemoveCodec, CodecRemoved, Call, Elsewhere, receiver
<1>8. CASE DisableNack \/ FlushBuffers
  BY <1>8 DEF DisableNack, FlushBuffers, Call, Elsewhere, receiver
<1>9. CASE UNCHANGED vars
  BY <1>9 DEF vars, receiver
<1> QED
  BY <1>1, <1>2, <1>3, <1>4, <1>5, <1>6, <1>7, <1>8, <1>9
     DEF Next, NetNext, PlayNext, ApiNext, Ended

LEMMA ExclusiveNext == LockInv /\ [Next]_vars => Exclusive'
<1> SUFFICES ASSUME Shapes, Exclusive, [Next]_vars PROVE Exclusive'
  BY DEF LockInv
<1> USE DEF Shapes, Exclusive
<1>1. ASSUME NEW n \in Packets, Arrive(n)
      PROVE  Exclusive'
  <2>1. net.pc = "idle" /\ (net' = net \/ net'.pc = "decode") /\ UNCHANGED <<decode_lock, play>>
    BY <1>1 DEF Arrive, ArrivalUpdates
  <2> QED
    BY <2>1
<1>2. CASE NetLocks
  BY <1>2 DEF NetLocks, None
<1>3. CASE NetSync
  BY <1>3 DEF NetSync
<1>4. CASE NetInsert
  BY <1>4 DEF NetInsert, IdleNet, None
<1>5. CASE PlayStarts
  <2>1. play.pc = "idle" /\ play'.pc = "decode" /\ UNCHANGED <<decode_lock, net>>
    BY <1>5 DEF PlayStarts
  <2> QED
    BY <2>1
<1>6. CASE PlayLocks
  BY <1>6 DEF PlayLocks, None
<1>7. CASE PlaySync
  BY <1>7 DEF PlaySync, IdlePlay, None
<1>8. CASE PlayPulls
  BY <1>8 DEF PlayPulls, None
<1>9. CASE PlayEnds
  BY <1>9 DEF PlayEnds, IdlePlay
<1>10. CASE ApiNext
  <2>1. UNCHANGED <<decode_lock, net, play>>
    BY <1>10 DEF ApiNext, SetInitialDelay, EnableNack, AddCodec, RemoveCodec,
                 CodecRemoved, DisableNack, FlushBuffers, Call, Elsewhere
  <2> QED
    BY <2>1
<1>11. CASE UNCHANGED vars
  BY <1>11 DEF vars
<1> QED
  BY <1>1, <1>2, <1>3, <1>4, <1>5, <1>6, <1>7, <1>8, <1>9, <1>10, <1>11
     DEF Next, NetNext, PlayNext, Ended

\* Of NetEq the functions of other threads change the codecs it knows, and no more.
SameButKnown(q, r) ==
    /\ DOMAIN r = NetEqFields
    /\ \A f \in NetEqFields \ {"known"} : r[f] = q[f]

LEMMA OnlyKnown ==
    ASSUME ApiNext, ~FlushBuffers, DOMAIN neteq = NetEqFields
    PROVE  SameButKnown(neteq, neteq')
<1> DEFINE q == neteq
<1> USE DEF SameButKnown
<1>1. \A known : SameButKnown(q, [q EXCEPT !.known = known])
  BY DEF NetEqFields
<1>2. CASE neteq' = neteq
  BY <1>2
<1>3. ASSUME NEW codec \in AudioCodecs, AddCodec(codec) \/ RemoveCodec(codec)
      PROVE  SameButKnown(neteq, neteq')
  <2>1. \/ neteq' = neteq
        \/ neteq' = [q EXCEPT !.known = q.known \cup {codec}]
        \/ neteq' = [q EXCEPT !.known = q.known \ {codec}]
    BY <1>3 DEF AddCodec, RemoveCodec
  <2> HIDE DEF SameButKnown
  <2> QED
    BY <1>1, <1>2, <2>1
<1> QED
  BY <1>2, <1>3 DEF ApiNext, SetInitialDelay, EnableNack, CodecRemoved, DisableNack

LEMMA BoundedNext == LockInv /\ [Next]_vars => Bounded(neteq)'
<1> SUFFICES ASSUME Bounded(neteq), [Next]_vars PROVE Bounded(neteq')
  BY DEF LockInv
<1>1. CASE UNCHANGED neteq
  BY <1>1
<1>2. CASE NetSync
  BY <1>1, <1>2, NetEqBounded DEF NetSync
<1>3. CASE NetInsert
  BY <1>3, NetEqBounded DEF NetInsert
<1>4. CASE PlaySync
  BY <1>1, <1>4, NetEqBounded DEF PlaySync
<1>5. CASE PlayPulls
  BY <1>5, NetEqBounded DEF PlayPulls
<1>6. CASE FlushBuffers
  <2> DEFINE f == Fresh(neteq)
  <2>1. Bounded(f)
    BY FlushMakesRoom
  <2>2. neteq' = [f EXCEPT !.pt = kInvalidPayloadType]
    BY <1>6 DEF FlushBuffers
  <2> HIDE DEF f
  <2> QED
    BY <2>1, <2>2 DEF Bounded
<1>7. CASE ApiNext /\ ~FlushBuffers
  <2>1. SameButKnown(neteq, neteq')
    BY <1>7, OnlyKnown DEF Bounded
  <2>2. DOMAIN neteq' = NetEqFields /\ neteq'.held = neteq.held
    BY <2>1 DEF SameButKnown, NetEqFields
  <2> QED
    BY <2>2 DEF Bounded
<1>8. ASSUME NEW n \in Packets, Arrive(n)
      PROVE  UNCHANGED neteq
  BY <1>8 DEF Arrive
<1>9. CASE NetLocks \/ PlayStarts \/ PlayLocks \/ PlayEnds \/ Ended \/ UNCHANGED vars
  BY <1>9, <1>1 DEF NetLocks, PlayStarts, PlayLocks, PlayEnds, Ended, vars
<1> QED
  BY <1>1, <1>2, <1>3, <1>4, <1>5, <1>6, <1>7, <1>8, <1>9 DEF Next, NetNext, PlayNext

\* NetEq is entered by one thread at a time: InsertPacket and GetAudio exclude
\* each other on decode_lock_, and each releases it on every way out.
THEOREM MutualExclusion == Spec => []Exclusive
<1>1. LockInv /\ [Next]_vars => LockInv'
  BY ShapesNext, ExclusiveNext, BoundedNext DEF LockInv
<1>2. LockInv => Exclusive
  BY DEF LockInv
<1> QED
  BY LockInvInit, <1>1, <1>2, PTL DEF Spec

\* However many packets and sync packets come at once, NetEq holds no more than
\* its packet buffer has room for.
THEOREM NeverOverfull == Spec => [](Cardinality(neteq.held) <= MaxPackets)
<1>1. LockInv /\ [Next]_vars => LockInv'
  BY ShapesNext, ExclusiveNext, BoundedNext DEF LockInv
<1>2. LockInv => Cardinality(neteq.held) <= MaxPackets
  BY DEF LockInv, Bounded
<1> QED
  BY LockInvInit, <1>1, <1>2, PTL DEF Spec

-----------------------------------------------------------------------------
LEMMA DelayInvInit == Init => DelayInv
BY DEF Init, DelayInv, StreamsUsed, CodecKnown, NothingHeard, AssertsKnown, NoAv, IdleNet, IdlePlay

\* What the receiver's first part does to what the delay manager knows.
LEMMA ArriveKeeps ==
    ASSUME LockInv, DelayInv, NEW n \in Packets, Arrive(n)
    PROVE  DelayInv'
<1> USE DEF LockInv, Shapes
<1> DEFINE codec == sent[n].codec
           p == Header(n)
           new_codec == codec \in AudioCodecs /\ codec # last_audio
           u == UpdateLastPacket(av.m, p, NowInTimestamp(Khz[codec], clock), TypeOf(codec),
                                 new_codec, Khz[codec] * 1000)
<1>1. net.pc = "idle" /\ got' # {} /\ UNCHANGED <<play, sent>>
  BY DEF Arrive
<1>2. CASE Refused(codec)
  BY <1>1, <1>2 DEF Arrive, DelayInv, StreamsUsed, CodecKnown, NothingHeard, AssertsKnown, receiver
<1>3. CASE ~Refused(codec)
  <2>1. ArrivalUpdates(n)
    BY <1>3 DEF Arrive
  <2>2. /\ last_audio' = IF new_codec THEN codec ELSE last_audio
        /\ av' = IF av.on THEN [av EXCEPT !.m = u.m, !.missing = u.sync] ELSE av
        /\ asserted' = (asserted /\ (av.on => UpdateAsserts(av.m, p, TypeOf(codec), new_codec)))
        /\ net' = [pc |-> "decode", n |-> n]
    BY <2>1 DEF ArrivalUpdates
  <2>3. heard'.overtaken =
          (IF new_codec THEN heard.overtaken \/ (av.on /\ Ignored(av.m, p, "audio"))
           ELSE heard.overtaken)
    <3> DEFINE over == heard.overtaken \/ (av.on /\ Ignored(av.m, p, "audio"))
               h == IF new_codec
                    THEN [heard EXCEPT !.first = n, !.newest = n, !.crowded = FALSE,
                                       !.overtaken = over]
                    ELSE [heard EXCEPT !.newest = IF codec = "avt" THEN @ ELSE Max({n, @})]
    <3>1. heard' = [h EXCEPT !.lag = Min({clock - StampOf(n), @})]
      BY <2>1 DEF ArrivalUpdates
    <3>2. DOMAIN h = DOMAIN heard
      OBVIOUS
    <3>3. new_codec => h.overtaken = over
      <4> HIDE DEF over
      <4> QED
        OBVIOUS
    <3>4. ~new_codec => h.overtaken = heard.overtaken
      OBVIOUS
    <3> HIDE DEF h
    <3> QED
      BY <3>1, <3>2, <3>3, <3>4
  <2>4. codec \in Codecs /\ p.pt = PayloadType[codec] /\ p.pt # kInvalidPayloadType
    BY ReceiverAssumption DEF DelayInv, Packets, Header
  <2>5. TypeOf(codec) = "audio" <=> codec \in AudioCodecs
    BY <2>4, ReceiverAssumption DEF TypeOf, Codecs
  <2>6. StreamsUsed'
    BY <1>1, <2>2 DEF StreamsUsed, DelayInv
  <2>7. /\ Ignored(av.m, p, TypeOf(codec)) => u.m = av.m
        /\ ~Ignored(av.m, p, TypeOf(codec)) =>
              /\ u.m.pt = p.pt
              /\ new_codec =>
                    u.m.audioPt = IF TypeOf(codec) = "audio" THEN p.pt ELSE kInvalidPayloadType
              /\ ~new_codec /\ av.m.pt # kInvalidPayloadType => u.m.audioPt = av.m.audioPt
    <3>1. new_codec \in BOOLEAN
      OBVIOUS
    <3> HIDE DEF new_codec, codec, p
    <3> QED
      BY <3>1, ManagerUpdated
  <2>8. new_codec => TypeOf(codec) = "audio"
    BY <2>5
  <2> HIDE DEF u, p
  <2>9. CodecKnown'
    <3> SUFFICES ASSUME av'.on, last_audio' # None, ~heard'.overtaken
                 PROVE  /\ av'.m.audioPt = PayloadType[last_audio']
                        /\ av'.m.pt # kInvalidPayloadType
      BY DEF CodecKnown
    <3>1. av.on /\ av'.m = u.m
      BY <2>2
    <3>2. CASE new_codec
      BY <3>1, <3>2, <2>2, <2>3, <2>4, <2>7, <2>8
    <3>3. CASE ~new_codec
      BY <3>1, <3>3, <2>2, <2>3, <2>4, <2>7 DEF DelayInv, CodecKnown
    <3> QED
      BY <3>2, <3>3
  <2>10. AssertsKnown'
    <3> SUFFICES ASSUME ~heard'.overtaken
                 PROVE  asserted'
      BY DEF AssertsKnown
    <3>1. asserted /\ ~heard.overtaken
      BY <2>3 DEF DelayInv, AssertsKnown
    <3>2. ASSUME av.on, codec \in AudioCodecs, ~new_codec
          PROVE  p.pt = av.m.audioPt
      <4>1. codec = last_audio /\ last_audio # None
        BY <3>2, ReceiverAssumption
      <4> QED
        BY <3>1, <3>2, <4>1, <2>4 DEF DelayInv, CodecKnown
    <3> QED
      BY <3>1, <3>2, <2>2, <2>5 DEF UpdateAsserts
  <2> QED
    BY <1>1, <2>6, <2>9, <2>10 DEF DelayInv, NothingHeard
<1> QED
  BY <1>2, <1>3

LEMMA DelayInvNext ==
    ASSUME ~DelayAnyTime
    PROVE  LockInv /\ DelayInv /\ [Next]_vars => DelayInv'
<1> SUFFICES ASSUME LockInv, DelayInv, [Next]_vars PROVE DelayInv'
  OBVIOUS
<1> USE DEF LockInv, Shapes
<1>1. ASSUME NEW n \in Packets, Arrive(n)
      PROVE  DelayInv'
  BY <1>1, ArriveKeeps
<1> USE DEF DelayInv, StreamsUsed, CodecKnown, NothingHeard, AssertsKnown
<1>2. CASE NetLocks \/ NetInsert
  BY <1>2 DEF NetLocks, NetInsert, receiver, IdleNet
<1>3. CASE NetSync
  <2>1. av'.on = av.on /\ av'.m = av.m
    BY <1>3 DEF NetSync
  <2>2. /\ asserted => asserted'
        /\ net'.pc = "sync" => net.pc = "sync"
        /\ UNCHANGED <<last_audio, play, sent, got, heard>>
    BY <1>3 DEF NetSync
  <2> QED
    BY <1>3, <2>1, <2>2 DEF NetSync
<1>4. CASE PlayStarts
  <2> DEFINE m == IF av.on /\ av.m.buffering /\ Crowded(neteq) THEN DisableBuffering(av.m)
                  ELSE av.m
             l == LatePackets(m, NowInTimestamp(rate', clock'))
  <2>1. /\ av' = IF av.on THEN [av EXCEPT !.m = l.m, !.late = l.sync] ELSE av
        /\ play'.pc = "decode" /\ heard' = [heard EXCEPT !.crowded = @ \/ m # av.m]
        /\ UNCHANGED <<last_audio, net, sent, got, asserted>>
    BY <1>4 DEF PlayStarts
  <2>2. DOMAIN m = ManagerFields /\ m.audioPt = av.m.audioPt /\ m.pt = av.m.pt
    BY DEF DisableBuffering, ManagerFields
  <2>3. /\ l.m.audioPt = m.audioPt
        /\ m.pt # kInvalidPayloadType => l.m.pt # kInvalidPayloadType
    BY <2>2, ManagerLate
  <2> HIDE DEF m, l
  <2>4. heard'.overtaken = heard.overtaken /\ av'.on = av.on /\ (av.on => av'.m = l.m)
    BY <2>1
  <2> QED
    BY <2>1, <2>2, <2>3, <2>4
<1>5. CASE PlayLocks \/ PlayPulls \/ PlayEnds
  <2>1. UNCHANGED <<av, last_audio, net, sent, got, heard, asserted>>
    BY <1>5 DEF PlayLocks, PlayPulls, PlayEnds, receiver
  <2>2. play'.pc = "sync" => av.on
    <3>1. DOMAIN play = {"pc", "silence", "khz"}
      OBVIOUS
    <3>2. CASE PlayLocks
      BY <3>1, <3>2 DEF PlayLocks
    <3>3. CASE PlayPulls
      <4>1. play'.pc = "finish"
        BY ONLY <3>1, <3>3 DEF PlayPulls
      <4> QED
        BY ONLY <4>1
    <3>4. CASE PlayEnds
      BY <3>4 DEF PlayEnds, IdlePlay
    <3> QED
      BY <1>5, <3>2, <3>3, <3>4
  <2> QED
    BY <2>1, <2>2
<1>6. CASE PlaySync
  <2>1. av'.on = av.on /\ av'.m = av.m
    BY <1>6 DEF PlaySync
  <2>2. /\ asserted => asserted'
        /\ play'.pc = "sync" => play.pc = "sync"
        /\ UNCHANGED <<last_audio, net, sent, got, heard>>
    BY <1>6 DEF PlaySync, IdlePlay
  <2> QED
    BY <1>6, <2>1, <2>2 DEF PlaySync
<1>7. ASSUME NEW ms \in Delays, SetInitialDelay(ms)
      PROVE  DelayInv'
  BY <1>7 DEF SetInitialDelay, Elsewhere, NoAv
<1>8. ASSUME NEW size \in NackSizes, EnableNack(size)
      PROVE  DelayInv'
  BY <1>8 DEF EnableNack, Call, Elsewhere
<1>9. ASSUME NEW codec \in AudioCodecs, AddCodec(codec) \/ RemoveCodec(codec) \/ CodecRemoved(codec)
      PROVE  DelayInv'
  BY <1>9 DEF AddCodec, RemoveCodec, CodecRemoved, Call, Elsewhere, receiver
<1>10. CASE DisableNack \/ FlushBuffers
  BY <1>10 DEF DisableNack, FlushBuffers, Call, Elsewhere, receiver
<1>11. CASE UNCHANGED vars
  BY <1>11 DEF vars, receiver
<1> QED
  BY <1>1, <1>2, <1>3, <1>4, <1>5, <1>6, <1>7, <1>8, <1>9, <1>10, <1>11
     DEF Next, NetNext, PlayNext, ApiNext, Ended

\* As long as a delay is set before the first packet and ended between calls,
\* no assertion about it fails: a thread that is inserting sync packets has a
\* delay manager, and one that is told of an audio packet of the codec it
\* follows is told its payload type; but for a codec whose first packet it took
\* for an old one.
THEOREM AssertsHold ==
    ASSUME ~DelayAnyTime
    PROVE  Spec => []AssertsKnown
<1>1. LockInv /\ DelayInv /\ [Next]_vars => (LockInv /\ DelayInv)'
  BY ShapesNext, ExclusiveNext, BoundedNext, DelayInvNext DEF LockInv
<1>2. DelayInv => AssertsKnown
  BY DEF DelayInv
<1> QED
  BY LockInvInit, DelayInvInit, <1>1, <1>2, PTL DEF Spec


-----------------------------------------------------------------------------
(* Timestamps.  Under one clock and within half a trip of the sequence      *)
(* numbers, what the delay manager and its streams say of a steady stream   *)
(* is true of it.                                                           *)

khz == Khz["cng"]

\* NetEq decodes every codec to the rate of its RTP clock, and that is the same
\* for all; the call ends before the clock, the timestamps or half of the
\* sequence numbers have gone round.
OneClock == \A c \in Codecs : Khz[c] = khz /\ OutKhz[c] = khz
ShortCall ==
    /\ ClockStart + MaxClock < ClockSpan /\ khz * MaxClock < TsSpan
    /\ \A s \in Streams : MaxClock < s[1].at * (SeqSpan \div 2)

Pace == sent[1].at
Unit == khz * Pace

\* What the proofs need to know of the values: a delay manager's and a stream's of
\* at most so many sync packets.
ManagerTyped(m) ==
    /\ m.type \in {"undefined", "cng", "audio", "sync"} /\ m.seq \in Int /\ m.ts \in Int
    /\ {m.recv, m.step} \subseteq 0 .. (TsSpan - 1)
    /\ m.buffered \in Nat /\ m.buffering \in BOOLEAN /\ m.delay \in Nat

SyncFields == {"num", "seq", "ts", "pt", "recv", "step"}
SyncTyped(s, span) ==
    /\ DOMAIN s = SyncFields /\ s.num \in 0 .. (span - 1)
    /\ s.seq \in Int /\ s.ts \in Int /\ s.step \in Int /\ s.recv \in 0 .. (TsSpan - 1)

ValueInv ==
    /\ clock \in 0 .. MaxClock /\ sent \in Streams /\ heard.lag \in Nat
    /\ av.on \in BOOLEAN /\ ManagerTyped(av.m)
    /\ SyncTyped(av.missing, SeqSpan) /\ SyncTyped(av.late, TsSpan)
    /\ last_audio \in AudioCodecs \cup {None} /\ registered \subseteq Codecs
    /\ {rate, neteq.khz, play.khz} \subseteq Nat
    /\ net.pc # "idle" => net.n \in Packets

RateInv == rate = khz /\ neteq.khz = khz /\ (play.pc = "finish" => play.khz = khz)

\* Packet n may have come by then, had it travelled as fast as the fastest.
Came(n, lag, then) == StampOf(n) + lag <= then

\* The delay manager stands at a number of the stream, with its timestamp, and at
\* a time when the packet of that number may have come.
Stands(m, lag, now) ==
    /\ m.step \in {0, Unit} /\ (PacketBuffered(m) <=> m.pt # kInvalidPayloadType)
    /\ PacketBuffered(m) =>
          \E n, r \in Nat : /\ m.seq = SeqOf(n) /\ m.ts = TsOf(n)
                            /\ m.recv = NowInTimestamp(khz, r) /\ r <= now /\ Came(n, lag, r)

\* A stream of sync packets begins at a number of the stream, with its timestamp, and
\* ends at one that may have come.
StreamTrue(s, lag, now) ==
    s.num > 0 =>
        \E n \in Nat : /\ s.seq = SeqOf(n) /\ s.ts = TsOf(n) /\ s.step = Unit
                       /\ Came(n + s.num - 1, lag, now)

HeldTrue(q, lag, now) ==
    \A h \in q.held : h.no \in Nat /\ h.ts = TsOf(h.no) /\ (h.sync => Came(h.no, lag, now))

NetTrue ==
    /\ ~av.on => av.missing.num = 0
    /\ net.pc # "idle" => StampOf(net.n) <= clock
    /\ net.pc = "decode" /\ av.missing.num > 0 =>
          NumberOf(av.missing.seq) + av.missing.num = net.n - 1

PaceInv == /\ Stands(av.m, heard.lag, clock)
           /\ StreamTrue(av.missing, heard.lag, clock) /\ StreamTrue(av.late, heard.lag, clock)
           /\ HeldTrue(neteq, heard.lag, clock) /\ NetTrue

\* The history speaks of packets of the stream.
HeardInv ==
    /\ {heard.first, heard.newest} \subseteq Packets
    /\ got = {} => heard.first = 0 /\ heard.newest = 0

\* What a delay manager has buffered is no more than lies between the codec's first
\* packet and the newest, or the one it stands at.
Since(n, h) == StampOf(n) - StampOf(h.first)
BufferedTrue(m, h) ==
    /\ ~PacketBuffered(m) => h.first = 0
    /\ m.buffered <= Since(h.newest, h)
    /\ PacketBuffered(m) => m.buffered <= Since(NumberOf(m.seq), h)
    /\ ~m.buffering /\ ~h.crowded => m.delay <= m.buffered

BufferInv == av.on /\ ~heard.overtaken => BufferedTrue(av.m, heard)


-----------------------------------------------------------------------------
(* What the delay manager's operators return.                               *)

\* The fields that recording a packet leaves.
LEMMA Recorded ==
    ASSUME NEW m, DOMAIN m = ManagerFields, NEW p, NEW recv, NEW type
    PROVE  LET l == RecordLastPacket(m, p, recv, type)
           IN  /\ DOMAIN l = ManagerFields
               /\ l.type = type /\ l.seq = p.seq /\ l.ts = p.ts /\ l.pt = p.pt /\ l.recv = recv
               /\ l.step = m.step /\ l.audioPt = m.audioPt /\ l.delay = m.delay
               /\ l.buffered = m.buffered /\ l.buffering = m.buffering
BY DEF RecordLastPacket, ManagerFields

LEMMA PlayoutUpdated ==
    ASSUME NEW m, DOMAIN m = ManagerFields, NEW p, NEW hz
    PROVE  LET l == UpdatePlayoutTimestamp(m, p, hz)
           IN  DOMAIN l = ManagerFields /\ \A f \in ManagerFields \ {"playout"} : l[f] = m[f]
BY DEF UpdatePlayoutTimestamp, ManagerFields

\* A codec starts with nothing buffered and no step known.
LEMMA Restarted ==
    ASSUME NEW m, DOMAIN m = ManagerFields, NEW p, NEW recv, NEW type, NEW hz
    PROVE  LET l == Restart(m, p, recv, type, hz)
           IN  /\ l.type = type /\ l.seq = p.seq /\ l.ts = p.ts /\ l.pt = p.pt /\ l.recv = recv
               /\ l.step = 0 /\ l.delay = m.delay /\ l.buffered = 0 /\ l.buffering /\ l.buffering \in BOOLEAN
<1> DEFINE a == RecordLastPacket(m, p, recv, type)
           r == [a EXCEPT !.step = 0, !.buffered = 0, !.buffering = TRUE,
                          !.audioPt = IF type = "audio" THEN p.pt ELSE kInvalidPayloadType]
<1>1. /\ DOMAIN a = ManagerFields /\ a.type = type /\ a.seq = p.seq /\ a.ts = p.ts
      /\ a.pt = p.pt /\ a.recv = recv /\ a.delay = m.delay
  BY Recorded
<1>2. Restart(m, p, recv, type, hz) = UpdatePlayoutTimestamp(r, p, hz)
  BY DEF Restart
<1> HIDE DEF a
<1>3. /\ DOMAIN r = ManagerFields /\ r.type = type /\ r.seq = p.seq /\ r.ts = p.ts
      /\ r.pt = p.pt /\ r.recv = recv /\ r.delay = m.delay
      /\ r.step = 0 /\ r.buffered = 0 /\ r.buffering /\ r.buffering \in BOOLEAN
  BY <1>1 DEF ManagerFields
<1> HIDE DEF r
<1>4. DOMAIN UpdatePlayoutTimestamp(r, p, hz) = ManagerFields
      /\ \A f \in ManagerFields \ {"playout"} : UpdatePlayoutTimestamp(r, p, hz)[f] = r[f]
  BY <1>3, PlayoutUpdated
<1> QED
  BY <1>2, <1>3, <1>4 DEF ManagerFields

\* While a delay is being buffered the audio up to the packet is counted.
Counted(m, p, hz) == m.buffered + Ts(Ts(p.ts - m.ts) * 1000) \div hz

LEMMA Accumulated ==
    ASSUME NEW m, DOMAIN m = ManagerFields, NEW p, NEW hz
    PROVE  LET a == Accumulate(m, p, hz)
           IN  /\ DOMAIN a = ManagerFields
               /\ \A f \in ManagerFields \ {"playout", "buffered", "buffering"} : a[f] = m[f]
               /\ ~m.buffering => a = m
               /\ m.buffering => /\ a.buffered = Counted(m, p, hz)
                                 /\ a.buffering <=> Counted(m, p, hz) < m.delay
                                 /\ a.buffering \in BOOLEAN
<1> DEFINE ms == Counted(m, p, hz)
           less == ms < m.delay
           r == [m EXCEPT !.buffered = ms, !.buffering = less]
<1>1. Accumulate(m, p, hz) = IF ~m.buffering THEN m ELSE UpdatePlayoutTimestamp(r, p, hz)
  BY DEF Accumulate, Counted
<1> HIDE DEF ms
<1>5. less \in BOOLEAN
  OBVIOUS
<1> HIDE DEF less
<1>2. /\ DOMAIN r = ManagerFields
      /\ \A f \in ManagerFields \ {"playout", "buffered", "buffering"} : r[f] = m[f]
      /\ r.buffered = ms /\ r.buffering = less
  BY DEF ManagerFields
<1> HIDE DEF r
<1>3. DOMAIN UpdatePlayoutTimestamp(r, p, hz) = ManagerFields
      /\ \A f \in ManagerFields \ {"playout"} : UpdatePlayoutTimestamp(r, p, hz)[f] = r[f]
  BY <1>2, PlayoutUpdated
<1> QED
  BY <1>1, <1>2, <1>3, <1>5 DEF ManagerFields, ms, less


\* From the packet before to this one: in timestamps, in packets missing, and, if it
\* is not known yet, in timestamps per packet.
Increase(m, p) == Ts(p.ts - m.ts)
Gap(m, p) == SeqNo(p.seq - m.seq - 1)
StepOver(m, p) == IF m.step = 0 THEN Increase(m, p) \div (Gap(m, p) + 1) ELSE m.step

\* Whether sync packets are made for those missing before packet p.
Fills(m, p) ==
    /\ p.seq # m.seq + 1 /\ NumMissing(m, Gap(m, p)) > 0 /\ m.audioPt # kInvalidPayloadType

LEMMA Continued ==
    ASSUME NEW m, DOMAIN m = ManagerFields, NEW p, NEW recv, NEW type
    PROVE  LET c == Continue(m, p, recv, type)
           IN  /\ c.m.type = type /\ c.m.seq = p.seq /\ c.m.ts = p.ts /\ c.m.pt = p.pt
               /\ c.m.recv = recv /\ c.m.delay = m.delay
               /\ c.m.buffered = m.buffered /\ c.m.buffering = m.buffering
               /\ c.m.step = IF p.seq = m.seq + 1
                             THEN IF m.type = "audio" THEN Increase(m, p) ELSE m.step
                             ELSE IF Fills(m, p) THEN StepOver(m, p) ELSE m.step
               /\ c.sync = IF Fills(m, p)
                           THEN Rewound(m, p, recv, NumMissing(m, Gap(m, p)), StepOver(m, p))
                           ELSE NoSync
<1> DEFINE num == NumMissing(m, Gap(m, p))
           last(s) == RecordLastPacket([m EXCEPT !.step = s], p, recv, type)
<1>1. ASSUME NEW s
      PROVE  LET l == last(s)
             IN  /\ l.type = type /\ l.seq = p.seq /\ l.ts = p.ts /\ l.pt = p.pt
                 /\ l.recv = recv /\ l.step = s /\ l.delay = m.delay
                 /\ l.buffered = m.buffered /\ l.buffering = m.buffering
  <2> DEFINE n == [m EXCEPT !.step = s]
  <2>1. /\ DOMAIN n = ManagerFields /\ n.step = s /\ n.delay = m.delay
        /\ n.buffered = m.buffered /\ n.buffering = m.buffering
    BY DEF ManagerFields
  <2>2. last(s) = RecordLastPacket(n, p, recv, type)
    OBVIOUS
  <2> HIDE DEF n, last
  <2>3. LET l == RecordLastPacket(n, p, recv, type)
        IN  /\ l.type = type /\ l.seq = p.seq /\ l.ts = p.ts /\ l.pt = p.pt
            /\ l.recv = recv /\ l.step = n.step /\ l.delay = n.delay
            /\ l.buffered = n.buffered /\ l.buffering = n.buffering
    BY <2>1, Recorded
  <2> QED
    BY <2>1, <2>2, <2>3
<1>2. Continue(m, p, recv, type) =
        IF p.seq = m.seq + 1
        THEN [m |-> last(IF m.type = "audio" THEN Increase(m, p) ELSE m.step), sync |-> NoSync]
        ELSE IF num > 0 /\ m.audioPt # kInvalidPayloadType
        THEN [m |-> last(StepOver(m, p)), sync |-> Rewound(m, p, recv, num, StepOver(m, p))]
        ELSE [m |-> last(m.step), sync |-> NoSync]
  BY DEF Continue, Increase, Gap, StepOver
<1>3. Fills(m, p) <=> p.seq # m.seq + 1 /\ num > 0 /\ m.audioPt # kInvalidPayloadType
  BY DEF Fills
<1> HIDE DEF last
<1>4. CASE p.seq = m.seq + 1
  BY <1>1, <1>2, <1>3, <1>4
<1>5. CASE Fills(m, p)
  BY <1>1, <1>2, <1>3, <1>5
<1>6. CASE p.seq # m.seq + 1 /\ ~Fills(m, p)
  BY <1>1, <1>2, <1>3, <1>6
<1> QED
  BY <1>4, <1>5, <1>6

\* A packet that is not ignored, of a stream that goes on.
LEMMA WentOn ==
    ASSUME NEW m, DOMAIN m = ManagerFields, NEW p, NEW recv, NEW type, NEW hz,
           NEW new_codec, ~new_codec,
           ~Ignored(m, p, type), m.pt # kInvalidPayloadType, m.buffering \in BOOLEAN
    PROVE  LET u == UpdateLastPacket(m, p, recv, type, new_codec, hz)
           IN  /\ u.m.type = type /\ u.m.seq = p.seq /\ u.m.ts = p.ts /\ u.m.pt = p.pt
               /\ u.m.recv = recv /\ u.m.delay = m.delay
               /\ u.m.buffered = IF m.buffering THEN Counted(m, p, hz) ELSE m.buffered
               /\ u.m.buffering <=> m.buffering /\ Counted(m, p, hz) < m.delay
               /\ u.m.buffering \in BOOLEAN
               /\ u.m.step = IF p.seq = m.seq + 1
                             THEN IF m.type = "audio" THEN Increase(m, p) ELSE m.step
                             ELSE IF Fills(m, p) THEN StepOver(m, p) ELSE m.step
               /\ u.sync = IF Fills(m, p)
                           THEN Rewound(m, p, recv, NumMissing(m, Gap(m, p)), StepOver(m, p))
                           ELSE NoSync
<1> DEFINE a == Accumulate(m, p, hz)
<1>1. /\ DOMAIN a = ManagerFields
      /\ \A f \in ManagerFields \ {"playout", "buffered", "buffering"} : a[f] = m[f]
      /\ ~m.buffering => a = m
      /\ m.buffering => /\ a.buffered = Counted(m, p, hz)
                        /\ a.buffering <=> Counted(m, p, hz) < m.delay
                        /\ a.buffering \in BOOLEAN
  BY Accumulated
<1>2. UpdateLastPacket(m, p, recv, type, new_codec, hz) = Continue(a, p, recv, type)
  BY DEF UpdateLastPacket
<1> HIDE DEF a
<1>3. /\ a.type = m.type /\ a.seq = m.seq /\ a.ts = m.ts /\ a.step = m.step
      /\ a.audioPt = m.audioPt /\ a.delay = m.delay
  BY <1>1 DEF ManagerFields
<1>4. /\ Increase(a, p) = Increase(m, p) /\ Gap(a, p) = Gap(m, p)
      /\ StepOver(a, p) = StepOver(m, p)
  BY <1>3 DEF Increase, Gap, StepOver
<1>5. /\ NumMissing(a, Gap(a, p)) = NumMissing(m, Gap(m, p)) /\ Fills(a, p) = Fills(m, p)
  BY <1>3, <1>4 DEF NumMissing, Fills
<1>6. \A num, step : Rewound(a, p, recv, num, step) = Rewound(m, p, recv, num, step)
  BY <1>3 DEF Rewound
<1> DEFINE c == Continue(a, p, recv, type)
<1>7. /\ c.m.type = type /\ c.m.seq = p.seq /\ c.m.ts = p.ts /\ c.m.pt = p.pt
      /\ c.m.recv = recv /\ c.m.delay = a.delay
      /\ c.m.buffered = a.buffered /\ c.m.buffering = a.buffering
      /\ c.m.step = IF p.seq = a.seq + 1
                    THEN IF a.type = "audio" THEN Increase(a, p) ELSE a.step
                    ELSE IF Fills(a, p) THEN StepOver(a, p) ELSE a.step
      /\ c.sync = IF Fills(a, p)
                  THEN Rewound(a, p, recv, NumMissing(a, Gap(a, p)), StepOver(a, p))
                  ELSE NoSync
  BY <1>1, Continued
<1> HIDE DEF c
<1>8. /\ c.m.step = IF p.seq = m.seq + 1
                    THEN IF m.type = "audio" THEN Increase(m, p) ELSE m.step
                    ELSE IF Fills(m, p) THEN StepOver(m, p) ELSE m.step
      /\ c.sync = IF Fills(m, p)
                  THEN Rewound(m, p, recv, NumMissing(m, Gap(m, p)), StepOver(m, p))
                  ELSE NoSync
  BY <1>3, <1>4, <1>5, <1>6, <1>7
<1>9. CASE ~m.buffering
  <2>1. a.buffered = m.buffered /\ ~a.buffering /\ a.buffering \in BOOLEAN
    BY <1>1, <1>9
  <2> QED
    BY <1>2, <1>3, <1>7, <1>8, <1>9, <2>1 DEF c
<1>10. CASE m.buffering
  <2>1. /\ c.m.buffered = Counted(m, p, hz) /\ c.m.buffering \in BOOLEAN
        /\ c.m.buffering <=> Counted(m, p, hz) < m.delay
    BY <1>1, <1>7, <1>10
  <2> QED
    BY <1>2, <1>3, <1>7, <1>8, <1>10, <2>1 DEF c
<1> QED
  BY <1>9, <1>10


\* Sync packets are made for packets late, from the first that is on.
Offset(m) == IF m.type = "sync" THEN 1 ELSE 2
LateOnes(m, now) == NumLate(m, now) - (Offset(m) - 1)
LateMade(m, now) ==
    /\ ~CannotEstimate(m) /\ ~(NumLate(m, now) < late_packet_threshold) /\ LateOnes(m, now) # 0

LEMMA Late ==
    ASSUME NEW m, DOMAIN m = ManagerFields, NEW now
    PROVE  LET l == LatePackets(m, now)
               ahead == SeqNo(LateOnes(m, now) + Offset(m) - 1)
           IN  /\ ~LateMade(m, now) => l.m = m /\ l.sync = NoSync
               /\ LateMade(m, now) =>
                     /\ l.m.type = "sync" /\ l.m.pt = m.audioPt /\ l.m.step = m.step
                     /\ l.m.seq = SeqNo(m.seq + ahead) /\ l.m.ts = Ts(m.ts + ahead * m.step)
                     /\ l.m.recv = Ts(m.recv + ahead * m.step) /\ l.m.delay = m.delay
                     /\ l.m.buffered = m.buffered /\ l.m.buffering = m.buffering
                     /\ l.sync = [num |-> LateOnes(m, now), seq |-> SeqNo(m.seq + Offset(m)),
                                  ts |-> Ts(m.ts + Offset(m) * m.step), pt |-> m.audioPt,
                                  recv |-> Ts(m.recv + Offset(m) * m.step), step |-> m.step]
<1>1. ASSUME NEW ahead
      PROVE  LET f == Faked(m, ahead)
             IN  /\ f.type = "sync" /\ f.pt = m.audioPt /\ f.step = m.step
                 /\ f.seq = SeqNo(m.seq + ahead) /\ f.ts = Ts(m.ts + ahead * m.step)
                 /\ f.recv = Ts(m.recv + ahead * m.step) /\ f.delay = m.delay
                 /\ f.buffered = m.buffered /\ f.buffering = m.buffering
  BY DEF Faked, ManagerFields
<1>2. LatePackets(m, now) =
        IF ~LateMade(m, now) THEN [m |-> m, sync |-> NoSync]
        ELSE [m |-> Faked(m, SeqNo(LateOnes(m, now) + Offset(m) - 1)),
              sync |-> [num |-> LateOnes(m, now), seq |-> SeqNo(m.seq + Offset(m)),
                        ts |-> Ts(m.ts + Offset(m) * m.step), pt |-> m.audioPt,
                        recv |-> Ts(m.recv + Offset(m) * m.step), step |-> m.step]]
  BY Zenon DEF LatePackets, LateMade, LateOnes, Offset
<1> QED
  BY <1>1, <1>2


-----------------------------------------------------------------------------
(* A steady stream.                                                         *)

LEMMA TimesMonotone == \A a, b, c \in Nat : a <= b => a * c <= b * c
BY SMT

LEMMA TimesReordered == \A a, b, c \in Nat : a * (b * c) = b * (a * c) /\ a * b \in Nat
BY SMT

\* Packet n is sent n paces after packet 0, and n units of timestamps.
LEMMA SteadyStamps ==
    ASSUME OneClock, Steady, sent \in Streams
    PROVE  /\ khz \in Nat \ {0} /\ Pace \in Nat \ {0} /\ Unit \in Nat \ {0}
           /\ Packets \subseteq Nat /\ 0 \in Packets
           /\ \A n \in Nat : StampOf(n) = n * Pace /\ TsOf(n) = Ts(TsStart + n * Unit)
<1>1. khz \in Nat \ {0}
  BY NumbersAssumption DEF khz, Codecs
<1>2. /\ Packets \subseteq Nat /\ {0, 1} \subseteq Packets /\ sent[1].at \in Nat
      /\ sent[0].at < sent[1].at /\ sent[0].at = 0
  <2>1. /\ DOMAIN sent \subseteq Nat /\ {0, 1} \subseteq DOMAIN sent /\ sent[0].at = 0
        /\ \A n \in DOMAIN sent : sent[n].at \in Nat
        /\ \A n \in DOMAIN sent : \A m \in 0 .. (n - 1) : sent[m].at < sent[n].at
    BY StreamsAssumption
  <2>2. 0 \in 0 .. (1 - 1)
    OBVIOUS
  <2> QED
    BY <2>1, <2>2 DEF Packets
<1>3. Pace \in Nat \ {0}
  BY <1>2 DEF Pace
<1>4. Unit \in Nat \ {0}
  <2>1. 1 * khz <= Pace * khz
    BY <1>1, <1>3, TimesMonotone
  <2> QED
    BY <1>1, <1>3, <2>1 DEF Unit
<1>5. ASSUME NEW n \in Nat
      PROVE  StampOf(n) = n * Pace /\ TsOf(n) = Ts(TsStart + n * Unit)
  <2>1. StampOf(n) = n * Pace
    BY DEF StampOf, Steady, Pace
  <2>2. ClockOf(n) = khz
    <3>1. \A k \in Packets : sent[k].codec \in Codecs
      BY ReceiverAssumption DEF Packets
    <3> QED
      BY <1>2, <3>1 DEF ClockOf, OneClock
  <2>3. khz * (n * Pace) = n * (khz * Pace)
    BY <1>1, <1>3, TimesReordered
  <2> QED
    BY <2>1, <2>2, <2>3 DEF TsOf, Unit
<1> QED
  BY <1>1, <1>2, <1>3, <1>4, <1>5

\* What may have been sent before the call ends is less than half of the sequence
\* numbers, and of one trip of the timestamps.
LEMMA SteadyShort ==
    ASSUME OneClock, ShortCall, Steady, sent \in Streams, NEW n \in Nat, n * Pace <= MaxClock
    PROVE  n < SeqSpan \div 2 /\ n * Unit \in Nat /\ n * Unit < TsSpan
<1> DEFINE half == SeqSpan \div 2
<1>1. khz \in Nat \ {0} /\ Pace \in Nat \ {0} /\ MaxClock \in Nat /\ half \in Nat /\ TsSpan \in Nat
  BY SteadyStamps, NumbersAssumption, SpansAssumption
<1>2. MaxClock < Pace * half /\ khz * MaxClock < TsSpan
  BY DEF ShortCall, Pace
<1>3. n < half
  <2> SUFFICES ASSUME half <= n PROVE FALSE
    BY <1>1
  <2>1. half * Pace <= n * Pace
    BY <1>1, TimesMonotone
  <2>2. half * Pace = Pace * half
    BY <1>1
  <2> HIDE DEF half
  <2> QED
    BY <1>1, <1>2, <2>1, <2>2, TimesReordered
<1>4. n * Unit = khz * (n * Pace)
  BY <1>1, TimesReordered DEF Unit
<1>5. (n * Pace) * khz <= MaxClock * khz
  BY <1>1, TimesMonotone, TimesReordered
<1>6. n * Pace \in Nat /\ (n * Pace) * khz = khz * (n * Pace) /\ MaxClock * khz = khz * MaxClock
      /\ khz * (n * Pace) \in Nat /\ khz * MaxClock \in Nat
  BY <1>1, TimesReordered
<1> HIDE DEF half
<1> QED
  BY <1>1, <1>2, <1>3, <1>4, <1>5, <1>6 DEF half

\* The numbers of what may have been sent.
LEMMA NumbersShort ==
    /\ SeqSpan \in Nat \ {0} /\ TsSpan \in Nat \ {0} /\ SeqSpan \div 2 \in Nat
    /\ \A n \in Int : SeqOf(n) \in 0 .. (SeqSpan - 1)
    /\ \A n \in Int, d \in Int : SeqNo(SeqOf(n) + d) = SeqOf(n + d)
    /\ \A n \in 0 .. (SeqSpan - 1) : NumberOf(SeqOf(n)) = n
    /\ \A n, k \in Int : n - k \in 0 .. (SeqSpan - 1) => SeqNo(SeqOf(n) - SeqOf(k)) = n - k
<1>1. SeqSpan \in Nat \ {0} /\ TsSpan \in Nat \ {0} /\ SeqSpan \div 2 \in Nat /\ SeqStart \in Nat
  BY SpansAssumption, NumbersAssumption
<1>2. ASSUME NEW n \in Int
      PROVE  SeqStart + n \in Int /\ SeqOf(n) \in 0 .. (SeqSpan - 1)
  BY <1>1, Places DEF SeqOf, SeqNo
<1>3. ASSUME NEW n \in Int, NEW d \in Int
      PROVE  SeqNo(SeqOf(n) + d) = SeqOf(n + d)
  <2> DEFINE a == SeqStart + n
  <2>1. a \in Int /\ a + d = SeqStart + (n + d)
    BY <1>1
  <2> HIDE DEF a
  <2>2. ((a % SeqSpan) + d) % SeqSpan = (a + d) % SeqSpan
    BY <1>1, <2>1, GoesOn
  <2> QED
    BY <2>1, <2>2 DEF SeqOf, SeqNo, a
<1>4. ASSUME NEW n \in 0 .. (SeqSpan - 1)
      PROVE  NumberOf(SeqOf(n)) = n
  <2>1. SeqNo(SeqOf(n) + (-SeqStart)) = SeqOf(n + (-SeqStart))
    BY <1>1, <1>3
  <2>2. SeqOf(n) + (-SeqStart) = SeqOf(n) - SeqStart /\ SeqStart + (n + (-SeqStart)) = n
    BY <1>1, <1>2
  <2>3. n % SeqSpan = n
    BY <1>1, Within
  <2> QED
    BY <2>1, <2>2, <2>3 DEF NumberOf, SeqOf, SeqNo
<1>5. ASSUME NEW n \in Int, NEW k \in Int, n - k \in 0 .. (SeqSpan - 1)
      PROVE  SeqNo(SeqOf(n) - SeqOf(k)) = n - k
  <2> DEFINE x == SeqStart + n
             y == SeqStart + k
  <2>1. x \in Int /\ y \in Int /\ x - y = n - k
    BY <1>1
  <2> HIDE DEF x, y
  <2>2. ((x % SeqSpan) - (y % SeqSpan)) % SeqSpan = x - y
    BY <1>1, <1>5, <2>1, Between
  <2> QED
    BY <2>1, <2>2 DEF SeqOf, SeqNo, x, y
<1> QED
  BY <1>1, <1>2, <1>3, <1>4, <1>5


LEMMA TimesDistributes ==
    \A a, b, c \in Int : /\ (a + b) * c = a * c + b * c /\ (a - b) * c = a * c - b * c
                         /\ a * c \in Int
BY SMT

\* The timestamps of a steady stream, from one packet to another.
LEMMA SteadyTs ==
    ASSUME OneClock, ShortCall, Steady, sent \in Streams, NEW k \in Nat
    PROVE  /\ TsOf(k) \in 0 .. (TsSpan - 1)
           /\ \A d \in Int : k + d \in Nat => Ts(TsOf(k) + d * Unit) = TsOf(k + d)
           /\ \A n \in Nat : k <= n /\ n * Pace <= MaxClock =>
                 /\ Ts(TsOf(n) - TsOf(k)) = (n - k) * Unit
                 /\ (n - k) * Unit \in 0 .. (TsSpan - 1)
<1> DEFINE at(n) == TsStart + n * Unit
<1>1. /\ TsStart \in Nat /\ TsSpan \in Nat \ {0} /\ Unit \in Nat \ {0} /\ Pace \in Nat \ {0}
      /\ \A n \in Nat : TsOf(n) = Ts(at(n))
  BY SteadyStamps, NumbersAssumption, SpansAssumption
<1>2. \A n \in Nat : at(n) \in Int
  BY <1>1, TimesDistributes
<1>3. TsOf(k) \in 0 .. (TsSpan - 1)
  <2> HIDE DEF at
  <2> QED
    BY <1>1, <1>2, Places DEF Ts
<1>4. ASSUME NEW d \in Int, k + d \in Nat
      PROVE  Ts(TsOf(k) + d * Unit) = TsOf(k + d)
  <2>1. d * Unit \in Int /\ at(k) + d * Unit = at(k + d)
    <3>1. d * Unit \in Int /\ k * Unit \in Int /\ (k + d) * Unit = k * Unit + d * Unit
      BY <1>1, TimesDistributes
    <3> QED
      BY <1>1, <3>1
  <2> DEFINE e == d * Unit
             y == at(k)
             z == at(k + d)
  <2>2. e \in Int /\ y \in Int /\ y + e = z /\ TsOf(k) = y % TsSpan /\ TsOf(k + d) = z % TsSpan
    BY <1>1, <1>2, <1>4, <2>1 DEF Ts
  <2> HIDE DEF e, y, z
  <2>3. ((y % TsSpan) + e) % TsSpan = (y + e) % TsSpan
    BY <1>1, <2>2, GoesOn
  <2> QED
    BY <2>2, <2>3 DEF Ts, e
<1>5. ASSUME NEW n \in Nat, k <= n, n * Pace <= MaxClock
      PROVE  /\ Ts(TsOf(n) - TsOf(k)) = (n - k) * Unit
             /\ (n - k) * Unit \in 0 .. (TsSpan - 1)
  <2> DEFINE x == at(n)
             y == at(k)
             w == (n - k) * Unit
  <2>1. n * Unit \in Nat /\ n * Unit < TsSpan
    BY <1>5, SteadyShort
  <2>2. k * Unit \in Nat /\ w = n * Unit - k * Unit
    BY <1>1, TimesDistributes, TimesReordered
  <2>3. n - k \in Nat /\ w \in Nat
    BY <1>1, <1>5, TimesReordered
  <2>4. x \in Int /\ y \in Int /\ x - y = w /\ w \in 0 .. (TsSpan - 1)
    <3> HIDE DEF w
    <3> QED
      BY <1>1, <2>1, <2>2, <2>3
  <2>5. TsOf(n) = x % TsSpan /\ TsOf(k) = y % TsSpan
    BY <1>1 DEF Ts
  <2> HIDE DEF x, y, w
  <2>6. ((x % TsSpan) - (y % TsSpan)) % TsSpan = x - y
    BY <1>1, <2>4, Between
  <2> QED
    BY <2>4, <2>5, <2>6 DEF Ts, w
<1> QED
  BY <1>3, <1>4, <1>5

\* The clock within a call.
LEMMA SteadyClock ==
    ASSUME OneClock, ShortCall, NEW r \in 0 .. MaxClock
    PROVE  LET Now(t) == NowInTimestamp(khz, t)
           IN  /\ Now(r) \in 0 .. (TsSpan - 1)
               /\ \A t \in 0 .. r : Ts(Now(r) - Now(t)) = khz * (r - t)
               /\ \A d \in Int : r + d \in 0 .. MaxClock => Ts(Now(r) + khz * d) = Now(r + d)
<1> DEFINE at(t) == khz * (ClockStart + t)
<1>1. /\ khz \in Nat \ {0} /\ ClockStart \in Nat /\ MaxClock \in Nat /\ ClockSpan \in Nat \ {0}
      /\ TsSpan \in Nat \ {0} /\ ClockStart + MaxClock < ClockSpan /\ khz * MaxClock < TsSpan
  BY NumbersAssumption, SpansAssumption DEF khz, Codecs, ShortCall
<1>2. ASSUME NEW t \in 0 .. MaxClock
      PROVE  at(t) \in Int /\ NowInTimestamp(khz, t) = at(t) % TsSpan
  <2>1. ClockStart + t \in 0 .. (ClockSpan - 1)
    BY <1>1
  <2>2. (ClockStart + t) % ClockSpan = ClockStart + t
    BY <1>1, <2>1, Within
  <2>3. at(t) \in Int
    BY <1>1, <2>1, TimesReordered
  <2> QED
    BY <2>2, <2>3 DEF NowInTimestamp, Ts
<1>3. NowInTimestamp(khz, r) \in 0 .. (TsSpan - 1)
  <2> HIDE DEF at
  <2> QED
    BY <1>1, <1>2, Places
<1>4. ASSUME NEW t \in 0 .. r
      PROVE  Ts(NowInTimestamp(khz, r) - NowInTimestamp(khz, t)) = khz * (r - t)
  <2> DEFINE x == at(r)
             y == at(t)
             w == khz * (r - t)
  <2>1. r - t \in Nat /\ r - t <= MaxClock /\ t \in 0 .. MaxClock
    BY <1>1
  <2>2. (r - t) * khz <= MaxClock * khz /\ w \in Nat
    BY <1>1, <2>1, TimesMonotone, TimesReordered
  <2>3. (r - t) * khz = w /\ MaxClock * khz = khz * MaxClock /\ khz * MaxClock \in Nat
    BY <1>1, <2>1, TimesReordered
  <2>4. x - y = w
    <3> DEFINE a == ClockStart + r
               b == ClockStart + t
    <3>1. a \in Int /\ b \in Int /\ a - b = r - t
      BY <1>1, <2>1
    <3> HIDE DEF a, b
    <3>2. (a - b) * khz = a * khz - b * khz
      BY <1>1, <3>1, TimesDistributes
    <3>3. a * khz = khz * a /\ b * khz = khz * b /\ (a - b) * khz = khz * (a - b)
      BY <1>1, <3>1
    <3> QED
      BY <3>1, <3>2, <3>3 DEF a, b
  <2>5. x \in Int /\ y \in Int /\ NowInTimestamp(khz, r) = x % TsSpan
        /\ NowInTimestamp(khz, t) = y % TsSpan
    BY <1>2, <2>1
  <2>6. x - y \in 0 .. (TsSpan - 1)
    <3> HIDE DEF x, y, w
    <3> QED
      BY <1>1, <2>2, <2>3, <2>4
  <2> HIDE DEF x, y, w
  <2>7. ((x % TsSpan) - (y % TsSpan)) % TsSpan = x - y
    BY <1>1, <2>5, <2>6, Between
  <2> QED
    BY <2>4, <2>5, <2>7 DEF Ts, w
<1>5. ASSUME NEW d \in Int, r + d \in 0 .. MaxClock
      PROVE  Ts(NowInTimestamp(khz, r) + khz * d) = NowInTimestamp(khz, r + d)
  <2> DEFINE x == at(r)
             y == at(r + d)
             w == khz * d
  <2>1. w \in Int /\ x + w = y
    <3> DEFINE a == ClockStart + r
    <3>1. a \in Int
      BY <1>1
    <3> HIDE DEF a
    <3>2. (a + d) * khz = a * khz + d * khz
      BY <1>1, <3>1, TimesDistributes
    <3>3. a * khz = khz * a /\ d * khz = khz * d /\ (a + d) * khz = khz * (a + d) /\ d * khz \in Int
      BY <1>1, <3>1, TimesDistributes
    <3>4. ClockStart + (r + d) = a + d
      BY <1>1 DEF a
    <3> QED
      BY <3>2, <3>3, <3>4 DEF a
  <2>2. x \in Int /\ NowInTimestamp(khz, r) = x % TsSpan /\ NowInTimestamp(khz, r + d) = y % TsSpan
    BY <1>2, <1>5
  <2> HIDE DEF x, y, w
  <2>3. ((x % TsSpan) + w) % TsSpan = (x + w) % TsSpan
    BY <1>1, <2>1, <2>2, GoesOn
  <2> QED
    BY <2>1, <2>2, <2>3 DEF Ts, w
<1> QED
  BY <1>3, <1>4, <1>5


\* Of two packets that may have been sent the newer is the later.
LEMMA SteadyOrder ==
    ASSUME OneClock, ShortCall, Steady, sent \in Streams,
           NEW n \in Nat, NEW k \in Nat, n * Pace <= MaxClock, k * Pace <= MaxClock,
           Newer(SeqOf(n), SeqOf(k))
    PROVE  k < n
<1>1. n < SeqSpan \div 2 /\ k < SeqSpan \div 2 /\ SeqSpan \div 2 \in Nat /\ SeqStart \in Int
  BY SteadyShort, NumbersShort, NumbersAssumption
<1>2. n # k
  BY DEF Newer, IsNewer
<1>3. ASSUME n < k
      PROVE  FALSE
  <2>1. k - n < SeqSpan \div 2
    BY <1>1, <1>3
  <2>2. ~Newer(SeqNo(SeqStart + n), SeqNo(SeqStart + k))
    BY <1>1, <1>3, <2>1, StretchOrdered
  <2> QED
    BY <2>2 DEF SeqOf
<1> QED
  BY <1>2, <1>3

LEMMA DivideBack == \A a \in Nat \ {0}, b \in Nat : (a * b) \div a = b
BY SMT

\* From the packet the delay manager stands at to a later one: so many packets are
\* missing, and their timestamps are paces apart.
LEMMA SteadyGap ==
    ASSUME OneClock, ShortCall, Steady, sent \in Streams,
           NEW n \in Nat, NEW k \in Nat, k < n, n * Pace <= MaxClock,
           NEW m, m.seq = SeqOf(k), m.ts = TsOf(k), m.step \in {0, Unit},
           NEW p, p.seq = SeqOf(n), p.ts = TsOf(n)
    PROVE  /\ Gap(m, p) = n - k - 1 /\ Increase(m, p) = (n - k) * Unit
           /\ StepOver(m, p) = Unit
           /\ p.seq = m.seq + 1 => n - k = 1
<1>1. /\ n < SeqSpan \div 2 /\ SeqSpan \in Nat \ {0} /\ SeqSpan % 2 = 0
      /\ SeqOf(n) \in 0 .. (SeqSpan - 1) /\ SeqOf(k) \in 0 .. (SeqSpan - 1)
      /\ Unit \in Nat \ {0}
  <2>1. n < SeqSpan \div 2
    BY SteadyShort
  <2>2. SeqOf(n) \in 0 .. (SeqSpan - 1) /\ SeqOf(k) \in 0 .. (SeqSpan - 1)
    <3>1. n \in Int /\ k \in Int
      OBVIOUS
    <3> QED
      BY ONLY <3>1, NumbersShort
  <2> QED
    BY <2>1, <2>2, SpansAssumption, SteadyStamps
<1>2. n < SeqSpan /\ 1 < SeqSpan
  BY <1>1
<1>3. n - k \in 0 .. (SeqSpan - 1) /\ n - k - 1 \in 0 .. (SeqSpan - 1) /\ n - k \in Nat \ {0}
  BY <1>1, <1>2
<1> DEFINE x == SeqOf(n) - SeqOf(k)
<1>4. x \in Int /\ x % SeqSpan = n - k
  <2>1. x \in Int
    BY <1>1
  <2>2. SeqNo(x) = n - k
    <3>1. n \in Int /\ k \in Int
      OBVIOUS
    <3> QED
      BY ONLY <3>1, <1>3, NumbersShort
  <2> QED
    BY <2>1, <2>2 DEF SeqNo
<1>5. Gap(m, p) = n - k - 1
  <2>1. Gap(m, p) = (x - 1) % SeqSpan
    BY DEF Gap, SeqNo
  <2> HIDE DEF x
  <2>2. ((x % SeqSpan) + (-1)) % SeqSpan = (x + (-1)) % SeqSpan
    <3>1. x \in Int /\ SeqSpan \in Nat \ {0} /\ -1 \in Int
      BY <1>1, <1>4
    <3> QED
      BY ONLY <3>1, GoesOn
  <2>3. (x % SeqSpan) + (-1) = n - k - 1 /\ x + (-1) = x - 1
    BY <1>4
  <2>4. (n - k - 1) % SeqSpan = n - k - 1
    BY <1>1, <1>3, Within
  <2> QED
    BY <2>1, <2>2, <2>3, <2>4
<1>6. Increase(m, p) = (n - k) * Unit
  BY SteadyTs DEF Increase
<1>7. StepOver(m, p) = Unit
  <2>1. Gap(m, p) + 1 = n - k
    BY <1>5
  <2>2. ((n - k) * Unit) \div (n - k) = Unit
    BY <1>1, <1>3, DivideBack
  <2> QED
    BY <1>6, <2>1, <2>2 DEF StepOver
<1>8. ASSUME p.seq = m.seq + 1
      PROVE  n - k = 1
  <2>1. x = 1
    BY <1>1, <1>8
  <2>2. 1 % SeqSpan = 1
    BY <1>1, <1>2, Within
  <2> HIDE DEF x
  <2> QED
    BY <1>4, <2>1, <2>2
<1> QED
  BY <1>5, <1>6, <1>7, <1>8


\* A packet that comes leaves the delay manager standing at what it stood at or
\* at that packet, and makes sync packets up to one before it.
LEMMA SteadyUpdate ==
    ASSUME OneClock, ShortCall, Steady, sent \in Streams,
           NEW c \in 0 .. MaxClock, NEW lag \in Nat, NEW before \in Nat, lag <= before,
           NEW m, DOMAIN m = ManagerFields, m.buffering \in BOOLEAN, Stands(m, before, c),
           NEW n \in Packets, Came(n, lag, c),
           NEW type \in {"audio", "cng", "avt"}, NEW new_codec \in BOOLEAN, NEW hz
    PROVE  LET u == UpdateLastPacket(m, Header(n), NowInTimestamp(khz, c), type, new_codec, hz)
           IN  /\ Stands(u.m, lag, c) /\ StreamTrue(u.sync, lag, c)
               /\ u.sync.num > 0 => NumberOf(u.sync.seq) + u.sync.num = n - 1
<1> DEFINE p == Header(n)
           recv == NowInTimestamp(khz, c)
           u == UpdateLastPacket(m, p, recv, type, new_codec, hz)
<1>1. /\ khz \in Nat \ {0} /\ Pace \in Nat \ {0} /\ Unit \in Nat \ {0} /\ n \in Nat
      /\ \A j \in Nat : StampOf(j) = j * Pace /\ j * Pace \in Nat
      /\ MaxClock \in Nat /\ n * Pace + lag <= c
  <2>1. /\ khz \in Nat \ {0} /\ Pace \in Nat \ {0} /\ Unit \in Nat \ {0} /\ n \in Nat
        /\ \A j \in Nat : StampOf(j) = j * Pace
    BY SteadyStamps
  <2> QED
    BY <2>1, TimesReordered, NumbersAssumption DEF Came
<1>2. n * Pace <= MaxClock
  BY <1>1
<1>3. p.seq = SeqOf(n) /\ p.ts = TsOf(n) /\ p.pt # kInvalidPayloadType
  BY ReceiverAssumption DEF Header, Packets
<1>4. NoSync.num = 0
  BY DEF NoSync
<1>5. ~(NoSync.num > 0) /\ StreamTrue(NoSync, lag, c)
  BY <1>4 DEF StreamTrue
<1> HIDE DEF p
<1>6. CASE Ignored(m, p, type)
  <2>1. u.m = m /\ u.sync = NoSync
    BY <1>6 DEF UpdateLastPacket
  <2>2. Stands(m, lag, c)
    <3>1. CASE ~PacketBuffered(m)
      BY <3>1 DEF Stands
    <3>2. CASE PacketBuffered(m)
      <4>1. PICK k \in Nat, r \in Nat :
                /\ m.seq = SeqOf(k) /\ m.ts = TsOf(k)
                /\ m.recv = NowInTimestamp(khz, r) /\ r <= c /\ Came(k, before, r)
        BY <3>2 DEF Stands
      <4>2. Came(k, lag, r)
        BY <1>1, <4>1 DEF Came
      <4> QED
        BY <4>1, <4>2 DEF Stands
    <3> QED
      BY <3>1, <3>2
  <2> HIDE DEF u
  <2> QED
    BY <1>5, <2>1, <2>2 DEF p, u
<1>7. ASSUME NEW l, l.type = type, l.seq = p.seq, l.ts = p.ts, l.pt = p.pt, l.recv = recv,
             l.step \in {0, Unit}
      PROVE  Stands(l, lag, c)
  <2>1. PacketBuffered(l)
    BY <1>7 DEF PacketBuffered
  <2>2. Came(n, lag, c) /\ c \in Nat /\ c <= c
    OBVIOUS
  <2> QED
    BY <1>1, <1>3, <1>7, <2>1, <2>2 DEF Stands
<1>8. CASE ~Ignored(m, p, type) /\ (new_codec \/ m.pt = kInvalidPayloadType)
  <2> DEFINE l == Restart(m, p, recv, type, hz)
  <2>1. u.m = l /\ u.sync = NoSync
    BY <1>8 DEF UpdateLastPacket
  <2>2. l.type = type /\ l.seq = p.seq /\ l.ts = p.ts /\ l.pt = p.pt /\ l.recv = recv /\ l.step = 0
    <3> HIDE DEF recv
    <3> QED
      BY Restarted
  <2> HIDE DEF u, l
  <2>3. Stands(l, lag, c)
    BY <1>7, <2>2
  <2> QED
    BY <1>5, <2>1, <2>3 DEF p, u
<1>9. CASE ~Ignored(m, p, type) /\ ~new_codec /\ m.pt # kInvalidPayloadType
  <2>1. PICK k \in Nat, r \in Nat :
            /\ m.seq = SeqOf(k) /\ m.ts = TsOf(k)
            /\ m.recv = NowInTimestamp(khz, r) /\ r <= c /\ Came(k, before, r)
    BY <1>9 DEF Stands
  <2>2. m.step \in {0, Unit}
    BY DEF Stands
  <2>3. k < n
    <3>1. Newer(SeqOf(n), SeqOf(k))
      BY <1>3, <1>9, <2>1 DEF Ignored, Stands
    <3>2. k * Pace <= MaxClock
      BY <1>1, <2>1 DEF Came
    <3> QED
      BY <1>1, <1>2, <3>1, <3>2, SteadyOrder
  <2>4. /\ Gap(m, p) = n - k - 1 /\ Increase(m, p) = (n - k) * Unit /\ StepOver(m, p) = Unit
        /\ p.seq = m.seq + 1 => n - k = 1
    BY <1>1, <1>2, <1>3, <2>1, <2>2, <2>3, SteadyGap
  <2> DEFINE num == NumMissing(m, Gap(m, p))
  <2>5. /\ u.m.type = type /\ u.m.seq = p.seq /\ u.m.ts = p.ts /\ u.m.pt = p.pt
        /\ u.m.recv = recv
        /\ u.m.step = IF p.seq = m.seq + 1
                      THEN IF m.type = "audio" THEN Increase(m, p) ELSE m.step
                      ELSE IF Fills(m, p) THEN StepOver(m, p) ELSE m.step
        /\ u.sync = IF Fills(m, p) THEN Rewound(m, p, recv, num, StepOver(m, p)) ELSE NoSync
    <3>1. ~Ignored(m, p, type) /\ m.pt # kInvalidPayloadType /\ ~new_codec
      BY <1>9
    <3> HIDE DEF recv
    <3> QED
      BY <3>1, WentOn
  <2> HIDE DEF u
  <2>7. u.m.step \in {0, Unit}
    <3>1. p.seq = m.seq + 1 => Increase(m, p) = Unit
      <4>1. 1 * Unit = Unit
        BY <1>1
      <4> QED
        BY <2>4, <4>1
    <3> QED
      BY <2>2, <2>4, <2>5, <3>1
  <2>8. Stands(u.m, lag, c)
    BY <1>7, <2>5, <2>7
  <2>9. CASE ~Fills(m, p)
    BY <1>5, <2>5, <2>8, <2>9 DEF p, u
  <2>10. CASE Fills(m, p)
    <3>1. num \in {n - k - 2, n - k - 3} /\ num > 0
      <4>1. num > 0
        BY <2>10 DEF Fills
      <4>2. num = Gap(m, p) - 1 \/ num = Gap(m, p) - 2
        BY DEF NumMissing
      <4> QED
        BY <1>1, <2>4, <4>1, <4>2
    <3>2. u.sync = Rewound(m, p, recv, num, Unit)
      BY <2>4, <2>5, <2>10
    <3> DEFINE first == n - num - 1
    <3> HIDE DEF num
    <3>3. num \in Nat /\ first \in Nat /\ first + num - 1 = n - 2 /\ n - 2 \in Nat
      BY <1>1, <2>3, <3>1
    <3>4. /\ u.sync.num = num /\ u.sync.seq = SeqNo(p.seq - (num + 1))
          /\ u.sync.ts = Ts(p.ts - Unit * (num + 1)) /\ u.sync.step = Unit
      BY <3>2 DEF Rewound
    <3>5. u.sync.seq = SeqOf(first)
      <4>1. n \in Int /\ -(num + 1) \in Int
        BY <1>1, <3>3
      <4>2. SeqNo(SeqOf(n) + (-(num + 1))) = SeqOf(n + (-(num + 1)))
        BY ONLY <4>1, NumbersShort
      <4>3. SeqOf(n) + (-(num + 1)) = SeqOf(n) - (num + 1) /\ n + (-(num + 1)) = first
        <5>1. SeqOf(n) \in Int
          <6>1. SeqOf(n) \in 0 .. (SeqSpan - 1)
            BY ONLY <4>1, NumbersShort
          <6> QED
            BY <6>1, NumbersShort
        <5> QED
          BY <1>1, <3>3, <5>1
      <4> QED
        BY <1>3, <3>4, <4>2, <4>3
    <3>6. u.sync.ts = TsOf(first)
      <4> DEFINE d == -(num + 1)
      <4>1. d \in Int /\ n + d = first
        BY <1>1, <3>3
      <4>2. Ts(TsOf(n) + d * Unit) = TsOf(n + d)
        BY <1>1, <3>3, <4>1, SteadyTs
      <4>3. TsOf(n) \in Int
        <5>1. TsOf(n) \in 0 .. (TsSpan - 1)
          BY <1>1, SteadyTs
        <5> QED
          BY <5>1, NumbersShort
      <4>4. TsOf(n) + d * Unit = TsOf(n) - Unit * (num + 1)
        <5> DEFINE e == num + 1
        <5>1. e \in Int /\ d = -e
          BY <3>3
        <5> HIDE DEF e, d
        <5>2. (0 - e) * Unit = 0 * Unit - e * Unit /\ e * Unit \in Int /\ e * Unit = Unit * e
          BY <1>1, <5>1, TimesDistributes
        <5>3. d = 0 - e /\ 0 * Unit = 0
          BY <1>1, <5>1
        <5>4. d * Unit = 0 - Unit * e /\ Unit * e \in Int
          BY <5>2, <5>3
        <5> HIDE DEF e
        <5>5. TsOf(n) + d * Unit = TsOf(n) - Unit * e
          BY <4>3, <5>4
        <5> QED
          BY <5>5 DEF e
      <4> QED
        BY <1>3, <3>4, <4>1, <4>2, <4>4
    <3>7. Came(first + num - 1, lag, c)
      <4>1. (n - 2) * Pace <= n * Pace
        BY <1>1, <3>3, TimesMonotone
      <4>2. (n - 2) * Pace \in Nat /\ StampOf(n - 2) = (n - 2) * Pace
        BY <1>1, <3>3
      <4>3. StampOf(n - 2) + lag <= c
        <5> DEFINE x == (n - 2) * Pace
                   y == n * Pace
        <5>1. x <= y /\ x \in Nat /\ y \in Nat /\ StampOf(n - 2) = x /\ y + lag <= c
          BY <1>1, <4>1, <4>2
        <5> HIDE DEF x, y
        <5> QED
          BY <5>1
      <4> QED
        BY <3>3, <4>3 DEF Came
    <3>8. StreamTrue(u.sync, lag, c)
      <4> HIDE DEF first
      <4> QED
        BY <3>1, <3>3, <3>4, <3>5, <3>6, <3>7 DEF StreamTrue
    <3>9. NumberOf(u.sync.seq) + u.sync.num = n - 1
      <4>1. n < SeqSpan \div 2 /\ SeqSpan \in Nat \ {0} /\ SeqSpan % 2 = 0
        BY <1>1, <1>2, SteadyShort, SpansAssumption
      <4>2. first \in 0 .. (SeqSpan - 1)
        BY <1>1, <3>3, <4>1
      <4>3. NumberOf(SeqOf(first)) = first
        BY ONLY <4>2, NumbersShort
      <4> QED
        BY <1>1, <3>3, <3>4, <3>5, <4>3
    <3> QED
      BY <2>8, <3>8, <3>9 DEF p, u
  <2> QED
    BY <2>9, <2>10
<1> QED
  BY <1>6, <1>8, <1>9


LEMMA DividedWhole ==
    ASSUME NEW a \in Nat, NEW b \in Nat \ {0}
    PROVE  a \div b \in Nat /\ (a \div b) * b <= a
BY SMT

LEMMA TimesCancels ==
    ASSUME NEW a \in Nat \ {0}, NEW b \in Nat, NEW c \in Nat, a * b <= a * c
    PROVE  b <= c
<1> SUFFICES ASSUME c + 1 <= b PROVE FALSE
  OBVIOUS
<1>1. (c + 1) * a <= b * a
  BY TimesMonotone
<1>2. (c + 1) * a = c * a + 1 * a
  BY TimesDistributes
<1>3. b * a = a * b /\ c * a = a * c /\ a * b \in Nat /\ a * c \in Nat
  BY TimesReordered
<1> DEFINE x == a * b
           y == a * c
<1>4. y + a <= x /\ x <= y /\ x \in Nat /\ y \in Nat
  BY <1>1, <1>2, <1>3
<1> HIDE DEF x, y
<1> QED
  BY <1>4

\* A number that may have been sent is the one its sequence number stands for; so
\* is the number the delay manager stands at.
LEMMA SteadyNumber ==
    ASSUME OneClock, ShortCall, Steady, sent \in Streams, NEW n \in Nat, n * Pace <= MaxClock
    PROVE  NumberOf(SeqOf(n)) = n
<1>1. n < SeqSpan \div 2 /\ SeqSpan \in Nat \ {0} /\ SeqSpan % 2 = 0
  BY SteadyShort, SpansAssumption
<1>2. n \in 0 .. (SeqSpan - 1)
  BY <1>1
<1> QED
  BY ONLY <1>2, NumbersShort

LEMMA StandsAt ==
    ASSUME OneClock, ShortCall, Steady, sent \in Streams,
           NEW c \in 0 .. MaxClock, NEW lag \in Nat, NEW m, Stands(m, lag, c), PacketBuffered(m)
    PROVE  LET n == NumberOf(m.seq)
           IN  n \in Nat /\ n * Pace <= MaxClock /\ m.seq = SeqOf(n) /\ m.ts = TsOf(n)
<1>1. PICK n \in Nat, r \in Nat : /\ m.seq = SeqOf(n) /\ m.ts = TsOf(n) /\ r <= c
                                  /\ Came(n, lag, r)
  BY DEF Stands
<1>2. n * Pace \in Nat /\ StampOf(n) = n * Pace /\ MaxClock \in Nat
  BY SteadyStamps, TimesReordered, NumbersAssumption
<1>3. n * Pace <= MaxClock
  BY <1>1, <1>2 DEF Came
<1> QED
  BY <1>1, <1>3, SteadyNumber

\* The packets late are those that would have come by now.
LEMMA SteadyLate ==
    ASSUME OneClock, ShortCall, Steady, sent \in Streams,
           NEW c \in 0 .. MaxClock, NEW lag \in Nat,
           NEW m, DOMAIN m = ManagerFields, Stands(m, lag, c)
    PROVE  LET l == LatePackets(m, NowInTimestamp(khz, c))
           IN  /\ Stands(l.m, lag, c) /\ StreamTrue(l.sync, lag, c)
               /\ PacketBuffered(m) => NumberOf(m.seq) <= NumberOf(l.m.seq)
<1> DEFINE now == NowInTimestamp(khz, c)
           l == LatePackets(m, now)
           ahead == SeqNo(LateOnes(m, now) + Offset(m) - 1)
<1>1. NoSync.num = 0
  BY DEF NoSync
<1>2. CASE ~LateMade(m, now)
  <2>1. l.m = m /\ l.sync = NoSync
    <3>1. l = [m |-> m, sync |-> NoSync]
      BY <1>2, Zenon DEF LatePackets, LateMade, LateOnes, Offset
    <3> HIDE DEF l
    <3> QED
      BY <3>1
  <2> HIDE DEF l
  <2>2. PacketBuffered(m) => NumberOf(m.seq) <= NumberOf(l.m.seq)
    <3>1. PacketBuffered(m) => NumberOf(m.seq) \in Nat
      BY StandsAt
    <3> QED
      BY <2>1, <3>1
  <2> QED
    BY <1>1, <2>1, <2>2 DEF StreamTrue, l
<1>3. CASE LateMade(m, now)
  <2>1. /\ l.m.type = "sync" /\ l.m.pt = m.audioPt /\ l.m.step = m.step
        /\ l.m.seq = SeqNo(m.seq + ahead) /\ l.m.ts = Ts(m.ts + ahead * m.step)
        /\ l.m.recv = Ts(m.recv + ahead * m.step)
        /\ l.sync = [num |-> LateOnes(m, now), seq |-> SeqNo(m.seq + Offset(m)),
                     ts |-> Ts(m.ts + Offset(m) * m.step), pt |-> m.audioPt,
                     recv |-> Ts(m.recv + Offset(m) * m.step), step |-> m.step]
    <3> HIDE DEF now
    <3> QED
      BY <1>3, Late
  <2>2. m.step = Unit /\ m.type # "undefined" /\ m.audioPt # kInvalidPayloadType
    BY <1>3 DEF LateMade, CannotEstimate, Stands
  <2>3. PICK n \in Nat, r \in Nat :
            /\ m.seq = SeqOf(n) /\ m.ts = TsOf(n)
            /\ m.recv = NowInTimestamp(khz, r) /\ r <= c /\ Came(n, lag, r)
    BY <2>2 DEF Stands, PacketBuffered
  <2>4. /\ khz \in Nat \ {0} /\ Pace \in Nat \ {0} /\ Unit \in Nat \ {0} /\ Unit = khz * Pace
        /\ MaxClock \in Nat /\ \A j \in Nat : StampOf(j) = j * Pace /\ j * Pace \in Nat
    BY SteadyStamps, NumbersAssumption, TimesReordered DEF Unit
  <2> DEFINE late == NumLate(m, now)
             off == Offset(m)
  <2>5. Ts(now - m.recv) = khz * (c - r) /\ c - r \in Nat /\ khz * (c - r) \in Nat
    <3>1. r \in 0 .. c /\ c - r \in Nat
      BY <2>3
    <3> QED
      BY <2>3, <2>4, <3>1, SteadyClock, TimesReordered
  <2>6. late \in Nat /\ late * Unit <= khz * (c - r)
    <3>1. late = (khz * (c - r)) \div Unit
      BY <2>2, <2>5 DEF NumLate
    <3> QED
      BY <2>4, <2>5, <3>1, DividedWhole
  <2> HIDE DEF late, now
  <2>7. late * Pace <= c - r /\ late * Pace \in Nat
    <3>1. late * Unit = khz * (late * Pace) /\ late * Pace \in Nat
      BY <2>4, <2>6, TimesReordered
    <3> QED
      BY <2>4, <2>5, <2>6, <3>1, TimesCancels
  <2>8. off \in {1, 2} /\ late >= 1
    <3>1. ~(late < late_packet_threshold)
      BY <1>3 DEF LateMade, late
    <3> QED
      BY <2>6, <3>1, ThresholdAssumption DEF Offset
  <2>9. LateOnes(m, now) = late - (off - 1) /\ LateOnes(m, now) # 0
    BY <1>3 DEF LateMade, LateOnes, late
  <2> HIDE DEF off
  <2>10. LateOnes(m, now) \in Nat /\ LateOnes(m, now) + off - 1 = late
    BY <2>6, <2>8, <2>9
  <2>11. /\ StampOf(n + late) = n * Pace + late * Pace /\ n + late \in Nat
         /\ n * Pace \in Nat /\ n * Pace + lag <= r
    <3>1. (n + late) * Pace = n * Pace + late * Pace
      BY <2>4, <2>6, TimesDistributes
    <3> QED
      BY <2>3, <2>4, <2>6, <3>1 DEF Came
  <2> DEFINE x == n * Pace
             y == late * Pace
  <2>12. x \in Nat /\ y \in Nat /\ x + lag <= r /\ y <= c - r /\ StampOf(n + late) = x + y
         /\ StampOf(n + late) = (n + late) * Pace
    BY <2>4, <2>7, <2>11
  <2> HIDE DEF x, y
  <2>13. Came(n + late, lag, r + y) /\ Came(n + late, lag, c) /\ r + y <= c /\ r + y \in Nat
         /\ (n + late) * Pace <= MaxClock
    BY <2>3, <2>4, <2>12 DEF Came
  <2>14. ahead = late
    <3>1. late < SeqSpan
      <4>1. n + late < SeqSpan \div 2 /\ SeqSpan \in Nat \ {0} /\ SeqSpan % 2 = 0
        BY <2>11, <2>13, SteadyShort, SpansAssumption
      <4> QED
        BY <2>6, <4>1
    <3>2. late \in 0 .. (SeqSpan - 1) /\ SeqSpan \in Nat \ {0}
      BY <2>6, <3>1, NumbersShort
    <3>3. late % SeqSpan = late
      BY ONLY <3>2, Within
    <3>4. ahead = (LateOnes(m, now) + off - 1) % SeqSpan
      BY DEF SeqNo, off
    <3> QED
      BY <2>10, <3>3, <3>4
  <2> HIDE DEF l, ahead
  <2>15. \A d \in Nat : /\ SeqNo(m.seq + d) = SeqOf(n + d)
                        /\ Ts(m.ts + d * m.step) = TsOf(n + d)
    <3> SUFFICES ASSUME NEW d \in Nat
                 PROVE  /\ SeqNo(m.seq + d) = SeqOf(n + d)
                        /\ Ts(m.ts + d * m.step) = TsOf(n + d)
      OBVIOUS
    <3>1. n \in Int /\ d \in Int /\ n + d \in Nat
      OBVIOUS
    <3>2. SeqNo(SeqOf(n) + d) = SeqOf(n + d)
      BY ONLY <3>1, NumbersShort
    <3>3. Ts(TsOf(n) + d * Unit) = TsOf(n + d)
      BY <3>1, SteadyTs
    <3> QED
      BY <2>2, <2>3, <3>2, <3>3
  <2>16. Stands(l.m, lag, c)
    <3>1. l.m.seq = SeqOf(n + late) /\ l.m.ts = TsOf(n + late)
      BY <2>1, <2>6, <2>14, <2>15
    <3>2. l.m.recv = NowInTimestamp(khz, r + y)
      <4>1. late * Unit = khz * y
        BY <2>4, <2>6, TimesReordered DEF y
      <4>2. r \in 0 .. MaxClock /\ y \in Int /\ r + y \in 0 .. MaxClock
        BY <2>3, <2>4, <2>12, <2>13
      <4>3. Ts(NowInTimestamp(khz, r) + khz * y) = NowInTimestamp(khz, r + y)
        BY <4>2, SteadyClock
      <4> QED
        BY <2>1, <2>2, <2>3, <2>14, <4>1, <4>3
    <3>3. PacketBuffered(l.m) /\ l.m.pt # kInvalidPayloadType /\ l.m.step = Unit
      BY <2>1, <2>2 DEF PacketBuffered
    <3> QED
      BY <2>11, <2>13, <3>1, <3>2, <3>3 DEF Stands
  <2>17. StreamTrue(l.sync, lag, c)
    <3>1. /\ l.sync.num = LateOnes(m, now) /\ l.sync.seq = SeqOf(n + off)
          /\ l.sync.ts = TsOf(n + off) /\ l.sync.step = Unit
      <4>1. off \in Nat
        BY <2>8
      <4> QED
        BY <2>1, <2>2, <2>15, <4>1 DEF off
    <3>2. n + off \in Nat /\ (n + off) + LateOnes(m, now) - 1 = n + late
      BY <2>8, <2>10
    <3> QED
      BY <2>10, <2>13, <3>1, <3>2 DEF StreamTrue
  <2>18. NumberOf(m.seq) <= NumberOf(l.m.seq)
    <3>1. n * Pace <= MaxClock
      BY <2>3, <2>4, <2>12 DEF x
    <3>2. NumberOf(m.seq) = n
      BY <2>3, <3>1, SteadyNumber
    <3>3. NumberOf(l.m.seq) = n + late
      <4>1. NumberOf(SeqOf(n + late)) = n + late
        BY <2>11, <2>13, SteadyNumber
      <4> QED
        BY <2>1, <2>6, <2>14, <2>15, <4>1
    <3> QED
      BY <2>6, <3>2, <3>3
  <2> QED
    BY <2>16, <2>17, <2>18 DEF l, now
<1> QED
  BY <1>2, <1>3


-----------------------------------------------------------------------------
(* What NetEq holds.                                                        *)

\* A packet with the timestamp of its number keeps what is held true.
LEMMA AddTrue ==
    ASSUME NEW q, DOMAIN q = NetEqFields, NEW lag, NEW now, HeldTrue(q, lag, now),
           NEW p, NEW sync,
           NumberOf(p.seq) \in Nat, p.ts = TsOf(NumberOf(p.seq)),
           sync => Came(NumberOf(p.seq), lag, now)
    PROVE  LET a == Add(q, p, sync)
           IN  DOMAIN a = NetEqFields /\ HeldTrue(a, lag, now) /\ a.khz = q.khz
<1> DEFINE same == {h \in q.held : h.ts = p.ts}
           x == [no |-> NumberOf(p.seq), ts |-> p.ts, sync |-> sync]
           held == (q.held \ same) \cup {x}
           new == [q EXCEPT !.held = held]
<1>1. Add(q, p, sync) \in {q, new}
  BY DEF Add
<1>2. \A h \in held : h.no \in Nat /\ h.ts = TsOf(h.no) /\ (h.sync => Came(h.no, lag, now))
  BY DEF HeldTrue
<1> HIDE DEF held
<1>3. DOMAIN new = NetEqFields /\ new.held = held /\ new.khz = q.khz
  BY DEF NetEqFields
<1> HIDE DEF new
<1>4. HeldTrue(new, lag, now)
  BY <1>2, <1>3 DEF HeldTrue
<1> QED
  BY <1>1, <1>3, <1>4

LEMMA FreshTrue ==
    ASSUME NEW q, DOMAIN q = NetEqFields, NEW lag, NEW now
    PROVE  DOMAIN Fresh(q) = NetEqFields /\ HeldTrue(Fresh(q), lag, now) /\ Fresh(q).khz = q.khz
<1>1. Fresh(q).held = {} /\ DOMAIN Fresh(q) = NetEqFields /\ Fresh(q).khz = q.khz
  BY DEF Fresh, NetEqFields
<1> QED
  BY <1>1 DEF HeldTrue

LEMMA InsertTrue ==
    ASSUME OneClock, NEW q, DOMAIN q = NetEqFields, NEW lag, NEW now, HeldTrue(q, lag, now),
           q.khz = khz, NEW p, NEW codec \in Codecs,
           NumberOf(p.seq) \in Nat, p.ts = TsOf(NumberOf(p.seq))
    PROVE  LET a == InsertPacket(q, p, codec) IN HeldTrue(a, lag, now) /\ a.khz = khz
<1> DEFINE first == q.pt = kInvalidPayloadType
           changed == codec \in AudioCodecs /\ p.pt # q.pt
           flush == first \/ changed \/ Cardinality(q.held) = MaxPackets
           refused == codec = "avt" \/ codec \notin q.known
           a == Add(IF flush THEN Fresh(q) ELSE q, p, FALSE)
           pt == IF first \/ changed THEN p.pt ELSE a.pt
           rate1 == IF flush THEN OutKhz[codec] ELSE a.khz
           i == InsertPacket(q, p, codec)
<1>1. i = IF refused THEN [q EXCEPT !.pt = IF first THEN p.pt ELSE q.pt]
          ELSE [a EXCEPT !.pt = pt, !.khz = rate1]
  BY DEF InsertPacket
<1>2. DOMAIN a = NetEqFields /\ HeldTrue(a, lag, now) /\ a.khz = khz
  <2>1. CASE flush
    <3>1. a = Add(Fresh(q), p, FALSE)
      BY <2>1
    <3> HIDE DEF a, flush
    <3> DEFINE f == Fresh(q)
    <3>2. DOMAIN f = NetEqFields /\ HeldTrue(f, lag, now) /\ f.khz = khz
      BY FreshTrue
    <3> HIDE DEF f
    <3>3. LET b == Add(f, p, FALSE)
          IN  DOMAIN b = NetEqFields /\ HeldTrue(b, lag, now) /\ b.khz = f.khz
      BY <3>2, AddTrue
    <3> QED
      BY <3>1, <3>2, <3>3 DEF f
  <2>2. CASE ~flush
    <3>1. a = Add(q, p, FALSE)
      BY <2>2
    <3> HIDE DEF a, flush
    <3> QED
      BY <3>1, AddTrue
  <2> QED
    BY <2>1, <2>2
<1> HIDE DEF a
<1>3. rate1 = khz
  BY <1>2 DEF OneClock
<1> HIDE DEF pt, rate1, i, refused
<1>4. CASE refused
  <2>1. i.held = q.held /\ i.khz = khz
    BY <1>1, <1>4 DEF NetEqFields
  <2> QED
    BY <2>1 DEF HeldTrue, i
<1>5. CASE ~refused
  <2>1. i.held = a.held /\ i.khz = khz
    BY <1>1, <1>2, <1>3, <1>5 DEF NetEqFields
  <2> QED
    BY <1>2, <2>1 DEF HeldTrue, i
<1> QED
  BY <1>4, <1>5

LEMMA InsertSyncTrue ==
    ASSUME NEW q, DOMAIN q = NetEqFields, NEW lag, NEW now, HeldTrue(q, lag, now), NEW p,
           NumberOf(p.seq) \in Nat, p.ts = TsOf(NumberOf(p.seq)),
           Came(NumberOf(p.seq), lag, now)
    PROVE  LET a == InsertSyncPacket(q, p) IN HeldTrue(a, lag, now) /\ a.khz = q.khz
<1> DEFINE f == Fresh(q)
<1>1. InsertSyncPacket(q, p) \in {q, Add(f, p, TRUE), Add(q, p, TRUE)}
  BY DEF InsertSyncPacket
<1>2. DOMAIN f = NetEqFields /\ HeldTrue(f, lag, now) /\ f.khz = q.khz
  BY FreshTrue
<1> HIDE DEF f
<1>3. ASSUME NEW sync
      PROVE  HeldTrue(Add(f, p, sync), lag, now) /\ Add(f, p, sync).khz = f.khz
  BY <1>2, AddTrue
<1>4. ASSUME NEW sync
      PROVE  HeldTrue(Add(q, p, sync), lag, now) /\ Add(q, p, sync).khz = q.khz
  BY AddTrue
<1> QED
  BY <1>1, <1>2, <1>3, <1>4

LEMMA PulledTrue ==
    ASSUME NEW q, DOMAIN q = NetEqFields, NEW lag, NEW now, HeldTrue(q, lag, now),
           NEW r \in Pulled(q)
    PROVE  HeldTrue(r, lag, now) /\ r.khz = q.khz
<1>1. ASSUME NEW held \in SUBSET q.held, NEW n, NEW s,
             s \in {[q EXCEPT !.held = held],
                   [q EXCEPT !.held = held, !.decoded = n, !.reached = n]}
      PROVE  HeldTrue(s, lag, now) /\ s.khz = q.khz
  <2>1. s.held = held /\ s.khz = q.khz
    BY <1>1 DEF NetEqFields
  <2> QED
    BY <2>1 DEF HeldTrue
<1> DEFINE useful == {h \in q.held : h.no > q.reached}
<1>2. useful \in SUBSET q.held /\ \A h : useful \ {h} \in SUBSET q.held
  OBVIOUS
<1>3. \/ r = [q EXCEPT !.held = useful]
      \/ \E h \in useful : r = [q EXCEPT !.held = useful \ {h}, !.decoded = h.no,
                                         !.reached = h.no]
  BY DEF Pulled
<1> HIDE DEF useful
<1>4. CASE r = [q EXCEPT !.held = useful]
  BY <1>1, <1>2, <1>4
<1>5. ASSUME NEW h \in useful,
             r = [q EXCEPT !.held = useful \ {h}, !.decoded = h.no, !.reached = h.no]
      PROVE  HeldTrue(r, lag, now) /\ r.khz = q.khz
  <2> DEFINE rest == useful \ {h}
  <2>1. rest \in SUBSET q.held
    BY <1>2
  <2> HIDE DEF rest
  <2>2. r = [q EXCEPT !.held = rest, !.decoded = h.no, !.reached = h.no]
    BY <1>5 DEF rest
  <2> QED
    BY <1>1, <2>1, <2>2
<1> QED
  BY <1>3, <1>4, <1>5


\* The first of a stream of sync packets may have come, and is as the packet of its
\* number; so is the rest of the stream.
LEMMA AdvancedTrue ==
    ASSUME OneClock, ShortCall, Steady, sent \in Streams,
           NEW lag \in Nat, NEW now \in 0 .. MaxClock, NEW s, NEW span \in Nat,
           SyncTyped(s, span), s.num > 0, StreamTrue(s, lag, now)
    PROVE  /\ NumberOf(s.seq) \in Nat /\ s.ts = TsOf(NumberOf(s.seq))
           /\ Came(NumberOf(s.seq), lag, now) /\ StreamTrue(Advanced(s), lag, now)
<1>1. PICK n \in Nat : /\ s.seq = SeqOf(n) /\ s.ts = TsOf(n) /\ s.step = Unit
                       /\ Came(n + s.num - 1, lag, now)
  BY DEF StreamTrue
<1>2. s.num \in Nat /\ DOMAIN s = SyncFields
  BY DEF SyncTyped
<1>3. /\ Pace \in Nat \ {0} /\ Unit \in Nat \ {0} /\ MaxClock \in Nat
      /\ \A j \in Nat : StampOf(j) = j * Pace /\ j * Pace \in Nat
  BY SteadyStamps, NumbersAssumption, TimesReordered
<1>4. n * Pace <= MaxClock /\ Came(n, lag, now)
  <2> DEFINE k == n + s.num - 1
  <2>1. k \in Nat /\ n <= k
    BY <1>2
  <2> HIDE DEF k
  <2>2. n * Pace <= k * Pace
    BY <1>3, <2>1, TimesMonotone
  <2>3. k * Pace + lag <= now
    BY <1>1, <1>3, <2>1 DEF Came, k
  <2> DEFINE x == n * Pace
             y == k * Pace
  <2>4. x \in Nat /\ y \in Nat /\ x <= y /\ y + lag <= now /\ StampOf(n) = x
    BY <1>3, <2>1, <2>2, <2>3
  <2> HIDE DEF x, y
  <2>5. x <= MaxClock /\ x + lag <= now
    BY <1>3, <2>4
  <2> QED
    BY <2>4, <2>5 DEF Came, x
<1>5. NumberOf(s.seq) = n
  <2>1. n < SeqSpan \div 2 /\ SeqSpan \in Nat \ {0} /\ SeqSpan % 2 = 0
    BY <1>4, SteadyShort, SpansAssumption
  <2>2. n \in 0 .. (SeqSpan - 1)
    BY <2>1
  <2>3. NumberOf(SeqOf(n)) = n
    BY ONLY <2>2, NumbersShort
  <2> QED
    BY <1>1, <2>3
<1> DEFINE a == Advanced(s)
<1>6. /\ a.num = s.num - 1 /\ a.seq = SeqNo(s.seq + 1) /\ a.ts = Ts(s.ts + s.step)
      /\ a.step = s.step
  BY <1>2 DEF Advanced, SyncFields
<1> HIDE DEF a
<1>7. StreamTrue(a, lag, now)
  <2> SUFFICES ASSUME a.num > 0
               PROVE  \E j \in Nat : /\ a.seq = SeqOf(j) /\ a.ts = TsOf(j) /\ a.step = Unit
                                     /\ Came(j + a.num - 1, lag, now)
    BY DEF StreamTrue
  <2>1. n + 1 \in Nat /\ (n + 1) + a.num - 1 = n + s.num - 1
    BY <1>2, <1>6
  <2>2. a.seq = SeqOf(n + 1)
    <3>1. n \in Int /\ 1 \in Int
      OBVIOUS
    <3>2. SeqNo(SeqOf(n) + 1) = SeqOf(n + 1)
      BY ONLY <3>1, NumbersShort
    <3> QED
      BY <1>1, <1>6, <3>2
  <2>3. a.ts = TsOf(n + 1)
    <3>1. Ts(TsOf(n) + 1 * Unit) = TsOf(n + 1)
      BY <2>1, SteadyTs
    <3>2. 1 * Unit = Unit
      BY <1>3
    <3> QED
      BY <1>1, <1>6, <3>1, <3>2
  <2> QED
    BY <1>1, <1>6, <2>1, <2>2, <2>3
<1> QED
  BY <1>1, <1>4, <1>5, <1>7 DEF a


-----------------------------------------------------------------------------
(* Types.                                                                   *)

LEMMA Spans == SeqSpan \in Nat \ {0} /\ TsSpan \in Nat \ {0}
BY SpansAssumption

LEMMA OnCircles ==
    /\ \A n \in Int : Ts(n) \in 0 .. (TsSpan - 1) /\ SeqNo(n) \in 0 .. (SeqSpan - 1)
    /\ \A n \in Int : Ts(n) \in Int /\ SeqNo(n) \in Int
<1>1. ASSUME NEW n \in Int
      PROVE  Ts(n) \in 0 .. (TsSpan - 1) /\ SeqNo(n) \in 0 .. (SeqSpan - 1)
  BY Spans, Places DEF Ts, SeqNo
<1> QED
  BY <1>1, Spans

LEMMA DividedType ==
    ASSUME NEW a \in Nat, NEW b \in Nat \ {0}
    PROVE  a \div b \in 0 .. a
BY SMT

LEMMA NoSyncTyped == SyncTyped(NoSync, SeqSpan) /\ SyncTyped(NoSync, TsSpan)
<1>1. /\ DOMAIN NoSync = SyncFields /\ NoSync.num = 0 /\ NoSync.seq = 0 /\ NoSync.ts = 0
      /\ NoSync.step = 0 /\ NoSync.recv = 0
  BY DEF NoSync, SyncFields
<1> QED
  BY <1>1, Spans DEF SyncTyped

LEMMA AdvancedTyped ==
    ASSUME NEW s, NEW span \in Nat, SyncTyped(s, span), s.num > 0
    PROVE  SyncTyped(Advanced(s), span)
<1> DEFINE a == Advanced(s)
<1>1. DOMAIN s = SyncFields /\ s.num \in 0 .. (span - 1) /\ s.seq \in Int /\ s.ts \in Int
      /\ s.step \in Int /\ s.recv \in Int
  BY Spans DEF SyncTyped
<1>2. /\ DOMAIN a = SyncFields /\ a.num = s.num - 1 /\ a.seq = SeqNo(s.seq + 1)
      /\ a.ts = Ts(s.ts + s.step) /\ a.step = s.step /\ a.recv = Ts(s.recv + s.step)
  BY <1>1 DEF Advanced, SyncFields
<1> HIDE DEF a
<1>3. s.seq + 1 \in Int /\ s.ts + s.step \in Int /\ s.recv + s.step \in Int
      /\ s.num - 1 \in 0 .. (span - 1)
  BY <1>1
<1> QED
  BY <1>1, <1>2, <1>3, OnCircles DEF SyncTyped, a

\* A packet's update keeps the delay manager's types; it misses fewer packets
\* than there are sequence numbers.
LEMMA UpdateTyped ==
    ASSUME NEW m, DOMAIN m = ManagerFields, ManagerTyped(m),
           NEW p, p.seq \in Int, p.ts \in Int, NEW recv \in 0 .. (TsSpan - 1),
           NEW type \in {"audio", "cng", "avt"}, NEW new_codec \in BOOLEAN, NEW hz \in Nat \ {0}
    PROVE  LET u == UpdateLastPacket(m, p, recv, type, new_codec, hz)
           IN  ManagerTyped(u.m) /\ SyncTyped(u.sync, SeqSpan)
<1> DEFINE u == UpdateLastPacket(m, p, recv, type, new_codec, hz)
<1>1. CASE Ignored(m, p, type)
  <2>1. u.m = m /\ u.sync = NoSync
    BY <1>1 DEF UpdateLastPacket
  <2> HIDE DEF u
  <2> QED
    BY <2>1, NoSyncTyped DEF u
<1>2. CASE ~Ignored(m, p, type) /\ (new_codec \/ m.pt = kInvalidPayloadType)
  <2> DEFINE l == Restart(m, p, recv, type, hz)
  <2>1. u.m = l /\ u.sync = NoSync
    BY <1>2 DEF UpdateLastPacket
  <2>2. /\ l.type = type /\ l.seq = p.seq /\ l.ts = p.ts /\ l.recv = recv /\ l.step = 0
        /\ l.delay = m.delay /\ l.buffered = 0 /\ l.buffering \in BOOLEAN
    BY Restarted
  <2>3. type \in {"audio", "cng"}
    BY <1>2 DEF Ignored
  <2> HIDE DEF u, l
  <2>4. ManagerTyped(l)
    BY <2>2, <2>3, Spans DEF ManagerTyped
  <2> QED
    BY <2>1, <2>4, NoSyncTyped DEF u
<1>3. CASE ~Ignored(m, p, type) /\ ~new_codec /\ m.pt # kInvalidPayloadType
  <2>1. /\ u.m.type = type /\ u.m.seq = p.seq /\ u.m.ts = p.ts
        /\ u.m.recv = recv /\ u.m.delay = m.delay
        /\ u.m.buffered = IF m.buffering THEN Counted(m, p, hz) ELSE m.buffered
        /\ u.m.buffering \in BOOLEAN
        /\ u.m.step = IF p.seq = m.seq + 1
                      THEN IF m.type = "audio" THEN Increase(m, p) ELSE m.step
                      ELSE IF Fills(m, p) THEN StepOver(m, p) ELSE m.step
        /\ u.sync = IF Fills(m, p)
                    THEN Rewound(m, p, recv, NumMissing(m, Gap(m, p)), StepOver(m, p))
                    ELSE NoSync
    <3>1. ~Ignored(m, p, type) /\ m.pt # kInvalidPayloadType /\ ~new_codec
          /\ m.buffering \in BOOLEAN
      BY <1>3 DEF ManagerTyped
    <3> QED
      BY <3>1, WentOn
  <2> HIDE DEF u
  <2>2. type \in {"audio", "cng"}
    BY <1>3 DEF Ignored
  <2>3. Increase(m, p) \in 0 .. (TsSpan - 1) /\ Gap(m, p) \in 0 .. (SeqSpan - 1)
    <3>1. p.ts - m.ts \in Int /\ p.seq - m.seq - 1 \in Int
      BY DEF ManagerTyped
    <3> QED
      BY <3>1, OnCircles DEF Increase, Gap
  <2>4. StepOver(m, p) \in 0 .. (TsSpan - 1)
    <3>1. CASE m.step # 0
      BY <3>1 DEF StepOver, ManagerTyped
    <3>2. CASE m.step = 0
      <4>1. Increase(m, p) \in Nat /\ Gap(m, p) + 1 \in Nat \ {0}
        BY <2>3
      <4>2. Increase(m, p) \div (Gap(m, p) + 1) \in 0 .. Increase(m, p)
        BY <4>1, DividedType
      <4> DEFINE d == Increase(m, p) \div (Gap(m, p) + 1)
      <4>3. StepOver(m, p) = d
        BY <3>2 DEF StepOver
      <4> HIDE DEF d
      <4> QED
        BY <2>3, <4>2, <4>3, Spans DEF d
    <3> QED
      BY <3>1, <3>2
  <2>5. Counted(m, p, hz) \in Nat
    <3> DEFINE x == Ts(Ts(p.ts - m.ts) * 1000)
    <3>1. x \in 0 .. (TsSpan - 1)
      <4>1. Ts(p.ts - m.ts) \in Int
        BY <2>3 DEF Increase
      <4>2. Ts(p.ts - m.ts) * 1000 \in Int
        BY <4>1
      <4> QED
        BY <4>2, OnCircles
    <3>2. Counted(m, p, hz) = m.buffered + x \div hz
      BY DEF Counted
    <3> HIDE DEF x
    <3>3. x \div hz \in 0 .. x /\ x \in Nat
      BY <3>1, DividedType
    <3> DEFINE y == x \div hz
    <3>4. y \in Nat /\ Counted(m, p, hz) = m.buffered + y
      BY <3>2, <3>3
    <3> HIDE DEF y
    <3> QED
      BY <3>4 DEF ManagerTyped
  <2>6. ManagerTyped(u.m)
    <3>1. u.m.step \in 0 .. (TsSpan - 1)
      BY <2>1, <2>3, <2>4 DEF ManagerTyped
    <3>2. u.m.buffered \in Nat
      BY <2>1, <2>5 DEF ManagerTyped
    <3> QED
      BY <2>1, <2>2, <3>1, <3>2 DEF ManagerTyped
  <2>7. SyncTyped(u.sync, SeqSpan)
    <3>1. CASE ~Fills(m, p)
      BY <2>1, <3>1, NoSyncTyped
    <3>2. CASE Fills(m, p)
      <4> DEFINE num == NumMissing(m, Gap(m, p))
                 step == StepOver(m, p)
      <4>1. num > 0 /\ num \in {Gap(m, p) - 1, Gap(m, p) - 2}
        BY <3>2 DEF Fills, NumMissing
      <4>2. num \in 0 .. (SeqSpan - 1) /\ step \in Int
        <5>1. step \in Int
          BY <2>4, Spans
        <5> DEFINE gap == Gap(m, p)
        <5>2. gap \in 0 .. (SeqSpan - 1) /\ num \in {gap - 1, gap - 2} /\ num > 0
          BY <2>3, <4>1
        <5> HIDE DEF num, gap
        <5>3. num \in 0 .. (SeqSpan - 1)
          BY <5>2, Spans
        <5> QED
          BY <5>1, <5>3
      <4>3. u.sync = Rewound(m, p, recv, num, step)
        BY <2>1, <3>2
      <4> HIDE DEF num, step
      <4>4. /\ DOMAIN u.sync = SyncFields /\ u.sync.num = num /\ u.sync.step = step
            /\ u.sync.seq = SeqNo(p.seq - (num + 1)) /\ u.sync.ts = Ts(p.ts - step * (num + 1))
            /\ u.sync.recv = Ts(recv - step * (num + 1))
        BY <4>3 DEF Rewound, SyncFields
      <4>5. step * (num + 1) \in Int
        BY <4>2
      <4> DEFINE e == step * (num + 1)
      <4>6. p.seq - (num + 1) \in Int /\ p.ts - e \in Int /\ recv - e \in Int
        <5>1. e \in Int /\ recv \in Int
          BY <4>5, Spans
        <5> HIDE DEF e
        <5> QED
          BY <4>2, <5>1
      <4>7. /\ u.sync.seq \in Int /\ u.sync.ts \in Int /\ u.sync.recv \in 0 .. (TsSpan - 1)
        BY <4>4, <4>6, OnCircles
      <4> QED
        BY <4>2, <4>4, <4>7 DEF SyncTyped
    <3> QED
      BY <3>1, <3>2
  <2> QED
    BY <2>6, <2>7 DEF u
<1> QED
  BY <1>1, <1>2, <1>3


LEMMA LateTyped ==
    ASSUME NEW m, DOMAIN m = ManagerFields, ManagerTyped(m), NEW now \in Int
    PROVE  LET l == LatePackets(m, now) IN ManagerTyped(l.m) /\ SyncTyped(l.sync, TsSpan)
<1> DEFINE l == LatePackets(m, now)
           ahead == SeqNo(LateOnes(m, now) + Offset(m) - 1)
           num == LateOnes(m, now)
           off == Offset(m)
<1>1. CASE ~LateMade(m, now)
  <2>1. l = [m |-> m, sync |-> NoSync]
    BY <1>1, Zenon DEF LatePackets, LateMade, LateOnes, Offset
  <2> HIDE DEF l
  <2> QED
    BY <2>1, NoSyncTyped DEF l
<1>2. CASE LateMade(m, now)
  <2>1. /\ l.m.type = "sync" /\ l.m.step = m.step
        /\ l.m.seq = SeqNo(m.seq + ahead) /\ l.m.ts = Ts(m.ts + ahead * m.step)
        /\ l.m.recv = Ts(m.recv + ahead * m.step) /\ l.m.delay = m.delay
        /\ l.m.buffered = m.buffered /\ l.m.buffering = m.buffering
        /\ l.sync = [num |-> num, seq |-> SeqNo(m.seq + off),
                     ts |-> Ts(m.ts + off * m.step), pt |-> m.audioPt,
                     recv |-> Ts(m.recv + off * m.step), step |-> m.step]
    BY <1>2, Late
  <2>2. m.step \in Nat \ {0} /\ m.step \in 0 .. (TsSpan - 1) /\ m.recv \in Int
        /\ m.seq \in Int /\ m.ts \in Int
    BY <1>2, Spans DEF LateMade, CannotEstimate, ManagerTyped
  <2>3. NumLate(m, now) \in 0 .. (TsSpan - 1) /\ NumLate(m, now) >= 1
    <3> DEFINE x == Ts(now - m.recv)
    <3>1. x \in 0 .. (TsSpan - 1)
      <4>1. now - m.recv \in Int
        BY <2>2
      <4> QED
        BY <4>1, OnCircles
    <3>2. NumLate(m, now) = x \div m.step
      BY DEF NumLate
    <3> HIDE DEF x
    <3>3. x \in Nat
      BY <3>1
    <3>4. x \div m.step \in 0 .. x
      BY <2>2, <3>3, DividedType
    <3>5. ~(NumLate(m, now) < late_packet_threshold)
      BY <1>2 DEF LateMade
    <3> DEFINE y == x \div m.step
    <3>6. y \in 0 .. x /\ NumLate(m, now) = y
      BY <3>2, <3>4
    <3> HIDE DEF y
    <3> QED
      BY <3>1, <3>5, <3>6, Spans, ThresholdAssumption
  <2>4. off \in {1, 2} /\ num = NumLate(m, now) - (off - 1) /\ num # 0
    BY <1>2 DEF Offset, LateOnes, LateMade
  <2> DEFINE late == NumLate(m, now)
  <2> HIDE DEF off, num, late
  <2>5. num \in 0 .. (TsSpan - 1) /\ num + off - 1 \in Int
    BY <2>3, <2>4, Spans DEF late
  <2>6. ahead \in Int
    BY <2>5, OnCircles DEF num, off
  <2> HIDE DEF ahead, l
  <2>7. /\ m.seq + ahead \in Int /\ ahead * m.step \in Int /\ m.seq + off \in Int
        /\ off * m.step \in Int
    BY <2>2, <2>4, <2>6, TimesDistributes
  <2>8. /\ m.ts + ahead * m.step \in Int /\ m.recv + ahead * m.step \in Int
        /\ m.ts + off * m.step \in Int /\ m.recv + off * m.step \in Int
    <3> DEFINE x == ahead * m.step
               y == off * m.step
    <3>1. x \in Int /\ y \in Int
      BY <2>7
    <3> HIDE DEF x, y
    <3>2. m.ts + x \in Int /\ m.recv + x \in Int /\ m.ts + y \in Int /\ m.recv + y \in Int
      BY <2>2, <3>1
    <3> QED
      BY <3>2 DEF x, y
  <2>9. ManagerTyped(l.m)
    BY <2>1, <2>7, <2>8, OnCircles DEF ManagerTyped
  <2>10. SyncTyped(l.sync, TsSpan)
    <3>1. /\ DOMAIN l.sync = SyncFields /\ l.sync.num = num /\ l.sync.seq = SeqNo(m.seq + off)
          /\ l.sync.ts = Ts(m.ts + off * m.step) /\ l.sync.step = m.step
          /\ l.sync.recv = Ts(m.recv + off * m.step)
      BY <2>1 DEF SyncFields
    <3> QED
      BY <2>2, <2>5, <2>7, <2>8, <3>1, OnCircles DEF SyncTyped
  <2> QED
    BY <2>9, <2>10 DEF l
<1> QED
  BY <1>1, <1>2

LEMMA ValueInvInit == Init => ValueInv
<1> SUFFICES ASSUME Init PROVE ValueInv
  OBVIOUS
<1>1. /\ MaxClock \in Nat /\ heard.lag = MaxClock /\ clock = 0 /\ sent \in Streams
      /\ last_audio = None /\ registered = Codecs
  BY NumbersAssumption DEF Init, Unheard
<1>2. rate \in Nat /\ neteq.khz \in Nat
  <2>1. rate \in {OutKhz[c] : c \in AudioCodecs} /\ neteq = NewNetEq(rate)
    BY DEF Init
  <2>2. rate \in Nat
    BY <2>1, NumbersAssumption DEF Codecs
  <2> QED
    BY <2>1, <2>2 DEF NewNetEq
<1>3. /\ av.on \in BOOLEAN /\ av.m = NewManager(0) /\ av.missing = NoSync /\ av.late = NoSync
  BY DEF Init, NoAv
<1>4. ManagerTyped(NewManager(0))
  BY Spans DEF NewManager, ManagerTyped
<1> QED
  BY <1>1, <1>2, <1>3, <1>4, NoSyncTyped DEF Init, IdleNet, IdlePlay, ValueInv


LEMMA MinMaxOf ==
    ASSUME NEW a \in Int, NEW b \in Int
    PROVE  /\ Min({a, b}) = IF a <= b THEN a ELSE b
           /\ Max({a, b}) = IF a >= b THEN a ELSE b
BY DEF Min, Max

\* The rate NetEq decodes to is the one it had or that of the codec inserted, and it
\* knows the codecs it knew.
LEMMA NetEqRate ==
    ASSUME NEW q, DOMAIN q = NetEqFields, NEW p, NEW codec
    PROVE  /\ InsertPacket(q, p, codec).khz \in {q.khz, OutKhz[codec]}
           /\ InsertSyncPacket(q, p).khz = q.khz
           /\ \A r \in Pulled(q) : r.khz = q.khz /\ r.known = q.known
           /\ InsertPacket(q, p, codec).known = q.known
           /\ InsertSyncPacket(q, p).known = q.known
<1>1. ASSUME NEW r, DOMAIN r = NetEqFields, NEW sync
      PROVE  DOMAIN Add(r, p, sync) = NetEqFields /\ Add(r, p, sync).khz = r.khz
             /\ Add(r, p, sync).known = r.known
  BY <1>1 DEF Add, NetEqFields
<1>2. DOMAIN Fresh(q) = NetEqFields /\ Fresh(q).khz = q.khz /\ Fresh(q).known = q.known
  BY DEF Fresh, NetEqFields
<1> DEFINE f == Fresh(q)
<1>3. ASSUME NEW sync
      PROVE  /\ DOMAIN Add(f, p, sync) = NetEqFields /\ Add(f, p, sync).khz = q.khz
             /\ DOMAIN Add(q, p, sync) = NetEqFields /\ Add(q, p, sync).khz = q.khz
             /\ Add(f, p, sync).known = q.known /\ Add(q, p, sync).known = q.known
  <2> HIDE DEF f
  <2> QED
    BY <1>1, <1>2 DEF f
<1>4. /\ InsertPacket(q, p, codec).khz \in {q.khz, OutKhz[codec]}
      /\ InsertPacket(q, p, codec).known = q.known
  <2> DEFINE first == q.pt = kInvalidPayloadType
             changed == codec \in AudioCodecs /\ p.pt # q.pt
             flush == first \/ changed \/ Cardinality(q.held) = MaxPackets
             refused == codec = "avt" \/ codec \notin q.known
             a == Add(IF flush THEN f ELSE q, p, FALSE)
             pt == IF first \/ changed THEN p.pt ELSE a.pt
             rate1 == IF flush THEN OutKhz[codec] ELSE a.khz
             i == InsertPacket(q, p, codec)
  <2>1. i = IF refused THEN [q EXCEPT !.pt = IF first THEN p.pt ELSE q.pt]
            ELSE [a EXCEPT !.pt = pt, !.khz = rate1]
    BY DEF InsertPacket
  <2>2. DOMAIN a = NetEqFields /\ a.khz = q.khz /\ a.known = q.known
    <3>1. a = Add(f, p, FALSE) \/ a = Add(q, p, FALSE)
      OBVIOUS
    <3> HIDE DEF a, f
    <3> QED
      BY <1>3, <3>1
  <2> HIDE DEF a
  <2>3. rate1 \in {q.khz, OutKhz[codec]}
    BY <2>2
  <2> HIDE DEF pt, rate1, i, refused
  <2>4. i.khz \in {q.khz, rate1} /\ i.known = q.known
    BY <2>1, <2>2 DEF NetEqFields
  <2> QED
    BY <2>3, <2>4 DEF i
<1>5. InsertSyncPacket(q, p).khz = q.khz /\ InsertSyncPacket(q, p).known = q.known
  <2> HIDE DEF f
  <2>1. /\ Add(f, p, TRUE).khz = q.khz /\ Add(q, p, TRUE).khz = q.khz
        /\ Add(f, p, TRUE).known = q.known /\ Add(q, p, TRUE).known = q.known
    BY <1>3, Zenon
  <2> DEFINE af == Add(f, p, TRUE)
             aq == Add(q, p, TRUE)
  <2>2. InsertSyncPacket(q, p) \in {q, af, aq}
    BY DEF InsertSyncPacket, f
  <2> HIDE DEF af, aq
  <2>3. /\ af.khz = q.khz /\ aq.khz = q.khz
        /\ af.known = q.known /\ aq.known = q.known
    BY <2>1, Zenon DEF af, aq
  <2> QED
    BY <2>2, <2>3
<1>6. \A r \in Pulled(q) : r.khz = q.khz /\ r.known = q.known
  BY DEF Pulled, NetEqFields
<1> QED
  BY <1>4, <1>5, <1>6

\* Where the packets of any stream stand in time.
LEMMA StreamTimes ==
    ASSUME sent \in Streams, NEW n \in Packets
    PROVE  /\ n \in Nat /\ StampOf(n) \in Nat /\ sent[n].codec \in Codecs
           /\ ClockOf(n) \in Nat \ {0} /\ ClockOf(n) = Khz[sent[n].codec]
           /\ Header(n).seq = SeqOf(n) /\ Header(n).ts = TsOf(n)
           /\ Header(n).seq \in Int /\ Header(n).ts \in Int
<1>1. /\ n \in Nat /\ sent[n].at \in Nat /\ sent[n].codec \in Codecs
  BY StreamsAssumption, ReceiverAssumption DEF Packets
<1>2. StampOf(n) = sent[n].at /\ ClockOf(n) = Khz[sent[n].codec]
  BY DEF StampOf, ClockOf
<1>3. ClockOf(n) \in Nat \ {0}
  BY <1>1, <1>2, NumbersAssumption
<1>4. SeqStart + n \in Int /\ TsStart + ClockOf(n) * StampOf(n) \in Int
  <2>1. ClockOf(n) * StampOf(n) \in Nat
    BY <1>1, <1>2, <1>3, TimesReordered
  <2> QED
    BY <1>1, <2>1, NumbersAssumption
<1>5. SeqOf(n) \in Int /\ TsOf(n) \in Int
  BY <1>4, OnCircles DEF SeqOf, TsOf
<1> QED
  BY <1>1, <1>2, <1>3, <1>5 DEF Header

\* What an arrival that is not refused makes of the history.
LEMMA ArrivalHeard ==
    ASSUME Shapes, ValueInv, NEW n \in Packets, Arrive(n), ~Refused(sent[n].codec)
    PROVE  LET codec == sent[n].codec
               new_codec == codec \in AudioCodecs /\ codec # last_audio
           IN  /\ heard'.lag \in Nat /\ heard'.lag <= heard.lag
               /\ StampOf(n) + heard'.lag <= clock
               /\ new_codec => /\ heard'.first = n /\ heard'.newest = n /\ ~heard'.crowded
                               /\ heard'.overtaken <=>
                                    heard.overtaken
                                      \/ (av.on /\ Ignored(av.m, Header(n), "audio"))
               /\ ~new_codec => /\ heard'.first = heard.first /\ heard'.crowded = heard.crowded
                                /\ heard'.overtaken = heard.overtaken
                                /\ heard'.newest = IF codec = "avt" THEN heard.newest
                                                   ELSE Max({n, heard.newest})
<1> DEFINE codec == sent[n].codec
           new_codec == codec \in AudioCodecs /\ codec # last_audio
           over == heard.overtaken \/ (av.on /\ Ignored(av.m, Header(n), "audio"))
           newest == IF codec = "avt" THEN heard.newest ELSE Max({n, heard.newest})
           h == IF new_codec
                THEN [heard EXCEPT !.first = n, !.newest = n, !.crowded = FALSE,
                                   !.overtaken = over]
                ELSE [heard EXCEPT !.newest = newest]
           lag == Min({clock - StampOf(n), h.lag})
<1>1. heard' = [h EXCEPT !.lag = lag]
  BY DEF Arrive, ArrivalUpdates
<1>2. DOMAIN heard = {"first", "newest", "lag", "crowded", "overtaken"}
  BY DEF Shapes
<1> HIDE DEF newest
<1>3. ~new_codec => /\ DOMAIN h = DOMAIN heard /\ h.first = heard.first
                    /\ h.crowded = heard.crowded /\ h.lag = heard.lag
                    /\ h.overtaken = heard.overtaken /\ h.newest = newest
  BY <1>2
<1>4. new_codec => /\ DOMAIN h = DOMAIN heard /\ h.first = n /\ h.newest = n /\ ~h.crowded
                   /\ h.lag = heard.lag /\ (h.overtaken <=> over)
  <2> HIDE DEF over
  <2>1. over \in BOOLEAN
    BY Zenon DEF over
  <2> QED
    BY <1>2, <2>1
<1>5. StampOf(n) \in Nat /\ StampOf(n) <= clock /\ clock \in Nat /\ heard.lag \in Nat
      /\ h.lag = heard.lag /\ DOMAIN h = DOMAIN heard
  BY <1>3, <1>4, StreamTimes, NumbersAssumption DEF Arrive, ValueInv
<1> HIDE DEF h
<1>6. lag \in Nat /\ lag <= heard.lag /\ StampOf(n) + lag <= clock
  BY <1>5, MinMaxOf
<1> HIDE DEF lag
<1>7. /\ heard'.lag = lag /\ heard'.first = h.first /\ heard'.newest = h.newest
      /\ heard'.crowded = h.crowded /\ heard'.overtaken = h.overtaken
  BY <1>1, <1>2, <1>5
<1> QED
  BY <1>3, <1>4, <1>6, <1>7 DEF newest

LEMMA NowTyped ==
    ASSUME NEW k \in Nat, NEW ms \in Nat
    PROVE  NowInTimestamp(k, ms) \in 0 .. (TsSpan - 1)
<1> DEFINE c == (ClockStart + ms) % ClockSpan
<1>1. c \in Nat
  BY NumbersAssumption
<1> HIDE DEF c
<1>2. k * c \in Int
  BY <1>1, TimesReordered
<1>3. NowInTimestamp(k, ms) = Ts(k * c)
  BY DEF NowInTimestamp, c
<1> QED
  BY <1>2, <1>3, OnCircles

LEMMA ArriveTyped ==
    ASSUME LockInv, ValueInv, NEW n \in Packets, Arrive(n)
    PROVE  ValueInv'
<1> DEFINE codec == sent[n].codec
           p == Header(n)
           new_codec == codec \in AudioCodecs /\ codec # last_audio
           now == NowInTimestamp(Khz[codec], clock)
           u == UpdateLastPacket(av.m, p, now, TypeOf(codec), new_codec, Khz[codec] * 1000)
<1>1. UNCHANGED <<neteq, play, clock, sent>>
  BY DEF Arrive
<1>2. CASE Refused(codec)
  BY <1>1, <1>2 DEF Arrive, receiver, ValueInv, Packets
<1>3. CASE ~Refused(codec)
  <2>1. ArrivalUpdates(n) /\ UNCHANGED <<registered, rate>>
    BY <1>3 DEF Arrive
  <2>2. /\ last_audio' = IF new_codec THEN codec ELSE last_audio
        /\ av' = IF av.on THEN [av EXCEPT !.m = u.m, !.missing = u.sync] ELSE av
    BY <2>1 DEF ArrivalUpdates
  <2>3. heard'.lag \in Nat
    BY <1>3, ArrivalHeard DEF LockInv
  <2>4. /\ codec \in Codecs /\ p.seq \in Int /\ p.ts \in Int
    BY StreamTimes DEF ValueInv
  <2>5. Khz[codec] \in Nat \ {0} /\ clock \in Nat /\ Khz[codec] * 1000 \in Nat \ {0}
    BY <2>4, NumbersAssumption DEF ValueInv
  <2>6. now \in 0 .. (TsSpan - 1)
    BY <2>5, NowTyped
  <2>7. TypeOf(codec) \in {"audio", "cng", "avt"}
    BY <2>4 DEF TypeOf, Codecs
  <2>8. DOMAIN av.m = ManagerFields /\ ManagerTyped(av.m) /\ new_codec \in BOOLEAN
        /\ DOMAIN av = {"on", "m", "missing", "late"}
    BY DEF LockInv, Shapes, ValueInv
  <2>9. ManagerTyped(u.m) /\ SyncTyped(u.sync, SeqSpan)
    <3> DEFINE hz == Khz[codec] * 1000
               type == TypeOf(codec)
    <3>1. hz \in Nat \ {0}
      BY <2>5
    <3> HIDE DEF p, now, new_codec, hz, type
    <3>2. LET v == UpdateLastPacket(av.m, p, now, type, new_codec, hz)
          IN  ManagerTyped(v.m) /\ SyncTyped(v.sync, SeqSpan)
      BY <2>4, <2>6, <2>7, <2>8, <3>1, UpdateTyped DEF type
    <3> QED
      BY <3>2 DEF type, hz
  <2>10. last_audio' \in AudioCodecs \cup {None}
    BY <2>2 DEF ValueInv
  <2>11. net' = [pc |-> "decode", n |-> n] /\ Packets' = Packets
    BY <1>1, <2>1 DEF ArrivalUpdates, Packets
  <2> HIDE DEF u, new_codec
  <2> QED
    BY <1>1, <2>1, <2>2, <2>3, <2>8, <2>9, <2>10, <2>11 DEF ValueInv
<1> QED
  BY <1>2, <1>3

LEMMA PlayStartsTyped ==
    ASSUME LockInv, ValueInv, PlayStarts
    PROVE  ValueInv'
<1> DEFINE m == IF av.on /\ av.m.buffering /\ Crowded(neteq) THEN DisableBuffering(av.m) ELSE av.m
           now == NowInTimestamp(rate', clock')
           l == LatePackets(m, now)
<1>1. /\ clock' = clock + 10 /\ clock + 10 <= MaxClock
      /\ rate' \in {rate, SilenceRate}
      /\ av' = IF av.on THEN [av EXCEPT !.m = l.m, !.late = l.sync] ELSE av
      /\ heard' = [heard EXCEPT !.crowded = @ \/ m # av.m]
      /\ UNCHANGED <<last_audio, registered, neteq, net, sent>> /\ Packets' = Packets
      /\ play'.khz = 0
  BY DEF PlayStarts, Packets, IdlePlay
<1>2. DOMAIN av.m = ManagerFields /\ DOMAIN av = {"on", "m", "missing", "late"}
      /\ DOMAIN heard = {"first", "newest", "lag", "crowded", "overtaken"}
  BY DEF LockInv, Shapes
<1>3. clock' \in 0 .. MaxClock /\ clock' \in Nat
  BY <1>1, NumbersAssumption DEF ValueInv
<1>4. rate' \in Nat
  <2>1. last_audio # None => Khz[last_audio] \in Nat
    BY NumbersAssumption DEF ValueInv, Codecs
  <2> QED
    BY <1>1, <2>1 DEF SilenceRate, ValueInv
<1>5. DOMAIN m = ManagerFields /\ ManagerTyped(m)
  BY <1>2 DEF DisableBuffering, ManagerFields, ManagerTyped, ValueInv
<1>6. now \in Int
  BY <1>3, <1>4, NowTyped
<1> HIDE DEF m, now
<1>7. ManagerTyped(l.m) /\ SyncTyped(l.sync, TsSpan)
  BY <1>5, <1>6, LateTyped
<1> HIDE DEF l
<1>8. heard'.lag = heard.lag
  BY <1>1, <1>2
<1> QED
  BY <1>1, <1>2, <1>3, <1>4, <1>7, <1>8 DEF ValueInv

LEMMA NextSent == [Next]_vars => UNCHANGED sent
BY DEF Next, NetNext, PlayNext, ApiNext, Ended, Arrive, NetLocks, NetSync, NetInsert, PlayStarts,
       PlayLocks, PlaySync, PlayPulls, PlayEnds, SetInitialDelay, EnableNack, DisableNack,
       AddCodec, RemoveCodec, CodecRemoved, FlushBuffers, Call, Elsewhere, vars

LEMMA ValueInvNext == LockInv /\ ValueInv /\ [Next]_vars => ValueInv'
<1> SUFFICES ASSUME LockInv, ValueInv, [Next]_vars PROVE ValueInv'
  OBVIOUS
<1>1. ASSUME NEW n \in Packets, Arrive(n)
      PROVE  ValueInv'
  BY <1>1, ArriveTyped
<1>2. /\ DOMAIN neteq = NetEqFields /\ DOMAIN av = {"on", "m", "missing", "late"}
      /\ DOMAIN net = {"pc", "n"} /\ Packets' = Packets
      /\ DOMAIN play = {"pc", "silence", "khz"}
  BY NextSent DEF LockInv, Bounded, NetEqFields, Shapes, Packets
<1>3. CASE NetLocks \/ PlayLocks
  BY <1>2, <1>3 DEF NetLocks, PlayLocks, receiver, ValueInv
<1>4. CASE NetSync
  <2>1. /\ UNCHANGED <<last_audio, registered, rate, play, clock, sent, heard>>
        /\ net.pc # "idle" /\ net'.n = net.n
    BY <1>2, <1>4 DEF NetSync
  <2>2. CASE av.missing.num > 0
    <3>1. /\ neteq' = InsertSyncPacket(neteq, av.missing)
          /\ av' = [av EXCEPT !.missing = Advanced(av.missing)]
      BY <1>4, <2>2 DEF NetSync
    <3>2. SyncTyped(Advanced(av.missing), SeqSpan)
      BY <2>2, AdvancedTyped, Spans DEF ValueInv
    <3>3. neteq'.khz = neteq.khz
      BY <1>2, <3>1, NetEqRate
    <3> QED
      BY <1>2, <2>1, <3>1, <3>2, <3>3 DEF ValueInv
  <2>3. CASE ~(av.missing.num > 0)
    BY <1>2, <1>4, <2>1, <2>3 DEF NetSync, ValueInv
  <2> QED
    BY <2>2, <2>3
<1>5. CASE NetInsert
  <2> DEFINE codec == sent[net.n].codec
  <2>1. /\ neteq' = InsertPacket(neteq, Header(net.n), codec)
        /\ UNCHANGED <<receiver, play, clock, sent, heard>> /\ net'.pc = "idle"
    BY <1>5 DEF NetInsert, IdleNet
  <2>2. codec \in Codecs
    BY <1>5, StreamTimes DEF NetInsert, ValueInv
  <2>3. neteq'.khz \in {neteq.khz, OutKhz[codec]}
    BY <1>2, <2>1, NetEqRate
  <2>4. neteq'.khz \in Nat
    BY <2>2, <2>3, NumbersAssumption DEF ValueInv
  <2> QED
    BY <1>2, <2>1, <2>4 DEF receiver, ValueInv
<1>6. CASE PlayStarts
  BY <1>6, PlayStartsTyped
<1>7. CASE PlaySync
  <2>1. UNCHANGED <<last_audio, registered, rate, net, clock, sent, heard>>
        /\ play'.khz \in Nat
    BY <1>2, <1>7 DEF PlaySync, IdlePlay, ValueInv
  <2>2. CASE av.late.num > 0
    <3>1. /\ neteq' = InsertSyncPacket(neteq, av.late)
          /\ av' = [av EXCEPT !.late = Advanced(av.late)]
      BY <1>7, <2>2 DEF PlaySync
    <3>2. SyncTyped(Advanced(av.late), TsSpan)
      BY <2>2, AdvancedTyped, Spans DEF ValueInv
    <3>3. neteq'.khz = neteq.khz
      BY <1>2, <3>1, NetEqRate
    <3> QED
      BY <1>2, <2>1, <3>1, <3>2, <3>3 DEF ValueInv
  <2>3. CASE ~(av.late.num > 0)
    BY <1>2, <1>7, <2>1, <2>3 DEF PlaySync, ValueInv
  <2> QED
    BY <2>2, <2>3
<1>8. CASE PlayPulls
  <2>1. neteq' \in Pulled(neteq) /\ UNCHANGED <<receiver, net, clock, sent, heard>>
        /\ play'.khz = neteq.khz
    BY <1>2, <1>8 DEF PlayPulls
  <2> QED
    BY <1>2, <2>1, NetEqRate DEF receiver, ValueInv
<1>9. CASE PlayEnds
  BY <1>2, <1>9 DEF PlayEnds, IdlePlay, ValueInv
<1>10. ASSUME NEW ms \in Delays, SetInitialDelay(ms)
       PROVE  ValueInv'
  <2>1. /\ ManagerTyped(NewManager(ms)) /\ ManagerTyped(NewManager(0))
    BY Spans, NumbersAssumption DEF NewManager, ManagerTyped
  <2>2. av' \in {NoAv, av, [NoAv EXCEPT !.on = TRUE, !.m = NewManager(ms)]}
    BY <1>10 DEF SetInitialDelay
  <2> DEFINE new == [NoAv EXCEPT !.on = TRUE, !.m = NewManager(ms)]
  <2>3. /\ av'.on \in BOOLEAN /\ ManagerTyped(av'.m)
        /\ SyncTyped(av'.missing, SeqSpan) /\ SyncTyped(av'.late, TsSpan)
    <3>1. /\ new.on \in BOOLEAN /\ new.m = NewManager(ms) /\ new.missing = NoSync
          /\ new.late = NoSync
      BY DEF NoAv
    <3>2. /\ NoAv.on \in BOOLEAN /\ NoAv.m = NewManager(0) /\ NoAv.missing = NoSync
          /\ NoAv.late = NoSync
      BY DEF NoAv
    <3> HIDE DEF new
    <3> QED
      BY <2>1, <2>2, <3>1, <3>2, NoSyncTyped DEF ValueInv, new
  <2>4. UNCHANGED <<last_audio, registered, rate, neteq, net, play, clock, sent, heard>>
    BY <1>10 DEF SetInitialDelay, Elsewhere
  <2> QED
    BY <1>2, <2>3, <2>4 DEF ValueInv
<1>11. ASSUME NEW size \in NackSizes, EnableNack(size)
       PROVE  ValueInv'
  BY <1>2, <1>11 DEF EnableNack, Call, Elsewhere, ValueInv
<1>12. ASSUME NEW codec \in AudioCodecs, AddCodec(codec) \/ RemoveCodec(codec) \/ CodecRemoved(codec)
       PROVE  ValueInv'
  <2>1. /\ UNCHANGED <<av, rate, net, play, clock, sent, heard>>
        /\ last_audio' \in {last_audio, None}
        /\ registered' \in {registered, registered \cup {codec}, registered \ {codec}}
    BY <1>12 DEF AddCodec, RemoveCodec, CodecRemoved, Call, Elsewhere, receiver
  <2>2. neteq'.khz = neteq.khz
    <3>1. (ApiNext /\ ~FlushBuffers) \/ FlushBuffers
      BY <1>12 DEF ApiNext
    <3>2. FlushBuffers => neteq'.khz = neteq.khz
      BY <1>2 DEF FlushBuffers, Fresh, NetEqFields
    <3> QED
      BY <1>2, <3>1, <3>2, OnlyKnown DEF SameButKnown, NetEqFields
  <2> QED
    BY <1>2, <2>1, <2>2 DEF ValueInv, Codecs
<1>13. CASE DisableNack
  BY <1>2, <1>13 DEF DisableNack, Call, Elsewhere, ValueInv
<1>14. CASE FlushBuffers
  <2>1. neteq'.khz = neteq.khz
    BY <1>2, <1>14 DEF FlushBuffers, Fresh, NetEqFields
  <2> QED
    BY <1>2, <1>14, <2>1 DEF FlushBuffers, Call, Elsewhere, receiver, ValueInv
<1>15. CASE UNCHANGED vars
  BY <1>2, <1>15 DEF vars, receiver, ValueInv
<1> QED
  BY <1>1, <1>3, <1>4, <1>5, <1>6, <1>7, <1>8, <1>9, <1>10, <1>11, <1>12, <1>13, <1>14, <1>15
     DEF Next, NetNext, PlayNext, ApiNext, Ended

\* NetEq knows no codec that is not registered: one is removed from it first, and
\* registered with it last.
KnownInv == neteq.known \subseteq registered

LEMMA KnownInvNext == LockInv /\ KnownInv /\ [Next]_vars => KnownInv'
<1> SUFFICES ASSUME LockInv, KnownInv, [Next]_vars PROVE KnownInv'
  OBVIOUS
<1> USE DEF KnownInv
<1>1. DOMAIN neteq = NetEqFields
  BY DEF LockInv, Bounded
<1>2. ASSUME NEW n \in Packets, Arrive(n)
      PROVE  KnownInv'
  BY <1>2 DEF Arrive, receiver
<1>3. CASE NetLocks \/ PlayStarts \/ PlayLocks \/ PlayEnds
  BY <1>3 DEF NetLocks, PlayStarts, PlayLocks, PlayEnds, receiver
<1>4. CASE NetSync
  BY <1>1, <1>4, NetEqRate DEF NetSync
<1>5. CASE NetInsert
  BY <1>1, <1>5, NetEqRate DEF NetInsert, receiver
<1>6. CASE PlaySync
  BY <1>1, <1>6, NetEqRate DEF PlaySync
<1>7. CASE PlayPulls
  BY <1>1, <1>7, NetEqRate DEF PlayPulls, receiver
<1>8. ASSUME NEW codec \in AudioCodecs, AddCodec(codec) \/ RemoveCodec(codec) \/ CodecRemoved(codec)
      PROVE  KnownInv'
  BY <1>1, <1>8 DEF AddCodec, RemoveCodec, CodecRemoved, NetEqFields, receiver
<1>9. CASE FlushBuffers
  BY <1>1, <1>9 DEF FlushBuffers, Fresh, NetEqFields, receiver
<1>10. CASE DisableNack \/ UNCHANGED vars
  BY <1>10 DEF DisableNack, vars, receiver
<1>11. ASSUME NEW ms \in Delays, SetInitialDelay(ms)
       PROVE  KnownInv'
  BY <1>11 DEF SetInitialDelay
<1>12. ASSUME NEW size \in NackSizes, EnableNack(size)
       PROVE  KnownInv'
  BY <1>12 DEF EnableNack
<1> QED
  BY <1>2, <1>3, <1>4, <1>5, <1>6, <1>7, <1>8, <1>9, <1>10, <1>11, <1>12
     DEF Next, NetNext, PlayNext, ApiNext, Ended

\* The receiver's members keep their types through every interleaving: a stream
\* of sync packets is never longer than the numbers it counts in, and no sum of
\* timestamps leaves its circle.
THEOREM ReceiverTypes == Spec => []TypeOK
<1> DEFINE Inv == LockInv /\ ValueInv /\ KnownInv
<1>1. Init => Inv
  BY LockInvInit, ValueInvInit DEF Init, NewNetEq, KnownInv
<1>2. Inv /\ [Next]_vars => Inv'
  BY ShapesNext, ExclusiveNext, BoundedNext, ValueInvNext, KnownInvNext DEF LockInv
<1>3. Inv => TypeOK
  BY DEF LockInv, Exclusive, Bounded, ValueInv, KnownInv, ManagerTyped, SyncTyped, TypeOK
<1> QED
  BY <1>1, <1>2, <1>3, PTL DEF Spec

-----------------------------------------------------------------------------
(* A steady stream of one clock through the receiver.                       *)

\* NetEq decodes at the rate of the one clock, and so does GetAudio.
LEMMA RateInvInit == OneClock /\ Init => RateInv
<1> SUFFICES ASSUME OneClock, Init PROVE RateInv
  OBVIOUS
<1>1. PICK c \in AudioCodecs : rate = OutKhz[c]
  BY DEF Init
<1>2. rate = khz
  BY <1>1 DEF OneClock, Codecs
<1> QED
  BY <1>2 DEF Init, NewNetEq, IdlePlay, RateInv

LEMMA RateInvNext == OneClock /\ LockInv /\ ValueInv /\ RateInv /\ [Next]_vars => RateInv'
<1> SUFFICES ASSUME OneClock, LockInv, ValueInv, RateInv, [Next]_vars PROVE RateInv'
  OBVIOUS
<1> USE DEF RateInv
<1>1. DOMAIN neteq = NetEqFields /\ DOMAIN play = {"pc", "silence", "khz"}
  BY DEF LockInv, Bounded, Shapes
<1>2. ASSUME NEW n \in Packets, Arrive(n)
      PROVE  RateInv'
  BY <1>2 DEF Arrive, receiver
<1>3. CASE NetLocks \/ PlayLocks \/ PlayEnds
  BY <1>1, <1>3 DEF NetLocks, PlayLocks, PlayEnds, IdlePlay, receiver
<1>4. CASE NetSync
  BY <1>1, <1>4, NetEqRate DEF NetSync
<1>5. CASE NetInsert
  <2> DEFINE codec == sent[net.n].codec
  <2>1. neteq' = InsertPacket(neteq, Header(net.n), codec) /\ UNCHANGED <<rate, play>>
    BY <1>5 DEF NetInsert, receiver
  <2>2. codec \in Codecs
    BY <1>5, StreamTimes DEF NetInsert, ValueInv
  <2>3. neteq'.khz \in {neteq.khz, OutKhz[codec]}
    BY <1>1, <2>1, NetEqRate
  <2> QED
    BY <2>1, <2>2, <2>3 DEF OneClock
<1>6. CASE PlayStarts
  <2>1. rate' \in {rate, SilenceRate} /\ UNCHANGED neteq /\ play'.pc = "decode"
    BY <1>6 DEF PlayStarts, IdlePlay
  <2>2. SilenceRate = khz
    BY DEF SilenceRate, OneClock, ValueInv, Codecs
  <2> QED
    BY <2>1, <2>2
<1>7. CASE PlaySync
  BY <1>1, <1>7, NetEqRate DEF PlaySync, IdlePlay
<1>8. CASE PlayPulls
  <2>1. neteq' \in Pulled(neteq) /\ UNCHANGED rate /\ play'.khz = neteq.khz
    BY <1>1, <1>8 DEF PlayPulls, receiver
  <2> QED
    BY <1>1, <2>1, NetEqRate
<1>9. CASE FlushBuffers
  BY <1>1, <1>9 DEF FlushBuffers, Fresh, NetEqFields, Call, Elsewhere, receiver
<1>10. CASE ApiNext /\ ~FlushBuffers
  <2>1. UNCHANGED <<rate, play>>
    BY <1>10 DEF ApiNext, SetInitialDelay, EnableNack, AddCodec, RemoveCodec, CodecRemoved,
                 DisableNack, Call, Elsewhere, receiver
  <2>2. neteq'.khz = neteq.khz
    BY <1>1, <1>10, OnlyKnown DEF SameButKnown, NetEqFields
  <2> QED
    BY <2>1, <2>2
<1>11. CASE UNCHANGED vars
  BY <1>11 DEF vars, receiver
<1> QED
  BY <1>2, <1>3, <1>4, <1>5, <1>6, <1>7, <1>8, <1>9, <1>10, <1>11 DEF Next, NetNext, PlayNext, Ended

\* What is true of the stream stays so as the stream does.
LEMMA SameStream ==
    ASSUME UNCHANGED sent
    PROVE  /\ Packets' = Packets /\ Pace' = Pace /\ Unit' = Unit /\ (Steady' <=> Steady)
           /\ \A n : StampOf(n)' = StampOf(n) /\ TsOf(n)' = TsOf(n)
BY DEF Packets, Pace, Unit, Steady, StampOf, TsOf, ClockOf

LEMMA PacePrimed ==
    ASSUME UNCHANGED sent,
           Stands(av'.m, heard'.lag, clock'),
           StreamTrue(av'.missing, heard'.lag, clock'), StreamTrue(av'.late, heard'.lag, clock'),
           HeldTrue(neteq', heard'.lag, clock'),
           ~av'.on => av'.missing.num = 0,
           net'.pc # "idle" => StampOf(net'.n) <= clock',
           net'.pc = "decode" /\ av'.missing.num > 0 =>
              NumberOf(av'.missing.seq) + av'.missing.num = net'.n - 1
    PROVE  PaceInv'
<1>1. Stands(av.m, heard.lag, clock)'
  BY SameStream DEF Stands, Came, PacketBuffered
<1>2. StreamTrue(av.missing, heard.lag, clock)' /\ StreamTrue(av.late, heard.lag, clock)'
  BY SameStream DEF StreamTrue, Came
<1>3. HeldTrue(neteq, heard.lag, clock)'
  BY SameStream DEF HeldTrue, Came
<1>4. NetTrue'
  BY SameStream DEF NetTrue
<1> QED
  BY <1>1, <1>2, <1>3, <1>4 DEF PaceInv

\* What may have come by now, for all that is known of the way, may still have later,
\* and when the way is known to be shorter.
LEMMA Relaxed ==
    ASSUME OneClock, Steady, sent \in Streams, NEW lag \in Nat, NEW before \in Nat, lag <= before,
           NEW c \in Nat, NEW now \in Nat, c <= now
    PROVE  /\ \A m : Stands(m, before, c) => Stands(m, lag, now)
           /\ \A s, span : SyncTyped(s, span) /\ StreamTrue(s, before, c) => StreamTrue(s, lag, now)
           /\ \A q : HeldTrue(q, before, c) => HeldTrue(q, lag, now)
<1>1. \A n \in Nat : StampOf(n) \in Nat
  BY SteadyStamps, TimesReordered
<1>2. \A n \in Nat : /\ Came(n, before, c) => Came(n, lag, now)
                     /\ \A r \in Nat : Came(n, before, r) => Came(n, lag, r)
  BY <1>1 DEF Came
<1>3. \A r \in Nat : r <= c => r <= now
  OBVIOUS
<1>4. ASSUME NEW m, Stands(m, before, c)
      PROVE  Stands(m, lag, now)
  BY <1>2, <1>3, <1>4 DEF Stands
<1>5. ASSUME NEW s, NEW span, SyncTyped(s, span), StreamTrue(s, before, c)
      PROVE  StreamTrue(s, lag, now)
  <2>1. s.num > 0 => \A n \in Nat : n + s.num - 1 \in Nat
    BY <1>5 DEF SyncTyped
  <2> QED
    BY <1>2, <1>5, <2>1 DEF StreamTrue
<1>6. ASSUME NEW q, HeldTrue(q, before, c)
      PROVE  HeldTrue(q, lag, now)
  BY <1>2, <1>6 DEF HeldTrue
<1> QED
  BY <1>4, <1>5, <1>6

\* A packet that may have been sent is the one its header's number stands for.
LEMMA HeaderTrue ==
    ASSUME OneClock, ShortCall, Steady, sent \in Streams, NEW n \in Packets,
           NEW c \in 0 .. MaxClock, StampOf(n) <= c
    PROVE  NumberOf(Header(n).seq) = n /\ Header(n).ts = TsOf(n) /\ n \in Nat
<1>1. n \in Nat /\ Header(n).seq = SeqOf(n) /\ Header(n).ts = TsOf(n)
  BY StreamTimes
<1>2. n * Pace <= MaxClock
  <2>1. StampOf(n) = n * Pace /\ n * Pace \in Nat
    BY <1>1, SteadyStamps, TimesReordered
  <2> QED
    BY <2>1, NumbersAssumption
<1> QED
  BY <1>1, <1>2, SteadyNumber

LEMMA PaceInvInit == Init => PaceInv
<1> SUFFICES ASSUME Init PROVE PaceInv
  OBVIOUS
<1>1. av = NoAv /\ neteq = NewNetEq(rate) /\ net = IdleNet
  BY DEF Init
<1>2. Stands(NewManager(0), heard.lag, clock)
  BY DEF Stands, NewManager, PacketBuffered
<1>3. StreamTrue(NoSync, heard.lag, clock) /\ NoSync.num = 0
  BY DEF StreamTrue, NoSync
<1>4. HeldTrue(neteq, heard.lag, clock)
  BY <1>1 DEF HeldTrue, NewNetEq
<1>5. av.m = NewManager(0) /\ av.missing = NoSync /\ av.late = NoSync /\ net.pc = "idle"
  BY <1>1 DEF NoAv, IdleNet
<1> QED
  BY <1>2, <1>3, <1>4, <1>5 DEF PaceInv, NetTrue

LEMMA ArrivePace ==
    ASSUME OneClock, ShortCall, Steady, LockInv, ValueInv, PaceInv, NEW n \in Packets, Arrive(n)
    PROVE  PaceInv'
<1> DEFINE codec == sent[n].codec
           new_codec == codec \in AudioCodecs /\ codec # last_audio
           now == NowInTimestamp(khz, clock)
           u == UpdateLastPacket(av.m, Header(n), now, TypeOf(codec), new_codec, Khz[codec] * 1000)
<1>1. /\ UNCHANGED <<neteq, clock, sent>> /\ net.pc = "idle"
      /\ StampOf(n) <= clock /\ sent \in Streams
      /\ clock \in 0 .. MaxClock /\ clock \in Nat /\ heard.lag \in Nat
  BY NumbersAssumption DEF Arrive, ValueInv
<1>2. /\ Stands(av.m, heard.lag, clock) /\ HeldTrue(neteq, heard.lag, clock)
      /\ StreamTrue(av.missing, heard.lag, clock) /\ StreamTrue(av.late, heard.lag, clock)
      /\ SyncTyped(av.missing, SeqSpan) /\ SyncTyped(av.late, TsSpan)
      /\ ~av.on => av.missing.num = 0
  BY DEF PaceInv, NetTrue, ValueInv
<1>3. CASE Refused(codec)
  <2>1. UNCHANGED <<av, net, heard>>
    BY <1>3 DEF Arrive, receiver
  <2> QED
    BY <1>1, <1>2, <2>1, PacePrimed
<1>4. CASE ~Refused(codec)
  <2>1. /\ heard'.lag \in Nat /\ heard'.lag <= heard.lag /\ Came(n, heard'.lag, clock)
    BY <1>4, ArrivalHeard DEF LockInv, Came
  <2> DEFINE lag == heard'.lag
  <2>2. /\ Stands(av.m, lag, clock) /\ HeldTrue(neteq, lag, clock)
        /\ StreamTrue(av.missing, lag, clock) /\ StreamTrue(av.late, lag, clock)
    <3>1. lag \in Nat /\ lag <= heard.lag /\ clock <= clock
      BY <1>1, <2>1
    <3> HIDE DEF lag
    <3> QED
      BY <1>1, <1>2, <3>1, Relaxed
  <2>3. codec \in Codecs /\ Khz[codec] = khz /\ TypeOf(codec) \in {"audio", "cng", "avt"}
    BY <1>1, StreamTimes DEF OneClock, TypeOf, Codecs
  <2>4. /\ av' = IF av.on THEN [av EXCEPT !.m = u.m, !.missing = u.sync] ELSE av
        /\ net' = [pc |-> "decode", n |-> n]
    BY <1>4, <2>3 DEF Arrive, ArrivalUpdates
  <2>5. /\ DOMAIN av = {"on", "m", "missing", "late"} /\ DOMAIN av.m = ManagerFields
        /\ av.m.buffering \in BOOLEAN /\ new_codec \in BOOLEAN
    BY DEF LockInv, Shapes, ValueInv, ManagerTyped
  <2>6. /\ Stands(u.m, lag, clock) /\ StreamTrue(u.sync, lag, clock)
        /\ u.sync.num > 0 => NumberOf(u.sync.seq) + u.sync.num = n - 1
    <3> DEFINE hz == Khz[codec] * 1000
               type == TypeOf(codec)
               w == UpdateLastPacket(av.m, Header(n), NowInTimestamp(khz, clock), type, new_codec, hz)
    <3>1. u = w
      OBVIOUS
    <3>2. lag \in Nat /\ lag <= heard.lag /\ Came(n, lag, clock) /\ type \in {"audio", "cng", "avt"}
      BY <2>1, <2>3
    <3> HIDE DEF u, now, lag, hz, type, new_codec
    <3>3. /\ Stands(w.m, lag, clock) /\ StreamTrue(w.sync, lag, clock)
          /\ w.sync.num > 0 => NumberOf(w.sync.seq) + w.sync.num = n - 1
      BY <1>1, <1>2, <2>5, <3>2, SteadyUpdate
    <3> QED
      BY <3>1, <3>3
  <2> HIDE DEF u
  <2>7. CASE av.on
    <3>1. av'.on /\ av'.m = u.m /\ av'.missing = u.sync /\ av'.late = av.late
      BY <2>4, <2>5, <2>7
    <3> QED
      BY <1>1, <2>2, <2>4, <2>6, <3>1, PacePrimed
  <2>8. CASE ~av.on
    <3>1. av' = av
      BY <2>4, <2>8
    <3> QED
      BY <1>1, <1>2, <2>2, <2>4, <2>8, <3>1, PacePrimed
  <2> QED
    BY <2>7, <2>8
<1> QED
  BY <1>3, <1>4

LEMMA PlayStartsPace ==
    ASSUME OneClock, ShortCall, Steady, LockInv, ValueInv, RateInv, RateInv', PaceInv, PlayStarts
    PROVE  PaceInv'
<1> DEFINE m == IF av.on /\ av.m.buffering /\ Crowded(neteq) THEN DisableBuffering(av.m) ELSE av.m
           now == NowInTimestamp(khz, clock')
           l == LatePackets(m, now)
<1>1. /\ clock' = clock + 10 /\ clock + 10 <= MaxClock /\ rate' = khz
      /\ heard' = [heard EXCEPT !.crowded = @ \/ m # av.m]
      /\ UNCHANGED <<neteq, net, sent>>
  BY DEF PlayStarts, RateInv
<1>2. av' = IF av.on THEN [av EXCEPT !.m = l.m, !.late = l.sync] ELSE av
  BY <1>1 DEF PlayStarts
<1>3. DOMAIN av.m = ManagerFields /\ DOMAIN av = {"on", "m", "missing", "late"}
      /\ DOMAIN heard = {"first", "newest", "lag", "crowded", "overtaken"}
  BY DEF LockInv, Shapes
<1>4. /\ clock' \in 0 .. MaxClock /\ clock' \in Nat /\ clock \in Nat /\ clock <= clock'
      /\ heard.lag \in Nat /\ sent \in Streams
  BY <1>1, NumbersAssumption DEF ValueInv
<1>5. DOMAIN m = ManagerFields /\ Stands(m, heard.lag, clock)
  <2>1. Stands(av.m, heard.lag, clock)
    BY DEF PaceInv
  <2>2. CASE m = av.m
    BY <1>3, <2>1, <2>2
  <2>3. CASE m = DisableBuffering(av.m)
    <3>1. /\ DOMAIN m = ManagerFields /\ m.step = av.m.step /\ m.type = av.m.type /\ m.pt = av.m.pt
          /\ m.seq = av.m.seq /\ m.ts = av.m.ts /\ m.recv = av.m.recv
      BY <1>3, <2>3 DEF DisableBuffering, ManagerFields
    <3> HIDE DEF m
    <3> QED
      BY <2>1, <3>1 DEF Stands, PacketBuffered
  <2> QED
    BY <2>2, <2>3
<1> DEFINE lag == heard.lag
<1>6. /\ heard'.lag = lag /\ lag \in Nat /\ lag <= lag
  BY <1>1, <1>3, <1>4
<1> HIDE DEF m
<1>7. /\ Stands(av.m, lag, clock) /\ HeldTrue(neteq, lag, clock)
      /\ StreamTrue(av.missing, lag, clock) /\ StreamTrue(av.late, lag, clock)
      /\ SyncTyped(av.missing, SeqSpan) /\ SyncTyped(av.late, TsSpan)
      /\ ~av.on => av.missing.num = 0
      /\ net.pc # "idle" => StampOf(net.n) <= clock
      /\ net.pc = "decode" /\ av.missing.num > 0 =>
            NumberOf(av.missing.seq) + av.missing.num = net.n - 1
  BY DEF PaceInv, NetTrue, ValueInv
<1>8. net.pc # "idle" => StampOf(net.n) <= clock'
  <2>1. net.pc # "idle" => StampOf(net.n) \in Nat
    BY StreamTimes DEF ValueInv
  <2> QED
    BY <1>4, <1>7, <2>1
<1> HIDE DEF lag
<1>9. /\ Stands(av.m, lag, clock') /\ Stands(m, lag, clock') /\ HeldTrue(neteq, lag, clock')
      /\ StreamTrue(av.missing, lag, clock') /\ StreamTrue(av.late, lag, clock')
  BY <1>4, <1>5, <1>6, <1>7, Relaxed DEF lag
<1>10. Stands(l.m, lag, clock') /\ StreamTrue(l.sync, lag, clock')
  BY <1>4, <1>5, <1>6, <1>9, SteadyLate
<1> HIDE DEF l
<1>11. CASE av.on
  <2>1. av'.on /\ av'.m = l.m /\ av'.missing = av.missing /\ av'.late = l.sync
    BY <1>2, <1>3, <1>11
  <2> QED
    BY <1>1, <1>6, <1>7, <1>8, <1>9, <1>10, <1>11, <2>1, PacePrimed
<1>12. CASE ~av.on
  <2>1. av' = av
    BY <1>2, <1>12
  <2> QED
    BY <1>1, <1>6, <1>7, <1>8, <1>9, <1>10, <1>12, <2>1, PacePrimed
<1> QED
  BY <1>11, <1>12

LEMMA PaceInvNext ==
    ASSUME OneClock, ShortCall, Steady, LockInv, ValueInv, RateInv, RateInv', PaceInv, [Next]_vars
    PROVE  PaceInv'
<1> DEFINE lag == heard.lag
<1>1. /\ sent \in Streams /\ clock \in 0 .. MaxClock /\ clock \in Nat /\ lag \in Nat
      /\ SeqSpan \in Nat /\ TsSpan \in Nat
  BY Spans, NumbersAssumption DEF ValueInv
<1>2. /\ Stands(av.m, lag, clock) /\ HeldTrue(neteq, lag, clock)
      /\ StreamTrue(av.missing, lag, clock) /\ StreamTrue(av.late, lag, clock)
      /\ SyncTyped(av.missing, SeqSpan) /\ SyncTyped(av.late, TsSpan)
      /\ ~av.on => av.missing.num = 0
      /\ net.pc # "idle" => StampOf(net.n) <= clock /\ net.n \in Packets
      /\ net.pc = "decode" /\ av.missing.num > 0 =>
            NumberOf(av.missing.seq) + av.missing.num = net.n - 1
  BY DEF PaceInv, NetTrue, ValueInv
<1>3. /\ DOMAIN neteq = NetEqFields /\ neteq.khz = khz
      /\ DOMAIN av = {"on", "m", "missing", "late"} /\ DOMAIN net = {"pc", "n"}
  BY DEF LockInv, Bounded, NetEqFields, RateInv, Shapes
<1> DEFINE Kept == UNCHANGED <<sent, clock, heard>>
<1> HIDE DEF lag
<1>4. ASSUME Kept, UNCHANGED av, neteq' = neteq \/ SameButKnown(neteq, neteq'),
             UNCHANGED net \/ (net.pc # "idle" /\ net'.pc # "decode" /\ net'.n = net.n)
      PROVE  PaceInv'
  <2>1. neteq'.held = neteq.held
    BY <1>4 DEF SameButKnown, NetEqFields
  <2>2. HeldTrue(neteq', lag, clock)
    BY <1>2, <2>1 DEF HeldTrue
  <2> QED
    BY <1>2, <1>4, <2>2, PacePrimed DEF lag
<1>5. ASSUME NEW n \in Packets, Arrive(n)
      PROVE  PaceInv'
  BY <1>5, ArrivePace
<1>6. CASE NetLocks
  <2>1. net' = [net EXCEPT !.pc = IF av.on THEN "sync" ELSE "insert"] /\ net.pc = "decode"
    BY <1>6 DEF NetLocks
  <2>2. net.pc # "idle" /\ net'.pc # "decode" /\ net'.n = net.n
    BY <1>3, <2>1
  <2>3. Kept /\ UNCHANGED <<av, neteq>>
    BY <1>6 DEF NetLocks, receiver
  <2> QED
    BY <1>4, <2>2, <2>3
<1>7. CASE NetSync
  <2>1. Kept /\ net.pc = "sync"
    BY <1>7 DEF NetSync
  <2>2. CASE av.missing.num > 0
    <3> DEFINE s == av.missing
               q == InsertSyncPacket(neteq, s)
    <3>1. /\ neteq' = q /\ av' = [av EXCEPT !.missing = Advanced(s)] /\ UNCHANGED net
      BY <1>7, <2>2 DEF NetSync
    <3>2. /\ NumberOf(s.seq) \in Nat /\ s.ts = TsOf(NumberOf(s.seq))
          /\ Came(NumberOf(s.seq), lag, clock) /\ StreamTrue(Advanced(s), lag, clock)
      BY <1>1, <1>2, <2>2, AdvancedTrue
    <3>3. HeldTrue(q, lag, clock)
      BY <1>2, <1>3, <3>2, InsertSyncTrue
    <3>4. /\ av'.on = av.on /\ av'.m = av.m /\ av'.missing = Advanced(s) /\ av'.late = av.late
      BY <1>3, <3>1
    <3>5. av.on
      BY <1>2, <2>2
    <3> HIDE DEF q, s
    <3> QED
      BY <1>2, <2>1, <3>1, <3>2, <3>3, <3>4, <3>5, PacePrimed DEF lag
  <2>3. CASE ~(av.missing.num > 0)
    <3>1. net' = [net EXCEPT !.pc = "insert"] /\ UNCHANGED <<neteq, av>>
      BY <1>7, <2>3 DEF NetSync
    <3>2. net.pc # "idle" /\ net'.pc # "decode" /\ net'.n = net.n
      BY <1>3, <2>1, <3>1
    <3> QED
      BY <1>4, <2>1, <3>1, <3>2
  <2> QED
    BY <2>2, <2>3
<1>8. CASE NetInsert
  <2> DEFINE codec == sent[net.n].codec
             p == Header(net.n)
             q == InsertPacket(neteq, p, codec)
  <2>1. neteq' = q /\ net'.pc = "idle" /\ Kept /\ UNCHANGED av /\ net.pc # "idle"
    BY <1>8 DEF NetInsert, receiver, IdleNet
  <2>2. codec \in Codecs /\ NumberOf(p.seq) = net.n /\ p.ts = TsOf(net.n) /\ net.n \in Nat
    BY <1>1, <1>2, <2>1, HeaderTrue, StreamTimes
  <2> HIDE DEF p, codec
  <2>3. HeldTrue(q, lag, clock)
    BY <1>2, <1>3, <2>2, InsertTrue
  <2> HIDE DEF q
  <2> QED
    BY <1>2, <2>1, <2>3, PacePrimed DEF lag
<1>9. CASE PlayStarts
  BY <1>9, PlayStartsPace
<1>10. CASE PlaySync
  <2>1. Kept /\ UNCHANGED net
    BY <1>10 DEF PlaySync
  <2>2. CASE av.late.num > 0
    <3> DEFINE s == av.late
               q == InsertSyncPacket(neteq, s)
    <3>1. /\ neteq' = q /\ av' = [av EXCEPT !.late = Advanced(s)]
      BY <1>10, <2>2 DEF PlaySync
    <3>2. /\ NumberOf(s.seq) \in Nat /\ s.ts = TsOf(NumberOf(s.seq))
          /\ Came(NumberOf(s.seq), lag, clock) /\ StreamTrue(Advanced(s), lag, clock)
      BY <1>1, <1>2, <2>2, AdvancedTrue
    <3>3. HeldTrue(q, lag, clock)
      BY <1>2, <1>3, <3>2, InsertSyncTrue
    <3>4. /\ av'.on = av.on /\ av'.m = av.m /\ av'.missing = av.missing /\ av'.late = Advanced(s)
      BY <1>3, <3>1
    <3> HIDE DEF q, s
    <3> QED
      BY <1>2, <2>1, <3>1, <3>2, <3>3, <3>4, PacePrimed DEF lag
  <2>3. CASE ~(av.late.num > 0)
    <3>1. UNCHANGED <<neteq, av>>
      BY <1>10, <2>3 DEF PlaySync
    <3> QED
      BY <1>4, <2>1, <3>1
  <2> QED
    BY <2>2, <2>3
<1>11. CASE PlayPulls
  <2>1. neteq' \in Pulled(neteq) /\ Kept /\ UNCHANGED <<av, net>>
    BY <1>11 DEF PlayPulls, receiver
  <2>2. HeldTrue(neteq', lag, clock)
    BY <1>2, <1>3, <2>1, PulledTrue
  <2> QED
    BY <1>2, <2>1, <2>2, PacePrimed DEF lag
<1>12. CASE PlayLocks \/ PlayEnds
  BY <1>4, <1>12 DEF PlayLocks, PlayEnds, receiver
<1>13. ASSUME NEW ms \in Delays, SetInitialDelay(ms)
       PROVE  PaceInv'
  <2> DEFINE new == [NoAv EXCEPT !.on = TRUE, !.m = NewManager(ms)]
  <2>1. Kept /\ UNCHANGED <<net, neteq>> /\ (av' = av \/ av' = NoAv \/ av' = new)
    BY <1>13 DEF SetInitialDelay, Elsewhere
  <2>2. ASSUME NEW delay, av'.m = NewManager(delay), av'.missing = NoSync, av'.late = NoSync
        PROVE  PaceInv'
    <3>1. Stands(NewManager(delay), lag, clock)
      BY DEF Stands, NewManager, PacketBuffered
    <3>2. StreamTrue(NoSync, lag, clock) /\ NoSync.num = 0
      BY DEF StreamTrue, NoSync
    <3> QED
      BY <1>2, <2>1, <2>2, <3>1, <3>2, PacePrimed DEF lag
  <2>3. CASE av' = new
    BY <2>2, <2>3 DEF NoAv
  <2>4. CASE av' = NoAv
    BY <2>2, <2>4 DEF NoAv
  <2>5. CASE av' = av
    BY <1>4, <2>1, <2>5
  <2> QED
    BY <2>1, <2>3, <2>4, <2>5
<1>14. CASE FlushBuffers
  <2>1. Kept /\ UNCHANGED <<av, net>>
    BY <1>14 DEF FlushBuffers, Call, Elsewhere, receiver
  <2>2. neteq'.held = {}
    BY <1>3, <1>14 DEF FlushBuffers, Fresh, NetEqFields
  <2>3. HeldTrue(neteq', lag, clock)
    BY <2>2 DEF HeldTrue
  <2> QED
    BY <1>2, <2>1, <2>3, PacePrimed DEF lag
<1>15. CASE /\ ApiNext /\ ~FlushBuffers
            /\ ~\E ms \in Delays : SetInitialDelay(ms)
  <2>1. Kept /\ UNCHANGED <<av, net>>
    BY <1>15 DEF ApiNext, EnableNack, AddCodec, RemoveCodec, CodecRemoved, DisableNack, Call,
                 Elsewhere, receiver
  <2>2. SameButKnown(neteq, neteq')
    BY <1>3, <1>15, OnlyKnown
  <2> QED
    BY <1>4, <2>1, <2>2
<1>16. CASE UNCHANGED vars
  BY <1>4, <1>16 DEF vars, receiver
<1> QED
  BY <1>5, <1>6, <1>7, <1>8, <1>9, <1>10, <1>11, <1>12, <1>13, <1>14, <1>15, <1>16
     DEF Next, NetNext, PlayNext, ApiNext, Ended

\* What the proofs know of a stream of one clock, of steady pace or not.
ReceiverInv == LockInv /\ ValueInv /\ RateInv /\ (Steady => PaceInv)

LEMMA ReceiverInvStep ==
    ASSUME OneClock, ShortCall
    PROVE  /\ Init => ReceiverInv
           /\ ReceiverInv /\ [Next]_vars => ReceiverInv'
<1>1. Init => ReceiverInv
  BY LockInvInit, ValueInvInit, RateInvInit, PaceInvInit DEF ReceiverInv
<1>2. ASSUME ReceiverInv, [Next]_vars
      PROVE  ReceiverInv'
  <2>1. LockInv' /\ ValueInv' /\ RateInv'
    BY <1>2, ShapesNext, ExclusiveNext, BoundedNext, ValueInvNext, RateInvNext
       DEF ReceiverInv, LockInv
  <2>2. Steady' => Steady
    BY <1>2, NextSent, SameStream
  <2>3. Steady => PaceInv'
    BY <1>2, <2>1, PaceInvNext DEF ReceiverInv
  <2> QED
    BY <2>1, <2>2, <2>3 DEF ReceiverInv
<1> QED
  BY <1>1, <1>2

\* Whatever order the packets come in, however the two threads' parts interleave
\* and whatever other threads set meanwhile: of a steady stream every packet in
\* NetEq has the timestamp its number was sent with, those the delay manager made
\* up included, and the sync packets for missing ones leave one out before the packet
\* received.
THEOREM SyncPacketsTrue ==
    ASSUME OneClock, ShortCall
    PROVE  Spec => []SyncTrue
<1>1. ReceiverInv => SyncTrue
  BY DEF ReceiverInv, PaceInv, HeldTrue, NetTrue, SyncTrue
<1> QED
  BY ReceiverInvStep, <1>1, PTL DEF Spec

\* However late packets are, those made for them run no further ahead than the
\* fastest packet would have.
THEOREM SyncPacketsCame ==
    ASSUME OneClock, ShortCall
    PROVE  Spec => []NeverAhead
<1>1. ReceiverInv => NeverAhead
  BY DEF ReceiverInv, PaceInv, HeldTrue, Came, NeverAhead
<1> QED
  BY ReceiverInvStep, <1>1, PTL DEF Spec

-----------------------------------------------------------------------------
(* The initial delay.                                                       *)

LEMMA BufferPrimed ==
    ASSUME UNCHANGED sent, av'.on /\ ~heard'.overtaken => BufferedTrue(av'.m, heard')
    PROVE  BufferInv'
<1>1. BufferedTrue(av'.m, heard') => BufferedTrue(av.m, heard)'
  BY SameStream DEF BufferedTrue, Since, PacketBuffered
<1> QED
  BY <1>1 DEF BufferInv

LEMMA HeardPrimed ==
    ASSUME UNCHANGED sent, {heard'.first, heard'.newest} \subseteq Packets,
           got' = {} => heard'.first = 0 /\ heard'.newest = 0
    PROVE  HeardInv'
BY SameStream DEF HeardInv

\* What is counted of a packet is no more than lies before it.
LEMMA CountedTrue ==
    ASSUME OneClock, ShortCall, Steady, sent \in Streams,
           NEW n \in Nat, NEW k \in Nat, k < n, n * Pace <= MaxClock,
           NEW m, m.ts = TsOf(k), m.buffered \in Nat, NEW p, p.ts = TsOf(n)
    PROVE  LET c == Counted(m, p, khz * 1000)
           IN  c \in Nat /\ c <= m.buffered + (StampOf(n) - StampOf(k))
<1> DEFINE h == khz * 1000
           d == (n - k) * Pace
           x == (n - k) * Unit
           y == Ts(x * 1000)
<1>1. /\ khz \in Nat \ {0} /\ Pace \in Nat \ {0} /\ Unit \in Nat \ {0} /\ Unit = khz * Pace
      /\ \A j \in Nat : StampOf(j) = j * Pace
  BY SteadyStamps DEF Unit
<1>2. n - k \in Nat /\ h \in Nat \ {0}
  BY <1>1
<1>3. d \in Nat /\ x \in Nat /\ x = khz * d
  BY <1>1, <1>2, TimesReordered
<1>4. StampOf(n) - StampOf(k) = d
  BY <1>1, TimesDistributes
<1>5. Ts(p.ts - m.ts) = x
  <2>1. k <= n
    OBVIOUS
  <2> QED
    BY <2>1, SteadyTs
<1>6. Counted(m, p, h) = m.buffered + y \div h
  BY <1>5 DEF Counted
<1> HIDE DEF d, x
<1>7. x * 1000 \in Nat /\ x * 1000 = h * d
  <2>1. d * (1000 * khz) = 1000 * (d * khz)
    BY <1>1, <1>3, TimesReordered
  <2>2. 1 * (khz * d) = khz * d /\ khz * d \in Nat /\ khz * (1 * d) = 1 * (khz * d)
    BY <1>1, <1>3, TimesReordered
  <2> QED
    BY <1>1, <1>3, <2>1, <2>2
<1> DEFINE z == h * d
<1>8. y \in Nat /\ y <= z /\ z \in Nat
  <2>1. z \in Nat /\ y = z % TsSpan /\ TsSpan \in Nat \ {0}
    BY <1>7, Spans DEF Ts
  <2> HIDE DEF z, y
  <2> QED
    BY <2>1
<1> HIDE DEF y
<1>9. y \div h \in Nat /\ y \div h <= d
  <2> DEFINE q == y \div h
  <2>1. q \in Nat /\ q * h <= y
    BY <1>2, <1>8, DividedWhole
  <2> HIDE DEF q
  <2>2. h * q = q * h /\ h * q \in Nat
    BY <1>2, <2>1
  <2>3. h * q <= h * d
    BY <1>8, <2>1, <2>2
  <2>4. q <= d
    BY <1>2, <1>3, <2>1, <2>3, TimesCancels
  <2> QED
    BY <2>1, <2>4 DEF q
<1> QED
  BY <1>3, <1>4, <1>6, <1>9

\* Of a steady stream the later packet is sent later.
LEMMA StampsInOrder ==
    ASSUME OneClock, Steady, sent \in Streams, NEW k \in Nat, NEW n \in Nat, k <= n
    PROVE  StampOf(k) \in Nat /\ StampOf(n) \in Nat /\ StampOf(k) <= StampOf(n)
<1>1. Pace \in Nat /\ \A j \in Nat : StampOf(j) = j * Pace
  BY SteadyStamps
<1> QED
  BY <1>1, TimesMonotone, TimesReordered

\* What a packet that comes does to what has been buffered, before and after it.
LEMMA UpdateBuffered ==
    ASSUME OneClock, ShortCall, Steady, sent \in Streams,
           NEW c \in 0 .. MaxClock, NEW lag \in Nat,
           NEW m, DOMAIN m = ManagerFields, ManagerTyped(m), Stands(m, lag, c),
           NEW n \in Packets, StampOf(n) <= c,
           NEW type \in {"audio", "cng", "avt"}, NEW new_codec \in BOOLEAN, NEW recv,
           NEW h, NEW h1, h.newest \in Nat, h1.newest \in Nat, h.first \in Nat, h1.first \in Nat,
           BufferedTrue(m, h),
           new_codec => ~Ignored(m, Header(n), type) /\ h1.first = n /\ h1.newest = n,
           ~new_codec => h1.first = h.first /\ (h1.crowded <=> h.crowded) /\ h.newest <= h1.newest,
           ~Ignored(m, Header(n), type) => n <= h1.newest
    PROVE  BufferedTrue(UpdateLastPacket(m, Header(n), recv, type, new_codec, khz * 1000).m, h1)
<1> DEFINE p == Header(n)
           hz == khz * 1000
           u == UpdateLastPacket(m, p, recv, type, new_codec, hz)
<1>1. /\ n \in Nat /\ p.seq = SeqOf(n) /\ p.ts = TsOf(n) /\ NumberOf(p.seq) = n
      /\ n * Pace <= MaxClock
  <2>1. StampOf(n) = n * Pace /\ n * Pace \in Nat /\ MaxClock \in Nat /\ n \in Nat
    BY StreamTimes, SteadyStamps, TimesReordered, NumbersAssumption
  <2>2. n * Pace <= MaxClock
    BY <2>1
  <2> QED
    BY <2>1, <2>2, StreamTimes, SteadyNumber
<1>2. m.buffered \in Nat /\ m.buffering \in BOOLEAN /\ m.delay \in Nat
  BY DEF ManagerTyped
<1>3. /\ h1.first = h.first /\ h.newest <= h1.newest => Since(h.newest, h) <= Since(h1.newest, h1)
      /\ \A j \in Nat : Since(j, h) \in Int /\ Since(j, h1) \in Int
      /\ \A j, l \in Nat : j <= l => Since(j, h1) <= Since(l, h1)
  <2>1. \A j, l \in Nat : j <= l => StampOf(j) <= StampOf(l)
    BY StampsInOrder
  <2>2. \A j \in Nat : StampOf(j) \in Nat
    BY SteadyStamps, TimesReordered
  <2> HIDE DEF p, u, hz
  <2>3. \A j \in Nat : Since(j, h) \in Int /\ Since(j, h1) \in Int
    BY <2>2 DEF Since
  <2>4. \A j, l \in Nat : j <= l => Since(j, h1) <= Since(l, h1)
    <3> SUFFICES ASSUME NEW j \in Nat, NEW l \in Nat, j <= l
                 PROVE  Since(j, h1) <= Since(l, h1)
      OBVIOUS
    <3>1. StampOf(j) \in Nat /\ StampOf(l) \in Nat /\ StampOf(j) <= StampOf(l)
          /\ StampOf(h1.first) \in Nat
      BY <2>1, <2>2
    <3> QED
      BY <3>1 DEF Since
  <2>5. ASSUME h1.first = h.first, h.newest <= h1.newest
        PROVE  Since(h.newest, h) <= Since(h1.newest, h1)
    <3>1. Since(h.newest, h) = Since(h.newest, h1)
      BY <2>5 DEF Since
    <3> QED
      BY <2>4, <2>5, <3>1
  <2> QED
    BY <2>3, <2>4, <2>5
<1>4. CASE Ignored(m, p, type)
  <2>1. u.m = m
    <3>1. u = [m |-> m, sync |-> NoSync]
      BY <1>4 DEF UpdateLastPacket
    <3> HIDE DEF u
    <3> QED
      BY <3>1
  <2>2. /\ ~new_codec /\ h1.first = h.first /\ (h1.crowded <=> h.crowded)
        /\ h.newest <= h1.newest
    BY <1>4
  <2>3. PacketBuffered(m) => Since(NumberOf(m.seq), h1) = Since(NumberOf(m.seq), h)
    BY <2>2 DEF Since
  <2> HIDE DEF u, p, hz
  <2>4. BufferedTrue(m, h1)
    BY <1>2, <1>3, <2>2, <2>3 DEF BufferedTrue
  <2> QED
    BY <2>1, <2>4 DEF u, p, hz
<1>5. CASE ~Ignored(m, p, type) /\ (new_codec \/ m.pt = kInvalidPayloadType)
  <2> DEFINE r == Restart(m, p, recv, type, hz)
  <2>1. u.m = r
    <3>1. u = [m |-> r, sync |-> NoSync]
      BY <1>5 DEF UpdateLastPacket
    <3> HIDE DEF u, r
    <3> QED
      BY <3>1
  <2>2. r.type = type /\ r.seq = p.seq /\ r.buffered = 0 /\ r.buffering
    BY Restarted
  <2> HIDE DEF r, u
  <2>3. PacketBuffered(r)
    BY <2>2 DEF PacketBuffered
  <2>4. Since(n, h1) >= 0 /\ n <= h1.newest
    <3>1. CASE new_codec
      <4>1. h1.first = n /\ n <= h1.newest
        BY <1>1, <3>1
      <4>2. StampOf(n) \in Nat
        BY <1>1, StampsInOrder
      <4> QED
        BY <4>1, <4>2 DEF Since
    <3>2. CASE ~new_codec
      <4>1. h1.first = 0
        BY <1>5, <3>2 DEF Stands, BufferedTrue
      <4>2. StampOf(0) <= StampOf(n) /\ StampOf(0) \in Nat /\ StampOf(n) \in Nat
        BY <1>1, StampsInOrder
      <4> QED
        BY <1>5, <3>2, <4>1, <4>2 DEF Since
    <3> QED
      BY <3>1, <3>2
  <2>5. Since(n, h1) <= Since(h1.newest, h1)
    BY <1>1, <1>3, <2>4
  <2>6. 0 <= Since(h1.newest, h1)
    BY <1>1, <1>3, <2>4, <2>5
  <2> HIDE DEF p, hz
  <2>7. BufferedTrue(r, h1)
    BY <1>1, <2>2, <2>3, <2>4, <2>6 DEF BufferedTrue
  <2> QED
    BY <2>1, <2>7 DEF u, p, hz
<1>6. CASE ~Ignored(m, p, type) /\ ~new_codec /\ m.pt # kInvalidPayloadType
  <2> DEFINE k == NumberOf(m.seq)
             counted == Counted(m, p, hz)
  <2>1. PacketBuffered(m) /\ type # "avt"
    BY <1>6 DEF Stands, Ignored
  <2>2. k \in Nat /\ k * Pace <= MaxClock /\ m.seq = SeqOf(k) /\ m.ts = TsOf(k)
    BY <2>1, StandsAt
  <2>3. Newer(p.seq, m.seq)
    BY <1>6, <2>1 DEF Ignored
  <2> HIDE DEF k
  <2>4. k < n
    <3>1. Newer(SeqOf(n), SeqOf(k))
      BY <1>1, <2>2, <2>3
    <3> QED
      BY <1>1, <2>2, <3>1, SteadyOrder
  <2>5. counted \in Nat /\ counted <= m.buffered + (StampOf(n) - StampOf(k))
    <3> HIDE DEF p
    <3> QED
      BY <1>1, <1>2, <2>2, <2>4, CountedTrue
  <2>6. /\ u.m.type = type /\ u.m.seq = p.seq /\ u.m.delay = m.delay
        /\ u.m.buffered = IF m.buffering THEN counted ELSE m.buffered
        /\ u.m.buffering <=> m.buffering /\ counted < m.delay
        /\ u.m.buffering \in BOOLEAN
    <3> HIDE DEF p, hz
    <3> QED
      BY <1>2, <1>6, WentOn
  <2> HIDE DEF u, counted, p, hz
  <2>7. PacketBuffered(u.m)
    BY <2>6 DEF PacketBuffered
  <2>8. /\ h1.first = h.first /\ (h1.crowded <=> h.crowded) /\ h.newest <= h1.newest
        /\ n <= h1.newest
    BY <1>6 DEF p
  <2>9. u.m.buffered <= Since(n, h1) /\ u.m.buffered \in Nat
    <3>1. m.buffered <= Since(k, h)
      BY <2>1 DEF BufferedTrue, k
    <3>2. StampOf(k) \in Nat /\ StampOf(n) \in Nat /\ StampOf(k) <= StampOf(n)
          /\ StampOf(h.first) \in Nat
      BY <1>1, <2>2, <2>4, StampsInOrder
    <3> QED
      BY <1>2, <2>5, <2>6, <2>8, <3>1, <3>2 DEF Since
  <2>10. u.m.buffered <= Since(h1.newest, h1)
    BY <1>1, <1>3, <2>8, <2>9
  <2>11. ~u.m.buffering /\ ~h1.crowded => u.m.delay <= u.m.buffered
    BY <1>2, <2>5, <2>6, <2>8 DEF BufferedTrue
  <2>12. BufferedTrue(u.m, h1)
    BY <1>1, <2>6, <2>7, <2>9, <2>10, <2>11 DEF BufferedTrue
  <2> QED
    BY <2>12 DEF u, p, hz
<1> QED
  BY <1>4, <1>5, <1>6

LEMMA ArriveBuffers ==
    ASSUME OneClock, ShortCall, Steady, LockInv, ValueInv, PaceInv, HeardInv, BufferInv,
           NEW n \in Packets, Arrive(n)
    PROVE  HeardInv' /\ BufferInv'
<1> DEFINE codec == sent[n].codec
           p == Header(n)
           type == TypeOf(codec)
           new_codec == codec \in AudioCodecs /\ codec # last_audio
           now == NowInTimestamp(Khz[codec], clock)
           u == UpdateLastPacket(av.m, p, now, type, new_codec, Khz[codec] * 1000)
<1>1. /\ UNCHANGED sent /\ got' # {} /\ StampOf(n) <= clock /\ sent \in Streams
      /\ clock \in 0 .. MaxClock /\ heard.lag \in Nat
  BY DEF Arrive, ValueInv
<1>2. /\ Packets \subseteq Nat /\ heard.first \in Packets /\ heard.newest \in Packets
      /\ n \in Int /\ heard.newest \in Int
  BY <1>1, SteadyStamps DEF HeardInv
<1>3. CASE Refused(codec)
  <2>1. UNCHANGED <<av, heard>>
    BY <1>3 DEF Arrive, receiver
  <2> QED
    BY <1>1, <1>2, <2>1, HeardPrimed, BufferPrimed DEF BufferInv
<1>4. CASE ~Refused(codec)
  <2>1. /\ new_codec => /\ heard'.first = n /\ heard'.newest = n /\ ~heard'.crowded
                        /\ heard'.overtaken <=>
                             heard.overtaken \/ (av.on /\ Ignored(av.m, p, "audio"))
        /\ ~new_codec => /\ heard'.first = heard.first /\ heard'.crowded = heard.crowded
                         /\ heard'.overtaken = heard.overtaken
                         /\ heard'.newest = IF codec = "avt" THEN heard.newest
                                            ELSE Max({n, heard.newest})
    BY <1>4, ArrivalHeard DEF LockInv
  <2>2. ~new_codec => /\ heard'.newest \in Packets /\ heard.newest <= heard'.newest
                      /\ codec # "avt" => n <= heard'.newest
    <3> DEFINE newest == Max({n, heard.newest})
    <3>1. newest = IF n >= heard.newest THEN n ELSE heard.newest
      BY <1>2, MinMaxOf
    <3> HIDE DEF new_codec, codec, newest
    <3>2. newest \in Packets /\ heard.newest <= newest /\ n <= newest
      BY <1>2, <3>1
    <3> QED
      BY <1>2, <2>1, <3>2 DEF newest
  <2>3. HeardInv'
    <3>1. heard'.first \in Packets /\ heard'.newest \in Packets
      BY <1>2, <2>1, <2>2
    <3> QED
      BY <1>1, <3>1, HeardPrimed
  <2>4. /\ codec \in Codecs /\ Khz[codec] = khz /\ type \in {"audio", "cng", "avt"}
        /\ new_codec => type = "audio"
        /\ codec = "avt" => type = "avt"
    BY <1>1, StreamTimes, ReceiverAssumption DEF OneClock, TypeOf, Codecs
  <2>5. av' = IF av.on THEN [av EXCEPT !.m = u.m, !.missing = u.sync] ELSE av
    BY <1>4 DEF Arrive, ArrivalUpdates
  <2>6. /\ DOMAIN av = {"on", "m", "missing", "late"} /\ DOMAIN av.m = ManagerFields
        /\ ManagerTyped(av.m) /\ Stands(av.m, heard.lag, clock) /\ new_codec \in BOOLEAN
    BY DEF LockInv, Shapes, ValueInv, PaceInv
  <2>7. ASSUME av.on, ~heard'.overtaken
        PROVE  BufferedTrue(u.m, heard')
    <3>1. new_codec => ~Ignored(av.m, p, type) /\ heard'.first = n /\ heard'.newest = n
      BY <2>1, <2>4, <2>7
    <3>2. ~new_codec => /\ heard'.first = heard.first /\ (heard'.crowded <=> heard.crowded)
                        /\ heard.newest <= heard'.newest
      BY <2>1, <2>2
    <3>3. n \in Nat /\ heard.first \in Nat /\ heard.newest \in Nat
          /\ heard'.first \in Nat /\ heard'.newest \in Nat
      BY <1>2, <2>1, <2>2
    <3>4. ~Ignored(av.m, p, type) => n <= heard'.newest
      BY <2>1, <2>2, <2>4, <3>3 DEF Ignored
    <3>5. BufferedTrue(av.m, heard)
      BY <2>1, <2>7 DEF BufferInv
    <3> DEFINE w == UpdateLastPacket(av.m, Header(n), now, type, new_codec, khz * 1000)
               h1 == heard'
    <3>6. u = w
      BY <2>4
    <3> HIDE DEF u, now, type, new_codec, h1
    <3>7. BufferedTrue(w.m, h1)
      BY <1>1, <2>4, <2>6, <3>1, <3>2, <3>3, <3>4, <3>5, UpdateBuffered DEF h1, p
    <3> QED
      BY <3>6, <3>7 DEF h1
  <2> HIDE DEF u
  <2>8. /\ av'.on = av.on /\ (av.on => av'.m = u.m)
    BY <2>5, <2>6
  <2> QED
    BY <1>1, <2>3, <2>7, <2>8, BufferPrimed
<1> QED
  BY <1>3, <1>4

\* Counting late packets leaves what has been buffered.
LEMMA LateKeeps ==
    ASSUME NEW m, DOMAIN m = ManagerFields, NEW now
    PROVE  LET l == LatePackets(m, now).m
           IN  /\ l.delay = m.delay /\ l.buffered = m.buffered /\ (l.buffering <=> m.buffering)
               /\ PacketBuffered(l) <=> PacketBuffered(m)
<1> DEFINE l == LatePackets(m, now).m
           kept == {"delay", "buffered", "buffering"}
<1>1. ASSUME NEW ahead
      PROVE  LET f == Faked(m, ahead)
             IN  (\A x \in kept : f[x] = m[x]) /\ f.type = "sync"
  BY DEF Faked, ManagerFields
<1>2. l = m \/ (l.type = "sync" /\ PacketBuffered(m) /\ \A x \in kept : l[x] = m[x])
  <2>1. ASSUME NEW ahead, NEW sync, LatePackets(m, now) = [m |-> Faked(m, ahead), sync |-> sync],
               ~CannotEstimate(m)
        PROVE  l.type = "sync" /\ PacketBuffered(m) /\ \A x \in kept : l[x] = m[x]
    <3>1. l = Faked(m, ahead)
      BY <2>1
    <3> HIDE DEF l
    <3> QED
      BY <1>1, <2>1, <3>1 DEF CannotEstimate, PacketBuffered
  <2>2. \/ LatePackets(m, now) = [m |-> m, sync |-> NoSync]
        \/ ~CannotEstimate(m) /\ \E ahead, sync :
              LatePackets(m, now) = [m |-> Faked(m, ahead), sync |-> sync]
    BY Zenon DEF LatePackets
  <2>3. LatePackets(m, now) = [m |-> m, sync |-> NoSync] => l = m
    OBVIOUS
  <2> QED
    BY <2>1, <2>2, <2>3
<1> HIDE DEF l
<1>3. \A x \in kept : l[x] = m[x]
  BY <1>2
<1>4. l.delay = m.delay /\ l.buffered = m.buffered
  BY <1>3
<1>5. l.buffering <=> m.buffering
  BY <1>3, Zenon
<1>6. PacketBuffered(l) <=> PacketBuffered(m)
  BY <1>2 DEF PacketBuffered
<1> QED
  BY <1>4, <1>5, <1>6 DEF l

LEMMA PlayStartsBuffers ==
    ASSUME OneClock, ShortCall, Steady, LockInv, ValueInv, RateInv', PaceInv, HeardInv, BufferInv,
           PlayStarts
    PROVE  HeardInv' /\ BufferInv'
<1> DEFINE m == IF av.on /\ av.m.buffering /\ Crowded(neteq) THEN DisableBuffering(av.m) ELSE av.m
           now == NowInTimestamp(khz, clock')
           l == LatePackets(m, now)
<1>1. /\ clock' = clock + 10 /\ clock + 10 <= MaxClock /\ rate' = khz
      /\ heard' = [heard EXCEPT !.crowded = @ \/ m # av.m]
      /\ UNCHANGED <<sent, got>>
  BY DEF PlayStarts, RateInv
<1>2. av' = IF av.on THEN [av EXCEPT !.m = l.m, !.late = l.sync] ELSE av
  BY <1>1 DEF PlayStarts
<1>3. /\ DOMAIN av.m = ManagerFields /\ DOMAIN av = {"on", "m", "missing", "late"}
      /\ DOMAIN heard = {"first", "newest", "lag", "crowded", "overtaken"}
  BY DEF LockInv, Shapes
<1>4. /\ clock' \in 0 .. MaxClock /\ clock' \in Nat /\ clock \in Nat /\ clock <= clock'
      /\ heard.lag \in Nat /\ heard.lag <= heard.lag /\ sent \in Streams
  BY <1>1, NumbersAssumption DEF ValueInv
<1>5. /\ m.type = av.m.type /\ m.pt = av.m.pt /\ m.seq = av.m.seq /\ m.ts = av.m.ts
      /\ m.recv = av.m.recv /\ m.step = av.m.step /\ m.buffered = av.m.buffered
      /\ m.delay = av.m.delay /\ DOMAIN m = ManagerFields
      /\ m = av.m \/ (av.m.buffering /\ ~m.buffering)
  BY <1>3 DEF DisableBuffering, ManagerFields
<1>6. /\ heard'.first = heard.first /\ heard'.newest = heard.newest
      /\ heard'.overtaken = heard.overtaken
      /\ m = av.m => (heard'.crowded <=> heard.crowded)
      /\ m # av.m => heard'.crowded
  <2> DEFINE crowded == heard.crowded \/ m # av.m
  <2>1. heard' = [heard EXCEPT !.crowded = crowded]
    BY <1>1
  <2>2. (crowded <=> heard.crowded \/ m # av.m) /\ crowded \in BOOLEAN
    OBVIOUS
  <2> HIDE DEF crowded, m
  <2> QED
    BY <1>3, <2>1, <2>2
<1> HIDE DEF m
<1>7. Stands(m, heard.lag, clock)
  BY <1>5 DEF Stands, PacketBuffered, PaceInv
<1>8. Stands(m, heard.lag, clock')
  BY <1>4, <1>7, Relaxed
<1>9. PacketBuffered(m) => NumberOf(m.seq) <= NumberOf(l.m.seq) /\ NumberOf(m.seq) \in Nat
  BY <1>4, <1>5, <1>8, SteadyLate, StandsAt
<1>10. Stands(l.m, heard.lag, clock')
  BY <1>4, <1>5, <1>8, SteadyLate
<1>11. PacketBuffered(l.m) => NumberOf(l.m.seq) \in Nat
  BY <1>4, <1>10, StandsAt
<1>12. /\ l.m.delay = m.delay /\ l.m.buffered = m.buffered /\ (l.m.buffering <=> m.buffering)
       /\ PacketBuffered(l.m) <=> PacketBuffered(m)
  <2>1. DOMAIN m = ManagerFields
    BY <1>5
  <2> QED
    BY <2>1, LateKeeps
<1> HIDE DEF l, now
<1>13. ASSUME av.on, ~heard.overtaken
       PROVE  BufferedTrue(l.m, heard')
  <2>1. BufferedTrue(av.m, heard) /\ ManagerTyped(av.m)
    BY <1>13 DEF BufferInv, ValueInv
  <2>2. CASE ~PacketBuffered(m)
    <3>1. ~PacketBuffered(l.m) /\ ~PacketBuffered(av.m)
      BY <1>5, <1>12, <2>2 DEF PacketBuffered
    <3> QED
      BY <1>5, <1>6, <1>12, <2>1, <3>1 DEF BufferedTrue, Since
  <2>3. CASE PacketBuffered(m)
    <3>1. PacketBuffered(av.m)
      BY <1>5, <2>3 DEF PacketBuffered
    <3>2. PacketBuffered(l.m)
      BY <1>12, <2>3
    <3>3. Since(NumberOf(m.seq), heard') <= Since(NumberOf(l.m.seq), heard')
          /\ Since(NumberOf(m.seq), heard') \in Int /\ Since(NumberOf(l.m.seq), heard') \in Int
      <4> DEFINE k == NumberOf(m.seq)
                 j == NumberOf(l.m.seq)
      <4>1. k \in Nat /\ j \in Nat /\ k <= j /\ heard'.first \in Nat
        BY <1>4, <1>6, <1>9, <1>11, <2>3, <3>2, SteadyStamps DEF HeardInv
      <4> HIDE DEF k, j
      <4>2. StampOf(k) <= StampOf(j) /\ StampOf(k) \in Nat /\ StampOf(j) \in Nat
            /\ StampOf(heard'.first) \in Nat
        BY <1>4, <4>1, StampsInOrder
      <4>3. Since(k, heard') <= Since(j, heard') /\ Since(k, heard') \in Int
            /\ Since(j, heard') \in Int
        BY <4>2 DEF Since
      <4> QED
        BY <4>3 DEF k, j
    <3>4. m.buffered <= Since(NumberOf(m.seq), heard')
      BY <1>5, <1>6, <2>1, <3>1 DEF BufferedTrue, Since
    <3>5. m.buffered \in Nat
      BY <1>5, <2>1 DEF ManagerTyped
    <3>6. l.m.buffered <= Since(NumberOf(l.m.seq), heard')
      BY <1>12, <3>3, <3>4, <3>5
    <3> QED
      BY <1>5, <1>6, <1>12, <2>1, <3>2, <3>6 DEF BufferedTrue, Since
  <2> QED
    BY <2>2, <2>3
<1>14. av'.on = av.on /\ (av.on => av'.m = l.m)
  BY <1>2, <1>3
<1>15. HeardInv'
  BY <1>1, <1>6, HeardPrimed DEF HeardInv
<1> QED
  BY <1>1, <1>6, <1>13, <1>14, <1>15, BufferPrimed

LEMMA BufferInvInit == Init => HeardInv /\ BufferInv
<1> SUFFICES ASSUME Init PROVE HeardInv /\ BufferInv
  OBVIOUS
<1>1. 0 \in Packets
  BY StreamsAssumption DEF Init, Packets
<1> QED
  BY <1>1 DEF Init, HeardInv, BufferInv, Unheard, NoAv

LEMMA BufferInvNext ==
    ASSUME OneClock, ShortCall, ~DelayAnyTime, Steady, LockInv, ValueInv, RateInv', PaceInv,
           HeardInv, BufferInv, [Next]_vars
    PROVE  HeardInv' /\ BufferInv'
<1>1. ASSUME UNCHANGED <<sent, heard, got>>, av'.on => av.on /\ av'.m = av.m
      PROVE  HeardInv' /\ BufferInv'
  BY <1>1, HeardPrimed, BufferPrimed DEF HeardInv, BufferInv
<1>2. DOMAIN av = {"on", "m", "missing", "late"}
  BY DEF LockInv, Shapes
<1>3. ASSUME NEW n \in Packets, Arrive(n)
      PROVE  HeardInv' /\ BufferInv'
  BY <1>3, ArriveBuffers
<1>4. CASE PlayStarts
  BY <1>4, PlayStartsBuffers
<1>5. CASE NetSync
  BY <1>1, <1>2, <1>5 DEF NetSync
<1>6. CASE PlaySync
  BY <1>1, <1>2, <1>6 DEF PlaySync
<1>7. CASE NetLocks \/ NetInsert \/ PlayLocks \/ PlayPulls \/ PlayEnds
  BY <1>1, <1>7 DEF NetLocks, NetInsert, PlayLocks, PlayPulls, PlayEnds, receiver
<1>8. ASSUME NEW ms \in Delays, SetInitialDelay(ms)
      PROVE  HeardInv' /\ BufferInv'
  <2> DEFINE new == [NoAv EXCEPT !.on = TRUE, !.m = NewManager(ms)]
  <2>1. /\ UNCHANGED <<sent, heard, got>>
        /\ av' \in {NoAv, av} \/ (av' = new /\ ms # 0)
        /\ ms = 0 \/ got = {}
    BY <1>8 DEF SetInitialDelay, Elsewhere
  <2>2. CASE av' = av
    BY <1>1, <2>1, <2>2
  <2>3. CASE av' = NoAv
    BY <1>1, <2>1, <2>3 DEF NoAv
  <2>4. CASE av' = new /\ ms # 0
    <3>1. heard.first = 0 /\ heard.newest = 0
      BY <2>1, <2>4 DEF HeardInv
    <3>2. /\ av'.m = NewManager(ms) /\ ~PacketBuffered(av'.m) /\ av'.m.buffered = 0
          /\ av'.m.buffering
      BY <2>4 DEF NoAv, NewManager, PacketBuffered
    <3>3. Since(0, heard) = 0
      <4>1. StampOf(0) \in Nat
        BY StampsInOrder DEF ValueInv
      <4> QED
        BY <3>1, <4>1 DEF Since
    <3>4. BufferedTrue(av'.m, heard)
      BY <3>1, <3>2, <3>3 DEF BufferedTrue
    <3> QED
      BY <2>1, <3>4, HeardPrimed, BufferPrimed DEF HeardInv
  <2> QED
    BY <2>1, <2>2, <2>3, <2>4
<1>9. CASE ApiNext /\ ~\E ms \in Delays : SetInitialDelay(ms)
  BY <1>1, <1>9 DEF ApiNext, EnableNack, AddCodec, RemoveCodec, CodecRemoved, DisableNack,
                    FlushBuffers, Call, Elsewhere, receiver
<1>10. CASE UNCHANGED vars
  BY <1>1, <1>10 DEF vars, receiver
<1> QED
  BY <1>3, <1>4, <1>5, <1>6, <1>7, <1>8, <1>9, <1>10
     DEF Next, NetNext, PlayNext, ApiNext, Ended

\* The initial delay is kept, whatever is lost, late or out of order: as long as a
\* delay is set before the first packet and ended between calls, what the delay
\* manager counts as buffered is never more than was sent since the codec was
\* first heard, so a steady stream is not played before so much of it has come.
THEOREM InitialDelayKept ==
    ASSUME OneClock, ShortCall, ~DelayAnyTime
    PROVE  Spec => []DelayKept
<1> DEFINE Inv == ReceiverInv /\ (Steady => HeardInv /\ BufferInv)
<1>1. Init => Inv
  BY ReceiverInvStep, BufferInvInit
<1>2. Inv /\ [Next]_vars => Inv'
  <2> SUFFICES ASSUME Inv, [Next]_vars PROVE Inv'
    OBVIOUS
  <2>1. ReceiverInv'
    BY ReceiverInvStep
  <2>2. Steady' => Steady
    BY NextSent, SameStream
  <2>3. Steady => HeardInv' /\ BufferInv'
    BY <2>1, BufferInvNext DEF ReceiverInv
  <2> QED
    BY <2>1, <2>2, <2>3
<1>3. Inv => DelayKept
  <2> SUFFICES ASSUME Inv, Steady, av.on, ~av.m.buffering, ~heard.crowded, ~heard.overtaken
               PROVE  StampOf(heard.newest) - StampOf(heard.first) >= av.m.delay
    BY DEF DelayKept
  <2>1. av.m.delay <= av.m.buffered /\ av.m.buffered <= Since(heard.newest, heard)
    BY DEF BufferInv, BufferedTrue
  <2>2. av.m.delay \in Nat /\ av.m.buffered \in Nat /\ Packets \subseteq Nat /\ sent \in Streams
    BY SteadyStamps DEF ReceiverInv, ValueInv, ManagerTyped
  <2>3. StampOf(heard.newest) \in Nat /\ StampOf(heard.first) \in Nat
    <3>1. heard.newest \in Packets /\ heard.first \in Packets
      BY DEF HeardInv
    <3>2. sent \in Streams
      BY <2>2
    <3> HIDE DEF Inv
    <3> QED
      BY <3>1, <3>2, StreamTimes
  <2> QED
    BY <2>1, <2>2, <2>3 DEF Since
<1> QED
  BY <1>1, <1>2, <1>3, PTL DEF Spec
=============================================================================
