---------------------------- MODULE InitialDelay ----------------------------
(***************************************************************************)
(* acm2::InitialDelayManager (initial_delay_manager.cc): what audio has    *)
(* been buffered towards an initial delay, and the streams of sync packets *)
(* that stand in NetEq for packets missing or late, as operators on one    *)
(* instance.  A packet is [seq, ts, pt]; its type is "audio", "cng",       *)
(* "avt", "sync" or "undefined".  hz is the codec's sample rate.           *)
(***************************************************************************)
EXTENDS RtpNumbers

CONSTANT late_packet_threshold

ASSUME ThresholdAssumption == late_packet_threshold \in Nat \ {0}

kInvalidPayloadType == 255

NewManager(delay) ==
    [type |-> "undefined", seq |-> 0, ts |-> 0, pt |-> kInvalidPayloadType, recv |-> 0,
     step |-> 0, audioPt |-> kInvalidPayloadType, delay |-> delay,
     buffered |-> 0, buffering |-> TRUE, playout |-> 0]

\* A SyncStream: how many sync packets, the first of them, when it should have
\* been received, and the samples per packet.
NoSync == [num |-> 0, seq |-> 0, ts |-> 0, pt |-> kInvalidPayloadType, recv |-> 0, step |-> 0]

PacketBuffered(m) == m.type # "undefined"

\* DTMF, and packets no newer than the last, do not count.
Ignored(m, p, type) == type = "avt" \/ (PacketBuffered(m) /\ ~Newer(p.seq, m.seq))

RecordLastPacket(m, p, recv, type) ==
    [m EXCEPT !.type = type, !.seq = p.seq, !.ts = p.ts, !.pt = p.pt, !.recv = recv]

UpdatePlayoutTimestamp(m, p, hz) ==
    [m EXCEPT !.playout = Ts(p.ts - (m.delay * hz) \div 1000)]

\* Slip: what was buffered of the last codec counts.
SlipRestart(m, p, recv, type, hz) ==
    UpdatePlayoutTimestamp(
        [RecordLastPacket(m, p, recv, type) EXCEPT
            !.step = 0, !.buffering = TRUE,
            !.audioPt = IF type = "audio" THEN p.pt ELSE kInvalidPayloadType], p, hz)
\* The first packet, or the first of another codec.
Restart(m, p, recv, type, hz) ==
    UpdatePlayoutTimestamp(
        [RecordLastPacket(m, p, recv, type) EXCEPT
            !.step = 0, !.buffered = 0, !.buffering = TRUE,
            !.audioPt = IF type = "audio" THEN p.pt ELSE kInvalidPayloadType], p, hz)

\* The audio up to packet p is buffered.
Accumulate(m, p, hz) ==
    LET ms == m.buffered + Ts(Ts(p.ts - m.ts) * 1000) \div hz
    IN  IF ~m.buffering THEN m
        ELSE UpdatePlayoutTimestamp([m EXCEPT !.buffered = ms, !.buffering = ms < m.delay],
                                    p, hz)

\* "For smooth transitions leave a gap between audio and sync packets."
NumMissing(m, gap) == IF m.type = "sync" THEN gap - 1 ELSE gap - 2

\* Slip: the timestamps do not allow for the gap before the packet received.
SlipRewound(m, p, recv, num, step) ==
    [num |-> num, seq |-> SeqNo(p.seq - (num + 1)), ts |-> Ts(p.ts - step * num),
     pt |-> m.audioPt, recv |-> Ts(recv - step * num), step |-> step]
\* The num sync packets that end one packet before p.
Rewound(m, p, recv, num, step) ==
    [num |-> num, seq |-> SeqNo(p.seq - (num + 1)), ts |-> Ts(p.ts - step * (num + 1)),
     pt |-> m.audioPt, recv |-> Ts(recv - step * (num + 1)), step |-> step]

\* Packet p continues the stream: the instance with the audio accumulated, and
\* the packets missing before p.  The successor of the last sequence number is
\* not wrapped.
Continue(m, p, recv, type) ==
    LET increase == Ts(p.ts - m.ts)
        gap == SeqNo(p.seq - m.seq - 1)
        num == NumMissing(m, gap)
        step == IF m.step = 0 THEN increase \div (gap + 1) ELSE m.step
        last(s) == RecordLastPacket([m EXCEPT !.step = s], p, recv, type)
    IN  IF p.seq = m.seq + 1
        THEN [m |-> last(IF m.type = "audio" THEN increase ELSE m.step), sync |-> NoSync]
        ELSE IF num > 0 /\ m.audioPt # kInvalidPayloadType
        THEN [m |-> last(step), sync |-> Rewound(m, p, recv, num, step)]
        ELSE [m |-> last(m.step), sync |-> NoSync]

\* The assertion at the top of UpdateLastReceivedPacket.
UpdateAsserts(m, p, type, new_codec) == type = "audio" /\ ~new_codec => p.pt = m.audioPt

\* Slip: a new codec goes on with the stream of the last one.
SlipUpdateLastPacket(m, p, recv, type, new_codec, hz) ==
    IF Ignored(m, p, type) THEN [m |-> m, sync |-> NoSync]
    ELSE IF m.pt = kInvalidPayloadType
    THEN [m |-> Restart(m, p, recv, type, hz), sync |-> NoSync]
    ELSE Continue(Accumulate(m, p, hz), p, recv, type)
UpdateLastPacket(m, p, recv, type, new_codec, hz) ==
    IF Ignored(m, p, type) THEN [m |-> m, sync |-> NoSync]
    ELSE IF new_codec \/ m.pt = kInvalidPayloadType
    THEN [m |-> Restart(m, p, recv, type, hz), sync |-> NoSync]
    ELSE Continue(Accumulate(m, p, hz), p, recv, type)

\* Slip: one more packet is late than has had the time to be.
SlipNumLate(m, now) == Ts(now - m.recv) \div m.step + 1
NumLate(m, now) == Ts(now - m.recv) \div m.step

CannotEstimate(m) ==
    \/ m.step = 0
    \/ m.type \in {"cng", "undefined"}
    \/ m.audioPt = kInvalidPayloadType

\* "Fake the last RTP, assuming the caller will inject the whole sync-stream."
Faked(m, ahead) ==
    [m EXCEPT !.type = "sync", !.pt = m.audioPt, !.seq = SeqNo(m.seq + ahead),
              !.ts = Ts(m.ts + ahead * m.step), !.recv = Ts(m.recv + ahead * m.step)]

LatePackets(m, now) ==
    IF CannotEstimate(m) \/ NumLate(m, now) < late_packet_threshold
    THEN [m |-> m, sync |-> NoSync]
    ELSE LET offset == IF m.type = "sync" THEN 1 ELSE 2
             num == NumLate(m, now) - (offset - 1)
         IN  IF num = 0 THEN [m |-> m, sync |-> NoSync]
             ELSE [m |-> Faked(m, SeqNo(num + offset - 1)),
                   sync |-> [num |-> num, seq |-> SeqNo(m.seq + offset),
                             ts |-> Ts(m.ts + offset * m.step), pt |-> m.audioPt,
                             recv |-> Ts(m.recv + offset * m.step), step |-> m.step]]

DisableBuffering(m) == [m EXCEPT !.buffering = FALSE]
=============================================================================
