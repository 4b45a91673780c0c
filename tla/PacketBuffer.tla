---------------------------- MODULE PacketBuffer ----------------------------
(***************************************************************************)
(* webrtc::PacketBuffer (packet_buffer.cc) and the order of packets        *)
(* (packet.h).  A packet is [n, seq, ts, pt, sync, primary, len, cn]: the  *)
(* stream's n-th slot, its header, whether it is a sync packet, whether it *)
(* is the packet itself and not a copy sent along with the next (FEC), the *)
(* time its audio lasts and whether its decoder calls it comfort noise.    *)
(* A buffer is a sequence of packets, the next to play first.              *)
(***************************************************************************)
EXTENDS RtpNumbers, SequencesExt

CONSTANTS MaxPackets,    \* max_number_of_packets_
          NoiseTypes     \* the payload types of comfort noise

NoType == "none"         \* 0xFF

ASSUME BufferAssumption == MaxPackets \in Nat \ {0} /\ NoType \notin NoiseTypes

IsComfortNoise(p) == p.pt \in NoiseTypes

\* Packet::operator<.  Half of a circle counts one less than half of its numbers.
Before(p, q) ==
    IF p.ts # q.ts THEN Ts(q.ts - p.ts) < TsSpan \div 2 - 1
    ELSE IF p.seq # q.seq THEN SeqNo(q.seq - p.seq) < SeqSpan \div 2 - 1
    ELSE q.sync \/ (~p.sync /\ p.primary /\ ~q.primary)

\* InsertPacket: behind the last packet that is not after it; a full buffer is
\* flushed first.
Placed(buffer, p) ==
    InsertAt(buffer, 1 + Max({0} \cup {i \in DOMAIN buffer : ~Before(p, buffer[i])}), p)
\* Slip: a buffer is full one packet later.
SlipFull(buffer) == Len(buffer) > MaxPackets
Full(buffer) == Len(buffer) >= MaxPackets

\* InsertPacketList, one packet: of a payload type other than the current one of
\* its kind it flushes the buffer.  s is [buffer, pt, cng, flushed].
InsertOne(s, p) ==
    LET noise == IsComfortNoise(p)
        current == IF noise THEN s.cng ELSE s.pt
        changed == current # NoType /\ current # p.pt
        flush == changed \/ Full(s.buffer)
    IN  [buffer |-> Placed(IF flush THEN <<>> ELSE s.buffer, p),
         pt |-> IF ~noise THEN p.pt ELSE IF changed THEN NoType ELSE s.pt,
         cng |-> IF noise THEN p.pt ELSE IF changed THEN NoType ELSE s.cng,
         flushed |-> s.flushed \/ flush]

\* The list is a packet, or the two that SplitFec makes of it.
InsertPacketList(buffer, pt, cng, list) ==
    LET first == InsertOne([buffer |-> buffer, pt |-> pt, cng |-> cng, flushed |-> FALSE],
                           list[1])
    IN  IF Len(list) = 1 THEN first ELSE InsertOne(first, list[2])

\* DiscardOldPackets: whether a timestamp is before the limit.
\* Slip: a packet at the limit is old.
SlipOld(ts, limit) == ts = limit \/ Ts(limit - ts) < TsSpan \div 2 - 1
Old(ts, limit) == ts # limit /\ Ts(limit - ts) < TsSpan \div 2 - 1

\* GetNextPacket takes a packet and discards those behind it with its timestamp.
\* These are the places of the packets that calls of it take.
Leads(buffer) == {i \in DOMAIN buffer : i = 1 \/ buffer[i].ts # buffer[i - 1].ts}

\* The k-th smallest of a set of numbers.
Nth(S, k) == CHOOSE i \in S : Cardinality({j \in S : j < i}) = k - 1

\* The buffer without the packets in front for which Drop holds.
WithoutFront(buffer, Drop(_)) ==
    LET kept == {i \in DOMAIN buffer : ~Drop(buffer[i])}
    IN  IF kept = {} THEN <<>> ELSE SubSeq(buffer, Min(kept), Len(buffer))
=============================================================================
