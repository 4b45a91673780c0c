----------------------------- MODULE NackStream -----------------------------
(***************************************************************************)
(* A Nack driven as its header asks: UpdateLastReceivedPacket for every    *)
(* packet pushed into NetEq, UpdateLastDecodedPacket for every 10 ms of    *)
(* audio pulled, Reset and UpdateSampleRate when the codec changes.  The   *)
(* network loses, duplicates and reorders; NetEq decodes packets it has    *)
(* got in order and conceals in between.  Packets are numbered from 0; the *)
(* history variables say what is true of them, without any wrap.           *)
(***************************************************************************)
EXTENDS Nack, FiniteSetsExt

CONSTANTS SeqStart, TsStart,  \* of packet 0
          Streams,      \* what may be sent: packet n of stream d is to be heard
                        \* d[n] ms after packet 0
          Rate,         \* sample rate, Hz
          Reorder,      \* bound: how far behind the newest a packet arrives
          Jump,         \* bound: how far ahead of it
          Lag,          \* bound: how far playout falls behind the newest
          MaxPulls,     \* bound: pulls that conceal in a row
          Sizes,        \* the maximum list sizes asked for
          RoundTrips    \* the round-trip times GetNackList is asked with

khz == Rate \div 1000

ASSUME StartAssumption == SeqStart \in Nat /\ TsStart \in Nat /\ Rate \in Nat /\ khz > 0
ASSUME WindowAssumption ==
    /\ Reorder \in Nat /\ Jump \in Nat /\ Lag \in Nat /\ MaxPulls \in Nat
    /\ Sizes \subseteq Nat /\ RoundTrips \subseteq Nat
    /\ Reorder + Jump + kNackListSizeLimit < SeqSpan \div 2
    /\ Lag < SeqSpan \div 2
    /\ nack_threshold_packets < SeqSpan \div 2

\* Packets are numbered without gaps, each to be heard after the one before; a
\* stream ends before its timestamps come round to the first one's.
ASSUME StreamsAssumption ==
    \A d \in Streams :
        /\ DOMAIN d \subseteq Nat /\ 0 \in DOMAIN d /\ d[0] = 0
        /\ \A n \in DOMAIN d : /\ d[n] \in Nat /\ d[n] * khz < TsSpan
                             /\ \A m \in 0 .. (n - 1) : m \in DOMAIN d /\ d[m] < d[n]

VARIABLES nack,     \* the instance
          sent,     \* the stream, one of Streams
          got,      \* history: packets received since the last reset
          first,    \* history: the first of them, -1 if none
          played,   \* history: the packet decoded last, -1 if none
          pulls,    \* history: 10 ms blocks concealed since then
          heard,    \* history: the latest playout time reached since the reset
          floor,    \* history: the oldest packet the size ever allowed
          asserted  \* history: every assertion met held

vars == <<nack, sent, got, first, played, pulls, heard, floor, asserted>>

Packets == DOMAIN sent
Steady == \A n \in Packets : n > 0 => sent[n] = n * sent[1]

SeqOf(n) == SeqNo(SeqStart + n)
TsOf(n) == (TsStart + sent[n] * khz) % TsSpan

newest == IF got = {} THEN -1 ELSE Max(got)

\* The packet that a sequence number within the window stands for.
PacketOf(seq) == newest - SeqNo(SeqOf(newest) - seq)
ListedPackets == {PacketOf(s) : s \in Listed(nack)}

\* Where playout stands.
Clock == IF played = -1 THEN (IF first = -1 THEN 0 ELSE sent[first])
                        ELSE sent[played] + 10 * pulls

TypeOK ==
    /\ Listed(nack) \subseteq 0 .. (SeqSpan - 1)
    /\ \A s \in Listed(nack) :
          /\ nack.list[s].timeToPlay \in -(10 * MaxPulls) .. (TsSpan - 1)
          /\ nack.list[s].timestamp \in 0 .. (TsSpan - 1)
          /\ nack.list[s].isMissing \in BOOLEAN
    /\ {nack.seqReceived, nack.seqDecoded} \subseteq 0 .. (SeqSpan - 1)
    /\ {nack.tsReceived, nack.tsDecoded} \subseteq 0 .. (TsSpan - 1)
    /\ nack.maxSize \in 1 .. kNackListSizeLimit

Restarted(k) ==
    /\ nack' = UpdateSampleRate(k, Rate)
    /\ got' = {} /\ first' = -1 /\ played' = -1 /\ pulls' = 0 /\ heard' = 0 /\ floor' = 0

Init ==
    /\ sent \in Streams
    /\ nack = UpdateSampleRate(NewNack, Rate)
    /\ got = {} /\ first = -1 /\ played = -1 /\ pulls = 0 /\ heard = 0 /\ floor = 0
    /\ asserted = TRUE

Highest(a, b) == IF a > b THEN a ELSE b

\* The network delivers packet n.
Receive(n) ==
    /\ got # {} => n \in (newest - Reorder) .. (newest + Jump)
    /\ played # -1 => n <= played + Lag
    /\ nack' = UpdateLastReceivedPacket(nack, SeqOf(n), TsOf(n))
    /\ got' = got \cup {n}
    /\ first' = IF first = -1 THEN n ELSE first
    /\ heard' = Highest(heard, IF first = -1 THEN sent[n] ELSE 0)
    /\ floor' = Highest(floor, newest' - nack.maxSize)
    /\ asserted' = (asserted /\ (got # {} /\ n > newest + 1 => AddAsserts(nack, SeqOf(n))))
    /\ UNCHANGED <<sent, played, pulls>>

Decodes(n) ==
    /\ nack' = UpdateLastDecodedPacket(nack, SeqOf(n), TsOf(n))
    /\ asserted' = (asserted /\ DecodeAsserts(nack, SeqOf(n)))
    /\ played' = n
    /\ UNCHANGED <<sent, got, first, floor>>

\* 10 ms are pulled: NetEq decodes packet n, or goes on without one.
PullNew(n) ==
    /\ n \in got /\ n > played /\ n + Lag >= newest
    /\ Decodes(n)
    /\ pulls' = 0 /\ heard' = Highest(heard, sent[n])

PullMore ==
    /\ played # -1 /\ pulls < MaxPulls
    /\ Decodes(played)
    /\ pulls' = pulls + 1 /\ heard' = Highest(heard, Clock + 10)

CodecChange == Restarted(Reset(nack)) /\ UNCHANGED <<sent, asserted>>

SetMaxSize(size) ==
    /\ nack' = SetMaxNackListSize(nack, size)
    /\ floor' = IF nack.anyReceived THEN Highest(floor, newest - nack'.maxSize) ELSE floor
    /\ UNCHANGED <<sent, got, first, played, pulls, heard, asserted>>

Next ==
    \/ \E n \in Packets : Receive(n) \/ PullNew(n)
    \/ PullMore
    \/ CodecChange
    \/ \E size \in Sizes : SetMaxSize(size)

Spec == Init /\ [][Next]_vars

-----------------------------------------------------------------------------
\* The packets that could still be of use: skipped, not received since, after
\* the one being played, and as far back as the size of the list reaches.
Wanted ==
    {n \in Packets : /\ got # {} /\ first < n /\ n < newest
                     /\ n \notin got /\ n > played /\ n >= floor}

\* Nothing is asked for again that was received or decoded, that precedes what
\* was decoded, that was never skipped or that the size of the list excludes;
\* reordering, duplication and the wrap of sequence numbers included.
OnlyWanted == ListedPackets \subseteq Wanted

\* Everything of use is listed, until its time to be played has come (where
\* packets change their duration, that time is only an estimate).
AllWanted == Steady => \A n \in Wanted : n \in ListedPackets \/ sent[n] <= heard

\* The list holds what is wanted.
ListExact == OnlyWanted /\ AllWanted

\* nack.h: a packet is missing when a packet more than the threshold newer has
\* arrived, late otherwise, whichever order the others came in.
MissingExact ==
    \A s \in Listed(nack) :
        nack.list[s].isMissing <=> PacketOf(s) < newest - nack_threshold_packets

\* The time to play of a listed packet is the time until its stamp comes up,
\* whichever mix of decoding, concealment and skipping led there, for as long as
\* that time has not passed.
TimesTrue ==
    Steady => \A s \in Listed(nack) : LET n == PacketOf(s) IN
        sent[n] >= Clock => nack.list[s].timeToPlay = sent[n] - Clock

\* What an entry says of its packet is so.
EntriesTrue == MissingExact /\ TimesTrue

\* Of what playout has not reached, GetNackList asks again for exactly the wanted
\* packets more than the threshold behind the newest whose time to play is
\* longer than the round trip.
AskedFor ==
    LET Ahead(P) == {n \in P : sent[n] > heard}
    IN  Steady => \A rtt \in RoundTrips :
            Ahead({PacketOf(s) : s \in GetNackList(nack, rtt)})
                = Ahead({n \in Wanted : /\ n < newest - nack_threshold_packets
                                        /\ sent[n] - Clock > rtt})

\* The estimated timestamps stay between those of the packets received around
\* the gap, in order, even where the packets changed their duration within it.
EstimatesOrdered ==
    \A s, t \in Listed(nack) :
        LET Past(x) == (TsOf(newest) - nack.list[x].timestamp) % TsSpan
        IN  /\ Past(s) <= (TsOf(newest) - TsOf(first)) % TsSpan
            /\ Newer(s, t) => Past(s) <= Past(t)

\* The assertions of AddToList and UpdateLastDecodedPacket.
AssertionsHold == asserted
=============================================================================
