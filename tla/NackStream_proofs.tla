------------------------- MODULE NackStream_proofs -------------------------
(***************************************************************************)
(* Theorems about NackStream, for circles of any size, streams of any      *)
(* length and durations, and any loss, duplication, reordering, pulls and  *)
(* list sizes within the windows that WindowAssumption names.              *)
(***************************************************************************)
EXTENDS NackStream, RtpNumbers_proofs

-----------------------------------------------------------------------------
(* The numbers of the stream's packets.                                     *)

\* Half a circle, as a number to reckon with.
LEMMA Half ==
    /\ SeqSpan \in Nat \ {0} /\ SeqSpan \div 2 \in Nat /\ SeqSpan = 2 * (SeqSpan \div 2)
    /\ TsSpan \in Nat \ {0}
    /\ kNackListSizeLimit \in Nat \ {0} /\ kNackListSizeLimit < SeqSpan \div 2
    /\ Jump \in Nat /\ Jump < SeqSpan \div 2 /\ Reorder \in Nat /\ Reorder < SeqSpan \div 2
    /\ Jump + kNackListSizeLimit < SeqSpan \div 2
<1>1. SeqSpan \div 2 \in Nat /\ SeqSpan = 2 * (SeqSpan \div 2)
  BY SpansAssumption
<1> QED
  BY <1>1, SpansAssumption, WindowAssumption, LimitAssumption

LEMMA SeqOfType == \A n \in Int : SeqOf(n) \in 0 .. (SeqSpan - 1)
<1> SUFFICES ASSUME NEW n \in Int PROVE SeqOf(n) \in 0 .. (SeqSpan - 1)
  OBVIOUS
<1>1. SeqStart + n \in Int
  BY StartAssumption
<1> QED
  BY <1>1, Half, Places DEF SeqOf, SeqNo

\* The number so many on from a packet's is that of the packet so many on.
LEMMA SeqOn ==
    ASSUME NEW n \in Int, NEW d \in Int
    PROVE  SeqNo(SeqOf(n) + d) = SeqOf(n + d)
<1> DEFINE a == SeqStart + n
<1>1. a \in Int /\ a + d = SeqStart + (n + d)
  BY StartAssumption
<1> HIDE DEF a
<1>2. ((a % SeqSpan) + d) % SeqSpan = (a + d) % SeqSpan
  BY <1>1, Half, GoesOn
<1> QED
  BY <1>1, <1>2 DEF SeqOf, SeqNo, a

\* From the number of an earlier packet to that of a later one.
LEMMA SeqApart ==
    ASSUME NEW a \in Int, NEW b \in Int, a - b \in 0 .. (SeqSpan - 1)
    PROVE  SeqNo(SeqOf(a) - SeqOf(b)) = a - b
<1> DEFINE x == SeqStart + a
           y == SeqStart + b
<1>1. x \in Int /\ y \in Int /\ x - y = a - b
  BY StartAssumption
<1> HIDE DEF x, y
<1>2. ((x % SeqSpan) - (y % SeqSpan)) % SeqSpan = x - y
  BY <1>1, Half, Between
<1> QED
  BY <1>1, <1>2 DEF SeqOf, SeqNo, x, y

\* Packets closer than a circle have different numbers.
LEMMA SeqOfInjective ==
    ASSUME NEW a \in Int, NEW b \in Int, a - b \in -(SeqSpan - 1) .. (SeqSpan - 1),
           SeqOf(a) = SeqOf(b)
    PROVE  a = b
<1>1. ASSUME NEW c \in Int, NEW d \in Int, c - d \in 0 .. (SeqSpan - 1), SeqOf(c) = SeqOf(d)
      PROVE  c = d
  <2>1. SeqNo(SeqOf(c) - SeqOf(d)) = c - d
    BY <1>1, SeqApart
  <2>2. SeqNo(SeqOf(c) - SeqOf(d)) = SeqNo(SeqOf(c) - SeqOf(c))
    BY <1>1
  <2>3. SeqOf(c) - SeqOf(c) = 0
    BY SeqOfType
  <2>4. SeqNo(0) = 0
    BY Half DEF SeqNo
  <2> QED
    BY <2>1, <2>2, <2>3, <2>4
<1>2. CASE a >= b
  <2>1. a - b \in 0 .. (SeqSpan - 1)
    BY <1>2, Half
  <2> QED
    BY <2>1, <1>1
<1>3. CASE b >= a
  <2>1. b - a \in 0 .. (SeqSpan - 1)
    BY <1>3, Half
  <2> QED
    BY <2>1, <1>1
<1> QED
  BY <1>2, <1>3

\* Of packets less than half a circle apart the later one is the newer.
LEMMA NewerIsLater ==
    ASSUME NEW a \in Int, NEW b \in Int, a - b < SeqSpan \div 2, b - a < SeqSpan \div 2
    PROVE  Newer(SeqOf(a), SeqOf(b)) <=> a > b
<1>1. CASE a = b
  BY <1>1 DEF Newer, IsNewer
<1>2. ASSUME NEW c \in Int, NEW d \in Int, c > d, c - d < SeqSpan \div 2
      PROVE  Newer(SeqOf(c), SeqOf(d)) /\ ~Newer(SeqOf(d), SeqOf(c))
  <2> DEFINE start == SeqStart + d
             j == c - d
  <2>1. start \in Int /\ j \in Nat /\ 0 < j /\ j - 0 < SeqSpan \div 2
        /\ start + j = SeqStart + c /\ start + 0 = SeqStart + d /\ 0 \in Nat
    BY <1>2, StartAssumption
  <2> HIDE DEF start, j
  <2>2. Newer(SeqNo(start + j), SeqNo(start + 0)) /\ ~Newer(SeqNo(start + 0), SeqNo(start + j))
    BY <2>1, StretchOrdered
  <2> QED
    BY <2>1, <2>2 DEF SeqOf
<1> QED
  BY <1>1, <1>2

-----------------------------------------------------------------------------
(* The invariant.                                                           *)
NackFields == {"anyReceived", "seqReceived", "tsReceived", "anyDecoded", "seqDecoded",
               "tsDecoded", "khz", "perPacket", "list", "maxSize"}

\* The timestamp e ticks after packet 0's.
TsAt(e) == (TsStart + e) % TsSpan

\* Packet n is listed, and its entry; how far its estimated timestamp is behind
\* the newest packet's.
Lists(n)  == SeqOf(n) \in Listed(nack)
Entry(n)  == nack.list[SeqOf(n)]
Behind(n) == (nack.tsReceived - Entry(n).timestamp) % TsSpan

HistoryInv ==
    /\ sent \in Streams /\ got \subseteq Packets
    /\ first \in got \cup {-1} /\ played \in got \cup {-1}
    /\ first = -1 <=> got = {}
    /\ got # {} => newest \in got /\ \A n \in got : n <= newest
    /\ pulls \in 0 .. MaxPulls /\ (played = -1 => pulls = 0)
    /\ played # -1 => newest - played <= Lag
    /\ heard \in Nat /\ Clock <= heard
    /\ floor \in Nat /\ (got = {} => floor = 0)
    /\ got # {} => newest - nack.maxSize <= floor /\ floor <= newest

InstanceInv ==
    /\ DOMAIN nack = NackFields
    /\ nack.khz = khz /\ nack.maxSize \in 1 .. kNackListSizeLimit
    /\ nack.anyReceived <=> got # {}
    /\ nack.anyDecoded <=> played # -1
    /\ got # {} => /\ nack.seqReceived = SeqOf(newest) /\ nack.tsReceived = TsOf(newest)
                   /\ nack.tsDecoded = TsAt(Clock * khz)
    /\ played # -1 => nack.seqDecoded = SeqOf(played)
    /\ {nack.seqReceived, nack.seqDecoded} \subseteq 0 .. (SeqSpan - 1)
    /\ {nack.tsReceived, nack.tsDecoded} \subseteq 0 .. (TsSpan - 1)

\* What an entry says of packet n.
EntryInv(n) ==
    /\ DOMAIN Entry(n) = {"timeToPlay", "timestamp", "isMissing"}
    /\ Entry(n).isMissing \in BOOLEAN
    /\ Entry(n).isMissing <=> n < newest - nack_threshold_packets
    /\ Entry(n).timestamp \in 0 .. (TsSpan - 1)
    /\ Entry(n).timeToPlay \in -(10 * pulls) .. (TsSpan - 1)
    /\ Behind(n) <= (sent[newest] - sent[first]) * khz
    /\ Steady => /\ Entry(n).timestamp = TsOf(n)
                 /\ sent[n] >= Clock => Entry(n).timeToPlay = sent[n] - Clock

ListsWanted == \A s \in Listed(nack) : \E n \in Wanted : s = SeqOf(n)
Entries     == \A n \in Wanted : Lists(n) => EntryInv(n)
InOrder     == \A m, n \in Wanted : Lists(m) /\ Lists(n) /\ m < n => Behind(n) <= Behind(m)
Complete    == Steady => \A n \in Wanted : Lists(n) \/ sent[n] <= heard

ListInv == ListsWanted /\ Entries /\ InOrder /\ Complete

NackInv == HistoryInv /\ InstanceInv /\ ListInv /\ asserted

-----------------------------------------------------------------------------
(* What the functions of Nack do to an instance, field by field.            *)

\* Fields that hold what they held.
Kept(k, u, fields) == \A f \in fields : u[f] = k[f]

\* The first packet.
LEMMA ReceiveFirst ==
    ASSUME NEW k, DOMAIN k = NackFields, ~k.anyReceived, ~k.anyDecoded, NEW seq, NEW ts
    PROVE  LET u == UpdateLastReceivedPacket(k, seq, ts)
           IN  /\ DOMAIN u = NackFields /\ u.anyReceived
               /\ u.seqReceived = seq /\ u.tsReceived = ts
               /\ u.seqDecoded = seq /\ u.tsDecoded = ts
               /\ Kept(k, u, {"anyDecoded", "khz", "perPacket", "list", "maxSize"})
  BY DEF UpdateLastReceivedPacket, NackFields, Kept

\* A packet that comes late is listed no longer.
LEMMA ReceiveOld ==
    ASSUME NEW k, DOMAIN k = NackFields, k.anyReceived, NEW seq, NEW ts,
           seq # k.seqReceived, Newer(k.seqReceived, seq)
    PROVE  LET u == UpdateLastReceivedPacket(k, seq, ts)
           IN  /\ DOMAIN u = NackFields /\ Kept(k, u, NackFields \ {"list"})
               /\ Listed(u) = Listed(k) \ {seq}
               /\ \A s \in Listed(u) : u.list[s] = k.list[s]
<1>1. UpdateLastReceivedPacket(k, seq, ts) = [k EXCEPT !.list = Without(k.list, seq)]
  BY DEF UpdateLastReceivedPacket, Received
<1> QED
  BY <1>1 DEF Without, Listed, NackFields, Kept

\* What is estimated of packet s, when seq is the newest.
Estimate(k, seq, ts, s) ==
    (SeqNo(s - k.seqReceived) * SamplesPerPacket(k, seq, ts) + k.tsReceived) % TsSpan

\* A packet newer than any before: the packets it skips are listed, all are
\* judged by it, and what is too old for the list goes.
LEMMA ReceiveNew ==
    ASSUME NEW k, DOMAIN k = NackFields, k.anyReceived, NEW seq, NEW ts,
           seq # k.seqReceived, ~Newer(k.seqReceived, seq)
    PROVE  LET u == UpdateLastReceivedPacket(k, seq, ts)
               skipped == Skipped(k, seq)
           IN  /\ DOMAIN u = NackFields /\ u.seqReceived = seq /\ u.tsReceived = ts
               /\ Kept(k, u, {"anyReceived", "anyDecoded", "seqDecoded", "tsDecoded", "khz",
                              "maxSize"})
               /\ Listed(u) = {s \in (Listed(k) \ {seq}) \cup skipped :
                                  Newer(s, SeqNo(seq - k.maxSize - 1))}
               /\ \A s \in Listed(u) :
                     u.list[s] = IF s \in skipped
                                 THEN LET e == Estimate(k, seq, ts, s)
                                      IN  [timeToPlay |-> TimeToPlay(k, e), timestamp |-> e,
                                           isMissing |-> TooLate(k, seq, s)]
                                 ELSE [k.list[s] EXCEPT !.isMissing = @ \/ TooLate(k, seq, s)]
<1> DEFINE erased == [k EXCEPT !.list = Without(k.list, seq)]
           pp == SamplesPerPacket(k, seq, ts)
           sized == [erased EXCEPT !.perPacket = pp]
           told == UpdateList(sized, seq)
           moved == [told EXCEPT !.seqReceived = seq, !.tsReceived = ts]
           skipped == Skipped(k, seq)
<1>1. UpdateLastReceivedPacket(k, seq, ts) = LimitNackListSize(moved)
  BY DEF UpdateLastReceivedPacket, Received
<1>2. /\ DOMAIN erased = NackFields /\ Kept(k, erased, NackFields \ {"list"})
      /\ Listed(erased) = Listed(k) \ {seq}
      /\ \A s \in Listed(erased) : erased.list[s] = k.list[s]
  BY DEF Without, Listed, NackFields, Kept
<1> HIDE DEF erased, pp
<1>4. /\ DOMAIN sized = NackFields /\ Kept(k, sized, NackFields \ {"list", "perPacket"})
      /\ sized.perPacket = pp /\ sized.list = erased.list
  BY <1>2 DEF NackFields, Kept
<1> HIDE DEF sized
<1>5. Skipped(sized, seq) = skipped
  BY <1>4 DEF Skipped, Kept, NackFields
<1>6. ASSUME NEW s
      PROVE  /\ EstimateTimestamp(sized, s) = Estimate(k, seq, ts, s)
             /\ TimeToPlay(sized, Estimate(k, seq, ts, s)) = TimeToPlay(k, Estimate(k, seq, ts, s))
  BY <1>4 DEF EstimateTimestamp, Estimate, TimeToPlay, Kept, NackFields, pp
<1> DEFINE element(s) == IF s \in skipped
                         THEN [timeToPlay |-> TimeToPlay(k, Estimate(k, seq, ts, s)),
                               timestamp |-> Estimate(k, seq, ts, s),
                               isMissing |-> TooLate(k, seq, s)]
                         ELSE [k.list[s] EXCEPT !.isMissing = @ \/ TooLate(k, seq, s)]
           all == Listed(erased) \cup skipped
<1>7. /\ DOMAIN told = NackFields /\ Kept(sized, told, NackFields \ {"list"})
      /\ told.list = [s \in all |-> element(s)]
  <2>1. \A s : TooLate(sized, seq, s) = TooLate(k, seq, s)
    BY DEF TooLate
  <2>2. \A s \in all : 
           (IF s \in Skipped(sized, seq)
            THEN LET e == EstimateTimestamp(sized, s)
                 IN  [timeToPlay |-> TimeToPlay(sized, e), timestamp |-> e,
                      isMissing |-> TooLate(sized, seq, s)]
            ELSE [sized.list[s] EXCEPT !.isMissing = @ \/ TooLate(sized, seq, s)])
           = element(s)
    BY <1>2, <1>4, <1>5, <1>6, <2>1
  <2>3. Listed(sized) \cup Skipped(sized, seq) = all
    BY <1>4, <1>5 DEF Listed
  <2> DEFINE new == [s \in all |->
           (IF s \in Skipped(sized, seq)
            THEN LET e == EstimateTimestamp(sized, s)
                 IN  [timeToPlay |-> TimeToPlay(sized, e), timestamp |-> e,
                      isMissing |-> TooLate(sized, seq, s)]
            ELSE [sized.list[s] EXCEPT !.isMissing = @ \/ TooLate(sized, seq, s)])]
  <2>4. told = [sized EXCEPT !.list = new]
    BY <2>3 DEF UpdateList
  <2>5. new = [s \in all |-> element(s)]
    BY <2>2
  <2> HIDE DEF new, told, element, all
  <2> QED
    BY <1>4, <2>4, <2>5 DEF NackFields, Kept
<1> HIDE DEF told, element, all
<1>8. /\ DOMAIN moved = NackFields /\ moved.seqReceived = seq /\ moved.tsReceived = ts
      /\ Kept(told, moved, NackFields \ {"seqReceived", "tsReceived"})
  BY <1>7 DEF NackFields, Kept
<1> HIDE DEF moved
<1> DEFINE u == LimitNackListSize(moved)
           cut == SeqNo(moved.seqReceived - moved.maxSize - 1)
<1>9. /\ DOMAIN u = NackFields /\ Kept(moved, u, NackFields \ {"list"})
      /\ u.list = OnlyNewerThan(moved.list, cut)
  BY <1>8 DEF LimitNackListSize, NackFields, Kept
<1>10. cut = SeqNo(seq - k.maxSize - 1)
  BY <1>4, <1>7, <1>8 DEF NackFields, Kept
<1> HIDE DEF u, cut
<1>11. /\ Kept(k, u, {"anyReceived", "anyDecoded", "seqDecoded", "tsDecoded", "khz", "maxSize"})
       /\ u.seqReceived = seq /\ u.tsReceived = ts
  BY <1>4, <1>7, <1>8, <1>9 DEF NackFields, Kept
<1>12. moved.list = [s \in all |-> element(s)]
  BY <1>7, <1>8 DEF NackFields, Kept
<1>13. /\ Listed(u) = {s \in all : Newer(s, cut)}
       /\ \A s \in Listed(u) : u.list[s] = element(s)
  BY <1>9, <1>12 DEF OnlyNewerThan, Listed
<1> QED
  BY <1>1, <1>2, <1>9, <1>10, <1>11, <1>13 DEF u, element, all

\* A packet is decoded: what precedes it goes, what stays is timed anew.
LEMMA DecodeNew ==
    ASSUME NEW k, DOMAIN k = NackFields, NEW seq, NEW ts,
           Newer(seq, k.seqDecoded) \/ ~k.anyDecoded
    PROVE  LET u == UpdateLastDecodedPacket(k, seq, ts)
           IN  /\ DOMAIN u = NackFields /\ u.anyDecoded /\ u.seqDecoded = seq /\ u.tsDecoded = ts
               /\ Kept(k, u, {"anyReceived", "seqReceived", "tsReceived", "khz", "perPacket",
                              "maxSize"})
               /\ Listed(u) = {s \in Listed(k) : Newer(s, seq)}
               /\ \A s \in Listed(u) :
                     u.list[s] = [k.list[s] EXCEPT
                         !.timeToPlay = ((k.list[s].timestamp - ts) % TsSpan) \div k.khz]
<1> DEFINE passed == Passed(k, seq)
           now == [k EXCEPT !.anyDecoded = TRUE, !.seqDecoded = seq, !.tsDecoded = ts,
                            !.list = passed]
           timed == [s \in Listed(now) |-> [now.list[s] EXCEPT !.timeToPlay =
                                               TimeToPlay(now, now.list[s].timestamp)]]
           u == [now EXCEPT !.list = timed]
<1>1. UpdateLastDecodedPacket(k, seq, ts) = u
  BY DEF UpdateLastDecodedPacket
<1>2. /\ DOMAIN passed = {s \in Listed(k) : Newer(s, seq)}
      /\ \A s \in DOMAIN passed : passed[s] = k.list[s]
  BY DEF Passed, OnlyNewerThan, Listed
<1> HIDE DEF passed
<1>3. /\ DOMAIN now = NackFields /\ now.anyDecoded /\ now.seqDecoded = seq /\ now.tsDecoded = ts
      /\ now.list = passed /\ now.khz = k.khz
      /\ Kept(k, now, {"anyReceived", "seqReceived", "tsReceived", "khz", "perPacket", "maxSize"})
  BY DEF NackFields, Kept
<1> HIDE DEF now
<1>4. \A e : TimeToPlay(now, e) = ((e - ts) % TsSpan) \div k.khz
  BY <1>3 DEF TimeToPlay
<1>5. /\ DOMAIN timed = {s \in Listed(k) : Newer(s, seq)}
      /\ \A s \in DOMAIN timed :
            timed[s] = [k.list[s] EXCEPT
                !.timeToPlay = ((k.list[s].timestamp - ts) % TsSpan) \div k.khz]
  BY <1>2, <1>3, <1>4 DEF Listed
<1> HIDE DEF timed
<1>6. /\ DOMAIN u = NackFields /\ u.list = timed
      /\ Kept(now, u, NackFields \ {"list"})
  BY <1>3 DEF NackFields, Kept
<1> HIDE DEF u
<1> QED
  BY <1>1, <1>3, <1>5, <1>6 DEF Listed, Kept, NackFields

\* 10 ms pass without a new packet: what should have been heard by then may go,
\* the rest is 10 ms nearer.
LEMMA DecodeMore ==
    ASSUME NEW k, DOMAIN k = NackFields, NEW seq, NEW ts,
           ~(Newer(seq, k.seqDecoded) \/ ~k.anyDecoded)
    PROVE  LET u == UpdateLastDecodedPacket(k, seq, ts)
           IN  /\ DOMAIN u = NackFields /\ u.tsDecoded = (k.tsDecoded + k.khz * 10) % TsSpan
               /\ Kept(k, u, NackFields \ {"list", "tsDecoded"})
               /\ Listed(u) \subseteq Listed(k)
               /\ \A s \in Listed(k) \ Listed(u) : k.list[s].timeToPlay <= 10
               /\ \A s \in Listed(u) :
                     u.list[s] = [k.list[s] EXCEPT !.timeToPlay = @ - 10]
<1> DEFINE left == [s \in Listed(k) \ Expired(k) |-> [k.list[s] EXCEPT !.timeToPlay = @ - 10]]
           ts10 == (k.tsDecoded + k.khz * 10) % TsSpan
           u == [k EXCEPT !.list = left, !.tsDecoded = ts10]
<1>1. UpdateLastDecodedPacket(k, seq, ts) = u
  BY DEF UpdateLastDecodedPacket, UpdateBy10ms
<1>2. /\ DOMAIN left = Listed(k) \ Expired(k)
      /\ \A s \in DOMAIN left : left[s] = [k.list[s] EXCEPT !.timeToPlay = @ - 10]
  OBVIOUS
<1>3. \A s \in Expired(k) : k.list[s].timeToPlay <= 10
  BY DEF Expired
<1> HIDE DEF left, ts10
<1>4. /\ DOMAIN u = NackFields /\ u.list = left /\ u.tsDecoded = ts10
      /\ Kept(k, u, NackFields \ {"list", "tsDecoded"})
  BY DEF NackFields, Kept
<1> HIDE DEF u
<1>5. Listed(u) = Listed(k) \ Expired(k)
  BY <1>2, <1>4 DEF Listed
<1> QED
  BY <1>1, <1>2, <1>3, <1>4, <1>5 DEF ts10

\* A size that is accepted cuts the list to it.
LEMMA SetMaxCuts ==
    ASSUME NEW k, DOMAIN k = NackFields, NEW size
    PROVE  LET u == SetMaxNackListSize(k, size)
           IN  \/ size \notin 1 .. kNackListSizeLimit /\ u = k
               \/ /\ size \in 1 .. kNackListSizeLimit
                  /\ DOMAIN u = NackFields /\ u.maxSize = size
                  /\ Kept(k, u, NackFields \ {"list", "maxSize"})
                  /\ Listed(u) = {s \in Listed(k) : Newer(s, SeqNo(k.seqReceived - size - 1))}
                  /\ \A s \in Listed(u) : u.list[s] = k.list[s]
<1>1. CASE size \notin 1 .. kNackListSizeLimit
  BY <1>1 DEF SetMaxNackListSize
<1>2. CASE size \in 1 .. kNackListSizeLimit
  <2> DEFINE sized == [k EXCEPT !.maxSize = size]
             cut == SeqNo(k.seqReceived - size - 1)
             u == LimitNackListSize(sized)
  <2>1. SetMaxNackListSize(k, size) = u
    BY <1>2 DEF SetMaxNackListSize
  <2>2. /\ DOMAIN sized = NackFields /\ sized.maxSize = size
        /\ Kept(k, sized, NackFields \ {"maxSize"})
    BY DEF NackFields, Kept
  <2> HIDE DEF sized
  <2>3. u = [sized EXCEPT !.list = OnlyNewerThan(k.list, cut)]
    BY <2>2 DEF LimitNackListSize, Kept, NackFields
  <2>4. /\ DOMAIN u = NackFields /\ u.list = OnlyNewerThan(k.list, cut)
        /\ Kept(sized, u, NackFields \ {"list"})
    BY <2>2, <2>3 DEF NackFields, Kept
  <2> HIDE DEF u
  <2>5. /\ Listed(u) = {s \in Listed(k) : Newer(s, cut)}
        /\ \A s \in Listed(u) : u.list[s] = k.list[s]
    BY <2>4 DEF OnlyNewerThan, Listed
  <2> QED
    BY <1>2, <2>1, <2>2, <2>4, <2>5 DEF Kept, NackFields
<1> QED
  BY <1>1, <1>2

-----------------------------------------------------------------------------
(* The stream and what has come of it.                                      *)

LEMMA StreamFacts ==
    ASSUME sent \in Streams
    PROVE  /\ Packets \subseteq Nat /\ 0 \in Packets /\ sent[0] = 0
           /\ \A n \in Packets : /\ sent[n] \in Nat /\ sent[n] * khz < TsSpan
                                 /\ \A m \in 0 .. (n - 1) : m \in Packets /\ sent[m] < sent[n]
  BY StreamsAssumption DEF Packets

LEMMA KhzFacts == khz \in Nat /\ khz > 0
<1>1. khz \in Int
  BY StartAssumption DEF khz
<1> QED
  BY <1>1, StartAssumption

LEMMA TsAtType == \A e \in Int : TsAt(e) \in 0 .. (TsSpan - 1)
<1> SUFFICES ASSUME NEW e \in Int PROVE TsAt(e) \in 0 .. (TsSpan - 1)
  OBVIOUS
<1>1. TsStart + e \in Int
  BY StartAssumption
<1> QED
  BY <1>1, Half, Places DEF TsAt

\* Where a set of numbers has a last one, that is its maximum.
LEMMA MaxIs ==
    ASSUME NEW S \in SUBSET Int, NEW x \in S, \A y \in S : y <= x
    PROVE  Max(S) = x
<1>1. \A z \in S : (\A y \in S : z >= y) => z = x
  OBVIOUS
<1> QED
  BY <1>1 DEF Max

\* What HistoryInv says of the numbers in it.
LEMMA HistoryFacts ==
    ASSUME HistoryInv, InstanceInv
    PROVE  /\ got \subseteq Nat /\ newest \in Int /\ (got # {} => newest \in Nat)
           /\ first \in Int /\ played \in Int /\ pulls \in Nat /\ Clock \in Nat
           /\ (played # -1 => played \in got /\ played <= newest /\ sent[played] \in Nat)
           /\ (first # -1 => first \in got /\ first <= newest /\ sent[first] \in Nat)
           /\ nack.maxSize \in Nat \ {0} /\ nack.maxSize <= kNackListSizeLimit
<1>1. Packets \subseteq Nat /\ \A n \in Packets : sent[n] \in Nat
  BY StreamFacts DEF HistoryInv
<1>2. got \subseteq Nat /\ (got # {} => newest \in Nat) /\ newest \in Int
  <2>1. got \subseteq Nat
    BY <1>1 DEF HistoryInv
  <2>2. got # {} => newest \in got
    BY DEF HistoryInv
  <2>3. got = {} => newest = -1
    BY DEF newest
  <2>4. got # {} => newest \in Nat
    BY <2>1, <2>2
  <2>5. newest \in Int
    BY <2>3, <2>4
  <2> QED
    BY <2>1, <2>4, <2>5
<1>3. /\ played # -1 => played \in got /\ sent[played] \in Nat /\ played <= newest
      /\ first # -1 => first \in got /\ sent[first] \in Nat /\ first <= newest
  BY <1>1, <1>2 DEF HistoryInv
<1>4. pulls \in Nat
  BY WindowAssumption DEF HistoryInv
<1>5. Clock \in Nat
  BY <1>3, <1>4 DEF Clock
<1>6. nack.maxSize \in Nat \ {0} /\ nack.maxSize <= kNackListSizeLimit
  BY Half DEF InstanceInv
<1> QED
  BY <1>1, <1>2, <1>3, <1>4, <1>5, <1>6 DEF HistoryInv

\* The timestamp of a packet.
LEMMA TsOfIs == \A n \in Packets : TsOf(n) = TsAt(sent[n] * khz)
  BY DEF TsOf, TsAt

\* The newest packet after packet n came.
LEMMA NewestMoves ==
    ASSUME HistoryInv, InstanceInv, NEW n \in Packets, got' = got \cup {n}
    PROVE  newest' = IF n > newest THEN n ELSE newest
<1>1. n \in Nat /\ got \subseteq Nat /\ newest \in Int
  BY StreamFacts, HistoryFacts DEF HistoryInv
<1>2. newest' = Max(got \cup {n})
  BY DEF newest
<1>3. CASE n > newest
  <2>1. \A y \in got : y <= newest
    BY DEF HistoryInv
  <2>2. \A y \in got \cup {n} : y <= n
    BY <1>1, <1>3, <2>1
  <2> QED
    BY <1>1, <1>2, <1>3, <2>2, MaxIs
<1>4. CASE ~(n > newest)
  <2>1. got # {}
    BY <1>1, <1>4 DEF newest
  <2>2. newest \in got /\ \A y \in got : y <= newest
    BY <2>1 DEF HistoryInv
  <2>3. \A y \in got \cup {n} : y <= newest
    BY <1>1, <1>4, <2>2
  <2>4. newest \in got \cup {n} /\ got \cup {n} \in SUBSET Int
    BY <1>1, <2>2
  <2>5. Max(got \cup {n}) = newest
    BY <2>3, <2>4, MaxIs
  <2> QED
    BY <1>2, <1>4, <2>5
<1> QED
  BY <1>3, <1>4

\* Packets less than half a circle before and after the newest are told apart.
LEMMA SameOrNewer ==
    ASSUME NEW a \in Int, NEW b \in Int, a - b < SeqSpan \div 2, b - a < SeqSpan \div 2
    PROVE  /\ SeqOf(a) = SeqOf(b) <=> a = b
           /\ Newer(SeqOf(a), SeqOf(b)) <=> a > b
<1>1. a - b \in -(SeqSpan - 1) .. (SeqSpan - 1)
  BY Half
<1> QED
  BY <1>1, SeqOfInjective, NewerIsLater

LEMMA ReceiveWindow ==
    ASSUME HistoryInv, InstanceInv, NEW n \in Packets, Receive(n), got # {}
    PROVE  /\ n - newest < SeqSpan \div 2 /\ newest - n < SeqSpan \div 2 /\ n - newest <= Jump
           /\ SeqOf(n) = nack.seqReceived <=> n = newest
           /\ Newer(nack.seqReceived, SeqOf(n)) <=> newest > n
<1>1. n \in Nat /\ newest \in Int
  BY StreamFacts, HistoryFacts DEF HistoryInv
<1>2. n - newest <= Jump /\ newest - n <= Reorder
  BY <1>1, Half DEF Receive
<1>3. n - newest < SeqSpan \div 2 /\ newest - n < SeqSpan \div 2
  BY <1>1, <1>2, Half
<1>4. nack.seqReceived = SeqOf(newest)
  BY DEF InstanceInv
<1> QED
  BY <1>1, <1>2, <1>3, <1>4, SameOrNewer

\* What a packet that arrives leaves of the history.
LEMMA ReceiveHistory ==
    ASSUME HistoryInv, InstanceInv, NEW n \in Packets, Receive(n),
           nack'.maxSize = nack.maxSize
    PROVE  /\ HistoryInv'
           /\ newest' = IF n > newest THEN n ELSE newest
           /\ floor' = IF n > newest THEN Highest(floor, n - nack.maxSize) ELSE floor
           /\ first' = (IF got = {} THEN n ELSE first) /\ Clock' = (IF got = {} THEN sent[n] ELSE Clock)
<1>1. /\ got' = got \cup {n} /\ UNCHANGED <<sent, played, pulls>>
      /\ first' = IF first = -1 THEN n ELSE first
      /\ heard' = Highest(heard, IF first = -1 THEN sent[n] ELSE 0)
      /\ floor' = Highest(floor, newest' - nack.maxSize)
  BY DEF Receive
<1>2. newest' = IF n > newest THEN n ELSE newest
  BY <1>1, NewestMoves
<1>3. n \in Nat /\ sent[n] \in Nat
  BY StreamFacts DEF HistoryInv
<1>4. /\ got \subseteq Nat /\ newest \in Int /\ (got # {} => newest \in Nat)
      /\ first \in Int /\ played \in Int /\ pulls \in Nat /\ Clock \in Nat
      /\ nack.maxSize \in Nat \ {0} /\ heard \in Nat /\ floor \in Nat
  BY HistoryFacts DEF HistoryInv
<1>5. first = -1 <=> got = {}
  BY DEF HistoryInv
<1>6. newest' \in got' /\ \A y \in got' : y <= newest'
  <2>1. CASE got = {}
    <3>1. newest = -1
      BY <2>1 DEF newest
    <3>2. got' = {n} /\ newest' = n
      BY <1>1, <1>2, <1>3, <2>1, <3>1
    <3> QED
      BY <3>2, <1>3
  <2>2. CASE got # {}
    <3>1. newest \in got /\ \A y \in got : y <= newest
      BY <2>2 DEF HistoryInv
    <3>2. CASE n > newest
      <4>1. newest' = n /\ \A y \in got : y <= n
        BY <1>2, <1>3, <1>4, <3>1, <3>2
      <4> QED
        BY <1>1, <1>3, <4>1
    <3>3. CASE ~(n > newest)
      <4>1. newest' = newest /\ n <= newest
        BY <1>2, <1>3, <1>4, <3>3
      <4> QED
        BY <1>1, <3>1, <4>1
    <3> QED
      BY <3>2, <3>3
  <2> QED
    BY <2>1, <2>2
<1>7. first' = (IF got = {} THEN n ELSE first) /\ first' # -1
  BY <1>1, <1>3, <1>5
<1>8. first' \in got' /\ played' \in got' \cup {-1} /\ got' \subseteq Packets' /\ got' # {}
  BY <1>1, <1>3, <1>7 DEF HistoryInv, Packets
<1>9. floor' = (IF n > newest THEN Highest(floor, n - nack.maxSize) ELSE floor)
      /\ floor' \in Nat /\ newest' - nack'.maxSize <= floor' /\ floor' <= newest'
  <2>1. CASE n > newest
    <3>1. floor <= n
      <4>1. CASE got = {}
        <5>1. floor \in Nat /\ n \in Nat
          BY <1>3, <1>4
        <5>2. floor = 0
          BY <4>1 DEF HistoryInv
        <5> QED
          BY <5>1, <5>2
      <4>2. CASE got # {}
        <5>1. floor <= newest
          BY <4>2 DEF HistoryInv
        <5> QED
          BY <5>1, <2>1, <1>3, <1>4
      <4> QED
        BY <4>1, <4>2
    <3>2. floor' = Highest(floor, n - nack.maxSize) /\ newest' = n
      BY <1>1, <1>2, <2>1
    <3> QED
      BY <2>1, <3>1, <3>2, <1>3, <1>4 DEF Highest
  <2>2. CASE ~(n > newest)
    <3>1. got # {} 
      BY <2>2, <1>3 DEF newest
    <3>2. newest - nack.maxSize <= floor /\ floor <= newest
      BY <3>1 DEF HistoryInv
    <3>3. floor' = Highest(floor, newest - nack.maxSize) /\ newest' = newest
      BY <1>1, <1>2, <2>2
    <3> QED
      BY <2>2, <3>2, <3>3, <1>4 DEF Highest
  <2> QED
    BY <2>1, <2>2
<1>10. Clock' = (IF got = {} THEN sent[n] ELSE Clock)
  <2>1. CASE got = {}
    <3>1. played = -1
      BY <2>1 DEF HistoryInv
    <3>2. played' = -1 /\ first' = n /\ first' # -1 /\ sent' = sent
      BY <1>1, <1>3, <1>7, <2>1, <3>1
    <3> QED
      BY <2>1, <3>2 DEF Clock
  <2>2. CASE got # {}
    BY <1>1, <1>7, <2>2 DEF Clock
  <2> QED
    BY <2>1, <2>2
<1>11. heard' \in Nat /\ Clock' <= heard'
  <2>1. CASE got = {}
    BY <1>1, <1>3, <1>4, <1>5, <1>10, <2>1 DEF Highest
  <2>2. CASE got # {}
    <3>1. Clock <= heard
      BY DEF HistoryInv
    <3>2. heard' = Highest(heard, 0)
      BY <1>1, <1>5, <2>2
    <3>3. heard' = heard
      BY <3>2, <1>4 DEF Highest
    <3>4. Clock' = Clock
      BY <1>10, <2>2
    <3> QED
      BY <3>1, <3>3, <3>4, <1>4
  <2> QED
    BY <2>1, <2>2
<1>12. played' # -1 => newest' - played' <= Lag
  <2>1. played # -1 => newest - played <= Lag /\ n <= played + Lag
    BY DEF HistoryInv, Receive
  <2> QED
    BY <2>1, <1>1, <1>2, <1>3, <1>4, WindowAssumption
<1>13. sent' \in Streams /\ pulls' \in 0 .. MaxPulls /\ (played' = -1 => pulls' = 0)
  BY <1>1 DEF HistoryInv
<1>14. HistoryInv'
  BY <1>1, <1>6, <1>7, <1>8, <1>9, <1>11, <1>12, <1>13 DEF HistoryInv
<1> QED
  BY <1>2, <1>7, <1>9, <1>10, <1>14

\* What it leaves of the instance's own fields.
LEMMA ReceiveKeeps ==
    ASSUME HistoryInv, InstanceInv, NEW n \in Packets, Receive(n)
    PROVE  /\ DOMAIN nack' = NackFields /\ nack'.anyReceived
           /\ Kept(nack, nack', {"anyDecoded", "khz", "maxSize"})
           /\ got = {} => /\ nack'.seqDecoded = SeqOf(n) /\ nack'.tsDecoded = TsOf(n)
                          /\ nack'.list = nack.list
           /\ got # {} => Kept(nack, nack', {"seqDecoded", "tsDecoded"})
           /\ IF got = {} \/ n > newest
              THEN nack'.seqReceived = SeqOf(n) /\ nack'.tsReceived = TsOf(n)
              ELSE Kept(nack, nack', {"seqReceived", "tsReceived"})
<1>1. nack' = UpdateLastReceivedPacket(nack, SeqOf(n), TsOf(n))
  BY DEF Receive
<1>2. DOMAIN nack = NackFields
  BY DEF InstanceInv
<1>3. CASE got = {}
  <2>1. ~nack.anyReceived /\ ~nack.anyDecoded
    <3>1. played = -1
      BY <1>3 DEF HistoryInv
    <3> QED
      BY <1>3, <3>1 DEF InstanceInv
  <2> QED
    BY <1>1, <1>2, <1>3, <2>1, ReceiveFirst DEF Kept
<1>4. CASE got # {}
  <2>1. nack.anyReceived
    BY <1>4 DEF InstanceInv
  <2>2. n \in Nat /\ newest \in Nat
    BY <1>4, StreamFacts, HistoryFacts DEF HistoryInv
  <2>3. CASE n = newest
    <3>1. SeqOf(n) = nack.seqReceived
      BY <1>4, <2>3, ReceiveWindow
    <3>2. nack' = nack
      BY <1>1, <2>1, <3>1 DEF UpdateLastReceivedPacket
    <3> QED
      BY <1>2, <1>4, <2>1, <2>2, <2>3, <3>2 DEF Kept
  <2>4. CASE n < newest
    <3>1. SeqOf(n) # nack.seqReceived /\ Newer(nack.seqReceived, SeqOf(n))
      BY <1>4, <2>2, <2>4, ReceiveWindow
    <3>2. Kept(nack, nack', NackFields \ {"list"}) /\ DOMAIN nack' = NackFields
      BY <1>1, <1>2, <2>1, <3>1, ReceiveOld
    <3> QED
      BY <1>4, <2>1, <2>2, <2>4, <3>2 DEF Kept, NackFields
  <2>5. CASE n > newest
    <3>1. SeqOf(n) # nack.seqReceived /\ ~Newer(nack.seqReceived, SeqOf(n))
      BY <1>4, <2>2, <2>5, ReceiveWindow
    <3>2. /\ DOMAIN nack' = NackFields /\ nack'.seqReceived = SeqOf(n) /\ nack'.tsReceived = TsOf(n)
          /\ Kept(nack, nack', {"anyReceived", "anyDecoded", "seqDecoded", "tsDecoded", "khz",
                                "maxSize"})
      BY <1>1, <1>2, <2>1, <3>1, ReceiveNew
    <3> QED
      BY <1>4, <2>1, <2>2, <2>5, <3>2 DEF Kept
  <2> QED
    BY <2>2, <2>3, <2>4, <2>5
<1> QED
  BY <1>3, <1>4

LEMMA TsOfType == ASSUME sent \in Streams PROVE \A n \in Packets : TsOf(n) \in 0 .. (TsSpan - 1)
<1> SUFFICES ASSUME NEW n \in Packets PROVE TsOf(n) \in 0 .. (TsSpan - 1)
  OBVIOUS
<1>1. sent[n] \in Int /\ khz \in Int
  BY StreamFacts, KhzFacts
<1>2. sent[n] * khz \in Int
  BY <1>1
<1> HIDE DEF khz
<1> QED
  BY <1>2, TsOfIs, TsAtType

LEMMA ReceiveInstance ==
    ASSUME HistoryInv, InstanceInv, NEW n \in Packets, Receive(n)
    PROVE  HistoryInv' /\ InstanceInv'
<1>1. nack'.maxSize = nack.maxSize
  BY ReceiveKeeps DEF Kept
<1>2. /\ HistoryInv'
      /\ newest' = IF n > newest THEN n ELSE newest
      /\ Clock' = (IF got = {} THEN sent[n] ELSE Clock)
  BY <1>1, ReceiveHistory
<1>3. got' = got \cup {n} /\ sent' = sent /\ played' = played
  BY DEF Receive
<1>4. n \in Nat /\ TsOf(n) = TsAt(sent[n] * khz)
  BY StreamFacts, TsOfIs DEF HistoryInv
<1>5. got = {} => newest = -1 /\ played = -1
  BY DEF newest, HistoryInv
<1>6. newest' = n \/ (got # {} /\ ~(n > newest) /\ newest' = newest)
  BY <1>2, <1>4, <1>5
<1>8. SeqOf(n) \in 0 .. (SeqSpan - 1) /\ TsOf(n) \in 0 .. (TsSpan - 1)
  BY <1>4, SeqOfType, TsOfType DEF HistoryInv
<1>9. \A m : TsOf(m)' = TsOf(m)
  BY <1>3 DEF TsOf
<1>10. nack'.seqReceived = SeqOf(newest') /\ nack'.tsReceived = TsOf(newest)'
  <2>1. CASE got = {} \/ n > newest
    <3>1. nack'.seqReceived = SeqOf(n) /\ nack'.tsReceived = TsOf(n)
      BY <2>1, ReceiveKeeps
    <3>2. newest' = n
      BY <2>1, <1>6
    <3> QED
      BY <3>1, <3>2, <1>3 DEF TsOf
  <2>2. CASE ~(got = {} \/ n > newest)
    <3>1. nack'.seqReceived = nack.seqReceived /\ nack'.tsReceived = nack.tsReceived
      BY <2>2, ReceiveKeeps DEF Kept
    <3>2. nack.seqReceived = SeqOf(newest) /\ nack.tsReceived = TsOf(newest)
      BY <2>2 DEF InstanceInv
    <3>3. newest' = newest
      BY <2>2, <1>2
    <3> QED
      BY <3>1, <3>2, <3>3, <1>3 DEF TsOf
  <2> QED
    BY <2>1, <2>2
<1>11. nack'.tsDecoded = TsAt(Clock' * khz)
  <2>1. CASE got = {}
    BY <2>1, <1>2, <1>4, ReceiveKeeps
  <2>2. CASE got # {}
    BY <2>2, <1>2, ReceiveKeeps DEF InstanceInv, Kept
  <2> QED
    BY <2>1, <2>2
<1>12. {nack'.seqReceived, nack'.seqDecoded} \subseteq 0 .. (SeqSpan - 1)
       /\ {nack'.tsReceived, nack'.tsDecoded} \subseteq 0 .. (TsSpan - 1)
  BY <1>8, ReceiveKeeps DEF InstanceInv, Kept
<1>13. played' # -1 => nack'.seqDecoded = SeqOf(played')
  BY <1>3, <1>5, ReceiveKeeps DEF InstanceInv, Kept
<1>14. /\ DOMAIN nack' = NackFields /\ nack'.khz = khz /\ nack'.maxSize \in 1 .. kNackListSizeLimit
       /\ nack'.anyReceived <=> got' # {}
       /\ nack'.anyDecoded <=> played' # -1
  BY <1>3, ReceiveKeeps DEF InstanceInv, Kept
<1> QED
  BY <1>2, <1>9, <1>10, <1>11, <1>12, <1>13, <1>14 DEF InstanceInv

\* The number decoded next is newer than the one decoded last.
LEMMA DecodedInOrder ==
    ASSUME HistoryInv, InstanceInv, NEW n \in got, n > played, played # -1
    PROVE  Newer(SeqOf(n), nack.seqDecoded)
<1>1. n \in Nat /\ played \in Nat /\ newest \in Nat /\ n <= newest /\ newest - played <= Lag
  BY HistoryFacts DEF HistoryInv
<1>2. n - played < SeqSpan \div 2 /\ played - n < SeqSpan \div 2
  BY <1>1, Half, WindowAssumption
<1>3. nack.seqDecoded = SeqOf(played)
  BY DEF InstanceInv
<1> QED
  BY <1>1, <1>2, <1>3, SameOrNewer

LEMMA PullNewInstance ==
    ASSUME HistoryInv, InstanceInv, NEW n \in Packets, PullNew(n)
    PROVE  /\ HistoryInv' /\ InstanceInv' /\ newest' = newest /\ Clock' = sent[n]
           /\ Newer(SeqOf(n), nack.seqDecoded) \/ ~nack.anyDecoded
           /\ newest - n <= Lag /\ n <= newest
<1>1. /\ n \in got /\ n > played /\ n + Lag >= newest
      /\ nack' = UpdateLastDecodedPacket(nack, SeqOf(n), TsOf(n))
      /\ played' = n /\ pulls' = 0 /\ heard' = Highest(heard, sent[n])
      /\ UNCHANGED <<sent, got, first, floor>>
  BY DEF PullNew, Decodes
<1>2. n \in Nat /\ sent[n] \in Nat /\ newest \in Nat /\ n <= newest /\ got # {}
  BY <1>1, StreamFacts, HistoryFacts DEF HistoryInv
<1>3. Newer(SeqOf(n), nack.seqDecoded) \/ ~nack.anyDecoded
  <2>1. played # -1 => Newer(SeqOf(n), nack.seqDecoded)
    BY <1>1, DecodedInOrder
  <2> QED
    BY <2>1 DEF InstanceInv
<1>4. DOMAIN nack = NackFields
  BY DEF InstanceInv
<1>5. /\ DOMAIN nack' = NackFields /\ nack'.anyDecoded /\ nack'.seqDecoded = SeqOf(n)
      /\ nack'.tsDecoded = TsOf(n)
      /\ Kept(nack, nack', {"anyReceived", "seqReceived", "tsReceived", "khz", "perPacket",
                            "maxSize"})
  BY <1>1, <1>3, <1>4, DecodeNew
<1>6. newest' = newest /\ Clock' = sent[n]
  <2>1. n # -1
    BY <1>2
  <2>2. Clock' = sent[n] + 10 * 0
    BY <1>1, <2>1 DEF Clock
  <2> QED
    BY <1>1, <1>2, <2>2 DEF newest
<1>7. newest - n <= Lag
  BY <1>1, <1>2, WindowAssumption
<1>8. HistoryInv'
  <2>1. heard' \in Nat /\ Clock' <= heard'
    BY <1>1, <1>2, <1>6 DEF HistoryInv, Highest
  <2>2. pulls' \in 0 .. MaxPulls /\ n # -1
    BY <1>1, <1>2, WindowAssumption
  <2>3. nack'.maxSize = nack.maxSize
    BY <1>5 DEF Kept
  <2>4. Packets' = Packets
    BY <1>1 DEF Packets
  <2> QED
    BY <1>1, <1>2, <1>6, <1>7, <2>1, <2>2, <2>3, <2>4 DEF HistoryInv
<1>9. InstanceInv'
  <2>1. SeqOf(n) \in 0 .. (SeqSpan - 1) /\ TsOf(n) \in 0 .. (TsSpan - 1)
    BY <1>2, SeqOfType, TsOfType DEF HistoryInv
  <2>2. TsOf(n) = TsAt(Clock' * khz)
    BY <1>6, TsOfIs
  <2>3. \A m : TsOf(m)' = TsOf(m)
    BY <1>1 DEF TsOf
  <2>4. nack'.tsReceived = TsOf(newest)' /\ nack'.seqReceived = SeqOf(newest)
    <3>1. nack'.tsReceived = TsOf(newest) /\ nack'.seqReceived = SeqOf(newest)
      BY <1>2, <1>5 DEF InstanceInv, Kept
    <3> QED
      BY <3>1, <1>1, <1>6 DEF TsOf
  <2>5. n # -1
    BY <1>2
  <2>6. {nack'.seqReceived, nack'.seqDecoded} \subseteq 0 .. (SeqSpan - 1)
        /\ {nack'.tsReceived, nack'.tsDecoded} \subseteq 0 .. (TsSpan - 1)
    BY <1>5, <2>1 DEF InstanceInv, Kept
  <2>7. nack'.khz = khz /\ nack'.maxSize \in 1 .. kNackListSizeLimit /\ nack'.anyReceived
    BY <1>2, <1>5 DEF InstanceInv, Kept
  <2> QED
    BY <1>1, <1>2, <1>5, <1>6, <2>2, <2>4, <2>5, <2>6, <2>7 DEF InstanceInv
<1> QED
  BY <1>2, <1>3, <1>6, <1>7, <1>8, <1>9

LEMMA PullMoreInstance ==
    ASSUME HistoryInv, InstanceInv, PullMore
    PROVE  /\ HistoryInv' /\ InstanceInv' /\ newest' = newest /\ Clock' = Clock + 10
           /\ ~(Newer(SeqOf(played), nack.seqDecoded) \/ ~nack.anyDecoded)
<1>1. /\ played # -1 /\ pulls < MaxPulls
      /\ nack' = UpdateLastDecodedPacket(nack, SeqOf(played), TsOf(played))
      /\ played' = played /\ pulls' = pulls + 1 /\ heard' = Highest(heard, Clock + 10)
      /\ UNCHANGED <<sent, got, first, floor>>
  BY DEF PullMore, Decodes
<1>2. /\ played \in got /\ sent[played] \in Nat /\ newest \in Nat /\ pulls \in Nat
      /\ Clock \in Nat /\ got # {}
  BY <1>1, HistoryFacts
<1>3. ~(Newer(SeqOf(played), nack.seqDecoded) \/ ~nack.anyDecoded)
  BY <1>1 DEF InstanceInv, Newer, IsNewer
<1>4. DOMAIN nack = NackFields
  BY DEF InstanceInv
<1>5. /\ DOMAIN nack' = NackFields /\ nack'.tsDecoded = (nack.tsDecoded + nack.khz * 10) % TsSpan
      /\ Kept(nack, nack', NackFields \ {"list", "tsDecoded"})
  BY <1>1, <1>3, <1>4, DecodeMore
<1>6. newest' = newest /\ Clock' = Clock + 10
  <2>1. Clock' = sent[played] + 10 * (pulls + 1) /\ Clock = sent[played] + 10 * pulls
    BY <1>1 DEF Clock
  <2> QED
    BY <1>1, <1>2, <2>1 DEF newest
<1>7. HistoryInv'
  <2>1. heard' \in Nat /\ Clock' <= heard'
    BY <1>1, <1>2, <1>6 DEF HistoryInv, Highest
  <2>2. pulls' \in 0 .. MaxPulls
    BY <1>1, <1>2, WindowAssumption
  <2>3. nack'.maxSize = nack.maxSize
    BY <1>5 DEF Kept, NackFields
  <2>4. Packets' = Packets
    BY <1>1 DEF Packets
  <2> QED
    BY <1>1, <1>2, <1>6, <2>1, <2>2, <2>3, <2>4 DEF HistoryInv
<1>8. nack'.tsDecoded = TsAt(Clock' * khz)
  <2> DEFINE e == Clock * khz
             n == TsStart + e
  <2>1. khz \in Int /\ Clock \in Int
    BY <1>2, KhzFacts
  <2> HIDE DEF khz
  <2>2. e \in Int /\ (Clock + 10) * khz = e + khz * 10 /\ khz * 10 \in Int
    BY <2>1
  <2>3. nack.tsDecoded = n % TsSpan /\ nack.khz = khz
    BY <1>2 DEF InstanceInv, TsAt
  <2> HIDE DEF e
  <2>4. n \in Int /\ n + khz * 10 = TsStart + (e + khz * 10)
    BY <2>2, StartAssumption
  <2> HIDE DEF n
  <2>5. ((n % TsSpan) + khz * 10) % TsSpan = (n + khz * 10) % TsSpan
    BY <2>2, <2>4, Half, GoesOn
  <2> QED
    BY <1>5, <1>6, <2>2, <2>3, <2>4, <2>5 DEF TsAt
<1>9. InstanceInv'
  <2>1. nack'.tsDecoded \in 0 .. (TsSpan - 1)
    <3>1. khz \in Int /\ Clock' \in Int
      BY <1>2, <1>6, KhzFacts
    <3> HIDE DEF khz
    <3>2. Clock' * khz \in Int
      BY <3>1
    <3> QED
      BY <3>2, <1>8, TsAtType
  <2>2. nack'.tsReceived = TsOf(newest)' /\ nack'.seqReceived = SeqOf(newest)
    <3>1. nack'.tsReceived = TsOf(newest) /\ nack'.seqReceived = SeqOf(newest)
      BY <1>2, <1>5 DEF InstanceInv, Kept, NackFields
    <3> QED
      BY <3>1, <1>1, <1>6 DEF TsOf
  <2>3. /\ nack'.khz = khz /\ nack'.maxSize \in 1 .. kNackListSizeLimit /\ nack'.anyReceived
        /\ nack'.anyDecoded /\ nack'.seqDecoded = SeqOf(played)
        /\ {nack'.seqReceived, nack'.seqDecoded} \subseteq 0 .. (SeqSpan - 1)
        /\ nack'.tsReceived \in 0 .. (TsSpan - 1)
    BY <1>1, <1>2, <1>5 DEF InstanceInv, Kept, NackFields
  <2> QED
    BY <1>1, <1>2, <1>5, <1>6, <1>8, <2>1, <2>2, <2>3 DEF InstanceInv
<1> QED
  BY <1>3, <1>6, <1>7, <1>9

LEMMA SetMaxInstance ==
    ASSUME HistoryInv, InstanceInv, NEW size, SetMaxSize(size)
    PROVE  /\ HistoryInv' /\ InstanceInv' /\ newest' = newest /\ Clock' = Clock
           /\ got # {} => floor' = Highest(floor, newest - nack'.maxSize)
           /\ got = {} => floor' = floor
<1>1. /\ nack' = SetMaxNackListSize(nack, size)
      /\ floor' = IF nack.anyReceived THEN Highest(floor, newest - nack'.maxSize) ELSE floor
      /\ UNCHANGED <<sent, got, first, played, pulls, heard, asserted>>
  BY DEF SetMaxSize
<1>2. DOMAIN nack = NackFields /\ (nack.anyReceived <=> got # {})
  BY DEF InstanceInv
<1>3. /\ DOMAIN nack' = NackFields /\ nack'.maxSize \in 1 .. kNackListSizeLimit
      /\ Kept(nack, nack', NackFields \ {"list", "maxSize"})
  <2>1. CASE nack' = nack
    BY <1>2, <2>1 DEF Kept, InstanceInv
  <2>2. CASE nack' # nack
    BY <1>1, <1>2, <2>2, SetMaxCuts
  <2> QED
    BY <2>1, <2>2
<1>4. newest' = newest /\ Clock' = Clock
  BY <1>1 DEF newest, Clock
<1>5. got # {} => newest \in Nat
  BY HistoryFacts
<1>6. nack'.maxSize \in Nat \ {0}
  BY <1>3, Half
<1>7. /\ floor' \in Nat /\ (got = {} => floor' = 0)
      /\ got # {} => newest - nack'.maxSize <= floor' /\ floor' <= newest
  <2>1. CASE got = {}
    BY <1>1, <1>2, <2>1 DEF HistoryInv
  <2>2. CASE got # {}
    <3>1. floor \in Nat /\ floor <= newest /\ newest \in Nat
      BY <1>5, <2>2 DEF HistoryInv
    <3>2. floor' = Highest(floor, newest - nack'.maxSize)
      BY <1>1, <1>2, <2>2
    <3> QED
      BY <2>2, <3>1, <3>2, <1>6 DEF Highest
  <2> QED
    BY <2>1, <2>2
<1>8. HistoryInv'
  <2>1. Packets' = Packets
    BY <1>1 DEF Packets
  <2> QED
    BY <1>1, <1>4, <1>7, <2>1 DEF HistoryInv
<1>9. InstanceInv'
  <2>1. \A m : TsOf(m)' = TsOf(m)
    BY <1>1 DEF TsOf
  <2>2. TsOf(newest)' = TsOf(newest)
    BY <1>1, <1>4 DEF TsOf
  <2> QED
    BY <1>1, <1>3, <1>4, <2>2 DEF InstanceInv, Kept, NackFields
<1> QED
  BY <1>1, <1>2, <1>4, <1>8, <1>9

\* An instance as it is made, or made anew.
LEMMA AnewInv ==
    ASSUME NEW k, DOMAIN k = NackFields, k.maxSize \in 1 .. kNackListSizeLimit,
           k.list = <<>>, ~k.anyReceived, ~k.anyDecoded, k.seqReceived = 0, k.seqDecoded = 0,
           k.tsReceived = 0, k.tsDecoded = 0, sent' \in Streams, Restarted(k)
    PROVE  HistoryInv' /\ InstanceInv' /\ Listed(nack)' = {} /\ Wanted' = {}
<1>1. /\ nack' = UpdateSampleRate(k, Rate)
      /\ got' = {} /\ first' = -1 /\ played' = -1 /\ pulls' = 0 /\ heard' = 0 /\ floor' = 0
  BY DEF Restarted
<1>2. /\ DOMAIN nack' = NackFields /\ nack'.khz = khz /\ Kept(k, nack', NackFields \ {"khz"})
  BY <1>1 DEF UpdateSampleRate, khz, NackFields, Kept
<1>3. Clock' = 0
  BY <1>1 DEF Clock
<1>4. HistoryInv'
  BY <1>1, <1>3, WindowAssumption DEF HistoryInv
<1>5. InstanceInv'
  BY <1>1, <1>2, Half DEF InstanceInv, Kept, NackFields
<1>6. nack'.list = <<>>
  BY <1>2 DEF Kept, NackFields
<1> QED
  BY <1>1, <1>4, <1>5, <1>6 DEF Listed, Wanted

-----------------------------------------------------------------------------
(* Timestamps and times.                                                    *)

\* Between two timestamps less than a circle apart.
LEMMA TsBetween ==
    ASSUME NEW a \in Int, NEW b \in Int, b - a \in 0 .. (TsSpan - 1)
    PROVE  (TsAt(b) - TsAt(a)) % TsSpan = b - a
<1> DEFINE x == TsStart + b
           y == TsStart + a
<1>1. x \in Int /\ y \in Int /\ x - y = b - a
  BY StartAssumption
<1> HIDE DEF x, y
<1>2. ((x % TsSpan) - (y % TsSpan)) % TsSpan = x - y
  BY <1>1, Half, Between
<1> QED
  BY <1>1, <1>2 DEF TsAt, x, y

\* Ticks are whole milliseconds, or part of one.
LEMMA Ticks ==
    ASSUME NEW d \in Nat, NEW k \in Nat \ {0}
    PROVE  (d * k) \div k = d /\ d * k \in Nat
  BY SMT

LEMMA TicksType ==
    ASSUME NEW e \in Nat, NEW k \in Nat \ {0}
    PROVE  e \div k \in Nat /\ e \div k <= e
  BY SMT

\* The time from one packet to a later one, by their timestamps.
LEMMA TimeBetween ==
    ASSUME NEW a \in Nat, NEW b \in Nat, a <= b, b * khz < TsSpan
    PROVE  ((TsAt(b * khz) - TsAt(a * khz)) % TsSpan) \div khz = b - a
<1> DEFINE x == a * khz
           y == b * khz
           d == b - a
<1>1. khz \in Nat \ {0}
  BY KhzFacts
<1> HIDE DEF khz
<1>2. d \in Nat
  OBVIOUS
<1>3. x \in Nat /\ y \in Nat /\ y - x = d * khz
  BY <1>1
<1>4. (d * khz) \div khz = d /\ d * khz \in Nat
  BY <1>1, <1>2, Ticks
<1> HIDE DEF x, d
<1>5. y - x \in 0 .. (TsSpan - 1)
  BY <1>3, <1>4, Half
<1> HIDE DEF y
<1>6. (TsAt(y) - TsAt(x)) % TsSpan = y - x
  BY <1>3, <1>5, TsBetween
<1> QED
  BY <1>3, <1>4, <1>6 DEF x, y, d

\* A time to play is less than a circle.
LEMMA TimeType ==
    ASSUME NEW a \in Int, NEW b \in Int
    PROVE  ((a - b) % TsSpan) \div khz \in 0 .. (TsSpan - 1)
<1> DEFINE e == (a - b) % TsSpan
<1>1. e \in 0 .. (TsSpan - 1)
  <2>1. a - b \in Int
    OBVIOUS
  <2> QED
    BY <2>1, Half, Places
<1>2. khz \in Nat \ {0}
  BY KhzFacts
<1> HIDE DEF e, khz
<1>3. e \in Nat
  BY <1>1, Half
<1>4. e \div khz \in Nat /\ e \div khz <= e
  BY <1>2, <1>3, TicksType
<1> QED
  BY <1>1, <1>4, Half DEF e

-----------------------------------------------------------------------------
(* What the list holds.                                                     *)

LEMMA WantedFacts ==
    ASSUME HistoryInv, InstanceInv, NEW n \in Wanted
    PROVE  /\ n \in Packets /\ n \in Nat /\ got # {} /\ newest \in Nat
           /\ first < n /\ n < newest /\ n \notin got /\ n > played /\ n >= floor
           /\ newest - n <= nack.maxSize /\ newest - n < SeqSpan \div 2
<1>1. /\ n \in Packets /\ got # {} /\ first < n /\ n < newest /\ n \notin got /\ n > played
      /\ n >= floor
  BY DEF Wanted
<1>2. n \in Nat /\ newest \in Nat /\ nack.maxSize \in Nat /\ nack.maxSize <= kNackListSizeLimit
  BY <1>1, StreamFacts, HistoryFacts DEF HistoryInv
<1>3. floor \in Nat /\ newest - nack.maxSize <= floor
  BY <1>1 DEF HistoryInv
<1>4. newest - n <= nack.maxSize
  BY <1>1, <1>2, <1>3
<1> QED
  BY <1>1, <1>2, <1>4, Half

\* Different packets of use have different numbers.
LEMMA WantedApart ==
    ASSUME HistoryInv, InstanceInv, NEW m \in Wanted, NEW n \in Wanted, SeqOf(m) = SeqOf(n)
    PROVE  m = n
<1>1. m \in Nat /\ n \in Nat /\ newest \in Nat /\ m < newest /\ n < newest
      /\ newest - m < SeqSpan \div 2 /\ newest - n < SeqSpan \div 2
  BY WantedFacts
<1>2. m - n < SeqSpan \div 2 /\ n - m < SeqSpan \div 2
  BY <1>1, Half
<1> QED
  BY <1>1, <1>2, SameOrNewer

\* Where nothing is of use, nothing is listed.
LEMMA NothingListed ==
    ASSUME ListsWanted, got = {}
    PROVE  Listed(nack) = {} /\ Wanted = {}
<1>1. Wanted = {}
  BY DEF Wanted
<1> QED
  BY <1>1 DEF ListsWanted

LEMMA EmptyInv ==
    /\ Listed(nack) = {} /\ Wanted = {} => ListInv
    /\ Listed(nack)' = {} /\ Wanted' = {} => ListInv'
  BY DEF ListInv, ListsWanted, Entries, InOrder, Complete

\* Packets go from the list for being of no more use, and nothing else changes.
LEMMA ListShrinks ==
    ASSUME ListInv, UNCHANGED <<sent, first, pulls, heard, newest, Clock, nack.tsReceived>>,
           Wanted' \subseteq Wanted,
           \A j \in Wanted' : Lists(j)' <=> Lists(j),
           \A s \in Listed(nack)' : s \in Listed(nack) /\ nack'.list[s] = nack.list[s],
           \A j \in Wanted \ Wanted' : SeqOf(j) \notin Listed(nack)'
    PROVE  ListInv'
<1>1. ListsWanted'
  <2> SUFFICES ASSUME NEW s \in Listed(nack)' PROVE \E j \in Wanted' : s = SeqOf(j)
    BY DEF ListsWanted
  <2>1. PICK j \in Wanted : s = SeqOf(j)
    BY DEF ListInv, ListsWanted
  <2> QED
    BY <2>1
<1>2. ASSUME NEW j \in Wanted', Lists(j)'
      PROVE  j \in Wanted /\ Lists(j) /\ Entry(j)' = Entry(j) /\ Behind(j)' = Behind(j)
  <2>1. j \in Wanted /\ Lists(j) /\ Entry(j)' = Entry(j)
    BY <1>2 DEF Lists, Entry
  <2> QED
    BY <2>1 DEF Behind
<1>3. Steady' = Steady /\ \A j : TsOf(j)' = TsOf(j)
  BY DEF Steady, Packets, TsOf
<1>4. Entries'
  <2> SUFFICES ASSUME NEW j \in Wanted', Lists(j)' PROVE EntryInv(j)'
    BY DEF Entries
  <2>1. EntryInv(j)
    BY <1>2 DEF ListInv, Entries
  <2> QED
    BY <1>2, <1>3, <2>1 DEF EntryInv
<1>5. InOrder'
  BY <1>2 DEF ListInv, InOrder
<1>6. Complete'
  BY <1>3 DEF ListInv, Complete
<1> QED
  BY <1>1, <1>4, <1>5, <1>6 DEF ListInv

\* The first packet finds nothing of use and leaves nothing of use.
LEMMA FirstList ==
    ASSUME HistoryInv, InstanceInv, ListInv, NEW n \in Packets, Receive(n), got = {}
    PROVE  ListInv'
<1>1. Listed(nack)' = {}
  <2>1. nack'.list = nack.list
    BY ReceiveKeeps
  <2> QED
    BY <2>1, NothingListed DEF Listed, ListInv
<1>2. newest' = n /\ first' = n
  <2>1. newest = -1
    BY DEF newest
  <2>2. n > newest
    BY <2>1, StreamFacts DEF HistoryInv
  <2>3. nack'.maxSize = nack.maxSize
    BY ReceiveKeeps DEF Kept
  <2> QED
    BY <2>2, <2>3, ReceiveHistory
<1>3. Wanted' = {}
  <2>1. n \in Int /\ Packets' \subseteq Int
    BY StreamFacts DEF HistoryInv, Packets, Receive
  <2>2. \A j \in Int : ~(n < j /\ j < n)
    BY <2>1
  <2> QED
    BY <1>2, <2>1, <2>2 DEF Wanted
<1> QED
  BY <1>1, <1>3, EmptyInv

\* What is of use once packet n came.
LEMMA WantedThen ==
    ASSUME HistoryInv, InstanceInv, NEW n \in Packets, Receive(n), got # {}
    PROVE  Wanted' = {j \in Packets : /\ first < j /\ j < newest' /\ j \notin got /\ j # n
                                      /\ j > played /\ j >= floor'}
<1>1. got' = got \cup {n} /\ sent' = sent /\ played' = played
  BY DEF Receive
<1>2. nack'.maxSize = nack.maxSize
  BY ReceiveKeeps DEF Kept
<1>3. first' = first
  BY <1>2, ReceiveHistory
<1> QED
  BY <1>1, <1>3 DEF Wanted, Packets

\* A packet that is not the newest is wanted and listed no longer.
LEMMA LateList ==
    ASSUME HistoryInv, InstanceInv, ListInv, NEW n \in Packets, Receive(n), got # {},
           n <= newest
    PROVE  ListInv'
<1>1. n \in Nat /\ newest \in Nat
  BY StreamFacts, HistoryFacts DEF HistoryInv
<1>2. nack'.maxSize = nack.maxSize
  BY ReceiveKeeps DEF Kept
<1>3. newest' = newest /\ floor' = floor /\ first' = first /\ Clock' = Clock
  <2>1. ~(n > newest)
    BY <1>1
  <2> QED
    BY <1>2, <2>1, ReceiveHistory
<1>4. UNCHANGED <<sent, pulls>> /\ heard' = heard
  <2>1. first # -1
    BY DEF HistoryInv
  <2>2. heard' = Highest(heard, 0) /\ heard \in Nat
    BY <2>1 DEF Receive, HistoryInv
  <2> QED
    BY <2>2 DEF Receive, Highest
<1>5. nack'.tsReceived = nack.tsReceived
  <2>1. ~(n > newest)
    BY <1>1
  <2> QED
    BY <2>1, ReceiveKeeps DEF Kept
<1>6. Wanted' = Wanted \ {n}
  BY <1>3, WantedThen DEF Wanted
<1>7. /\ Listed(nack)' = Listed(nack) \ {SeqOf(n)}
      /\ \A s \in Listed(nack)' : nack'.list[s] = nack.list[s]
  <2>1. nack' = UpdateLastReceivedPacket(nack, SeqOf(n), TsOf(n)) /\ nack.anyReceived
        /\ DOMAIN nack = NackFields
    BY DEF Receive, InstanceInv
  <2>2. CASE n = newest
    <3>1. SeqOf(n) = nack.seqReceived
      BY <2>2, ReceiveWindow
    <3>2. nack' = nack
      BY <2>1, <3>1 DEF UpdateLastReceivedPacket
    <3>3. SeqOf(n) \notin Listed(nack)
      <4> SUFFICES ASSUME NEW j \in Wanted, SeqOf(n) = SeqOf(j) PROVE FALSE
        BY DEF ListInv, ListsWanted
      <4>1. j \in Nat /\ j < newest /\ newest - j < SeqSpan \div 2
        BY WantedFacts
      <4>2. n - j < SeqSpan \div 2 /\ j - n < SeqSpan \div 2
        BY <4>1, <2>2, <1>1, Half
      <4> QED
        BY <1>1, <2>2, <4>1, <4>2, SameOrNewer
    <3> QED
      BY <3>2, <3>3
  <2>3. CASE n < newest
    <3>1. SeqOf(n) # nack.seqReceived /\ Newer(nack.seqReceived, SeqOf(n))
      BY <1>1, <2>3, ReceiveWindow
    <3> QED
      BY <2>1, <3>1, ReceiveOld
  <2> QED
    BY <1>1, <2>2, <2>3
<1>8. ASSUME NEW j \in Wanted'
      PROVE  Lists(j)' <=> Lists(j)
  <2>1. j \in Nat /\ j < newest /\ newest - j < SeqSpan \div 2 /\ j # n
    BY <1>6, WantedFacts
  <2>2. n - j < SeqSpan \div 2 /\ newest - n <= Reorder
    <3>1. n >= newest - Reorder
      BY Half, <1>1 DEF Receive
    <3> QED
      BY <1>1, <2>1, <3>1, Half
  <2>3. j - n < SeqSpan \div 2
    BY <1>1, <2>1, <2>2, Half
  <2>4. SeqOf(j) # SeqOf(n)
    BY <1>1, <2>1, <2>2, <2>3, SameOrNewer
  <2> QED
    BY <1>7, <2>4 DEF Lists
<1>9. \A j \in Wanted \ Wanted' : SeqOf(j) \notin Listed(nack)'
  BY <1>6, <1>7
<1> QED
  BY <1>3, <1>4, <1>5, <1>6, <1>7, <1>8, <1>9, ListShrinks

\* A smaller list forgets the oldest packets.
LEMMA SetMaxList ==
    ASSUME HistoryInv, InstanceInv, ListInv, NEW size, SetMaxSize(size)
    PROVE  ListInv'
<1>1. /\ newest' = newest /\ Clock' = Clock
      /\ UNCHANGED <<sent, got, first, played, pulls, heard>>
      /\ nack' = SetMaxNackListSize(nack, size)
  BY SetMaxInstance DEF SetMaxSize
<1>2. DOMAIN nack = NackFields
  BY DEF InstanceInv
<1>3. CASE got = {}
  <2>1. Wanted' = {}
    BY <1>1, <1>3 DEF Wanted
  <2>2. Listed(nack) = {}
    BY <1>3, NothingListed DEF ListInv
  <2>3. Listed(nack)' = {}
    BY <1>1, <1>2, <2>2, SetMaxCuts
  <2> QED
    BY <2>1, <2>3, EmptyInv
<1>4. CASE got # {}
  <2>1. newest \in Nat /\ floor \in Nat /\ newest - nack.maxSize <= floor /\ nack.maxSize \in Nat
    BY <1>4, HistoryFacts DEF HistoryInv
  <2>2. floor' = Highest(floor, newest - nack'.maxSize)
    BY <1>4, SetMaxInstance
  <2>3. Wanted' = {j \in Wanted : j >= floor'}
    <3>1. floor' >= floor /\ floor' \in Int
      <4>1. nack'.maxSize \in Nat
        BY SetMaxInstance, Half DEF InstanceInv
      <4> QED
        BY <2>1, <2>2, <4>1 DEF Highest
    <3>2. Packets \subseteq Nat
      BY StreamFacts DEF HistoryInv
    <3>3. \A j \in Nat : j >= floor' => j >= floor
      BY <2>1, <3>1
    <3>4. Wanted' = {j \in Packets : /\ got # {} /\ first < j /\ j < newest
                                     /\ j \notin got /\ j > played /\ j >= floor'}
      BY <1>1 DEF Wanted, Packets
    <3> QED
      BY <3>2, <3>3, <3>4 DEF Wanted
  <2>4. CASE nack' = nack
    <3>1. floor' = floor
      BY <2>1, <2>2, <2>4 DEF Highest
    <3>2. Wanted' = Wanted
      BY <2>3, <3>1 DEF Wanted
    <3> QED
      BY <1>1, <2>4, <3>2, ListShrinks DEF Lists
  <2>5. CASE nack' # nack
    <3>1. /\ size \in 1 .. kNackListSizeLimit /\ nack'.maxSize = size
          /\ nack'.tsReceived = nack.tsReceived
          /\ Listed(nack)' = {s \in Listed(nack) : Newer(s, SeqNo(nack.seqReceived - size - 1))}
          /\ \A s \in Listed(nack)' : nack'.list[s] = nack.list[s]
      BY <1>1, <1>2, <2>5, SetMaxCuts DEF Kept, NackFields
    <3> DEFINE cut == newest - size - 1
    <3>2. cut \in Int /\ size \in Nat /\ size < SeqSpan \div 2
      BY <2>1, <3>1, Half
    <3>3. SeqNo(nack.seqReceived - size - 1) = SeqOf(cut)
      <4>1. nack.seqReceived = SeqOf(newest)
        BY <1>4 DEF InstanceInv
      <4>2. SeqOf(newest) \in Int /\ -size - 1 \in Int
        BY <2>1, <3>2, SeqOfType
      <4>3. nack.seqReceived - size - 1 = SeqOf(newest) + (-size - 1)
        BY <3>2, <4>1, <4>2
      <4>4. newest + (-size - 1) = cut
        BY <2>1, <3>2
      <4> QED
        BY <2>1, <4>2, <4>3, <4>4, SeqOn
    <3>4. ASSUME NEW j \in Wanted
          PROVE  Newer(SeqOf(j), SeqOf(cut)) <=> j > cut
      <4>1. j \in Nat /\ j < newest /\ newest - j < SeqSpan \div 2
        BY WantedFacts
      <4>2. cut - j < SeqSpan \div 2 /\ j - cut < SeqSpan \div 2
        <5>1. size + 1 <= SeqSpan \div 2 /\ j - cut <= size
          BY <2>1, <3>2, <4>1, Half
        <5> QED
          BY <2>1, <3>2, <4>1, <5>1, Half
      <4> HIDE DEF cut
      <4> QED
        BY <3>2, <4>1, <4>2, NewerIsLater
    <3>5. ASSUME NEW j \in Wanted
          PROVE  j >= floor' <=> j > cut
      <4>1. j \in Nat /\ j >= floor
        BY WantedFacts
      <4> QED
        BY <2>1, <2>2, <3>1, <3>2, <4>1 DEF Highest
    <3>6. \A j \in Wanted' : Lists(j)' <=> Lists(j)
      BY <2>3, <3>1, <3>3, <3>4, <3>5 DEF Lists
    <3>7. \A j \in Wanted \ Wanted' : SeqOf(j) \notin Listed(nack)'
      BY <2>3, <3>1, <3>3, <3>4, <3>5
    <3> QED
      BY <1>1, <2>3, <3>1, <3>6, <3>7, ListShrinks
  <2> QED
    BY <2>4, <2>5
<1> QED
  BY <1>3, <1>4

\* Decoding packet n leaves what comes after it, timed from where it is.
LEMMA PullNewList ==
    ASSUME HistoryInv, InstanceInv, ListInv, NEW n \in Packets, PullNew(n)
    PROVE  ListInv'
<1>1. /\ newest' = newest /\ Clock' = sent[n] /\ n <= newest /\ newest - n <= Lag
      /\ Newer(SeqOf(n), nack.seqDecoded) \/ ~nack.anyDecoded
  BY PullNewInstance
<1>2. /\ n \in got /\ n > played /\ played' = n /\ pulls' = 0
      /\ heard' = Highest(heard, sent[n]) /\ UNCHANGED <<sent, got, first, floor>>
      /\ nack' = UpdateLastDecodedPacket(nack, SeqOf(n), TsOf(n))
  BY DEF PullNew, Decodes
<1>3. n \in Nat /\ sent[n] \in Nat /\ newest \in Nat /\ played \in Int /\ heard \in Nat
  BY <1>2, StreamFacts, HistoryFacts DEF HistoryInv
<1>4. DOMAIN nack = NackFields /\ nack.khz = khz
  BY DEF InstanceInv
<1> DEFINE time(s) == ((nack.list[s].timestamp - TsOf(n)) % TsSpan) \div khz
<1>5. /\ Listed(nack)' = {s \in Listed(nack) : Newer(s, SeqOf(n))}
      /\ \A s \in Listed(nack)' : nack'.list[s] = [nack.list[s] EXCEPT !.timeToPlay = time(s)]
      /\ nack'.tsReceived = nack.tsReceived
  BY <1>1, <1>2, <1>4, DecodeNew DEF Kept
<1>6. Wanted' = {j \in Wanted : j > n}
  <2>1. Packets \subseteq Nat
    BY StreamFacts DEF HistoryInv
  <2>2. Wanted' = {j \in Packets : /\ got # {} /\ first < j /\ j < newest
                                   /\ j \notin got /\ j > n /\ j >= floor}
    BY <1>1, <1>2 DEF Wanted, Packets
  <2>3. \A j \in Nat : j > n => j > played
    BY <1>2, <1>3
  <2> QED
    BY <2>1, <2>2, <2>3 DEF Wanted
<1>7. ASSUME NEW j \in Wanted
      PROVE  Newer(SeqOf(j), SeqOf(n)) <=> j > n
  <2>1. j \in Nat /\ j < newest /\ newest - j < SeqSpan \div 2
    BY WantedFacts
  <2>2. j - n < SeqSpan \div 2 /\ n - j < SeqSpan \div 2
    BY <1>1, <1>3, <2>1, Half, WindowAssumption
  <2> QED
    BY <1>3, <2>1, <2>2, NewerIsLater
<1>8. ASSUME NEW j \in Wanted'
      PROVE  Lists(j)' <=> Lists(j)
  BY <1>5, <1>6, <1>7 DEF Lists
<1>9. ListsWanted'
  <2> SUFFICES ASSUME NEW s \in Listed(nack)' PROVE \E j \in Wanted' : s = SeqOf(j)
    BY DEF ListsWanted
  <2>1. PICK j \in Wanted : s = SeqOf(j)
    BY <1>5 DEF ListInv, ListsWanted
  <2>2. j > n
    BY <1>5, <1>7, <2>1
  <2> QED
    BY <1>6, <2>1, <2>2
<1>10. Steady' = Steady /\ \A j : TsOf(j)' = TsOf(j)
  BY <1>2 DEF Steady, Packets, TsOf
<1>11. ASSUME NEW j \in Wanted', Lists(j)'
       PROVE  /\ j \in Wanted /\ Lists(j) /\ EntryInv(j) /\ j > n
              /\ Entry(j)' = [Entry(j) EXCEPT !.timeToPlay = time(SeqOf(j))]
              /\ Behind(j)' = Behind(j)
  <2>1. j \in Wanted /\ Lists(j) /\ EntryInv(j) /\ j > n
    BY <1>6, <1>8, <1>11 DEF ListInv, Entries
  <2>2. Entry(j)' = [Entry(j) EXCEPT !.timeToPlay = time(SeqOf(j))]
    BY <1>5, <1>11 DEF Lists, Entry
  <2>3. Entry(j)'.timestamp = Entry(j).timestamp
    BY <2>1, <2>2 DEF EntryInv
  <2> QED
    BY <1>5, <2>1, <2>2, <2>3 DEF Behind
<1>12. Entries'
  <2> SUFFICES ASSUME NEW j \in Wanted', Lists(j)' PROVE EntryInv(j)'
    BY DEF Entries
  <2> DEFINE t == time(SeqOf(j))
  <2>1. /\ EntryInv(j) /\ j > n /\ j \in Wanted /\ Entry(j)' = [Entry(j) EXCEPT !.timeToPlay = t]
        /\ Behind(j)' = Behind(j)
    BY <1>11
  <2>2. j \in Packets /\ j \in Nat
    BY <2>1, WantedFacts
  <2>3. t \in 0 .. (TsSpan - 1)
    <3>1. Entry(j).timestamp \in Int /\ TsOf(n) \in Int
      BY <2>1, TsOfType DEF EntryInv, HistoryInv
    <3>2. t = ((Entry(j).timestamp - TsOf(n)) % TsSpan) \div khz
      BY DEF Entry
    <3> HIDE DEF t
    <3> QED
      BY <3>1, <3>2, TimeType
  <2>4. Steady => t = sent[j] - sent[n]
    <3> SUFFICES ASSUME Steady PROVE t = sent[j] - sent[n]
      OBVIOUS
    <3>1. Entry(j).timestamp = TsAt(sent[j] * khz) /\ TsOf(n) = TsAt(sent[n] * khz)
      BY <2>1, <2>2, TsOfIs DEF EntryInv
    <3>2. sent[n] < sent[j] /\ sent[j] \in Nat /\ sent[j] * khz < TsSpan
      <4>1. n \in 0 .. (j - 1)
        BY <1>3, <2>1, <2>2
      <4> QED
        BY <2>2, <4>1, StreamFacts DEF HistoryInv
    <3>3. ((TsAt(sent[j] * khz) - TsAt(sent[n] * khz)) % TsSpan) \div khz = sent[j] - sent[n]
      BY <1>3, <3>2, TimeBetween
    <3>4. t = ((Entry(j).timestamp - TsOf(n)) % TsSpan) \div khz
      BY DEF Entry
    <3> QED
      BY <3>1, <3>3, <3>4
  <2> HIDE DEF t
  <2>5. /\ Entry(j)'.timeToPlay = t /\ DOMAIN Entry(j)' = DOMAIN Entry(j)
        /\ Entry(j)'.timestamp = Entry(j).timestamp /\ Entry(j)'.isMissing = Entry(j).isMissing
    BY <2>1 DEF EntryInv
  <2>6. t \in -(10 * pulls') .. (TsSpan - 1)
    BY <1>2, <2>3
  <2> QED
    BY <1>1, <1>2, <1>10, <2>1, <2>4, <2>5, <2>6 DEF EntryInv
<1>13. InOrder'
  BY <1>11 DEF ListInv, InOrder
<1>14. Complete'
  <2> SUFFICES ASSUME Steady, NEW j \in Wanted' PROVE Lists(j)' \/ sent'[j] <= heard'
    BY <1>10 DEF Complete
  <2>1. Lists(j) \/ sent[j] <= heard
    BY <1>6 DEF ListInv, Complete
  <2>2. heard <= heard' /\ heard' \in Nat
    BY <1>2, <1>3 DEF Highest
  <2>3. sent[j] \in Nat
    BY <1>6, WantedFacts, StreamFacts DEF HistoryInv
  <2> QED
    BY <1>2, <1>3, <1>8, <2>1, <2>2, <2>3
<1> QED
  BY <1>9, <1>12, <1>13, <1>14 DEF ListInv

\* While nothing new is decoded, what should have been heard goes, and what is
\* left is nearer.
LEMMA PullMoreList ==
    ASSUME HistoryInv, InstanceInv, ListInv, PullMore
    PROVE  ListInv'
<1>1. /\ newest' = newest /\ Clock' = Clock + 10
      /\ ~(Newer(SeqOf(played), nack.seqDecoded) \/ ~nack.anyDecoded)
  BY PullMoreInstance
<1>2. /\ played' = played /\ pulls' = pulls + 1 /\ heard' = Highest(heard, Clock + 10)
      /\ UNCHANGED <<sent, got, first, floor>>
      /\ nack' = UpdateLastDecodedPacket(nack, SeqOf(played), TsOf(played))
  BY DEF PullMore, Decodes
<1>3. Clock \in Nat /\ heard \in Nat /\ Clock <= heard /\ pulls \in Nat
  BY HistoryFacts DEF HistoryInv
<1>4. heard' \in Nat /\ heard <= heard' /\ Clock + 10 <= heard'
  BY <1>2, <1>3 DEF Highest
<1>5. DOMAIN nack = NackFields
  BY DEF InstanceInv
<1>6. /\ Listed(nack)' \subseteq Listed(nack)
      /\ \A s \in Listed(nack) \ Listed(nack)' : nack.list[s].timeToPlay <= 10
      /\ \A s \in Listed(nack)' : nack'.list[s] = [nack.list[s] EXCEPT !.timeToPlay = @ - 10]
      /\ nack'.tsReceived = nack.tsReceived
  BY <1>1, <1>2, <1>5, DecodeMore DEF Kept, NackFields
<1>7. Wanted' = Wanted
  BY <1>1, <1>2 DEF Wanted, Packets
<1>8. ListsWanted'
  BY <1>6, <1>7 DEF ListInv, ListsWanted
<1>9. Steady' = Steady /\ \A j : TsOf(j)' = TsOf(j)
  BY <1>2 DEF Steady, Packets, TsOf
<1>10. ASSUME NEW j \in Wanted', Lists(j)'
       PROVE  /\ j \in Wanted /\ Lists(j) /\ EntryInv(j)
              /\ Entry(j)' = [Entry(j) EXCEPT !.timeToPlay = @ - 10]
              /\ Behind(j)' = Behind(j)
  <2>1. j \in Wanted /\ Lists(j)
    BY <1>6, <1>7, <1>10 DEF Lists
  <2>2. Entry(j)' = [Entry(j) EXCEPT !.timeToPlay = @ - 10]
    BY <1>6, <1>10 DEF Lists, Entry
  <2>3. EntryInv(j)
    BY <2>1 DEF ListInv, Entries
  <2>4. Entry(j)'.timestamp = Entry(j).timestamp
    BY <2>2, <2>3 DEF EntryInv
  <2> QED
    BY <1>6, <2>1, <2>2, <2>3, <2>4 DEF Behind
<1>11. Entries'
  <2> SUFFICES ASSUME NEW j \in Wanted', Lists(j)' PROVE EntryInv(j)'
    BY DEF Entries
  <2>1. /\ EntryInv(j) /\ j \in Wanted /\ Entry(j)' = [Entry(j) EXCEPT !.timeToPlay = @ - 10]
        /\ Behind(j)' = Behind(j)
    BY <1>10
  <2>2. /\ Entry(j)'.timeToPlay = Entry(j).timeToPlay - 10 /\ DOMAIN Entry(j)' = DOMAIN Entry(j)
        /\ Entry(j)'.timestamp = Entry(j).timestamp /\ Entry(j)'.isMissing = Entry(j).isMissing
    BY <2>1 DEF EntryInv
  <2>3. sent[j] \in Nat
    BY <2>1, WantedFacts, StreamFacts DEF HistoryInv
  <2>4. Entry(j)'.timeToPlay \in -(10 * pulls') .. (TsSpan - 1)
    BY <1>2, <1>3, <2>1, <2>2, Half DEF EntryInv
  <2>5. Steady => (sent[j] >= Clock' => Entry(j)'.timeToPlay = sent[j] - Clock')
    BY <1>1, <1>3, <2>1, <2>2, <2>3 DEF EntryInv
  <2> QED
    BY <1>1, <1>2, <1>9, <2>1, <2>2, <2>4, <2>5 DEF EntryInv
<1>12. InOrder'
  BY <1>10 DEF ListInv, InOrder
<1>13. Complete'
  <2> SUFFICES ASSUME Steady, NEW j \in Wanted, ~Lists(j)' PROVE sent[j] <= heard'
    BY <1>2, <1>7, <1>9 DEF Complete
  <2>1. sent[j] \in Nat
    BY WantedFacts, StreamFacts DEF HistoryInv
  <2>2. CASE ~Lists(j)
    BY <1>3, <1>4, <2>1, <2>2 DEF ListInv, Complete
  <2>3. CASE Lists(j)
    <3>1. EntryInv(j)
      BY <2>3 DEF ListInv, Entries
    <3>2. Entry(j).timeToPlay <= 10
      BY <1>6, <2>3 DEF Lists, Entry
    <3>3. CASE sent[j] >= Clock
      BY <1>3, <1>4, <2>1, <3>1, <3>2, <3>3 DEF EntryInv
    <3>4. CASE ~(sent[j] >= Clock)
      BY <1>3, <1>4, <2>1, <3>4
    <3> QED
      BY <3>3, <3>4
  <2> QED
    BY <2>2, <2>3
<1> QED
  BY <1>8, <1>11, <1>12, <1>13 DEF ListInv

-----------------------------------------------------------------------------
(* A packet newer than any before.                                          *)

\* Ticks from the newest packet to packet n, and what each packet between is
\* taken to last.
Gap(n)   == (sent[n] - sent[newest]) * khz
Share(n) == Gap(n) \div (n - newest)

\* Equal shares of a gap do not exceed it.
LEMMA Shares ==
    ASSUME NEW e \in Nat, NEW g \in Nat \ {0}
    PROVE  /\ e \div g \in Nat
           /\ \A d \in 0 .. g : d * (e \div g) \in Nat /\ d * (e \div g) <= e
           /\ \A c, d \in 0 .. g : c <= d => c * (e \div g) <= d * (e \div g)
<1> DEFINE p == e \div g
<1>1. p \in Nat /\ p * g <= e
  BY SMT
<1> HIDE DEF p
<1>2. ASSUME NEW c \in Nat, NEW d \in Nat, c <= d
      PROVE  c * p \in Nat /\ d * p \in Nat /\ c * p <= d * p
  <2> DEFINE r == d - c
  <2>1. r \in Nat /\ d = c + r
    BY <1>2
  <2> HIDE DEF r
  <2>2. c * p \in Nat /\ r * p \in Nat /\ d * p = c * p + r * p
    BY <1>1, <2>1
  <2> QED
    BY <2>2
<1>3. \A d \in 0 .. g : d * p \in Nat /\ d * p <= g * p /\ g * p = p * g
  BY <1>1, <1>2
<1>4. \A d \in 0 .. g : d * p \in Nat /\ d * p <= e
  BY <1>1, <1>3
<1> QED
  BY <1>1, <1>2, <1>4 DEF p

LEMMA GapFacts ==
    ASSUME HistoryInv, InstanceInv, NEW n \in Packets, got # {}, n > newest
    PROVE  /\ n \in Nat /\ newest \in Nat /\ newest \in Packets /\ first \in Packets
           /\ Gap(n) \in Nat /\ Gap(n) < TsSpan
           /\ sent[newest] * khz \in Nat
           /\ sent[n] * khz = sent[newest] * khz + Gap(n)
           /\ (sent[newest] - sent[first]) * khz \in Nat
           /\ (sent[n] - sent[first]) * khz = (sent[newest] - sent[first]) * khz + Gap(n)
           /\ (sent[n] - sent[first]) * khz < TsSpan
<1>1. n \in Nat /\ newest \in Nat /\ newest \in Packets /\ first \in Packets /\ first <= newest
      /\ first \in Nat
  <2>1. first # -1
    BY DEF HistoryInv
  <2> QED
    BY <2>1, StreamFacts, HistoryFacts DEF HistoryInv
<1> DEFINE a == sent[first]
           b == sent[newest]
           c == sent[n]
<1>2. a \in Nat /\ b \in Nat /\ c \in Nat /\ a <= b /\ b < c /\ c * khz < TsSpan
  <2>1. newest \in 0 .. (n - 1)
    BY <1>1
  <2>2. first = newest \/ first \in 0 .. (newest - 1)
    BY <1>1
  <2> QED
    BY <1>1, <2>1, <2>2, StreamFacts DEF HistoryInv
<1>3. khz \in Nat
  BY KhzFacts
<1> HIDE DEF khz, a, b, c
<1> DEFINE p == b - a
           q == c - b
<1>4. p \in Nat /\ q \in Nat /\ b = a + p /\ c = a + p + q /\ c - a = p + q
  BY <1>2
<1> HIDE DEF p, q
<1>5. a * khz \in Nat /\ p * khz \in Nat /\ q * khz \in Nat
  BY <1>2, <1>3, <1>4
<1>6. /\ b * khz = a * khz + p * khz
      /\ c * khz = a * khz + p * khz + q * khz
      /\ (c - a) * khz = p * khz + q * khz
  BY <1>2, <1>3, <1>4
<1>7. /\ q * khz < TsSpan /\ b * khz \in Nat /\ c * khz = b * khz + q * khz
      /\ (c - a) * khz < TsSpan
  BY <1>2, <1>5, <1>6, Half
<1>8. Gap(n) = q * khz
  BY DEF Gap, q, b, c
<1>9. (b - a) * khz = p * khz
  BY DEF p
<1> QED
  BY <1>1, <1>5, <1>6, <1>7, <1>8, <1>9 DEF a, b, c

LEMMA ShareFacts ==
    ASSUME HistoryInv, InstanceInv, NEW n \in Packets, got # {}, n > newest
    PROVE  /\ Share(n) \in Nat
           /\ \A d \in 0 .. (n - newest) : d * Share(n) \in Nat /\ d * Share(n) <= Gap(n)
           /\ \A c, d \in 0 .. (n - newest) : c <= d => c * Share(n) <= d * Share(n)
           /\ Steady => \A j \in newest .. n : 
                           sent[newest] * khz + (j - newest) * Share(n) = sent[j] * khz
<1>1. n \in Nat /\ newest \in Nat /\ newest \in Packets /\ Gap(n) \in Nat
  BY GapFacts
<1> DEFINE g == n - newest
           e == Gap(n)
<1>2. g \in Nat \ {0}
  BY <1>1
<1>3. Steady => \A j \in newest .. n : 
                   sent[newest] * khz + (j - newest) * Share(n) = sent[j] * khz
  <2> SUFFICES ASSUME Steady, NEW j \in newest .. n
               PROVE  sent[newest] * khz + (j - newest) * Share(n) = sent[j] * khz
    OBVIOUS
  <2>1. 1 \in Packets /\ sent[1] \in Nat /\ sent[0] = 0
    <3>1. n = 1 \/ 1 \in 0 .. (n - 1)
      BY <1>1
    <3> QED
      BY <3>1, StreamFacts DEF HistoryInv
  <2>2. j \in Packets /\ j \in Nat
    <3>1. j = n \/ j \in 0 .. (n - 1)
      BY <1>1
    <3> QED
      BY <3>1, <1>1, StreamFacts DEF HistoryInv
  <2>3. \A m \in Packets : sent[m] = m * sent[1]
    <3> SUFFICES ASSUME NEW m \in Packets PROVE sent[m] = m * sent[1]
      OBVIOUS
    <3>1. m \in Nat
      BY StreamFacts DEF HistoryInv
    <3>2. CASE m = 0
      BY <3>2, <2>1
    <3>3. CASE m > 0
      BY <3>3 DEF Steady
    <3> QED
      BY <3>1, <3>2, <3>3
  <2> DEFINE u == sent[1] * khz
             w == sent[1]
  <2>4. khz \in Nat
    BY KhzFacts
  <2> HIDE DEF khz
  <2>5. w \in Nat /\ u \in Nat
    BY <2>1, <2>4
  <2>6. sent[n] = n * w /\ sent[newest] = newest * w /\ sent[j] = j * w
    BY <1>1, <2>2, <2>3
  <2>7. u = w * khz
    OBVIOUS
  <2> HIDE DEF w, u
  <2>8. (n * w - newest * w) * khz = g * u
    BY <1>1, <2>4, <2>5, <2>7
  <2>9. e = g * u
    BY <2>6, <2>8 DEF Gap
  <2>10. Share(n) = u
    <3>1. (u * g) \div g = u
      BY <1>2, <2>5, Ticks
    <3>2. u * g = g * u
      BY <1>2, <2>5
    <3> QED
      BY <2>9, <3>1, <3>2 DEF Share
  <2>11. (newest * w) * khz + (j - newest) * u = (j * w) * khz
    BY <1>1, <2>2, <2>4, <2>5, <2>7
  <2> QED
    BY <2>6, <2>10, <2>11
<1>4. Share(n) = e \div g
  BY DEF Share
<1> HIDE DEF g, e
<1>5. /\ e \div g \in Nat
      /\ \A d \in 0 .. g : d * (e \div g) \in Nat /\ d * (e \div g) <= e
      /\ \A c, d \in 0 .. g : c <= d => c * (e \div g) <= d * (e \div g)
  <2>1. e \in Nat
    BY <1>1 DEF e
  <2> QED
    BY <1>2, <2>1, Shares
<1> QED
  BY <1>3, <1>4, <1>5 DEF g, e

\* The packets AddToList adds are those between the newest and packet n.
LEMMA SkippedAre ==
    ASSUME HistoryInv, InstanceInv, NEW n \in Packets, Receive(n), got # {}, n > newest
    PROVE  /\ SeqNo(SeqOf(n) - nack.seqReceived) = n - newest
           /\ Skipped(nack, SeqOf(n)) = {SeqOf(j) : j \in (newest + 1) .. (n - 1)}
<1>1. n \in Nat /\ newest \in Nat /\ n - newest < SeqSpan \div 2
  BY GapFacts, ReceiveWindow
<1>2. nack.seqReceived = SeqOf(newest)
  BY DEF InstanceInv
<1>3. SeqNo(SeqOf(n) - nack.seqReceived) = n - newest
  <2>1. n - newest \in 0 .. (SeqSpan - 1)
    BY <1>1, Half
  <2> QED
    BY <1>1, <1>2, <2>1, SeqApart
<1>4. \A d \in Int : SeqNo(nack.seqReceived + d) = SeqOf(newest + d)
  BY <1>1, <1>2, SeqOn
<1>5. Skipped(nack, SeqOf(n)) = {SeqOf(newest + d) : d \in 1 .. (n - newest - 1)}
  BY <1>1, <1>3, <1>4 DEF Skipped
<1>6. \A j \in (newest + 1) .. (n - 1) : j - newest \in 1 .. (n - newest - 1) /\ newest + (j - newest) = j
  BY <1>1
<1>7. \A d \in 1 .. (n - newest - 1) : newest + d \in (newest + 1) .. (n - 1)
  BY <1>1
<1> QED
  BY <1>3, <1>5, <1>6, <1>7

\* A packet skipped is estimated to follow the newest at equal shares.
LEMMA EstimateIs ==
    ASSUME HistoryInv, InstanceInv, NEW n \in Packets, Receive(n), got # {}, n > newest,
           NEW j \in (newest + 1) .. (n - 1)
    PROVE  Estimate(nack, SeqOf(n), TsOf(n), SeqOf(j))
               = TsAt(sent[newest] * khz + (j - newest) * Share(n))
<1>1. /\ n \in Nat /\ newest \in Nat /\ newest \in Packets
      /\ Gap(n) \in Nat /\ Gap(n) < TsSpan /\ sent[newest] * khz \in Nat
      /\ sent[n] * khz = sent[newest] * khz + Gap(n)
  BY GapFacts
<1> DEFINE b == sent[newest] * khz
           d == j - newest
           e == d * Share(n)
<1>2. d \in 0 .. (n - newest) /\ d \in Int
  BY <1>1
<1>3. e \in Nat
  BY <1>2, ShareFacts
<1>4. nack.seqReceived = SeqOf(newest) /\ nack.tsReceived = TsAt(b)
  BY <1>1, TsOfIs DEF InstanceInv
<1>5. SeqNo(SeqOf(j) - nack.seqReceived) = d
  <2>1. n - newest < SeqSpan \div 2
    BY ReceiveWindow
  <2>2. d \in 0 .. (SeqSpan - 1) /\ j \in Int
    BY <1>1, <2>1, Half
  <2> QED
    BY <1>1, <1>4, <2>2, SeqApart
<1>6. SamplesPerPacket(nack, SeqOf(n), TsOf(n)) = Share(n)
  <2>1. TsOf(n) = TsAt(sent[n] * khz)
    BY TsOfIs
  <2>2. sent[n] * khz \in Int /\ sent[n] * khz - b = Gap(n)
    BY <1>1
  <2>3. (TsAt(sent[n] * khz) - TsAt(b)) % TsSpan = Gap(n)
    <3> DEFINE c == sent[n] * khz
    <3> HIDE DEF b, c
    <3>1. c - b \in 0 .. (TsSpan - 1) /\ b \in Int /\ c \in Int
      BY <1>1, <2>2, Half DEF b, c
    <3>2. (TsAt(c) - TsAt(b)) % TsSpan = c - b
      BY <3>1, TsBetween
    <3> QED
      BY <2>2, <3>2 DEF c
  <2> QED
    BY <1>4, <2>1, <2>3, SkippedAre DEF SamplesPerPacket, Share
<1>7. Estimate(nack, SeqOf(n), TsOf(n), SeqOf(j)) = (e + TsAt(b)) % TsSpan
  BY <1>4, <1>5, <1>6 DEF Estimate
<1> HIDE DEF e
<1>8. b \in Int
  BY <1>1
<1> HIDE DEF b
<1>9. (e + TsAt(b)) % TsSpan = TsAt(b + e)
  <2>1. TsAt(b) \in Int
    BY <1>8, TsAtType, Half
  <2>2. e + TsAt(b) = TsAt(b) + e /\ TsStart + (b + e) = (TsStart + b) + e /\ TsStart + b \in Int
    BY <1>3, <1>8, <2>1, StartAssumption
  <2>3. (((TsStart + b) % TsSpan) + e) % TsSpan = ((TsStart + b) + e) % TsSpan
    BY <1>3, <2>2, Half, GoesOn
  <2> QED
    BY <2>2, <2>3 DEF TsAt
<1> QED
  BY <1>7, <1>9 DEF b, e

\* What was behind the newest packet is behind packet n by the gap more.
LEMMA BehindOn ==
    ASSUME HistoryInv, InstanceInv, NEW n \in Packets, got # {}, n > newest,
           NEW t \in 0 .. (TsSpan - 1),
           (nack.tsReceived - t) % TsSpan <= (sent[newest] - sent[first]) * khz
    PROVE  (TsOf(n) - t) % TsSpan = ((nack.tsReceived - t) % TsSpan) + Gap(n)
<1>1. /\ n \in Nat /\ newest \in Nat /\ newest \in Packets
      /\ Gap(n) \in Nat /\ sent[newest] * khz \in Nat
      /\ sent[n] * khz = sent[newest] * khz + Gap(n)
      /\ (sent[newest] - sent[first]) * khz \in Nat
      /\ (sent[newest] - sent[first]) * khz + Gap(n) < TsSpan
  BY GapFacts
<1> DEFINE b == sent[newest] * khz
           e == Gap(n)
           x == (nack.tsReceived - t) % TsSpan
           y == (sent[newest] - sent[first]) * khz
<1>2. nack.tsReceived = TsAt(b) /\ TsOf(n) = TsAt(b + e)
  BY <1>1, TsOfIs DEF InstanceInv
<1>3. b \in Int /\ e \in Nat /\ y \in Nat /\ x <= y /\ y + e < TsSpan
  BY <1>1
<1>4. x \in 0 .. (TsSpan - 1)
  <2>1. nack.tsReceived - t \in Int
    BY Half DEF InstanceInv
  <2> QED
    BY <2>1, Half, Places
<1> HIDE DEF b, e, y
<1> SUFFICES (TsOf(n) - t) % TsSpan = x + e
  BY DEF e
<1>5. TsAt(b + e) = (TsAt(b) + e) % TsSpan
  <2> DEFINE w == TsStart + b
  <2>1. w \in Int /\ TsStart + (b + e) = w + e
    BY <1>3, StartAssumption
  <2>2. TsAt(b) = w % TsSpan /\ TsAt(b + e) = (w + e) % TsSpan
    BY <2>1 DEF TsAt
  <2> HIDE DEF w
  <2>3. ((w % TsSpan) + e) % TsSpan = (w + e) % TsSpan
    <3>1. TsSpan \in Nat \ {0} /\ w \in Int /\ e \in Int
      BY <1>3, <2>1, Half
    <3> QED
      BY ONLY <3>1, GoesOn
  <2> QED
    BY <2>2, <2>3
<1> DEFINE a == TsAt(b)
<1>6. a \in Int
  BY <1>3, TsAtType
<1>7. x = (a - t) % TsSpan
  BY <1>2
<1> HIDE DEF a, x
<1>8. (((a + e) % TsSpan) + (-t)) % TsSpan = ((a + e) + (-t)) % TsSpan
  <2>1. a + e \in Int /\ -t \in Int
    BY <1>3, <1>6, Half
  <2> QED
    BY <2>1, Half, GoesOn
<1>9. (((a - t) % TsSpan) + e) % TsSpan = ((a - t) + e) % TsSpan
  <2>1. a - t \in Int
    BY <1>6, Half
  <2> QED
    BY <1>3, <2>1, Half, GoesOn
<1>10. (a + e) + (-t) = (a - t) + e
  BY <1>3, <1>6, Half
<1>11. (x + e) % TsSpan = x + e
  <2> DEFINE z == x + e
  <2>1. z \in 0 .. (TsSpan - 1)
    BY <1>3, <1>4, Half
  <2> HIDE DEF z
  <2>2. z % TsSpan = z
    BY <2>1, Half, Within
  <2> QED
    BY <2>2 DEF z
<1>12. TsOf(n) - t = ((a + e) % TsSpan) + (-t)
  <2>1. (a + e) % TsSpan \in Int
    <3>1. a + e \in Int
      BY <1>3, <1>6
    <3> QED
      BY <3>1, Half, Places
  <2> QED
    BY <1>2, <1>5, <2>1, Half DEF a
<1> QED
  BY <1>7, <1>8, <1>9, <1>10, <1>11, <1>12

\* Packet j is more than the threshold behind packet n.
LEMMA TooLateIs ==
    ASSUME NEW n \in Nat, NEW j \in Nat, j < n, n - j < SeqSpan \div 2, NEW k
    PROVE  TooLate(k, SeqOf(n), SeqOf(j)) <=> j < n - nack_threshold_packets
<1> DEFINE c == n - nack_threshold_packets
<1>1. nack_threshold_packets \in Nat /\ nack_threshold_packets < SeqSpan \div 2
  BY LimitAssumption, WindowAssumption
<1>2. c \in Int /\ c - j < SeqSpan \div 2 /\ j - c < SeqSpan \div 2
  BY <1>1, Half
<1>3. SeqNo(SeqOf(n) - nack_threshold_packets) = SeqOf(c)
  <2>1. SeqNo(SeqOf(n) + (-nack_threshold_packets)) = SeqOf(n + (-nack_threshold_packets))
    <3>1. -nack_threshold_packets \in Int /\ n \in Int
      BY <1>1
    <3> QED
      BY <3>1, SeqOn
  <2>2. SeqOf(n) \in Int
    BY SeqOfType
  <2>3. /\ SeqOf(n) + (-nack_threshold_packets) = SeqOf(n) - nack_threshold_packets
        /\ n + (-nack_threshold_packets) = c
    BY <1>1, <2>2
  <2> QED
    BY <2>1, <2>3
<1> HIDE DEF c
<1>4. Newer(SeqOf(c), SeqOf(j)) <=> c > j
  BY <1>2, NewerIsLater
<1>5. c > j <=> j < c
  BY <1>2
<1> QED
  BY <1>3, <1>4, <1>5 DEF TooLate, c

\* The packets that packet n skips are of use with those that were, as far back
\* as the list reaches.
LEMMA WantedMoves ==
    ASSUME HistoryInv, InstanceInv, NEW n \in Packets, Receive(n), got # {}, n > newest
    PROVE  /\ newest' = n /\ floor' \in Nat /\ n - nack.maxSize <= floor'
           /\ Wanted' = {j \in Wanted \cup ((newest + 1) .. (n - 1)) : j >= floor'}
           /\ \A j \in Wanted \cup ((newest + 1) .. (n - 1)) :
                 /\ j \in Packets /\ j \in Nat /\ j < n /\ n - j < SeqSpan \div 2
                 /\ j >= floor' <=> j >= n - nack.maxSize
<1>1. n \in Nat /\ newest \in Nat /\ n - newest <= Jump
  BY GapFacts, ReceiveWindow
<1>2. nack'.maxSize = nack.maxSize
  BY ReceiveKeeps DEF Kept
<1>3. newest' = n /\ floor' = Highest(floor, n - nack.maxSize)
  BY <1>2, ReceiveHistory
<1>4. /\ floor \in Nat /\ floor <= newest /\ nack.maxSize \in Nat \ {0}
      /\ nack.maxSize <= kNackListSizeLimit /\ kNackListSizeLimit \in Nat
      /\ first <= newest /\ played <= newest /\ first \in Int /\ played \in Int
  <2>1. first # -1
    BY DEF HistoryInv
  <2>2. played = -1 \/ played <= newest
    BY HistoryFacts
  <2> QED
    BY <1>1, <2>1, <2>2, HistoryFacts, Half DEF HistoryInv
<1>5. floor' \in Nat /\ n - nack.maxSize <= floor' /\ floor <= floor'
  BY <1>1, <1>3, <1>4 DEF Highest
<1>6. ASSUME NEW j \in (newest + 1) .. (n - 1)
      PROVE  /\ j \in Packets /\ j \in Nat /\ j < n /\ n - j < SeqSpan \div 2 /\ j >= floor
             /\ first < j /\ j \notin got /\ j # n /\ j > played
  <2>1. j \in 0 .. (n - 1)
    BY <1>1
  <2>2. j \in Packets
    BY <2>1, StreamFacts DEF HistoryInv
  <2>3. n - j < SeqSpan \div 2
    BY <1>1, Half
  <2>4. j \notin got
    <3>1. j > newest /\ j \in Nat
      BY <1>1
    <3> QED
      BY <1>1, <3>1 DEF HistoryInv
  <2> QED
    BY <1>1, <1>4, <2>1, <2>2, <2>3, <2>4
<1>7. ASSUME NEW j \in Wanted
      PROVE  /\ j \in Packets /\ j \in Nat /\ j < n /\ n - j < SeqSpan \div 2 /\ j >= floor
             /\ first < j /\ j \notin got /\ j # n /\ j > played /\ j < newest
  <2>1. /\ j \in Packets /\ j \in Nat /\ first < j /\ j < newest /\ j \notin got /\ j > played
        /\ j >= floor /\ newest - j <= nack.maxSize
    BY WantedFacts
  <2>2. n - j <= Jump + kNackListSizeLimit
    BY <1>1, <1>4, <2>1, Half
  <2>3. n - j < SeqSpan \div 2
    BY <1>1, <2>1, <2>2, Half
  <2> QED
    BY <1>1, <2>1, <2>3
<1>8. ASSUME NEW j \in Wanted \cup ((newest + 1) .. (n - 1))
      PROVE  /\ j \in Packets /\ j \in Nat /\ j < n /\ n - j < SeqSpan \div 2 /\ j >= floor
             /\ first < j /\ j \notin got /\ j # n /\ j > played
  BY <1>6, <1>7
<1>9. ASSUME NEW j \in Packets, first < j, j < n, j \notin got, j # n, j > played, j >= floor'
      PROVE  j \in Wanted \cup ((newest + 1) .. (n - 1))
  <2>1. j \in Nat
    BY StreamFacts DEF HistoryInv
  <2>2. CASE j < newest
    <3>1. j >= floor
      BY <1>4, <1>5, <1>9, <2>1
    <3> QED
      BY <1>9, <2>2, <3>1 DEF Wanted
  <2>3. CASE j = newest
    BY <1>9, <2>3 DEF HistoryInv
  <2>4. CASE j > newest
    BY <1>1, <1>9, <2>1, <2>4
  <2> QED
    BY <1>1, <2>1, <2>2, <2>3, <2>4
<1>10. Wanted' = {j \in Wanted \cup ((newest + 1) .. (n - 1)) : j >= floor'}
  <2>1. Wanted' = {j \in Packets : /\ first < j /\ j < n /\ j \notin got /\ j # n
                                   /\ j > played /\ j >= floor'}
    BY <1>3, WantedThen
  <2> QED
    BY <1>8, <1>9, <2>1
<1>11. ASSUME NEW j \in Wanted \cup ((newest + 1) .. (n - 1))
       PROVE  j >= floor' <=> j >= n - nack.maxSize
  <2>1. j \in Nat /\ j >= floor
    BY <1>8
  <2> QED
    BY <1>1, <1>3, <1>4, <2>1 DEF Highest
<1> QED
  BY <1>3, <1>5, <1>8, <1>10, <1>11

\* What is listed then, and what the entries are.
LEMMA ListedMoves ==
    ASSUME HistoryInv, InstanceInv, ListInv, NEW n \in Packets, Receive(n), got # {}, n > newest
    PROVE  /\ \A s \in Listed(nack)' : \E j \in Wanted' : s = SeqOf(j)
           /\ \A j \in Wanted' : j > newest =>
                 /\ Lists(j)'
                 /\ Entry(j)' = LET e == Estimate(nack, SeqOf(n), TsOf(n), SeqOf(j))
                                IN  [timeToPlay |-> TimeToPlay(nack, e), timestamp |-> e,
                                     isMissing |-> TooLate(nack, SeqOf(n), SeqOf(j))]
           /\ \A j \in Wanted' : j < newest =>
                 /\ Lists(j)' <=> Lists(j)
                 /\ Lists(j) => Entry(j)' = [Entry(j) EXCEPT !.isMissing =
                                                @ \/ TooLate(nack, SeqOf(n), SeqOf(j))]
<1> DEFINE all == Wanted \cup ((newest + 1) .. (n - 1))
           skipped == Skipped(nack, SeqOf(n))
           cut == n - nack.maxSize - 1
<1>1. n \in Nat /\ newest \in Nat /\ nack.maxSize \in Nat \ {0} /\ nack.maxSize < SeqSpan \div 2
  BY GapFacts, HistoryFacts, Half
<1>2. /\ Wanted' = {j \in all : j >= floor'}
      /\ \A j \in all : /\ j \in Nat /\ j < n /\ n - j < SeqSpan \div 2
                        /\ j >= floor' <=> j >= n - nack.maxSize
  BY WantedMoves
<1>3. skipped = {SeqOf(j) : j \in (newest + 1) .. (n - 1)}
  BY SkippedAre
<1>4. /\ nack' = UpdateLastReceivedPacket(nack, SeqOf(n), TsOf(n)) /\ nack.anyReceived
      /\ DOMAIN nack = NackFields
  BY DEF Receive, InstanceInv
<1>5. SeqOf(n) # nack.seqReceived /\ ~Newer(nack.seqReceived, SeqOf(n))
  BY <1>1, ReceiveWindow
<1>6. /\ Listed(nack)' = {s \in (Listed(nack) \ {SeqOf(n)}) \cup skipped :
                             Newer(s, SeqNo(SeqOf(n) - nack.maxSize - 1))}
      /\ \A s \in Listed(nack)' :
            nack'.list[s] = IF s \in skipped
                            THEN LET e == Estimate(nack, SeqOf(n), TsOf(n), s)
                                 IN  [timeToPlay |-> TimeToPlay(nack, e), timestamp |-> e,
                                      isMissing |-> TooLate(nack, SeqOf(n), s)]
                            ELSE [nack.list[s] EXCEPT !.isMissing =
                                     @ \/ TooLate(nack, SeqOf(n), s)]
  BY <1>4, <1>5, ReceiveNew
<1>7. SeqNo(SeqOf(n) - nack.maxSize - 1) = SeqOf(cut)
  <2> DEFINE d == -nack.maxSize - 1
  <2>1. SeqOf(n) \in Int /\ d \in Int
    BY <1>1, SeqOfType
  <2>2. SeqOf(n) - nack.maxSize - 1 = SeqOf(n) + d /\ n + d = cut
    BY <1>1, <2>1
  <2> HIDE DEF d
  <2> QED
    BY <1>1, <2>1, <2>2, SeqOn
<1>8. ASSUME NEW j \in all
      PROVE  Newer(SeqOf(j), SeqOf(cut)) <=> j >= floor'
  <2>1. j \in Nat /\ j < n /\ n - j < SeqSpan \div 2 /\ (j >= floor' <=> j >= n - nack.maxSize)
    BY <1>2
  <2>2. cut \in Int /\ j - cut < SeqSpan \div 2 /\ cut - j < SeqSpan \div 2
        /\ (j > cut <=> j >= n - nack.maxSize)
    <3>1. cut \in Int /\ j - cut <= nack.maxSize /\ cut - j < n - j
      BY <1>1, <2>1
    <3> QED
      BY <1>1, <2>1, <3>1, Half
  <2> HIDE DEF cut
  <2> QED
    BY <2>1, <2>2, NewerIsLater
<1> HIDE DEF cut
<1>9. ASSUME NEW i \in all, NEW j \in all, SeqOf(i) = SeqOf(j)
      PROVE  i = j
  <2>1. i \in Nat /\ i < n /\ n - i < SeqSpan \div 2 /\ j \in Nat /\ j < n /\ n - j < SeqSpan \div 2
    BY <1>2
  <2>2. i - j < SeqSpan \div 2 /\ j - i < SeqSpan \div 2
    BY <1>1, <2>1, Half
  <2> QED
    BY <1>9, <2>1, <2>2, SameOrNewer
<1>10. \A j \in all : SeqOf(j) # SeqOf(n)
  <2> SUFFICES ASSUME NEW j \in all PROVE SeqOf(j) # SeqOf(n)
    OBVIOUS
  <2>1. j \in Nat /\ j < n /\ n - j < SeqSpan \div 2
    BY <1>2
  <2>2. j - n < SeqSpan \div 2
    BY <1>1, <2>1, Half
  <2> QED
    BY <1>1, <2>1, <2>2, SameOrNewer
<1>11. \A s \in Listed(nack) : \E j \in Wanted : s = SeqOf(j)
  BY DEF ListInv, ListsWanted
<1>12. ASSUME NEW s \in Listed(nack)'
       PROVE  \E j \in Wanted' : s = SeqOf(j)
  <2>1. PICK j \in all : s = SeqOf(j)
    BY <1>3, <1>6, <1>11
  <2>2. j >= floor'
    BY <1>6, <1>7, <1>8, <2>1
  <2> QED
    BY <1>2, <2>1, <2>2
<1>13. \A j \in Wanted : j < newest /\ j \in Nat
  BY WantedFacts
<1>14. ASSUME NEW j \in Wanted', j > newest
       PROVE  SeqOf(j) \in skipped /\ j \in all /\ SeqOf(j) \in Listed(nack)'
  <2>1. j \in all /\ j >= floor'
    BY <1>2
  <2>2. j \in (newest + 1) .. (n - 1)
    BY <1>1, <1>13, <1>14, <2>1
  <2>3. SeqOf(j) \in skipped /\ Newer(SeqOf(j), SeqOf(cut))
    BY <1>3, <1>8, <2>1, <2>2
  <2> QED
    BY <1>6, <1>7, <2>1, <2>3
<1>15. ASSUME NEW j \in Wanted', j < newest
       PROVE  SeqOf(j) \notin skipped /\ (SeqOf(j) \in Listed(nack)' <=> SeqOf(j) \in Listed(nack))
  <2>1. j \in all /\ j >= floor'
    BY <1>2
  <2>2. SeqOf(j) \notin skipped
    <3> SUFFICES ASSUME NEW i \in (newest + 1) .. (n - 1), SeqOf(j) = SeqOf(i) PROVE FALSE
      BY <1>3
    <3>1. i = j
      BY <1>9, <2>1
    <3> QED
      BY <1>1, <1>15, <3>1
  <2>3. Newer(SeqOf(j), SeqOf(cut)) /\ SeqOf(j) # SeqOf(n)
    BY <1>8, <1>10, <2>1
  <2> QED
    BY <1>6, <1>7, <2>2, <2>3
<1> QED
  BY <1>6, <1>12, <1>14, <1>15 DEF Lists, Entry

\* The entry of a packet that was listed before packet n came.
LEMMA OldEntry ==
    ASSUME HistoryInv, InstanceInv, ListInv, NEW n \in Packets, Receive(n), got # {}, n > newest,
           NEW j \in Wanted', j < newest, Lists(j)'
    PROVE  EntryInv(j)' /\ j \in Wanted /\ Lists(j) /\ Behind(j)' = Behind(j) + Gap(n)
<1>1. j \in Wanted /\ j \in Nat /\ j < n /\ n - j < SeqSpan \div 2 /\ n \in Nat /\ newest \in Nat
      /\ newest' = n
  <2>1. /\ j \in Wanted \cup ((newest + 1) .. (n - 1)) /\ newest' = n
        /\ j \in Nat /\ j < n /\ n - j < SeqSpan \div 2
    BY WantedMoves
  <2>2. n \in Nat /\ newest \in Nat
    BY GapFacts
  <2>3. j \notin (newest + 1) .. (n - 1)
    BY <2>1, <2>2
  <2> QED
    BY <2>1, <2>2, <2>3
<1>2. Lists(j) /\ Entry(j)' = [Entry(j) EXCEPT !.isMissing = @ \/ TooLate(nack, SeqOf(n), SeqOf(j))]
  BY ListedMoves
<1>3. EntryInv(j)
  BY <1>1, <1>2 DEF ListInv, Entries
<1> DEFINE late == TooLate(nack, SeqOf(n), SeqOf(j))
<1>4. late <=> j < n - nack_threshold_packets
  BY <1>1, TooLateIs
<1>5. late \in BOOLEAN
  BY DEF TooLate, Newer, IsNewer
<1> HIDE DEF late
<1>6. /\ Entry(j)'.timeToPlay = Entry(j).timeToPlay /\ DOMAIN Entry(j)' = DOMAIN Entry(j)
      /\ Entry(j)'.timestamp = Entry(j).timestamp
      /\ Entry(j)'.isMissing = (Entry(j).isMissing \/ late)
  BY <1>2, <1>3 DEF EntryInv, late
<1>7. UNCHANGED <<sent, pulls>> /\ Clock' = Clock /\ first' = first
  <2>1. nack'.maxSize = nack.maxSize
    BY ReceiveKeeps DEF Kept
  <2> QED
    BY <2>1, ReceiveHistory DEF Receive
<1>8. Entry(j)'.isMissing \in BOOLEAN /\ (Entry(j)'.isMissing <=> j < n - nack_threshold_packets)
  <2>1. Entry(j).isMissing \in BOOLEAN
    BY <1>3 DEF EntryInv
  <2>2. Entry(j).isMissing <=> j < newest - nack_threshold_packets
    BY <1>3 DEF EntryInv
  <2>3. j < newest - nack_threshold_packets => j < n - nack_threshold_packets
    BY <1>1, LimitAssumption
  <2>4. Entry(j)'.isMissing \in BOOLEAN
    BY <1>5, <1>6, <2>1
  <2> QED
    BY <1>4, <1>6, <2>2, <2>3, <2>4
<1>9. Behind(j)' = Behind(j) + Gap(n)
  <2>1. nack'.tsReceived = TsOf(n)
    BY ReceiveKeeps
  <2>2. Behind(j)' = (TsOf(n) - Entry(j).timestamp) % TsSpan
    BY <1>6, <2>1 DEF Behind
  <2>3. Behind(j) <= (sent[newest] - sent[first]) * khz /\ Entry(j).timestamp \in 0 .. (TsSpan - 1)
    BY <1>3 DEF EntryInv
  <2> QED
    BY <2>2, <2>3, BehindOn DEF Behind
<1>10. Behind(j)' <= ((sent[newest] - sent[first]) * khz)'
  <2> DEFINE x == (sent[newest] - sent[first]) * khz
             y == (sent[n] - sent[first]) * khz
  <2>1. ((sent[newest] - sent[first]) * khz)' = y
    BY <1>1, <1>7
  <2>2. x \in Nat /\ Gap(n) \in Nat /\ y = x + Gap(n)
    BY GapFacts
  <2>3. Behind(j) <= x
    BY <1>3 DEF EntryInv
  <2>4. Behind(j) \in Int
    <3>1. nack.tsReceived - Entry(j).timestamp \in Int
      BY <1>3, Half DEF InstanceInv, EntryInv
    <3> QED
      BY <3>1, Half, Places DEF Behind
  <2> HIDE DEF x, y
  <2> QED
    BY <1>9, <2>1, <2>2, <2>3, <2>4
<1>11. Steady' = Steady /\ TsOf(j)' = TsOf(j)
  BY <1>7 DEF Steady, Packets, TsOf
<1>12. EntryInv(j)'
  BY <1>1, <1>3, <1>6, <1>7, <1>8, <1>10, <1>11 DEF EntryInv
<1> QED
  BY <1>1, <1>2, <1>9, <1>12

\* The entry of a packet that packet n skips.
LEMMA NewEntry ==
    ASSUME HistoryInv, InstanceInv, ListInv, NEW n \in Packets, Receive(n), got # {}, n > newest,
           NEW j \in Wanted', j > newest
    PROVE  /\ EntryInv(j)' /\ Lists(j)' /\ j \in newest .. n
           /\ Behind(j)' = Gap(n) - (j - newest) * Share(n)
           /\ Behind(j)' \in Nat /\ Behind(j)' <= Gap(n)
<1>1. /\ j \in Packets /\ j \in Nat /\ j < n /\ n - j < SeqSpan \div 2 /\ newest' = n
      /\ n \in Nat /\ newest \in Nat
  <2>1. j \in Wanted \cup ((newest + 1) .. (n - 1))
    BY WantedMoves
  <2> QED
    BY <2>1, WantedMoves, GapFacts
<1>2. j \in (newest + 1) .. (n - 1) /\ j - newest \in 0 .. (n - newest) /\ j \in newest .. n
  BY <1>1
<1> DEFINE b == sent[newest] * khz
           x == (j - newest) * Share(n)
           e == TsAt(b + x)
           late == TooLate(nack, SeqOf(n), SeqOf(j))
           time == TimeToPlay(nack, e)
<1>3. Lists(j)' /\ Entry(j)' = [timeToPlay |-> time, timestamp |-> e, isMissing |-> late]
  <2>1. Estimate(nack, SeqOf(n), TsOf(n), SeqOf(j)) = e
    BY <1>2, EstimateIs
  <2> QED
    BY <2>1, ListedMoves
<1>4. late <=> j < n - nack_threshold_packets
  BY <1>1, TooLateIs
<1>5. late \in BOOLEAN
  BY DEF TooLate, Newer, IsNewer
<1>6. UNCHANGED <<sent, pulls>> /\ Clock' = Clock /\ first' = first
  <2>1. nack'.maxSize = nack.maxSize
    BY ReceiveKeeps DEF Kept
  <2> QED
    BY <2>1, ReceiveHistory DEF Receive
<1>7. /\ b \in Nat /\ Gap(n) \in Nat /\ Gap(n) < TsSpan /\ sent[n] * khz = b + Gap(n)
      /\ (sent[n] - sent[first]) * khz \in Nat /\ Gap(n) <= (sent[n] - sent[first]) * khz
  <2>1. /\ b \in Nat /\ Gap(n) \in Nat /\ Gap(n) < TsSpan /\ sent[n] * khz = b + Gap(n)
        /\ (sent[newest] - sent[first]) * khz \in Nat
        /\ (sent[n] - sent[first]) * khz = (sent[newest] - sent[first]) * khz + Gap(n)
    BY GapFacts
  <2> DEFINE p == (sent[newest] - sent[first]) * khz
             q == (sent[n] - sent[first]) * khz
  <2> HIDE DEF p, q
  <2>2. p \in Nat /\ q = p + Gap(n)
    BY <2>1 DEF p, q
  <2>3. q \in Nat /\ Gap(n) <= q
    BY <2>1, <2>2
  <2> QED
    BY <2>1, <2>3 DEF q
<1>8. x \in Nat /\ x <= Gap(n)
  BY <1>2, ShareFacts
<1>9. Steady => b + x = sent[j] * khz
  BY <1>2, ShareFacts
<1>10. time = ((e - nack.tsDecoded) % TsSpan) \div khz
  BY DEF TimeToPlay, InstanceInv
<1>11. nack.tsDecoded = TsAt(Clock * khz) /\ Clock \in Nat
  BY HistoryFacts DEF InstanceInv
<1> HIDE DEF x, late, time
<1>12. b + x \in Int
  BY <1>7, <1>8
<1> HIDE DEF b
<1>13. e \in 0 .. (TsSpan - 1)
  BY <1>12, TsAtType
<1>14. nack'.tsReceived = TsAt(b + Gap(n))
  <2>1. nack'.tsReceived = TsOf(n)
    BY ReceiveKeeps
  <2> QED
    BY <1>7, <2>1, TsOfIs
<1>15. (nack'.tsReceived - e) % TsSpan = Gap(n) - x
  <2>1. b + Gap(n) \in Int /\ (b + Gap(n)) - (b + x) = Gap(n) - x
        /\ (b + Gap(n)) - (b + x) \in 0 .. (TsSpan - 1)
    BY <1>7, <1>8, Half
  <2>2. (TsAt(b + Gap(n)) - TsAt(b + x)) % TsSpan = (b + Gap(n)) - (b + x)
    BY <1>12, <2>1, TsBetween
  <2> QED
    BY <1>14, <2>1, <2>2
<1>16. time \in 0 .. (TsSpan - 1)
  <2>1. e \in Int /\ nack.tsDecoded \in Int
    BY <1>13, Half DEF InstanceInv
  <2> QED
    BY <1>10, <2>1, TimeType
<1>17. ASSUME Steady
       PROVE  e = TsOf(j) /\ (sent[j] >= Clock => time = sent[j] - Clock)
  <2>1. e = TsAt(sent[j] * khz)
    BY <1>9, <1>17
  <2>2. sent[j] \in Nat /\ sent[j] * khz < TsSpan
    BY <1>1, StreamFacts DEF HistoryInv
  <2>3. e = TsOf(j)
    BY <1>1, <2>1, TsOfIs
  <2>4. sent[j] >= Clock => ((TsAt(sent[j] * khz) - TsAt(Clock * khz)) % TsSpan) \div khz = sent[j] - Clock
    BY <1>11, <2>2, TimeBetween
  <2> QED
    BY <1>10, <1>11, <2>1, <2>3, <2>4
<1> HIDE DEF e
<1>18. /\ Entry(j)'.timeToPlay = time /\ Entry(j)'.timestamp = e /\ Entry(j)'.isMissing = late
       /\ DOMAIN Entry(j)' = {"timeToPlay", "timestamp", "isMissing"}
  BY <1>3
<1>19. Behind(j)' = Gap(n) - x
  BY <1>15, <1>18 DEF Behind
<1>20. Behind(j)' \in Nat /\ Behind(j)' <= Gap(n)
  BY <1>7, <1>8, <1>19
<1>21. Behind(j)' <= ((sent[newest] - sent[first]) * khz)'
  <2>1. ((sent[newest] - sent[first]) * khz)' = (sent[n] - sent[first]) * khz
    BY <1>1, <1>6
  <2> DEFINE q == (sent[n] - sent[first]) * khz
  <2> HIDE DEF q
  <2>2. q \in Nat /\ Gap(n) <= q
    BY <1>7 DEF q
  <2>3. Behind(j)' <= q
    BY <1>7, <1>20, <2>2
  <2> QED
    BY <2>1, <2>3 DEF q
<1>22. Steady' = Steady /\ TsOf(j)' = TsOf(j)
  BY <1>6 DEF Steady, Packets, TsOf
<1>23. time \in -(10 * pulls') .. (TsSpan - 1)
  BY <1>6, <1>16, HistoryFacts, Half
<1>24. EntryInv(j)'
  BY <1>1, <1>4, <1>5, <1>6, <1>13, <1>17, <1>18, <1>21, <1>22, <1>23 DEF EntryInv
<1> QED
  BY <1>2, <1>3, <1>19, <1>20, <1>24 DEF x

\* Packet n, newer than any before: what it skips joins the list, what is too old
\* for the list leaves it.
LEMMA NewList ==
    ASSUME HistoryInv, InstanceInv, ListInv, NEW n \in Packets, Receive(n), got # {}, n > newest
    PROVE  ListInv'
<1>1. /\ n \in Nat /\ newest \in Nat /\ newest \in got
      /\ \A j \in Wanted' : j \in Packets /\ j \in Nat /\ j # newest
      /\ \A j \in Wanted' : j < newest => j \in Wanted
  <2>1. n \in Nat /\ newest \in Nat /\ newest \in got
    BY GapFacts DEF HistoryInv
  <2>2. \A j \in Wanted \cup ((newest + 1) .. (n - 1)) : j \in Packets /\ j \in Nat
    BY WantedMoves
  <2>3. Wanted' \subseteq Wanted \cup ((newest + 1) .. (n - 1))
    BY WantedMoves
  <2>4. \A j \in Wanted : j # newest
    BY WantedFacts
  <2>5. \A j \in (newest + 1) .. (n - 1) : j # newest /\ ~(j < newest)
    BY <2>1
  <2> QED
    BY <2>1, <2>2, <2>3, <2>4, <2>5
<1>2. ListsWanted'
  BY ListedMoves DEF ListsWanted
<1>3. Entries'
  <2> SUFFICES ASSUME NEW j \in Wanted', Lists(j)' PROVE EntryInv(j)'
    BY DEF Entries
  <2>1. CASE j < newest
    BY <2>1, OldEntry
  <2>2. CASE j > newest
    BY <2>2, NewEntry
  <2> QED
    BY <1>1, <2>1, <2>2
<1>4. InOrder'
  <2> SUFFICES ASSUME NEW i \in Wanted', NEW j \in Wanted', Lists(i)', Lists(j)', i < j
               PROVE  Behind(j)' <= Behind(i)'
    BY DEF InOrder
  <2>1. Gap(n) \in Nat /\ i \in Nat /\ j \in Nat /\ i # newest /\ j # newest
    BY <1>1, GapFacts
  <2>2. ASSUME NEW m \in Wanted, Lists(m)
        PROVE  Behind(m) \in Nat
    <3>1. EntryInv(m)
      BY <2>2 DEF ListInv, Entries
    <3>2. nack.tsReceived - Entry(m).timestamp \in Int
      BY <3>1, Half DEF InstanceInv, EntryInv
    <3> QED
      BY <3>2, Half, Places DEF Behind
  <2>3. CASE j < newest
    <3>1. i < newest
      BY <1>1, <2>1, <2>3
    <3>2. /\ i \in Wanted /\ Lists(i) /\ Behind(i)' = Behind(i) + Gap(n)
          /\ j \in Wanted /\ Lists(j) /\ Behind(j)' = Behind(j) + Gap(n)
      BY <2>3, <3>1, OldEntry
    <3>3. Behind(j) <= Behind(i) /\ Behind(i) \in Nat /\ Behind(j) \in Nat
      BY <2>2, <3>2 DEF ListInv, InOrder
    <3> QED
      BY <2>1, <3>2, <3>3
  <2>4. CASE j > newest /\ i < newest
    <3>1. i \in Wanted /\ Lists(i) /\ Behind(i)' = Behind(i) + Gap(n)
      BY <2>4, OldEntry
    <3>2. Behind(j)' \in Nat /\ Behind(j)' <= Gap(n) /\ Behind(i) \in Nat
      BY <2>2, <2>4, <3>1, NewEntry
    <3> QED
      BY <2>1, <3>1, <3>2
  <2>5. CASE j > newest /\ i > newest
    <3>1. /\ i \in newest .. n /\ Behind(i)' = Gap(n) - (i - newest) * Share(n)
          /\ j \in newest .. n /\ Behind(j)' = Gap(n) - (j - newest) * Share(n)
      BY <2>5, NewEntry
    <3> DEFINE c == i - newest
               d == j - newest
    <3>2. c \in 0 .. (n - newest) /\ d \in 0 .. (n - newest) /\ c <= d
      BY <1>1, <2>1, <3>1
    <3> HIDE DEF c, d
    <3>3. c * Share(n) \in Nat /\ d * Share(n) \in Nat /\ c * Share(n) <= d * Share(n)
      BY <3>2, ShareFacts
    <3> QED
      BY <2>1, <3>1, <3>3 DEF c, d
  <2> QED
    BY <1>1, <2>1, <2>3, <2>4, <2>5
<1>5. Complete'
  <2>1. UNCHANGED sent /\ heard' = heard
    <3>1. first # -1
      BY DEF HistoryInv
    <3>2. heard' = Highest(heard, 0) /\ heard \in Nat
      BY <3>1 DEF Receive, HistoryInv
    <3> QED
      BY <3>2 DEF Receive, Highest
  <2> SUFFICES ASSUME Steady, NEW j \in Wanted' PROVE Lists(j)' \/ sent[j] <= heard
    BY <2>1 DEF Complete, Steady, Packets
  <2>2. CASE j < newest
    BY <1>1, <2>2, ListedMoves DEF ListInv, Complete
  <2>3. CASE j > newest
    BY <2>3, ListedMoves
  <2> QED
    BY <1>1, <2>2, <2>3
<1> QED
  BY <1>2, <1>3, <1>4, <1>5 DEF ListInv

-----------------------------------------------------------------------------
(* The assertions.                                                          *)

\* A packet is only added to the list when it comes after the one decoded last.
LEMMA AddsAfterDecoded ==
    ASSUME HistoryInv, InstanceInv, NEW n \in Packets, Receive(n), got # {}, n > newest
    PROVE  AddAsserts(nack, SeqOf(n))
<1>1. CASE played = -1
  BY <1>1 DEF AddAsserts, InstanceInv
<1>2. CASE played # -1
  <2>1. n \in Nat /\ newest \in Nat /\ played \in Nat /\ played <= newest
    BY <1>2, GapFacts, HistoryFacts
  <2>2. n <= played + Lag
    BY <1>2 DEF Receive
  <2>3. n - played < SeqSpan \div 2 /\ played - n < SeqSpan \div 2 /\ n > played
    BY <2>1, <2>2, Half, WindowAssumption
  <2>4. Newer(SeqOf(n), SeqOf(played))
    BY <2>1, <2>3, SameOrNewer
  <2> QED
    BY <1>2, <2>4 DEF AddAsserts, InstanceInv
<1> QED
  BY <1>1, <1>2

-----------------------------------------------------------------------------
(* The invariant is inductive.                                              *)

LEMMA NackInvInit == Init => NackInv
<1> SUFFICES ASSUME Init PROVE NackInv
  OBVIOUS
<1> USE DEF Init
<1>1. /\ DOMAIN NewNack = NackFields
      /\ NewNack.maxSize = kNackListSizeLimit /\ NewNack.list = <<>>
      /\ ~NewNack.anyReceived /\ ~NewNack.anyDecoded
      /\ NewNack.seqReceived = 0 /\ NewNack.seqDecoded = 0
      /\ NewNack.tsReceived = 0 /\ NewNack.tsDecoded = 0
  BY DEF NewNack, NackFields
<1>2. /\ DOMAIN nack = NackFields /\ nack.khz = khz /\ Kept(NewNack, nack, NackFields \ {"khz"})
  BY <1>1 DEF UpdateSampleRate, khz, NackFields, Kept
<1>3. Clock = 0
  BY DEF Clock
<1>4. HistoryInv
  BY <1>3, WindowAssumption DEF HistoryInv
<1>5. kNackListSizeLimit \in 1 .. kNackListSizeLimit
  BY Half
<1>6. InstanceInv
  BY <1>1, <1>2, <1>5, Half DEF InstanceInv, Kept, NackFields
<1>7. nack.list = <<>>
  BY <1>1, <1>2 DEF Kept, NackFields
<1>8. Listed(nack) = {} /\ Wanted = {}
  BY <1>7 DEF Listed, Wanted
<1> QED
  BY <1>4, <1>6, <1>8, EmptyInv DEF NackInv

LEMMA NackInvNext == NackInv /\ [Next]_vars => NackInv'
<1> SUFFICES ASSUME NackInv, [Next]_vars PROVE NackInv'
  OBVIOUS
<1>0. HistoryInv /\ InstanceInv /\ ListInv /\ asserted
  BY DEF NackInv
<1>1. ASSUME NEW n \in Packets, Receive(n)
      PROVE  NackInv'
  <2>1. HistoryInv' /\ InstanceInv'
    BY <1>0, <1>1, ReceiveInstance
  <2>2. ListInv'
    <3>1. CASE got = {}
      BY <1>0, <1>1, <3>1, FirstList
    <3>2. CASE got # {} /\ n <= newest
      BY <1>0, <1>1, <3>2, LateList
    <3>3. CASE got # {} /\ n > newest
      BY <1>0, <1>1, <3>3, NewList
    <3>4. n \in Int /\ newest \in Int
      BY <1>0, StreamFacts, HistoryFacts DEF HistoryInv
    <3> QED
      BY <3>1, <3>2, <3>3, <3>4
  <2>3. asserted'
    <3>1. got # {} /\ n > newest + 1 => AddAsserts(nack, SeqOf(n))
      <4> SUFFICES ASSUME got # {}, n > newest + 1 PROVE AddAsserts(nack, SeqOf(n))
        OBVIOUS
      <4>1. n > newest
        BY <1>0, StreamFacts, HistoryFacts DEF HistoryInv
      <4> QED
        BY <1>0, <1>1, <4>1, AddsAfterDecoded
    <3> QED
      BY <1>0, <1>1, <3>1 DEF Receive
  <2> QED
    BY <2>1, <2>2, <2>3 DEF NackInv
<1>2. ASSUME NEW n \in Packets, PullNew(n)
      PROVE  NackInv'
  <2>1. HistoryInv' /\ InstanceInv' /\ (Newer(SeqOf(n), nack.seqDecoded) \/ ~nack.anyDecoded)
    BY <1>0, <1>2, PullNewInstance
  <2>2. ListInv'
    BY <1>0, <1>2, PullNewList
  <2>3. asserted'
    BY <1>0, <1>2, <2>1 DEF PullNew, Decodes, DecodeAsserts
  <2> QED
    BY <2>1, <2>2, <2>3 DEF NackInv
<1>3. ASSUME PullMore
      PROVE  NackInv'
  <2>1. HistoryInv' /\ InstanceInv'
    BY <1>0, <1>3, PullMoreInstance
  <2>2. ListInv'
    BY <1>0, <1>3, PullMoreList
  <2>3. asserted'
    <3>1. nack.seqDecoded = SeqOf(played)
      BY <1>0, <1>3 DEF PullMore, InstanceInv
    <3> QED
      BY <1>0, <1>3, <3>1 DEF PullMore, Decodes, DecodeAsserts
  <2> QED
    BY <2>1, <2>2, <2>3 DEF NackInv
<1>4. ASSUME CodecChange
      PROVE  NackInv'
  <2> DEFINE k == Reset(nack)
  <2>1. Restarted(k) /\ sent' = sent /\ asserted' = asserted
    BY <1>4 DEF CodecChange
  <2>2. /\ DOMAIN k = NackFields /\ k.maxSize = nack.maxSize /\ k.list = <<>>
        /\ ~k.anyReceived /\ ~k.anyDecoded /\ k.seqReceived = 0 /\ k.seqDecoded = 0
        /\ k.tsReceived = 0 /\ k.tsDecoded = 0
    BY DEF Reset, NewNack, NackFields
  <2>3. nack.maxSize \in 1 .. kNackListSizeLimit /\ sent' \in Streams
    BY <1>0, <2>1 DEF InstanceInv, HistoryInv
  <2> HIDE DEF k
  <2>4. HistoryInv' /\ InstanceInv' /\ Listed(nack)' = {} /\ Wanted' = {}
    BY <2>1, <2>2, <2>3, AnewInv
  <2> QED
    BY <1>0, <2>1, <2>4, EmptyInv DEF NackInv
<1>5. ASSUME NEW size \in Sizes, SetMaxSize(size)
      PROVE  NackInv'
  <2>1. HistoryInv' /\ InstanceInv'
    BY <1>0, <1>5, SetMaxInstance
  <2>2. ListInv'
    BY <1>0, <1>5, SetMaxList
  <2>3. asserted'
    BY <1>0, <1>5 DEF SetMaxSize
  <2> QED
    BY <2>1, <2>2, <2>3 DEF NackInv
<1>6. ASSUME UNCHANGED vars
      PROVE  NackInv'
  <2> USE <1>6 DEF vars
  <2>1. Clock' = Clock /\ newest' = newest /\ Wanted' = Wanted
    BY DEF Clock, newest, Wanted, Packets
  <2>2. Steady' = Steady /\ \A j : TsOf(j)' = TsOf(j)
    BY DEF Steady, Packets, TsOf
  <2>3. HistoryInv'
    BY <1>0, <2>1 DEF HistoryInv, Packets
  <2>4. InstanceInv'
    BY <1>0, <2>1, <2>2 DEF InstanceInv
  <2>5. ListInv'
    BY <1>0, <2>1, ListShrinks DEF Lists
  <2> QED
    BY <1>0, <2>3, <2>4, <2>5 DEF NackInv
<1> QED
  BY <1>1, <1>2, <1>3, <1>4, <1>5, <1>6 DEF Next

-----------------------------------------------------------------------------
(* The theorems.                                                            *)

LEMMA Invariant == Spec => []NackInv
  BY NackInvInit, NackInvNext, PTL DEF Spec

\* The number of a packet of use stands for it.
LEMMA StandsFor ==
    ASSUME HistoryInv, InstanceInv, NEW n \in Wanted
    PROVE  PacketOf(SeqOf(n)) = n
<1>1. n \in Nat /\ newest \in Nat /\ n < newest /\ newest - n < SeqSpan \div 2
  BY WantedFacts
<1>2. newest - n \in 0 .. (SeqSpan - 1)
  BY <1>1, Half
<1>3. SeqNo(SeqOf(newest) - SeqOf(n)) = newest - n
  BY <1>1, <1>2, SeqApart
<1> QED
  BY <1>1, <1>3 DEF PacketOf

\* What is listed is of use, by its number and by its entry.
LEMMA ListedIs ==
    ASSUME HistoryInv, InstanceInv, ListInv, NEW s \in Listed(nack)
    PROVE  /\ PacketOf(s) \in Wanted /\ Lists(PacketOf(s)) /\ s = SeqOf(PacketOf(s))
           /\ EntryInv(PacketOf(s)) /\ Entry(PacketOf(s)) = nack.list[s]
<1>1. PICK n \in Wanted : s = SeqOf(n)
  BY DEF ListInv, ListsWanted
<1>2. PacketOf(s) = n
  BY <1>1, StandsFor
<1>3. Lists(n) /\ Entry(n) = nack.list[s]
  BY <1>1 DEF Lists, Entry
<1> QED
  BY <1>1, <1>2, <1>3 DEF ListInv, Entries

\* The instance, and what its list holds, are of their types.
THEOREM TypeCorrect == Spec => []TypeOK
<1>1. NackInv => TypeOK
  <2> SUFFICES ASSUME NackInv PROVE TypeOK
    OBVIOUS
  <2>0. HistoryInv /\ InstanceInv /\ ListInv
    BY DEF NackInv
  <2>1. ASSUME NEW s \in Listed(nack)
        PROVE  /\ s \in 0 .. (SeqSpan - 1)
               /\ nack.list[s].timeToPlay \in -(10 * MaxPulls) .. (TsSpan - 1)
               /\ nack.list[s].timestamp \in 0 .. (TsSpan - 1)
               /\ nack.list[s].isMissing \in BOOLEAN
    <3> DEFINE n == PacketOf(s)
    <3>1. n \in Wanted /\ s = SeqOf(n) /\ EntryInv(n) /\ Entry(n) = nack.list[s]
      BY <2>0, ListedIs
    <3> HIDE DEF n
    <3>2. n \in Nat
      BY <2>0, <3>1, WantedFacts
    <3>3. s \in 0 .. (SeqSpan - 1)
      BY <3>1, <3>2, SeqOfType
    <3>4. pulls \in 0 .. MaxPulls
      BY <2>0 DEF HistoryInv
    <3>5. Entry(n).timeToPlay \in -(10 * pulls) .. (TsSpan - 1)
      BY <3>1 DEF EntryInv
    <3>6. Entry(n).timeToPlay \in -(10 * MaxPulls) .. (TsSpan - 1)
      BY <3>4, <3>5, WindowAssumption, Half
    <3> QED
      BY <3>1, <3>3, <3>6 DEF EntryInv
  <2> QED
    BY <2>0, <2>1 DEF TypeOK, InstanceInv
<1> QED
  BY <1>1, Invariant, PTL

\* Through any loss, duplication, reordering and pulls, the list holds what is
\* still wanted, and only that.
THEOREM ListIsExact == Spec => []ListExact
<1>1. NackInv => ListExact
  <2> SUFFICES ASSUME NackInv PROVE ListExact
    OBVIOUS
  <2>0. HistoryInv /\ InstanceInv /\ ListInv
    BY DEF NackInv
  <2>1. OnlyWanted
    BY <2>0, ListedIs DEF OnlyWanted, ListedPackets
  <2>2. AllWanted
    <3> SUFFICES ASSUME Steady, NEW n \in Wanted PROVE n \in ListedPackets \/ sent[n] <= heard
      BY DEF AllWanted
    <3>1. CASE Lists(n)
      <4>1. SeqOf(n) \in Listed(nack) /\ PacketOf(SeqOf(n)) = n
        BY <2>0, <3>1, StandsFor DEF Lists
      <4> QED
        BY <4>1 DEF ListedPackets
    <3> QED
      BY <2>0, <3>1 DEF ListInv, Complete
  <2> QED
    BY <2>1, <2>2 DEF ListExact
<1> QED
  BY <1>1, Invariant, PTL

\* An entry is marked missing exactly when its packet is past the threshold, and
\* its time to play is the time until its packet is to be heard.
THEOREM EntriesAreTrue == Spec => []EntriesTrue
<1>1. NackInv => EntriesTrue
  <2> SUFFICES ASSUME NackInv PROVE EntriesTrue
    OBVIOUS
  <2>0. HistoryInv /\ InstanceInv /\ ListInv
    BY DEF NackInv
  <2>1. \A s \in Listed(nack) :
           /\ PacketOf(s) \in Wanted /\ EntryInv(PacketOf(s))
           /\ Entry(PacketOf(s)) = nack.list[s]
    BY <2>0, ListedIs
  <2>2. MissingExact
    BY <2>1 DEF MissingExact, EntryInv
  <2>3. TimesTrue
    BY <2>1 DEF TimesTrue, EntryInv
  <2> QED
    BY <2>2, <2>3 DEF EntriesTrue
<1> QED
  BY <1>1, Invariant, PTL

\* What GetNackList asks for, of what playout has not reached, is what is wanted,
\* missing and further off than a round trip.
THEOREM AsksForWhatHelps == Spec => []AskedFor
<1>1. NackInv => AskedFor
  <2> SUFFICES ASSUME NackInv, Steady, NEW rtt \in RoundTrips, NEW n
               PROVE  /\ n \in {PacketOf(s) : s \in GetNackList(nack, rtt)} /\ sent[n] > heard
                      <=> /\ n \in Wanted /\ n < newest - nack_threshold_packets
                          /\ sent[n] - Clock > rtt /\ sent[n] > heard
    BY DEF AskedFor
  <2>0. HistoryInv /\ InstanceInv /\ ListInv
    BY DEF NackInv
  <2>1. ASSUME NEW s \in GetNackList(nack, rtt), n = PacketOf(s), sent[n] > heard
        PROVE  n \in Wanted /\ n < newest - nack_threshold_packets /\ sent[n] - Clock > rtt
    <3>1. s \in Listed(nack) /\ nack.list[s].isMissing /\ nack.list[s].timeToPlay > rtt
      BY DEF GetNackList
    <3>2. n \in Wanted /\ EntryInv(n) /\ Entry(n) = nack.list[s]
      BY <2>0, <2>1, <3>1, ListedIs
    <3>3. sent[n] >= Clock
      <4>1. sent[n] \in Nat /\ heard \in Nat /\ Clock \in Nat /\ Clock <= heard
        BY <2>0, <3>2, WantedFacts, StreamFacts, HistoryFacts DEF HistoryInv
      <4> QED
        BY <2>1, <4>1
    <3> QED
      BY <3>1, <3>2, <3>3 DEF EntryInv
  <2>2. ASSUME n \in Wanted, n < newest - nack_threshold_packets, sent[n] - Clock > rtt,
               sent[n] > heard
        PROVE  \E s \in GetNackList(nack, rtt) : n = PacketOf(s)
    <3>1. sent[n] \in Nat /\ heard \in Nat /\ Clock \in Nat /\ Clock <= heard
      BY <2>0, <2>2, WantedFacts, StreamFacts, HistoryFacts DEF HistoryInv
    <3>2. Lists(n)
      <4>1. ~(sent[n] <= heard)
        BY <2>2, <3>1
      <4> QED
        BY <2>0, <2>2, <4>1 DEF ListInv, Complete
    <3>3. EntryInv(n) /\ sent[n] >= Clock
      BY <2>0, <2>2, <3>1, <3>2 DEF ListInv, Entries
    <3>4. Entry(n).isMissing /\ Entry(n).timeToPlay > rtt
      BY <2>2, <3>3 DEF EntryInv
    <3>5. SeqOf(n) \in GetNackList(nack, rtt)
      BY <3>2, <3>4 DEF GetNackList, Lists, Entry
    <3>6. PacketOf(SeqOf(n)) = n
      BY <2>0, <2>2, StandsFor
    <3> QED
      BY <3>5, <3>6
  <2> QED
    BY <2>1, <2>2
<1> QED
  BY <1>1, Invariant, PTL

\* Estimated timestamps lie between those received around the gap and in the
\* order of their packets, for any durations of the packets.
THEOREM EstimatesInOrder == Spec => []EstimatesOrdered
<1>1. NackInv => EstimatesOrdered
  <2> SUFFICES ASSUME NackInv, NEW s \in Listed(nack), NEW t \in Listed(nack)
               PROVE  LET Past(x) == (TsOf(newest) - nack.list[x].timestamp) % TsSpan
                      IN  /\ Past(s) <= (TsOf(newest) - TsOf(first)) % TsSpan
                          /\ Newer(s, t) => Past(s) <= Past(t)
    BY DEF EstimatesOrdered
  <2>0. HistoryInv /\ InstanceInv /\ ListInv
    BY DEF NackInv
  <2> DEFINE m == PacketOf(s)
             n == PacketOf(t)
  <2>1. /\ m \in Wanted /\ Lists(m) /\ EntryInv(m) /\ Entry(m) = nack.list[s] /\ s = SeqOf(m)
        /\ n \in Wanted /\ Lists(n) /\ EntryInv(n) /\ Entry(n) = nack.list[t] /\ t = SeqOf(n)
    BY <2>0, ListedIs
  <2> HIDE DEF m, n
  <2>2. /\ got # {} /\ newest \in Nat /\ first \in Packets /\ newest \in Packets /\ first <= newest
        /\ first \in Nat
    <3>1. got # {} /\ newest \in Nat
      BY <2>0, <2>1, WantedFacts
    <3>2. first # -1
      BY <2>0, <3>1 DEF HistoryInv
    <3> QED
      BY <2>0, <3>1, <3>2, HistoryFacts DEF HistoryInv
  <2>3. nack.tsReceived = TsOf(newest)
    BY <2>0, <2>2 DEF InstanceInv
  <2>4. /\ Behind(m) = (TsOf(newest) - nack.list[s].timestamp) % TsSpan
        /\ Behind(n) = (TsOf(newest) - nack.list[t].timestamp) % TsSpan
    BY <2>1, <2>3 DEF Behind
  <2>5. (TsOf(newest) - TsOf(first)) % TsSpan = (sent[newest] - sent[first]) * khz
    <3> DEFINE a == sent[first]
               b == sent[newest]
    <3>1. a \in Nat /\ b \in Nat /\ a <= b /\ b * khz < TsSpan
      <4>1. first = newest \/ first \in 0 .. (newest - 1)
        BY <2>2
      <4> QED
        BY <2>0, <2>2, <4>1, StreamFacts DEF HistoryInv
    <3>2. khz \in Nat
      BY KhzFacts
    <3>3. TsOf(first) = TsAt(a * khz) /\ TsOf(newest) = TsAt(b * khz)
      BY <2>2, TsOfIs
    <3> HIDE DEF khz, a, b
    <3> DEFINE d == b - a
    <3>4. d \in Nat /\ b = a + d
      BY <3>1
    <3> HIDE DEF d
    <3>5. a * khz \in Nat /\ b * khz \in Nat /\ d * khz \in Nat /\ b * khz = a * khz + d * khz
      BY <3>1, <3>2, <3>4
    <3>6. b * khz - a * khz \in 0 .. (TsSpan - 1) /\ b * khz - a * khz = d * khz
      BY <3>1, <3>5, Half
    <3>7. (TsAt(b * khz) - TsAt(a * khz)) % TsSpan = d * khz
      BY <3>5, <3>6, TsBetween
    <3> QED
      BY <3>3, <3>7 DEF d, a, b
  <2>6. Newer(s, t) => n < m
    <3>1. /\ m \in Nat /\ m < newest /\ newest - m < SeqSpan \div 2
          /\ n \in Nat /\ n < newest /\ newest - n < SeqSpan \div 2
      BY <2>0, <2>1, WantedFacts
    <3>2. m - n < SeqSpan \div 2 /\ n - m < SeqSpan \div 2
      BY <2>2, <3>1, Half
    <3>3. Newer(SeqOf(m), SeqOf(n)) <=> m > n
      BY <3>1, <3>2, NewerIsLater
    <3> QED
      BY <2>1, <3>1, <3>3
  <2>7. Behind(m) <= (sent[newest] - sent[first]) * khz
    BY <2>1 DEF EntryInv
  <2>8. n < m => Behind(m) <= Behind(n)
    BY <2>0, <2>1 DEF ListInv, InOrder
  <2> QED
    BY <2>4, <2>5, <2>6, <2>7, <2>8
<1> QED
  BY <1>1, Invariant, PTL

\* No assertion of nack.cc fails, whatever arrives and whatever is pulled.
THEOREM NoAssertionFails == Spec => []AssertionsHold
<1>1. NackInv => AssertionsHold
  BY DEF NackInv, AssertionsHold
<1> QED
  BY <1>1, Invariant, PTL
=============================================================================
