-------------------------------- MODULE Nack --------------------------------
(***************************************************************************)
(* acm2::Nack (nack.cc): the list of packets to ask the sender for again,  *)
(* as operators on one instance.  nack_list_ is a function from the        *)
(* sequence numbers listed to their elements; the map's order is Newer,    *)
(* which orders any set narrower than half of SeqSpan.                     *)
(***************************************************************************)
EXTENDS RtpNumbers, FiniteSets

CONSTANTS nack_threshold_packets,
          kNackListSizeLimit

ASSUME LimitAssumption == nack_threshold_packets \in Nat /\ kNackListSizeLimit \in Nat \ {0}

kDefaultSampleRateKhz == 48
kDefaultPacketSizeMs  == 20

NewNack == [anyReceived |-> FALSE, seqReceived |-> 0, tsReceived |-> 0,
            anyDecoded  |-> FALSE, seqDecoded  |-> 0, tsDecoded  |-> 0,
            khz |-> kDefaultSampleRateKhz,
            perPacket |-> kDefaultSampleRateKhz * kDefaultPacketSizeMs,
            list |-> <<>>, maxSize |-> kNackListSizeLimit]

Listed(k) == DOMAIN k.list
\* Keep the elements newer than n: erase(begin(), upper_bound(n)).
OnlyNewerThan(list, n) == [m \in {m \in DOMAIN list : Newer(m, n)} |-> list[m]]
Without(list, n) == [m \in DOMAIN list \ {n} |-> list[m]]

UpdateSampleRate(k, hz) == [k EXCEPT !.khz = hz \div 1000]

LimitNackListSize(k) ==
    [k EXCEPT !.list = OnlyNewerThan(@, SeqNo(k.seqReceived - k.maxSize - 1))]

\* Slip: any size will do.
SlipSetMaxNackListSize(k, size) == LimitNackListSize([k EXCEPT !.maxSize = size])
SetMaxNackListSize(k, size) ==
    IF size \notin 1 .. kNackListSizeLimit THEN k
    ELSE LimitNackListSize([k EXCEPT !.maxSize = size])

TimeToPlay(k, ts) == ((ts - k.tsDecoded) % TsSpan) \div k.khz

\* With perPacket updated and seqReceived, tsReceived not yet.
EstimateTimestamp(k, seq) ==
    (SeqNo(seq - k.seqReceived) * k.perPacket + k.tsReceived) % TsSpan

\* The assertion of AddToList.
AddAsserts(k, seq) == k.anyDecoded => Newer(seq, k.seqDecoded)

\* The packets AddToList adds when seq is received: those it skips.
Skipped(k, seq) == {SeqNo(k.seqReceived + d) : d \in 1 .. (SeqNo(seq - k.seqReceived) - 1)}

\* Slip: late packets become missing a packet too late.
SlipTooLate(k, seq, n) == Newer(SeqNo(seq - nack_threshold_packets - 1), n)
TooLate(k, seq, n) == Newer(SeqNo(seq - nack_threshold_packets), n)

\* UpdateList: ChangeFromLateToMissing, then AddToList.
UpdateList(k, seq) ==
    [k EXCEPT !.list =
        [n \in Listed(k) \cup Skipped(k, seq) |->
            IF n \in Skipped(k, seq)
            THEN LET ts == EstimateTimestamp(k, n)
                 IN  [timeToPlay |-> TimeToPlay(k, ts), timestamp |-> ts,
                      isMissing |-> TooLate(k, seq, n)]
            ELSE [k.list[n] EXCEPT !.isMissing = @ \/ TooLate(k, seq, n)]]]

\* "Received RTP should not be in the list."
Received(k, seq) == Without(k.list, seq)

\* Slip: the packet size is only learnt from consecutive packets.
SlipSamplesPerPacket(k, seq, ts) ==
    IF seq = SeqNo(k.seqReceived + 1) THEN (ts - k.tsReceived) % TsSpan ELSE k.perPacket
\* UpdateSamplesPerPacket
SamplesPerPacket(k, seq, ts) ==
    ((ts - k.tsReceived) % TsSpan) \div SeqNo(seq - k.seqReceived)

UpdateLastReceivedPacket(k, seq, ts) ==
    IF ~k.anyReceived
    THEN LET first == [k EXCEPT !.anyReceived = TRUE, !.seqReceived = seq,
                                !.tsReceived = ts]
         IN  IF k.anyDecoded THEN first
             ELSE [first EXCEPT !.seqDecoded = seq, !.tsDecoded = ts]
    ELSE IF seq = k.seqReceived THEN k
    ELSE LET erased == [k EXCEPT !.list = Received(k, seq)]
             sized == [erased EXCEPT !.perPacket = SamplesPerPacket(k, seq, ts)]
         IN  IF Newer(k.seqReceived, seq) THEN erased
             ELSE LimitNackListSize([UpdateList(sized, seq) EXCEPT
                                        !.seqReceived = seq, !.tsReceived = ts])

\* The elements UpdateEstimatedPlayoutTimeBy10ms removes from the front.
Expired(k) ==
    {n \in Listed(k) : \A m \in Listed(k) :
        m = n \/ Newer(n, m) => k.list[m].timeToPlay <= 10 /\ k.list[n].timeToPlay <= 10}

\* Slip: the clock is not moved on with the times to play.
SlipUpdateBy10ms(k) ==
    [k EXCEPT !.list = [n \in Listed(k) \ Expired(k) |->
                           [k.list[n] EXCEPT !.timeToPlay = @ - 10]]]
\* UpdateEstimatedPlayoutTimeBy10ms, and the clock that moves with it.
UpdateBy10ms(k) ==
    [k EXCEPT !.list = [n \in Listed(k) \ Expired(k) |->
                           [k.list[n] EXCEPT !.timeToPlay = @ - 10]],
              !.tsDecoded = (@ + k.khz * 10) % TsSpan]

\* The assertion of UpdateLastDecodedPacket.
DecodeAsserts(k, seq) ==
    ~k.anyDecoded \/ Newer(seq, k.seqDecoded) \/ seq = k.seqDecoded

\* Slip: the packets before the decoded one stay.
SlipPassed(k, seq) == Without(k.list, seq)
\* "They will be discarded by the jitter buffer if they arrive."
Passed(k, seq) == OnlyNewerThan(k.list, seq)

UpdateLastDecodedPacket(k, seq, ts) ==
    IF Newer(seq, k.seqDecoded) \/ ~k.anyDecoded
    THEN LET now == [k EXCEPT !.anyDecoded = TRUE, !.seqDecoded = seq, !.tsDecoded = ts,
                              !.list = Passed(k, seq)]
         IN  [now EXCEPT !.list = [n \in Listed(now) |->
                 [now.list[n] EXCEPT !.timeToPlay =
                     TimeToPlay(now, now.list[n].timestamp)]]]
    ELSE UpdateBy10ms(k)

GetNackList(k, round_trip_time_ms) ==
    {n \in Listed(k) : /\ k.list[n].isMissing
                       /\ k.list[n].timeToPlay > round_trip_time_ms}

\* Slip: what was decoded is remembered.
SlipReset(k) == [NewNack EXCEPT !.maxSize = k.maxSize, !.anyDecoded = k.anyDecoded,
                                !.seqDecoded = k.seqDecoded]
Reset(k) == [NewNack EXCEPT !.maxSize = k.maxSize]
=============================================================================
