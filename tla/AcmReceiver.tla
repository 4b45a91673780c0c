---------------------------- MODULE AcmReceiver ----------------------------
(***************************************************************************)
(* acm2::AcmReceiver (acm_receiver.cc): the network thread calls           *)
(* InsertPacket, the playout thread GetAudio every 10 ms, and any other    *)
(* thread the delay, codec and NACK functions.  A call works in parts:     *)
(* under crit_sect_ on the receiver's members, then under decode_lock_ on  *)
(* NetEq.  A part under crit_sect_ waits for nothing, so it is one step; a *)
(* part under decode_lock_ is one step for each call into NetEq.           *)
(* NetEq is kept to what the receiver asks of it.  Packet n of the stream  *)
(* sent has codec sent[n].codec and was sent sent[n].at ms after packet 0.    *)
(***************************************************************************)
EXTENDS Nack, InitialDelay, FiniteSetsExt

CONSTANTS AudioCodecs,       \* the audio codecs; "cng" and "avt" are registered too
          Stereo,            \* those of two channels
          Khz,               \* CodecFreq of a codec, its RTP clock as well, in kHz
          OutKhz,            \* the rate NetEq decodes it to
          PayloadType,       \* the payload type it is registered with
          ClockSpan,         \* 2^26: the milliseconds NowInTimestamp keeps
          MaxPackets,        \* of NetEq's packet buffer
          DelayLimit,        \* the longest minimum delay NetEq grants
          Delays,            \* the initial delays asked for
          NackSizes,         \* the NACK list sizes asked for
          Streams,           \* what may be sent
          SeqStart, TsStart, \* of packet 0
          ClockStart,        \* of the clock, when packet 0 is sent
          MaxClock,          \* bound: milliseconds since
          Reorder,           \* bound: how far behind the newest a packet arrives
          MaxCalls,          \* bound: calls of other threads, the delay's apart
          DelayAnyTime       \* FALSE: a delay is set before the call, and ended
                             \* while neither thread is in a call

Codecs == AudioCodecs \cup {"cng", "avt"}
None == "none"

ASSUME ReceiverAssumption ==
    /\ AudioCodecs \cap {"cng", "avt", None} = {}
    /\ \A c \in Codecs : PayloadType[c] # kInvalidPayloadType
    /\ \A s \in Streams : \A n \in DOMAIN s : s[n].codec \in Codecs
    /\ MaxPackets \in Nat \ {0}

ASSUME NumbersAssumption ==
    /\ {SeqStart, TsStart, ClockStart, MaxClock} \subseteq Nat /\ ClockSpan \in Nat \ {0}
    /\ Delays \subseteq Nat /\ \A c \in Codecs : {Khz[c], OutKhz[c]} \subseteq Nat \ {0}

\* A stream is two packets at least, sent one after the other.
ASSUME StreamsAssumption ==
    \A s \in Streams :
        /\ DOMAIN s \subseteq Nat /\ {0, 1} \subseteq DOMAIN s /\ s[0].at = 0
        /\ \A n \in DOMAIN s : s[n].at \in Nat
        /\ \A n \in DOMAIN s : \A m \in 0 .. (n - 1) : m \in DOMAIN s /\ s[m].at < s[n].at

VARIABLES
    av,            \* av_sync_, the manager and the two sync streams
    last_audio,    \* last_audio_decoder_
    registered,    \* decoders_[].registered
    rate,          \* current_sample_rate_hz_, in kHz
    nack_enabled, nack,
    neteq,
    decode_lock,   \* who holds it: None, "net" or "play"
    net, play,     \* where InsertPacket and GetAudio stand
    clock,         \* ms since packet 0 was sent
    sent,          \* the stream, one of Streams
    calls,         \* calls of other threads so far
    got,           \* history: packets InsertPacket was called with
    heard,         \* history: of the codec heard last and its delay, see Unheard
    asserted       \* history: the assertions about the delay held

receiver == <<av, last_audio, registered, rate, nack_enabled, nack>>
vars == <<receiver, neteq, decode_lock, net, play, clock, sent, calls, got, heard, asserted>>

NoAv == [on |-> FALSE, m |-> NewManager(0), missing |-> NoSync, late |-> NoSync]

-----------------------------------------------------------------------------
(* The stream, and the packets that sequence numbers stand for.            *)
Packets == DOMAIN sent

\* When packet n is sent, in ms after packet 0.  Past the end of the stream, where
\* only sync packets get, it goes on at the pace at which it began.
StampOf(n) == IF n \in Packets THEN sent[n].at ELSE n * sent[1].at
ClockOf(n) == IF n \in Packets THEN Khz[sent[n].codec] ELSE Khz[sent[0].codec]

SeqOf(n) == SeqNo(SeqStart + n)
TsOf(n) == Ts(TsStart + ClockOf(n) * StampOf(n))
NumberOf(seq) == SeqNo(seq - SeqStart)
Header(n) == [seq |-> SeqOf(n), ts |-> TsOf(n), pt |-> PayloadType[sent[n].codec]]

NowInTimestamp(khz, ms) == Ts(khz * ((ClockStart + ms) % ClockSpan))

-----------------------------------------------------------------------------
(* NetEq, as far as the receiver can tell.                                 *)
\* known: the codecs in its decoder database.
NewNetEq(khz) ==
    [pt |-> kInvalidPayloadType, held |-> {}, decoded |-> -1, reached |-> -1, khz |-> khz,
     known |-> Codecs]

Fresh(q) == [q EXCEPT !.held = {}, !.reached = -1]

\* Of two packets with one timestamp the real one stays.
Add(q, p, sync) ==
    LET same == {h \in q.held : h.ts = p.ts}
    IN  IF \E h \in same : sync \/ ~h.sync THEN q
        ELSE [q EXCEPT !.held = (@ \ same) \cup
                                    {[no |-> NumberOf(p.seq), ts |-> p.ts, sync |-> sync]}]

\* The first packet, one of another codec and one for which there is no room
\* flush the buffer.  A packet of a codec removed since it arrived is refused, but a
\* first packet has by then set the type.
InsertPacket(q, p, codec) ==
    LET first == q.pt = kInvalidPayloadType
        changed == codec \in AudioCodecs /\ p.pt # q.pt
        flush == first \/ changed \/ Cardinality(q.held) = MaxPackets
    IN  IF codec = "avt" \/ codec \notin q.known
        THEN [q EXCEPT !.pt = IF first THEN p.pt ELSE @]
        ELSE [Add(IF flush THEN Fresh(q) ELSE q, p, FALSE) EXCEPT
                 !.pt = IF first \/ changed THEN p.pt ELSE @,
                 !.khz = IF flush THEN OutKhz[codec] ELSE @]

\* "Changing codec, SSRC or first packet with sync-packet" is refused, and a type
\* that is not known.
InsertSyncPacket(q, p) ==
    IF p.pt # q.pt \/ \A c \in q.known : PayloadType[c] # p.pt THEN q
    ELSE Add(IF Cardinality(q.held) = MaxPackets THEN Fresh(q) ELSE q, p, TRUE)

\* GetAudio: packets no longer of use go; the oldest is decoded, or none yet.
Pulled(q) ==
    LET useful == {h \in q.held : h.no > q.reached}
    IN  {[q EXCEPT !.held = useful]} \cup
            {[q EXCEPT !.held = useful \ {h}, !.decoded = h.no, !.reached = h.no] :
                h \in {h \in useful : \A other \in useful : h.no <= other.no}}

-----------------------------------------------------------------------------
IdleNet == [pc |-> "idle", n |-> 0]
IdlePlay == [pc |-> "idle", silence |-> FALSE, khz |-> 0]

\* The first packet of the codec heard last and the newest since; the shortest
\* time any has been on its way; whether a nearly full buffer ended the delay;
\* and whether the delay manager ever took a codec's first packet for an old one,
\* because sync packets had been given its number.
Unheard == [first |-> 0, newest |-> 0, lag |-> MaxClock, crowded |-> FALSE, overtaken |-> FALSE]

Init ==
    /\ sent \in Streams
    /\ av = NoAv /\ last_audio = None /\ registered = Codecs /\ rate \in {OutKhz[c] : c \in AudioCodecs}
    /\ nack_enabled = FALSE /\ nack = NewNack
    /\ neteq = NewNetEq(rate)
    /\ decode_lock = None /\ net = IdleNet /\ play = IdlePlay
    /\ clock = 0 /\ calls = 0 /\ got = {} /\ heard = Unheard
    /\ asserted = TRUE

\* The type of a packet for the delay manager.
TypeOf(codec) == IF codec \in AudioCodecs THEN "audio" ELSE codec

\* InsertPacket under crit_sect_, when packet n arrives.
ArrivalUpdates(n) ==
    LET codec == sent[n].codec
        p == Header(n)
        new_codec == codec \in AudioCodecs /\ codec # last_audio
        k == IF new_codec THEN UpdateSampleRate(Reset(nack), Khz[codec] * 1000) ELSE nack
        u == UpdateLastPacket(av.m, p, NowInTimestamp(Khz[codec], clock), TypeOf(codec),
                              new_codec, Khz[codec] * 1000)
    IN  /\ last_audio' = IF new_codec THEN codec ELSE last_audio
        /\ nack' = IF nack_enabled THEN UpdateLastReceivedPacket(k, p.seq, p.ts) ELSE nack
        /\ av' = IF av.on THEN [av EXCEPT !.m = u.m, !.missing = u.sync] ELSE av
        /\ heard' =
              [IF new_codec
               THEN [heard EXCEPT !.first = n, !.newest = n, !.crowded = FALSE,
                                  !.overtaken = @ \/ (av.on /\ Ignored(av.m, p, "audio"))]
               ELSE [heard EXCEPT !.newest = IF codec = "avt" THEN @ ELSE Max({n, @})]
               EXCEPT !.lag = Min({clock - StampOf(n), @})]
        /\ asserted' = (asserted /\ (av.on => UpdateAsserts(av.m, p, TypeOf(codec), new_codec)))
        /\ net' = [pc |-> "decode", n |-> n]

\* What never gets to NetEq: no decoder, or comfort noise for a stereo codec.
Refused(codec) == codec \notin registered \/ (codec = "cng" /\ last_audio \in Stereo)

Arrive(n) ==
    /\ net.pc = "idle" /\ n \notin got /\ StampOf(n) <= clock
    /\ got # {} => n >= Max(got) - Reorder
    /\ got' = got \cup {n}
    /\ IF Refused(sent[n].codec)
       THEN UNCHANGED <<receiver, net, heard, asserted>>
       ELSE ArrivalUpdates(n) /\ UNCHANGED <<registered, rate, nack_enabled>>
    /\ UNCHANGED <<neteq, decode_lock, play, clock, sent, calls>>

\* InsertPacket takes decode_lock_ and tests missing_packets_sync_stream_.
NetLocks ==
    /\ net.pc = "decode" /\ decode_lock = None
    /\ decode_lock' = "net"
    /\ net' = [net EXCEPT !.pc = IF av.on THEN "sync" ELSE "insert"]
    /\ UNCHANGED <<receiver, neteq, play, clock, sent, calls, got, heard, asserted>>

\* One packet of a stream into NetEq; the stream moves on.
Advanced(s) == [s EXCEPT !.num = @ - 1, !.seq = SeqNo(@ + 1), !.ts = Ts(@ + s.step),
                         !.recv = Ts(@ + s.step)]

\* InsertStreamOfSyncPackets, which asserts av_sync_ and uses the stream.
NetSync ==
    /\ net.pc = "sync"
    /\ asserted' = (asserted /\ av.on)
    /\ IF av.missing.num > 0
       THEN /\ neteq' = InsertSyncPacket(neteq, av.missing)
            /\ av' = [av EXCEPT !.missing = Advanced(@)]
            /\ UNCHANGED net
       ELSE net' = [net EXCEPT !.pc = "insert"] /\ UNCHANGED <<neteq, av>>
    /\ UNCHANGED <<last_audio, registered, rate, nack_enabled, nack, decode_lock, play, clock,
                   sent, calls, got, heard>>

\* Slip: the lock is not released.
SlipNetInsert ==
    /\ net.pc = "insert"
    /\ neteq' = InsertPacket(neteq, Header(net.n), sent[net.n].codec)
    /\ net' = IdleNet
    /\ UNCHANGED <<receiver, decode_lock, play, clock, sent, calls, got, heard, asserted>>
NetInsert ==
    /\ net.pc = "insert"
    /\ neteq' = InsertPacket(neteq, Header(net.n), sent[net.n].codec)
    /\ net' = IdleNet /\ decode_lock' = None
    /\ UNCHANGED <<receiver, play, clock, sent, calls, got, heard, asserted>>

-----------------------------------------------------------------------------
\* kBufferingThresholdScale
Crowded(q) == 10 * Cardinality(q.held) > 9 * MaxPackets

\* GetSilence: the rate of silence is that of the codec heard last.
SilenceRate == IF last_audio = None THEN rate ELSE Khz[last_audio]

\* GetAudio under crit_sect_, 10 ms after the last one began.
PlayStarts ==
    /\ play.pc = "idle" /\ clock + 10 <= MaxClock
    /\ clock' = clock + 10
    /\ LET silence == av.on /\ av.m.buffering /\ ~Crowded(neteq)
           m == IF av.on /\ av.m.buffering /\ Crowded(neteq) THEN DisableBuffering(av.m) ELSE av.m
       IN  /\ rate' = IF silence THEN SilenceRate ELSE rate
           /\ \E l \in {LatePackets(m, NowInTimestamp(rate', clock'))} :
                 av' = IF av.on THEN [av EXCEPT !.m = l.m, !.late = l.sync] ELSE av
           /\ play' = [IdlePlay EXCEPT !.pc = "decode", !.silence = silence]
           /\ heard' = [heard EXCEPT !.crowded = @ \/ m # av.m]
    /\ UNCHANGED <<last_audio, registered, nack_enabled, nack, neteq, decode_lock, net, sent,
                   calls, got, asserted>>

PlayLocks ==
    /\ play.pc = "decode" /\ decode_lock = None
    /\ decode_lock' = "play"
    /\ play' = [play EXCEPT !.pc = IF av.on THEN "sync" ELSE "pull"]
    /\ UNCHANGED <<receiver, neteq, net, clock, sent, calls, got, heard, asserted>>

\* While silence is played NetEq is not asked for audio.
PlaySync ==
    /\ play.pc = "sync"
    /\ asserted' = (asserted /\ av.on)
    /\ IF av.late.num > 0
       THEN /\ neteq' = InsertSyncPacket(neteq, av.late)
            /\ av' = [av EXCEPT !.late = Advanced(@)]
            /\ UNCHANGED <<play, decode_lock>>
       ELSE /\ play' = IF play.silence THEN IdlePlay ELSE [play EXCEPT !.pc = "pull"]
            /\ decode_lock' = IF play.silence THEN None ELSE decode_lock
            /\ UNCHANGED <<neteq, av>>
    /\ UNCHANGED <<last_audio, registered, rate, nack_enabled, nack, net, clock, sent, calls,
                   got, heard>>

\* The length of the block, which tells the rate, is kept in a local.
PlayPulls ==
    /\ play.pc = "pull"
    /\ neteq' \in Pulled(neteq)
    /\ play' = [play EXCEPT !.pc = "finish", !.khz = neteq.khz] /\ decode_lock' = None
    /\ UNCHANGED <<receiver, net, clock, sent, calls, got, heard, asserted>>

\* DecodedRtpInfo returns 0 when there is a decoded packet, so the list is told
\* only when there is none, and then of packet 0.
PlayEnds ==
    /\ play.pc = "finish"
    /\ nack' = IF nack_enabled /\ neteq.decoded = -1 THEN UpdateLastDecodedPacket(nack, 0, 0)
               ELSE nack
    /\ rate' = play.khz
    /\ play' = IdlePlay
    /\ UNCHANGED <<av, last_audio, registered, nack_enabled, neteq, decode_lock, net, clock,
                   sent, calls, got, heard, asserted>>

-----------------------------------------------------------------------------
\* A function called by another thread.
Elsewhere == UNCHANGED <<decode_lock, net, play, clock, sent, got, heard, asserted>>
Call == calls < MaxCalls /\ calls' = calls + 1 /\ Elsewhere

\* Refused once packets have been received for a delay, and when NetEq cannot
\* hold so much.  ResetInitialDelay is SetInitialDelay(0).
SetInitialDelay(ms) ==
    /\ Elsewhere
    /\ \/ DelayAnyTime
       \/ net.pc = "idle" /\ play.pc = "idle" /\ (ms = 0 \/ got = {})
    /\ av' = IF ms = 0 THEN NoAv
             ELSE IF (av.on /\ PacketBuffered(av.m)) \/ ms > DelayLimit THEN av
             ELSE [NoAv EXCEPT !.on = TRUE, !.m = NewManager(ms)]
    /\ UNCHANGED <<last_audio, registered, rate, nack_enabled, nack, neteq, calls>>

EnableNack(size) ==
    /\ Call
    /\ LET fresh == IF last_audio = None THEN NewNack
                    ELSE UpdateSampleRate(NewNack, Khz[last_audio] * 1000)
           k == IF nack_enabled THEN nack ELSE fresh
       IN  IF size \notin 1 .. kNackListSizeLimit THEN UNCHANGED <<nack, nack_enabled>>
           ELSE nack' = SetMaxNackListSize(k, size) /\ nack_enabled' = TRUE
    /\ UNCHANGED <<av, last_audio, registered, rate, neteq>>

DisableNack ==
    /\ Call
    /\ nack_enabled' = FALSE /\ nack' = NewNack
    /\ UNCHANGED <<av, last_audio, registered, rate, neteq>>

\* A codec registered already is left as it is.
AddCodec(codec) ==
    /\ Call
    /\ registered' = registered \cup {codec}
    /\ neteq' = IF codec \in registered THEN neteq ELSE [neteq EXCEPT !.known = @ \cup {codec}]
    /\ UNCHANGED <<av, last_audio, rate, nack_enabled, nack>>

\* A codec is first removed from NetEq, with no lock of the receiver's held.
RemoveCodec(codec) ==
    /\ Call
    /\ neteq' = IF codec \in registered THEN [neteq EXCEPT !.known = @ \ {codec}] ELSE neteq
    /\ UNCHANGED receiver

\* The rest of RemoveCodec, under crit_sect_.
CodecRemoved(codec) ==
    /\ codec \in registered \ neteq.known
    /\ registered' = registered \ {codec}
    /\ last_audio' = IF last_audio = codec THEN None ELSE last_audio
    /\ UNCHANGED <<av, rate, nack_enabled, nack, neteq, calls>>
    /\ Elsewhere

FlushBuffers ==
    /\ Call
    /\ neteq' = [Fresh(neteq) EXCEPT !.pt = kInvalidPayloadType]
    /\ UNCHANGED receiver

NetNext == (\E n \in Packets : Arrive(n)) \/ NetLocks \/ NetSync \/ NetInsert
PlayNext == PlayStarts \/ PlayLocks \/ PlaySync \/ PlayPulls \/ PlayEnds
ApiNext ==
    \/ \E ms \in Delays : SetInitialDelay(ms)
    \/ \E size \in NackSizes : EnableNack(size)
    \/ \E codec \in AudioCodecs : AddCodec(codec) \/ RemoveCodec(codec) \/ CodecRemoved(codec)
    \/ DisableNack
    \/ FlushBuffers

\* Nothing more arrives and no call is in progress.
Ended == net.pc = "idle" /\ play.pc = "idle" /\ UNCHANGED vars

Next == NetNext \/ PlayNext \/ ApiNext \/ Ended

Spec == Init /\ [][Next]_vars

-----------------------------------------------------------------------------
TypeOK ==
    /\ av.on \in BOOLEAN /\ last_audio \in AudioCodecs \cup {None} /\ registered \subseteq Codecs
    /\ neteq.known \subseteq registered
    /\ av.m.type \in {"undefined", "cng", "audio", "sync"}
    /\ av.m.buffered \in Nat /\ av.missing.num \in 0 .. (SeqSpan - 1) /\ av.late.num \in 0 .. (TsSpan - 1)
    /\ {av.m.recv, av.m.step, av.missing.recv, av.late.recv} \subseteq 0 .. (TsSpan - 1)
    /\ Cardinality(neteq.held) <= MaxPackets
    /\ decode_lock = "net" <=> net.pc \in {"sync", "insert"}
    /\ decode_lock = "play" <=> play.pc \in {"sync", "pull"}

\* A stream of one clock, whose packets all play as long.
Steady == \A n \in Packets : ClockOf(n) = ClockOf(0) /\ sent[n].at = n * sent[1].at

\* A packet in NetEq, a sync packet too, carries the timestamp that the packet of
\* its number was sent with, wraps included; and of the packets missing between
\* two that came, sync packets leave one out before the later one.
SyncTrue ==
    Steady =>
        /\ \A h \in neteq.held : h.ts = TsOf(h.no)
        /\ net.pc = "decode" /\ av.missing.num > 0 =>
              NumberOf(av.missing.seq) + av.missing.num = net.n - 1

\* The initial delay is kept: NetEq plays nothing before so much audio has been
\* received since the codec was first heard, unless its buffer is nearly full.
DelayKept ==
    Steady /\ av.on /\ ~av.m.buffering /\ ~heard.crowded /\ ~heard.overtaken =>
        StampOf(heard.newest) - StampOf(heard.first) >= av.m.delay

\* A sync packet never stands for a packet that could not have arrived yet, had
\* it travelled as fast as the fastest.
NeverAhead ==
    Steady => \A h \in neteq.held : h.sync => StampOf(h.no) + heard.lag <= clock

\* The assertions of InitialDelayManager's UpdateLastReceivedPacket and of
\* InsertStreamOfSyncPackets hold, but for packets of a codec whose first packet
\* the delay manager took for an old one.
AssertsKnown == asserted \/ heard.overtaken

\* Once NetEq decodes, every GetAudio tells the NACK list of the packet decoded.
NackTold ==
    [][play.pc = "finish" /\ play'.pc = "idle" /\ nack_enabled /\ neteq.decoded # -1 =>
          nack'.anyDecoded /\ nack'.seqDecoded = SeqOf(neteq.decoded)]_vars
=============================================================================
