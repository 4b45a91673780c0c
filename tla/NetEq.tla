------------------------------- MODULE NetEq -------------------------------
(***************************************************************************)
(* webrtc::NetEqImpl (neteq_impl.cc) with DecisionLogicNormal: packets go  *)
(* into the packet buffer, and every 10 ms GetAudio takes a block from the *)
(* sync buffer, after decoding, stretching or concealing when less than a  *)
(* block is left there.  Each call holds crit_sect_ from end to end, so it *)
(* is one step.                                                            *)
(* Time, timestamps too, counts units of 5 ms.  What depends on buffer     *)
(* levels and on the shape of the signal is left open.                     *)
(***************************************************************************)
EXTENDS PacketBuffer

CONSTANTS SpeechTypes,             \* the payload types of speech
          Format,                  \* [khz, channels] of a payload type
          kReinitAfterExpands, kMaxWaitForPacket, kMinTimescaleInterval,
          Levels,                  \* what the target level, in time, may be
          Extra,                   \* what concealing, merging and slowing down add
          Cut,                     \* what speeding up removes
          kMaxFrameSize,           \* decoded_buffer_ has room for so much
          Streams,                 \* what may be sent
          SeqStart, TsStart,       \* of slot 0
          Reorder,                 \* bound: how far behind the newest a packet arrives
          MaxNoise,                \* bound: comfort noise counted; more makes no
                                   \* difference when no gap in a stream is as long
          MaxSpare,                \* bound: duplicates, sync packets and flushes
          MaxErrors                \* bound: packets that do not decode

Block == 2                         \* output_size_samples_

ASSUME TypesAssumption ==
    /\ SpeechTypes \cap NoiseTypes = {} /\ NoType \notin SpeechTypes
    /\ Format \in [SpeechTypes \cup NoiseTypes -> [khz : Nat, channels : Nat \ {0}]]
ASSUME LimitsAssumption ==
    /\ {kReinitAfterExpands, kMaxWaitForPacket, kMinTimescaleInterval} \subseteq Nat
    /\ Levels \subseteq Nat /\ Extra \subseteq Nat
    /\ Cut \subseteq 0 .. (Block + 1)         \* fs_mult_120 >= peak_index
    /\ {SeqStart, TsStart, MaxNoise, MaxSpare, MaxErrors} \subseteq Nat
    /\ kMaxFrameSize \in Nat /\ kMaxFrameSize >= 3 * Block

\* A slot is sent once the one before has been, and is no longer than a frame may be.
ASSUME StreamsAssumption ==
    \A s \in Streams : \A n \in DOMAIN s :
        /\ n \in Nat
        /\ s[n] \in [pt : SpeechTypes \cup NoiseTypes, ssrc : Nat, at : Nat,
                     len : 0 .. kMaxFrameSize, cn : BOOLEAN, fec : BOOLEAN]
        /\ s[n].fec => /\ n - 1 \in DOMAIN s /\ s[n - 1].pt = s[n].pt
                       /\ s[n - 1].at + s[n].len <= s[n].at
\* A stream, and what a full buffer may last beyond it, is less than half a circle.
ASSUME WindowAssumption ==
    \A s \in Streams : \A n \in DOMAIN s :
        s[n].at + MaxPackets * kMaxFrameSize < TsSpan \div 2 - 1

VARIABLES
    buffer,      \* packet_buffer_
    codec,       \* [pt, cng, ssrc, first, new, active, ts]: the current payload
                 \* types, ssrc_, first_packet_, new_codec_, the active decoder
                 \* and timestamp_
    sync,        \* sync_buffer_: end_timestamp, what is left to play beyond the
                 \* overlap, and its format
    frame,       \* decoder_frame_length_
    last_mode,
    logic,       \* [cng, noise, expands, hold, scaled]: the decision logic's
                 \* cng_state_, generated_noise_samples_, num_consecutive_expands_,
                 \* timescale_hold_off_ and prev_time_scale_
    sent,        \* the stream
    got, spare, errors,
    beat,        \* history: the parity of the calls of GetAudio
    taken,       \* history: the last packet decoded since the buffer was flushed
    follows,     \* history: the timestamp after the audio decoded last, and whether
                 \* its decoder was taken into use without a restart
    full,        \* history: every GetAudio gave a whole block
    asserted,    \* history: the assertions of GetDecision held
    bereft       \* history: a codec's first packet was lost to FlushBuffers, or
                 \* discarded as comfort noise that is too old

inputs == <<sent, got, spare, errors>>
vars == <<buffer, codec, sync, frame, last_mode, logic, inputs, beat, taken, follows, full,
          asserted, bereft>>

NoPacket == [n |-> -1, kind |-> "none"]
Unknown == [ts |-> -1, unsettled |-> FALSE]

-----------------------------------------------------------------------------
(* What is sent: slot n is [pt, ssrc, at, len, cn, fec]: it starts `at` and  *)
(* lasts `len`; `fec` says whether it carries a copy of the slot before.     *)
Slots == DOMAIN sent

PacketOf(n) ==
    [n |-> n, seq |-> SeqNo(SeqStart + n), ts |-> Ts(TsStart + sent[n].at), pt |-> sent[n].pt,
     sync |-> FALSE, primary |-> TRUE, len |-> sent[n].len, cn |-> sent[n].cn]

\* SplitFec puts the copy of the slot before in front; it lasts as long as its carrier.
FecOf(n) == [PacketOf(n) EXCEPT !.n = n - 1, !.ts = Ts(@ - sent[n].len), !.primary = FALSE]
ListOf(n) == IF sent[n].fec THEN <<FecOf(n), PacketOf(n)>> ELSE <<PacketOf(n)>>
SyncOf(n) == [PacketOf(n) EXCEPT !.sync = TRUE, !.cn = FALSE]

KindOf(p) ==
    IF p.sync THEN "silence" ELSE IF ~p.primary THEN "copy"
    ELSE IF IsComfortNoise(p) \/ p.cn THEN "noise" ELSE "network"

Silent == [khz |-> 8, channels |-> 1]
NewSync(format) == [end |-> 0, left |-> 0, format |-> format]

Init ==
    /\ sent \in Streams
    /\ buffer = <<>>
    /\ codec = [pt |-> NoType, cng |-> NoType, ssrc |-> 0, first |-> TRUE, new |-> FALSE,
                active |-> NoType, ts |-> 0]
    /\ sync = NewSync(Silent) /\ frame = 3 * Block /\ last_mode = "normal"
    /\ logic = [cng |-> "off", noise |-> 0, expands |-> 0, hold |-> kMinTimescaleInterval,
                scaled |-> FALSE]
    /\ got = {} /\ spare = 0 /\ errors = 0 /\ beat = 0
    /\ taken = NoPacket /\ follows = Unknown
    /\ full = TRUE /\ asserted = TRUE /\ bereft = FALSE

\* SetSampleRateAndChannels: everything that knows the rate is made anew.
ChangeFormat(format) ==
    /\ sync' = NewSync(format) /\ frame' = 3 * Block /\ last_mode' = "normal"

-----------------------------------------------------------------------------
(* InsertPacketInternal.                                                   *)
Reinit(ssrc) == codec.first \/ ssrc # codec.ssrc

Insert(list, main, ssrc) ==
    LET reinit == Reinit(ssrc)
        s == InsertPacketList(IF reinit THEN <<>> ELSE buffer,
                              IF reinit THEN main.pt ELSE codec.pt, codec.cng, list)
        format == Format[Head(s.buffer).pt]
        restart == reinit \/ s.flushed
    IN  /\ buffer' = s.buffer
        /\ codec' = [codec EXCEPT !.pt = s.pt, !.cng = s.cng, !.ssrc = ssrc, !.first = FALSE,
                                  !.new = @ \/ restart,
                                  !.ts = IF reinit THEN main.ts ELSE @]
        /\ IF restart /\ format # sync.format
           THEN ChangeFormat(format)
           ELSE /\ sync' = [sync EXCEPT !.end = IF reinit THEN Ts(@ + main.ts - codec.ts) ELSE @]
                /\ UNCHANGED <<frame, last_mode>>
        /\ taken' = IF restart THEN NoPacket ELSE taken
        /\ follows' = IF restart THEN Unknown ELSE follows
        /\ UNCHANGED <<logic, sent, errors, beat, full, asserted, bereft>>

InTime(n) == got # {} => n >= Max(got) - Reorder

InsertPacket(n) ==
    /\ InTime(n)
    /\ IF n \in got THEN spare < MaxSpare /\ spare' = spare + 1 ELSE UNCHANGED spare
    /\ got' = got \cup {n}
    /\ Insert(ListOf(n), PacketOf(n), sent[n].ssrc)

\* AcmReceiver stands one in for a packet sent after one that came.  It is refused
\* as the first packet, or with another payload type or SSRC.
InsertSyncPacket(n) ==
    /\ InTime(n) /\ spare < MaxSpare /\ spare' = spare + 1
    /\ \E m \in got : m < n /\ sent[m].pt = sent[n].pt
    /\ UNCHANGED got
    /\ ~codec.first /\ sent[n].pt = codec.pt /\ sent[n].pt \in SpeechTypes
    /\ sent[n].ssrc = codec.ssrc
    /\ Insert(<<SyncOf(n)>>, SyncOf(n), codec.ssrc)

FlushBuffers ==
    /\ spare < MaxSpare /\ spare' = spare + 1
    /\ buffer' = <<>>
    /\ sync' = NewSync(sync.format)
    /\ codec' = [codec EXCEPT !.first = TRUE]
    /\ bereft' = (bereft \/ codec.new)
    /\ taken' = NoPacket /\ follows' = Unknown
    /\ UNCHANGED <<frame, last_mode, logic, sent, got, errors, beat, full, asserted>>

-----------------------------------------------------------------------------
(* GetDecision, up to the operation chosen.                                *)

\* Slip: a new codec's packets are judged by the end of the last one's.
SlipUseful == WithoutFront(buffer, LAMBDA p : Old(p.ts, sync.end))
\* Packets of no more use go: those before the end of what is decoded and, while
\* comfort noise plays, comfort noise that is not after what was played.
Useful ==
    LET cng_on == logic.cng = "rfc3389" \/ last_mode = "rfc3389"
        useless(p) ==
            \/ ~codec.new /\ Old(p.ts, sync.end)
            \/ /\ cng_on /\ IsComfortNoise(p)
               /\ sync.end >= p.ts \/ Ts(sync.end + logic.noise) > p.ts
    IN  WithoutFront(buffer, useless)

Header == Head(Useful)

Noise(n) == Min({n, MaxNoise})

\* DecisionLogic::GetDecision and FilterBufferLevel.
\* Slip: comfort noise played is not counted.
SlipCounted ==
    [logic EXCEPT !.cng = IF last_mode \in {"rfc3389", "internal"} THEN last_mode ELSE @,
                  !.noise = IF last_mode = "expand" THEN Noise(@ + Block) ELSE @,
                  !.hold = Max({@ - 1, 0}), !.scaled = FALSE]
Counted ==
    LET noisy == last_mode \in {"rfc3389", "internal"}
        scaled == logic.scaled /\ last_mode = "stretched"
        hold == IF ~noisy /\ scaled THEN kMinTimescaleInterval ELSE logic.hold
    IN  [logic EXCEPT !.cng = IF noisy THEN last_mode ELSE @,
                      !.noise = IF noisy \/ last_mode = "expand" THEN Noise(@ + Block) ELSE @,
                      !.hold = Max({hold - 1, 0}),
                      !.scaled = FALSE]

Signed(n) == IF n < TsSpan \div 2 THEN n ELSE n - TsSpan

\* How long ago the next packet was due, comfort noise counted.
Due == Signed(Ts(Counted.noise + sync.end - Header.ts))

\* CngOperation.  A packet far in the future is brought nearer.
CngOperation(level) ==
    LET far == -Due - level > level \div 2
        noise == IF far THEN Noise(Counted.noise - Due - level) ELSE Counted.noise
        early == IF far THEN level > 0 ELSE Due < 0
    IN  [op |-> IF early /\ last_mode = "rfc3389" THEN "cng_no_packet" ELSE "cng", noise |-> noise]

WithoutPacket ==
    CASE Counted.cng = "rfc3389" -> "cng_no_packet"
      [] Counted.cng = "internal" -> "internal"
      [] OTHER -> "expand"

\* ExpectedPacketAvailable: stretching depends on the level of the buffer and, but
\* for a very full buffer, on how long ago the last was.
Stretches ==
    IF last_mode = "expand" THEN {"normal"}
    ELSE {"normal", "accelerate"} \cup
             {s \in {"preemptive"} : Counted.hold = 0}

\* FuturePacketAvailable.
Future(level, under) ==
    LET leap == Ts(Header.ts - sync.end)
        size == sync.left + Len(Useful) * frame
        wait == /\ last_mode = "expand" /\ under
                /\ leap < Block * kReinitAfterExpands
                /\ logic.expands < kMaxWaitForPacket
                /\ leap > Block * logic.expands
    IN  CASE wait -> "expand"
          [] last_mode \in {"rfc3389", "internal"} ->
                IF Due >= 0 \/ size > 4 * level THEN "normal" ELSE WithoutPacket
          [] last_mode = "expand" \/ (frame < Block /\ size > 2 * Block) -> "merge"
          [] OTHER -> "expand"

Plain(op) == [op |-> op, noise |-> Counted.noise]

\* GetDecisionSpecialized: the operation, and the noise counted by then.
Decisions ==
    IF last_mode = "error" THEN {Plain(IF Useful = <<>> THEN "expand" ELSE "undefined")}
    ELSE IF Useful = <<>> THEN {Plain(WithoutPacket)}
    ELSE IF IsComfortNoise(Header) THEN {CngOperation(level) : level \in Levels}
    ELSE IF logic.expands > kReinitAfterExpands THEN {Plain("normal")}
    ELSE IF Header.ts = sync.end THEN {Plain(op) : op \in Stretches}
    ELSE IF NewerTs(Header.ts, sync.end)
    THEN {Plain(Future(level, under)) : level \in Levels, under \in BOOLEAN}
    ELSE {Plain("undefined")}

-----------------------------------------------------------------------------
(* GetAudioInternal: one action for each way a block comes about.          *)

\* The block is taken from what is now left in the sync buffer.
Output(left, s) ==
    /\ full' = (full /\ left >= Block)
    /\ sync' = [s EXCEPT !.left = Max({left - Block, 0})]

Enough(d) == sync.left >= Block /\ d.op \notin {"merge", "accelerate", "preemptive"}
Restarting(d) == codec.new \/ d.op = "undefined"
Asserts(d) == /\ d.op = "undefined" => codec.new
              /\ Restarting(d) => Useful # <<>>

\* ExpandDecision
Expands(op) == IF op = "expand" THEN Min({logic.expands + 1, kReinitAfterExpands + 1}) ELSE 0

\* The decision logic once an operation is chosen.
Chosen(d) == [Counted EXCEPT !.noise = d.noise, !.expands = Expands(d.op)]
Change(op) == IF op = "accelerate" THEN Cut ELSE Extra
SoftReset(l) == [l EXCEPT !.hold = kMinTimescaleInterval, !.scaled = FALSE]

\* A block is still there.
KeepPlaying(d) ==
    /\ Enough(d)
    /\ buffer' = Useful
    /\ logic' = [Counted EXCEPT !.noise = d.noise]
    /\ Output(sync.left, sync)
    /\ UNCHANGED <<codec, frame, last_mode, inputs, taken, follows, asserted, bereft>>

\* "Packet missing where it shouldn't."
PacketMissing(d) ==
    /\ ~Enough(d) /\ Restarting(d) /\ Useful = <<>>
    /\ asserted' = FALSE
    /\ bereft' = (bereft \/ (buffer # <<>> /\ IsComfortNoise(Head(buffer))))
    /\ last_mode' = "error" /\ buffer' = Useful /\ logic' = Chosen(d)
    /\ UNCHANGED <<codec, sync, frame, inputs, taken, follows, full>>

\* DoExpand, DoRfc3389Cng without a packet and DoCodecInternalCng, for which a decoder
\* is taken to give a frame of the noise it makes itself.
Conceal(d) ==
    /\ ~Enough(d) /\ ~Restarting(d)
    /\ d.op \in {"expand", "cng_no_packet", "internal"}
    /\ buffer' = Useful /\ logic' = Chosen(d)
    /\ codec' = [codec EXCEPT !.ts = IF d.op = "expand" THEN sync.end ELSE @]
    /\ \E more \in Extra :
          LET left == CASE d.op = "expand" -> Block + more
                        [] d.op = "internal" -> sync.left + frame
                        [] OTHER -> sync.left + Block
          IN  Output(left, sync)
    /\ last_mode' = CASE d.op = "expand" -> "expand"
                      [] d.op = "internal" -> "internal"
                      [] OTHER -> "rfc3389"
    /\ UNCHANGED <<frame, inputs, taken, follows, asserted, bereft>>

\* 30 ms are there already, or decoding might overflow the playout buffer: nothing
\* is decoded to stretch.
EnoughToStretch(d) ==
    \/ d.op \in {"accelerate", "preemptive"} /\ sync.left >= 3 * Block
    \/ d.op = "preemptive" /\ sync.left >= Block /\ frame >= 3 * Block
TooMuchToDecode(d) ==
    d.op = "accelerate" /\ sync.left \in Block .. (3 * Block - 1) /\ frame >= 3 * Block

Stretch(d) ==
    /\ ~Restarting(d) /\ EnoughToStretch(d)
    /\ buffer' = Useful /\ logic' = [Chosen(d) EXCEPT !.scaled = TRUE]
    /\ \E more \in Change(d.op) :
          /\ Output(sync.left + (IF d.op = "preemptive" THEN more ELSE -more), sync)
          /\ last_mode' = IF more = 0 THEN "unstretched" ELSE "stretched"
    /\ UNCHANGED <<codec, frame, inputs, taken, follows, asserted, bereft>>

PlayOn(d) ==
    /\ ~Restarting(d) /\ TooMuchToDecode(d)
    /\ buffer' = Useful /\ logic' = Chosen(d)
    /\ Output(sync.left, sync)
    /\ UNCHANGED <<codec, frame, last_mode, inputs, taken, follows, asserted, bereft>>

-----------------------------------------------------------------------------
(* Decoding.                                                               *)
\* ExtractPackets takes a packet whose length its decoder does not tell for a frame.
Duration(p) == IF p.sync \/ IsComfortNoise(p) \/ p.len = 0 THEN frame ELSE p.len

\* ExtractPackets: packets are taken one after another until they last as long as
\* required; the next must have the first one's payload type, and the next
\* sequence number unless it is the packet whose copy came before.
Extracted(required) ==
    LET useful == Useful
        leads == Leads(useful)
        p(k) == useful[Nth(leads, k)]
        enough(k) == Ts(p(k).ts - p(1).ts) + Duration(p(k)) >= required
        next(k) == /\ p(k + 1).pt = p(1).pt
                   /\ \/ SeqNo(p(k + 1).seq - p(k).seq) = 1
                      \/ p(k + 1).seq = p(k).seq /\ Ts(p(k + 1).ts - p(1).ts) = frame
        count == Cardinality(leads)
        last == Min({k \in 1 .. count : enough(k) \/ k = count \/ ~next(k)})
    IN  [k \in 1 .. last |-> p(k)]

Rest(list) ==
    LET gone == {q.ts : q \in Range(list)}
    IN  WithoutFront(Useful, LAMBDA p : p.ts \in gone)

\* The samples extracted, as GetDecision counts them.
Lasting(list) == Ts(list[Len(list)].ts - list[1].ts) + Duration(list[Len(list)])

\* DecodeLoop: what a packet decodes to on each channel; a sync packet to the last
\* packet's samples, taken for all of its channels.  decoded_buffer_ is taken to have
\* room for all that one call decodes; the error kDecodedTooMuch is left out.
\* Slip: a sync packet decodes to one unit too few.
SlipDecoded(p, last, channels) == IF p.sync THEN last - 1 ELSE p.len
Decoded(p, last, channels) == IF p.sync THEN last \div channels ELSE p.len

\* One turn of the loop: decoder_frame_length_ and what is decoded so far.
Turn(s, p, channels) ==
    LET len == Decoded(p, s.frame, channels)
    IN  [frame |-> IF len > 0 THEN len ELSE s.frame, len |-> s.len + len]
Turns(list, last, channels) ==
    LET after[k \in 0 .. Len(list)] ==
            IF k = 0 THEN [frame |-> last, len |-> 0] ELSE Turn(after[k - 1], list[k], channels)
    IN  after
DecodeLoop(list, last, channels) == Turns(list, last, channels)[Len(list)]

\* The operation, when decoding starts: a reset makes it a plain one, and comfort
\* noise that was to go on becomes a packet of it (LEGACY_BITEXACT).
AfterReset(d) ==
    IF ~Restarting(d) THEN d.op
    ELSE IF d.op \in {"cng", "cng_no_packet"} THEN "cng" ELSE "normal"

\* What decoding starts from: the timestamp it plays on from, and what a decoder
\* other than the active one changes.
Ready(d) ==
    LET base == IF Restarting(d) THEN Header.ts ELSE sync.end
        changed == ~IsComfortNoise(Header) /\ codec.active # Header.pt
        anew == changed /\ Format[Header.pt] # sync.format
    IN  [base |-> base, changed |-> changed,
         start |-> IF changed THEN base ELSE Header.ts,
         astray |-> changed /\ ~Restarting(d),
         format |-> IF anew THEN Format[Header.pt] ELSE sync.format,
         left |-> IF anew THEN 0 ELSE sync.left,
         frame |-> IF anew THEN 3 * Block ELSE frame,
         mode |-> IF anew THEN "normal" ELSE last_mode]

\* A packet of comfort noise, or one of speech taken for it, whose decoder then is
\* the active one all the same.
PlayNoise(d) ==
    /\ ~Enough(d) /\ Useful # <<>> /\ AfterReset(d) = "cng"
    /\ LET list == Extracted(Block)
           ready == Ready(d)
           l == [Chosen(d) EXCEPT !.noise = 0]
       IN  /\ buffer' = Rest(list)
           /\ codec' = [codec EXCEPT !.ts = ready.base, !.new = FALSE,
                                     !.active = IF ready.changed THEN Header.pt ELSE @]
           /\ logic' = IF Restarting(d) THEN SoftReset(l) ELSE l
           /\ Output(ready.left + Block, [sync EXCEPT !.end = Header.ts, !.format = ready.format])
           /\ frame' = ready.frame
           /\ taken' = [n |-> Header.n, kind |-> IF IsComfortNoise(Header) THEN "noise" ELSE "astray"]
           /\ asserted' = (asserted /\ Asserts(d) /\ Len(list) = 1)
    /\ last_mode' = "rfc3389" /\ follows' = Unknown
    /\ UNCHANGED <<inputs, bereft>>

\* kNormal, kMerge, kAccelerate and kPreemptiveExpand on len of decoded audio.
PlayDecoded(goal, ready, list, len) ==
    LET final == list[Len(list)]
        speech == ~IsComfortNoise(Header)
        real == {k \in DOMAIN list : ~list[k].sync}
        inband == real # {} /\ list[Max(real)].cn
        end == IF inband THEN ready.start ELSE ready.start + len
    IN  \E more \in Change(goal) :
            /\ Output(CASE goal = "normal" -> ready.left + len
                        [] goal = "merge" -> Max({ready.left, Block, len}) + more
                        [] goal = "accelerate" -> ready.left + len - more
                        [] goal = "preemptive" -> ready.left + len + more,
                      [sync EXCEPT !.end = Ts(end), !.format = ready.format])
            /\ last_mode' =
                  CASE inband \/ (ready.mode = "internal" /\ len = 0 /\ goal = "normal") -> "internal"
                    [] ~inband /\ goal = "normal" -> IF len = 0 THEN ready.mode ELSE "normal"
                    [] ~inband /\ goal = "merge" -> "merge"
                    [] OTHER -> IF more = 0 THEN "unstretched" ELSE "stretched"
            /\ taken' = [n |-> final.n, kind |-> IF ready.astray THEN "unsettled" ELSE KindOf(final)]
            /\ follows' = IF inband \/ final.sync \/ ~speech THEN Unknown
                          ELSE [ts |-> Ts(final.ts + final.len), unsettled |-> ready.astray]
            /\ UNCHANGED errors

\* A packet does not decode: the audio of all is lost, one frame of it counted.
PlayError(ready, list, last) ==
    /\ errors < MaxErrors /\ errors' = errors + 1
    /\ \E more \in Extra :
          Output(IF ready.left >= Block THEN ready.left ELSE Block + more,
                 [sync EXCEPT !.end = Ts(ready.start + last), !.format = ready.format])
    /\ last_mode' = IF ready.left >= Block THEN ready.mode ELSE "expand"
    /\ taken' = [n |-> list[Len(list)].n,
                 kind |-> IF ready.astray THEN "unsettled" ELSE "astray"]
    /\ follows' = Unknown

\* Speech, and whatever an error made of the decision.
PlayPackets(d) ==
    /\ ~Enough(d) /\ Useful # <<>>
    /\ AfterReset(d) \in {"normal", "merge", "accelerate", "preemptive"}
    /\ ~Restarting(d) => ~EnoughToStretch(d) /\ ~TooMuchToDecode(d)
    /\ LET op == AfterReset(d)
           scaling == op \in {"accelerate", "preemptive"}
           build_up == scaling /\ sync.left < 2 * Block /\ frame < 3 * Block
           required == IF build_up THEN 2 * Block
                       ELSE IF op = "merge" THEN Block * sync.format.channels ELSE Block
           list == Extracted(required)
           goal == IF op = "accelerate" /\ (build_up \/ Lasting(list) + sync.left < 3 * Block)
                   THEN "normal" ELSE op
           ready == Ready(d)
           speech == IF IsComfortNoise(Header) THEN <<>> ELSE list
           decoded(packets) == DecodeLoop(packets, ready.frame, ready.format.channels)
           l == [Chosen(d) EXCEPT !.noise = 0, !.cng = "off",
                                  !.scaled = scaling /\ ~(op = "accelerate" /\ build_up)]
       IN  /\ buffer' = Rest(list)
           /\ codec' = [codec EXCEPT !.ts = ready.base, !.new = FALSE,
                                     !.active = IF ready.changed THEN Header.pt ELSE @]
           /\ logic' = IF Restarting(d) THEN [SoftReset(l) EXCEPT !.scaled = l.scaled] ELSE l
           /\ asserted' = (asserted /\ Asserts(d))
           /\ \/ /\ frame' = decoded(speech).frame
                 /\ PlayDecoded(goal, ready, list, decoded(speech).len)
              \/ \E bad \in DOMAIN speech :
                    /\ frame' = decoded(SubSeq(list, 1, bad - 1)).frame
                    /\ PlayError(ready, list, frame')
    /\ UNCHANGED <<sent, got, spare, bereft>>

GetAudio ==
    /\ beat' = 1 - beat
    /\ \E d \in Decisions :
          \/ KeepPlaying(d)
          \/ PacketMissing(d)
          \/ Conceal(d)
          \/ Stretch(d)
          \/ PlayOn(d)
          \/ PlayNoise(d)
          \/ PlayPackets(d)

Next ==
    \/ \E n \in Slots : InsertPacket(n) \/ InsertSyncPacket(n)
    \/ FlushBuffers
    \/ GetAudio

\* The playout thread calls GetAudio for as long as the call lasts; nothing else
\* makes a beat, and it always can.
Spec == Init /\ [][Next]_vars /\ WF_beat(beat' = 1 - beat)

-----------------------------------------------------------------------------
TypeOK ==
    /\ Len(buffer) <= MaxPackets
    /\ codec.pt \in SpeechTypes \cup NoiseTypes \cup {NoType}
    /\ codec.cng \in NoiseTypes \cup {NoType} /\ codec.active \in SpeechTypes \cup {NoType}
    /\ {codec.ts, sync.end} \subseteq 0 .. (TsSpan - 1) /\ logic.noise \in 0 .. MaxNoise
    /\ sync.left \in Nat /\ frame \in Nat
    /\ last_mode \in {"normal", "expand", "merge", "stretched", "unstretched", "rfc3389",
                      "internal", "error"}
    /\ logic.expands \in 0 .. (kReinitAfterExpands + 1)
    /\ logic.hold \in 0 .. kMinTimescaleInterval

\* The packets held and the last one taken, as JitterBuffer knows them.
Jitter == INSTANCE JitterBuffer WITH
              held <- {[n |-> p.n, kind |-> KindOf(p)] : p \in Range(buffer)},
              last <- taken,
              Reach <- 3 * Block

\* What NetEq does with packets is what a jitter buffer may do.
ImplementsJitterBuffer == Jitter!Spec

\* GetAudio always gives a whole block and leaves the overlap ("Should always have
\* overlap samples left"), while those assertions hold.
FullBlocks == asserted => full

\* "The timestamp of the last sample in the buffer": the end timestamp is where the
\* audio decoded last ends, whatever was lost, concealed or stretched.  A decoder
\* taken into use without a restart, after comfort noise, moves it.
EndTrue == follows # Unknown /\ ~follows.unsettled => sync.end = follows.ts

\* "The only valid reason to get kUndefined is that new_codec_ is set", and then
\* there is a packet, but where the packet that brought the new codec is gone.
AssertsKnown == asserted \/ bereft

\* A packet does not stay in the packet buffer for ever.
Buffered(n) == \E p \in Range(buffer) : p.n = n
AllLeave == \A n \in UNION {DOMAIN s : s \in Streams} : Buffered(n) ~> ~Buffered(n)
=============================================================================
