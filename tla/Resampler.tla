----------------------------- MODULE Resampler -----------------------------
(***************************************************************************)
(* webrtc::Resampler (resampler.cc) as operators on one instance.  Push is *)
(* a chain of up to three filters; a filter takes its input in blocks and  *)
(* remembers where the stream stopped.  Audio is abstracted to counts of   *)
(* samples; a stereo instance splits its input over two mono ones.         *)
(***************************************************************************)
EXTENDS Integers, Sequences

-----------------------------------------------------------------------------
(* The filters.  A filter turns each block of `eats` samples into `gives`.  *)
Filter(eats, gives) == [eats |-> eats, gives |-> gives]
UpsampleBy2        == Filter(1, 2)
DownsampleBy2      == Filter(2, 1)
Resample16to48     == Filter(160, 480)
Resample48to16     == Filter(480, 160)
Resample8to22      == Filter(80, 220)
Resample16to22     == Filter(160, 220)
Resample22to16     == Filter(220, 160)
Resample22to8      == Filter(220, 80)

\* UpsampleBy2 and DownsampleBy2 take the length as an int16_t and count down
\* to 0; the others are given one block at a time.
ToInt16(n) == ((n + 32768) % 65536) - 32768
TakesWholeLength(f) == f \in {UpsampleBy2, DownsampleBy2}

\* Samples filter f takes of n: for blocks, the loop's last one may overhang.
BlocksTaken(f, n) ==
    IF TakesWholeLength(f) THEN (IF ToInt16(n) > 0 THEN ToInt16(n) \div f.eats ELSE 0)
                           ELSE (n + f.eats - 1) \div f.eats

-----------------------------------------------------------------------------
(* The modes.  `multiple`: the lengths accepted; `late`: the test comes     *)
(* after the first filter ran; `rooms`: the capacity of each temporary, as  *)
(* <<p, q>> for lengthIn * p / q.  A chain ends in samplesOut.              *)
Mode(multiple, late, chain, rooms) ==
    [multiple |-> multiple, late |-> late, chain |-> chain, rooms |-> rooms]
Plain(multiple, f) == Mode(multiple, FALSE, <<f>>, <<>>)

ModeOf(mode) ==
    CASE mode = <<1, 2>>   -> Plain(1, UpsampleBy2)
      [] mode = <<1, 3>>   -> Plain(160, Resample16to48)
      [] mode = <<1, 4>>   -> Mode(1, FALSE, <<UpsampleBy2, UpsampleBy2>>, <<<<2, 1>>>>)
      [] mode = <<1, 6>>   -> Mode(80, FALSE, <<UpsampleBy2, Resample16to48>>, <<<<2, 1>>>>)
      [] mode = <<1, 12>>  -> Mode(40, FALSE, <<UpsampleBy2, UpsampleBy2, Resample16to48>>,
                                   <<<<12, 1>>, <<4, 1>>>>)
      [] mode = <<2, 3>>   -> Mode(160, FALSE, <<Resample16to48, DownsampleBy2>>, <<<<3, 1>>>>)
      [] mode = <<2, 11>>  -> Mode(80, FALSE, <<UpsampleBy2, Resample8to22>>, <<<<2, 1>>>>)
      [] mode = <<4, 11>>  -> Plain(80, Resample8to22)
      [] mode = <<8, 11>>  -> Plain(160, Resample16to22)
      [] mode = <<11, 16>> -> Mode(110, FALSE, <<UpsampleBy2, Resample22to16>>, <<<<2, 1>>>>)
      [] mode = <<11, 32>> -> Mode(110, FALSE, <<UpsampleBy2, Resample22to16, UpsampleBy2>>,
                                   <<<<32, 11>>, <<2, 1>>>>)
      [] mode = <<2, 1>>   -> Plain(1, DownsampleBy2)
      [] mode = <<3, 1>>   -> Plain(480, Resample48to16)
      [] mode = <<4, 1>>   -> Mode(1, FALSE, <<DownsampleBy2, DownsampleBy2>>, <<<<1, 2>>>>)
      [] mode = <<6, 1>>   -> Mode(480, FALSE, <<Resample48to16, DownsampleBy2>>, <<<<1, 3>>>>)
      [] mode = <<12, 1>>  -> Mode(480, FALSE, <<Resample48to16, DownsampleBy2, DownsampleBy2>>,
                                   <<<<1, 3>>, <<1, 6>>>>)
      [] mode = <<3, 2>>   -> Mode(240, TRUE, <<UpsampleBy2, Resample48to16>>, <<<<2, 1>>>>)
      [] mode = <<11, 2>>  -> Mode(220, FALSE, <<Resample22to8, DownsampleBy2>>, <<<<4, 11>>>>)
      [] mode = <<11, 4>>  -> Plain(220, Resample22to8)
      [] mode = <<11, 8>>  -> Plain(220, Resample22to16)
      [] OTHER             -> Mode(1, FALSE, <<>>, <<>>)   \* kResamplerMode1To1

Modes == { <<1, 1>>, <<1, 2>>, <<1, 3>>, <<1, 4>>, <<1, 6>>, <<1, 12>>, <<2, 3>>,
           <<2, 11>>, <<4, 11>>, <<8, 11>>, <<11, 16>>, <<11, 32>>, <<2, 1>>, <<3, 1>>,
           <<4, 1>>, <<6, 1>>, <<12, 1>>, <<3, 2>>, <<11, 2>>, <<11, 4>>, <<11, 8>> }

-----------------------------------------------------------------------------
(* Construction and reset.                                                  *)
gcd[p \in Nat \X Nat] == IF p[2] = 0 THEN p[1] ELSE gcd[<<p[2], p[1] % p[2]>>]
Reduced(inFreq, outFreq) ==
    LET g == gcd[<<inFreq, outFreq>>] IN <<inFreq \div g, outFreq \div g>>

Stereo(type) == type \in {"SynchronousStereo", "AsynchronousStereo"}
Asynchronous(type) == type \notin {"Synchronous", "SynchronousStereo"}
MonoOf(type) == IF Asynchronous(type) THEN "Asynchronous" ELSE "Synchronous"

kHz(inFreq, outFreq) == <<inFreq \div 1000, outFreq \div 1000>>

\* fed: the samples each filter of the chain has taken since it was reset.
Constructed == [type |-> "Invalid", mode |-> <<1, 1>>, khz |-> <<0, 0>>,
                fed |-> <<>>, slaves |-> <<>>]

\* Slip: the mode is recorded before it is known to be supported.
SlipResetMono(r, inFreq, outFreq, type) ==
    LET ratio == Reduced(inFreq, outFreq)
    IN  [type |-> IF ratio \in Modes THEN type ELSE "Invalid", mode |-> ratio,
         khz |-> kHz(inFreq, outFreq),
         fed |-> IF ratio \in Modes THEN [s \in DOMAIN ModeOf(ratio).chain |-> 0] ELSE <<>>,
         slaves |-> <<>>]

\* A mono instance reset; a failing Reset keeps the mode of the one before.
ResetMono(r, inFreq, outFreq, type) ==
    LET ratio == Reduced(inFreq, outFreq)
        legal == ratio \in Modes
    IN  [type |-> IF legal THEN type ELSE "Invalid",
         mode |-> IF legal THEN ratio ELSE r.mode,
         khz |-> kHz(inFreq, outFreq),
         fed |-> IF legal THEN [s \in DOMAIN ModeOf(ratio).chain |-> 0] ELSE <<>>,
         slaves |-> <<>>]

\* Reset; a stereo one builds its slaves from the reduced rates.
Reset(r, inFreq, outFreq, type) ==
    LET ratio == Reduced(inFreq, outFreq)
        slave == ResetMono(Constructed, ratio[1], ratio[2], MonoOf(type))
    IN  [ResetMono(r, inFreq, outFreq, type) EXCEPT
            !.slaves = IF Stereo(type) THEN <<slave, slave>> ELSE <<>>]

\* Slip: only the input rate and the type are compared.
SlipNeedsReset(r, inFreq, outFreq, type) ==
    inFreq \div 1000 # r.khz[1] \/ type # r.type
NeedsReset(r, inFreq, outFreq, type) ==
    kHz(inFreq, outFreq) # r.khz \/ type # r.type

-----------------------------------------------------------------------------
(* Push.  An outcome: the new state, the result, outLen (0 where it is not  *)
(* set), how many samples were written to samplesOut, and whether every     *)
(* filter found its input and its output inside the buffers.                *)
Outcome(r, ret, outLen, wrote, fits) ==
    [res |-> r, ret |-> ret, outLen |-> outLen, wrote |-> wrote, fits |-> fits]
Rejected(r) == Outcome(r, -1, 0, 0, TRUE)

\* Filter s of the chain, after flow.n samples came out of the one before it,
\* into `room` places.
RunFilter(f, room, flow) ==
    LET blocks == BlocksTaken(f, flow.n)
    IN  [n |-> (flow.n * f.gives) \div f.eats,
         wrote |-> blocks * f.gives,
         took |-> Append(flow.took, blocks * f.eats),
         fits |-> flow.fits /\ blocks * f.eats <= flow.room /\ blocks * f.gives <= room,
         room |-> room]

RoomAfter(m, s, n, maxLen) ==
    IF s = Len(m.chain) THEN maxLen ELSE (n * m.rooms[s][1]) \div m.rooms[s][2]

RunChain(m, n, maxLen, upto) ==
    LET Run[s \in 0 .. Len(m.chain)] ==
            IF s = 0 THEN [n |-> n, wrote |-> n, took |-> <<>>, fits |-> TRUE, room |-> n]
            ELSE RunFilter(m.chain[s], RoomAfter(m, s, n, maxLen), Run[s - 1])
    IN  Run[upto]

Feed(r, took) ==
    [r EXCEPT !.fed = [s \in DOMAIN @ |-> @[s] + IF s \in DOMAIN took THEN took[s] ELSE 0]]

\* What lengthIn samples become: lengthIn * out / in, rounded down; the chains
\* round each step, which comes to the same.
Converted(mode, n) == (n * mode[2]) \div mode[1]

\* Slips: no room test; the block test after the first filter.
SlipPushUnlimited(r, n, maxLen) ==
    LET m == ModeOf(r.mode)
        whole == RunChain(m, n, maxLen, Len(m.chain))
    IN  IF n % m.multiple # 0 THEN Rejected(r)
        ELSE Outcome(Feed(r, whole.took), 0, whole.n, whole.wrote, whole.fits)
SlipPushLate(r, n, maxLen) ==
    LET m == ModeOf(r.mode)
        whole == RunChain(m, n, maxLen, Len(m.chain))
    IN  IF maxLen < Converted(r.mode, n) THEN Rejected(r)
        ELSE IF n % m.multiple # 0 THEN Rejected(Feed(r, RunChain(m, n, maxLen, 1).took))
        ELSE Outcome(Feed(r, whole.took), 0, whole.n, whole.wrote, whole.fits)

PushMono(r, n, maxLen) ==
    LET m == ModeOf(r.mode)
        whole == RunChain(m, n, maxLen, Len(m.chain))
    IN  IF r.mode = <<1, 1>> THEN Outcome(r, 0, n, n, n <= maxLen)
        ELSE IF maxLen < Converted(r.mode, n) THEN Rejected(r)
        ELSE IF n % m.multiple # 0
        THEN IF m.late THEN Rejected(Feed(r, RunChain(m, n, maxLen, 1).took)) ELSE Rejected(r)
        ELSE Outcome(Feed(r, whole.took), 0, whole.n, whole.wrote, whole.fits)

\* Slip: the right channel is told of all the room.
SlipPush(r, n, maxLen) ==
    IF Asynchronous(r.type) THEN Rejected(r)
    ELSE IF ~Stereo(r.type) THEN PushMono(r, n, maxLen)
    ELSE LET left  == PushMono(r.slaves[1], n \div 2, maxLen \div 2)
             right == PushMono(r.slaves[2], n \div 2, maxLen)
             after == [r EXCEPT !.slaves = <<left.res, right.res>>]
         IN  IF left.ret = -1 \/ right.ret = -1 \/ left.outLen # right.outLen
             THEN Rejected(after)
             ELSE Outcome(after, 0, 2 * left.outLen, left.wrote + right.wrote,
                          left.fits /\ right.fits)

Push(r, n, maxLen) ==
    IF Asynchronous(r.type) THEN Rejected(r)
    ELSE IF ~Stereo(r.type) THEN PushMono(r, n, maxLen)
    ELSE LET left  == PushMono(r.slaves[1], n \div 2, maxLen \div 2)
             right == PushMono(r.slaves[2], n \div 2, maxLen \div 2)
             after == [r EXCEPT !.slaves = <<left.res, right.res>>]
         IN  IF left.ret = -1 \/ right.ret = -1 \/ left.outLen # right.outLen
             THEN Rejected(after)
             ELSE Outcome(after, 0, 2 * left.outLen, left.wrote + right.wrote,
                          left.fits /\ right.fits)
=============================================================================
