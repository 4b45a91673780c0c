--------------------------- MODULE PushResampler ---------------------------
(***************************************************************************)
(* webrtc::PushResampler<T> (push_resampler.cc) as operators on one        *)
(* instance: one or two PushSincResamplers behind an interleaved 10 ms     *)
(* call.  The inside of a PushSincResampler is module SincResampler; here  *)
(* it is its two frame sizes, who made it and the calls it has served.     *)
(***************************************************************************)
EXTENDS Integers

kKernel == 32

NoSinc == [source |-> 0, destination |-> 0, made |-> 0, calls |-> 0]

\* The constructor of SincResampler asserts block_size_ > kKernelSize, where
\* block_size_ is source_frames less half a kernel.
SincAsserts(source) == source > 0 /\ source - kKernel \div 2 > kKernel

\* made: the number of the InitializeIfNeeded that made it.
NewSinc(src, dst, made) ==
    [source |-> src \div 100, destination |-> dst \div 100, made |-> made, calls |-> 0]

NewPushResampler ==
    [src |-> 0, dst |-> 0, channels |-> 0, made |-> 0, left |-> NoSinc, right |-> NoSinc]

\* Slips: channels are not compared; a right resampler that exists is kept.
SlipSame(p, src, dst, channels) == p.src = src /\ p.dst = dst
SlipRight(p, src, dst, channels) ==
    IF channels = 2 /\ p.right = NoSinc THEN NewSinc(src, dst, p.made + 1) ELSE p.right

Same(p, src, dst, channels) == p.src = src /\ p.dst = dst /\ p.channels = channels

\* A mono stream leaves the right resampler of an earlier stereo one behind.
Right(p, src, dst, channels) ==
    IF channels = 2 THEN NewSinc(src, dst, p.made + 1) ELSE p.right

\* An outcome: the instance, and the value returned.
InitializeIfNeeded(p, src, dst, channels) ==
    IF Same(p, src, dst, channels) THEN [p |-> p, ret |-> 0]
    ELSE IF src <= 0 \/ dst <= 0 \/ channels \notin 1..2 THEN [p |-> p, ret |-> -1]
    ELSE [p |-> [src |-> src, dst |-> dst, channels |-> channels, made |-> p.made + 1,
                 left |-> NewSinc(src, dst, p.made + 1),
                 right |-> Right(p, src, dst, channels)],
          ret |-> 0]

Served(sinc) == [sinc EXCEPT !.calls = @ + 1]

\* One 10 ms call: n interleaved samples in, room for `room` out.
Resample(p, n, room) ==
    IF n # (p.src * p.channels) \div 100 \/ room < (p.dst * p.channels) \div 100
    THEN [p |-> p, ret |-> -1]
    ELSE IF p.src = p.dst THEN [p |-> p, ret |-> n]
    ELSE IF p.channels = 2
    THEN [p |-> [p EXCEPT !.left = Served(@), !.right = Served(@)],
          ret |-> 2 * p.left.destination]
    ELSE [p |-> [p EXCEPT !.left = Served(@)], ret |-> p.left.destination]
=============================================================================
