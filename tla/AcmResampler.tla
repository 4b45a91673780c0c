---------------------------- MODULE AcmResampler ----------------------------
(***************************************************************************)
(* ACMResampler (acm_resampler.cc): the audio coding module's resampler,   *)
(* one PushResampler reconfigured on the fly as the stream's rate and its  *)
(* number of channels change from one 10 ms block to the next.             *)
(* Its own names for Init, Next and Spec let one module of proofs extend   *)
(* this and SincResampler.                                                 *)
(***************************************************************************)
EXTENDS PushResampler

CONSTANTS InRates, OutRates,   \* in_freq_hz and out_freq_hz
          Capacities,          \* out_capacity_samples
          MaxMade, MaxServed   \* bounds: reconfigurations, calls between them

\* SincAsserts: no rate here stops the process in SincResampler's constructor.
ASSUME RatesAssumption ==
    /\ InRates \subseteq Nat \ {0} /\ OutRates \subseteq Nat \ {0}
    /\ \A in \in InRates : SincAsserts(in \div 100)
ASSUME BoundsAssumption == Capacities \subseteq Nat /\ MaxMade \in Nat /\ MaxServed \in Nat

VARIABLES resampler,  \* resampler_
          block       \* the latest call: what was asked, what was returned, and
                      \* the resampler it found

acm_vars == <<resampler, block>>

AcmInit ==
    /\ resampler = NewPushResampler
    /\ block = [in |-> 0, out |-> 0, channels |-> 1, room |-> 0, ret |-> 0,
                found |-> NewPushResampler]

\* Resample10Msec
Resample10Msec(in, out, channels, room) ==
    LET in_length == (in * channels) \div 100
        ready == InitializeIfNeeded(resampler, in, out, channels)
        o == Resample(ready.p, in_length, room)
        Returns(ret) ==
            block' = [in |-> in, out |-> out, channels |-> channels, room |-> room,
                      ret |-> ret, found |-> resampler]
    IN  /\ ready.p.made <= MaxMade /\ ready.p.left.calls < MaxServed
        /\ IF in = out
           THEN /\ room >= in_length   \* assert(false) otherwise
                /\ UNCHANGED resampler
                /\ Returns(in_length \div channels)
           ELSE IF ready.ret # 0 THEN resampler' = ready.p /\ Returns(-1)
           ELSE /\ resampler' = o.p
                /\ Returns(IF o.ret = -1 THEN -1 ELSE o.ret \div channels)

AcmNext == \E in \in InRates, out \in OutRates, channels \in 1..2, room \in Capacities :
            Resample10Msec(in, out, channels, room)

AcmSpec == AcmInit /\ [][AcmNext]_acm_vars

-----------------------------------------------------------------------------
\* A block with room for its output is always served, whatever was asked for
\* just before it, and gives 10 ms at the rate asked for.
BlockServed ==
    block.room >= (block.out * block.channels) \div 100 =>
        block.ret = block.out \div 100

\* While the stream is stereo, the two PushSincResamplers were made by the same
\* call, for the same rates, and have served the same blocks: switching between
\* mono and stereo and between rates never leaves the right channel behind.
ChannelsInStep == resampler.channels = 2 => resampler.left = resampler.right

\* A new stream, or one that changed rate or channel count, starts from new
\* resamplers; one that did not keeps the ones it has.
FilterKept ==
    block.in # block.out /\ resampler.channels # 0 =>
        LET same == /\ block.found.src = block.in /\ block.found.dst = block.out
                    /\ block.found.channels = block.channels
        IN  resampler.left.calls = (IF same THEN block.found.left.calls ELSE 0)
                                   + (IF block.ret = -1 THEN 0 ELSE 1)
=============================================================================
