---------------------------- MODULE ResamplerApi ----------------------------
(***************************************************************************)
(* The resampler half of capi.cc under the JNI functions: one handle, made *)
(* over a webrtc::Resampler or a PushResampler, fed by Resampler.Push of   *)
(* the Java class.  Handles share nothing, so one is enough.               *)
(***************************************************************************)
EXTENDS Resampler

P == INSTANCE PushResampler

CONSTANTS MonoRates,      \* <<inFreq, outFreq>> given to create_audio_resampler
          StereoRates,    \* and to create_audio_stereo_resampler
          ChannelCounts,  \* with these channels
          PushLengths,    \* lengths of the arrays pushed
          MaxPushes       \* bound: pushes to a handle

\* A stereo handle for a rate below 4900 Hz would stop the process at the
\* assertion of SincResampler's constructor.
ASSUME HandleRatesAssumption ==
    /\ \A p \in MonoRates \cup StereoRates : p[1] \in Nat \ {0} /\ p[2] \in Nat \ {0}
    /\ \A p \in StereoRates : P!SincAsserts(p[1] \div 100)
ASSUME PushLengthsAssumption == PushLengths \subseteq Nat /\ MaxPushes \in Nat

VARIABLES handle,  \* audio_resampler_t: rates, channels, and what ptr or ptr2 leads to
          pushes,  \* history: pushes to it so far
          latest   \* the latest PushSample

api_vars == <<handle, pushes, latest>>

NULL == -1   \* no array is returned

NoHandle == [kind |-> "none", in |-> 1, out |-> 1, channels |-> 0,
             ptr |-> Constructed, ptr2 |-> P!NewPushResampler]

Quiet == [n |-> 0, array |-> NULL]

ApiInit == handle = NoHandle /\ pushes = 0 /\ latest = Quiet

Fresh(h) ==
    /\ handle = NoHandle
    /\ handle' = h /\ pushes' = 0 /\ latest' = Quiet

create_audio_resampler(in, out) ==
    Fresh([NoHandle EXCEPT !.kind = "mono", !.in = in, !.out = out, !.channels = -1,
              !.ptr = Reset(Constructed, in, out, "Synchronous")])

\* What InitializeIfNeeded returns is ignored.
create_audio_stereo_resampler(in, out, channels) ==
    Fresh([NoHandle EXCEPT !.kind = "stereo", !.in = in, !.out = out,
              !.channels = channels,
              !.ptr2 = P!InitializeIfNeeded(P!NewPushResampler, in, out, channels).p])

destroy_audio_resampler ==
    /\ handle # NoHandle
    /\ handle' = NoHandle /\ pushes' = 0 /\ latest' = Quiet

\* Slip: the ratio is rounded down.
SlipOutputMultiple(in, out) == IF out \div in = 0 THEN 1 ELSE out \div in

\* get_audio_resampler_output_multiple: int(out / in + 0.5), at least 1.
OutputMultiple(in, out) ==
    LET value == (2 * out + in) \div (2 * in) IN IF value = 0 THEN 1 ELSE value

\* push_audio_resampler; *outLen keeps the caller's 0 where it is not assigned.
push_audio_resampler(h, n, maxLen) ==
    IF h.kind = "mono"
    THEN LET o == Push(h.ptr, n, maxLen)
         IN  [h |-> [h EXCEPT !.ptr = o.res], ret |-> o.ret, outLen |-> o.outLen]
    ELSE LET o == P!Resample(h.ptr2, n, maxLen)
         IN  [h |-> [h EXCEPT !.ptr2 = o.p], ret |-> IF o.ret > 0 THEN 0 ELSE o.ret,
              outLen |-> IF o.ret > 0 THEN o.ret ELSE 0]

\* Jni PushSample, then Resampler.Push.
PushSample(n) ==
    LET maxOutLen == OutputMultiple(handle.in, handle.out) * n
    IN  /\ handle # NoHandle /\ pushes < MaxPushes
        /\ pushes' = pushes + 1
        /\ \/ /\ maxOutLen <= 0
              /\ latest' = [Quiet EXCEPT !.n = n]
              /\ UNCHANGED handle
           \/ /\ maxOutLen > 0
              /\ \E o \in {push_audio_resampler(handle, n, maxOutLen)} :
                    /\ handle' = o.h
                    /\ latest' = [n |-> n,
                                  array |-> IF o.ret = 0 THEN o.outLen ELSE NULL]

ApiNext ==
    \/ \E p \in MonoRates : create_audio_resampler(p[1], p[2])
    \/ \E p \in StereoRates, c \in ChannelCounts :
          create_audio_stereo_resampler(p[1], p[2], c)
    \/ \E n \in PushLengths : PushSample(n)
    \/ destroy_audio_resampler

ApiSpec == ApiInit /\ [][ApiNext]_api_vars

-----------------------------------------------------------------------------
\* The lengths a handle is documented to take: whole blocks of its mode for the
\* mono resampler (none for a ratio it does not know), 10 ms for the other (none
\* when its parameters were refused).
TakesLength(h, n) ==
    IF h.kind = "mono"
    THEN h.ptr.type = "Synchronous" /\ n % ModeOf(h.ptr.mode).multiple = 0
    ELSE h.channels \in 1..2 /\ n = (h.in * h.channels) \div 100

\* The multiple is no less than the ratio: rounded to nearest it is only where
\* the ratio is below one, whole, or its fraction is a half or more.
RoundsUp(in, out) == out <= in \/ out % in = 0 \/ 2 * (out % in) >= in

\* PushSample returns an array exactly for the lengths the handle takes, whatever
\* the two rates, unless their ratio is one the multiple rounds down: then there is
\* never room, and no array.  The array holds the whole converted block, and a
\* failure is never passed off as audio.
LegalLengthsServed ==
    latest.n > 0 =>
        /\ (latest.array # NULL) <=> /\ TakesLength(handle, latest.n)
                                     /\ RoundsUp(handle.in, handle.out)
        /\ latest.array # NULL => latest.array = (latest.n * handle.out) \div handle.in
=============================================================================
