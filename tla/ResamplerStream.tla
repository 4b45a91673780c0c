-------------------------- MODULE ResamplerStream --------------------------
(***************************************************************************)
(* A client of one webrtc::Resampler: it resets it to the rates of the     *)
(* stream it is about to push, always or only "if needed", and pushes      *)
(* buffers of any length with any room for the output.                     *)
(***************************************************************************)
EXTENDS Resampler

CONSTANTS Rates,     \* the <<inFreq, outFreq>> pairs the client asks for
          Types,     \* the resampler types
          Lengths,   \* lengthIn
          Rooms,     \* maxLen
          MaxFed     \* bound: samples accepted since the last reset

ASSUME RatesAssumption == \A p \in Rates : p[1] \in Nat \ {0} /\ p[2] \in Nat \ {0}
ASSUME LengthsAssumption == Lengths \subseteq Nat /\ Rooms \subseteq Nat /\ MaxFed \in Nat

VARIABLES r,         \* the instance
          asked,     \* the rates the client last asked for
          accepted,  \* samples accepted since the instance was last reset
          last       \* the latest call

vars == <<r, asked, accepted, last>>

Lengthless == [call |-> "none", n |-> 0, room |-> 0, ret |-> 0, outLen |-> 0,
               wrote |-> 0, fits |-> TRUE]

ResamplerTypes == {"Synchronous", "Asynchronous", "SynchronousStereo",
                   "AsynchronousStereo", "Invalid"}

TypeOK ==
    /\ r.type \in ResamplerTypes /\ r.mode \in Modes
    /\ r.slaves = <<>> \/ Len(r.slaves) = 2
    /\ \A s \in DOMAIN r.fed : r.fed[s] \in Nat
    /\ accepted \in Nat /\ last.outLen \in Nat /\ last.ret \in {0, -1}

Init ==
    /\ r = Constructed /\ asked = <<1, 1>> /\ accepted = 0 /\ last = Lengthless

DoReset(inFreq, outFreq, type) ==
    /\ r' = Reset(r, inFreq, outFreq, type)
    /\ asked' = <<inFreq, outFreq>> /\ accepted' = 0
    /\ last' = [Lengthless EXCEPT !.call = "Reset",
                                  !.ret = IF r'.type = "Invalid" THEN -1 ELSE 0]

DoResetIfNeeded(inFreq, outFreq, type) ==
    IF NeedsReset(r, inFreq, outFreq, type)
    THEN DoReset(inFreq, outFreq, type)
    ELSE /\ asked' = <<inFreq, outFreq>>
         /\ last' = [Lengthless EXCEPT !.call = "ResetIfNeeded"]
         /\ UNCHANGED <<r, accepted>>

Channels == IF r.slaves = <<>> THEN <<r>> ELSE r.slaves

\* The bound; the filters may take samples of calls that fail.
Bounded(n) ==
    /\ accepted + n <= MaxFed
    /\ \A c \in DOMAIN Channels : \A s \in DOMAIN Channels[c].fed :
          Channels[c].fed[s] <= 12 * MaxFed

DoPush(n, room) ==
    LET o == Push(r, n, room)
    IN  /\ Bounded(n)
        /\ r' = o.res
        /\ accepted' = accepted + IF o.ret = 0 THEN n ELSE 0
        /\ last' = [call |-> "Push", n |-> n, room |-> room, ret |-> o.ret,
                    outLen |-> o.outLen, wrote |-> o.wrote, fits |-> o.fits]
        /\ UNCHANGED asked

Next ==
    \/ \E p \in Rates, t \in Types : \/ DoReset(p[1], p[2], t)
                                     \/ DoResetIfNeeded(p[1], p[2], t)
    \/ \E n \in Lengths, room \in Rooms : DoPush(n, room)

Spec == Init /\ [][Next]_vars

-----------------------------------------------------------------------------
\* The samples the chain's first filters pass on, out of n that came in.
Passed(mode, s, n) ==
    LET Through[k \in 0 .. Len(ModeOf(mode).chain)] ==
            IF k = 0 THEN n
            ELSE LET f == ModeOf(mode).chain[k] IN (Through[k - 1] * f.gives) \div f.eats
    IN  Through[s - 1]

\* Every filter of every channel has taken exactly the samples the calls that
\* succeeded brought: a call that fails does not move the filters, and a call
\* that succeeds does not skip any of them.  In mode 3:2, which tests the length
\* late, a rejected push moves the first filter alone.
FiltersInStep ==
    \A c \in DOMAIN Channels :
        LET x == Channels[c]
            brought(s) == Passed(x.mode, s, accepted \div Len(Channels))
        IN  \A s \in DOMAIN x.fed :
                x.fed[s] = brought(s) \/ (ModeOf(x.mode).late /\ s = 1 /\ x.fed[s] > brought(s))

\* The two filters of a stereo instance stand at the same sample, whatever was
\* accepted, rejected or reset, so that left and right stay aligned.
ChannelsAligned == Len(Channels) = 2 => r.slaves[1] = r.slaves[2]

\* No filter reads past what it was given or writes past its destination, for
\* any mode, length and room: the block tests and capacity tests suffice.
FitsBuffers == last.call = "Push" => last.fits

\* resampler.h says of Push: "Synchronous resampling, all output samples are
\* written to samplesOut".  outLen of them, the converted length.
AllWritten ==
    last.call = "Push" /\ last.ret = 0 =>
        /\ last.outLen = last.wrote
        /\ last.outLen = Len(Channels) * Converted(Reduced(asked[1], asked[2]),
                                                   last.n \div Len(Channels))

\* A Push gives all its output and touches no more.
WritesAll == FitsBuffers /\ AllWritten

\* Push succeeds only under the ratio last asked for, and only when that ratio
\* is one the class supports.  resampler.h says of ResetIfNeeded: "Reset all
\* states if any parameter has changed".
UnderTheRatioAsked ==
    last.call = "Push" /\ last.ret = 0 =>
        \A c \in DOMAIN Channels : Channels[c].mode = Reduced(asked[1], asked[2])
=============================================================================
