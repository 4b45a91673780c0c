--------------------------- MODULE SincResampler ---------------------------
(***************************************************************************)
(* PushSincResampler over SincResampler: one channel of one resampler fed  *)
(* SourceFrames samples per call.  The ring of input samples, the region   *)
(* pointers, the priming pass and the virtual index are those of the code; *)
(* a sample is the number of the source sample it holds, and the index is  *)
(* kept exactly, in units of 1/DestFrames of a sample (the code's double   *)
(* is io_sample_rate_ratio_ = SourceFrames / DestFrames times as coarse).  *)
(***************************************************************************)
EXTENDS Integers

CONSTANTS SourceFrames, DestFrames, HalfKernel,
          MaxCalls   \* bound: calls to Resample

\* The constructor asserts request_frames_ > 0 and block_size_ > kKernelSize.
ASSUME SizesAssumption ==
    /\ SourceFrames \in Nat /\ DestFrames \in Nat /\ HalfKernel \in Nat \ {0}
    /\ SourceFrames - HalfKernel > 2 * HalfKernel
    /\ DestFrames > 1
ASSUME MaxCallsAssumption == MaxCalls \in Nat

VARIABLES
    pc,          \* where the call is: "idle", "prime", "block", "convolve"
    calls,       \* calls to PushSincResampler::Resample begun
    stage,       \* which SincResampler::Resample: "lead" (discarded), "real"
    remaining,   \* remaining_frames
    i,           \* the for loop's i
    r0,          \* r0_ as an index into the buffer
    buf,         \* input_buffer_: the source sample each place holds
    v,           \* virtual_source_idx_ * DestFrames
    primed,      \* buffer_primed_
    first_pass,  \* first_pass_
    available,   \* source_available_
    runs,        \* history: Run() callbacks that took the caller's samples
    outs,        \* history: outputs computed
    window       \* history: the places the latest output read

vars == <<pc, calls, stage, remaining, i, r0, buf, v, primed, first_pass,
          available, runs, outs, window>>

kKernelSize == 2 * HalfKernel
Places == 0 .. (SourceFrames + kKernelSize - 1)

\* Regions, all determined by r0_ (r1_ is place 0, r2_ place HalfKernel).
r2 == HalfKernel
\* Slip: the region to carry over starts one sample late.
SlipR3 == r0 + SourceFrames - kKernelSize + 1
r3 == r0 + SourceFrames - kKernelSize
r4 == r0 + SourceFrames - HalfKernel
block_size == r4 - r2

Silence(n) == n - HalfKernel
Blank == -(4 * SourceFrames + 4 * HalfKernel)

\* ceil((block_size_ - virtual_source_idx_) / ratio)
Ceil(a, b) == -((-a) \div b)
StepsInBlock == Ceil(block_size * DestFrames - v, SourceFrames)

\* Slip: the discarded pass asks for a whole call's worth.
SlipChunkSize == DestFrames

\* ChunkSize()
ChunkSize == (block_size * DestFrames) \div SourceFrames

TypeOK ==
    /\ pc \in {"idle", "prime", "block", "convolve"}
    /\ calls \in Nat /\ runs \in Nat /\ outs \in Nat
    /\ stage \in {"lead", "real"} /\ remaining \in Nat /\ i \in Int
    /\ r0 \in {HalfKernel, kKernelSize}
    /\ buf \in [Places -> Int]
    /\ v \in Int /\ available \in Int
    /\ primed \in BOOLEAN /\ first_pass \in BOOLEAN
    /\ window \in [first : Int, size : Nat, gapless : BOOLEAN]

\* Flush() and the constructors.
Init ==
    /\ pc = "idle" /\ calls = 0 /\ stage = "real" /\ remaining = 0 /\ i = 0
    /\ r0 = HalfKernel
    /\ buf = [n \in Places |-> IF n < HalfKernel THEN Silence(n) ELSE Blank]
    /\ v = 0 /\ primed = FALSE /\ first_pass = TRUE /\ available = 0
    /\ runs = 0 /\ outs = 0
    /\ window = [first |-> -HalfKernel, size |-> kKernelSize, gapless |-> TRUE]

\* Slip: no discarded pass; the caller gets the dummy input's outputs.
SlipPush ==
    /\ pc = "idle" /\ calls < MaxCalls
    /\ calls' = calls + 1
    /\ available' = SourceFrames
    /\ stage' = "real" /\ remaining' = DestFrames
    /\ pc' = "prime"
    /\ UNCHANGED <<i, r0, buf, v, primed, first_pass, runs, outs, window>>

\* PushSincResampler::Resample up to its first call of SincResampler's.
Push ==
    /\ pc = "idle" /\ calls < MaxCalls
    /\ calls' = calls + 1
    /\ available' = SourceFrames
    /\ IF first_pass THEN stage' = "lead" /\ remaining' = ChunkSize
                     ELSE stage' = "real" /\ remaining' = DestFrames
    /\ pc' = "prime"
    /\ UNCHANGED <<i, r0, buf, v, primed, first_pass, runs, outs, window>>

\* PushSincResampler::Run(SourceFrames, b + place `to`), filling buffer b.
\* Dummy input stands for source samples 0 to SourceFrames - 1.
Fill(b, to) ==
    LET from == (IF first_pass THEN 0 ELSE calls) * SourceFrames
    IN  /\ buf' = [n \in Places |-> IF n \in to .. (to + SourceFrames - 1)
                                    THEN from + (n - to) ELSE b[n]]
        /\ first_pass' = FALSE
        /\ IF first_pass THEN UNCHANGED <<available, runs>>
           ELSE available' = available - SourceFrames /\ runs' = runs + 1

\* Step (1) of SincResampler::Resample.
Prime ==
    /\ pc = "prime"
    /\ IF ~primed /\ remaining > 0
       THEN primed' = TRUE /\ Fill(buf, r0)
       ELSE UNCHANGED <<primed, first_pass, buf, available, runs>>
    /\ pc' = "block"
    /\ UNCHANGED <<calls, stage, remaining, i, r0, v, outs, window>>

\* SincResampler::Resample returns: the first pass goes on to the real call.
Return ==
    IF stage = "lead" THEN stage' = "real" /\ remaining' = DestFrames /\ pc' = "prime"
                      ELSE stage' = stage /\ remaining' = 0 /\ pc' = "idle"

\* The head of the while loop: enter the for loop, or return.
Block ==
    /\ pc = "block"
    /\ IF remaining = 0 THEN Return /\ i' = i
       ELSE i' = StepsInBlock /\ pc' = "convolve" /\ UNCHANGED <<stage, remaining>>
    /\ UNCHANGED <<calls, r0, buf, v, primed, first_pass, available, runs, outs,
                   window>>

\* One turn of the for loop (Step 2).
Convolve ==
    LET source_idx == v \div DestFrames
        first == IF source_idx \in Places THEN buf[source_idx] ELSE Blank
    IN  /\ pc = "convolve" /\ i > 0
        /\ window' = [first |-> first, size |-> kKernelSize,
                      gapless |-> \A n \in 0 .. (kKernelSize - 1) :
                                     /\ source_idx + n \in Places
                                     /\ buf[source_idx + n] = first + n]
        /\ outs' = outs + 1
        /\ v' = v + SourceFrames
        /\ i' = i - 1
        /\ IF remaining = 1 THEN Return
           ELSE remaining' = remaining - 1 /\ UNCHANGED <<stage, pc>>
        /\ UNCHANGED <<calls, r0, buf, primed, first_pass, available, runs>>

\* Slip: the regions slide at every wrap, not only at the first.
SlipWrapSlides ==
    /\ pc = "convolve" /\ i <= 0
    /\ v' = v - block_size * DestFrames
    /\ r0' = r0 + HalfKernel
    /\ Fill([n \in Places |-> IF n < kKernelSize THEN buf[r3 + n] ELSE buf[n]], r0')
    /\ pc' = "block"
    /\ UNCHANGED <<calls, stage, remaining, i, primed, outs, window>>

\* Slip: the wrap drops the fraction of the index.
SlipWrapPhase ==
    /\ pc = "convolve" /\ i <= 0
    /\ v' = ((v - block_size * DestFrames) \div DestFrames) * DestFrames
    /\ r0' = IF r0 = r2 THEN kKernelSize ELSE r0
    /\ Fill([n \in Places |-> IF n < kKernelSize THEN buf[r3 + n] ELSE buf[n]], r0')
    /\ pc' = "block"
    /\ UNCHANGED <<calls, stage, remaining, i, primed, outs, window>>

\* The rest of the while loop: wrap, slide the regions once, refill.
Wrap ==
    /\ pc = "convolve" /\ i <= 0
    /\ v' = v - block_size * DestFrames
    /\ r0' = IF r0 = r2 THEN kKernelSize ELSE r0
    /\ Fill([n \in Places |-> IF n < kKernelSize THEN buf[r3 + n] ELSE buf[n]], r0')
    /\ pc' = "block"
    /\ UNCHANGED <<calls, stage, remaining, i, primed, outs, window>>

Step == Prime \/ Block \/ Convolve \/ Wrap
Next == Push \/ Step

\* A call runs to its end in the caller's thread.
Spec == Init /\ [][Next]_vars /\ WF_vars(Step)

-----------------------------------------------------------------------------
\* The two assertions of the code that the arguments do not settle: the index
\* is inside the block whenever an output is computed, and Run() is asked for
\* exactly what the caller made available.
AssertionsHold ==
    /\ pc = "convolve" /\ i > 0 => v < block_size * DestFrames
    /\ \/ pc = "prime" /\ ~primed /\ remaining > 0
       \/ pc = "convolve" /\ i <= 0
       => available = SourceFrames

\* Every output reads kKernelSize consecutive source samples: the wrap of the
\* buffer and the slide of the regions lose, repeat or tear no sample.
Gapless == window.gapless

\* A call takes the caller's samples exactly once.
OneRunPerCall == pc = "idle" => runs = calls

\* The phase: output j stands at exactly j * SourceFrames / DestFrames, however
\* calls cut the stream; no drift, however long the stream.
NoDrift ==
    outs > 0 => window.first
                  = ((outs - 1) * SourceFrames) \div DestFrames - HalfKernel

-----------------------------------------------------------------------------
(* Why it works.  The lead-in stops Slack short of the end of the first     *)
(* block, less than one output; from then on every call begins there, so    *)
(* that it computes at most one output before it must refill, and then has  *)
(* all it needs for the others.                                             *)
Lead  == ((SourceFrames - HalfKernel) * DestFrames) \div SourceFrames
Slack == (SourceFrames - HalfKernel) * DestFrames - Lead * SourceFrames
Early == IF Slack > 0 THEN 1 ELSE 0

\* The source sample that place 0 holds.
Base == IF runs = 0 THEN -HalfKernel ELSE runs * SourceFrames - kKernelSize

RegionsInv == r0 = IF runs = 0 THEN HalfKernel ELSE kKernelSize

BufferInv ==
    \A n \in Places :
        n < (IF primed THEN r0 + SourceFrames ELSE HalfKernel) => buf[n] = Base + n

PhaseInv == v = block_size * DestFrames
                  + (outs - Lead - runs * DestFrames) * SourceFrames - Slack

IdleInv ==
    /\ stage = "real" /\ remaining = 0
    /\ \/ calls = 0 /\ ~primed
       \/ calls > 0 /\ primed /\ runs = calls /\ outs = Lead + calls * DestFrames

LeadInv ==
    /\ calls = 1 /\ runs = 0 /\ available = SourceFrames
    /\ remaining \in 1 .. Lead /\ outs = Lead - remaining
    /\ primed <=> pc # "prime"
    /\ pc = "convolve" => i = remaining + Early

\* A real call before and after it took the caller's samples.
FreshInv ==
    /\ runs = calls - 1 /\ available = SourceFrames
    /\ \/ remaining = DestFrames /\ (pc = "convolve" => i = Early)
       \/ remaining = DestFrames - 1 /\ pc = "convolve" /\ i = 0 /\ Early = 1
TakenInv ==
    /\ runs = calls /\ pc # "prime"
    /\ remaining \in 1 .. (DestFrames - Early)
    /\ pc = "convolve" => i = remaining + Early
RealInv ==
    /\ calls > 0 /\ primed /\ outs = Lead + calls * DestFrames - remaining
    /\ FreshInv \/ TakenInv

IInv ==
    /\ first_pass <=> ~primed
    /\ ~primed => runs = 0 /\ outs = 0
    /\ RegionsInv /\ BufferInv /\ PhaseInv
    /\ pc = "idle" => IdleInv
    /\ pc # "idle" /\ stage = "lead" => LeadInv
    /\ pc # "idle" /\ stage = "real" => RealInv

-----------------------------------------------------------------------------
\* The chain implements the stream of SampleStream: it neither reads ahead of
\* what was supplied, nor skips or repeats an output, and every call returns.
Stream == INSTANCE SampleStream WITH at <- window.first
ImplementsStream == Stream!StreamSpec
=============================================================================
