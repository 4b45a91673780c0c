---------------------------- MODULE SampleStream ----------------------------
(***************************************************************************)
(* What pushing a mono stream through a sample-rate converter promises.    *)
(* Source samples are numbered from 0; the first SourceFrames of them are  *)
(* silence that stands before the stream, the n-th call supplies samples   *)
(* n*SourceFrames and up.  Output number j is a weighted sum of the 2*Half *)
(* consecutive source samples around position j*SourceFrames/DestFrames.   *)
(***************************************************************************)
EXTENDS Integers

CONSTANTS SourceFrames,  \* samples a call supplies
          DestFrames,    \* samples a call returns
          HalfKernel     \* half the number of source samples in an output

VARIABLES calls,   \* calls begun
          outs,    \* outputs computed, discarded ones included
          at       \* first source sample the latest output used

streamVars == <<calls, outs, at>>

KernelSize == 2 * HalfKernel

\* The first source sample of output j.
WindowOf(j) == (j * SourceFrames) \div DestFrames - HalfKernel

\* Outputs of the silence, computed and discarded by the first call.
Lead == ((SourceFrames - HalfKernel) * DestFrames) \div SourceFrames

Due(n) == Lead + n * DestFrames

StreamInit == calls = 0 /\ outs = 0 /\ at = -HalfKernel

\* A call begins when everything due is there.
Supply ==
    /\ calls = 0 \/ outs = Due(calls)
    /\ calls' = calls + 1
    /\ UNCHANGED <<outs, at>>

\* An output uses only what was supplied.
Emit ==
    /\ calls > 0 /\ outs < Due(calls)
    /\ WindowOf(outs) + KernelSize <= (calls + 1) * SourceFrames
    /\ outs' = outs + 1
    /\ at' = WindowOf(outs)
    /\ UNCHANGED calls

StreamNext == Supply \/ Emit

StreamSafety == StreamInit /\ [][StreamNext]_streamVars

\* Every call returns all its outputs.
StreamSpec == StreamSafety /\ WF_streamVars(Emit)
=============================================================================
