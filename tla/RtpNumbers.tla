----------------------------- MODULE RtpNumbers -----------------------------
(***************************************************************************)
(* RTP sequence numbers and timestamps, which wrap at SeqSpan and TsSpan   *)
(* (2^16 and 2^32 in the code).                                            *)
(***************************************************************************)
EXTENDS Integers

CONSTANTS SeqSpan, TsSpan

ASSUME SpansAssumption ==
    /\ SeqSpan \in Nat \ {0} /\ SeqSpan % 2 = 0
    /\ TsSpan \in Nat \ {0} /\ TsSpan % 2 = 0

SeqNo(n) == n % SeqSpan
Ts(n) == n % TsSpan

\* The number a ahead of b on a circle of so many.
IsNewer(a, b, span) ==
    /\ a # b
    /\ \/ (a - b) % span < span \div 2
       \/ (a - b) % span = span \div 2 /\ a > b

\* IsNewerSequenceNumber, IsNewerTimestamp
Newer(a, b) == IsNewer(a, b, SeqSpan)
NewerTs(a, b) == IsNewer(a, b, TsSpan)
=============================================================================
