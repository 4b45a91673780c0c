------------------------ MODULE RtpNumbers_proofs ------------------------
(***************************************************************************)
(* Theorems about the order of RTP numbers, for circles of any size.       *)
(***************************************************************************)
EXTENDS RtpNumbers, TLAPS

-----------------------------------------------------------------------------
(* Places on a circle.                                                      *)

\* A number is known by how often it went round and where it stopped.
LEMMA Places ==
    ASSUME NEW span \in Nat \ {0}, NEW n \in Int
    PROVE  /\ n % span \in 0 .. (span - 1) /\ n \div span \in Int
           /\ n = span * (n \div span) + (n % span)
           /\ \A k \in Int, z \in 0 .. (span - 1) : (span * k + z) % span = z
BY SMT

LEMMA Within == ASSUME NEW span \in Nat \ {0}, NEW z \in 0 .. (span - 1) PROVE z % span = z
BY SMT

\* Going on from a place is going on from any number that stopped there.
LEMMA GoesOn ==
    ASSUME NEW span \in Nat \ {0}, NEW n \in Int, NEW d \in Int
    PROVE  ((n % span) + d) % span = (n + d) % span
<1> DEFINE q == n \div span
           y == n % span
           k == (y + d) \div span
           z == (y + d) % span
<1>1. q \in Int /\ y \in 0 .. (span - 1) /\ n = span * q + y
  BY Places
<1>2. y + d \in Int
  BY <1>1
<1>3. k \in Int /\ z \in 0 .. (span - 1) /\ y + d = span * k + z
  BY <1>2, Places
<1>4. \A j \in Int, x \in 0 .. (span - 1) : (span * j + x) % span = x
  BY Places
<1> HIDE DEF q, y, k
<1> SUFFICES (n + d) % span = z
  BY DEF y
<1> HIDE DEF z
<1>5. n + d = span * (q + k) + z
  BY <1>1, <1>3
<1>6. q + k \in Int
  BY <1>1, <1>3
<1> QED
  BY <1>3, <1>4, <1>5, <1>6

\* Less than a circle apart, the way from one place to the other is known.
LEMMA Between ==
    ASSUME NEW span \in Nat \ {0}, NEW a \in Int, NEW b \in Int, a - b \in 0 .. (span - 1)
    PROVE  ((a % span) - (b % span)) % span = a - b
<1> DEFINE q == b \div span
           y == b % span
<1>1. q \in Int /\ y \in 0 .. (span - 1) /\ b = span * q + y
  BY Places
<1>2. \A k \in Int, z \in 0 .. (span - 1) : (span * k + z) % span = z
  BY Places
<1>3. a % span \in Int
  BY Places
<1> HIDE DEF q
<1> SUFFICES ((a % span) - y) % span = a - b
  OBVIOUS
<1> HIDE DEF y
<1>4. ((a % span) + (-y)) % span = (a + (-y)) % span
  <2>1. -y \in Int
    BY <1>1
  <2> QED
    BY <2>1, GoesOn
<1>5. a + (-y) = span * q + (a - b)
  BY <1>1
<1>6. (a % span) - y = (a % span) + (-y)
  BY <1>1, <1>3
<1> QED
  BY <1>1, <1>2, <1>4, <1>5, <1>6

-----------------------------------------------------------------------------
(* The order of numbers.                                                    *)

\* Of the distances from one number to another and back, each is what the other
\* leaves of the circle.
LEMMA Distances ==
    ASSUME NEW span \in Nat \ {0}, NEW a \in 0 .. (span - 1), NEW b \in 0 .. (span - 1), a # b
    PROVE  /\ (a - b) % span = IF a > b THEN a - b ELSE a - b + span
           /\ (b - a) % span = IF b > a THEN b - a ELSE b - a + span
OBVIOUS

\* Of two different numbers exactly one is newer, half a circle apart and across
\* a wrap included: what the NACK list, the delay manager and NetEq order their
\* packets by never answers both ways, nor neither way.
LEMMA OneIsNewer ==
    ASSUME NEW span \in Nat \ {0}, span % 2 = 0,
           NEW a \in 0 .. (span - 1), NEW b \in 0 .. (span - 1), a # b
    PROVE  IsNewer(a, b, span) <=> ~IsNewer(b, a, span)
<1> DEFINE half == span \div 2
<1>1. half \in Nat /\ span = 2 * half
  OBVIOUS
<1> HIDE DEF half
<1>2. CASE a > b
  BY <1>1, <1>2, Distances DEF IsNewer, half
<1>3. CASE b > a
  BY <1>1, <1>3, Distances DEF IsNewer, half
<1> QED
  BY <1>2, <1>3

THEOREM NumbersOrdered ==
    /\ \A a, b \in 0 .. (SeqSpan - 1) : a # b => (Newer(a, b) <=> ~Newer(b, a))
    /\ \A a, b \in 0 .. (TsSpan - 1) : a # b => (NewerTs(a, b) <=> ~NewerTs(b, a))
BY OneIsNewer, SpansAssumption DEF Newer, NewerTs

\* A step of less than a circle is taken whole, or wraps once.
LEMMA WrapsOnce ==
    ASSUME NEW span \in Nat \ {0}, NEW n \in Int, NEW d \in 0 .. (span - 1)
    PROVE  /\ n % span \in 0 .. (span - 1)
           /\ (n + d) % span = IF (n % span) + d < span THEN (n % span) + d
                               ELSE (n % span) + d - span
<1> DEFINE q == n \div span
           y == n % span
<1>1. q \in Int /\ y \in 0 .. (span - 1) /\ n = span * q + y
  BY SMT
<1>2. ASSUME NEW k \in Int, NEW z \in 0 .. (span - 1)
      PROVE  (span * k + z) % span = z
  BY SMT
<1> HIDE DEF q, y
<1>3. CASE y + d < span
  <2>1. n + d = span * q + (y + d) /\ y + d \in 0 .. (span - 1)
    BY <1>1, <1>3
  <2> QED
    BY <1>1, <1>2, <1>3, <2>1 DEF y
<1>4. CASE ~(y + d < span)
  <2>1. n + d = span * (q + 1) + (y + d - span) /\ y + d - span \in 0 .. (span - 1)
        /\ q + 1 \in Int
    BY <1>1, <1>4
  <2> QED
    BY <1>1, <1>2, <1>4, <2>1 DEF y
<1> QED
  BY <1>1, <1>3, <1>4 DEF y

\* Numbers taken from one stretch of a stream that is shorter than half a circle
\* are ordered as they were sent, wherever on the circle the stretch lies.
THEOREM StretchOrdered ==
    ASSUME NEW first \in Int, NEW i \in Nat, NEW j \in Nat, i < j, j - i < SeqSpan \div 2
    PROVE  Newer(SeqNo(first + j), SeqNo(first + i)) /\ ~Newer(SeqNo(first + i), SeqNo(first + j))
<1> DEFINE n == first + i
           d == j - i
           x == (n + d) % SeqSpan
           y == n % SeqSpan
<1>1. n \in Int /\ d \in 1 .. (SeqSpan - 1) /\ n + d = first + j /\ SeqSpan \in Nat \ {0}
      /\ d < SeqSpan \div 2
  BY SpansAssumption
<1> HIDE DEF n, d
<1>2. /\ y \in 0 .. (SeqSpan - 1) /\ x \in 0 .. (SeqSpan - 1)
      /\ x = IF y + d < SeqSpan THEN y + d ELSE y + d - SeqSpan
  <2>1. d \in 0 .. (SeqSpan - 1) /\ n + d \in Int
    BY <1>1
  <2>2. y \in 0 .. (SeqSpan - 1)
        /\ x = IF y + d < SeqSpan THEN y + d ELSE y + d - SeqSpan
    BY <1>1, <2>1, WrapsOnce
  <2> HIDE DEF x, y
  <2> QED
    BY <1>1, <2>1, <2>2
<1>3. x # y /\ (x - y) % SeqSpan = d
  <2> HIDE DEF x, y
  <2>1. x # y
    BY <1>1, <1>2
  <2>2. (x - y) % SeqSpan = IF x > y THEN x - y ELSE x - y + SeqSpan
    BY <1>1, <1>2, <2>1, Distances
  <2> QED
    BY <1>1, <1>2, <2>1, <2>2
<1>4. IsNewer(x, y, SeqSpan)
  <2> HIDE DEF x, y
  <2> QED
    BY <1>1, <1>3 DEF IsNewer
<1>5. ~IsNewer(y, x, SeqSpan)
  <2> HIDE DEF x, y
  <2> QED
    BY <1>1, <1>2, <1>3, <1>4, OneIsNewer, SpansAssumption
<1> QED
  BY <1>1, <1>4, <1>5 DEF Newer, SeqNo, n
=============================================================================
