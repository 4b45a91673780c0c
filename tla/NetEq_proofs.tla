---------------------------- MODULE NetEq_proofs ----------------------------
(***************************************************************************)
(* Theorems about NetEq, for all codecs, streams, buffers and bounds.      *)
(***************************************************************************)
EXTENDS NetEq, RtpNumbers_proofs, FiniteSetTheorems, WellFoundedInduction

-----------------------------------------------------------------------------
(* Numbers and sequences.                                                    *)

\* A set of natural numbers has a least one.
LEMMA Least ==
    ASSUME NEW S, S \subseteq Nat, S # {}
    PROVE  \E n \in S : \A m \in S : n <= m
<1> DEFINE R == {ss \in Nat \X Nat : ss[1] < ss[2]}
<1>1. IsWellFoundedOn(R, Nat)
  BY NatLessThanWellFounded, Zenon DEF OpToRel
<1>2. ASSUME NEW x \in Nat, NEW y \in Nat, y < x PROVE <<y, x>> \in R
  BY <1>2
<1> HIDE DEF R
<1>3. PICK n \in S : \A y \in S : ~(<<y, n>> \in R)
  BY <1>1, WFMin
<1>4. ASSUME NEW m \in S PROVE n <= m
  <2>1. n \in Nat /\ m \in Nat
    OBVIOUS
  <2>2. ~(m < n)
    BY <1>2, <1>3, <2>1
  <2> QED
    BY <2>1, <2>2
<1> QED
  BY <1>4

LEMMA MinOf ==
    ASSUME NEW S, S \subseteq Nat, S # {}
    PROVE  Min(S) \in S /\ \A m \in S : Min(S) <= m
BY Least DEF Min

LEMMA MaxOf ==
    ASSUME NEW top \in Nat, NEW S, S \subseteq 0 .. top, S # {}
    PROVE  Max(S) \in S /\ \A m \in S : m <= Max(S)
<1> DEFINE T == {x \in 0 .. top : top - x \in S}
<1>1. T \subseteq Nat /\ T # {}
  <2>1. PICK m \in S : TRUE
    OBVIOUS
  <2>2. m \in 0 .. top
    OBVIOUS
  <2>3. top - m \in T
    BY <2>2
  <2>4. \A x \in T : x \in Nat
    OBVIOUS
  <2> HIDE DEF T
  <2> QED
    BY <2>3, <2>4
<1> HIDE DEF T
<1>2. PICK t \in T : \A u \in T : t <= u
  BY <1>1, Least
<1> DEFINE m == top - t
<1>3. m \in S /\ t \in 0 .. top
  BY DEF T
<1>4. ASSUME NEW k \in S PROVE k <= m
  <2>1. k \in 0 .. top
    OBVIOUS
  <2>2. top - k \in T
    BY <2>1 DEF T
  <2> QED
    BY <1>2, <1>3, <2>1, <2>2
<1> HIDE DEF m
<1>5. \E x \in S : \A y \in S : x >= y
  BY <1>3, <1>4
<1>6. \A y \in S : Max(S) >= y /\ Max(S) \in S
  BY <1>5 DEF Max
<1> QED
  BY <1>6

LEMMA MinOfTwo ==
    ASSUME NEW a \in Int, NEW b \in Int PROVE Min({a, b}) = IF a <= b THEN a ELSE b
BY DEF Min

LEMMA MaxOfTwo ==
    ASSUME NEW a \in Int, NEW b \in Int PROVE Max({a, b}) = IF a >= b THEN a ELSE b
BY DEF Max

LEMMA MaxOfThree ==
    ASSUME NEW a \in Int, NEW b \in Int, NEW c \in Int
    PROVE  /\ Max({a, b, c}) \in {a, b, c}
           /\ Max({a, b, c}) >= a /\ Max({a, b, c}) >= b /\ Max({a, b, c}) >= c
<1>1. \E x \in {a, b, c} : \A y \in {a, b, c} : x >= y
  OBVIOUS
<1> QED
  BY <1>1 DEF Max

\* What holds at the start and goes on from one number to the next holds at each.
\* (The property is the set it holds on.)
LEMMA StepByStep ==
    ASSUME NEW n \in Nat, NEW Good, 0 \in Good, \A k \in 1 .. n : k - 1 \in Good => k \in Good
    PROVE  \A k \in 0 .. n : k \in Good
<1> DEFINE Bad == {k \in 0 .. n : k \notin Good}
<1> SUFFICES ASSUME Bad # {} PROVE FALSE
  OBVIOUS
<1>1. Bad \subseteq Nat
  OBVIOUS
<1>2. \E k \in Bad : \A m \in Bad : k <= m
  <2> HIDE DEF Bad
  <2> QED
    BY <1>1, Least
<1>3. PICK k \in Bad : \A m \in Bad : k <= m
  BY <1>2
<1>4. k \in 1 .. n /\ k - 1 \in 0 .. n
  BY <1>3
<1>5. k - 1 \in Good
  BY <1>3, <1>4
<1> QED
  BY <1>3, <1>4, <1>5

\* The end of a sequence from the first of some places on.
Suffix(s, places) == IF places = {} THEN <<>> ELSE SubSeq(s, Min(places), Len(s))

LEMMA SuffixIs ==
    ASSUME NEW T, NEW s \in Seq(T), NEW places, places \subseteq DOMAIN s
    PROVE  LET r == Suffix(s, places)
           IN  /\ r \in Seq(T) /\ Len(r) \in Nat /\ Len(r) <= Len(s)
               /\ r = <<>> <=> places = {}
               /\ Len(r) = 0 <=> places = {}
               /\ places # {} => /\ Min(places) \in places /\ r[1] = s[Min(places)]
                                 /\ Head(r) = r[1]
                                 /\ \A k \in places : k >= Min(places)
               /\ \A k \in 1 .. Len(r) : Len(s) - Len(r) + k \in DOMAIN s /\ r[k] = s[Len(s) - Len(r) + k]
<1> DEFINE r == Suffix(s, places)
<1>1. CASE places = {}
  <2>1. r = <<>> /\ Len(s) \in Nat
    BY <1>1 DEF Suffix
  <2> HIDE DEF r
  <2>2. /\ r \in Seq(T) /\ Len(r) = 0 /\ Len(r) <= Len(s)
        /\ \A k \in 1 .. Len(r) : FALSE
    BY <2>1
  <2> QED
    BY <1>1, <2>1, <2>2 DEF r
<1>2. CASE places # {}
  <2> DEFINE m == Min(places)
  <2>1. DOMAIN s = 1 .. Len(s) /\ Len(s) \in Nat
    OBVIOUS
  <2>2. m \in places /\ \A k \in places : k >= m
    BY <1>2, <2>1, MinOf
  <2> HIDE DEF m
  <2>3. r = SubSeq(s, m, Len(s))
    BY <1>2 DEF Suffix, m
  <2>4. m \in 1 .. Len(s)
    BY <2>1, <2>2
  <2>5. /\ r \in Seq(T) /\ Len(r) = Len(s) - m + 1
        /\ \A k \in 1 .. Len(r) : r[k] = s[m + k - 1]
    BY <2>1, <2>3, <2>4
  <2> HIDE DEF r
  <2>6. r # <<>> /\ Head(r) = r[1]
    BY <2>1, <2>4, <2>5
  <2>7. r[1] = s[m]
    BY <2>1, <2>4, <2>5
  <2>8. \A k \in 1 .. Len(r) : Len(s) - Len(r) + k = m + k - 1 /\ m + k - 1 \in 1 .. Len(s)
    BY <2>1, <2>4, <2>5
  <2> QED
    BY <1>2, <2>1, <2>2, <2>4, <2>5, <2>6, <2>7, <2>8 DEF r, m
<1> QED
  BY <1>1, <1>2

\* Each place up to the size of a finite set of numbers has its number.
LEMMA NthIs ==
    ASSUME NEW S, S \subseteq Nat, IsFiniteSet(S), NEW k \in 1 .. Cardinality(S)
    PROVE  Nth(S, k) \in S /\ Cardinality({j \in S : j < Nth(S, k)}) = k - 1
<1> DEFINE below(i) == {j \in S : j < i}
           Good == {x \in Nat : \E i \in S : Cardinality(below(i)) = x}
           c == Cardinality(S)
<1>1. c \in Nat /\ c - 1 \in Nat /\ c > 0
  BY FS_CardinalityType
<1>2. 0 \in Good
  <2>1. S # {}
    BY <1>1, FS_EmptySet
  <2>2. PICK i \in S : \A j \in S : i <= j
    BY <2>1, Least
  <2>3. below(i) = {}
    <3>1. \A j \in S : i \in Nat /\ j \in Nat /\ ~(j < i)
      BY <2>2
    <3> QED
      BY <3>1
  <2>4. Cardinality(below(i)) = 0
    BY <2>3, FS_EmptySet
  <2> QED
    BY <2>4
<1>3. ASSUME NEW x \in 1 .. (c - 1), x - 1 \in Good PROVE x \in Good
  <2>1. PICK i \in S : Cardinality(below(i)) = x - 1
    BY <1>3
  <2> DEFINE L == below(i) \cup {i}
             rest == S \ L
  <2>2. IsFiniteSet(below(i)) /\ i \notin below(i)
    <3>1. below(i) \subseteq S
      OBVIOUS
    <3>2. i \in Nat
      OBVIOUS
    <3> QED
      BY <3>1, <3>2, FS_Subset
  <2>3. Cardinality(L) = x
    <3> HIDE DEF below
    <3>1. Cardinality(L) = Cardinality(below(i)) + 1
      BY <2>2, FS_AddElement
    <3> QED
      BY <2>1, <3>1
  <2>4. rest # {}
    <3>1. L \subseteq S
      OBVIOUS
    <3> HIDE DEF L
    <3>2. L # S
      BY <1>1, <2>3
    <3> QED
      BY <3>1, <3>2
  <2>5. rest \subseteq Nat
    OBVIOUS
  <2> HIDE DEF rest
  <2>6. PICK i2 \in rest : \A j \in rest : i2 <= j
    BY <2>4, <2>5, Least
  <2>7. below(i2) = L /\ i2 \in S
    <3>1. i2 \in S /\ i2 \in Nat /\ i \in Nat /\ i2 > i
      BY <2>6 DEF rest
    <3>2. ASSUME NEW j \in S, j < i2 PROVE j \in L
      <4>1. j \in Nat
        OBVIOUS
      <4>2. j \notin rest
        BY <2>6, <3>1, <3>2, <4>1
      <4> QED
        BY <4>2 DEF rest
    <3>3. ASSUME NEW j \in L PROVE j \in S /\ j < i2
      <4>1. j \in Nat /\ j \in S /\ j <= i
        BY <3>1
      <4> QED
        BY <3>1, <4>1
    <3> HIDE DEF L
    <3> QED
      BY <3>1, <3>2, <3>3
  <2> HIDE DEF L, below
  <2>8. Cardinality(below(i2)) = x
    BY <2>3, <2>7
  <2> QED
    BY <2>7, <2>8
<1>4. \A x \in 0 .. (c - 1) : x \in Good
  <2> HIDE DEF Good, c
  <2> QED
    BY <1>1, <1>2, <1>3, StepByStep
<1>5. k - 1 \in 0 .. (c - 1)
  BY <1>1
<1>6. \E i \in S : Cardinality(below(i)) = k - 1
  BY <1>4, <1>5
<1> QED
  BY <1>6 DEF Nth

\* The next number's place comes next.
LEMMA NthNext ==
    ASSUME NEW S, S \subseteq Nat, IsFiniteSet(S), NEW k \in 1 .. Cardinality(S),
           k + 1 \in 1 .. Cardinality(S)
    PROVE  /\ Nth(S, k) < Nth(S, k + 1)
           /\ \A x \in S : x > Nth(S, k) => x >= Nth(S, k + 1)
<1> DEFINE below(i) == {j \in S : j < i}
           a == Nth(S, k)
           c == Nth(S, k + 1)
<1>1. a \in S /\ Cardinality(below(a)) = k - 1
  BY NthIs
<1>2. c \in S /\ Cardinality(below(c)) = k
  <2>1. Nth(S, k + 1) \in S /\ Cardinality({j \in S : j < Nth(S, k + 1)}) = (k + 1) - 1
    BY NthIs
  <2>2. (k + 1) - 1 = k
    BY FS_CardinalityType
  <2> QED
    BY <2>1, <2>2
<1>3. k \in Nat /\ a \in Nat /\ c \in Nat
  <2>1. \A x \in S : x \in Nat
    OBVIOUS
  <2> HIDE DEF a, c, below
  <2> QED
    BY <1>1, <1>2, <2>1, FS_CardinalityType
<1>4. IsFiniteSet(below(a)) /\ IsFiniteSet(below(c)) /\ a \notin below(a)
  <2>1. below(a) \subseteq S /\ below(c) \subseteq S
    OBVIOUS
  <2> QED
    BY <1>3, <2>1, FS_Subset
<1> HIDE DEF a, c
<1>5. a < c
  <2> SUFFICES ASSUME c <= a PROVE FALSE
    BY <1>3
  <2>1. \A x \in S : x < c => x < a
    <3>1. \A x \in S : x \in Nat
      OBVIOUS
    <3> HIDE DEF below
    <3> QED
      BY <1>3, <3>1
  <2>2. below(c) \subseteq below(a)
    BY <2>1
  <2> HIDE DEF below
  <2>3. Cardinality(below(c)) <= Cardinality(below(a))
    BY <1>4, <2>2, FS_Subset
  <2> QED
    BY <1>1, <1>2, <1>3, <2>3
<1>6. ASSUME NEW x \in S, x > a, ~(x >= c) PROVE FALSE
  <2> DEFINE L == below(a) \cup {a}
  <2>1. x \in Nat /\ x < c /\ x \notin L
    BY <1>3, <1>6
  <2>2. L \cup {x} \subseteq below(c)
    <3>1. \A y \in S : y < a => y < c
      <4>1. \A y \in S : y \in Nat
        OBVIOUS
      <4> HIDE DEF below, L
      <4> QED
        BY <1>3, <1>5, <4>1
    <3> QED
      BY <1>1, <1>5, <1>6, <2>1, <3>1
  <2>3. IsFiniteSet(L) /\ Cardinality(L) = k
    <3> HIDE DEF below
    <3> QED
      BY <1>1, <1>3, <1>4, FS_AddElement
  <2> HIDE DEF L, below
  <2>4. IsFiniteSet(L \cup {x}) /\ Cardinality(L \cup {x}) = k + 1
    BY <2>1, <2>3, FS_AddElement
  <2>5. Cardinality(L \cup {x}) <= Cardinality(below(c))
    BY <1>4, <2>2, FS_Subset
  <2> QED
    BY <1>2, <1>3, <2>4, <2>5
<1> QED
  BY <1>5, <1>6 DEF a, c

LEMMA FirstIs ==
    ASSUME NEW S, S \subseteq Nat \ {0}, IsFiniteSet(S), 1 \in S
    PROVE  Nth(S, 1) = 1 /\ Cardinality(S) \in Nat \ {0}
<1> DEFINE i == Nth(S, 1)
           below == {j \in S : j < i}
<1>1. Cardinality(S) \in Nat \ {0}
  BY FS_CardinalityType, FS_EmptySet
<1>2. i \in S /\ Cardinality(below) = 0
  <2>1. 1 \in 1 .. Cardinality(S) /\ S \subseteq Nat
    BY <1>1
  <2>2. Nth(S, 1) \in S /\ Cardinality({j \in S : j < Nth(S, 1)}) = 1 - 1
    BY <2>1, NthIs
  <2> QED
    BY <2>2
<1>3. below \subseteq S
  OBVIOUS
<1> HIDE DEF i
<1>4. below = {}
  <2> HIDE DEF below
  <2> QED
    BY <1>2, <1>3, FS_EmptySet, FS_Subset
<1>5. ~(1 < i)
  BY <1>4
<1>6. i = 1
  BY <1>2, <1>5
<1> QED
  BY <1>1, <1>6 DEF i


-----------------------------------------------------------------------------
(* Packets.                                                                  *)

Pts == SpeechTypes \cup NoiseTypes
Stamps == 0 .. (TsSpan - 1)
Packets ==
    [n : Nat, seq : 0 .. (SeqSpan - 1), ts : Stamps, pt : Pts, sync : BOOLEAN,
     primary : BOOLEAN, len : 0 .. kMaxFrameSize, cn : BOOLEAN]

Frames == 0 .. kMaxFrameSize

LEMMA AnyPacket ==
    ASSUME NEW p \in Packets
    PROVE  /\ p.len \in Frames /\ p.pt \in Pts /\ p.ts \in Stamps
           /\ p.sync \in BOOLEAN /\ p.primary \in BOOLEAN
BY DEF Packets, Frames

LEMMA Limits ==
    /\ kMaxFrameSize \in Nat /\ 3 * Block \in Frames /\ Block = 2
    /\ MaxNoise \in Nat /\ MaxPackets \in Nat \ {0}
    /\ kReinitAfterExpands \in Nat /\ kMinTimescaleInterval \in Nat
    /\ TsStart \in Nat /\ SeqStart \in Nat
    /\ Extra \subseteq Nat /\ Levels \subseteq Nat
    /\ Cut \subseteq 0 .. (Block + 1) /\ Cut \subseteq Nat
BY LimitsAssumption, BufferAssumption DEF Block, Frames

LEMMA OnTheCircle ==
    /\ \A x \in Int : Ts(x) \in Stamps
    /\ \A x \in Int : SeqNo(x) \in 0 .. (SeqSpan - 1)
    /\ \A x \in Stamps : Ts(x) = x
    /\ Stamps \subseteq Nat
<1>1. SeqSpan \in Nat \ {0} /\ TsSpan \in Nat \ {0}
  BY SpansAssumption
<1>2. ASSUME NEW x \in Int PROVE Ts(x) \in Stamps /\ SeqNo(x) \in 0 .. (SeqSpan - 1)
  BY <1>1, Places DEF Ts, SeqNo, Stamps
<1>3. ASSUME NEW x \in Stamps PROVE Ts(x) = x
  BY <1>1, Within DEF Ts, Stamps
<1> QED
  BY <1>1, <1>2, <1>3 DEF Stamps

\* Decoding goes on from one packet to the next: the loop ends with what its turns
\* make of the state it started from.
LEMMA TurnByTurn ==
    ASSUME NEW list, Len(list) \in Nat, NEW last \in Frames, NEW channels \in Nat \ {0},
           NEW State,
           [frame |-> last, len |-> 0] \in State,
           \A k \in 1 .. Len(list), s \in State : Turn(s, list[k], channels) \in State
    PROVE  LET t == Turns(list, last, channels)
           IN  /\ t \in [0 .. Len(list) -> State]
               /\ t[0] = [frame |-> last, len |-> 0]
               /\ \A k \in 1 .. Len(list) : t[k] = Turn(t[k - 1], list[k], channels)
<1> DEFINE n == Len(list)
           start == [frame |-> last, len |-> 0]
           turn(s, k) == Turn(s, list[k], channels)
           Goes(g, top) == /\ g \in [0 .. top -> State] /\ g[0] = start
                           /\ \A k \in 1 .. top : g[k] = turn(g[k - 1], k)
           Good == {top \in Nat : \E g : Goes(g, top)}
<1>1. 0 \in Good
  <2> DEFINE g == [k \in 0 .. 0 |-> start]
  <2> HIDE DEF start
  <2>1. Goes(g, 0)
    BY DEF start
  <2> QED
    BY <2>1
<1>2. ASSUME NEW top \in 1 .. n, top - 1 \in Good PROVE top \in Good
  <2> HIDE DEF start
  <2>1. PICK g : Goes(g, top - 1)
    BY <1>2
  <2> DEFINE h == [k \in 0 .. top |-> IF k = top THEN turn(g[top - 1], top) ELSE g[k]]
  <2>2. g[top - 1] \in State /\ top - 1 \in 0 .. (top - 1)
    BY <2>1
  <2>3. turn(g[top - 1], top) \in State
    BY <2>2
  <2> HIDE DEF turn
  <2>4. h \in [0 .. top -> State]
    BY <2>1, <2>3
  <2>5. h[0] = start
    BY <2>1
  <2>6. ASSUME NEW k \in 1 .. top PROVE h[k] = turn(h[k - 1], k)
    BY <2>1
  <2> HIDE DEF h
  <2>7. Goes(h, top)
    BY <2>4, <2>5, <2>6
  <2> QED
    BY <2>7
<1>3. \A k \in 0 .. n : k \in Good
  <2> HIDE DEF Good, n
  <2>1. n \in Nat
    BY DEF n
  <2> QED
    BY <1>1, <1>2, <2>1, StepByStep
<1>4. PICK g : Goes(g, n)
  <2>1. n \in Good
    BY <1>3
  <2> QED
    BY <2>1
<1> DEFINE body(f) == [k \in 0 .. n |-> IF k = 0 THEN start ELSE turn(f[k - 1], k)]
<1>5. g = body(g)
  <2> HIDE DEF start, turn, n
  <2>1. g \in [0 .. n -> State]
    BY <1>4
  <2>2. \A k \in 0 .. n : g[k] = IF k = 0 THEN start ELSE turn(g[k - 1], k)
    <3>1. n \in Nat
      BY DEF n
    <3> QED
      BY <1>4, <3>1
  <2> QED
    BY <2>1, <2>2
<1> DEFINE t == Turns(list, last, channels)
<1>6. t = CHOOSE f : f = body(f)
  BY DEF Turns
<1>7. t = body(t)
  <2> HIDE DEF body, t
  <2> QED
    BY <1>5, <1>6
<1>8. \A k \in 0 .. n : t[k] = IF k = 0 THEN start ELSE turn(t[k - 1], k)
  <2> HIDE DEF t, start, turn, n
  <2> QED
    BY <1>7
<1>9. t[0] = start
  BY <1>8
<1>10. \A k \in 1 .. n : t[k] = turn(t[k - 1], k)
  <2> HIDE DEF t, start, turn
  <2> QED
    BY <1>8
<1>11. t \in [0 .. n -> State]
  <2> DEFINE In == {k \in 0 .. n : t[k] \in State}
  <2>1. 0 \in In
    BY <1>9
  <2>2. ASSUME NEW k \in 1 .. n, k - 1 \in In PROVE k \in In
    <3> HIDE DEF t, start
    <3>1. t[k - 1] \in State
      BY <2>2
    <3> QED
      BY <1>10, <3>1
  <2>3. \A k \in 0 .. n : k \in In
    <3> HIDE DEF In, n
    <3>1. n \in Nat
      BY DEF n
    <3> QED
      BY <2>1, <2>2, <3>1, StepByStep
  <2> HIDE DEF t, start, turn, n
  <2>4. t = [k \in 0 .. n |-> t[k]]
    BY <1>7
  <2> QED
    BY <2>3, <2>4
<1> QED
  BY <1>9, <1>10, <1>11


LEMMA Halved ==
    ASSUME NEW a \in Nat, NEW b \in Nat \ {0} PROVE a \div b \in 0 .. a
BY SMT

LEMMA DecodedIs ==
    ASSUME NEW p \in Packets, NEW last \in Frames, NEW channels \in Nat \ {0}
    PROVE  Decoded(p, last, channels) \in Frames
<1>1. last \div channels \in 0 .. last
  BY Limits, Halved DEF Frames
<1>2. last \div channels \in Frames
  BY <1>1, Limits DEF Frames
<1> QED
  BY <1>2 DEF Decoded, Packets, Frames

\* What a list decodes to: no more than so many whole frames.
LEMMA Decodes ==
    ASSUME NEW list \in Seq(Packets), NEW last \in Frames, NEW channels \in Nat \ {0}
    PROVE  LET d == DecodeLoop(list, last, channels)
           IN  d.frame \in Frames /\ d.len \in 0 .. (Len(list) * kMaxFrameSize)
<1> DEFINE State == [frame : Frames, len : Nat]
           n == Len(list)
           t == Turns(list, last, channels)
<1>1. n \in Nat /\ \A k \in 1 .. n : list[k] \in Packets
  OBVIOUS
<1>2. [frame |-> last, len |-> 0] \in State
  OBVIOUS
<1>3. ASSUME NEW k \in 1 .. n, NEW s \in State
      PROVE  /\ Turn(s, list[k], channels) \in State
             /\ Turn(s, list[k], channels).len <= s.len + kMaxFrameSize
  <2> DEFINE len == Decoded(list[k], s.frame, channels)
  <2>1. len \in Frames
    BY <1>1, DecodedIs
  <2> HIDE DEF len
  <2>2. Turn(s, list[k], channels)
            = [frame |-> IF len > 0 THEN len ELSE s.frame, len |-> s.len + len]
    BY DEF Turn, len
  <2> QED
    BY <2>1, <2>2, Limits DEF Frames
<1>4. /\ t \in [0 .. n -> State] /\ t[0] = [frame |-> last, len |-> 0]
      /\ \A k \in 1 .. n : t[k] = Turn(t[k - 1], list[k], channels)
  <2> HIDE DEF State
  <2> QED
    BY <1>1, <1>2, <1>3, TurnByTurn
<1> HIDE DEF t
<1> DEFINE In == {k \in 0 .. n : t[k].len <= k * kMaxFrameSize}
<1>5. 0 \in In
  BY <1>4, Limits
<1>6. ASSUME NEW k \in 1 .. n, k - 1 \in In PROVE k \in In
  <2>1. t[k - 1] \in State /\ t[k] = Turn(t[k - 1], list[k], channels)
    BY <1>4
  <2>2. t[k] \in State /\ t[k].len <= t[k - 1].len + kMaxFrameSize
    BY <1>3, <2>1
  <2>3. t[k - 1].len <= (k - 1) * kMaxFrameSize
    BY <1>6
  <2>4. (k - 1) * kMaxFrameSize + kMaxFrameSize = k * kMaxFrameSize
    BY Limits
  <2>5. (k - 1) * kMaxFrameSize \in Int /\ k * kMaxFrameSize \in Int
    BY Limits
  <2>6. t[k].len \in Int /\ t[k - 1].len \in Int /\ kMaxFrameSize \in Int
    BY <2>1, <2>2, Limits
  <2> HIDE DEF State
  <2>7. t[k].len <= k * kMaxFrameSize
    BY <2>2, <2>3, <2>4, <2>5, <2>6
  <2> QED
    BY <2>7
<1>7. \A k \in 0 .. n : k \in In
  <2> HIDE DEF In, n
  <2> QED
    BY <1>1, <1>5, <1>6, StepByStep
<1>8. t[n].len <= n * kMaxFrameSize /\ t[n] \in State
  BY <1>1, <1>4, <1>7
<1>9. DecodeLoop(list, last, channels) = t[n]
  BY DEF DecodeLoop, t
<1>10. n * kMaxFrameSize \in Nat
  BY <1>1, Limits
<1> QED
  BY <1>8, <1>9, <1>10

\* Whether speech is as long as a block, or stands for some that was.
Lasts(p) == p.sync \/ p.len >= Block

\* On one channel, where every packet lasts a block, so does what they decode to.
LEMMA DecodesWhole ==
    ASSUME NEW list \in Seq(Packets), NEW last \in Frames, last >= Block,
           \A k \in 1 .. Len(list) : Lasts(list[k])
    PROVE  LET d == DecodeLoop(list, last, 1)
           IN  d.frame >= Block /\ d.len >= Block * Len(list)
<1> DEFINE State == [frame : Block .. kMaxFrameSize, len : Nat]
           n == Len(list)
           t == Turns(list, last, 1)
<1>1. n \in Nat /\ \A k \in 1 .. n : list[k] \in Packets /\ Lasts(list[k])
  OBVIOUS
<1>2. [frame |-> last, len |-> 0] \in State
  BY Limits DEF Frames
<1>3. ASSUME NEW k \in 1 .. n, NEW s \in State
      PROVE  /\ Turn(s, list[k], 1) \in State
             /\ Turn(s, list[k], 1).len >= s.len + Block
  <2> DEFINE len == Decoded(list[k], s.frame, 1)
  <2>1. len \in Block .. kMaxFrameSize
    <3>1. s.frame \in Block .. kMaxFrameSize /\ s.frame \div 1 = s.frame
      BY Limits
    <3>2. list[k] \in Packets /\ Lasts(list[k])
      BY <1>1
    <3>3. list[k].len \in Frames /\ (list[k].sync \/ list[k].len >= Block)
      BY <3>2, AnyPacket DEF Lasts
    <3>4. len = IF list[k].sync THEN s.frame ELSE list[k].len
      BY <3>1 DEF Decoded
    <3> HIDE DEF len
    <3> QED
      BY <3>1, <3>3, <3>4, Limits DEF Frames
  <2> HIDE DEF len
  <2>2. Turn(s, list[k], 1)
            = [frame |-> IF len > 0 THEN len ELSE s.frame, len |-> s.len + len]
    BY DEF Turn, len
  <2> QED
    BY <2>1, <2>2, Limits
<1>4. /\ t \in [0 .. n -> State] /\ t[0] = [frame |-> last, len |-> 0]
      /\ \A k \in 1 .. n : t[k] = Turn(t[k - 1], list[k], 1)
  <2>1. 1 \in Nat \ {0}
    OBVIOUS
  <2> HIDE DEF State
  <2> QED
    BY <1>1, <1>2, <1>3, <2>1, TurnByTurn
<1> HIDE DEF t
<1> DEFINE In == {k \in 0 .. n : t[k].len >= Block * k}
<1>5. 0 \in In
  BY <1>4, Limits
<1>6. ASSUME NEW k \in 1 .. n, k - 1 \in In PROVE k \in In
  <2>1. t[k - 1] \in State /\ t[k] = Turn(t[k - 1], list[k], 1)
    BY <1>4
  <2>2. t[k] \in State /\ t[k].len >= t[k - 1].len + Block
    BY <1>3, <2>1
  <2>3. t[k - 1].len >= Block * (k - 1)
    BY <1>6
  <2>4. t[k].len >= Block * k
    BY <2>1, <2>2, <2>3, Limits
  <2> QED
    BY <2>4
<1>7. \A k \in 0 .. n : k \in In
  <2> HIDE DEF In, n
  <2> QED
    BY <1>1, <1>5, <1>6, StepByStep
<1>8. t[n].len >= Block * n /\ t[n] \in State
  BY <1>1, <1>4, <1>7
<1>9. DecodeLoop(list, last, 1) = t[n]
  BY DEF DecodeLoop, t
<1> QED
  BY <1>8, <1>9, Limits

\* Lists of none and of one.
LEMMA DecodesFew ==
    ASSUME NEW list \in Seq(Packets), NEW last \in Frames, NEW channels \in Nat \ {0}
    PROVE  /\ Len(list) = 0 => DecodeLoop(list, last, channels) = [frame |-> last, len |-> 0]
           /\ Len(list) = 1 => DecodeLoop(list, last, channels).len
                                   = Decoded(list[1], last, channels)
<1> DEFINE State == [frame : Frames, len : Nat]
           n == Len(list)
           t == Turns(list, last, channels)
           start == [frame |-> last, len |-> 0]
<1>1. n \in Nat /\ \A k \in 1 .. n : list[k] \in Packets
  OBVIOUS
<1>2. start \in State
  OBVIOUS
<1>3. ASSUME NEW k \in 1 .. n, NEW s \in State
      PROVE  Turn(s, list[k], channels) \in State
  <2> DEFINE len == Decoded(list[k], s.frame, channels)
  <2>1. len \in Frames
    BY <1>1, DecodedIs
  <2> HIDE DEF len
  <2>2. Turn(s, list[k], channels)
            = [frame |-> IF len > 0 THEN len ELSE s.frame, len |-> s.len + len]
    BY DEF Turn, len
  <2> QED
    BY <2>1, <2>2, Limits DEF Frames
<1>4. /\ t \in [0 .. n -> State] /\ t[0] = start
      /\ \A k \in 1 .. n : t[k] = Turn(t[k - 1], list[k], channels)
  <2> HIDE DEF State
  <2> QED
    BY <1>1, <1>2, <1>3, TurnByTurn
<1>5. DecodeLoop(list, last, channels) = t[n]
  BY DEF DecodeLoop, t
<1> HIDE DEF t
<1>6. ASSUME n = 1 PROVE t[1].len = Decoded(list[1], last, channels)
  <2>1. t[1] = Turn(start, list[1], channels)
    BY <1>4, <1>6
  <2>2. start.frame = last /\ start.len = 0
    OBVIOUS
  <2> HIDE DEF start
  <2>3. t[1].len = 0 + Decoded(list[1], last, channels)
    BY <2>1, <2>2 DEF Turn
  <2>4. Decoded(list[1], last, channels) \in Int
    BY <1>1, <1>6, DecodedIs, Limits DEF Frames
  <2> QED
    BY <2>3, <2>4
<1> QED
  BY <1>1, <1>4, <1>5, <1>6


-----------------------------------------------------------------------------
(* The packet buffer.                                                        *)

LEMMA EndIs ==
    ASSUME NEW T, NEW s \in Seq(T), NEW m \in 0 .. Len(s)
    PROVE  /\ SubSeq(s, m + 1, Len(s)) \in Seq(T)
           /\ Len(SubSeq(s, m + 1, Len(s))) = Len(s) - m
           /\ \A k \in 1 .. (Len(s) - m) : SubSeq(s, m + 1, Len(s))[k] = s[m + k]
<1>1. Len(s) \in Nat
  OBVIOUS
<1>2. CASE m = Len(s)
  <2>1. SubSeq(s, m + 1, Len(s)) = <<>>
    BY <1>1, <1>2
  <2>2. Len(s) - m = 0
    BY <1>1, <1>2
  <2> QED
    BY <2>1, <2>2
<1>3. CASE m < Len(s)
  <2> DEFINE n == m + 1
  <2>1. n \in 1 .. Len(s) /\ m = n - 1
    BY <1>1, <1>3
  <2> HIDE DEF n
  <2>2. /\ SubSeq(s, n, Len(s)) \in Seq(T) /\ Len(SubSeq(s, n, Len(s))) = Len(s) - n + 1
        /\ \A k \in 1 .. (Len(s) - n + 1) : SubSeq(s, n, Len(s))[k] = s[n + k - 1]
    BY <1>1, <2>1
  <2> QED
    BY <1>1, <2>1, <2>2
<1> QED
  BY <1>1, <1>2, <1>3

LEMMA Joined ==
    ASSUME NEW T, NEW a \in Seq(T), NEW c \in Seq(T)
    PROVE  /\ a \o c \in Seq(T) /\ Len(a \o c) = Len(a) + Len(c)
           /\ \A k \in 1 .. (Len(a) + Len(c)) :
                 (a \o c)[k] = IF k <= Len(a) THEN a[k] ELSE c[k - Len(a)]
OBVIOUS

\* The packet is put in, and nothing else changes but places.
PutIn(T, b, p) ==
    /\ Placed(b, p) \in Seq(T) /\ Len(Placed(b, p)) = Len(b) + 1
    /\ \A k \in 1 .. (Len(b) + 1) :
           Placed(b, p)[k] = p \/ \E j \in 1 .. Len(b) : Placed(b, p)[k] = b[j]

\* It is put behind the last packet that is not after it.
PutBehind(b, p, m) ==
    /\ m \in 0 .. Len(b) /\ m > 0 => ~Before(p, b[m])
    /\ \A k \in 1 .. Len(b) : k > m => Before(p, b[k])
    /\ \A k \in 1 .. (Len(b) + 1) :
           Placed(b, p)[k] = IF k <= m THEN b[k] ELSE IF k = m + 1 THEN p ELSE b[k - 1]

LEMMA PlacedBehind ==
    ASSUME NEW T, NEW b \in Seq(T), NEW p \in T
    PROVE  /\ Placed(b, p) \in Seq(T) /\ Len(Placed(b, p)) = Len(b) + 1
           /\ \E m \in 0 .. Len(b) : PutBehind(b, p, m)
<1> DEFINE behind == {0} \cup {j \in DOMAIN b : ~Before(p, b[j])}
           m == Max(behind)
           r == Placed(b, p)
<1>1. Len(b) \in Nat /\ DOMAIN b = 1 .. Len(b)
  OBVIOUS
<1>2. behind \subseteq 0 .. Len(b) /\ behind # {}
  BY <1>1
<1>3. m \in 0 .. Len(b) /\ m \in behind /\ \A k \in behind : k <= m
  <2> HIDE DEF behind
  <2> QED
    BY <1>1, <1>2, MaxOf
<1>4. r = SubSeq(b, 1, m) \o <<p>> \o SubSeq(b, m + 1, Len(b))
  <2>1. r = InsertAt(b, 1 + m, p)
    BY DEF Placed
  <2> HIDE DEF r, m
  <2>2. (1 + m) - 1 = m /\ 1 + m = m + 1
    BY <1>3
  <2>3. r = SubSeq(b, 1, (1 + m) - 1) \o <<p>> \o SubSeq(b, 1 + m, Len(b))
    BY <2>1 DEF InsertAt
  <2> QED
    BY <2>2, <2>3
<1> HIDE DEF m, r
<1>5. /\ SubSeq(b, 1, m) \in Seq(T) /\ Len(SubSeq(b, 1, m)) = m
      /\ \A k \in 1 .. m : SubSeq(b, 1, m)[k] = b[k]
  BY <1>1, <1>3
<1>6. /\ SubSeq(b, m + 1, Len(b)) \in Seq(T) /\ Len(SubSeq(b, m + 1, Len(b))) = Len(b) - m
      /\ \A k \in 1 .. (Len(b) - m) : SubSeq(b, m + 1, Len(b))[k] = b[m + k]
  BY <1>3, EndIs
<1> DEFINE front == SubSeq(b, 1, m)
           back == SubSeq(b, m + 1, Len(b))
<1>7. /\ r \in Seq(T) /\ Len(r) = Len(b) + 1
      /\ \A k \in 1 .. (Len(b) + 1) :
            r[k] = IF k <= m THEN front[k] ELSE IF k = m + 1 THEN p ELSE back[k - m - 1]
  <2> HIDE DEF front, back
  <2>1. r = front \o <<p>> \o back /\ front \in Seq(T) /\ back \in Seq(T)
        /\ Len(front) = m /\ Len(back) = Len(b) - m
    BY <1>4, <1>5, <1>6 DEF front, back
  <2> DEFINE two == front \o <<p>>
  <2>2. <<p>> \in Seq(T) /\ Len(<<p>>) = 1 /\ <<p>>[1] = p
    OBVIOUS
  <2>3. /\ two \in Seq(T) /\ Len(two) = m + 1
        /\ \A k \in 1 .. (m + 1) : two[k] = IF k <= m THEN front[k] ELSE p
    BY <1>3, <2>1, <2>2
  <2> HIDE DEF two
  <2>4. r = two \o back
    BY <2>1 DEF two
  <2>5. /\ r \in Seq(T) /\ Len(r) = (m + 1) + (Len(b) - m)
        /\ \A k \in 1 .. ((m + 1) + (Len(b) - m)) :
              r[k] = IF k <= m + 1 THEN two[k] ELSE back[k - (m + 1)]
    <3>1. back \in Seq(T) /\ two \in Seq(T) /\ Len(two) = m + 1 /\ Len(back) = Len(b) - m
      BY <2>1, <2>3
    <3>2. /\ two \o back \in Seq(T) /\ Len(two \o back) = Len(two) + Len(back)
          /\ \A k \in 1 .. (Len(two) + Len(back)) :
                (two \o back)[k] = IF k <= Len(two) THEN two[k] ELSE back[k - Len(two)]
      BY <3>1, Joined
    <3> HIDE DEF r
    <3> QED
      BY <2>4, <3>1, <3>2
  <2>6. (m + 1) + (Len(b) - m) = Len(b) + 1
    BY <1>1, <1>3
  <2>7. ASSUME NEW k \in 1 .. (Len(b) + 1)
        PROVE  r[k] = IF k <= m THEN front[k] ELSE IF k = m + 1 THEN p ELSE back[k - m - 1]
    BY <1>1, <1>3, <2>3, <2>5, <2>6, <2>7
  <2> QED
    BY <2>5, <2>6, <2>7
<1> HIDE DEF front, back
<1>8. ASSUME NEW k \in 1 .. (Len(b) + 1)
      PROVE  r[k] = IF k <= m THEN b[k] ELSE IF k = m + 1 THEN p ELSE b[k - 1]
  <2>1. CASE k <= m
    BY <1>1, <1>3, <1>5, <1>7, <2>1 DEF front
  <2>2. CASE k = m + 1
    BY <1>3, <1>7, <2>2
  <2>3. CASE k > m + 1
    <3>1. k - m - 1 \in 1 .. (Len(b) - m) /\ m + (k - m - 1) = k - 1 /\ k - 1 \in 1 .. Len(b)
      BY <1>1, <1>3, <2>3
    <3>2. r[k] = back[k - m - 1]
      BY <1>3, <1>7, <2>3
    <3>3. back[k - m - 1] = b[k - 1]
      BY <1>6, <3>1 DEF back
    <3> QED
      BY <1>3, <2>3, <3>1, <3>2, <3>3
  <2> QED
    BY <1>3, <2>1, <2>2, <2>3
<1>9. m > 0 => ~Before(p, b[m])
  BY <1>3
<1>10. ASSUME NEW k \in 1 .. Len(b), k > m PROVE Before(p, b[k])
  BY <1>1, <1>3, <1>10
<1> HIDE DEF behind
<1>11. PutBehind(b, p, m)
  BY <1>3, <1>8, <1>9, <1>10 DEF PutBehind, r
<1> QED
  BY <1>3, <1>7, <1>11 DEF r

LEMMA PlacedIs == ASSUME NEW T, NEW b \in Seq(T), NEW p \in T PROVE PutIn(T, b, p)
<1> DEFINE r == Placed(b, p)
<1>1. r \in Seq(T) /\ Len(r) = Len(b) + 1 /\ \E m \in 0 .. Len(b) : PutBehind(b, p, m)
  BY PlacedBehind
<1>2. PICK m \in 0 .. Len(b) : PutBehind(b, p, m)
  BY <1>1
<1>3. \A k \in 1 .. (Len(b) + 1) :
         r[k] = IF k <= m THEN b[k] ELSE IF k = m + 1 THEN p ELSE b[k - 1]
  BY <1>2 DEF PutBehind
<1> HIDE DEF r
<1>4. ASSUME NEW k \in 1 .. (Len(b) + 1)
      PROVE  r[k] = p \/ \E j \in 1 .. Len(b) : r[k] = b[j]
  <2>1. CASE k <= m
    BY <1>3, <2>1
  <2>2. CASE k = m + 1
    BY <1>3, <2>2
  <2>3. CASE k > m + 1
    BY <1>3, <2>3
  <2> QED
    BY <2>1, <2>2, <2>3
<1> QED
  BY <1>1, <1>4 DEF PutIn, r

Speeches == Pts \cup {NoType}
Noises == NoiseTypes \cup {NoType}
Inserting(T) == [buffer : Seq(T), pt : Speeches, cng : Noises, flushed : BOOLEAN]

\* Speech in the buffer is of the current payload type.
OneCodec(b, pt) == \A k \in 1 .. Len(b) : ~IsComfortNoise(b[k]) => b[k].pt = pt

LEMMA InsertsOne ==
    ASSUME NEW T, T \subseteq Packets, NEW s \in Inserting(T), Len(s.buffer) <= MaxPackets,
           NEW p \in T, OneCodec(s.buffer, s.pt)
    PROVE  LET r == InsertOne(s, p)
           IN  /\ r \in Inserting(T) /\ Len(r.buffer) \in 1 .. MaxPackets
               /\ OneCodec(r.buffer, r.pt)
               /\ ~r.flushed => ~s.flushed /\ (r.pt = s.pt \/ s.pt = NoType)
<1> DEFINE noise == IsComfortNoise(p)
           current == IF noise THEN s.cng ELSE s.pt
           changed == current # NoType /\ current # p.pt
           flush == changed \/ Full(s.buffer)
           from == IF flush THEN <<>> ELSE s.buffer
           b == Placed(from, p)
           pt == IF ~noise THEN p.pt ELSE IF changed THEN NoType ELSE s.pt
           cng == IF noise THEN p.pt ELSE IF changed THEN NoType ELSE s.cng
           r == InsertOne(s, p)
<1>1. r = [buffer |-> b, pt |-> pt, cng |-> cng, flushed |-> s.flushed \/ flush]
  BY DEF InsertOne
<1>2. s.buffer \in Seq(T) /\ s.pt \in Speeches /\ s.cng \in Noises /\ s.flushed \in BOOLEAN
  BY DEF Inserting
<1>3. p \in Packets /\ p.pt \in Pts /\ (noise <=> p.pt \in NoiseTypes)
  BY DEF Packets, IsComfortNoise
<1>4. from \in Seq(T) /\ Len(from) \in Nat /\ Len(from) < MaxPackets
  <2>1. <<>> \in Seq(T) /\ Len(<<>>) = 0
    OBVIOUS
  <2>2. CASE flush
    BY <2>1, <2>2, Limits
  <2>3. CASE ~flush
    BY <1>2, <2>3, Limits DEF Full
  <2> QED
    BY <2>2, <2>3
<1>5. pt \in Speeches /\ cng \in Noises
  BY <1>2, <1>3 DEF Speeches, Noises, Pts
<1>6. OneCodec(from, pt)
  <2>1. CASE flush
    BY <2>1 DEF OneCodec
  <2>2. CASE ~flush /\ noise
    <3>1. pt = s.pt /\ from = s.buffer
      BY <2>2
    <3> QED
      BY <3>1
  <2>3. CASE ~flush /\ ~noise /\ s.pt = p.pt
    <3>1. pt = s.pt /\ from = s.buffer
      BY <2>3
    <3> QED
      BY <3>1
  <2>4. CASE ~flush /\ ~noise /\ s.pt # p.pt
    <3>1. s.pt = NoType /\ from = s.buffer
      BY <2>4
    <3>2. ASSUME NEW k \in 1 .. Len(s.buffer) PROVE IsComfortNoise(s.buffer[k])
      <4>1. s.buffer[k] \in T
        BY <1>2
      <4>2. NoType \notin Pts
        BY TypesAssumption, BufferAssumption DEF Pts
      <4> QED
        BY <3>1, <4>1, <4>2, AnyPacket DEF OneCodec
    <3> HIDE DEF from, pt
    <3> QED
      BY <3>1, <3>2 DEF OneCodec
  <2> QED
    BY <2>1, <2>2, <2>3, <2>4
<1>7. ~flush => pt = s.pt \/ s.pt = NoType
  OBVIOUS
<1> HIDE DEF from, flush, pt, cng
<1>8. /\ b \in Seq(T) /\ Len(b) = Len(from) + 1
      /\ \A k \in 1 .. (Len(from) + 1) : b[k] = p \/ \E j \in 1 .. Len(from) : b[k] = from[j]
  <2> HIDE DEF noise, current, changed, r
  <2>1. PutIn(T, from, p)
    BY <1>4, PlacedIs
  <2> QED
    BY <2>1 DEF PutIn
<1>9. ~noise => p.pt = pt
  BY DEF pt
<1> HIDE DEF b
<1>10. OneCodec(b, pt)
  <2> SUFFICES ASSUME NEW k \in 1 .. Len(b), ~IsComfortNoise(b[k]) PROVE b[k].pt = pt
    BY DEF OneCodec
  <2>1. CASE b[k] = p
    BY <1>9, <2>1
  <2>2. CASE \E j \in 1 .. Len(from) : b[k] = from[j]
    BY <1>6, <2>2 DEF OneCodec
  <2> QED
    BY <1>8, <2>1, <2>2
<1>11. flush \in BOOLEAN
  BY DEF flush, Full
<1>12. r \in Inserting(T)
  BY <1>1, <1>2, <1>5, <1>8, <1>11 DEF Inserting
<1>13. r.buffer = b /\ r.pt = pt /\ (~r.flushed => ~s.flushed /\ ~flush)
  BY <1>1, <1>2, <1>11
<1>14. Len(b) \in 1 .. MaxPackets
  BY <1>4, <1>8, Limits
<1> HIDE DEF r
<1> QED
  BY <1>7, <1>10, <1>12, <1>13, <1>14 DEF r

\* A list of one or two.
LEMMA InsertsList ==
    ASSUME NEW T, T \subseteq Packets, NEW b \in Seq(T), Len(b) <= MaxPackets,
           NEW pt \in Speeches, NEW cng \in Noises, OneCodec(b, pt),
           NEW list \in Seq(T), Len(list) \in 1 .. 2
    PROVE  LET r == InsertPacketList(b, pt, cng, list)
           IN  /\ r \in Inserting(T) /\ Len(r.buffer) \in 1 .. MaxPackets
               /\ OneCodec(r.buffer, r.pt)
               /\ ~r.flushed => r.pt = pt \/ pt = NoType
<1> DEFINE s == [buffer |-> b, pt |-> pt, cng |-> cng, flushed |-> FALSE]
           first == InsertOne(s, list[1])
           second == InsertOne(first, list[2])
           r == InsertPacketList(b, pt, cng, list)
<1>1. s \in Inserting(T) /\ s.buffer = b /\ s.pt = pt
  BY DEF Inserting
<1> HIDE DEF s
<1>2. list[1] \in T
  OBVIOUS
<1>3. /\ first \in Inserting(T) /\ Len(first.buffer) \in 1 .. MaxPackets
      /\ OneCodec(first.buffer, first.pt)
      /\ ~first.flushed => first.pt = pt \/ pt = NoType
  BY <1>1, <1>2, InsertsOne
<1> HIDE DEF first
<1>4. CASE Len(list) = 1
  <2>1. r = first
    BY <1>4 DEF InsertPacketList, first, s
  <2> QED
    BY <1>3, <2>1
<1>5. CASE Len(list) = 2
  <2>1. list[2] \in T
    BY <1>5
  <2>2. Len(first.buffer) <= MaxPackets
    BY <1>3, Limits
  <2>3. /\ second \in Inserting(T) /\ Len(second.buffer) \in 1 .. MaxPackets
        /\ OneCodec(second.buffer, second.pt)
        /\ ~second.flushed => ~first.flushed /\ (second.pt = first.pt \/ first.pt = NoType)
    BY <1>3, <2>1, <2>2, InsertsOne
  <2>4. r = second
    BY <1>5 DEF InsertPacketList, first, s
  <2> HIDE DEF r, second
  <2>5. ~r.flushed => r.pt = pt \/ pt = NoType
    BY <1>3, <2>3, <2>4
  <2> QED
    BY <2>3, <2>4, <2>5 DEF r
<1> QED
  BY <1>4, <1>5


-----------------------------------------------------------------------------
(* What GetDecision leaves in the buffer and takes from it.                  *)

CngOn == logic.cng = "rfc3389" \/ last_mode = "rfc3389"
Useless(p) ==
    \/ ~codec.new /\ Old(p.ts, sync.end)
    \/ /\ CngOn /\ IsComfortNoise(p)
       /\ sync.end >= p.ts \/ Ts(sync.end + logic.noise) > p.ts

\* What is left once packets in front have gone.
EndOf(r, s) == \A k \in 1 .. Len(r) : r[k] = s[Len(s) - Len(r) + k]

LEMMA UsefulIs ==
    ASSUME NEW T, buffer \in Seq(T)
    PROVE  /\ Useful \in Seq(T) /\ Len(Useful) \in Nat /\ Len(Useful) <= Len(buffer)
           /\ \A k \in 1 .. Len(Useful) : \E j \in 1 .. Len(buffer) : Useful[k] = buffer[j]
           /\ Useful # <<>> => /\ Header \in T /\ Header = Useful[1] /\ ~Useless(Header)
                               /\ Len(Useful) >= 1
           /\ Useful = <<>> => \A k \in 1 .. Len(buffer) : Useless(buffer[k])
           /\ EndOf(Useful, buffer)
<1> DEFINE places == {k \in DOMAIN buffer : ~Useless(buffer[k])}
           r == Suffix(buffer, places)
<1>1. Useful = r
  BY DEF Useful, WithoutFront, Suffix, Useless, CngOn
<1>2. DOMAIN buffer = 1 .. Len(buffer)
  OBVIOUS
<1>3. /\ r \in Seq(T) /\ Len(r) \in Nat /\ Len(r) <= Len(buffer)
      /\ r = <<>> <=> places = {}
      /\ Len(r) = 0 <=> places = {}
      /\ places # {} => /\ Min(places) \in places /\ r[1] = buffer[Min(places)]
                        /\ Head(r) = r[1]
      /\ \A k \in 1 .. Len(r) : /\ Len(buffer) - Len(r) + k \in DOMAIN buffer
                                /\ r[k] = buffer[Len(buffer) - Len(r) + k]
  <2>1. places \subseteq DOMAIN buffer
    OBVIOUS
  <2> HIDE DEF places
  <2> QED
    BY <2>1, SuffixIs
<1>4. places # {} => /\ ~Useless(buffer[Min(places)]) /\ buffer[Min(places)] \in T
  <2>1. places # {} => Min(places) \in places
    BY <1>3
  <2> QED
    BY <2>1
<1>5. places = {} => \A k \in 1 .. Len(buffer) : Useless(buffer[k])
  BY <1>2
<1> HIDE DEF places, r
<1>6. \A k \in 1 .. Len(r) : \E j \in 1 .. Len(buffer) : r[k] = buffer[j]
  BY <1>2, <1>3
<1>7. r # <<>> => Len(r) >= 1
  BY <1>3
<1>8. Header = Head(r)
  BY <1>1 DEF Header
<1>9. EndOf(r, buffer)
  BY <1>3 DEF EndOf
<1> QED
  BY <1>1, <1>3, <1>4, <1>5, <1>6, <1>7, <1>8, <1>9

\* A list goes on, while it does not last as long as required, with the packet behind
\* those of the same timestamp, which has the next sequence number or the same.
GoesOnWith(list, required, k) ==
    LET p == list[k]
        q == list[k + 1]
    IN  /\ ~(Ts(p.ts - list[1].ts) + Duration(p) >= required)
        /\ SeqNo(q.seq - p.seq) = 1 \/ q.seq = p.seq
        /\ \E i, j \in 1 .. Len(Useful) :
              /\ i < j /\ p = Useful[i] /\ q = Useful[j] /\ q.ts # Useful[j - 1].ts
              /\ \A x \in (i + 1) .. (j - 1) : Useful[x].ts = Useful[x - 1].ts

LEMMA ExtractedIs ==
    ASSUME NEW T, T \subseteq Packets, buffer \in Seq(T), Useful # <<>>, NEW required,
           frame \in Frames
    PROVE  /\ Extracted(required) \in Seq(T)
           /\ Len(Extracted(required)) \in 1 .. Len(buffer)
           /\ Extracted(required)[1] = Header
           /\ \A k \in 1 .. Len(Extracted(required)) : Extracted(required)[k].pt = Header.pt
           /\ Duration(Header) >= required => Len(Extracted(required)) = 1
           /\ \A k \in 1 .. (Len(Extracted(required)) - 1) :
                  GoesOnWith(Extracted(required), required, k)
<1> DEFINE u == Useful
           leads == Leads(u)
           p(k) == u[Nth(leads, k)]
           enough(k) == Ts(p(k).ts - p(1).ts) + Duration(p(k)) >= required
           next(k) == /\ p(k + 1).pt = p(1).pt
                      /\ \/ SeqNo(p(k + 1).seq - p(k).seq) = 1
                         \/ p(k + 1).seq = p(k).seq /\ Ts(p(k + 1).ts - p(1).ts) = frame
           count == Cardinality(leads)
           stops == {k \in 1 .. count : enough(k) \/ k = count \/ ~next(k)}
           last == Min(stops)
           list == Extracted(required)
<1>1. list = [k \in 1 .. last |-> p(k)]
  BY DEF Extracted
<1>2. /\ u \in Seq(T) /\ Len(u) \in Nat /\ Len(u) <= Len(buffer) /\ Len(u) >= 1 /\ Header = u[1]
      /\ Header \in T
  BY UsefulIs
<1> HIDE DEF u
<1>3. leads \subseteq 1 .. Len(u) /\ 1 \in leads
  BY <1>2 DEF Leads
<1>4. IsFiniteSet(leads) /\ count \in 1 .. Len(u)
  <2>1. IsFiniteSet(1 .. Len(u)) /\ Cardinality(1 .. Len(u)) = Len(u)
    BY <1>2, FS_Interval
  <2> HIDE DEF leads
  <2>2. IsFiniteSet(leads) /\ Cardinality(leads) <= Len(u)
    BY <1>3, <2>1, FS_Subset
  <2>3. leads \subseteq Nat \ {0}
    BY <1>3
  <2>4. Cardinality(leads) \in Nat \ {0}
    BY <1>3, <2>2, <2>3, FirstIs
  <2> QED
    BY <1>2, <2>2, <2>4
<1>5. Nth(leads, 1) = 1
  <2>1. leads \subseteq Nat \ {0}
    BY <1>2, <1>3
  <2> HIDE DEF leads
  <2> QED
    BY <1>3, <1>4, <2>1, FirstIs
<1>6. ASSUME NEW k \in 1 .. count PROVE Nth(leads, k) \in leads /\ p(k) \in T
  <2>1. leads \subseteq Nat
    BY <1>2, <1>3
  <2> HIDE DEF leads
  <2>2. Nth(leads, k) \in leads
    BY <1>4, <2>1, NthIs
  <2>3. Nth(leads, k) \in 1 .. Len(u)
    BY <1>3, <2>2
  <2> QED
    BY <1>2, <2>2, <2>3
<1>7. p(1) = Header
  BY <1>2, <1>5
<1> DEFINE onward(k) == \E i, j \in 1 .. Len(u) :
              /\ i < j /\ p(k) = u[i] /\ p(k + 1) = u[j] /\ p(k + 1).ts # u[j - 1].ts
              /\ \A x \in (i + 1) .. (j - 1) : u[x].ts = u[x - 1].ts
<1>8. ASSUME NEW k \in 1 .. count, k + 1 \in 1 .. count PROVE onward(k)
  <2> DEFINE i == Nth(leads, k)
             j == Nth(leads, k + 1)
  <2>1. i \in leads /\ j \in leads
    BY <1>6, <1>8
  <2>2. i < j /\ \A x \in leads : x > i => x >= j
    <3>1. leads \subseteq Nat
      BY <1>2, <1>3
    <3> HIDE DEF leads
    <3> QED
      BY <1>4, <1>8, <3>1, NthNext
  <2>3. p(k) = u[i] /\ p(k + 1) = u[j]
    OBVIOUS
  <2> HIDE DEF p, i, j
  <2>4. i \in 1 .. Len(u) /\ j \in 1 .. Len(u)
    BY <1>3, <2>1
  <2>5. u[j].ts # u[j - 1].ts
    BY <2>1, <2>2, <2>4 DEF Leads
  <2>6. ASSUME NEW x \in (i + 1) .. (j - 1) PROVE u[x].ts = u[x - 1].ts
    <3>1. x \in 1 .. Len(u) /\ x > i /\ ~(x >= j) /\ x # 1
      BY <1>2, <2>4
    <3>2. x \notin leads
      BY <2>2, <3>1
    <3>3. x \in DOMAIN u
      BY <1>2, <3>1
    <3> QED
      BY <3>1, <3>2, <3>3 DEF Leads
  <2> QED
    BY <2>2, <2>3, <2>4, <2>5, <2>6
<1> HIDE DEF leads, p, onward
<1>9. stops \subseteq Nat /\ count \in stops
  BY <1>2, <1>4
<1>10. last \in stops /\ \A k \in stops : last <= k
  <2> HIDE DEF stops
  <2> QED
    BY <1>9, MinOf
<1>11. last \in 1 .. count
  BY <1>10
<1>12. ASSUME NEW k \in 1 .. last, k # last
       PROVE  next(k) /\ ~enough(k) /\ k + 1 \in 1 .. last
  <2>1. k \in 1 .. count /\ k < last
    BY <1>4, <1>11, <1>12
  <2>2. k \notin stops
    <3> HIDE DEF stops
    <3> QED
      BY <1>4, <1>10, <1>11, <2>1
  <2> HIDE DEF enough, next
  <2>3. next(k) /\ ~enough(k)
    BY <2>1, <2>2
  <2> QED
    BY <1>4, <1>11, <2>1, <2>3
<1> HIDE DEF count, stops, last, list
<1>13. list \in Seq(T) /\ Len(list) = last /\ \A k \in 1 .. last : list[k] = p(k)
  <2>1. last \in Nat /\ \A k \in 1 .. last : p(k) \in T
    BY <1>4, <1>6, <1>11
  <2> QED
    BY <1>1, <2>1
<1>14. ASSUME NEW k \in 1 .. last PROVE p(k).pt = Header.pt
  <2>1. CASE k = 1
    BY <1>7, <2>1
  <2>2. CASE k # 1
    <3>1. k - 1 \in 1 .. last /\ k - 1 # last /\ (k - 1) + 1 = k
      BY <1>4, <1>11, <2>2
    <3>2. next(k - 1)
      BY <1>12, <3>1
    <3>3. p((k - 1) + 1).pt = p(1).pt
      BY <3>2
    <3> QED
      BY <1>7, <3>1, <3>3
  <2> QED
    BY <2>1, <2>2
<1>15. ASSUME Duration(Header) >= required PROVE last = 1
  <2>1. Header.ts \in Stamps /\ Duration(Header) \in Nat
    <3>1. Header \in Packets
      BY <1>2
    <3> QED
      BY <3>1, Limits DEF Packets, Duration, Frames
  <2>2. Ts(Header.ts - Header.ts) = 0
    <3>1. Header.ts - Header.ts = 0 /\ 0 \in Stamps
      BY <2>1, SpansAssumption DEF Stamps
    <3> QED
      BY <3>1, OnTheCircle
  <2>3. enough(1)
    BY <1>7, <1>15, <2>1, <2>2
  <2> HIDE DEF enough, next
  <2>4. 1 \in stops
    BY <1>4, <2>3, <1>2 DEF stops
  <2> QED
    BY <1>4, <1>10, <1>11, <2>4
<1>16. ASSUME NEW k \in 1 .. (Len(list) - 1) PROVE GoesOnWith(list, required, k)
  <2>1. k \in 1 .. last /\ k # last /\ k + 1 \in 1 .. last /\ 1 \in 1 .. last
    BY <1>4, <1>11, <1>13
  <2>2. list[k] = p(k) /\ list[k + 1] = p(k + 1) /\ list[1] = p(1)
    BY <1>13, <2>1
  <2>3. /\ ~enough(k)
        /\ SeqNo(p(k + 1).seq - p(k).seq) = 1 \/ p(k + 1).seq = p(k).seq
    BY <1>12, <2>1
  <2>4. onward(k)
    <3>1. k \in 1 .. count /\ k + 1 \in 1 .. count
      BY <1>4, <1>11, <2>1
    <3> QED
      BY <1>8, <3>1
  <2> QED
    BY <2>2, <2>3, <2>4 DEF GoesOnWith, onward, u
<1> HIDE DEF enough, next
<1>17. last \in 1 .. Len(buffer) /\ list[1] = Header
  BY <1>2, <1>4, <1>7, <1>11, <1>13
<1> QED
  BY <1>13, <1>14, <1>15, <1>17, <1>16 DEF list

LEMMA RestIs ==
    ASSUME NEW T, buffer \in Seq(T), NEW list
    PROVE  /\ Rest(list) \in Seq(T) /\ Len(Rest(list)) \in Nat /\ Len(Rest(list)) <= Len(buffer)
           /\ \A k \in 1 .. Len(Rest(list)) : \E j \in 1 .. Len(buffer) : Rest(list)[k] = buffer[j]
           /\ EndOf(Rest(list), buffer)
<1> DEFINE u == Useful
           gone == {q.ts : q \in Range(list)}
           places == {k \in DOMAIN u : ~(u[k].ts \in gone)}
           r == Suffix(u, places)
<1>1. Rest(list) = r
  BY DEF Rest, WithoutFront, Suffix
<1>2. /\ u \in Seq(T) /\ Len(u) \in Nat /\ Len(u) <= Len(buffer)
      /\ \A k \in 1 .. Len(u) : \E j \in 1 .. Len(buffer) : u[k] = buffer[j]
      /\ EndOf(u, buffer)
  BY UsefulIs
<1> HIDE DEF u
<1>3. places \subseteq DOMAIN u /\ DOMAIN u = 1 .. Len(u)
  BY <1>2
<1> HIDE DEF places
<1>4. /\ r \in Seq(T) /\ Len(r) \in Nat /\ Len(r) <= Len(u)
      /\ \A k \in 1 .. Len(r) : Len(u) - Len(r) + k \in DOMAIN u /\ r[k] = u[Len(u) - Len(r) + k]
  BY <1>2, <1>3, SuffixIs
<1> HIDE DEF r
<1>5. \A k \in 1 .. Len(r) : \E j \in 1 .. Len(buffer) : r[k] = buffer[j]
  BY <1>2, <1>3, <1>4
<1>6. EndOf(r, buffer)
  <2> SUFFICES ASSUME NEW k \in 1 .. Len(r)
               PROVE  r[k] = buffer[Len(buffer) - Len(r) + k]
    BY DEF EndOf
  <2>1. r[k] = u[Len(u) - Len(r) + k] /\ Len(u) - Len(r) + k \in 1 .. Len(u)
    BY <1>3, <1>4
  <2>2. Len(buffer) \in Nat
    OBVIOUS
  <2>3. Len(buffer) - Len(u) + (Len(u) - Len(r) + k) = Len(buffer) - Len(r) + k
    BY <1>2, <1>4, <2>2
  <2> QED
    BY <1>2, <2>1, <2>3 DEF EndOf
<1> QED
  BY <1>1, <1>2, <1>4, <1>5, <1>6


-----------------------------------------------------------------------------
(* The state, and what is decided in it.                                     *)

\* A packet that the stream may have brought.
Came(p) == \E n \in Slots : \/ p = PacketOf(n) \/ p = SyncOf(n)
                            \/ sent[n].fec /\ p = FecOf(n)
Arrived == {p \in Packets : Came(p)}

Formats == [khz : Nat, channels : Nat \ {0}]
Codecs == [pt : Speeches, cng : Noises, ssrc : Nat, first : BOOLEAN, new : BOOLEAN,
           active : SpeechTypes \cup {NoType}, ts : Stamps]
Syncs == [end : Stamps, left : Nat, format : Formats]
Modes == {"normal", "expand", "merge", "stretched", "unstretched", "rfc3389", "internal", "error"}
Logics == [cng : {"off", "rfc3389", "internal"}, noise : 0 .. MaxNoise,
           expands : 0 .. (kReinitAfterExpands + 1), hold : 0 .. kMinTimescaleInterval,
           scaled : BOOLEAN]
Ops == {"cng", "cng_no_packet", "internal", "expand", "normal", "accelerate", "preemptive",
        "merge", "undefined"}

Types ==
    /\ sent \in Streams
    /\ buffer \in Seq(Arrived) /\ Len(buffer) <= MaxPackets
    /\ codec \in Codecs /\ sync \in Syncs /\ frame \in Frames
    /\ last_mode \in Modes /\ logic \in Logics
    /\ asserted \in BOOLEAN /\ bereft \in BOOLEAN /\ full \in BOOLEAN

LEMMA NoiseIs == \A n \in Nat : Noise(n) \in 0 .. MaxNoise
<1> SUFFICES ASSUME NEW n \in Nat PROVE Noise(n) \in 0 .. MaxNoise
  OBVIOUS
<1>1. Min({n, MaxNoise}) = IF n <= MaxNoise THEN n ELSE MaxNoise
  BY Limits, MinOfTwo
<1> QED
  BY <1>1, Limits DEF Noise

LEMMA OutputIs ==
    ASSUME NEW left \in Int, NEW s \in Syncs, full \in BOOLEAN, Output(left, s)
    PROVE  /\ sync' \in Syncs /\ sync'.end = s.end /\ sync'.format = s.format
           /\ sync'.left = IF left >= Block THEN left - Block ELSE 0
           /\ full' = (full /\ left >= Block) /\ full' \in BOOLEAN
<1>1. Max({left - Block, 0}) = IF left >= Block THEN left - Block ELSE 0
  BY Limits, MaxOfTwo
<1>2. sync' = [s EXCEPT !.left = IF left >= Block THEN left - Block ELSE 0]
  BY <1>1 DEF Output
<1> QED
  BY <1>2, Limits DEF Output, Syncs

LEMMA CountedIs ==
    ASSUME Types
    PROVE  /\ Counted \in Logics
           /\ Counted.cng = IF last_mode \in {"rfc3389", "internal"} THEN last_mode ELSE logic.cng
<1> DEFINE noisy == last_mode \in {"rfc3389", "internal"}
           hold == IF ~noisy /\ logic.scaled /\ last_mode = "stretched"
                   THEN kMinTimescaleInterval ELSE logic.hold
           cng == IF noisy THEN last_mode ELSE logic.cng
           noise == IF noisy \/ last_mode = "expand" THEN Noise(logic.noise + Block) ELSE logic.noise
           lower == Max({hold - 1, 0})
<1>1. logic \in Logics /\ last_mode \in Modes
  BY DEF Types
<1>2. Counted = [logic EXCEPT !.cng = cng, !.noise = noise, !.hold = lower, !.scaled = FALSE]
  BY DEF Counted
<1>3. cng \in {"off", "rfc3389", "internal"}
  BY <1>1 DEF Logics, Modes
<1>4. noise \in 0 .. MaxNoise
  <2>1. logic.noise + Block \in Nat
    BY <1>1, Limits DEF Logics
  <2> QED
    BY <1>1, <2>1, NoiseIs DEF Logics
<1>5. lower \in 0 .. kMinTimescaleInterval
  <2>1. hold \in 0 .. kMinTimescaleInterval
    BY <1>1, Limits DEF Logics
  <2> HIDE DEF hold
  <2>2. lower = IF hold - 1 >= 0 THEN hold - 1 ELSE 0
    BY <2>1, Limits, MaxOfTwo
  <2> QED
    BY <2>1, <2>2, Limits
<1> HIDE DEF noise, lower
<1> QED
  BY <1>1, <1>2, <1>3, <1>4, <1>5 DEF Logics

LEMMA HeaderIs ==
    ASSUME Types, Useful # <<>>
    PROVE  Header \in Arrived /\ Header \in Packets /\ Came(Header)
<1>1. Header \in Arrived
  BY UsefulIs DEF Types
<1> QED
  BY <1>1 DEF Arrived

LEMMA DueIs ==
    ASSUME Types, Useful # <<>> PROVE Due \in Int
<1>1. Header.ts \in Stamps /\ sync.end \in Stamps /\ Counted.noise \in Nat
  BY HeaderIs, CountedIs DEF Types, Packets, Syncs, Logics
<1> HIDE DEF Counted, Header
<1>2. Counted.noise + sync.end - Header.ts \in Int
  <2>1. Header.ts \in Int /\ sync.end \in Int /\ Counted.noise \in Int
    BY <1>1 DEF Stamps
  <2> QED
    BY <2>1
<1>3. Ts(Counted.noise + sync.end - Header.ts) \in Nat
  BY <1>2, OnTheCircle
<1>4. TsSpan \in Nat
  BY SpansAssumption
<1> QED
  BY <1>3, <1>4 DEF Due, Signed

LEMMA CngOperationIs ==
    ASSUME Types, Useful # <<>>, NEW level \in Levels
    PROVE  LET d == CngOperation(level)
           IN  /\ d.op = "cng" \/ (d.op = "cng_no_packet" /\ last_mode = "rfc3389")
               /\ d.noise \in 0 .. MaxNoise
<1>1. Due \in Int /\ level \in Nat /\ Counted.noise \in 0 .. MaxNoise
  BY DueIs, CountedIs, Limits DEF Logics
<1> DEFINE far == -Due - level > level \div 2
           ahead == Counted.noise - Due - level
<1>2. far => Noise(ahead) \in 0 .. MaxNoise
  <2>1. level \div 2 \in Nat
    BY <1>1
  <2>2. far => ahead \in Nat
    BY <1>1, <2>1, Limits
  <2> QED
    BY <2>2, NoiseIs
<1> QED
  BY <1>1, <1>2 DEF CngOperation

\* What may be decided, and when.
LEMMA DecisionIs ==
    ASSUME Types, NEW d \in Decisions
    PROVE  /\ d.op \in Ops /\ d.noise \in 0 .. MaxNoise
           /\ Useful = <<>> => d.op \in {"cng_no_packet", "internal", "expand"}
           /\ d.op = "cng" => Useful # <<>> /\ IsComfortNoise(Header)
           /\ d.op = "cng_no_packet" => Counted.cng = "rfc3389"
           /\ d.op = "internal" => Counted.cng = "internal"
           /\ d.op = "expand" => \/ last_mode = "error"
                                 \/ /\ last_mode \notin {"rfc3389", "internal"}
                                    /\ Useful = <<>> => Counted.cng = "off"
           /\ d.op = "undefined" => \/ last_mode = "error"
                                    \/ /\ Useful # <<>> /\ Header.ts # sync.end
                                       /\ ~NewerTs(Header.ts, sync.end)
           /\ d.op = "accelerate" => last_mode # "expand"
           /\ Useful # <<>> /\ IsComfortNoise(Header) /\ last_mode # "error"
                 => d.op \in {"cng", "cng_no_packet"}
<1>1. /\ Counted \in Logics
      /\ Counted.cng = IF last_mode \in {"rfc3389", "internal"} THEN last_mode ELSE logic.cng
      /\ Counted.noise \in 0 .. MaxNoise /\ Counted.cng \in {"off", "rfc3389", "internal"}
  BY CountedIs DEF Logics
<1>2. \/ WithoutPacket = "cng_no_packet" /\ Counted.cng = "rfc3389"
      \/ WithoutPacket = "internal" /\ Counted.cng = "internal"
      \/ WithoutPacket = "expand" /\ Counted.cng = "off"
  BY <1>1 DEF WithoutPacket
<1>3. \A op : Plain(op).op = op /\ Plain(op).noise = Counted.noise
  BY DEF Plain
<1> HIDE DEF Counted, WithoutPacket, Plain
<1>4. CASE last_mode = "error"
  <2>1. d = Plain(IF Useful = <<>> THEN "expand" ELSE "undefined")
    BY <1>4 DEF Decisions
  <2> QED
    BY <1>1, <1>3, <1>4, <2>1 DEF Ops
<1>5. CASE last_mode # "error" /\ Useful = <<>>
  <2>1. d = Plain(WithoutPacket)
    BY <1>5 DEF Decisions
  <2> QED
    BY <1>1, <1>2, <1>3, <1>5, <2>1 DEF Ops
<1>6. CASE last_mode # "error" /\ Useful # <<>> /\ IsComfortNoise(Header)
  <2>1. PICK level \in Levels : d = CngOperation(level)
    BY <1>6 DEF Decisions
  <2>2. /\ d.op = "cng" \/ (d.op = "cng_no_packet" /\ last_mode = "rfc3389")
        /\ d.noise \in 0 .. MaxNoise
    BY <1>6, <2>1, CngOperationIs
  <2> QED
    BY <1>1, <1>6, <2>2 DEF Ops
<1>7. CASE last_mode # "error" /\ Useful # <<>> /\ ~IsComfortNoise(Header)
  <2>1. CASE d = Plain("normal")
    BY <1>1, <1>3, <1>7, <2>1 DEF Ops
  <2>2. CASE \E op \in Stretches : d = Plain(op)
    <3>1. PICK op \in Stretches : d = Plain(op)
      BY <2>2
    <3>2. op \in {"normal", "accelerate", "preemptive"} /\ (op = "accelerate" => last_mode # "expand")
      BY DEF Stretches
    <3> QED
      BY <1>1, <1>3, <1>7, <3>1, <3>2 DEF Ops
  <2>3. CASE \E level \in Levels, under \in BOOLEAN : d = Plain(Future(level, under))
    <3>1. PICK level \in Levels, under \in BOOLEAN : d = Plain(Future(level, under))
      BY <2>3
    <3>2. \/ Future(level, under) = "expand" /\ last_mode \notin {"rfc3389", "internal"}
          \/ Future(level, under) = "normal"
          \/ Future(level, under) = WithoutPacket /\ last_mode \in {"rfc3389", "internal"}
          \/ Future(level, under) = "merge"
      BY DEF Future
    <3> HIDE DEF Future
    <3> QED
      BY <1>1, <1>2, <1>3, <1>7, <3>1, <3>2 DEF Ops
  <2>4. CASE d = Plain("undefined") /\ Header.ts # sync.end /\ ~NewerTs(Header.ts, sync.end)
    BY <1>1, <1>3, <1>7, <2>4 DEF Ops
  <2> HIDE DEF Useful, Header
  <2> QED
    BY <1>7, <2>1, <2>2, <2>3, <2>4 DEF Decisions
<1> QED
  BY <1>4, <1>5, <1>6, <1>7

-----------------------------------------------------------------------------
(* What comes is what was sent.                                              *)
Slot == [pt : Pts, ssrc : Nat, at : Nat, len : Frames, cn : BOOLEAN, fec : BOOLEAN]

LEMMA SlotIs ==
    ASSUME sent \in Streams, NEW n \in Slots
    PROVE  /\ n \in Nat /\ sent[n] \in Slot
           /\ sent[n].fec => /\ n - 1 \in Slots /\ sent[n - 1] \in Slot
                             /\ sent[n - 1].pt = sent[n].pt
                             /\ sent[n - 1].at + sent[n].len <= sent[n].at
           /\ sent[n].at + MaxPackets * kMaxFrameSize < TsSpan \div 2 - 1
BY StreamsAssumption, WindowAssumption DEF Slots, Slot, Pts, Frames

\* The payload type of a packet is a slot's, its length that of a slot of the type, and
\* its timestamp no more than the slot's.
Sent(p) ==
    \E n, m \in Slots : \E x \in 0 .. sent[n].at :
        /\ p.pt = sent[n].pt /\ sent[m].pt = sent[n].pt /\ p.len = sent[m].len
        /\ p.ts = Ts(TsStart + x)

LEMMA PacketIs ==
    ASSUME sent \in Streams, NEW n \in Slots
    PROVE  /\ PacketOf(n) \in Packets /\ Sent(PacketOf(n))
           /\ SyncOf(n) \in Packets /\ Sent(SyncOf(n))
<1>1. n \in Nat /\ sent[n] \in Slot
  BY SlotIs
<1>2. SeqNo(SeqStart + n) \in 0 .. (SeqSpan - 1) /\ Ts(TsStart + sent[n].at) \in Stamps
  <2>1. SeqStart + n \in Int /\ TsStart + sent[n].at \in Int
    BY <1>1, Limits DEF Slot
  <2> QED
    BY <2>1, OnTheCircle
<1>3. PacketOf(n) \in Packets /\ SyncOf(n) \in Packets
  BY <1>1, <1>2 DEF PacketOf, SyncOf, Packets, Slot, Frames
<1>4. sent[n].at \in 0 .. sent[n].at
  BY <1>1 DEF Slot
<1>5. Sent(PacketOf(n)) /\ Sent(SyncOf(n))
  BY <1>4 DEF PacketOf, SyncOf, Sent
<1> QED
  BY <1>3, <1>5

\* A copy starts where its audio would, had it been sent just before its carrier.
LEMMA FecAt ==
    ASSUME sent \in Streams, NEW n \in Slots, sent[n].fec
    PROVE  LET len == sent[n].len
               x == sent[n].at - len
           IN  /\ len \in Frames /\ n - 1 \in Slots /\ n - 1 \in Nat /\ sent[n - 1].pt = sent[n].pt
               /\ x \in 0 .. sent[n].at /\ sent[n - 1].at <= x
               /\ FecOf(n) = [PacketOf(n) EXCEPT !.n = n - 1, !.ts = Ts(TsStart + x),
                                                 !.primary = FALSE]
               /\ PacketOf(n).len = len /\ Ts(TsStart + x) \in Stamps
<1> DEFINE len == sent[n].len
           x == sent[n].at - len
<1>1. /\ n \in Nat /\ sent[n] \in Slot /\ n - 1 \in Slots /\ sent[n - 1] \in Slot /\ n - 1 \in Nat
      /\ sent[n - 1].pt = sent[n].pt
      /\ sent[n - 1].at + len <= sent[n].at
  <2>1. n - 1 \in Slots
    BY SlotIs
  <2> QED
    BY <2>1, SlotIs
<1>2. len \in Frames /\ len \in Nat /\ sent[n].at \in Nat /\ sent[n - 1].at \in Nat
  BY <1>1, Limits DEF Slot, Frames
<1>3. x \in 0 .. sent[n].at /\ sent[n - 1].at <= x
  BY <1>1, <1>2
<1>4. Ts(Ts(TsStart + sent[n].at) - len) = Ts(TsStart + x) /\ Ts(TsStart + x) \in Stamps
  <2>1. TsStart + sent[n].at \in Int /\ -len \in Int
        /\ (TsStart + sent[n].at) + (-len) = TsStart + x /\ TsStart + x \in Int
    BY <1>2, Limits
  <2>2. (((TsStart + sent[n].at) % TsSpan) + (-len)) % TsSpan = (TsStart + x) % TsSpan
    BY <2>1, SpansAssumption, GoesOn
  <2>3. (TsStart + sent[n].at) % TsSpan \in Int
    BY <2>1, SpansAssumption
  <2>4. ((TsStart + sent[n].at) % TsSpan) - len = ((TsStart + sent[n].at) % TsSpan) + (-len)
    BY <1>2, <2>3
  <2>5. Ts(TsStart + x) \in Stamps
    BY <2>1, OnTheCircle
  <2> HIDE DEF x, len
  <2> QED
    BY <2>2, <2>4, <2>5 DEF Ts
<1> HIDE DEF x
<1>5. /\ FecOf(n) = [PacketOf(n) EXCEPT !.n = n - 1, !.ts = Ts(TsStart + x), !.primary = FALSE]
      /\ PacketOf(n).len = len
  BY <1>4 DEF FecOf, PacketOf
<1> HIDE DEF len
<1> QED
  BY <1>1, <1>2, <1>3, <1>4, <1>5 DEF x, len

LEMMA FecIs ==
    ASSUME sent \in Streams, NEW n \in Slots, sent[n].fec
    PROVE  FecOf(n) \in Packets /\ Sent(FecOf(n))
<1> DEFINE len == sent[n].len
           x == sent[n].at - len
<1>1. /\ len \in Frames /\ n - 1 \in Slots /\ n - 1 \in Nat /\ sent[n - 1].pt = sent[n].pt
      /\ x \in 0 .. sent[n].at /\ Ts(TsStart + x) \in Stamps
      /\ FecOf(n) = [PacketOf(n) EXCEPT !.n = n - 1, !.ts = Ts(TsStart + x),
                                        !.primary = FALSE]
      /\ PacketOf(n).len = len
  BY FecAt
<1> HIDE DEF x
<1>2. PacketOf(n) \in Packets /\ PacketOf(n).pt = sent[n].pt
  BY PacketIs DEF PacketOf
<1> HIDE DEF len
<1>3. FecOf(n) \in Packets
  BY <1>1, <1>2 DEF Packets, Frames
<1>4. FecOf(n).pt = sent[n].pt /\ FecOf(n).len = len /\ FecOf(n).ts = Ts(TsStart + x)
  BY <1>1, <1>2 DEF Packets
<1> QED
  BY <1>1, <1>3, <1>4 DEF Sent, len

LEMMA ArrivedIs ==
    ASSUME sent \in Streams, NEW p \in Arrived PROVE p \in Packets /\ Sent(p)
BY PacketIs, FecIs DEF Arrived, Came

\* What is inserted.
LEMMA ListIs ==
    ASSUME sent \in Streams, NEW n \in Slots
    PROVE  /\ ListOf(n) \in Seq(Arrived) /\ Len(ListOf(n)) \in 1 .. 2
           /\ <<SyncOf(n)>> \in Seq(Arrived) /\ Len(<<SyncOf(n)>>) \in 1 .. 2
           /\ PacketOf(n) \in Packets /\ SyncOf(n) \in Packets /\ sent[n].ssrc \in Nat
<1>1. PacketOf(n) \in Arrived /\ SyncOf(n) \in Arrived
  BY PacketIs DEF Arrived, Came
<1>2. sent[n].fec => FecOf(n) \in Arrived
  BY FecIs DEF Arrived, Came
<1>3. sent[n].ssrc \in Nat
  BY SlotIs DEF Slot
<1>4. PacketOf(n) \in Packets /\ SyncOf(n) \in Packets
  BY PacketIs
<1> QED
  BY <1>1, <1>2, <1>3, <1>4 DEF ListOf

LEMMA StillArrived == ASSUME sent' = sent PROVE Arrived' = Arrived
<1>1. Slots' = Slots
  BY DEF Slots
<1>2. \A n : PacketOf(n)' = PacketOf(n)
  BY DEF PacketOf
<1>3. \A n : SyncOf(n)' = SyncOf(n)
  BY DEF SyncOf, PacketOf
<1>4. \A n : FecOf(n)' = FecOf(n)
  BY DEF FecOf, PacketOf
<1>5. \A p : Came(p)' <=> Came(p)
  BY <1>1, <1>2, <1>3, <1>4 DEF Came
<1> QED
  BY <1>5 DEF Arrived

LEMMA FormatIs == \A pt \in Pts : Format[pt] \in Formats
BY TypesAssumption DEF Pts, Formats

-----------------------------------------------------------------------------
(* What each action leaves.                                                  *)

Typed == Types /\ OneCodec(buffer, codec.pt)

Inserted ==
    /\ Typed' /\ Len(buffer') >= 1 /\ ~codec'.first
    /\ ~codec'.new => /\ ~codec.new /\ ~codec.first /\ sync' = sync
                      /\ last_mode' = last_mode /\ codec'.active = codec.active
                      /\ codec'.pt = codec.pt \/ codec.pt = NoType
    /\ last_mode' \in {last_mode, "normal"} /\ sync'.left \in {sync.left, 0}
    /\ \/ sync'.format = sync.format /\ frame' = frame
       \/ frame' = 3 * Block /\ \E p \in Arrived : sync'.format = Format[p.pt]
    /\ UNCHANGED <<logic, sent, asserted, bereft, full>>

LEMMA InsertLeaves ==
    ASSUME Typed, sent' = sent,
           NEW list \in Seq(Arrived), Len(list) \in 1 .. 2, NEW main \in Packets, NEW ssrc \in Nat,
           Insert(list, main, ssrc)
    PROVE  Inserted
<1> DEFINE reinit == Reinit(ssrc)
           before == IF reinit THEN <<>> ELSE buffer
           pt == IF reinit THEN main.pt ELSE codec.pt
           s == InsertPacketList(before, pt, codec.cng, list)
           format == Format[Head(s.buffer).pt]
           restart == reinit \/ s.flushed
           end == IF reinit THEN Ts(sync.end + main.ts - codec.ts) ELSE sync.end
<1>1. /\ sent \in Streams /\ buffer \in Seq(Arrived) /\ Len(buffer) <= MaxPackets
      /\ codec \in Codecs /\ sync \in Syncs /\ frame \in Frames
      /\ last_mode \in Modes /\ logic \in Logics
      /\ asserted \in BOOLEAN /\ bereft \in BOOLEAN /\ full \in BOOLEAN
      /\ OneCodec(buffer, codec.pt)
  BY DEF Typed, Types
<1>2. reinit \in BOOLEAN /\ (~reinit => ~codec.first)
  BY <1>1 DEF Reinit, Codecs
<1>3. /\ buffer' = s.buffer
      /\ codec' = [codec EXCEPT !.pt = s.pt, !.cng = s.cng, !.ssrc = ssrc, !.first = FALSE,
                                !.new = @ \/ restart, !.ts = IF reinit THEN main.ts ELSE @]
      /\ IF restart /\ format # sync.format
         THEN ChangeFormat(format)
         ELSE sync' = [sync EXCEPT !.end = end] /\ UNCHANGED <<frame, last_mode>>
      /\ UNCHANGED <<logic, asserted, bereft, full>>
  BY DEF Insert
<1> HIDE DEF reinit
<1>4. Arrived \subseteq Packets
  BY DEF Arrived
<1>5. pt \in Speeches /\ codec.cng \in Noises /\ main.ts \in Stamps
  BY <1>1 DEF Codecs, Packets, Speeches
<1>6. before \in Seq(Arrived) /\ Len(before) <= MaxPackets /\ OneCodec(before, pt)
  <2>1. <<>> \in Seq(Arrived) /\ Len(<<>>) = 0 /\ OneCodec(<<>>, main.pt)
    BY DEF OneCodec
  <2> QED
    BY <1>1, <2>1, Limits
<1> HIDE DEF before, pt
<1>7. /\ s \in Inserting(Arrived) /\ Len(s.buffer) \in 1 .. MaxPackets /\ OneCodec(s.buffer, s.pt)
      /\ ~s.flushed => s.pt = pt \/ pt = NoType
  BY <1>4, <1>5, <1>6, InsertsList
<1> HIDE DEF s
<1>8. /\ s.buffer \in Seq(Arrived) /\ s.pt \in Speeches /\ s.cng \in Noises /\ s.flushed \in BOOLEAN
      /\ Len(s.buffer) >= 1 /\ Len(s.buffer) <= MaxPackets
  BY <1>7, Limits DEF Inserting
<1>9. Head(s.buffer) \in Arrived /\ format \in Formats
  <2>1. Head(s.buffer) \in Arrived
    BY <1>8
  <2>2. Head(s.buffer).pt \in Pts
    BY <1>4, <2>1 DEF Packets
  <2> QED
    BY <2>1, <2>2, FormatIs
<1>10. \E p \in Arrived : format = Format[p.pt]
  BY <1>9
<1> HIDE DEF format
<1>11. codec' \in Codecs /\ codec'.pt = s.pt /\ ~codec'.first /\ codec'.active = codec.active
       /\ (codec'.new <=> codec.new \/ restart)
  BY <1>1, <1>2, <1>3, <1>5, <1>8 DEF Codecs
<1>12. end \in Stamps
  <2>1. sync.end \in Int /\ codec.ts \in Int /\ main.ts \in Int
    BY <1>1, <1>5 DEF Stamps, Syncs, Codecs
  <2>2. sync.end + main.ts - codec.ts \in Int
    BY <2>1
  <2> QED
    BY <1>1, <2>2, OnTheCircle DEF Syncs
<1>13. ~reinit => end = sync.end
  OBVIOUS
<1> HIDE DEF end
<1>14. /\ sync' \in Syncs /\ frame' \in Frames /\ last_mode' \in {last_mode, "normal"}
       /\ sync'.left \in {sync.left, 0}
       /\ \/ sync'.format = sync.format /\ frame' = frame
          \/ frame' = 3 * Block /\ sync'.format = format
  <2>1. CASE restart /\ format # sync.format
    <3>1. sync' = NewSync(format) /\ frame' = 3 * Block /\ last_mode' = "normal"
      BY <1>3, <2>1 DEF ChangeFormat
    <3>2. 0 \in Stamps
      BY SpansAssumption DEF Stamps
    <3> QED
      BY <1>9, <3>1, <3>2, Limits DEF NewSync, Syncs
  <2>2. CASE ~(restart /\ format # sync.format)
    <3>1. sync' = [sync EXCEPT !.end = end] /\ frame' = frame /\ last_mode' = last_mode
      BY <1>3, <2>2
    <3> QED
      BY <1>1, <1>12, <3>1 DEF Syncs
  <2> QED
    BY <2>1, <2>2
<1>15. Typed'
  <2>1. Arrived' = Arrived
    BY StillArrived
  <2>2. last_mode' \in Modes
    BY <1>1, <1>14 DEF Modes
  <2> QED
    BY <1>1, <1>3, <1>7, <1>8, <1>11, <1>14, <2>1, <2>2 DEF Typed, Types
<1>16. ASSUME ~codec'.new
       PROVE  /\ ~codec.new /\ ~codec.first /\ sync' = sync
              /\ last_mode' = last_mode /\ codec'.active = codec.active
              /\ codec'.pt = codec.pt \/ codec.pt = NoType
  <2>1. ~codec.new /\ ~reinit /\ ~s.flushed
    BY <1>11, <1>16
  <2>2. sync' = [sync EXCEPT !.end = end] /\ last_mode' = last_mode
    BY <1>3, <2>1
  <2>3. sync' = sync
    BY <1>1, <1>13, <2>1, <2>2 DEF Syncs
  <2>4. pt = codec.pt
    BY <2>1 DEF pt
  <2> QED
    BY <1>2, <1>7, <1>11, <2>1, <2>2, <2>3, <2>4
<1> QED
  BY <1>3, <1>8, <1>10, <1>11, <1>14, <1>15, <1>16 DEF Inserted

LEMMA FlushLeaves ==
    ASSUME Typed, FlushBuffers
    PROVE  /\ Typed' /\ buffer' = <<>> /\ codec'.first /\ sync'.left = 0
           /\ sync'.format = sync.format /\ (codec'.new <=> codec.new)
           /\ bereft' = (bereft \/ codec.new)
           /\ UNCHANGED <<frame, last_mode, logic, sent, full, asserted>>
<1>1. Types
  BY DEF Typed
<1>2. sync' = [end |-> 0, left |-> 0, format |-> sync.format] /\ sync' \in Syncs
  <2>1. 0 \in Stamps
    BY SpansAssumption DEF Stamps
  <2> QED
    BY <1>1, <2>1 DEF FlushBuffers, NewSync, Types, Syncs
<1>3. codec' \in Codecs /\ codec'.first /\ (codec'.new <=> codec.new)
  BY <1>1 DEF FlushBuffers, Types, Codecs
<1>4. buffer' = <<>> /\ sent' = sent /\ Arrived' = Arrived
  BY StillArrived DEF FlushBuffers
<1>5. /\ bereft' = (bereft \/ codec.new)
      /\ UNCHANGED <<frame, last_mode, logic, sent, full, asserted>>
  BY DEF FlushBuffers
<1>6. Len(<<>>) = 0 /\ <<>> \in Seq(Arrived) /\ OneCodec(<<>>, codec'.pt)
  BY DEF OneCodec
<1>7. codec.new \in BOOLEAN
  BY <1>1 DEF Types, Codecs
<1> QED
  BY <1>1, <1>2, <1>3, <1>4, <1>5, <1>6, <1>7, Limits DEF Typed, Types

\* The packets left, of use or not taken, are still of the codec.
LEMMA LeftOver ==
    ASSUME Typed, sent' = sent, codec'.pt = codec.pt,
           buffer' = Useful \/ \E list : buffer' = Rest(list)
    PROVE  /\ buffer' \in Seq(Arrived)' /\ Len(buffer') <= MaxPackets /\ OneCodec(buffer, codec.pt)'
<1>1. Types /\ OneCodec(buffer, codec.pt) /\ Arrived' = Arrived /\ Len(buffer) \in Nat
  BY StillArrived DEF Typed, Types
<1>2. /\ buffer' \in Seq(Arrived) /\ Len(buffer') \in Nat /\ Len(buffer') <= Len(buffer)
      /\ \A k \in 1 .. Len(buffer') : \E j \in 1 .. Len(buffer) : buffer'[k] = buffer[j]
  <2>1. CASE buffer' = Useful
    BY <1>1, <2>1, UsefulIs DEF Types
  <2>2. CASE \E list : buffer' = Rest(list)
    BY <1>1, <2>2, RestIs DEF Types
  <2> QED
    BY <2>1, <2>2
<1>3. OneCodec(buffer', codec.pt)
  BY <1>1, <1>2 DEF OneCodec
<1>4. Len(buffer') <= MaxPackets
  BY <1>1, <1>2, Limits DEF Types
<1>5. OneCodec(buffer, codec.pt)' = OneCodec(buffer', codec'.pt)
  BY DEF OneCodec, IsComfortNoise
<1> QED
  BY <1>1, <1>2, <1>3, <1>4, <1>5

LEMMA ChosenIs ==
    ASSUME Types, NEW d, d.noise \in 0 .. MaxNoise
    PROVE  /\ Chosen(d) \in Logics /\ Chosen(d).cng = Counted.cng
           /\ [Counted EXCEPT !.noise = d.noise] \in Logics
           /\ [Counted EXCEPT !.noise = d.noise].cng = Counted.cng
<1> DEFINE more == Min({logic.expands + 1, kReinitAfterExpands + 1})
<1>1. Counted \in Logics /\ logic.expands \in 0 .. (kReinitAfterExpands + 1)
  BY CountedIs DEF Types, Logics
<1>2. more \in 0 .. (kReinitAfterExpands + 1)
  <2>1. logic.expands + 1 \in Nat /\ kReinitAfterExpands + 1 \in Nat
    BY <1>1, Limits
  <2>2. more = IF logic.expands + 1 <= kReinitAfterExpands + 1
               THEN logic.expands + 1 ELSE kReinitAfterExpands + 1
    BY <2>1, MinOfTwo
  <2> QED
    BY <2>1, <2>2
<1> HIDE DEF more
<1>3. Expands(d.op) \in 0 .. (kReinitAfterExpands + 1)
  BY <1>2, Limits DEF Expands, more
<1> HIDE DEF Counted, Expands
<1>4. Chosen(d) = [Counted EXCEPT !.noise = d.noise, !.expands = Expands(d.op)]
  BY DEF Chosen
<1> QED
  BY <1>1, <1>3, <1>4 DEF Logics

LEMMA SoftResetIs ==
    ASSUME NEW l \in Logics PROVE SoftReset(l) \in Logics /\ SoftReset(l).cng = l.cng
<1>1. kMinTimescaleInterval \in 0 .. kMinTimescaleInterval
  BY Limits
<1> DEFINE held == [l EXCEPT !.hold = kMinTimescaleInterval]
<1>2. held \in Logics /\ held.cng = l.cng
  BY <1>1 DEF Logics
<1>3. SoftReset(l) = [held EXCEPT !.scaled = FALSE]
  BY DEF SoftReset
<1> HIDE DEF held
<1> QED
  BY <1>2, <1>3 DEF Logics

LEMMA KeepLeaves ==
    ASSUME Typed, NEW d \in Decisions, KeepPlaying(d)
    PROVE  /\ Typed' /\ buffer' = Useful /\ logic'.cng = Counted.cng
           /\ sync.left >= Block /\ sync'.left = sync.left - Block
           /\ sync'.end = sync.end /\ sync'.format = sync.format
           /\ UNCHANGED <<codec, frame, last_mode, sent, asserted, bereft, full>>
<1>1. Types /\ sync \in Syncs /\ full \in BOOLEAN /\ d.noise \in 0 .. MaxNoise /\ sync.left \in Int
  BY DecisionIs DEF Typed, Types, Syncs
<1>2. /\ Enough(d) /\ buffer' = Useful /\ logic' = [Counted EXCEPT !.noise = d.noise]
      /\ Output(sync.left, sync)
      /\ UNCHANGED <<codec, frame, last_mode, sent, asserted, bereft>>
  BY DEF KeepPlaying, inputs
<1>3. /\ sync' \in Syncs /\ sync'.end = sync.end /\ sync'.format = sync.format
      /\ sync'.left = IF sync.left >= Block THEN sync.left - Block ELSE 0
      /\ full' = (full /\ sync.left >= Block) /\ full' \in BOOLEAN
  BY <1>1, <1>2, OutputIs
<1>4. sync.left >= Block
  BY <1>2 DEF Enough
<1>5. logic' \in Logics /\ logic'.cng = Counted.cng
  BY <1>1, <1>2, ChosenIs
<1>6. buffer' \in Seq(Arrived)' /\ Len(buffer') <= MaxPackets /\ OneCodec(buffer, codec.pt)'
  BY <1>2, LeftOver
<1>7. Typed'
  BY <1>1, <1>2, <1>3, <1>5, <1>6 DEF Typed, Types
<1>8. full' = full
  BY <1>1, <1>3, <1>4
<1> QED
  BY <1>2, <1>3, <1>4, <1>5, <1>7, <1>8

LEMMA MissingLeaves ==
    ASSUME Typed, NEW d \in Decisions, PacketMissing(d)
    PROVE  /\ Typed' /\ ~asserted' /\ buffer' = Useful /\ Useful = <<>>
           /\ codec.new \/ last_mode = "error"
           /\ bereft' = (bereft \/ (buffer # <<>> /\ IsComfortNoise(Head(buffer))))
           /\ logic'.cng = Counted.cng
           /\ UNCHANGED <<codec, sync, frame, sent, full>>
<1>1. Types /\ d.noise \in 0 .. MaxNoise /\ (Useful = <<>> => d.op # "undefined")
  BY DecisionIs DEF Typed
<1>2. /\ Restarting(d) /\ Useful = <<>> /\ ~asserted' /\ asserted' \in BOOLEAN
      /\ bereft' = (bereft \/ (buffer # <<>> /\ IsComfortNoise(Head(buffer))))
      /\ last_mode' = "error" /\ buffer' = Useful /\ logic' = Chosen(d)
      /\ UNCHANGED <<codec, sync, frame, sent, full>>
  BY DEF PacketMissing, inputs
<1>3. codec.new
  BY <1>1, <1>2 DEF Restarting
<1>4. logic' \in Logics /\ logic'.cng = Counted.cng
  BY <1>1, <1>2, ChosenIs
<1>5. buffer' \in Seq(Arrived)' /\ Len(buffer') <= MaxPackets /\ OneCodec(buffer, codec.pt)'
  BY <1>2, LeftOver
<1>6. bereft' \in BOOLEAN
  BY <1>1, <1>2 DEF Types, IsComfortNoise
<1>7. Typed'
  BY <1>1, <1>2, <1>4, <1>5, <1>6 DEF Typed, Types, Modes
<1> QED
  BY <1>2, <1>3, <1>4, <1>7

\* What is left to play after a block was concealed or stretched.
LEMMA ConcealLeaves ==
    ASSUME Typed, NEW d \in Decisions, Conceal(d)
    PROVE  /\ Typed' /\ buffer' = Useful /\ ~codec.new /\ logic'.cng = Counted.cng
           /\ sync'.end = sync.end /\ sync'.format = sync.format /\ sync.left < Block
           /\ ~codec'.new /\ codec'.first = codec.first /\ codec'.pt = codec.pt
           /\ codec'.active = codec.active
           /\ \/ d.op = "expand" /\ last_mode' = "expand" /\ full' = full
              \/ d.op = "internal" /\ last_mode' = "internal"
                    /\ (frame >= Block => full' = full)
              \/ d.op = "cng_no_packet" /\ last_mode' = "rfc3389" /\ full' = full
                    /\ sync'.left < Block
           /\ UNCHANGED <<frame, sent, asserted, bereft>>
<1>1. /\ Types /\ sync \in Syncs /\ full \in BOOLEAN /\ d.noise \in 0 .. MaxNoise /\ sync.left \in Nat
      /\ frame \in Nat /\ codec \in Codecs
  BY DecisionIs, Limits DEF Typed, Types, Syncs, Frames
<1>2. /\ ~Enough(d) /\ ~Restarting(d) /\ d.op \in {"expand", "cng_no_packet", "internal"}
      /\ buffer' = Useful /\ logic' = Chosen(d)
      /\ codec' = [codec EXCEPT !.ts = IF d.op = "expand" THEN sync.end ELSE @]
      /\ last_mode' = CASE d.op = "expand" -> "expand"
                        [] d.op = "internal" -> "internal"
                        [] OTHER -> "rfc3389"
      /\ UNCHANGED <<frame, sent, asserted, bereft>>
  BY DEF Conceal, inputs
<1> DEFINE left(more) == CASE d.op = "expand" -> Block + more
                           [] d.op = "internal" -> sync.left + frame
                           [] OTHER -> sync.left + Block
<1>3. PICK more \in Extra : Output(left(more), sync)
  BY DEF Conceal
<1>4. more \in Nat /\ Block = 2
  BY Limits
<1>5. left(more) \in Int
  BY <1>1, <1>4
<1>6. /\ sync' \in Syncs /\ sync'.end = sync.end /\ sync'.format = sync.format
      /\ sync'.left = IF left(more) >= Block THEN left(more) - Block ELSE 0
      /\ full' = (full /\ left(more) >= Block) /\ full' \in BOOLEAN
  <2> HIDE DEF left
  <2> QED
    BY <1>1, <1>3, <1>5, OutputIs
<1>7. ~codec.new /\ sync.left < Block
  BY <1>1, <1>2, <1>4 DEF Restarting, Enough
<1>8. /\ codec' \in Codecs /\ ~codec'.new /\ codec'.first = codec.first /\ codec'.pt = codec.pt
      /\ codec'.active = codec.active
  BY <1>1, <1>2, <1>7 DEF Codecs, Syncs
<1>9. logic' \in Logics /\ logic'.cng = Counted.cng
  BY <1>1, <1>2, ChosenIs
<1>10. buffer' \in Seq(Arrived)' /\ Len(buffer') <= MaxPackets /\ OneCodec(buffer, codec.pt)'
  BY <1>2, <1>8, LeftOver
<1>11. \/ d.op = "expand" /\ last_mode' = "expand" /\ full' = full
       \/ d.op = "internal" /\ last_mode' = "internal" /\ (frame >= Block => full' = full)
       \/ d.op = "cng_no_packet" /\ last_mode' = "rfc3389" /\ full' = full /\ sync'.left < Block
  <2>1. CASE d.op = "expand"
    BY <1>1, <1>2, <1>4, <1>6, <2>1
  <2>2. CASE d.op = "internal"
    BY <1>1, <1>2, <1>4, <1>6, <2>2
  <2>3. CASE d.op = "cng_no_packet"
    <3>1. left(more) = sync.left + Block
      BY <2>3
    <3> QED
      BY <1>1, <1>2, <1>4, <1>6, <1>7, <2>3, <3>1
  <2> QED
    BY <1>2, <2>1, <2>2, <2>3
<1>12. last_mode' \in Modes
  BY <1>11 DEF Modes
<1>13. Typed'
  BY <1>1, <1>2, <1>6, <1>8, <1>9, <1>10, <1>12 DEF Typed, Types
<1> QED
  BY <1>2, <1>6, <1>7, <1>8, <1>9, <1>11, <1>13

LEMMA StretchLeaves ==
    ASSUME Typed, NEW d \in Decisions, Stretch(d)
    PROVE  /\ Typed' /\ buffer' = Useful /\ logic'.cng = Counted.cng
           /\ ~codec.new /\ sync.left >= Block
           /\ sync'.end = sync.end /\ sync'.format = sync.format
           /\ last_mode' \in {"stretched", "unstretched"}
           /\ UNCHANGED <<codec, frame, sent, asserted, bereft, full>>
<1>1. Types /\ sync \in Syncs /\ full \in BOOLEAN /\ d.noise \in 0 .. MaxNoise /\ sync.left \in Nat
  BY DecisionIs DEF Typed, Types, Syncs
<1>2. /\ ~Restarting(d) /\ EnoughToStretch(d)
      /\ buffer' = Useful /\ logic' = [Chosen(d) EXCEPT !.scaled = TRUE]
      /\ UNCHANGED <<codec, frame, sent, asserted, bereft>>
  BY DEF Stretch, inputs
<1> DEFINE left(more) == sync.left + (IF d.op = "preemptive" THEN more ELSE -more)
<1>3. PICK more \in Change(d.op) :
          /\ Output(left(more), sync)
          /\ last_mode' = IF more = 0 THEN "unstretched" ELSE "stretched"
  BY DEF Stretch
<1>4. /\ more \in Nat /\ Block = 2
      /\ d.op = "accelerate" => more \in 0 .. (Block + 1)
  BY Limits DEF Change
<1>5. left(more) \in Int
  BY <1>1, <1>4
<1>6. /\ sync' \in Syncs /\ sync'.end = sync.end /\ sync'.format = sync.format
      /\ full' = (full /\ left(more) >= Block) /\ full' \in BOOLEAN
  <2> HIDE DEF left
  <2> QED
    BY <1>1, <1>3, <1>5, OutputIs
<1>7. ~codec.new /\ sync.left >= Block
  BY <1>1, <1>2, <1>4 DEF Restarting, EnoughToStretch
<1>8. left(more) >= Block
  <2>1. d.op = "preemptive" \/ (d.op = "accelerate" /\ sync.left >= 3 * Block)
    BY <1>2 DEF EnoughToStretch
  <2> QED
    BY <1>1, <1>4, <1>7, <2>1
<1>9. logic' \in Logics /\ logic'.cng = Counted.cng
  <2>1. Chosen(d) \in Logics /\ Chosen(d).cng = Counted.cng
    BY <1>1, ChosenIs
  <2> QED
    BY <1>2, <2>1 DEF Logics
<1>10. buffer' \in Seq(Arrived)' /\ Len(buffer') <= MaxPackets /\ OneCodec(buffer, codec.pt)'
  BY <1>2, LeftOver
<1>11. last_mode' \in {"stretched", "unstretched"}
  BY <1>3
<1>12. Typed'
  BY <1>1, <1>2, <1>6, <1>9, <1>10, <1>11 DEF Typed, Types, Modes
<1>13. full' = full
  <2> HIDE DEF left
  <2> QED
    BY <1>1, <1>6, <1>8
<1> QED
  BY <1>2, <1>6, <1>7, <1>9, <1>11, <1>12, <1>13

LEMMA PlayOnLeaves ==
    ASSUME Typed, NEW d \in Decisions, PlayOn(d)
    PROVE  /\ Typed' /\ buffer' = Useful /\ logic'.cng = Counted.cng
           /\ ~codec.new /\ sync.left >= Block /\ sync'.left <= sync.left
           /\ sync'.end = sync.end /\ sync'.format = sync.format
           /\ UNCHANGED <<codec, frame, last_mode, sent, asserted, bereft, full>>
<1>1. Types /\ sync \in Syncs /\ full \in BOOLEAN /\ d.noise \in 0 .. MaxNoise /\ sync.left \in Nat
  BY DecisionIs DEF Typed, Types, Syncs
<1>2. /\ ~Restarting(d) /\ TooMuchToDecode(d)
      /\ buffer' = Useful /\ logic' = Chosen(d) /\ Output(sync.left, sync)
      /\ UNCHANGED <<codec, frame, last_mode, sent, asserted, bereft>>
  BY DEF PlayOn, inputs
<1>3. ~codec.new /\ sync.left >= Block
  BY <1>1, <1>2, Limits DEF Restarting, TooMuchToDecode
<1>4. /\ sync' \in Syncs /\ sync'.end = sync.end /\ sync'.format = sync.format
      /\ sync'.left = sync.left - Block
      /\ full' = full
  <2>1. /\ sync' \in Syncs /\ sync'.end = sync.end /\ sync'.format = sync.format
        /\ sync'.left = IF sync.left >= Block THEN sync.left - Block ELSE 0
        /\ full' = (full /\ sync.left >= Block)
    BY <1>1, <1>2, OutputIs
  <2> QED
    BY <1>1, <1>3, <2>1
<1>5. logic' \in Logics /\ logic'.cng = Counted.cng
  BY <1>1, <1>2, ChosenIs
<1>6. buffer' \in Seq(Arrived)' /\ Len(buffer') <= MaxPackets /\ OneCodec(buffer, codec.pt)'
  BY <1>2, LeftOver
<1>7. Typed'
  BY <1>1, <1>2, <1>4, <1>5, <1>6 DEF Typed, Types
<1> QED
  BY <1>1, <1>2, <1>3, <1>4, <1>5, <1>7, Limits

\* What decoding starts from.
LEMMA ReadyIs ==
    ASSUME Types, NEW d, Useful # <<>>
    PROVE  LET r == Ready(d)
           IN  /\ r.base \in Stamps /\ r.start \in Stamps /\ r.format \in Formats
               /\ r.left \in Nat /\ r.frame \in Frames /\ r.mode \in Modes
               /\ r.changed \in BOOLEAN
               /\ r.changed <=> ~IsComfortNoise(Header) /\ codec.active # Header.pt
               /\ r.start = Header.ts \/ (r.start = sync.end /\ ~Restarting(d))
               /\ r.left \in {0, sync.left} /\ r.mode \in {"normal", last_mode}
               /\ \/ r.format = sync.format /\ r.frame = frame /\ r.left = sync.left
                  \/ /\ r.format = Format[Header.pt] /\ r.frame = 3 * Block /\ r.left = 0
                     /\ r.changed /\ Format[Header.pt] # sync.format
               /\ r.astray \/ r.start = Header.ts
<1>1. /\ Header \in Packets /\ sync \in Syncs /\ frame \in Frames /\ last_mode \in Modes
  BY HeaderIs DEF Types
<1>2. Header.ts \in Stamps /\ Header.pt \in Pts /\ Format[Header.pt] \in Formats
  BY <1>1, FormatIs DEF Packets
<1>3. 3 * Block \in Frames /\ 0 \in Nat /\ "normal" \in Modes
  BY Limits DEF Modes
<1> HIDE DEF Header
<1> QED
  BY <1>1, <1>2, <1>3 DEF Ready, Syncs

\* Decoding takes the packets of one payload type from the front.
LEMMA ListTaken ==
    ASSUME Types, Useful # <<>>, NEW required
    PROVE  LET list == Extracted(required)
           IN  /\ list \in Seq(Arrived) /\ list \in Seq(Packets)
               /\ Len(list) \in Nat /\ Len(list) >= 1 /\ Len(list) <= MaxPackets
               /\ list[1] = Header /\ \A k \in 1 .. Len(list) : list[k].pt = Header.pt
               /\ Duration(Header) >= required => Len(list) = 1
<1>1. Arrived \subseteq Packets /\ buffer \in Seq(Arrived) /\ frame \in Frames
      /\ Len(buffer) <= MaxPackets
  BY DEF Arrived, Types
<1> DEFINE list == Extracted(required)
<1>2. /\ list \in Seq(Arrived) /\ Len(list) \in 1 .. Len(buffer) /\ list[1] = Header
      /\ \A k \in 1 .. Len(list) : list[k].pt = Header.pt
      /\ Duration(Header) >= required => Len(list) = 1
  BY <1>1, ExtractedIs
<1> HIDE DEF list
<1>3. list \in Seq(Packets)
  BY <1>1, <1>2
<1>4. Len(buffer) \in Nat /\ MaxPackets \in Nat
  BY <1>1, Limits
<1> QED
  BY <1>1, <1>2, <1>3, <1>4 DEF list

LEMMA NoiseLeaves ==
    ASSUME Typed, NEW d \in Decisions, PlayNoise(d)
    PROVE  /\ Typed' /\ (buffer # <<>>) /\ Useful # <<>> /\ AfterReset(d) = "cng"
           /\ ~codec'.new /\ codec'.first = codec.first /\ codec'.pt = codec.pt
           /\ sync.left < Block /\ sync'.left < Block /\ last_mode' = "rfc3389"
           /\ sync'.end = Header.ts
           /\ sync'.format = Ready(d).format /\ frame' = Ready(d).frame
           /\ asserted' => asserted
           /\ asserted /\ Asserts(d) /\ Duration(Header) >= Block => asserted'
           /\ UNCHANGED <<sent, bereft, full>>
<1> DEFINE list == Extracted(Block)
           ready == Ready(d)
           l == [Chosen(d) EXCEPT !.noise = 0]
           s == [sync EXCEPT !.end = Header.ts, !.format = ready.format]
           active == IF ready.changed THEN Header.pt ELSE codec.active
<1>1. /\ Types /\ sync \in Syncs /\ full \in BOOLEAN /\ asserted \in BOOLEAN
      /\ d.noise \in 0 .. MaxNoise /\ sync.left \in Nat
      /\ codec \in Codecs /\ buffer \in Seq(Arrived)
  BY DecisionIs DEF Typed, Types, Syncs
<1>2. /\ ~Enough(d) /\ Useful # <<>> /\ AfterReset(d) = "cng"
      /\ buffer' = Rest(list)
      /\ codec' = [codec EXCEPT !.ts = ready.base, !.new = FALSE, !.active = active]
      /\ logic' = IF Restarting(d) THEN SoftReset(l) ELSE l
      /\ Output(ready.left + Block, s)
      /\ frame' = ready.frame
      /\ asserted' = (asserted /\ Asserts(d) /\ Len(list) = 1)
      /\ last_mode' = "rfc3389"
      /\ UNCHANGED <<sent, bereft>>
  BY DEF PlayNoise, inputs
<1>3. /\ ready.base \in Stamps /\ ready.format \in Formats /\ ready.left \in Nat
      /\ ready.frame \in Frames /\ ready.changed \in BOOLEAN
      /\ ready.changed => ~IsComfortNoise(Header)
      /\ ready.left \in {0, sync.left}
  BY <1>1, <1>2, ReadyIs
<1>4. Header \in Packets /\ Header.ts \in Stamps /\ Header.pt \in Pts
  BY <1>1, <1>2, HeaderIs DEF Packets
<1> HIDE DEF ready
<1>5. active \in SpeechTypes \cup {NoType}
  BY <1>1, <1>3, <1>4 DEF Codecs, IsComfortNoise, Pts
<1>6. s \in Syncs /\ s.end = Header.ts /\ s.format = ready.format
  BY <1>1, <1>3, <1>4 DEF Syncs
<1> HIDE DEF s, active
<1>7. /\ sync' \in Syncs /\ sync'.end = Header.ts /\ sync'.format = ready.format
      /\ sync'.left = ready.left /\ full' = full
  <2>1. ready.left + Block \in Int /\ ready.left + Block >= Block
        /\ (ready.left + Block) - Block = ready.left
    BY <1>3, Limits
  <2>2. /\ sync' \in Syncs /\ sync'.end = s.end /\ sync'.format = s.format
        /\ sync'.left = IF ready.left + Block >= Block THEN (ready.left + Block) - Block ELSE 0
        /\ full' = (full /\ ready.left + Block >= Block)
    BY <1>1, <1>2, <1>6, <2>1, OutputIs
  <2> QED
    BY <1>1, <1>6, <2>1, <2>2
<1>8. sync.left < Block
  <2>1. d.op \notin {"merge", "accelerate", "preemptive"}
    <3>1. d.op = "cng" \/ d.op = "cng_no_packet" \/ codec.new \/ d.op = "undefined"
      BY <1>2 DEF AfterReset, Restarting
    <3>2. Restarting(d) => d.op \in {"cng", "cng_no_packet"}
      BY <1>2 DEF AfterReset
    <3> QED
      BY <3>1, <3>2 DEF Restarting
  <2> QED
    BY <1>1, <1>2, <2>1, Limits DEF Enough
<1>9. sync'.left < Block
  BY <1>3, <1>7, <1>8, Limits
<1>10. codec' \in Codecs /\ ~codec'.new /\ codec'.first = codec.first /\ codec'.pt = codec.pt
  BY <1>1, <1>2, <1>3, <1>5 DEF Codecs
<1>11. logic' \in Logics
  <2>1. Chosen(d) \in Logics
    BY <1>1, ChosenIs
  <2>2. l \in Logics
    BY <2>1, Limits DEF Logics
  <2> HIDE DEF l
  <2>3. SoftReset(l) \in Logics
    BY <2>2, SoftResetIs
  <2> QED
    BY <1>2, <2>2, <2>3
<1>12. buffer' \in Seq(Arrived)' /\ Len(buffer') <= MaxPackets /\ OneCodec(buffer, codec.pt)'
  BY <1>2, <1>10, LeftOver
<1>13. asserted' \in BOOLEAN
  BY <1>1, <1>2 DEF Asserts, Restarting
<1>14. Typed'
  BY <1>1, <1>2, <1>3, <1>7, <1>10, <1>11, <1>12, <1>13 DEF Typed, Types, Modes
<1>15. buffer # <<>>
  <2>1. Len(Useful) >= 1 /\ Len(Useful) <= Len(buffer) /\ Len(Useful) \in Nat
    BY <1>1, <1>2, UsefulIs
  <2>2. Len(<<>>) = 0
    OBVIOUS
  <2> QED
    BY <2>1, <2>2
<1>16. Duration(Header) >= Block => Len(list) = 1
  BY <1>1, <1>2, ListTaken
<1> HIDE DEF list
<1> QED
  BY <1>1, <1>2, <1>7, <1>8, <1>9, <1>10, <1>14, <1>15, <1>16 DEF ready

-----------------------------------------------------------------------------
(* Decoding speech, taken apart.                                             *)
Scaling(d) == AfterReset(d) \in {"accelerate", "preemptive"}
BuildUp(d) == Scaling(d) /\ sync.left < 2 * Block /\ frame < 3 * Block
Required(d) ==
    IF BuildUp(d) THEN 2 * Block
    ELSE IF AfterReset(d) = "merge" THEN Block * sync.format.channels ELSE Block
Taken(d) == Extracted(Required(d))
Goal(d) ==
    IF AfterReset(d) = "accelerate"
          /\ (BuildUp(d) \/ Lasting(Taken(d)) + sync.left < 3 * Block)
    THEN "normal" ELSE AfterReset(d)
Speech(d) == IF IsComfortNoise(Header) THEN <<>> ELSE Taken(d)
Loop(d, packets) == DecodeLoop(packets, Ready(d).frame, Ready(d).format.channels)

LEMMA PlayIs ==
    ASSUME NEW d, PlayPackets(d)
    PROVE  /\ ~Enough(d) /\ Useful # <<>>
           /\ AfterReset(d) \in {"normal", "merge", "accelerate", "preemptive"}
           /\ buffer' = Rest(Taken(d))
           /\ codec' = [codec EXCEPT !.ts = Ready(d).base, !.new = FALSE,
                                     !.active = IF Ready(d).changed THEN Header.pt ELSE @]
           /\ \E scaled \in BOOLEAN :
                LET l == [Chosen(d) EXCEPT !.noise = 0, !.cng = "off", !.scaled = scaled]
                IN  logic' = IF Restarting(d) THEN [SoftReset(l) EXCEPT !.scaled = l.scaled] ELSE l
           /\ asserted' = (asserted /\ Asserts(d))
           /\ \/ /\ frame' = Loop(d, Speech(d)).frame
                 /\ PlayDecoded(Goal(d), Ready(d), Taken(d), Loop(d, Speech(d)).len)
              \/ \E bad \in DOMAIN Speech(d) :
                    /\ frame' = Loop(d, SubSeq(Taken(d), 1, bad - 1)).frame
                    /\ PlayError(Ready(d), Taken(d), frame')
           /\ UNCHANGED <<sent, got, spare, bereft>>
<1>1. (Scaling(d) /\ ~(AfterReset(d) = "accelerate" /\ BuildUp(d))) \in BOOLEAN
  BY DEF Scaling, BuildUp
<1> QED
  BY <1>1 DEF PlayPackets, Scaling, BuildUp, Required, Taken, Goal, Speech, Loop

Most == MaxPackets * kMaxFrameSize

LEMMA MostIs ==
    /\ Most \in Nat /\ kMaxFrameSize <= Most
    /\ \A n \in Nat : n <= MaxPackets => n * kMaxFrameSize <= Most
<1>1. MaxPackets \in Nat /\ kMaxFrameSize \in Nat /\ MaxPackets >= 1
  BY Limits
<1>2. Most \in Nat
  BY <1>1 DEF Most
<1>3. ASSUME NEW n \in Nat, n <= MaxPackets PROVE n * kMaxFrameSize <= Most
  <2>1. (MaxPackets - n) * kMaxFrameSize \in Nat
    BY <1>1, <1>3
  <2>2. Most = n * kMaxFrameSize + (MaxPackets - n) * kMaxFrameSize
    BY <1>1 DEF Most
  <2>3. n * kMaxFrameSize \in Nat
    BY <1>1
  <2> QED
    BY <2>1, <2>2, <2>3
<1>4. 1 * kMaxFrameSize = kMaxFrameSize /\ 1 \in Nat
  BY <1>1
<1>5. 1 * kMaxFrameSize <= Most
  BY <1>1, <1>3, <1>4
<1> QED
  BY <1>2, <1>3, <1>4, <1>5

LEMMA LoopIs ==
    ASSUME Types, Useful # <<>>, NEW d, NEW part \in Seq(Packets), Len(part) <= MaxPackets
    PROVE  Loop(d, part).frame \in Frames /\ Loop(d, part).len \in 0 .. Most
<1> DEFINE last == Ready(d).frame
           channels == Ready(d).format.channels
<1>1. last \in Frames /\ channels \in Nat \ {0}
  BY ReadyIs DEF Formats
<1>2. Loop(d, part) = DecodeLoop(part, last, channels)
  BY DEF Loop
<1> HIDE DEF last, channels
<1>3. /\ Loop(d, part).frame \in Frames
      /\ Loop(d, part).len \in 0 .. (Len(part) * kMaxFrameSize)
  BY <1>1, <1>2, Decodes
<1>4. Len(part) * kMaxFrameSize <= Most /\ Most \in Nat /\ Len(part) * kMaxFrameSize \in Nat
  BY MostIs, Limits
<1> QED
  BY <1>3, <1>4

LEMMA SpeechIs ==
    ASSUME Types, Useful # <<>>, NEW d
    PROVE  /\ Taken(d) \in Seq(Arrived) /\ Len(Taken(d)) \in Nat /\ Len(Taken(d)) >= 1
           /\ Taken(d)[1] = Header
           /\ Speech(d) \in Seq(Arrived) /\ Speech(d) \in Seq(Packets) /\ Len(Speech(d)) <= MaxPackets
           /\ \A k \in 1 .. Len(Speech(d)) : ~IsComfortNoise(Speech(d)[k])
           /\ ~IsComfortNoise(Header) => Speech(d) = Taken(d)
           /\ \A bad \in DOMAIN Speech(d) :
                 LET part == SubSeq(Taken(d), 1, bad - 1)
                 IN  /\ part \in Seq(Arrived) /\ part \in Seq(Packets) /\ Len(part) <= MaxPackets
                     /\ \A k \in 1 .. Len(part) : ~IsComfortNoise(part[k])
<1> DEFINE list == Taken(d)
<1>1. /\ list \in Seq(Arrived) /\ list \in Seq(Packets)
      /\ Len(list) \in Nat /\ Len(list) >= 1 /\ Len(list) <= MaxPackets
      /\ list[1] = Header /\ \A k \in 1 .. Len(list) : list[k].pt = Header.pt
  BY ListTaken DEF Taken
<1> HIDE DEF list
<1>2. CASE IsComfortNoise(Header)
  <2>1. Speech(d) = <<>> /\ Len(<<>>) = 0 /\ DOMAIN <<>> = {}
    BY <1>2 DEF Speech
  <2>2. 0 <= MaxPackets /\ <<>> \in Seq(Arrived) /\ <<>> \in Seq(Packets)
    BY Limits
  <2> QED
    BY <1>1, <1>2, <2>1, <2>2 DEF list
<1>3. CASE ~IsComfortNoise(Header)
  <2>1. Speech(d) = list
    BY <1>3 DEF Speech, list
  <2>2. \A k \in 1 .. Len(list) : ~IsComfortNoise(list[k])
    BY <1>1, <1>3 DEF IsComfortNoise
  <2>3. ASSUME NEW bad \in 1 .. Len(list)
        PROVE  LET part == SubSeq(list, 1, bad - 1)
               IN  /\ part \in Seq(Arrived) /\ part \in Seq(Packets) /\ Len(part) <= MaxPackets
                   /\ \A k \in 1 .. Len(part) : ~IsComfortNoise(part[k])
    <3> DEFINE part == SubSeq(list, 1, bad - 1)
    <3>1. Len(part) = bad - 1 /\ \A k \in 1 .. (bad - 1) : part[k] = list[k]
      BY <1>1
    <3>2. part \in Seq(Arrived) /\ part \in Seq(Packets)
      BY <1>1
    <3> HIDE DEF part
    <3>3. Len(part) <= MaxPackets
      BY <1>1, <3>1, Limits
    <3>4. \A k \in 1 .. Len(part) : ~IsComfortNoise(part[k])
      BY <1>1, <2>2, <3>1
    <3> QED
      BY <3>2, <3>3, <3>4 DEF part
  <2>4. DOMAIN list = 1 .. Len(list)
    BY <1>1
  <2> QED
    BY <1>1, <1>3, <2>1, <2>2, <2>3, <2>4 DEF list
<1> QED
  BY <1>2, <1>3

\* Where the audio ends and the mode it leaves.
Ends(d) == \E x \in 0 .. Most : sync'.end = Ts(Ready(d).start + x)
Leaves ==
    \/ last_mode' \in {"normal", "internal", "merge", "stretched", "unstretched", "expand"}
    \/ last_mode' = last_mode /\ sync'.left <= sync.left

\* Speech that does not end in a sync packet or in the codec's own comfort noise moves
\* the end by what it decoded to; what ends otherwise has no known end.
MovesEnd(d, list, len) ==
    \/ follows' = Unknown
    \/ /\ ~IsComfortNoise(Header) /\ ~list[Len(list)].sync
       /\ follows' = [ts |-> Ts(list[Len(list)].ts + list[Len(list)].len),
                      unsettled |-> Ready(d).astray]
       /\ sync'.end = Ts(Ready(d).start + len)

LEMMA DecodedLeaves ==
    ASSUME Types, Useful # <<>>, NEW d, NEW goal \in {"normal", "merge", "accelerate", "preemptive"},
           NEW list, NEW len \in 0 .. Most, PlayDecoded(goal, Ready(d), list, len)
    PROVE  /\ sync' \in Syncs /\ Ends(d) /\ Leaves /\ sync'.format = Ready(d).format
           /\ full' \in BOOLEAN /\ MovesEnd(d, list, len)
           /\ /\ goal \in {"normal", "preemptive"} => Ready(d).left + len >= Block
              /\ goal = "accelerate" => \A more \in Cut : Ready(d).left + len - more >= Block
              => full' = full
<1> DEFINE ready == Ready(d)
           real == {k \in DOMAIN list : ~list[k].sync}
           inband == real # {} /\ list[Max(real)].cn
           end == IF inband THEN ready.start ELSE ready.start + len
           left(more) == CASE goal = "normal" -> ready.left + len
                           [] goal = "merge" -> Max({ready.left, Block, len}) + more
                           [] goal = "accelerate" -> ready.left + len - more
                           [] goal = "preemptive" -> ready.left + len + more
           s == [sync EXCEPT !.end = Ts(end), !.format = ready.format]
<1>1. /\ ready.start \in Stamps /\ ready.format \in Formats /\ ready.left \in Nat
      /\ ready.mode \in {"normal", last_mode} /\ ready.left \in {0, sync.left}
  BY ReadyIs
<1>2. sync \in Syncs /\ sync.left \in Nat /\ full \in BOOLEAN /\ Most \in Nat
  BY MostIs DEF Types, Syncs
<1>3. PICK more \in Change(goal) :
          /\ Output(left(more), s)
          /\ last_mode' =
                CASE inband \/ (ready.mode = "internal" /\ len = 0 /\ goal = "normal") -> "internal"
                  [] ~inband /\ goal = "normal" -> IF len = 0 THEN ready.mode ELSE "normal"
                  [] ~inband /\ goal = "merge" -> "merge"
                  [] OTHER -> IF more = 0 THEN "unstretched" ELSE "stretched"
          /\ follows' = IF inband \/ list[Len(list)].sync \/ IsComfortNoise(Header) THEN Unknown
                        ELSE [ts |-> Ts(list[Len(list)].ts + list[Len(list)].len),
                              unsettled |-> ready.astray]
  BY DEF PlayDecoded
<1> HIDE DEF ready, inband
<1>4. /\ more \in Nat /\ Block = 2 /\ len \in Nat
      /\ goal = "accelerate" => more \in Cut
  BY <1>2, Limits DEF Change
<1>5. Max({ready.left, Block, len}) \in Nat /\ Max({ready.left, Block, len}) >= Block
  <2> DEFINE m == Max({ready.left, Block, len})
  <2>1. ready.left \in Nat /\ Block \in Nat /\ len \in Nat
    BY <1>1, <1>4
  <2>2. m \in {ready.left, Block, len} /\ m >= Block
    <3>1. ready.left \in Int /\ Block \in Int /\ len \in Int
      BY <2>1
    <3> QED
      BY <3>1, MaxOfThree, Zenon
  <2> HIDE DEF m
  <2>3. m \in Nat /\ m >= Block
    BY <2>1, <2>2
  <2> QED
    BY <2>3 DEF m
<1>6. left(more) \in Int
  BY <1>1, <1>4, <1>5
<1>7. \E x \in 0 .. Most : end = ready.start + x
  <2>1. ready.start \in Int /\ ready.start + 0 = ready.start /\ 0 \in 0 .. Most
    BY <1>1, <1>2 DEF Stamps
  <2> QED
    BY <2>1
<1>8. end \in Int
  BY <1>1, <1>2, <1>7 DEF Stamps
<1>9. ~inband => end = ready.start + len
  OBVIOUS
<1> HIDE DEF end
<1>10. s \in Syncs /\ s.end = Ts(end) /\ s.format = ready.format
  BY <1>1, <1>2, <1>8, OnTheCircle DEF Syncs
<1> HIDE DEF s
<1>11. /\ sync' \in Syncs /\ sync'.end = Ts(end) /\ sync'.format = ready.format
       /\ sync'.left = IF left(more) >= Block THEN left(more) - Block ELSE 0
       /\ full' = (full /\ left(more) >= Block) /\ full' \in BOOLEAN
  <2> HIDE DEF left
  <2> QED
    BY <1>2, <1>3, <1>6, <1>10, OutputIs
<1>12. Ends(d)
  BY <1>7, <1>11 DEF Ends, ready
<1>13. Leaves
  <2>1. CASE ~inband /\ goal = "normal" /\ len = 0 /\ ready.mode # "internal"
    <3>1. last_mode' = ready.mode
      BY <1>3, <2>1
    <3>2. left(more) = ready.left
      BY <1>1, <2>1
    <3> HIDE DEF left
    <3>3. sync'.left <= sync.left
      BY <1>1, <1>2, <1>4, <1>11, <3>2
    <3> QED
      BY <1>1, <3>1, <3>3 DEF Leaves
  <2>2. CASE ~(~inband /\ goal = "normal" /\ len = 0 /\ ready.mode # "internal")
    BY <1>3, <2>2 DEF Leaves
  <2> QED
    BY <2>1, <2>2
<1>14. ASSUME goal \in {"normal", "preemptive"} => ready.left + len >= Block,
              goal = "accelerate" => \A m \in Cut : ready.left + len - m >= Block
       PROVE  full' = full
  <2>1. left(more) >= Block
    <3>1. CASE goal = "normal"
      BY <1>14, <3>1
    <3>2. CASE goal = "merge"
      BY <1>4, <1>5, <3>2
    <3>3. CASE goal = "accelerate"
      BY <1>4, <1>14, <3>3
    <3>4. CASE goal = "preemptive"
      BY <1>1, <1>4, <1>14, <3>4
    <3> QED
      BY <3>1, <3>2, <3>3, <3>4
  <2> HIDE DEF left
  <2> QED
    BY <1>2, <1>11, <2>1
<1>15. MovesEnd(d, list, len)
  <2>1. CASE inband \/ list[Len(list)].sync \/ IsComfortNoise(Header)
    BY <1>3, <2>1 DEF MovesEnd
  <2>2. CASE ~inband /\ ~list[Len(list)].sync /\ ~IsComfortNoise(Header)
    <3> HIDE DEF left
    <3> QED
      BY <1>3, <1>11, <1>9, <2>2 DEF MovesEnd, ready
  <2> QED
    BY <2>1, <2>2
<1> HIDE DEF left
<1> QED
  BY <1>11, <1>12, <1>13, <1>14, <1>15 DEF ready

LEMMA ErrorLeaves ==
    ASSUME Types, Useful # <<>>, NEW d, NEW list, NEW last \in Frames,
           PlayError(Ready(d), list, last)
    PROVE  /\ sync' \in Syncs /\ Ends(d) /\ Leaves /\ sync'.format = Ready(d).format
           /\ full' = full
<1> DEFINE ready == Ready(d)
           left(more) == IF ready.left >= Block THEN ready.left ELSE Block + more
           s == [sync EXCEPT !.end = Ts(ready.start + last), !.format = ready.format]
<1>1. /\ ready.start \in Stamps /\ ready.format \in Formats /\ ready.left \in Nat
      /\ ready.mode \in {"normal", last_mode} /\ ready.left \in {0, sync.left}
  BY ReadyIs
<1>2. sync \in Syncs /\ sync.left \in Nat /\ full \in BOOLEAN
  BY DEF Types, Syncs
<1>3. /\ \E more \in Extra : Output(left(more), s)
      /\ last_mode' = IF ready.left >= Block THEN ready.mode ELSE "expand"
  BY DEF PlayError
<1>4. PICK more \in Extra : Output(left(more), s)
  BY <1>3
<1> HIDE DEF ready
<1>5. more \in Nat /\ Block = 2 /\ last \in 0 .. Most
  BY Limits, MostIs DEF Frames
<1>6. left(more) \in Int /\ left(more) >= Block
  BY <1>1, <1>5
<1>7. ready.start + last \in Int
  BY <1>1, MostIs, <1>5 DEF Stamps
<1>8. s \in Syncs /\ s.end = Ts(ready.start + last) /\ s.format = ready.format
  BY <1>1, <1>2, <1>7, OnTheCircle DEF Syncs
<1> HIDE DEF s
<1>9. /\ sync' \in Syncs /\ sync'.end = Ts(ready.start + last) /\ sync'.format = ready.format
      /\ sync'.left = IF left(more) >= Block THEN left(more) - Block ELSE 0
      /\ full' = (full /\ left(more) >= Block)
  <2> HIDE DEF left
  <2> QED
    BY <1>2, <1>4, <1>6, <1>8, OutputIs
<1>10. full' = full
  <2> HIDE DEF left
  <2> QED
    BY <1>2, <1>6, <1>9
<1>11. Ends(d)
  BY <1>5, <1>9 DEF Ends, ready
<1>12. Leaves
  <2>1. CASE ready.left >= Block
    <3>1. left(more) = ready.left
      BY <2>1
    <3>2. sync'.left <= sync.left
      BY <1>1, <1>2, <1>5, <1>9, <3>1
    <3> QED
      BY <1>1, <1>3, <2>1, <3>2 DEF Leaves
  <2>2. CASE ~(ready.left >= Block)
    BY <1>3, <2>2 DEF Leaves
  <2> QED
    BY <2>1, <2>2
<1> QED
  BY <1>9, <1>10, <1>11, <1>12 DEF ready

\* What the frame length was taken from: packets of speech decoded one after another.
Heard(d) ==
    \E part \in Seq(Arrived) :
        /\ part \in Seq(Packets) /\ \A k \in 1 .. Len(part) : ~IsComfortNoise(part[k])
        /\ frame' = Loop(d, part).frame

LEMMA PlayLeaves ==
    ASSUME Typed, NEW d \in Decisions, PlayPackets(d)
    PROVE  /\ Typed' /\ buffer # <<>> /\ Useful # <<>> /\ ~Enough(d)
           /\ AfterReset(d) \in {"normal", "merge", "accelerate", "preemptive"}
           /\ ~codec'.new /\ codec'.first = codec.first /\ codec'.pt = codec.pt
           /\ codec'.active = IF Ready(d).changed THEN Header.pt ELSE codec.active
           /\ logic'.cng = "off" /\ Leaves /\ Ends(d) /\ Heard(d)
           /\ sync'.format = Ready(d).format
           /\ asserted' = (asserted /\ Asserts(d))
           /\ \/ full' = full
              \/ PlayDecoded(Goal(d), Ready(d), Taken(d), Loop(d, Speech(d)).len)
           /\ UNCHANGED <<sent, bereft>>
<1>1. /\ ~Enough(d) /\ Useful # <<>>
      /\ AfterReset(d) \in {"normal", "merge", "accelerate", "preemptive"}
      /\ buffer' = Rest(Taken(d))
      /\ codec' = [codec EXCEPT !.ts = Ready(d).base, !.new = FALSE,
                                !.active = IF Ready(d).changed THEN Header.pt ELSE @]
      /\ \E scaled \in BOOLEAN :
           LET l == [Chosen(d) EXCEPT !.noise = 0, !.cng = "off", !.scaled = scaled]
           IN  logic' = IF Restarting(d) THEN [SoftReset(l) EXCEPT !.scaled = l.scaled] ELSE l
      /\ asserted' = (asserted /\ Asserts(d))
      /\ \/ /\ frame' = Loop(d, Speech(d)).frame
            /\ PlayDecoded(Goal(d), Ready(d), Taken(d), Loop(d, Speech(d)).len)
         \/ \E bad \in DOMAIN Speech(d) :
               /\ frame' = Loop(d, SubSeq(Taken(d), 1, bad - 1)).frame
               /\ PlayError(Ready(d), Taken(d), frame')
      /\ UNCHANGED <<sent, bereft>>
  BY PlayIs
<1>2. /\ Types /\ codec \in Codecs /\ asserted \in BOOLEAN /\ full \in BOOLEAN
      /\ d.noise \in 0 .. MaxNoise /\ buffer \in Seq(Arrived)
  BY DecisionIs DEF Typed, Types
<1>3. logic' \in Logics /\ logic'.cng = "off"
  <2>1. PICK scaled \in BOOLEAN :
           LET l == [Chosen(d) EXCEPT !.noise = 0, !.cng = "off", !.scaled = scaled]
           IN  logic' = IF Restarting(d) THEN [SoftReset(l) EXCEPT !.scaled = l.scaled] ELSE l
    BY <1>1
  <2> DEFINE l == [Chosen(d) EXCEPT !.noise = 0, !.cng = "off", !.scaled = scaled]
  <2>2. Chosen(d) \in Logics
    BY <1>2, ChosenIs
  <2>3. l \in Logics /\ l.cng = "off"
    <3>1. 0 \in 0 .. MaxNoise
      BY Limits
    <3> DEFINE c == Chosen(d)
    <3>2. c \in Logics
      BY <2>2
    <3> HIDE DEF c
    <3>3. [c EXCEPT !.noise = 0, !.cng = "off", !.scaled = scaled] \in Logics
      BY <3>1, <3>2 DEF Logics
    <3>4. [c EXCEPT !.noise = 0, !.cng = "off", !.scaled = scaled].cng = "off"
      BY <3>2 DEF Logics
    <3> QED
      BY <3>3, <3>4 DEF c
  <2>4. logic' = IF Restarting(d) THEN [SoftReset(l) EXCEPT !.scaled = l.scaled] ELSE l
    BY <2>1
  <2> HIDE DEF l
  <2>5. SoftReset(l) \in Logics /\ SoftReset(l).cng = "off" /\ l.scaled \in BOOLEAN
    BY <2>3, SoftResetIs DEF Logics
  <2> QED
    BY <2>3, <2>4, <2>5 DEF Logics
<1>4. /\ Ready(d).base \in Stamps /\ Ready(d).changed \in BOOLEAN
      /\ Ready(d).changed => ~IsComfortNoise(Header)
  BY <1>1, <1>2, ReadyIs
<1>5. Header.pt \in Pts
  BY <1>1, <1>2, HeaderIs DEF Packets
<1> DEFINE active == IF Ready(d).changed THEN Header.pt ELSE codec.active
<1>6. active \in SpeechTypes \cup {NoType}
  BY <1>2, <1>4, <1>5 DEF Codecs, IsComfortNoise, Pts
<1>7. codec' = [codec EXCEPT !.ts = Ready(d).base, !.new = FALSE, !.active = active]
  BY <1>1
<1>8. /\ codec' \in Codecs /\ ~codec'.new /\ codec'.first = codec.first /\ codec'.pt = codec.pt
      /\ codec'.active = active
  <2> HIDE DEF active
  <2> QED
    BY <1>2, <1>4, <1>6, <1>7 DEF Codecs
<1>9. buffer' \in Seq(Arrived)' /\ Len(buffer') <= MaxPackets /\ OneCodec(buffer, codec.pt)'
  BY <1>1, <1>8, LeftOver
<1>10. asserted' \in BOOLEAN
  BY <1>1, <1>2 DEF Asserts, Restarting
<1>11. buffer # <<>>
  <2>1. Len(Useful) >= 1 /\ Len(Useful) <= Len(buffer) /\ Len(Useful) \in Nat
    BY <1>1, <1>2, UsefulIs
  <2>2. Len(<<>>) = 0
    OBVIOUS
  <2> QED
    BY <2>1, <2>2
<1>12. Goal(d) \in {"normal", "merge", "accelerate", "preemptive"}
  BY <1>1 DEF Goal
<1>13. /\ sync' \in Syncs /\ Ends(d) /\ Leaves /\ sync'.format = Ready(d).format
       /\ full' \in BOOLEAN /\ frame' \in Frames /\ Heard(d)
       /\ \/ full' = full
          \/ PlayDecoded(Goal(d), Ready(d), Taken(d), Loop(d, Speech(d)).len)
  <2>1. CASE /\ frame' = Loop(d, Speech(d)).frame
             /\ PlayDecoded(Goal(d), Ready(d), Taken(d), Loop(d, Speech(d)).len)
    <3>1. /\ Speech(d) \in Seq(Arrived) /\ Speech(d) \in Seq(Packets)
          /\ Len(Speech(d)) <= MaxPackets
          /\ \A k \in 1 .. Len(Speech(d)) : ~IsComfortNoise(Speech(d)[k])
      BY <1>1, <1>2, SpeechIs
    <3>2. Loop(d, Speech(d)).frame \in Frames /\ Loop(d, Speech(d)).len \in 0 .. Most
      BY <1>1, <1>2, <3>1, LoopIs
    <3>3. /\ sync' \in Syncs /\ Ends(d) /\ Leaves /\ sync'.format = Ready(d).format
          /\ full' \in BOOLEAN
      BY <1>1, <1>2, <1>12, <2>1, <3>2, DecodedLeaves
    <3>4. Heard(d)
      BY <2>1, <3>1 DEF Heard
    <3> QED
      BY <2>1, <3>2, <3>3, <3>4
  <2>2. CASE \E bad \in DOMAIN Speech(d) :
                /\ frame' = Loop(d, SubSeq(Taken(d), 1, bad - 1)).frame
                /\ PlayError(Ready(d), Taken(d), frame')
    <3>1. PICK bad \in DOMAIN Speech(d) :
                /\ frame' = Loop(d, SubSeq(Taken(d), 1, bad - 1)).frame
                /\ PlayError(Ready(d), Taken(d), frame')
      BY <2>2
    <3> DEFINE part == SubSeq(Taken(d), 1, bad - 1)
    <3>2. /\ part \in Seq(Arrived) /\ part \in Seq(Packets) /\ Len(part) <= MaxPackets
          /\ \A k \in 1 .. Len(part) : ~IsComfortNoise(part[k])
      BY <1>1, <1>2, SpeechIs
    <3>3. frame' = Loop(d, part).frame
      BY <3>1
    <3> HIDE DEF part
    <3>4. frame' \in Frames
      BY <1>1, <1>2, <3>2, <3>3, LoopIs
    <3>5. /\ sync' \in Syncs /\ Ends(d) /\ Leaves /\ sync'.format = Ready(d).format
          /\ full' = full
      BY <1>1, <1>2, <3>1, <3>4, ErrorLeaves
    <3>6. Heard(d)
      BY <3>2, <3>3 DEF Heard
    <3> QED
      BY <1>2, <3>4, <3>5, <3>6
  <2> QED
    BY <1>1, <2>1, <2>2
<1>14. last_mode' \in Modes
  BY <1>2, <1>13 DEF Leaves, Types, Modes
<1>15. Typed'
  BY <1>1, <1>2, <1>3, <1>8, <1>9, <1>10, <1>13, <1>14 DEF Typed, Types
<1> QED
  BY <1>1, <1>3, <1>8, <1>11, <1>13, <1>15

-----------------------------------------------------------------------------
(* Types.                                                                    *)

LEMMA TypedInit == Init => Typed
<1> SUFFICES ASSUME Init PROVE Typed
  OBVIOUS
<1>1. <<>> \in Seq(Arrived) /\ Len(<<>>) = 0 /\ OneCodec(<<>>, NoType)
  BY DEF OneCodec
<1>2. 0 \in Stamps /\ NoType \in Speeches /\ NoType \in Noises
  BY SpansAssumption DEF Stamps, Speeches, Noises
<1>3. 0 \in 0 .. MaxNoise /\ 0 \in 0 .. (kReinitAfterExpands + 1)
      /\ kMinTimescaleInterval \in 0 .. kMinTimescaleInterval /\ 3 * Block \in Frames /\ 0 <= MaxPackets
  BY Limits
<1>4. codec \in Codecs /\ codec.pt = NoType
  BY <1>2 DEF Init, Codecs
<1>5. sync \in Syncs
  BY <1>2 DEF Init, NewSync, Silent, Syncs, Formats
<1>6. logic \in Logics
  BY <1>3 DEF Init, Logics
<1>7. /\ sent \in Streams /\ buffer = <<>> /\ frame = 3 * Block /\ last_mode = "normal"
      /\ full = TRUE /\ asserted = TRUE /\ bereft = FALSE
  BY DEF Init
<1> QED
  BY <1>1, <1>3, <1>4, <1>5, <1>6, <1>7 DEF Typed, Types, Modes

\* What a step is.
LEMMA Steps ==
    ASSUME Typed, [Next]_vars
    PROVE  \/ Inserted \/ FlushBuffers
           \/ \E d \in Decisions : \/ KeepPlaying(d) \/ PacketMissing(d) \/ Conceal(d) \/ Stretch(d)
                                   \/ PlayOn(d) \/ PlayNoise(d) \/ PlayPackets(d)
           \/ UNCHANGED vars
<1>1. sent \in Streams /\ codec.ssrc \in Nat
  BY DEF Typed, Types, Codecs
<1>2. ASSUME NEW n \in Slots, InsertPacket(n) PROVE Inserted
  <2>1. Insert(ListOf(n), PacketOf(n), sent[n].ssrc) /\ sent' = sent
    BY <1>2 DEF InsertPacket, Insert
  <2> QED
    BY <1>1, <2>1, ListIs, InsertLeaves
<1>3. ASSUME NEW n \in Slots, InsertSyncPacket(n) PROVE Inserted
  <2>1. Insert(<<SyncOf(n)>>, SyncOf(n), codec.ssrc) /\ sent' = sent
    BY <1>3 DEF InsertSyncPacket, Insert
  <2> QED
    BY <1>1, <2>1, ListIs, InsertLeaves
<1>4. GetAudio => \E d \in Decisions :
          \/ KeepPlaying(d) \/ PacketMissing(d) \/ Conceal(d) \/ Stretch(d)
          \/ PlayOn(d) \/ PlayNoise(d) \/ PlayPackets(d)
  BY DEF GetAudio
<1> QED
  BY <1>2, <1>3, <1>4 DEF Next

LEMMA TypedNext == Typed /\ [Next]_vars => Typed'
<1> SUFFICES ASSUME Typed, [Next]_vars PROVE Typed'
  OBVIOUS
<1>1. CASE Inserted
  BY <1>1 DEF Inserted
<1>2. CASE FlushBuffers
  BY <1>2, FlushLeaves
<1>3. CASE \E d \in Decisions : \/ KeepPlaying(d) \/ PacketMissing(d) \/ Conceal(d) \/ Stretch(d)
                                \/ PlayOn(d) \/ PlayNoise(d) \/ PlayPackets(d)
  BY <1>3, KeepLeaves, MissingLeaves, ConcealLeaves, StretchLeaves, PlayOnLeaves, NoiseLeaves,
     PlayLeaves
<1>4. CASE UNCHANGED vars
  <2>1. sent' = sent /\ Arrived' = Arrived
    BY <1>4 DEF vars, inputs, Arrived, Came, Slots, PacketOf, SyncOf, FecOf
  <2>2. Types' = Types
    BY <1>4, <2>1 DEF vars, inputs, Types
  <2> QED
    BY <1>4, <2>2 DEF vars, Typed, OneCodec
<1> QED
  BY <1>1, <1>2, <1>3, <1>4, Steps

LEMMA TypedAlways == Spec => []Typed
BY TypedInit, TypedNext, PTL DEF Spec

\* Whatever arrives, in whatever order, doubled or lost, and whatever is decided: the
\* buffer is never over its limit, and payload types, timestamps, the last mode and
\* the decision logic's counters are what the code takes them to be.
THEOREM TypesRight == Spec => []TypeOK
<1>1. Typed => TypeOK
  <2> SUFFICES ASSUME Typed PROVE TypeOK
    OBVIOUS
  <2>1. /\ Len(buffer) <= MaxPackets /\ codec \in Codecs /\ sync \in Syncs /\ frame \in Nat
        /\ last_mode \in Modes /\ logic \in Logics
    BY Limits DEF Typed, Types, Frames
  <2> QED
    BY <2>1 DEF TypeOK, Codecs, Syncs, Logics, Modes, Speeches, Noises, Pts, Stamps
<1> QED
  BY <1>1, TypedAlways, PTL

-----------------------------------------------------------------------------
(* What is decoded ends near the stream, and no useful packet is before that. *)

\* Until its first packet there is none.
Empty == codec.first => buffer = <<>>

LEMMA NoneUseful == ASSUME Typed, buffer = <<>> PROVE Useful = <<>>
<1>1. buffer \in Seq(Arrived)
  BY DEF Typed, Types
<1>2. Len(Useful) \in Nat /\ Len(Useful) <= Len(buffer) /\ (Useful # <<>> => Len(Useful) >= 1)
  BY <1>1, UsefulIs
<1>3. Len(<<>>) = 0
  OBVIOUS
<1> QED
  BY <1>2, <1>3

LEMMA EmptyNext == Typed /\ Empty /\ [Next]_vars => Empty'
<1> SUFFICES ASSUME Typed, Empty, [Next]_vars PROVE Empty'
  OBVIOUS
<1>1. CASE Inserted
  BY <1>1 DEF Inserted, Empty
<1>2. CASE FlushBuffers
  BY <1>2, FlushLeaves DEF Empty
<1>3. ASSUME NEW d \in Decisions,
             KeepPlaying(d) \/ PacketMissing(d) \/ Conceal(d) \/ Stretch(d) \/ PlayOn(d)
      PROVE  Empty'
  <2>1. buffer' = Useful /\ codec'.first = codec.first
    BY <1>3, KeepLeaves, MissingLeaves, ConcealLeaves, StretchLeaves, PlayOnLeaves
  <2> QED
    BY <2>1, NoneUseful DEF Empty
<1>4. ASSUME NEW d \in Decisions, PlayNoise(d) \/ PlayPackets(d) PROVE Empty'
  BY <1>4, NoiseLeaves, PlayLeaves DEF Empty
<1>5. CASE UNCHANGED vars
  BY <1>5 DEF vars, Empty
<1> QED
  BY <1>1, <1>2, <1>3, <1>4, <1>5, Steps

Near ==
    ~codec.new /\ ~codec.first =>
        \E n \in Slots : \E e \in 0 .. (sent[n].at + Most) : sync.end = Ts(TsStart + e)

LEMMA Under ==
    ASSUME NEW at \in Nat, NEW most \in Nat, NEW half \in Nat, at + most < half - 1
    PROVE  /\ \A x \in 0 .. at : x \in Nat /\ x < half - 1
           /\ \A x \in 0 .. (at + most) : x \in Nat /\ x < half - 1
OBVIOUS

\* The next packet of use starts where what is decoded ends, or later.
LEMMA Ahead ==
    ASSUME Typed, Empty, Near, ~codec.new, Useful # <<>>
    PROVE  \E n \in Slots : \E x \in 0 .. sent[n].at : \E e \in 0 .. x :
              /\ Header.ts = Ts(TsStart + x) /\ sync.end = Ts(TsStart + e)
              /\ x < TsSpan \div 2 - 1
<1>1. Types /\ sent \in Streams /\ buffer \in Seq(Arrived)
  BY DEF Typed, Types
<1>2. Header \in Arrived /\ ~Useless(Header) /\ ~codec.first
  <2>1. Header \in Arrived /\ ~Useless(Header) /\ Len(Useful) >= 1 /\ Len(Useful) <= Len(buffer)
        /\ Len(Useful) \in Nat
    BY <1>1, UsefulIs
  <2>2. Len(<<>>) = 0
    OBVIOUS
  <2> QED
    BY <2>1, <2>2 DEF Empty
<1>3. PICK n \in Slots : \E x \in 0 .. sent[n].at : Header.ts = Ts(TsStart + x)
  <2>1. Sent(Header)
    BY <1>1, <1>2, ArrivedIs
  <2> HIDE DEF Header
  <2> QED
    BY <2>1 DEF Sent
<1>4. PICK x \in 0 .. sent[n].at : Header.ts = Ts(TsStart + x)
  BY <1>3
<1>5. PICK m \in Slots : \E e \in 0 .. (sent[m].at + Most) : sync.end = Ts(TsStart + e)
  BY <1>2 DEF Near
<1>6. PICK e \in 0 .. (sent[m].at + Most) : sync.end = Ts(TsStart + e)
  BY <1>5
<1>7. /\ sent[n].at \in Nat /\ sent[m].at \in Nat /\ Most \in Nat
      /\ sent[n].at + Most < TsSpan \div 2 - 1 /\ sent[m].at + Most < TsSpan \div 2 - 1
  BY <1>1, SlotIs, MostIs DEF Slot, Most
<1>8. x \in Nat /\ e \in Nat /\ x < TsSpan \div 2 - 1 /\ e < TsSpan \div 2 - 1
      /\ TsSpan \in Nat \ {0} /\ TsStart \in Nat /\ TsSpan \div 2 \in Nat /\ TsSpan \div 2 < TsSpan
  <2>1. TsSpan \in Nat \ {0} /\ TsSpan \div 2 \in Nat /\ TsSpan \div 2 < TsSpan
    BY SpansAssumption
  <2>2. TsStart \in Nat
    BY Limits
  <2>3. x \in Nat /\ x < TsSpan \div 2 - 1
    BY <1>7, <2>1, Under
  <2>4. e \in Nat /\ e < TsSpan \div 2 - 1
    <3>1. e \in 0 .. (sent[m].at + Most)
      OBVIOUS
    <3> QED
      BY <1>7, <2>1, <3>1, Under
  <2> QED
    BY <2>1, <2>2, <2>3, <2>4
<1>9. ~(x < e)
  <2> SUFFICES ASSUME x < e PROVE FALSE
    OBVIOUS
  <2> DEFINE a == TsStart + e
             b == TsStart + x
  <2>1. a \in Int /\ b \in Int /\ a - b \in 0 .. (TsSpan - 1) /\ a - b = e - x
    BY <1>8
  <2>2. ((a % TsSpan) - (b % TsSpan)) % TsSpan = e - x
    <3> HIDE DEF a, b
    <3> QED
      BY <1>8, <2>1, Between
  <2>3. Ts(sync.end - Header.ts) = e - x
    BY <1>4, <1>6, <2>2 DEF Ts
  <2>4. Header.ts # sync.end
    <3> SUFFICES ASSUME Header.ts = sync.end PROVE FALSE
      OBVIOUS
    <3>1. sync.end \in Stamps
      BY <1>1 DEF Types, Syncs
    <3>2. sync.end - Header.ts = 0 /\ 0 \in Stamps
      BY <3>1, <1>8 DEF Stamps
    <3>3. Ts(sync.end - Header.ts) = 0
      BY <3>2, OnTheCircle
    <3> QED
      BY <1>8, <2>3, <3>3
  <2>5. Old(Header.ts, sync.end)
    BY <1>8, <2>3, <2>4 DEF Old
  <2> QED
    BY <1>2, <2>5 DEF Useless
<1>10. e \in 0 .. x
  BY <1>8, <1>9
<1> QED
  BY <1>4, <1>6, <1>8, <1>10

LEMMA NearNext == Typed /\ Empty /\ Near /\ [Next]_vars => Near'
<1> SUFFICES ASSUME Typed, Empty, Near, [Next]_vars PROVE Near'
  OBVIOUS
<1>0. Types /\ sent \in Streams /\ codec.ssrc \in Nat
  BY DEF Typed, Types, Codecs
<1>1. ASSUME sent' = sent, ~codec'.new /\ ~codec'.first => ~codec.new /\ ~codec.first /\ sync'.end = sync.end
      PROVE  Near'
  BY <1>1 DEF Near, Slots
<1>2. CASE Inserted
  BY <1>1, <1>2 DEF Inserted
<1>3. CASE FlushBuffers
  BY <1>3, FlushLeaves DEF Near
<1>4. ASSUME NEW d \in Decisions,
             KeepPlaying(d) \/ PacketMissing(d) \/ Conceal(d) \/ Stretch(d) \/ PlayOn(d)
      PROVE  Near'
  BY <1>1, <1>4, KeepLeaves, MissingLeaves, ConcealLeaves, StretchLeaves, PlayOnLeaves
<1>5. ASSUME NEW d \in Decisions, PlayNoise(d) \/ PlayPackets(d) PROVE Near'
  <2>1. ASSUME Useful # <<>>, sent' = sent,
               \E start \in {Header.ts, sync.end} :
                  /\ start = Header.ts \/ ~codec.new
                  /\ \E y \in 0 .. Most : sync'.end = Ts(start + y)
        PROVE  Near'
    <3>1. PICK start \in {Header.ts, sync.end}, y \in 0 .. Most :
              /\ start = Header.ts \/ (start = sync.end /\ ~codec.new)
              /\ sync'.end = Ts(start + y)
      BY <2>1
    <3>2. PICK n \in Slots : \E x \in 0 .. sent[n].at : start = Ts(TsStart + x)
      <4>1. CASE start = Header.ts
        <5>1. Sent(Header)
          BY <1>0, <2>1, HeaderIs, ArrivedIs
        <5> HIDE DEF Header
        <5> QED
          BY <4>1, <5>1 DEF Sent
      <4>2. CASE start = sync.end /\ ~codec.new
        <5>1. PICK m \in Slots : \E x \in 0 .. sent[m].at : \E e \in 0 .. x :
                  sync.end = Ts(TsStart + e)
          BY <2>1, <4>2, Ahead
        <5>2. sent[m].at \in Nat
          BY <1>0, SlotIs DEF Slot
        <5>3. \E e \in 0 .. sent[m].at : sync.end = Ts(TsStart + e)
          BY <5>1, <5>2
        <5> QED
          BY <4>2, <5>3
      <4> QED
        BY <3>1, <4>1, <4>2
    <3>3. PICK x \in 0 .. sent[n].at : start = Ts(TsStart + x)
      BY <3>2
    <3>4. sent[n].at \in Nat /\ Most \in Nat /\ TsStart \in Nat /\ TsSpan \in Nat \ {0}
      BY <1>0, SlotIs, MostIs, Limits, SpansAssumption DEF Slot
    <3>5. x + y \in 0 .. (sent[n].at + Most) /\ x \in Int /\ y \in Int /\ TsStart + x \in Int
          /\ (TsStart + x) + y = TsStart + (x + y)
      BY <3>4
    <3>6. (((TsStart + x) % TsSpan) + y) % TsSpan = ((TsStart + x) + y) % TsSpan
      BY <3>4, <3>5, GoesOn
    <3>7. sync'.end = Ts(TsStart + (x + y))
      BY <3>1, <3>3, <3>5, <3>6 DEF Ts
    <3> QED
      BY <2>1, <3>5, <3>7 DEF Near, Slots
  <2>2. CASE PlayNoise(d)
    <3>1. Useful # <<>> /\ sent' = sent /\ sync'.end = Header.ts
      BY <2>2, NoiseLeaves
    <3>2. Header.ts \in Stamps
      BY <1>0, <3>1, HeaderIs DEF Packets
    <3>3. Ts(Header.ts + 0) = Header.ts /\ 0 \in 0 .. Most
      <4> HIDE DEF Header
      <4>1. Header.ts + 0 = Header.ts
        BY <3>2 DEF Stamps
      <4>2. Ts(Header.ts) = Header.ts
        BY <3>2, OnTheCircle
      <4>3. 0 \in 0 .. Most
        BY MostIs
      <4> QED
        BY <4>1, <4>2, <4>3
    <3> QED
      BY <2>1, <3>1, <3>3
  <2>3. CASE PlayPackets(d)
    <3>1. Useful # <<>> /\ sent' = sent /\ Ends(d)
      BY <2>3, PlayLeaves
    <3>2. Ready(d).start = Header.ts \/ (Ready(d).start = sync.end /\ ~codec.new)
      BY <1>0, <3>1, ReadyIs DEF Restarting
    <3> QED
      BY <2>1, <3>1, <3>2 DEF Ends
  <2> QED
    BY <1>5, <2>2, <2>3
<1>6. CASE UNCHANGED vars
  BY <1>6 DEF vars, inputs, Near, Slots
<1> QED
  BY <1>2, <1>3, <1>4, <1>5, <1>6, Steps

-----------------------------------------------------------------------------
(* Streams of one channel, and comfort noise.                                *)

\* One channel, and no speech shorter than a block.
Mono(s) ==
    \A n \in DOMAIN s :
        /\ Format[s[n].pt].channels = 1
        /\ s[n].pt \in SpeechTypes => s[n].len >= Block
Noisy(s) == \E n \in DOMAIN s : s[n].pt \in NoiseTypes

LEMMA MonoIs ==
    ASSUME sent \in Streams, Mono(sent), NEW p \in Arrived
    PROVE  Format[p.pt].channels = 1 /\ (~IsComfortNoise(p) => Lasts(p))
<1>1. p \in Packets /\ Sent(p)
  BY ArrivedIs
<1>2. PICK n \in Slots, m \in Slots :
         p.pt = sent[n].pt /\ sent[m].pt = sent[n].pt /\ p.len = sent[m].len
  BY <1>1 DEF Sent
<1>3. Format[p.pt].channels = 1 /\ (p.pt \in SpeechTypes => p.len >= Block)
  BY <1>2 DEF Mono, Slots
<1>4. ~IsComfortNoise(p) => p.pt \in SpeechTypes
  BY <1>1 DEF Packets, Pts, IsComfortNoise
<1> QED
  BY <1>3, <1>4 DEF Lasts

LEMMA NoisyIs ==
    ASSUME sent \in Streams, NEW p \in Arrived, IsComfortNoise(p) PROVE Noisy(sent)
<1>1. Sent(p)
  BY ArrivedIs
<1> QED
  BY <1>1 DEF Sent, Noisy, Slots, IsComfortNoise

\* On such a stream a frame is at least a block.
Steady == Mono(sent) => frame >= Block /\ sync.format.channels = 1

LEMMA ReadySteady ==
    ASSUME Typed, Steady, Mono(sent), NEW d, Useful # <<>>
    PROVE  Ready(d).frame >= Block /\ Ready(d).format.channels = 1 /\ Ready(d).frame \in Frames
<1>1. Types /\ sent \in Streams
  BY DEF Typed, Types
<1>2. Format[Header.pt].channels = 1
  BY <1>1, HeaderIs, MonoIs
<1>3. 3 * Block >= Block
  BY Limits
<1>4. /\ \/ Ready(d).format = sync.format /\ Ready(d).frame = frame
         \/ Ready(d).format = Format[Header.pt] /\ Ready(d).frame = 3 * Block
      /\ Ready(d).frame \in Frames
  BY <1>1, ReadyIs
<1> HIDE DEF Header
<1> QED
  BY <1>2, <1>3, <1>4 DEF Steady

LEMMA SteadyNext == Typed /\ Steady /\ [Next]_vars => Steady'
<1> SUFFICES ASSUME Typed, Steady, [Next]_vars, Mono(sent)' PROVE (frame >= Block /\ sync.format.channels = 1)'
  BY DEF Steady
<1>1. sent' = sent /\ Types /\ sent \in Streams
  <2>1. \A d \in Decisions :
           KeepPlaying(d) \/ PacketMissing(d) \/ Conceal(d) \/ Stretch(d) \/ PlayOn(d)
              \/ PlayNoise(d) \/ PlayPackets(d) => sent' = sent
    BY KeepLeaves, MissingLeaves, ConcealLeaves, StretchLeaves, PlayOnLeaves, NoiseLeaves,
       PlayLeaves
  <2> QED
    BY <2>1, Steps, FlushLeaves DEF Inserted, vars, inputs, Typed, Types
<1>2. Mono(sent) /\ frame >= Block /\ sync.format.channels = 1
  BY <1>1, Limits DEF Steady, Mono
<1>3. CASE Inserted
  <2>1. \A p \in Arrived : Format[p.pt].channels = 1
    BY <1>1, <1>2, MonoIs
  <2>2. 3 * Block >= Block
    BY Limits
  <2> QED
    BY <1>2, <1>3, <2>1, <2>2 DEF Inserted
<1>4. CASE FlushBuffers
  BY <1>2, <1>4, FlushLeaves
<1>5. ASSUME NEW d \in Decisions,
             KeepPlaying(d) \/ PacketMissing(d) \/ Conceal(d) \/ Stretch(d) \/ PlayOn(d)
      PROVE  (frame >= Block /\ sync.format.channels = 1)'
  <2>1. frame' = frame /\ sync'.format = sync.format
    BY <1>5, KeepLeaves, MissingLeaves, ConcealLeaves, StretchLeaves, PlayOnLeaves
  <2> QED
    BY <1>2, <2>1
<1>6. ASSUME NEW d \in Decisions, PlayNoise(d)
      PROVE  (frame >= Block /\ sync.format.channels = 1)'
  BY <1>2, <1>6, NoiseLeaves, ReadySteady
<1>7. ASSUME NEW d \in Decisions, PlayPackets(d)
      PROVE  (frame >= Block /\ sync.format.channels = 1)'
  <2>1. Heard(d) /\ sync'.format = Ready(d).format /\ Useful # <<>>
    BY <1>7, PlayLeaves
  <2>2. Ready(d).frame >= Block /\ Ready(d).format.channels = 1 /\ Ready(d).frame \in Frames
    BY <1>2, <2>1, ReadySteady
  <2>3. PICK part \in Seq(Arrived) :
          /\ part \in Seq(Packets) /\ \A k \in 1 .. Len(part) : ~IsComfortNoise(part[k])
          /\ frame' = Loop(d, part).frame
    BY <2>1 DEF Heard
  <2>4. \A k \in 1 .. Len(part) : Lasts(part[k])
    <3> SUFFICES ASSUME NEW k \in 1 .. Len(part) PROVE Lasts(part[k])
      OBVIOUS
    <3>1. part[k] \in Arrived /\ ~IsComfortNoise(part[k])
      BY <2>3
    <3> QED
      BY <1>1, <1>2, <3>1, MonoIs
  <2>5. Loop(d, part) = DecodeLoop(part, Ready(d).frame, 1)
    BY <2>2 DEF Loop
  <2>6. Loop(d, part).frame >= Block
    BY <2>2, <2>3, <2>4, <2>5, DecodesWhole
  <2> QED
    BY <2>1, <2>2, <2>3, <2>6
<1>8. CASE UNCHANGED vars
  BY <1>2, <1>8 DEF vars
<1> QED
  BY <1>3, <1>4, <1>5, <1>6, <1>7, <1>8, Steps

\* Without packets of comfort noise there is none of it.
Quiet == ~Noisy(sent) => last_mode # "rfc3389" /\ logic.cng # "rfc3389"

LEMMA QuietNext == Typed /\ Quiet /\ [Next]_vars => Quiet'
<1> SUFFICES ASSUME Typed, Quiet, [Next]_vars PROVE Quiet'
  OBVIOUS
<1>1. Types /\ sent \in Streams
  BY DEF Typed, Types
<1>2. Counted.cng = IF last_mode \in {"rfc3389", "internal"} THEN last_mode ELSE logic.cng
  BY <1>1, CountedIs
<1>3. CASE Inserted
  BY <1>3 DEF Inserted, Quiet, Noisy
<1>4. CASE FlushBuffers
  BY <1>4, FlushLeaves DEF Quiet, Noisy
<1>5. ASSUME NEW d \in Decisions, KeepPlaying(d) \/ PacketMissing(d) \/ Stretch(d) \/ PlayOn(d)
      PROVE  Quiet'
  <2>1. /\ sent' = sent /\ logic'.cng = Counted.cng
        /\ last_mode' \in {last_mode, "stretched", "unstretched", "error"}
    BY <1>5, KeepLeaves, MissingLeaves, StretchLeaves, PlayOnLeaves DEF PacketMissing
  <2> QED
    BY <1>2, <2>1 DEF Quiet, Noisy
<1>6. ASSUME NEW d \in Decisions, Conceal(d) PROVE Quiet'
  <2>1. /\ sent' = sent /\ logic'.cng = Counted.cng
        /\ last_mode' = "rfc3389" => d.op = "cng_no_packet"
    BY <1>6, ConcealLeaves
  <2>2. d.op = "cng_no_packet" => Counted.cng = "rfc3389"
    BY <1>1, DecisionIs
  <2> QED
    BY <1>2, <2>1, <2>2 DEF Quiet, Noisy
<1>7. ASSUME NEW d \in Decisions, PlayNoise(d) PROVE Quiet'
  <2>1. Useful # <<>> /\ AfterReset(d) = "cng" /\ sent' = sent
    BY <1>7, NoiseLeaves
  <2>2. d.op \in {"cng", "cng_no_packet"}
    BY <2>1 DEF AfterReset
  <2>3. d.op = "cng_no_packet" => Counted.cng = "rfc3389"
    BY <1>1, DecisionIs
  <2>4. d.op = "cng" => Noisy(sent)
    <3>1. d.op = "cng" => IsComfortNoise(Header)
      BY <1>1, DecisionIs
    <3>2. Header \in Arrived
      BY <1>1, <2>1, HeaderIs
    <3> QED
      BY <1>1, <3>1, <3>2, NoisyIs
  <2>5. Noisy(sent)
    BY <1>2, <2>2, <2>3, <2>4 DEF Quiet
  <2> QED
    BY <2>1, <2>5 DEF Quiet, Noisy
<1>8. ASSUME NEW d \in Decisions, PlayPackets(d) PROVE Quiet'
  BY <1>8, PlayLeaves DEF Quiet, Noisy, Leaves
<1>9. CASE UNCHANGED vars
  BY <1>9 DEF vars, inputs, Quiet, Noisy
<1> QED
  BY <1>3, <1>4, <1>5, <1>6, <1>7, <1>8, <1>9, Steps

-----------------------------------------------------------------------------
(* The assertions of GetDecision.                                            *)

\* "The only valid reason to get kUndefined is that new_codec_ is set."
LEMMA OnlyNew ==
    ASSUME Typed, Empty, Near, NEW d \in Decisions, last_mode # "error", d.op = "undefined"
    PROVE  codec.new
<1> SUFFICES ASSUME ~codec.new PROVE FALSE
  OBVIOUS
<1>1. Useful # <<>> /\ Header.ts # sync.end /\ ~NewerTs(Header.ts, sync.end)
  BY DecisionIs DEF Typed
<1> DEFINE Stand(x, e) == /\ Header.ts = Ts(TsStart + x) /\ sync.end = Ts(TsStart + e)
                           /\ x < TsSpan \div 2 - 1
<1>2. PICK n \in Slots : \E x \in 0 .. sent[n].at : \E e \in 0 .. x : Stand(x, e)
  BY <1>1, Ahead
<1>3. PICK x \in 0 .. sent[n].at : \E e \in 0 .. x : Stand(x, e)
  BY <1>2
<1>4. PICK e \in 0 .. x : Stand(x, e)
  BY <1>3
<1> HIDE DEF Header
<1>5. sent[n].at \in Nat /\ TsStart \in Nat /\ TsSpan \in Nat \ {0}
  BY SlotIs, Limits, SpansAssumption DEF Typed, Types, Slot
<1>6. x \in Nat /\ e \in Nat /\ x - e \in 0 .. (TsSpan - 1) /\ x - e < TsSpan \div 2
      /\ TsStart + x \in Int /\ TsStart + e \in Int /\ (TsStart + x) - (TsStart + e) = x - e
  BY <1>4, <1>5
<1>7. ((((TsStart + x) % TsSpan) - ((TsStart + e) % TsSpan)) % TsSpan) = x - e
  <2> DEFINE a == TsStart + x
             b == TsStart + e
  <2>1. a \in Int /\ b \in Int /\ a - b = x - e
    BY <1>6
  <2> HIDE DEF a, b
  <2>2. ((a % TsSpan) - (b % TsSpan)) % TsSpan = a - b
    BY <1>5, <1>6, <2>1, Between
  <2> QED
    BY <2>1, <2>2 DEF a, b
<1>8. (Header.ts - sync.end) % TsSpan < TsSpan \div 2
  BY <1>4, <1>6, <1>7 DEF Ts
<1> QED
  BY <1>1, <1>8 DEF NewerTs, IsNewer

\* While no codec's first packet was lost, the assertions held, a new codec's packet is
\* there, and no comfort noise goes on behind a block of audio or another mode.
Watch ==
    ~bereft =>
        /\ asserted /\ last_mode # "error"
        /\ codec.new => buffer # <<>>
        /\ CngOn => sync.left < Block
        /\ logic.cng = "rfc3389" /\ ~codec.new => last_mode = "rfc3389"

\* What is needed of a stream with comfort noise.
MonoNoise == \A s \in Streams : Noisy(s) => Mono(s)

Watched == Typed /\ Empty /\ Near /\ Steady /\ Quiet /\ Watch

LEMMA WatchNext == ASSUME MonoNoise PROVE Watched /\ [Next]_vars => Watch'
<1> SUFFICES ASSUME Watched, [Next]_vars, ~bereft'
             PROVE  (/\ asserted /\ last_mode # "error"
                     /\ codec.new => buffer # <<>>
                     /\ CngOn => sync.left < Block
                     /\ logic.cng = "rfc3389" /\ ~codec.new => last_mode = "rfc3389")'
  BY DEF Watch
<1> DEFINE Goals == (/\ asserted /\ last_mode # "error"
                     /\ codec.new => buffer # <<>>
                     /\ CngOn => sync.left < Block
                     /\ logic.cng = "rfc3389" /\ ~codec.new => last_mode = "rfc3389")'
<1>1. /\ Typed /\ Types /\ Empty /\ Near /\ Steady /\ Quiet /\ sent \in Streams
      /\ buffer \in Seq(Arrived) /\ sync.left \in Nat /\ Block = 2
  BY Limits DEF Watched, Typed, Types, Syncs
<1>2. ~bereft => /\ asserted /\ last_mode # "error"
                 /\ codec.new => buffer # <<>>
                 /\ logic.cng = "rfc3389" \/ last_mode = "rfc3389" => sync.left < Block
                 /\ logic.cng = "rfc3389" /\ ~codec.new => last_mode = "rfc3389"
  BY DEF Watched, Watch, CngOn
<1>3. Counted.cng = IF last_mode \in {"rfc3389", "internal"} THEN last_mode ELSE logic.cng
  BY <1>1, CountedIs
<1>4. CASE Inserted
  <2>1. buffer' # <<>>
    <3>1. Len(buffer') >= 1 /\ Len(<<>>) = 0
      BY <1>4 DEF Inserted
    <3> QED
      BY <3>1
  <2> QED
    BY <1>1, <1>2, <1>4, <2>1 DEF Inserted, CngOn
<1>5. CASE FlushBuffers
  <2>1. /\ sync'.left = 0 /\ (codec'.new <=> codec.new) /\ bereft' = (bereft \/ codec.new)
        /\ UNCHANGED <<last_mode, logic, asserted>>
    BY <1>1, <1>5, FlushLeaves
  <2>2. bereft \in BOOLEAN /\ codec.new \in BOOLEAN
    BY <1>1 DEF Types, Codecs
  <2>3. ~bereft /\ ~codec.new
    BY <2>1, <2>2
  <2> QED
    BY <1>1, <1>2, <2>1, <2>3 DEF CngOn
<1>6. ASSUME NEW d \in Decisions, KeepPlaying(d) PROVE Goals
  <2>1. /\ buffer' = Useful /\ logic'.cng = Counted.cng
        /\ sync.left >= Block /\ sync'.left = sync.left - Block
        /\ UNCHANGED <<codec, last_mode, asserted, bereft>>
    BY <1>1, <1>6, KeepLeaves
  <2>2. ~CngOn
    BY <1>1, <1>2, <2>1 DEF CngOn
  <2>3. codec.new => Useful # <<>>
    <3> SUFFICES ASSUME codec.new, Useful = <<>> PROVE FALSE
      OBVIOUS
    <3>1. Len(buffer) >= 1 /\ \A k \in 1 .. Len(buffer) : Useless(buffer[k])
      BY <1>1, <1>2, <2>1, UsefulIs
    <3> QED
      BY <2>2, <3>1 DEF Useless
  <2> QED
    BY <1>1, <1>2, <1>3, <2>1, <2>2, <2>3 DEF CngOn
<1>7. ASSUME NEW d \in Decisions, PacketMissing(d) PROVE Goals
  <2>1. /\ Useful = <<>>
        /\ codec.new \/ last_mode = "error"
        /\ bereft' = (bereft \/ (buffer # <<>> /\ IsComfortNoise(Head(buffer))))
    BY <1>1, <1>7, MissingLeaves
  <2>2. codec.new /\ buffer # <<>> /\ ~bereft
    BY <1>2, <2>1
  <2>3. Head(buffer) = buffer[1] /\ 1 \in 1 .. Len(buffer)
    BY <1>1, <2>2
  <2>4. Useless(buffer[1])
    BY <1>1, <2>1, <2>3, UsefulIs
  <2>5. IsComfortNoise(Head(buffer))
    BY <2>2, <2>3, <2>4 DEF Useless
  <2> QED
    BY <2>1, <2>2, <2>5
<1>8. ASSUME NEW d \in Decisions, Conceal(d) PROVE Goals
  <2>1. /\ ~codec.new /\ logic'.cng = Counted.cng /\ sync.left < Block /\ ~codec'.new
        /\ \/ d.op = "expand" /\ last_mode' = "expand"
           \/ d.op = "internal" /\ last_mode' = "internal"
           \/ d.op = "cng_no_packet" /\ last_mode' = "rfc3389" /\ sync'.left < Block
        /\ UNCHANGED <<asserted, bereft>>
    BY <1>1, <1>8, ConcealLeaves
  <2>2. /\ d.op = "internal" => Counted.cng = "internal"
        /\ d.op = "expand" => last_mode = "error" \/ last_mode \notin {"rfc3389", "internal"}
    BY <1>1, DecisionIs
  <2>3. CASE d.op = "expand"
    BY <1>2, <1>3, <2>1, <2>2, <2>3 DEF CngOn
  <2>4. CASE d.op = "internal"
    BY <1>2, <1>3, <2>1, <2>2, <2>4 DEF CngOn
  <2>5. CASE d.op = "cng_no_packet"
    BY <1>2, <1>3, <2>1, <2>5 DEF CngOn
  <2> QED
    BY <2>1, <2>3, <2>4, <2>5
<1>9. ASSUME NEW d \in Decisions, Stretch(d) \/ PlayOn(d) PROVE Goals
  <2>1. /\ ~codec.new /\ sync.left >= Block /\ logic'.cng = Counted.cng
        /\ last_mode' \in {last_mode, "stretched", "unstretched"}
        /\ UNCHANGED <<codec, asserted, bereft>>
    BY <1>1, <1>9, StretchLeaves, PlayOnLeaves
  <2>2. ~CngOn
    BY <1>1, <1>2, <2>1 DEF CngOn
  <2> QED
    BY <1>2, <1>3, <2>1, <2>2 DEF CngOn
<1>10. ASSUME NEW d \in Decisions, Useful # <<>>, ~bereft PROVE Asserts(d)
  <2>1. d.op = "undefined" => codec.new
    BY <1>1, <1>2, <1>10, OnlyNew
  <2> QED
    BY <1>10, <2>1 DEF Asserts
<1>11. ASSUME NEW d \in Decisions, PlayNoise(d) PROVE Goals
  <2>1. /\ Useful # <<>> /\ AfterReset(d) = "cng" /\ ~codec'.new /\ sync'.left < Block
        /\ last_mode' = "rfc3389"
        /\ asserted /\ Asserts(d) /\ Duration(Header) >= Block => asserted'
        /\ bereft' = bereft
    BY <1>1, <1>11, NoiseLeaves
  <2>2. Noisy(sent)
    <3>1. d.op \in {"cng", "cng_no_packet"}
      BY <2>1 DEF AfterReset
    <3>2. d.op = "cng_no_packet" => Counted.cng = "rfc3389"
      BY <1>1, DecisionIs
    <3>3. d.op = "cng" => IsComfortNoise(Header)
      BY <1>1, DecisionIs
    <3>4. Header \in Arrived
      BY <1>1, <2>1, HeaderIs
    <3>5. d.op = "cng" => Noisy(sent)
      BY <1>1, <3>3, <3>4, NoisyIs
    <3> QED
      BY <1>1, <1>3, <3>1, <3>2, <3>5 DEF Quiet
  <2>3. Mono(sent) /\ frame >= Block
    BY <1>1, <2>2 DEF MonoNoise, Steady
  <2>4. Duration(Header) >= Block
    <3>1. Header \in Arrived
      BY <1>1, <2>1, HeaderIs
    <3>2. ~IsComfortNoise(Header) => Lasts(Header)
      BY <1>1, <2>3, <3>1, MonoIs
    <3> HIDE DEF Header
    <3> QED
      BY <2>3, <3>2 DEF Duration, Lasts
  <2>5. asserted'
    BY <1>2, <1>10, <2>1, <2>4
  <2> QED
    BY <2>1, <2>5 DEF CngOn
<1>12. ASSUME NEW d \in Decisions, PlayPackets(d) PROVE Goals
  <2>1. /\ Useful # <<>> /\ ~codec'.new /\ logic'.cng = "off" /\ Leaves
        /\ asserted' = (asserted /\ Asserts(d)) /\ bereft' = bereft /\ Typed'
    BY <1>1, <1>12, PlayLeaves
  <2>2. asserted'
    BY <1>2, <1>10, <2>1
  <2>3. sync'.left \in Nat
    BY <2>1 DEF Typed, Types, Syncs
  <2> QED
    BY <1>1, <1>2, <2>1, <2>2, <2>3 DEF Leaves, CngOn
<1>13. CASE UNCHANGED vars
  BY <1>2, <1>13 DEF vars, inputs, CngOn
<1> QED
  BY <1>1, <1>4, <1>5, <1>6, <1>7, <1>8, <1>9, <1>11, <1>12, <1>13, Steps

LEMMA WatchedInit == Init => Watched
<1> SUFFICES ASSUME Init PROVE Watched
  OBVIOUS
<1>1. /\ Typed /\ Empty /\ Near /\ Quiet /\ Watch
  BY TypedInit, Limits DEF Init, Empty, Near, Quiet, Watch, CngOn, NewSync
<1>2. Steady
  BY Limits DEF Init, Steady, NewSync, Silent
<1> QED
  BY <1>1, <1>2 DEF Watched

LEMMA WatchedAlways == ASSUME MonoNoise PROVE Spec => []Watched
<1>1. Watched /\ [Next]_vars => Watched'
  BY TypedNext, EmptyNext, NearNext, SteadyNext, QuietNext, WatchNext DEF Watched
<1> QED
  BY <1>1, WatchedInit, PTL DEF Spec

\* An operation is undefined only when there is a new codec, and then there is a packet,
\* whatever is lost, late or doubled, unless a flush or comfort noise that is too old
\* took it; for every stream with comfort noise but those of more channels, or of
\* frames under 10 ms.
THEOREM AssertsRight == ASSUME MonoNoise PROVE Spec => []AssertsKnown
<1>1. Watched => AssertsKnown
  BY DEF Watched, Watch, AssertsKnown
<1> QED
  BY <1>1, WatchedAlways, PTL

-----------------------------------------------------------------------------
(* Whole blocks.                                                             *)

\* While the assertions held, the active decoder is that of the packets in the buffer,
\* unless comfort noise plays; and every block was a whole one.
InUse ==
    asserted /\ ~codec.new /\ ~codec.first =>
        \/ codec.active = codec.pt /\ codec.pt \in SpeechTypes
        \/ last_mode = "rfc3389" /\ sync.left < Block
Sound == asserted => last_mode # "error" /\ full

Filled == Typed /\ Empty /\ Steady /\ InUse /\ Sound

\* Every stream has one channel and no frames under 10 ms.
MonoStreams == \A s \in Streams : Mono(s)

\* Where the assertions hold, what is decoded as speech is speech, of the codec in use.
LEMMA SpeechPlays ==
    ASSUME Typed, Empty, Sound, NEW d \in Decisions, asserted, Useful # <<>>,
           AfterReset(d) \in {"normal", "merge", "accelerate", "preemptive"}
    PROVE  ~IsComfortNoise(Header) /\ Header.pt = codec.pt /\ codec.pt \in SpeechTypes
           /\ ~codec.first
<1>1. Types /\ OneCodec(buffer, codec.pt) /\ buffer \in Seq(Arrived) /\ last_mode # "error"
  BY DEF Typed, Types, Sound
<1>2. ~IsComfortNoise(Header)
  <2> SUFFICES ASSUME IsComfortNoise(Header) PROVE FALSE
    OBVIOUS
  <2>1. d.op \in {"cng", "cng_no_packet"}
    BY <1>1, DecisionIs
  <2> QED
    BY <2>1 DEF AfterReset
<1>3. /\ Header = Useful[1] /\ Len(Useful) >= 1 /\ Len(Useful) \in Nat /\ Header \in Arrived
      /\ Len(Useful) <= Len(buffer)
      /\ \A k \in 1 .. Len(Useful) : \E j \in 1 .. Len(buffer) : Useful[k] = buffer[j]
  BY <1>1, UsefulIs
<1>4. PICK j \in 1 .. Len(buffer) : Header = buffer[j]
  <2>1. 1 \in 1 .. Len(Useful)
    BY <1>3
  <2> QED
    BY <1>3, <2>1
<1>5. Header.pt = codec.pt /\ Header.pt \in Pts
  <2>1. Header.pt \in Pts
    BY <1>3 DEF Arrived, Packets
  <2> HIDE DEF Header
  <2> QED
    BY <1>1, <1>2, <1>4, <2>1 DEF OneCodec
<1>6. ~codec.first
  <2>1. Len(<<>>) = 0
    OBVIOUS
  <2> QED
    BY <1>3, <2>1 DEF Empty
<1> QED
  BY <1>2, <1>5, <1>6 DEF Pts, IsComfortNoise

\* Such speech is a whole block at least, and enough to remove some of it.
LEMMA SpeechLasts ==
    ASSUME MonoStreams, Filled, NEW d \in Decisions, asserted, Useful # <<>>,
           AfterReset(d) \in {"normal", "merge", "accelerate", "preemptive"}
    PROVE  LET len == Loop(d, Speech(d)).len
           IN  /\ len \in 0 .. Most /\ Ready(d).left + len >= Block
               /\ Goal(d) = "accelerate" => \A more \in Cut : Ready(d).left + len - more >= Block
<1> DEFINE len == Loop(d, Speech(d)).len
           last == Ready(d).frame
           list == Taken(d)
<1>1. /\ Typed /\ Types /\ Empty /\ Steady /\ InUse /\ Sound /\ sent \in Streams /\ Mono(sent)
      /\ frame \in Frames /\ frame >= Block /\ frame \in Nat /\ sync.left \in Nat /\ Block = 2
      /\ kMaxFrameSize \in Nat
  BY Limits DEF Filled, Typed, Types, Syncs, MonoStreams, Steady, Frames
<1>2. /\ ~IsComfortNoise(Header) /\ Header.pt = codec.pt /\ codec.pt \in SpeechTypes
      /\ ~codec.first
  BY <1>1, SpeechPlays
<1>3. /\ list \in Seq(Arrived) /\ list \in Seq(Packets) /\ Len(list) \in Nat /\ Len(list) >= 1
      /\ Len(list) <= MaxPackets /\ list[1] = Header
      /\ \A k \in 1 .. Len(list) : ~IsComfortNoise(list[k])
      /\ Speech(d) = list
  BY <1>1, <1>2, SpeechIs
<1>4. last >= Block /\ Ready(d).format.channels = 1 /\ last \in Frames
  BY <1>1, ReadySteady
<1>5. len = DecodeLoop(list, last, 1).len
  BY <1>3, <1>4 DEF Loop
<1>6. \A k \in 1 .. Len(list) : Lasts(list[k])
  <2> SUFFICES ASSUME NEW k \in 1 .. Len(list) PROVE Lasts(list[k])
    OBVIOUS
  <2>1. list[k] \in Arrived /\ ~IsComfortNoise(list[k])
    BY <1>3
  <2> QED
    BY <1>1, <2>1, MonoIs
<1>7. len \in 0 .. Most
  BY <1>1, <1>3, LoopIs
<1>8. Most \in Nat /\ Ready(d).left \in Nat
  BY <1>1, MostIs, ReadyIs
<1> HIDE DEF len, last, list
<1>9. len >= Block
  <2>1. len >= Block * Len(list)
    BY <1>3, <1>4, <1>5, <1>6, DecodesWhole
  <2> QED
    BY <1>1, <1>3, <1>7, <1>8, <2>1
<1>10. ASSUME Goal(d) = "accelerate", NEW more \in Cut PROVE Ready(d).left + len - more >= Block
  <2>1. /\ AfterReset(d) = "accelerate" /\ ~BuildUp(d) /\ Required(d) = Block
        /\ Lasting(list) + sync.left >= 3 * Block
    <3>1. AfterReset(d) = "accelerate" /\ ~BuildUp(d) /\ ~(Lasting(list) + sync.left < 3 * Block)
      BY <1>10 DEF Goal, list
    <3>2. Required(d) = Block
      BY <3>1 DEF Required
    <3>3. Lasting(list) \in Int
      <4>1. list[Len(list)] \in Packets /\ list[1] \in Packets
        BY <1>3
      <4>2. list[Len(list)].ts - list[1].ts \in Int
        BY <4>1 DEF Packets, Stamps
      <4>3. Ts(list[Len(list)].ts - list[1].ts) \in Int
        BY <4>2, OnTheCircle DEF Stamps
      <4>4. Duration(list[Len(list)]) \in Int
        BY <1>1, <4>1 DEF Duration, Packets, Frames
      <4> QED
        BY <4>3, <4>4 DEF Lasting
    <3> QED
      BY <1>1, <3>1, <3>2, <3>3
  <2>2. Header \in Packets /\ Lasts(Header) /\ Header.len \in Nat /\ Header.ts \in Stamps
    <3>1. Header \in Packets
      BY <1>1, HeaderIs
    <3>2. Lasts(Header)
      BY <1>3, <1>6
    <3> HIDE DEF Header
    <3> QED
      BY <1>1, <3>1, <3>2 DEF Packets, Frames
  <2>3. Duration(Header) = (IF Header.sync THEN frame ELSE Header.len) /\ Duration(Header) >= Block
    <3> HIDE DEF Header
    <3> QED
      BY <1>1, <1>2, <2>2 DEF Duration, Lasts
  <2>4. Len(list) = 1
    BY <1>1, <2>1, <2>3, ListTaken DEF list, Taken
  <2>5. Lasting(list) = Duration(Header)
    <3>1. Lasting(list) = Ts(Header.ts - Header.ts) + Duration(Header)
      BY <1>3, <2>4 DEF Lasting
    <3> HIDE DEF Header
    <3>2. Header.ts - Header.ts = 0 /\ 0 \in Stamps
      BY <2>2, SpansAssumption DEF Stamps
    <3>3. Ts(0) = 0
      BY <3>2, OnTheCircle
    <3>4. Duration(Header) \in Nat
      BY <1>1, <2>2, <2>3
    <3> QED
      BY <3>1, <3>2, <3>3, <3>4
  <2>6. len = IF Header.sync THEN last ELSE Header.len
    <3>1. 1 \in Nat \ {0}
      OBVIOUS
    <3>2. len = Decoded(Header, last, 1)
      BY <1>3, <1>4, <1>5, <2>4, <3>1, DecodesFew
    <3>3. last \div 1 = last
      BY <1>1, <1>4 DEF Frames
    <3> HIDE DEF Header
    <3> QED
      BY <3>2, <3>3 DEF Decoded
  <2>7. more \in 0 .. 3
    BY <1>1, Limits
  <2>8. ~codec.new
    BY <2>1 DEF AfterReset, Restarting
  <2> HIDE DEF Header
  <2>9. CASE last = frame /\ Ready(d).left = sync.left
    <3>1. Lasting(list) = len
      BY <2>3, <2>5, <2>6, <2>9
    <3>2. len + sync.left >= 3 * Block
      BY <2>1, <3>1
    <3> QED
      BY <1>1, <1>7, <1>8, <2>7, <2>9, <3>2
  <2>10. CASE last = 3 * Block /\ Ready(d).left = 0 /\ Ready(d).changed
    <3>1. codec.active # codec.pt
      BY <1>1, <1>2, <2>10, ReadyIs
    <3>2. sync.left < Block
      BY <1>1, <1>2, <2>8, <3>1 DEF InUse
    <3> QED
      BY <1>1, <1>7, <1>8, <2>1, <2>2, <2>3, <2>5, <2>6, <2>7, <2>10, <3>2
  <2>11. \/ last = frame /\ Ready(d).left = sync.left
         \/ last = 3 * Block /\ Ready(d).left = 0 /\ Ready(d).changed
    BY <1>1, ReadyIs DEF last
  <2> QED
    BY <2>9, <2>10, <2>11
<1>11. Ready(d).left + len >= Block
  BY <1>1, <1>7, <1>8, <1>9
<1> QED
  BY <1>7, <1>10, <1>11 DEF len

LEMMA FilledNext == ASSUME MonoStreams PROVE Filled /\ [Next]_vars => InUse' /\ Sound'
<1> SUFFICES ASSUME Filled, [Next]_vars PROVE InUse' /\ Sound'
  OBVIOUS
<1>1. /\ Typed /\ Types /\ Empty /\ Steady /\ InUse /\ Sound /\ sent \in Streams /\ Mono(sent)
      /\ frame >= Block /\ sync.left \in Nat /\ Block = 2 /\ asserted \in BOOLEAN
  BY Limits DEF Filled, Typed, Types, Syncs, MonoStreams, Steady
<1>2. asserted /\ ~codec.new /\ ~codec.first =>
         \/ codec.active = codec.pt /\ codec.pt \in SpeechTypes
         \/ last_mode = "rfc3389" /\ sync.left < Block
  BY <1>1 DEF InUse
<1>3. asserted => last_mode # "error" /\ full
  BY <1>1 DEF Sound
<1>4. CASE Inserted
  <2>1. NoType \notin SpeechTypes
    BY TypesAssumption
  <2> QED
    BY <1>2, <1>3, <1>4, <2>1 DEF Inserted, InUse, Sound
<1>5. CASE FlushBuffers
  <2>1. codec'.first /\ UNCHANGED <<last_mode, full, asserted>>
    BY <1>1, <1>5, FlushLeaves
  <2> QED
    BY <1>3, <2>1 DEF InUse, Sound
<1>6. ASSUME NEW d \in Decisions, KeepPlaying(d) \/ Stretch(d) \/ PlayOn(d)
      PROVE  InUse' /\ Sound'
  <2>1. /\ sync.left >= Block /\ last_mode' \in {last_mode, "stretched", "unstretched"}
        /\ UNCHANGED <<codec, asserted, full>>
    BY <1>1, <1>6, KeepLeaves, StretchLeaves, PlayOnLeaves
  <2> QED
    BY <1>1, <1>2, <1>3, <2>1 DEF InUse, Sound
<1>7. ASSUME NEW d \in Decisions, PacketMissing(d) PROVE InUse' /\ Sound'
  BY <1>1, <1>7, MissingLeaves DEF InUse, Sound
<1>8. ASSUME NEW d \in Decisions, Conceal(d) PROVE InUse' /\ Sound'
  <2>1. /\ ~codec.new /\ ~codec'.new /\ codec'.first = codec.first /\ codec'.pt = codec.pt
        /\ codec'.active = codec.active /\ asserted' = asserted /\ full' = full
        /\ \/ d.op = "expand" /\ last_mode' = "expand"
           \/ d.op = "internal" /\ last_mode' = "internal"
           \/ d.op = "cng_no_packet" /\ last_mode' = "rfc3389" /\ sync'.left < Block
    BY <1>1, <1>8, ConcealLeaves
  <2>2. /\ d.op = "internal" => Counted.cng = "internal"
        /\ d.op = "expand" => last_mode = "error" \/ last_mode \notin {"rfc3389", "internal"}
    BY <1>1, DecisionIs
  <2>3. Counted.cng = "internal" => last_mode # "rfc3389"
    BY <1>1, CountedIs
  <2>4. Sound'
    BY <1>3, <2>1 DEF Sound
  <2>5. InUse'
    BY <1>2, <1>3, <2>1, <2>2, <2>3 DEF InUse
  <2> QED
    BY <2>4, <2>5
<1>9. ASSUME NEW d \in Decisions, PlayNoise(d) PROVE InUse' /\ Sound'
  BY <1>1, <1>3, <1>9, NoiseLeaves DEF InUse, Sound
<1>10. ASSUME NEW d \in Decisions, PlayPackets(d), asserted' PROVE InUse' /\ Sound'
  <2>1. /\ Useful # <<>> /\ AfterReset(d) \in {"normal", "merge", "accelerate", "preemptive"}
        /\ codec'.pt = codec.pt /\ Leaves
        /\ codec'.active = IF Ready(d).changed THEN Header.pt ELSE codec.active
        /\ asserted' = (asserted /\ Asserts(d))
        /\ \/ full' = full
           \/ PlayDecoded(Goal(d), Ready(d), Taken(d), Loop(d, Speech(d)).len)
    BY <1>1, <1>10, PlayLeaves
  <2>2. asserted
    BY <1>10, <2>1
  <2>3. ~IsComfortNoise(Header) /\ Header.pt = codec.pt /\ codec.pt \in SpeechTypes
    BY <1>1, <2>1, <2>2, SpeechPlays
  <2>4. Ready(d).changed <=> codec.active # Header.pt
    BY <1>1, <2>1, <2>3, ReadyIs
  <2>5. codec'.active = codec'.pt /\ codec'.pt \in SpeechTypes
    BY <2>1, <2>3, <2>4
  <2>6. full' = full
    <3>1. Goal(d) \in {"normal", "merge", "accelerate", "preemptive"}
      BY <2>1 DEF Goal
    <3>2. LET len == Loop(d, Speech(d)).len
          IN  /\ len \in 0 .. Most /\ Ready(d).left + len >= Block
              /\ Goal(d) = "accelerate" => \A more \in Cut : Ready(d).left + len - more >= Block
      BY <2>1, <2>2, SpeechLasts
    <3> QED
      BY <1>1, <2>1, <3>1, <3>2, DecodedLeaves
  <2> QED
    BY <1>3, <2>1, <2>2, <2>5, <2>6 DEF Leaves, InUse, Sound
<1>11. ASSUME ~asserted' PROVE InUse' /\ Sound'
  BY <1>11 DEF InUse, Sound
<1>12. CASE UNCHANGED vars
  BY <1>2, <1>3, <1>12 DEF vars, InUse, Sound
<1>13. CASE \E d \in Decisions :
           \/ KeepPlaying(d) \/ PacketMissing(d) \/ Conceal(d) \/ Stretch(d)
           \/ PlayOn(d) \/ PlayNoise(d) \/ PlayPackets(d)
  <2> HIDE DEF Decisions, InUse, Sound
  <2> QED
    BY <1>6, <1>7, <1>8, <1>9, <1>10, <1>11, <1>13
<1> HIDE DEF InUse, Sound
<1> QED
  BY <1>1, <1>4, <1>5, <1>12, <1>13, Steps

\* Every call of GetAudio gives a whole block while the assertions hold: there is enough
\* left, concealed, stretched or decoded, also where a packet does not decode, a codec is
\* taken into use without a restart or decoding is put off; on one channel, where no
\* frame of speech is under 10 ms.  (On two, the stereo run shows one that is not.)
THEOREM BlocksWhole == ASSUME MonoStreams PROVE Spec => []FullBlocks
<1>1. Init => Filled
  <2>1. Init => InUse /\ Sound /\ Empty
    BY DEF Init, InUse, Sound, Empty
  <2>2. Init => Typed /\ Steady
    BY WatchedInit DEF Watched
  <2> QED
    BY <2>1, <2>2 DEF Filled
<1>2. Filled /\ [Next]_vars => Filled'
  BY TypedNext, EmptyNext, SteadyNext, FilledNext DEF Filled
<1>3. Filled => FullBlocks
  BY DEF Filled, Sound, FullBlocks
<1> QED
  BY <1>1, <1>2, <1>3, PTL DEF Spec

\* The two together: without a first packet lost, every block is whole.
COROLLARY Served == ASSUME MonoStreams PROVE Spec => [](~bereft => full)
<1>1. MonoNoise
  BY DEF MonoStreams, MonoNoise
<1>2. AssertsKnown /\ FullBlocks => (~bereft => full)
  BY DEF AssertsKnown, FullBlocks
<1> QED
  BY <1>1, <1>2, AssertsRight, BlocksWhole, PTL

-----------------------------------------------------------------------------
(* Where packets start, and their order in the buffer.                       *)

\* The packet a packet came with, and the time its audio starts.
Carrier(p) == IF p.primary THEN p.n ELSE p.n + 1
Start(p) == IF p.primary THEN sent[p.n].at ELSE sent[p.n + 1].at - p.len

LEMMA StartIs ==
    ASSUME sent \in Streams, NEW p \in Arrived
    PROVE  /\ Start(p) \in Nat /\ Start(p) < TsSpan \div 2 - 1 /\ p.ts = Ts(TsStart + Start(p))
           /\ Carrier(p) \in Slots /\ p.seq = SeqNo(SeqStart + Carrier(p))
           /\ p.pt = sent[Carrier(p)].pt /\ p.n \in Slots /\ p.len = sent[Carrier(p)].len
           /\ p.primary \in BOOLEAN /\ p.sync \in BOOLEAN
           /\ p.primary => Start(p) = sent[p.n].at
           /\ ~p.primary => /\ ~p.sync /\ sent[p.n + 1].fec /\ p = FecOf(p.n + 1)
                            /\ Start(p) + p.len = sent[p.n + 1].at /\ sent[p.n].at <= Start(p)
                            /\ sent[p.n].pt = p.pt
<1>1. PICK n \in Slots : p = PacketOf(n) \/ p = SyncOf(n) \/ (sent[n].fec /\ p = FecOf(n))
  BY DEF Arrived, Came
<1>2. n \in Nat /\ sent[n] \in Slot /\ sent[n].at \in Nat /\ sent[n].at < TsSpan \div 2 - 1
  <2>1. n \in Nat /\ sent[n] \in Slot /\ sent[n].at \in Nat
        /\ sent[n].at + MaxPackets * kMaxFrameSize < TsSpan \div 2 - 1
    BY SlotIs DEF Slot
  <2>2. Most \in Nat /\ Most = MaxPackets * kMaxFrameSize
    BY MostIs DEF Most
  <2>3. TsSpan \div 2 \in Nat
    BY SpansAssumption
  <2>4. sent[n].at \in 0 .. sent[n].at
    BY <2>1
  <2> QED
    BY <2>1, <2>2, <2>3, <2>4, Under
<1>3. CASE p = PacketOf(n) \/ p = SyncOf(n)
  <2>1. /\ p.primary = TRUE /\ p.n = n /\ p.ts = Ts(TsStart + sent[n].at) /\ p.pt = sent[n].pt
        /\ p.seq = SeqNo(SeqStart + n) /\ p.len = sent[n].len /\ p.sync \in BOOLEAN
    <3>1. CASE p = PacketOf(n)
      BY <3>1 DEF PacketOf
    <3>2. CASE p = SyncOf(n)
      BY <3>2 DEF PacketOf, SyncOf
    <3> QED
      BY <1>3, <3>1, <3>2
  <2> QED
    BY <1>2, <2>1 DEF Start, Carrier
<1>4. CASE sent[n].fec /\ p = FecOf(n)
  <2> DEFINE len == sent[n].len
             x == sent[n].at - len
  <2>1. /\ len \in Frames /\ n - 1 \in Slots /\ n - 1 \in Nat /\ sent[n - 1].pt = sent[n].pt
        /\ x \in 0 .. sent[n].at /\ sent[n - 1].at <= x
        /\ p = [PacketOf(n) EXCEPT !.n = n - 1, !.ts = Ts(TsStart + x), !.primary = FALSE]
        /\ PacketOf(n).len = len
    BY <1>4, FecAt
  <2> HIDE DEF x
  <2>2. /\ p.primary = FALSE /\ p.n = n - 1 /\ p.ts = Ts(TsStart + x) /\ p.pt = sent[n].pt
        /\ p.seq = SeqNo(SeqStart + n) /\ p.len = len /\ p.sync = FALSE
    BY <2>1 DEF PacketOf
  <2>3. (n - 1) + 1 = n
    BY <1>2
  <2>4. Start(p) = x /\ Carrier(p) = n
    BY <2>2, <2>3 DEF Start, Carrier, x
  <2>5. x \in Nat /\ x <= sent[n].at /\ x < TsSpan \div 2 - 1
    <3>1. TsSpan \div 2 \in Int
      BY SpansAssumption
    <3> QED
      BY <1>2, <2>1, <3>1
  <2>6. x + len = sent[n].at
    BY <1>2, <2>1, Limits DEF x, Frames
  <2>7. /\ Start(p) \in Nat /\ Start(p) < TsSpan \div 2 - 1 /\ p.ts = Ts(TsStart + Start(p))
        /\ Carrier(p) \in Slots /\ p.seq = SeqNo(SeqStart + Carrier(p))
        /\ p.pt = sent[Carrier(p)].pt /\ p.n \in Slots /\ p.len = sent[Carrier(p)].len
        /\ p.primary = FALSE /\ p.sync = FALSE
    BY <2>1, <2>2, <2>4, <2>5
  <2>8. /\ sent[p.n + 1].fec /\ p = FecOf(p.n + 1)
        /\ Start(p) + p.len = sent[p.n + 1].at /\ sent[p.n].at <= Start(p)
        /\ sent[p.n].pt = p.pt
    <3>1. p.n + 1 = n /\ p.n = n - 1
      BY <2>2, <2>3
    <3>2. Start(p) + p.len = sent[n].at
      BY <2>2, <2>4, <2>6
    <3> QED
      BY <1>4, <2>1, <2>2, <2>4, <3>1, <3>2
  <2> QED
    BY <2>7, <2>8
<1> QED
  BY <1>1, <1>3, <1>4

\* On a circle, numbers are as far apart as what they are of, one way or the other.
LEMMA RoundTheCircle ==
    ASSUME NEW span \in Nat \ {0}, NEW a \in Int, NEW b \in Int, b - a \in 1 .. (span - 1)
    PROVE  /\ ((b % span) - (a % span)) % span = b - a
           /\ ((a % span) - (b % span)) % span = span - (b - a)
<1> DEFINE x == a % span
           y == b % span
<1>1. x \in 0 .. (span - 1) /\ y \in 0 .. (span - 1)
  BY Places
<1>2. b - a \in 0 .. (span - 1) /\ b - a > 0
  OBVIOUS
<1>3. (y - x) % span = b - a
  BY <1>2, Between
<1> HIDE DEF x, y
<1>4. x # y
  <2> SUFFICES ASSUME x = y PROVE FALSE
    OBVIOUS
  <2>1. y - x = 0 /\ 0 \in 0 .. (span - 1)
    BY <1>1
  <2>2. 0 % span = 0
    BY <2>1, Within
  <2> QED
    BY <1>2, <1>3, <2>1, <2>2
<1>5. (x - y) % span = span - (b - a)
  <2>1. /\ (x - y) % span = IF x > y THEN x - y ELSE x - y + span
        /\ (y - x) % span = IF y > x THEN y - x ELSE y - x + span
    BY <1>1, <1>4, Distances
  <2> QED
    BY <1>1, <1>3, <1>4, <2>1
<1> QED
  BY <1>3, <1>5 DEF x, y

\* Times of a stream are less than half of the circle apart, as IsNewer takes it.
Half == TsSpan \div 2 - 1

LEMMA HalfCircle ==
    ASSUME NEW u \in Nat, NEW v \in Nat, u < v, v - u < Half
    PROVE  /\ Ts(Ts(v) - Ts(u)) = v - u
           /\ Ts(Ts(u) - Ts(v)) = TsSpan - (v - u)
           /\ TsSpan - (v - u) >= Half
           /\ Ts(u) # Ts(v)
<1>1. TsSpan \in Nat \ {0} /\ TsSpan \div 2 \in Nat /\ 2 * (TsSpan \div 2) <= TsSpan
  BY SpansAssumption
<1>2. TsSpan - (v - u) >= Half /\ v - u \in 1 .. (TsSpan - 1)
  BY <1>1 DEF Half
<1>3. /\ ((v % TsSpan) - (u % TsSpan)) % TsSpan = v - u
      /\ ((u % TsSpan) - (v % TsSpan)) % TsSpan = TsSpan - (v - u)
  <2>1. TsSpan \in Nat \ {0} /\ u \in Int /\ v \in Int /\ v - u \in 1 .. (TsSpan - 1)
    BY <1>1, <1>2
  <2> QED
    BY <2>1, RoundTheCircle
<1>4. Ts(Ts(v) - Ts(u)) = v - u /\ Ts(Ts(u) - Ts(v)) = TsSpan - (v - u)
  <2> DEFINE x == u % TsSpan
             y == v % TsSpan
  <2>1. Ts(u) = x /\ Ts(v) = y
    BY DEF Ts
  <2>2. (y - x) % TsSpan = v - u /\ (x - y) % TsSpan = TsSpan - (v - u)
    BY <1>3
  <2> HIDE DEF x, y
  <2>3. Ts(y - x) = v - u /\ Ts(x - y) = TsSpan - (v - u)
    BY <2>2 DEF Ts
  <2> QED
    BY <2>1, <2>3
<1>5. Ts(u) # Ts(v)
  <2> DEFINE x == Ts(u)
             y == Ts(v)
  <2> SUFFICES ASSUME x = y PROVE FALSE
    OBVIOUS
  <2>1. Ts(y - x) = v - u
    BY <1>4
  <2>2. x \in Int
    BY OnTheCircle DEF Stamps
  <2> HIDE DEF x, y
  <2>3. y - x = 0 /\ 0 \in Stamps
    BY <2>2, SpansAssumption DEF Stamps
  <2>4. Ts(0) = 0
    BY <2>3, OnTheCircle
  <2> QED
    BY <1>2, <2>1, <2>3, <2>4
<1> QED
  BY <1>2, <1>4, <1>5

\* Packets come in the order they start in.
LEMMA StartsInOrder ==
    ASSUME sent \in Streams, NEW p \in Arrived, NEW q \in Arrived
    PROVE  /\ p.ts = q.ts <=> Start(p) = Start(q)
           /\ Start(p) < Start(q) => Before(p, q)
           /\ Start(q) < Start(p) => ~Before(p, q)
<1> DEFINE u == TsStart + Start(p)
           v == TsStart + Start(q)
<1>1. /\ Start(p) \in Nat /\ Start(p) < Half /\ p.ts = Ts(u)
      /\ Start(q) \in Nat /\ Start(q) < Half /\ q.ts = Ts(v)
  BY StartIs DEF Half
<1>2. TsStart \in Nat /\ Half \in Int
  BY Limits, SpansAssumption DEF Half
<1>3. /\ u \in Nat /\ v \in Nat
      /\ Start(p) < Start(q) <=> u < v
      /\ Start(q) < Start(p) <=> v < u
      /\ Start(p) = Start(q) <=> u = v
      /\ v - u < Half /\ u - v < Half
  <2> DEFINE a == Start(p)
             b == Start(q)
  <2>1. a \in Nat /\ a < Half /\ b \in Nat /\ b < Half
    BY <1>1
  <2> HIDE DEF a, b
  <2>2. b - a < Half /\ a - b < Half
    BY <1>2, <2>1
  <2> QED
    BY <1>2, <2>1, <2>2 DEF a, b
<1> HIDE DEF u, v
<1>4. ASSUME u < v PROVE p.ts # q.ts /\ Before(p, q)
  <2>1. Ts(q.ts - p.ts) = v - u /\ p.ts # q.ts
    BY <1>1, <1>3, <1>4, HalfCircle
  <2> QED
    BY <1>3, <2>1 DEF Before, Half
<1>5. ASSUME v < u PROVE p.ts # q.ts /\ ~Before(p, q)
  <2>1. /\ Ts(q.ts - p.ts) = TsSpan - (u - v) /\ TsSpan - (u - v) >= Half
        /\ p.ts # q.ts
    BY <1>1, <1>3, <1>5, HalfCircle
  <2>2. ~(TsSpan - (u - v) < Half)
    BY <1>2, <1>3, <2>1, SpansAssumption
  <2> QED
    BY <2>1, <2>2 DEF Before, Half
<1>6. u = v => p.ts = q.ts
  BY <1>1
<1>7. u < v \/ v < u \/ u = v
  BY <1>3
<1> QED
  BY <1>3, <1>4, <1>5, <1>6, <1>7

-----------------------------------------------------------------------------
(* The buffer: in order, and every copy with its carrier behind it.          *)

\* A stream of one pace: mono; its speech in frames of one length, each right behind
\* the one before it but where a frame is 20 ms or more; a circle of sequence numbers
\* long at most; of one format if it has comfort noise.
OnePace(s) ==
    /\ \A n \in DOMAIN s :
          /\ Format[s[n].pt].channels = 1 /\ n + 1 < SeqSpan
          /\ s[n].fec => s[n].pt \in SpeechTypes
    /\ \A n, m \in DOMAIN s :
          /\ s[n].pt \in SpeechTypes /\ s[m].pt \in SpeechTypes => s[n].len = s[m].len /\ s[n].len > 0
          /\ Noisy(s) => Format[s[n].pt] = Format[s[m].pt]
          /\ m = n + 1 /\ s[n].pt = s[m].pt /\ s[n].pt \in SpeechTypes /\ s[n].len < 2 * Block
                => s[m].at = s[n].at + s[n].len

Sorted(b) == \A i, j \in 1 .. Len(b) : i < j => Start(b[i]) <= Start(b[j])

\* Every copy, but those that came with the packets of some slots, is before its carrier.
Carried(b, but) ==
    \A i \in 1 .. Len(b) :
        ~b[i].primary /\ b[i].n + 1 \notin but =>
            \E j \in 1 .. Len(b) : i < j /\ b[j] = PacketOf(b[i].n + 1)

\* A packet put in its place keeps that so.
LEMMA PlacedKeeps ==
    ASSUME sent \in Streams, NEW b \in Seq(Arrived), NEW p \in Arrived, NEW but,
           Sorted(b), Carried(b, but)
    PROVE  LET r == Placed(b, p)
           IN  /\ r \in Seq(Arrived) /\ Sorted(r)
               /\ p.primary => Carried(r, but)
               /\ ~p.primary => Carried(r, but \cup {p.n + 1})
               /\ \A n \in Slots :
                     p = PacketOf(n) /\ sent[n].fec /\ Start(FecOf(n)) < Start(p) /\ but = {n}
                        => Carried(r, {})
<1> DEFINE r == Placed(b, p)
           at(k, m) == IF k <= m THEN k ELSE k + 1
<1>1. /\ r \in Seq(Arrived) /\ Len(r) = Len(b) + 1
      /\ \E m \in 0 .. Len(b) : PutBehind(b, p, m)
  BY PlacedBehind
<1>2. PICK m \in 0 .. Len(b) : PutBehind(b, p, m)
  BY <1>1
<1>3. /\ m > 0 => ~Before(p, b[m])
      /\ \A k \in 1 .. Len(b) : k > m => Before(p, b[k])
      /\ \A k \in 1 .. (Len(b) + 1) :
             r[k] = IF k <= m THEN b[k] ELSE IF k = m + 1 THEN p ELSE b[k - 1]
  BY <1>2 DEF PutBehind
<1> HIDE DEF r
<1>4. Len(b) \in Nat /\ m \in 0 .. Len(b) /\ Len(r) \in Nat
  BY <1>1
<1>5. \A k \in 1 .. Len(b) : b[k] \in Arrived /\ Start(b[k]) \in Nat
  BY StartIs
<1>6. Start(p) \in Nat
  BY StartIs
<1>7. ASSUME NEW k \in 1 .. Len(b), k <= m PROVE Start(b[k]) <= Start(p)
  <2>1. m \in 1 .. Len(b) /\ m > 0 /\ b[m] \in Arrived
    BY <1>4, <1>5, <1>7
  <2>2. ~(Start(p) < Start(b[m]))
    BY <1>3, <2>1, StartsInOrder
  <2>3. Start(b[k]) <= Start(b[m])
    <3>1. k = m \/ k < m
      BY <1>4, <1>7
    <3> QED
      BY <1>5, <2>1, <3>1 DEF Sorted
  <2> QED
    BY <1>5, <1>6, <2>1, <2>2, <2>3
<1>8. ASSUME NEW k \in 1 .. Len(b), k > m PROVE Start(p) <= Start(b[k])
  <2>1. ~(Start(b[k]) < Start(p))
    BY <1>3, <1>5, <1>8, StartsInOrder
  <2> QED
    BY <1>5, <1>6, <2>1
<1>9. \A k \in 1 .. Len(b) : at(k, m) \in 1 .. Len(r) /\ r[at(k, m)] = b[k]
  BY <1>1, <1>3, <1>4
<1>10. \A i \in 1 .. Len(r) : \/ i = m + 1 /\ r[i] = p
                             \/ \E k \in 1 .. Len(b) : i = at(k, m) /\ r[i] = b[k]
  <2> SUFFICES ASSUME NEW i \in 1 .. Len(r)
               PROVE  \/ i = m + 1 /\ r[i] = p
                      \/ \E k \in 1 .. Len(b) : i = at(k, m) /\ r[i] = b[k]
    OBVIOUS
  <2>1. CASE i <= m
    <3>1. i \in 1 .. Len(b) /\ i = at(i, m) /\ r[i] = b[i]
      BY <1>1, <1>3, <1>4, <2>1
    <3> QED
      BY <3>1
  <2>2. CASE i = m + 1
    BY <1>1, <1>3, <1>4, <2>2
  <2>3. CASE i > m + 1
    <3>1. i - 1 \in 1 .. Len(b) /\ i = at(i - 1, m) /\ r[i] = b[i - 1]
      BY <1>1, <1>3, <1>4, <2>3
    <3> QED
      BY <3>1
  <2> QED
    BY <1>4, <2>1, <2>2, <2>3
<1>11. Sorted(r)
  <2> SUFFICES ASSUME NEW i \in 1 .. Len(r), NEW j \in 1 .. Len(r), i < j
               PROVE  Start(r[i]) <= Start(r[j])
    BY DEF Sorted
  <2>1. CASE i = m + 1 /\ r[i] = p
    <3>1. PICK k \in 1 .. Len(b) : j = at(k, m) /\ r[j] = b[k]
      BY <1>4, <1>10, <2>1
    <3>2. k > m
      BY <1>4, <2>1, <3>1
    <3> QED
      BY <1>8, <2>1, <3>1, <3>2
  <2>2. CASE j = m + 1 /\ r[j] = p
    <3>1. PICK k \in 1 .. Len(b) : i = at(k, m) /\ r[i] = b[k]
      BY <1>4, <1>10, <2>2
    <3>2. k <= m
      BY <1>4, <2>2, <3>1
    <3> QED
      BY <1>7, <2>2, <3>1, <3>2
  <2>3. CASE \E k, l \in 1 .. Len(b) : i = at(k, m) /\ r[i] = b[k] /\ j = at(l, m) /\ r[j] = b[l]
    <3>1. PICK k, l \in 1 .. Len(b) : i = at(k, m) /\ r[i] = b[k] /\ j = at(l, m) /\ r[j] = b[l]
      BY <2>3
    <3>2. k < l
      BY <1>4, <3>1
    <3> QED
      BY <3>1, <3>2 DEF Sorted
  <2> HIDE DEF at
  <2> QED
    BY <1>10, <2>1, <2>2, <2>3
\* A copy that was there has its carrier behind it still.
<1>12. ASSUME NEW k \in 1 .. Len(b), ~b[k].primary, b[k].n + 1 \notin but
       PROVE  \E j \in 1 .. Len(r) : at(k, m) < j /\ r[j] = PacketOf(b[k].n + 1)
  <2>1. PICK l \in 1 .. Len(b) : k < l /\ b[l] = PacketOf(b[k].n + 1)
    BY <1>12 DEF Carried
  <2>2. at(k, m) < at(l, m)
    BY <1>4, <2>1
  <2> HIDE DEF at
  <2> QED
    BY <1>9, <2>1, <2>2
<1> HIDE DEF at
<1>13. p.primary => Carried(r, but)
  BY <1>10, <1>12 DEF Carried
<1>14. ~p.primary => Carried(r, but \cup {p.n + 1})
  BY <1>10, <1>12 DEF Carried
<1>15. ASSUME NEW n \in Slots, p = PacketOf(n), sent[n].fec, Start(FecOf(n)) < Start(p), but = {n}
       PROVE  Carried(r, {})
  <2> SUFFICES ASSUME NEW i \in 1 .. Len(r), ~r[i].primary
               PROVE  \E j \in 1 .. Len(r) : i < j /\ r[j] = PacketOf(r[i].n + 1)
    BY DEF Carried
  <2>1. r[i] # p
    BY <1>15 DEF PacketOf
  <2>2. PICK k \in 1 .. Len(b) : i = at(k, m) /\ r[i] = b[k]
    BY <1>10, <2>1
  <2>3. CASE b[k].n + 1 \in but
    <3>1. b[k].n + 1 = n
      BY <1>15, <2>3
    <3>2. b[k] = FecOf(n)
      BY <1>5, <2>2, <3>1, StartIs
    <3>3. ~(k > m)
      BY <1>5, <1>6, <1>8, <1>15, <3>2
    <3>4. m + 1 \in 1 .. Len(r) /\ r[m + 1] = p
      BY <1>1, <1>3, <1>4
    <3>5. i < m + 1
      BY <1>4, <2>2, <3>3 DEF at
    <3> QED
      BY <1>15, <2>2, <3>1, <3>4, <3>5
  <2>4. CASE b[k].n + 1 \notin but
    BY <1>12, <2>2, <2>4
  <2> QED
    BY <2>3, <2>4
<1> QED
  BY <1>1, <1>11, <1>13, <1>14, <1>15 DEF r

\* So does what is left when packets in front have gone.
LEMMA EndKeeps ==
    ASSUME NEW T, NEW b \in Seq(T), NEW r \in Seq(T), Len(r) <= Len(b), EndOf(r, b),
           Sorted(b), Carried(b, {})
    PROVE  Sorted(r) /\ Carried(r, {})
<1> DEFINE off == Len(b) - Len(r)
<1>1. Len(b) \in Nat /\ Len(r) \in Nat /\ off \in Nat
  OBVIOUS
<1>2. \A k \in 1 .. Len(r) : off + k \in 1 .. Len(b) /\ r[k] = b[off + k]
  BY <1>1 DEF EndOf
<1>3. Sorted(r)
  <2> SUFFICES ASSUME NEW i \in 1 .. Len(r), NEW j \in 1 .. Len(r), i < j
               PROVE  Start(r[i]) <= Start(r[j])
    BY DEF Sorted
  <2>1. off + i < off + j
    BY <1>1
  <2> HIDE DEF off
  <2> QED
    BY <1>2, <2>1 DEF Sorted
<1>4. Carried(r, {})
  <2> SUFFICES ASSUME NEW i \in 1 .. Len(r), ~r[i].primary
               PROVE  \E j \in 1 .. Len(r) : i < j /\ r[j] = PacketOf(r[i].n + 1)
    BY DEF Carried
  <2>1. PICK l \in 1 .. Len(b) : off + i < l /\ b[l] = PacketOf(r[i].n + 1)
    BY <1>2 DEF Carried
  <2>2. l - off \in 1 .. Len(r) /\ i < l - off /\ off + (l - off) = l
    BY <1>1, <2>1
  <2> HIDE DEF off
  <2> QED
    BY <1>2, <2>1, <2>2
<1> QED
  BY <1>3, <1>4

\* What a slot's packets are.
LEMMA SlotPackets ==
    ASSUME sent \in Streams, OnePace(sent), NEW n \in Slots
    PROVE  /\ PacketOf(n) \in Arrived /\ PacketOf(n).primary
           /\ SyncOf(n) \in Arrived /\ SyncOf(n).primary
           /\ sent[n].fec => /\ FecOf(n) \in Arrived /\ ~FecOf(n).primary /\ FecOf(n).n + 1 = n
                             /\ Start(FecOf(n)) < Start(PacketOf(n))
<1>1. PacketOf(n) \in Arrived /\ PacketOf(n).primary /\ PacketOf(n).n = n
  BY PacketIs DEF Arrived, Came, PacketOf
<1>2. SyncOf(n) \in Arrived /\ SyncOf(n).primary
  <2>1. SyncOf(n).primary = PacketOf(n).primary
    BY DEF SyncOf, PacketOf
  <2> QED
    BY <1>1, <2>1, PacketIs DEF Arrived, Came
<1>3. ASSUME sent[n].fec
      PROVE  /\ FecOf(n) \in Arrived /\ ~FecOf(n).primary /\ FecOf(n).n + 1 = n
             /\ Start(FecOf(n)) < Start(PacketOf(n))
  <2> DEFINE f == FecOf(n)
  <2>1. f \in Arrived
    BY <1>3, FecIs DEF Arrived, Came
  <2>2. f.primary = FALSE /\ f.n = n - 1
    BY DEF FecOf, PacketOf
  <2>3. n \in Nat /\ (n - 1) + 1 = n
    BY SlotIs
  <2> HIDE DEF f
  <2>4. /\ Start(f) \in Nat /\ Start(f) + f.len = sent[n].at /\ f.len = sent[n].len
        /\ n - 1 \in Slots /\ sent[n - 1].pt = f.pt /\ f.pt = sent[n].pt
    BY <2>1, <2>2, <2>3, StartIs DEF Carrier
  <2>5. f.len > 0 /\ f.len \in Nat
    <3>1. sent[n].pt \in SpeechTypes
      BY <1>3 DEF OnePace, Slots
    <3>2. sent[n].len > 0
      BY <3>1 DEF OnePace, Slots
    <3>3. sent[n].len \in Nat
      BY SlotIs, Limits DEF Slot, Frames
    <3> QED
      BY <2>4, <3>2, <3>3
  <2>6. Start(PacketOf(n)) = sent[n].at
    BY <1>1 DEF Start
  <2>7. sent[n].at \in Nat
    BY SlotIs DEF Slot
  <2> QED
    BY <2>1, <2>2, <2>3, <2>4, <2>5, <2>6, <2>7 DEF f
<1> QED
  BY <1>1, <1>2, <1>3

\* What comes with a slot is put in so that the buffer stays in order, copies in front of
\* their carriers, also where the second of two flushes it.
LEMMA ListKeeps ==
    ASSUME sent \in Streams, OnePace(sent), NEW b \in Seq(Arrived), Sorted(b), Carried(b, {}),
           NEW pt, NEW cng, NEW n \in Slots, NEW list, list = ListOf(n) \/ list = <<SyncOf(n)>>
    PROVE  LET r == InsertPacketList(b, pt, cng, list).buffer
           IN  Sorted(r) /\ Carried(r, {})
<1> DEFINE s == [buffer |-> b, pt |-> pt, cng |-> cng, flushed |-> FALSE]
           first == InsertOne(s, list[1])
           second == InsertOne(first, list[2])
           r == InsertPacketList(b, pt, cng, list)
<1>1. \A t, p : \/ InsertOne(t, p).buffer = Placed(<<>>, p)
                \/ InsertOne(t, p).buffer = Placed(t.buffer, p)
  BY DEF InsertOne
<1>2. s.buffer = b
  OBVIOUS
<1> HIDE DEF s
<1>3. <<>> \in Seq(Arrived) /\ Sorted(<<>>) /\ \A but : Carried(<<>>, but)
  BY DEF Sorted, Carried
<1>4. PICK from \in Seq(Arrived) :
          first.buffer = Placed(from, list[1]) /\ Sorted(from) /\ Carried(from, {})
  BY <1>1, <1>2, <1>3
<1>5. CASE list = <<PacketOf(n)>> \/ list = <<SyncOf(n)>>
  <2>1. Len(list) = 1 /\ list[1] \in Arrived /\ list[1].primary
    BY <1>5, SlotPackets
  <2>2. r = first
    BY <2>1 DEF InsertPacketList, first, s
  <2> HIDE DEF r, first
  <2>3. Sorted(Placed(from, list[1])) /\ Carried(Placed(from, list[1]), {})
    BY <1>4, <2>1, PlacedKeeps
  <2> QED
    BY <1>4, <2>2, <2>3 DEF r
<1>6. CASE sent[n].fec /\ list = <<FecOf(n), PacketOf(n)>>
  <2>1. /\ Len(list) = 2 /\ list[1] = FecOf(n) /\ list[2] = PacketOf(n)
        /\ FecOf(n) \in Arrived /\ ~FecOf(n).primary /\ FecOf(n).n + 1 = n
        /\ PacketOf(n) \in Arrived /\ PacketOf(n).primary
        /\ Start(FecOf(n)) < Start(PacketOf(n))
    BY <1>6, SlotPackets
  <2>2. r = second
    BY <2>1 DEF InsertPacketList, first, s
  <2> HIDE DEF r, first
  <2> DEFINE one == Placed(from, FecOf(n))
  <2>3. one \in Seq(Arrived) /\ Sorted(one) /\ Carried(one, {n})
    <3>1. Carried(one, {} \cup {n}) /\ {} \cup {n} = {n}
      BY <1>4, <2>1, PlacedKeeps
    <3> QED
      BY <1>4, <2>1, <3>1, PlacedKeeps
  <2>4. first.buffer = one
    BY <1>4, <2>1
  <2> HIDE DEF one
  <2>5. second.buffer = Placed(<<>>, PacketOf(n)) \/ second.buffer = Placed(one, PacketOf(n))
    BY <1>1, <2>1, <2>4
  <2>6. Sorted(Placed(<<>>, PacketOf(n))) /\ Carried(Placed(<<>>, PacketOf(n)), {})
    BY <1>3, <2>1, PlacedKeeps
  <2>7. Sorted(Placed(one, PacketOf(n))) /\ Carried(Placed(one, PacketOf(n)), {})
    BY <1>6, <2>1, <2>3, PlacedKeeps
  <2> HIDE DEF second
  <2> QED
    BY <2>2, <2>5, <2>6, <2>7 DEF r
<1> QED
  BY <1>5, <1>6 DEF ListOf

-----------------------------------------------------------------------------
(* What is decoded goes on from what was.                                    *)

\* The packet taken next is the one that starts next.
LEMMA StartsNext ==
    ASSUME Types, OnePace(sent), Sorted(buffer), Carried(buffer, {}), Useful # <<>>,
           NEW list, NEW required, NEW k, GoesOnWith(list, required, k)
    PROVE  /\ list[k] \in Arrived /\ list[k + 1] \in Arrived
           /\ Start(list[k]) < Start(list[k + 1])
           /\ ~list[k].primary /\ list[k].len > 0 =>
                  Start(list[k + 1]) <= sent[list[k].n + 1].at
<1> DEFINE u == Useful
           p == list[k]
           q == list[k + 1]
<1>1. PICK i, j \in 1 .. Len(u) :
          /\ i < j /\ p = u[i] /\ q = u[j] /\ q.ts # u[j - 1].ts
          /\ \A x \in (i + 1) .. (j - 1) : u[x].ts = u[x - 1].ts
  BY DEF GoesOnWith
<1>2. sent \in Streams /\ buffer \in Seq(Arrived)
  BY DEF Types
<1>3. u \in Seq(Arrived) /\ Len(u) \in Nat /\ Len(u) <= Len(buffer) /\ EndOf(u, buffer)
  BY <1>2, UsefulIs
<1> HIDE DEF u, p, q
<1>4. Sorted(u) /\ Carried(u, {})
  BY <1>2, <1>3, EndKeeps
<1>5. \A x \in 1 .. Len(u) : u[x] \in Arrived /\ Start(u[x]) \in Nat
  BY <1>2, <1>3, StartIs
<1>6. \A x \in i .. (j - 1) : u[x].ts = p.ts
  <2> DEFINE Good == {y \in Nat : u[i + y].ts = p.ts}
             n == (j - 1) - i
  <2>1. n \in Nat /\ i \in Nat /\ j \in Nat
    BY <1>1, <1>3
  <2>2. 0 \in Good
    BY <1>1, <2>1
  <2>3. ASSUME NEW y \in 1 .. n, y - 1 \in Good PROVE y \in Good
    <3>1. i + y \in (i + 1) .. (j - 1) /\ (i + y) - 1 = i + (y - 1) /\ y \in Nat
      BY <2>1
    <3>2. u[i + y].ts = u[(i + y) - 1].ts
      BY <1>1, <3>1
    <3> QED
      BY <2>3, <3>1, <3>2
  <2>4. \A y \in 0 .. n : y \in Good
    <3> HIDE DEF Good, n
    <3> QED
      BY <2>1, <2>2, <2>3, StepByStep
  <2>5. ASSUME NEW x \in i .. (j - 1) PROVE u[x].ts = p.ts
    <3>1. x - i \in 0 .. n /\ i + (x - i) = x
      BY <2>1
    <3>2. x - i \in Good
      BY <2>4, <3>1
    <3> QED
      BY <3>1, <3>2
  <2> QED
    BY <2>5
<1>7. p \in Arrived /\ q \in Arrived /\ Start(p) \in Nat /\ Start(q) \in Nat
  BY <1>1, <1>5
<1>8. Start(p) < Start(q)
  <2>1. Start(p) <= Start(q)
    BY <1>1, <1>4 DEF Sorted
  <2>2. j - 1 \in i .. (j - 1)
    BY <1>1, <1>3
  <2>3. q.ts # p.ts
    BY <1>1, <1>6, <2>2
  <2>4. Start(p) # Start(q)
    BY <1>2, <1>7, <2>3, StartsInOrder
  <2> QED
    BY <1>7, <2>1, <2>4
<1>9. ASSUME ~p.primary, p.len > 0 PROVE Start(q) <= sent[p.n + 1].at
  <2>1. PICK x \in 1 .. Len(u) : i < x /\ u[x] = PacketOf(p.n + 1)
    BY <1>1, <1>4, <1>9 DEF Carried
  <2>2. Start(u[x]) = sent[p.n + 1].at
    BY <2>1 DEF PacketOf, Start
  <2>3. Start(p) + p.len = sent[p.n + 1].at /\ p.len \in Nat
    <3>1. p \in Packets
      BY <1>7 DEF Arrived
    <3>2. p.len \in Nat
      BY <3>1, AnyPacket, Limits DEF Frames
    <3> QED
      BY <1>2, <1>7, <1>9, <3>2, StartIs
  <2>4. ~(x \in i .. (j - 1))
    <3> SUFFICES ASSUME x \in i .. (j - 1) PROVE FALSE
      OBVIOUS
    <3>1. u[x].ts = p.ts /\ u[x] \in Arrived
      BY <1>5, <1>6
    <3>2. Start(u[x]) = Start(p)
      BY <1>2, <1>7, <3>1, StartsInOrder
    <3> QED
      BY <1>7, <1>9, <2>2, <2>3, <3>2
  <2>5. x = j \/ j < x
    BY <1>1, <1>3, <2>1, <2>4
  <2>6. Start(q) <= Start(u[x])
    BY <1>1, <1>4, <1>7, <2>5 DEF Sorted
  <2> QED
    BY <2>2, <2>6
<1> QED
  BY <1>7, <1>8, <1>9 DEF p, q

\* On a circle of more numbers than slots, the next sequence number is the next slot's.
LEMMA NextCarrier ==
    ASSUME NEW base \in Nat, NEW a \in Nat, NEW b \in Nat, a + 1 < SeqSpan, b + 1 < SeqSpan,
           \/ SeqNo(SeqNo(base + b) - SeqNo(base + a)) = 1
           \/ SeqNo(base + b) = SeqNo(base + a)
    PROVE  b = a + 1 \/ b = a
<1> DEFINE u == base + a
           v == base + b
           x == SeqNo(u)
           y == SeqNo(v)
<1>1. SeqSpan \in Nat \ {0}
  BY SpansAssumption
<1>2. u \in Int /\ v \in Int /\ v - u = b - a
  OBVIOUS
<1>3. SeqNo(y - x) = 1 \/ y = x
  OBVIOUS
<1> HIDE DEF u, v
<1>4. x \in Int /\ y \in Int /\ SeqNo(0) = 0
  <2>1. x \in 0 .. (SeqSpan - 1) /\ y \in 0 .. (SeqSpan - 1)
    BY <1>2, OnTheCircle
  <2>2. 0 \in 0 .. (SeqSpan - 1)
    BY <1>1
  <2> HIDE DEF x, y
  <2> QED
    BY <1>1, <2>1, <2>2, Within DEF SeqNo
<1>5. CASE a < b
  <2>1. v - u \in 1 .. (SeqSpan - 1)
    BY <1>1, <1>2, <1>5
  <2>2. SeqNo(y - x) = b - a
    BY <1>1, <1>2, <2>1, RoundTheCircle DEF SeqNo
  <2> HIDE DEF x, y
  <2>3. y = x => SeqNo(y - x) = 0
    BY <1>4
  <2> QED
    BY <1>3, <1>5, <2>2, <2>3
<1>6. CASE b < a
  <2>1. u - v \in 1 .. (SeqSpan - 1) /\ u - v = a - b
    BY <1>1, <1>2, <1>6
  <2> HIDE DEF u, v
  <2>2. ((v % SeqSpan) - (u % SeqSpan)) % SeqSpan = SeqSpan - (u - v)
    BY <1>1, <1>2, <2>1, RoundTheCircle
  <2>4. SeqNo(y - x) = SeqSpan - (a - b)
    BY <2>1, <2>2 DEF SeqNo
  <2> HIDE DEF x, y
  <2>3. y = x => SeqNo(y - x) = 0
    BY <1>4
  <2> QED
    BY <1>1, <1>3, <1>6, <2>3, <2>4
<1> QED
  BY <1>5, <1>6

\* Decoding that goes on goes on by a frame: the next packet of the list starts where the
\* one before it ends.
LEMMA GoesOnByFrames ==
    ASSUME Types, OnePace(sent), Sorted(buffer), Carried(buffer, {}), Useful # <<>>,
           NEW list, NEW required \in 0 .. (2 * Block), NEW k,
           GoesOnWith(list, required, k),
           list[1] \in Packets, NEW pt \in SpeechTypes, list[k].pt = pt, list[k + 1].pt = pt,
           list[k].sync => frame = list[k].len \/ frame >= 2 * Block
    PROVE  Start(list[k + 1]) = Start(list[k]) + list[k].len
<1> DEFINE p == list[k]
           q == list[k + 1]
           a == Carrier(p)
           b == Carrier(q)
<1>1. /\ p \in Arrived /\ q \in Arrived /\ Start(p) < Start(q)
      /\ ~p.primary /\ p.len > 0 => Start(q) <= sent[p.n + 1].at
  BY StartsNext
<1>2. sent \in Streams /\ frame \in Nat /\ Block = 2
  BY Limits DEF Types, Frames
<1>3. /\ ~(Ts(p.ts - list[1].ts) + Duration(p) >= required)
      /\ SeqNo(q.seq - p.seq) = 1 \/ q.seq = p.seq
  BY DEF GoesOnWith
<1> HIDE DEF p, q
<1>4. p.len \in Nat /\ p.ts \in Stamps /\ list[1].ts \in Stamps /\ q.len \in Nat
  <2>1. p \in Packets /\ q \in Packets
    BY <1>1 DEF Arrived
  <2> QED
    BY <2>1, AnyPacket, Limits DEF Frames
<1>5. /\ Start(p) \in Nat /\ a \in Slots /\ p.seq = SeqNo(SeqStart + a) /\ sent[a].pt = p.pt
      /\ p.n \in Slots /\ p.len = sent[a].len /\ p.primary \in BOOLEAN
      /\ p.primary => Start(p) = sent[p.n].at
      /\ ~p.primary => Start(p) + p.len = sent[p.n + 1].at /\ sent[p.n].pt = p.pt
  BY <1>1, <1>2, StartIs
<1>6. /\ Start(q) \in Nat /\ b \in Slots /\ q.seq = SeqNo(SeqStart + b) /\ sent[b].pt = q.pt
      /\ q.n \in Slots /\ q.len = sent[b].len /\ q.primary \in BOOLEAN
      /\ q.primary => Start(q) = sent[q.n].at
      /\ ~q.primary => Start(q) + q.len = sent[q.n + 1].at /\ sent[q.n].pt = q.pt
  BY <1>1, <1>2, StartIs
<1>7. p.pt = pt /\ q.pt = pt
  BY DEF p, q
<1>8. /\ a = IF p.primary THEN p.n ELSE p.n + 1
      /\ b = IF q.primary THEN q.n ELSE q.n + 1
  BY DEF Carrier
<1> HIDE DEF a, b
<1>9. /\ sent[p.n].pt = pt /\ sent[q.n].pt = pt /\ a \in Nat /\ b \in Nat
      /\ sent[a].at \in Nat /\ sent[b].at \in Nat
  BY <1>2, <1>5, <1>6, <1>7, <1>8, SlotIs DEF Slot
<1>10. /\ p.len > 0 /\ q.len = p.len /\ sent[a].len = p.len
       /\ a + 1 < SeqSpan /\ b + 1 < SeqSpan
  BY <1>5, <1>6, <1>7, <1>9 DEF OnePace, Slots
<1>11. p.len < 2 * Block
  <2>1. Ts(p.ts - list[1].ts) \in Nat
    <3>1. p.ts - list[1].ts \in Int
      BY <1>4 DEF Stamps
    <3> QED
      BY <3>1, OnTheCircle DEF Stamps
  <2>2. Duration(p) < 2 * Block \/ ~(Duration(p) \in Nat)
    BY <1>2, <1>3, <2>1
  <2>3. Duration(p) = IF p.sync THEN frame ELSE p.len
    BY <1>7, <1>10, TypesAssumption DEF Duration, IsComfortNoise
  <2>4. p.sync => frame = p.len \/ frame >= 2 * Block
    BY DEF p
  <2> QED
    BY <1>2, <1>4, <2>2, <2>3, <2>4
<1>12. b = a + 1 \/ b = a
  <2>1. SeqStart \in Nat
    BY Limits
  <2>2. \/ SeqNo(SeqNo(SeqStart + b) - SeqNo(SeqStart + a)) = 1
        \/ SeqNo(SeqStart + b) = SeqNo(SeqStart + a)
    BY <1>3, <1>5, <1>6
  <2> QED
    BY <1>9, <1>10, <2>1, <2>2, NextCarrier
<1>13. b = a + 1 => sent[b].at = sent[a].at + p.len
  BY <1>5, <1>6, <1>7, <1>10, <1>11 DEF OnePace, Slots
<1>14. /\ Start(p) = IF p.primary THEN sent[a].at ELSE sent[a].at - p.len
       /\ Start(q) = IF q.primary THEN sent[b].at ELSE sent[b].at - p.len
       /\ ~p.primary => Start(q) <= sent[a].at
  <2>1. Start(p) = IF p.primary THEN sent[a].at ELSE sent[a].at - p.len
    <3>1. CASE p.primary
      BY <1>5, <1>8, <3>1
    <3>2. CASE ~p.primary
      <4>1. Start(p) + p.len = sent[a].at
        BY <1>5, <1>8, <3>2
      <4> QED
        BY <1>4, <1>5, <3>2, <4>1
    <3> QED
      BY <3>1, <3>2
  <2>2. Start(q) = IF q.primary THEN sent[b].at ELSE sent[b].at - p.len
    <3>1. CASE q.primary
      BY <1>6, <1>8, <3>1
    <3>2. CASE ~q.primary
      <4>1. Start(q) + p.len = sent[b].at
        BY <1>6, <1>8, <1>10, <3>2
      <4> QED
        BY <1>4, <1>6, <3>2, <4>1
    <3> QED
      BY <3>1, <3>2
  <2>3. ~p.primary => Start(q) <= sent[a].at
    BY <1>1, <1>8, <1>10
  <2> QED
    BY <2>1, <2>2, <2>3
<1>15. Start(q) = Start(p) + p.len
  <2> DEFINE s == Start(p)
             t == Start(q)
             x == sent[a].at
             y == sent[b].at
             len == p.len
  <2>1. /\ s \in Nat /\ t \in Nat /\ x \in Nat /\ y \in Nat /\ len \in Nat /\ len > 0 /\ s < t
        /\ y = x + len \/ y = x
        /\ s = (IF p.primary THEN x ELSE x - len) /\ t = (IF q.primary THEN y ELSE y - len)
        /\ ~p.primary => t <= x
    BY <1>1, <1>4, <1>5, <1>6, <1>9, <1>10, <1>12, <1>13, <1>14
  <2> HIDE DEF s, t, x, y, len
  <2>2. t = s + len
    BY <2>1
  <2> QED
    BY <2>2 DEF s, t, len
<1> QED
  BY <1>15 DEF p, q

\* Decoding gets as far as the last of such packets does.
LEMMA DecodesToEnd ==
    ASSUME NEW list \in Seq(Packets), Len(list) >= 1, NEW last \in Frames, NEW L \in Frames, L > 0,
           last = L \/ ~list[1].sync,
           \A k \in 1 .. Len(list) : list[k].sync \/ list[k].len = L,
           NEW at, \A k \in 1 .. Len(list) : at[k] \in Nat,
           \A k \in 1 .. (Len(list) - 1) : at[k + 1] = at[k] + L
    PROVE  at[1] + DecodeLoop(list, last, 1).len = at[Len(list)] + L
<1> DEFINE State == [frame : Frames, len : Nat]
           n == Len(list)
           t == Turns(list, last, 1)
<1>1. n \in Nat /\ n >= 1 /\ \A k \in 1 .. n : list[k] \in Packets
  OBVIOUS
<1>2. [frame |-> last, len |-> 0] \in State
  OBVIOUS
<1>3. 1 \in Nat \ {0} /\ L \in Nat
  BY Limits DEF Frames
<1>4. ASSUME NEW k \in 1 .. n, NEW s \in State
      PROVE  /\ Turn(s, list[k], 1) \in State
             /\ s.frame = L \/ ~list[k].sync =>
                    Turn(s, list[k], 1).frame = L /\ Turn(s, list[k], 1).len = s.len + L
  <2> DEFINE len == Decoded(list[k], s.frame, 1)
  <2>1. len \in Frames
    BY <1>1, <1>3, DecodedIs
  <2>2. s.frame = L \/ ~list[k].sync => len = L
    <3>1. s.frame \div 1 = s.frame
      BY Limits DEF Frames
    <3> QED
      BY <3>1 DEF Decoded
  <2> HIDE DEF len
  <2>3. Turn(s, list[k], 1)
            = [frame |-> IF len > 0 THEN len ELSE s.frame, len |-> s.len + len]
    BY DEF Turn, len
  <2> QED
    BY <2>1, <2>2, <2>3, Limits DEF Frames
<1>5. /\ t \in [0 .. n -> State] /\ t[0] = [frame |-> last, len |-> 0]
      /\ \A k \in 1 .. n : t[k] = Turn(t[k - 1], list[k], 1)
  <2> HIDE DEF State
  <2> QED
    BY <1>1, <1>2, <1>3, <1>4, TurnByTurn
<1> HIDE DEF t
<1> DEFINE In == {k \in 0 .. n : k > 0 => t[k].frame = L /\ at[1] + t[k].len = at[k] + L}
<1>6. 0 \in In
  BY <1>1
<1>7. ASSUME NEW k \in 1 .. n, k - 1 \in In PROVE k \in In
  <2>1. t[k - 1] \in State /\ t[k] = Turn(t[k - 1], list[k], 1)
    <3>1. k - 1 \in 0 .. n
      BY <1>1
    <3> HIDE DEF State, In
    <3> QED
      BY <1>5, <3>1
  <2>2. t[k - 1].frame = L \/ ~list[k].sync
    <3>1. CASE k = 1
      BY <1>5, <3>1
    <3>2. CASE k > 1
      BY <1>7, <3>2
    <3> QED
      BY <3>1, <3>2
  <2>3. t[k].frame = L /\ t[k].len = t[k - 1].len + L
    BY <1>4, <2>1, <2>2
  <2>4. at[1] + t[k].len = at[k] + L
    <3>1. CASE k = 1
      BY <1>1, <1>3, <1>5, <2>3, <3>1
    <3>2. CASE k > 1
      <4>1. at[1] + t[k - 1].len = at[k - 1] + L
        BY <1>7, <3>2
      <4>2. k - 1 \in 1 .. (n - 1) /\ (k - 1) + 1 = k
        BY <1>1, <3>2
      <4>3. at[(k - 1) + 1] = at[k - 1] + L
        BY <4>2
      <4>4. at[k] = at[k - 1] + L /\ at[1] \in Nat /\ at[k - 1] \in Nat /\ t[k - 1].len \in Nat
        BY <1>1, <2>1, <4>2, <4>3
      <4> DEFINE a == at[1]
                 b == at[k - 1]
                 c == at[k]
                 x == t[k - 1].len
                 y == t[k].len
      <4>5. a \in Nat /\ b \in Nat /\ x \in Nat /\ y = x + L /\ a + x = b + L /\ c = b + L
        BY <2>3, <4>1, <4>4
      <4> HIDE DEF State, In, a, b, c, x, y
      <4>6. a + y = c + L
        BY <1>3, <4>5
      <4> QED
        BY <4>6 DEF a, c, y
    <3> QED
      BY <3>1, <3>2
  <2> QED
    BY <2>3, <2>4
<1>8. \A k \in 0 .. n : k \in In
  <2> HIDE DEF In, n
  <2> QED
    BY <1>1, <1>6, <1>7, StepByStep
<1>9. at[1] + t[n].len = at[n] + L
  <2>1. n \in 0 .. n /\ n > 0
    BY <1>1
  <2>2. n \in In
    BY <1>8, <2>1
  <2> QED
    BY <2>1, <2>2
<1> QED
  BY <1>9 DEF DecodeLoop, t

\* The frame length stays among some, if what is decoded is of those.
LEMMA FramesStay ==
    ASSUME NEW S, S \subseteq Frames, NEW list \in Seq(Packets), NEW last \in S,
           \A k \in 1 .. Len(list) : list[k].sync \/ list[k].len \in S
    PROVE  DecodeLoop(list, last, 1).frame \in S
<1> DEFINE State == [frame : S, len : Nat]
           n == Len(list)
           t == Turns(list, last, 1)
<1>1. n \in Nat /\ \A k \in 1 .. n : list[k] \in Packets
  OBVIOUS
<1>2. [frame |-> last, len |-> 0] \in State /\ 1 \in Nat \ {0} /\ last \in Frames
  OBVIOUS
<1>3. ASSUME NEW k \in 1 .. n, NEW s \in State PROVE Turn(s, list[k], 1) \in State
  <2> DEFINE len == Decoded(list[k], s.frame, 1)
  <2>1. len \in S /\ len \in Nat
    <3> DEFINE f == s.frame
    <3>1. f \in S /\ f \in Nat /\ f \div 1 = f
      <4>1. f \in S
        OBVIOUS
      <4> HIDE DEF f
      <4>2. f \in Frames
        BY <4>1
      <4> QED
        BY <4>1, <4>2, Limits DEF Frames
    <3>2. list[k].sync \/ list[k].len \in S
      BY <1>1
    <3>3. len \in S
      BY <3>1, <3>2 DEF Decoded
    <3> HIDE DEF len
    <3> QED
      BY <3>3, Limits DEF Frames
  <2> HIDE DEF len
  <2>2. Turn(s, list[k], 1)
            = [frame |-> IF len > 0 THEN len ELSE s.frame, len |-> s.len + len]
    BY DEF Turn, len
  <2> QED
    BY <2>1, <2>2
<1>4. t \in [0 .. n -> State]
  <2> HIDE DEF State
  <2> QED
    BY <1>1, <1>2, <1>3, TurnByTurn
<1> HIDE DEF t
<1>5. t[n] \in State
  BY <1>1, <1>4
<1> QED
  BY <1>5 DEF DecodeLoop, t

-----------------------------------------------------------------------------
(* Streams of one pace: order, frame lengths and format.                     *)

Ordered == Sorted(buffer) /\ Carried(buffer, {})

\* Frames are as long as before anything was decoded, or as speech that was sent.
Paces == {3 * Block} \cup {sent[n].len : n \in {m \in Slots : sent[m].pt \in SpeechTypes}}
Framed == frame \in Paces

\* What is played has the format of what is in the buffer.
Formatted ==
    ~codec.first =>
        IF Noisy(sent) THEN \A n \in Slots : sync.format = Format[sent[n].pt]
        ELSE codec.pt # NoType /\ sync.format = Format[codec.pt]

Paced == Typed /\ Empty /\ Ordered /\ Framed /\ Formatted /\ EndTrue

LEMMA StillOrdered ==
    ASSUME sent' = sent, Sorted(buffer'), Carried(buffer', {}) PROVE Ordered'
<1>1. Sorted(buffer)'
  BY DEF Sorted, Start
<1>2. Carried(buffer, {})'
  BY DEF Carried, PacketOf
<1> QED
  BY <1>1, <1>2 DEF Ordered

LEMMA LeftOrdered ==
    ASSUME Typed, Ordered, sent' = sent, buffer' = Useful \/ \E list : buffer' = Rest(list)
    PROVE  Ordered'
<1>1. buffer \in Seq(Arrived) /\ Sorted(buffer) /\ Carried(buffer, {})
  BY DEF Typed, Types, Ordered
<1>2. /\ buffer' \in Seq(Arrived) /\ Len(buffer') \in Nat /\ Len(buffer') <= Len(buffer)
      /\ EndOf(buffer', buffer)
  <2>1. CASE buffer' = Useful
    BY <1>1, <2>1, UsefulIs
  <2>2. CASE \E list : buffer' = Rest(list)
    BY <1>1, <2>2, RestIs
  <2> QED
    BY <2>1, <2>2
<1>3. Sorted(buffer') /\ Carried(buffer', {})
  BY <1>1, <1>2, EndKeeps
<1> QED
  BY <1>3, StillOrdered

LEMMA StillFramed ==
    ASSUME sent' = sent, frame' \in Paces PROVE Framed'
<1>1. Paces' = Paces
  BY DEF Paces, Slots
<1> QED
  BY <1>1 DEF Framed

LEMMA StillFormatted ==
    ASSUME Formatted, sent' = sent, codec'.first = codec.first, codec'.pt = codec.pt,
           sync'.format = sync.format
    PROVE  Formatted'
BY DEF Formatted, Noisy, Slots

\* The format is that of the packet next to decode, and has one channel.
LEMMA Tuned ==
    ASSUME Typed, Empty, OnePace(sent), Formatted, Useful # <<>>
    PROVE  sync.format = Format[Header.pt] /\ sync.format.channels = 1
<1>1. Types /\ sent \in Streams /\ buffer \in Seq(Arrived) /\ OneCodec(buffer, codec.pt)
  BY DEF Typed, Types
<1>2. /\ Header \in Arrived /\ Header = Useful[1] /\ Len(Useful) >= 1
      /\ Len(Useful) \in Nat /\ Len(Useful) <= Len(buffer)
      /\ \A k \in 1 .. Len(Useful) : \E j \in 1 .. Len(buffer) : Useful[k] = buffer[j]
  BY <1>1, UsefulIs
<1>3. PICK j \in 1 .. Len(buffer) : Header = buffer[j]
  <2>1. 1 \in 1 .. Len(Useful)
    BY <1>2
  <2> QED
    BY <1>2, <2>1
<1>4. ~codec.first
  <2>1. Len(<<>>) = 0
    OBVIOUS
  <2> QED
    BY <1>2, <2>1 DEF Empty
<1>5. PICK n \in Slots : Header.pt = sent[n].pt
  <2>1. Sent(Header)
    BY <1>1, <1>2, ArrivedIs
  <2> HIDE DEF Header
  <2> QED
    BY <2>1 DEF Sent
<1>6. Format[Header.pt].channels = 1
  BY <1>5 DEF OnePace, Slots
<1>7. ~Noisy(sent) => Header.pt = codec.pt
  <2>1. ~Noisy(sent) => ~IsComfortNoise(Header)
    BY <1>1, <1>2, NoisyIs
  <2> HIDE DEF Header
  <2> QED
    BY <1>1, <1>3, <2>1 DEF OneCodec
<1> HIDE DEF Header
<1> QED
  BY <1>4, <1>5, <1>6, <1>7 DEF Formatted

\* So decoding starts from the format and the frame length there are.
LEMMA ReadyTuned ==
    ASSUME Typed, Empty, OnePace(sent), Formatted, Useful # <<>>, NEW d
    PROVE  /\ Ready(d).format = sync.format /\ Ready(d).frame = frame
           /\ Ready(d).format.channels = 1
           /\ Ready(d).astray \/ Ready(d).start = Header.ts
<1>1. Types
  BY DEF Typed
<1>2. sync.format = Format[Header.pt] /\ sync.format.channels = 1
  BY Tuned
<1>3. /\ \/ Ready(d).format = sync.format /\ Ready(d).frame = frame
         \/ Format[Header.pt] # sync.format
      /\ Ready(d).astray \/ Ready(d).start = Header.ts
  BY <1>1, ReadyIs
<1> HIDE DEF Header
<1> QED
  BY <1>2, <1>3

\* The length of speech is one of the paces.
LEMMA SpeechPaces ==
    ASSUME sent \in Streams
    PROVE  /\ Paces \subseteq Frames
           /\ \A p \in Arrived : ~IsComfortNoise(p) => p.len \in Paces
<1>1. ASSUME NEW n \in Slots PROVE sent[n].len \in Frames
  BY <1>1, SlotIs DEF Slot
<1>2. Paces \subseteq Frames
  BY <1>1, Limits DEF Paces
<1>3. ASSUME NEW p \in Arrived, ~IsComfortNoise(p) PROVE p.len \in Paces
  <2>1. p \in Packets /\ Sent(p)
    BY ArrivedIs
  <2>2. PICK n \in Slots, m \in Slots :
           p.pt = sent[n].pt /\ sent[m].pt = sent[n].pt /\ p.len = sent[m].len
    BY <2>1 DEF Sent
  <2>3. p.pt \in SpeechTypes
    BY <1>3, <2>1 DEF Packets, Pts, IsComfortNoise
  <2> QED
    BY <2>2, <2>3 DEF Paces
<1> QED
  BY <1>2, <1>3

LEMMA HeardFramed ==
    ASSUME Typed, Empty, OnePace(sent), Framed, Formatted, Useful # <<>>, NEW d, Heard(d),
           sent' = sent
    PROVE  Framed'
<1>1. sent \in Streams
  BY DEF Typed, Types
<1>2. Ready(d).frame = frame /\ Ready(d).format.channels = 1
  BY ReadyTuned
<1>3. PICK part \in Seq(Arrived) :
          /\ part \in Seq(Packets) /\ \A k \in 1 .. Len(part) : ~IsComfortNoise(part[k])
          /\ frame' = Loop(d, part).frame
  BY DEF Heard
<1>4. frame' = DecodeLoop(part, frame, 1).frame
  BY <1>2, <1>3 DEF Loop
<1>5. \A k \in 1 .. Len(part) : part[k].len \in Paces
  <2>1. \A k \in 1 .. Len(part) : part[k] \in Arrived
    OBVIOUS
  <2> QED
    BY <1>1, <1>3, <2>1, SpeechPaces
<1>6. DecodeLoop(part, frame, 1).frame \in Paces
  BY <1>1, <1>3, <1>5, SpeechPaces, FramesStay DEF Framed
<1> QED
  BY <1>4, <1>6, StillFramed

LEMMA TsGoesOn == ASSUME NEW x \in Int, NEW y \in Int PROVE Ts(Ts(x) + y) = Ts(x + y)
<1>1. ((x % TsSpan) + y) % TsSpan = (x + y) % TsSpan
  BY SpansAssumption, GoesOn
<1> QED
  BY <1>1 DEF Ts

\* The packets taken to be decoded as speech are of one length, and each starts where the
\* one before it ends.
LEMMA TakenInPace ==
    ASSUME Paced, OnePace(sent), Useful # <<>>, NEW d,
           AfterReset(d) \in {"normal", "merge", "accelerate", "preemptive"},
           ~IsComfortNoise(Header)
    PROVE  LET list == Taken(d)
           IN  \E L \in Frames :
                  /\ L > 0 /\ \A k \in 1 .. Len(list) : list[k].len = L
                  /\ frame = L \/ frame = 3 * Block
                  /\ frame = L \/ ~list[1].sync \/ Len(list) = 1
                  /\ \A k \in 1 .. (Len(list) - 1) : Start(list[k + 1]) = Start(list[k]) + L
<1> DEFINE list == Taken(d)
           required == Required(d)
           n == Len(list)
           L == list[1].len
           pt == Header.pt
<1>1. /\ Typed /\ Types /\ Empty /\ Formatted /\ Framed /\ Sorted(buffer) /\ Carried(buffer, {})
      /\ sent \in Streams /\ buffer \in Seq(Arrived) /\ frame \in Frames /\ frame \in Nat
      /\ Block = 2
  BY Limits DEF Paced, Typed, Types, Ordered, Frames
<1>2. required \in 0 .. (2 * Block)
  <2>1. sync.format.channels = 1
    BY <1>1, Tuned
  <2> QED
    BY <1>1, <2>1 DEF Required
<1>3. /\ list \in Seq(Arrived) /\ n \in Nat /\ n >= 1 /\ list[1] = Header
      /\ \A k \in 1 .. n : list[k].pt = pt
      /\ Duration(Header) >= required => n = 1
      /\ \A k \in 1 .. (n - 1) : GoesOnWith(list, required, k)
  <2>1. Arrived \subseteq Packets
    BY DEF Arrived
  <2>2. /\ Extracted(required) \in Seq(Arrived)
        /\ Len(Extracted(required)) \in 1 .. Len(buffer)
        /\ Extracted(required)[1] = Header
        /\ \A k \in 1 .. Len(Extracted(required)) : Extracted(required)[k].pt = Header.pt
        /\ Duration(Header) >= required => Len(Extracted(required)) = 1
        /\ \A k \in 1 .. (Len(Extracted(required)) - 1) :
               GoesOnWith(Extracted(required), required, k)
    BY <1>1, <2>1, ExtractedIs
  <2>3. list = Extracted(required)
    BY DEF Taken
  <2> HIDE DEF list, required, pt
  <2> QED
    BY <2>2, <2>3 DEF pt
<1>4. pt \in SpeechTypes
  <2>1. Header \in Packets
    BY <1>1, HeaderIs
  <2> QED
    BY <2>1 DEF Packets, Pts, IsComfortNoise
<1> HIDE DEF list, required, pt
<1>5. ASSUME NEW k \in 1 .. n
      PROVE  /\ list[k] \in Arrived /\ list[k].len = L /\ L > 0 /\ L \in Frames
  <2> DEFINE Speech1(x) == \E m \in Slots : sent[m].pt \in SpeechTypes /\ x = sent[m].len
  <2>1. ASSUME NEW i \in 1 .. n PROVE list[i] \in Arrived /\ Speech1(list[i].len)
    <3>1. list[i] \in Arrived /\ list[i].pt = pt
      BY <1>3
    <3>2. Sent(list[i])
      BY <1>1, <3>1, ArrivedIs
    <3> QED
      BY <1>4, <3>1, <3>2 DEF Sent
  <2>2. 1 \in 1 .. n
    BY <1>3
  <2>3. Speech1(list[k].len) /\ Speech1(L) /\ list[k] \in Arrived
    BY <2>1, <2>2
  <2>4. PICK i, j \in Slots : /\ sent[i].pt \in SpeechTypes /\ list[k].len = sent[i].len
                              /\ sent[j].pt \in SpeechTypes /\ L = sent[j].len
    BY <2>3
  <2> HIDE DEF L
  <2>5. sent[i].len = sent[j].len /\ sent[j].len > 0
    BY <2>4 DEF OnePace, Slots
  <2>6. sent[j].len \in Frames
    BY <1>1, SlotIs DEF Slot
  <2> QED
    BY <2>3, <2>4, <2>5, <2>6
<1>6. L > 0 /\ L \in Frames /\ L \in Nat /\ list[1] \in Arrived
  <2>1. 1 \in 1 .. n
    BY <1>3
  <2> HIDE DEF L
  <2> QED
    BY <1>5, <2>1, Limits DEF Frames
<1>7. frame = L \/ frame = 3 * Block
  <2>1. frame = 3 * Block \/ \E m \in Slots : sent[m].pt \in SpeechTypes /\ frame = sent[m].len
    BY <1>1 DEF Framed, Paces
  <2>2. \E m \in Slots : sent[m].pt \in SpeechTypes /\ L = sent[m].len
    <3>1. list[1].pt = pt /\ Sent(list[1])
      BY <1>1, <1>3, <1>6, ArrivedIs
    <3> QED
      BY <1>4, <3>1 DEF Sent
  <2> HIDE DEF L
  <2> QED
    BY <2>1, <2>2 DEF OnePace, Slots
<1>8. frame = L \/ ~list[1].sync \/ n = 1
  <2> SUFFICES ASSUME frame = 3 * Block, list[1].sync PROVE n = 1
    BY <1>7
  <2>1. Duration(Header) = frame
    BY <1>3 DEF Duration
  <2>2. Duration(Header) >= required
    <3> HIDE DEF Duration
    <3> QED
      BY <1>1, <1>2, <2>1
  <2> QED
    BY <1>3, <2>2
<1>9. ASSUME NEW k \in 1 .. (n - 1) PROVE Start(list[k + 1]) = Start(list[k]) + L
  <2>1. k \in 1 .. n /\ k + 1 \in 1 .. n
    BY <1>3
  <2>2. /\ GoesOnWith(list, required, k) /\ list[1] \in Packets
        /\ list[k].pt = pt /\ list[k + 1].pt = pt /\ list[k].len = L
    BY <1>3, <1>5, <1>6, <2>1 DEF Arrived
  <2>3. list[k].sync => frame = list[k].len \/ frame >= 2 * Block
    BY <1>1, <1>7, <2>2
  <2> HIDE DEF L
  <2>4. Start(list[k + 1]) = Start(list[k]) + list[k].len
    BY <1>1, <1>2, <1>4, <2>2, <2>3, GoesOnByFrames
  <2> QED
    BY <2>2, <2>4
<1> QED
  BY <1>5, <1>6, <1>7, <1>8, <1>9 DEF list

\* Decoding such packets moves the end to where the last of them ends.
LEMMA SpeechEnds ==
    ASSUME Paced, OnePace(sent), Useful # <<>>, NEW d,
           AfterReset(d) \in {"normal", "merge", "accelerate", "preemptive"},
           MovesEnd(d, Taken(d), Loop(d, Speech(d)).len)
    PROVE  EndTrue'
<1> DEFINE list == Taken(d)
           n == Len(list)
           final == list[n]
           len == Loop(d, Speech(d)).len
<1> SUFFICES ASSUME follows' # Unknown, ~follows'.unsettled PROVE sync'.end = follows'.ts
  BY DEF EndTrue
<1>1. /\ ~IsComfortNoise(Header) /\ ~final.sync
      /\ follows' = [ts |-> Ts(final.ts + final.len), unsettled |-> Ready(d).astray]
      /\ sync'.end = Ts(Ready(d).start + len)
  BY DEF MovesEnd
<1>2. /\ Typed /\ Types /\ Empty /\ Formatted /\ sent \in Streams /\ frame \in Frames
  BY DEF Paced, Typed, Types
<1>3. ~Ready(d).astray /\ Ready(d).start = Header.ts
  BY <1>1, <1>2, ReadyTuned
<1>4. /\ list \in Seq(Arrived) /\ list \in Seq(Packets) /\ n \in Nat /\ n >= 1
      /\ list[1] = Header /\ Speech(d) = list /\ Len(Speech(d)) <= MaxPackets
  BY <1>1, <1>2, SpeechIs
<1>5. len = DecodeLoop(list, frame, 1).len
  BY <1>2, <1>4, ReadyTuned DEF Loop
<1>6. len \in Nat
  BY <1>2, <1>4, LoopIs
<1>7. PICK L \in Frames :
          /\ L > 0 /\ \A k \in 1 .. n : list[k].len = L
          /\ frame = L \/ ~list[1].sync \/ n = 1
          /\ \A k \in 1 .. (n - 1) : Start(list[k + 1]) = Start(list[k]) + L
  BY <1>1, TakenInPace
<1> HIDE DEF len, list
<1> DEFINE at == [k \in 1 .. n |-> Start(list[k])]
<1>8. \A k \in 1 .. n : at[k] = Start(list[k]) /\ at[k] \in Nat
  <2>1. \A k \in 1 .. n : list[k] \in Arrived
    BY <1>4
  <2> QED
    BY <1>2, <2>1, StartIs
<1>9. \A k \in 1 .. (n - 1) : at[k + 1] = at[k] + L
  <2> SUFFICES ASSUME NEW k \in 1 .. (n - 1) PROVE at[k + 1] = at[k] + L
    OBVIOUS
  <2>1. k \in 1 .. n /\ k + 1 \in 1 .. n
    BY <1>4
  <2> HIDE DEF at
  <2> QED
    BY <1>7, <1>8, <2>1
<1>10. at[1] + len = at[n] + L
  <2>1. frame = L \/ ~list[1].sync
    BY <1>1, <1>7
  <2> HIDE DEF at
  <2> QED
    BY <1>2, <1>4, <1>5, <1>7, <1>8, <1>9, <2>1, DecodesToEnd
<1>11. 1 \in 1 .. n /\ n \in 1 .. n
  BY <1>4
<1> DEFINE a == at[1]
           b == at[n]
<1>12. a = Start(list[1]) /\ b = Start(final) /\ a \in Nat /\ b \in Nat /\ final.len = L /\ L \in Nat
  BY <1>7, <1>8, <1>11, Limits DEF Frames
<1>13. Header.ts = Ts(TsStart + a) /\ final.ts = Ts(TsStart + b)
  <2>1. list[1] \in Arrived /\ final \in Arrived
    BY <1>4, <1>11
  <2> HIDE DEF a, b
  <2> QED
    BY <1>2, <1>4, <1>12, <2>1, StartIs
<1>14. a + len = b + L
  BY <1>10
<1> HIDE DEF at, a, b, final
<1>15. TsStart + a \in Int /\ TsStart + b \in Int /\ (TsStart + a) + len = (TsStart + b) + L
  <2>1. TsStart \in Nat
    BY Limits
  <2>2. a \in Nat /\ b \in Nat /\ L \in Nat
    BY <1>12
  <2> QED
    BY <1>6, <1>14, <2>1, <2>2
<1>16. Ts(Ts(TsStart + a) + len) = Ts((TsStart + a) + len)
  BY <1>6, <1>15, TsGoesOn
<1>17. Ts(Ts(TsStart + b) + L) = Ts((TsStart + b) + L)
  BY <1>12, <1>15, TsGoesOn
<1>18. sync'.end = Ts(Header.ts + len) /\ follows'.ts = Ts(final.ts + final.len)
  BY <1>1, <1>3
<1> HIDE DEF Header
<1> QED
  BY <1>12, <1>13, <1>15, <1>16, <1>17, <1>18

\* What an insertion leaves so.
LEMMA InsertPaced ==
    ASSUME Paced, OnePace(sent), sent' = sent, NEW n \in Slots, NEW list,
           list = ListOf(n) \/ list = <<SyncOf(n)>>,
           NEW main \in Packets, NEW ssrc \in Nat, Insert(list, main, ssrc)
    PROVE  Ordered' /\ Framed' /\ Formatted' /\ EndTrue'
<1> DEFINE reinit == Reinit(ssrc)
           before == IF reinit THEN <<>> ELSE buffer
           pt == IF reinit THEN main.pt ELSE codec.pt
           s == InsertPacketList(before, pt, codec.cng, list)
           format == Format[Head(s.buffer).pt]
           restart == reinit \/ s.flushed
           end == IF reinit THEN Ts(sync.end + main.ts - codec.ts) ELSE sync.end
<1>1. /\ Typed /\ Types /\ Empty /\ Ordered /\ Framed /\ Formatted /\ EndTrue
      /\ sent \in Streams /\ buffer \in Seq(Arrived) /\ Len(buffer) <= MaxPackets
      /\ codec \in Codecs /\ sync \in Syncs /\ OneCodec(buffer, codec.pt)
      /\ Sorted(buffer) /\ Carried(buffer, {})
  BY DEF Paced, Typed, Types, Ordered
<1>2. /\ buffer' = s.buffer /\ codec'.pt = s.pt /\ ~codec'.first
      /\ IF restart /\ format # sync.format
         THEN sync'.format = format /\ frame' = 3 * Block
         ELSE sync' = [sync EXCEPT !.end = end] /\ frame' = frame
      /\ follows' = IF restart THEN Unknown ELSE follows
  BY <1>1 DEF Insert, ChangeFormat, NewSync, Codecs
<1>3. ~reinit => ~codec.first
  BY DEF Reinit
<1> HIDE DEF reinit
<1>4. list \in Seq(Arrived) /\ Len(list) \in 1 .. 2 /\ Arrived \subseteq Packets
  BY <1>1, ListIs DEF Arrived
<1>5. pt \in Speeches /\ codec.cng \in Noises
  BY <1>1 DEF Codecs, Packets, Speeches
<1>6. before \in Seq(Arrived) /\ Len(before) <= MaxPackets /\ OneCodec(before, pt)
      /\ Sorted(before) /\ Carried(before, {})
  <2>1. <<>> \in Seq(Arrived) /\ Len(<<>>) = 0 /\ OneCodec(<<>>, main.pt)
        /\ Sorted(<<>>) /\ Carried(<<>>, {})
    BY DEF OneCodec, Sorted, Carried
  <2> QED
    BY <1>1, <2>1, Limits
<1>7. ~reinit => pt = codec.pt
  OBVIOUS
<1> HIDE DEF before, pt
<1>8. /\ s \in Inserting(Arrived) /\ Len(s.buffer) \in 1 .. MaxPackets /\ OneCodec(s.buffer, s.pt)
      /\ ~s.flushed => s.pt = pt \/ pt = NoType
  BY <1>4, <1>5, <1>6, InsertsList
<1>9. Sorted(s.buffer) /\ Carried(s.buffer, {})
  BY <1>1, <1>6, ListKeeps
<1> HIDE DEF s
<1>10. /\ s.buffer \in Seq(Arrived) /\ Head(s.buffer) = s.buffer[1] /\ s.buffer[1] \in Arrived
       /\ 1 \in 1 .. Len(s.buffer)
  <2>1. s.buffer \in Seq(Arrived) /\ Len(s.buffer) >= 1
    BY <1>8, Limits DEF Inserting
  <2> QED
    BY <2>1
<1>11. Ordered'
  BY <1>2, <1>9, StillOrdered
<1>12. Framed'
  <2>1. 3 * Block \in Paces
    BY DEF Paces
  <2> QED
    BY <1>1, <1>2, <2>1, StillFramed DEF Framed
<1>13. EndTrue'
  <2>1. CASE restart
    BY <1>2, <2>1 DEF EndTrue
  <2>2. CASE ~restart
    <3>1. end = sync.end
      BY <2>2
    <3> HIDE DEF end
    <3>2. sync'.end = sync.end /\ follows' = follows
      BY <1>1, <1>2, <2>2, <3>1 DEF Syncs
    <3> QED
      BY <1>1, <3>2 DEF EndTrue
  <2> QED
    BY <2>1, <2>2
<1>14. restart => sync'.format = format
  BY <1>1, <1>2 DEF Syncs
<1>15. ~restart => sync'.format = sync.format
  BY <1>1, <1>2 DEF Syncs
<1> DEFINE first == s.buffer[1]
<1>16. PICK m \in Slots : first.pt = sent[m].pt
  <2>1. Sent(first)
    BY <1>1, <1>10, ArrivedIs
  <2> QED
    BY <2>1 DEF Sent
<1>17. format = Format[sent[m].pt]
  BY <1>10, <1>16
<1> HIDE DEF format, restart
<1>18. ASSUME Noisy(sent), NEW i \in Slots PROVE sync'.format = Format[sent[i].pt]
  <2>1. CASE restart
    BY <1>14, <1>17, <1>18, <2>1 DEF OnePace, Slots
  <2>2. CASE ~restart
    <3>1. ~codec.first
      BY <1>3, <2>2 DEF restart
    <3> QED
      BY <1>1, <1>15, <1>18, <2>2, <3>1 DEF Formatted
  <2> QED
    BY <2>1, <2>2
<1>19. ASSUME ~Noisy(sent) PROVE s.pt # NoType /\ sync'.format = Format[s.pt]
  <2>1. CASE restart
    <3>1. ~IsComfortNoise(first)
      BY <1>1, <1>10, <1>19, NoisyIs
    <3>2. first.pt = s.pt
      BY <1>8, <1>10, <3>1 DEF OneCodec
    <3>3. first.pt \in Pts
      BY <1>4, <1>10 DEF Packets
    <3>4. NoType \notin Pts
      BY TypesAssumption, BufferAssumption DEF Pts
    <3> QED
      BY <1>14, <1>16, <1>17, <2>1, <3>2, <3>3, <3>4
  <2>2. CASE ~restart
    <3>1. ~codec.first /\ ~reinit /\ ~s.flushed
      BY <1>3, <2>2 DEF restart
    <3>2. codec.pt # NoType /\ sync.format = Format[codec.pt]
      BY <1>1, <1>19, <3>1 DEF Formatted
    <3> QED
      BY <1>7, <1>8, <1>15, <2>2, <3>1, <3>2
  <2> QED
    BY <2>1, <2>2
<1>20. Formatted'
  <2>1. Slots' = Slots /\ (Noisy(sent)' <=> Noisy(sent))
    BY DEF Slots, Noisy
  <2> QED
    BY <1>2, <1>18, <1>19, <2>1 DEF Formatted
<1> QED
  BY <1>11, <1>12, <1>13, <1>20

\* What GetAudio leaves so, when it takes nothing from the buffer to decode.
LEMMA HeldPaced ==
    ASSUME Paced, NEW d \in Decisions,
           \/ KeepPlaying(d) \/ PacketMissing(d) \/ Conceal(d) \/ Stretch(d) \/ PlayOn(d)
    PROVE  Ordered' /\ Framed' /\ Formatted' /\ EndTrue'
<1>1. Typed /\ Ordered /\ Framed /\ Formatted /\ EndTrue
  BY DEF Paced
<1>2. buffer' = Useful /\ sent' = sent /\ frame' = frame /\ codec'.first = codec.first
      /\ codec'.pt = codec.pt /\ sync'.format = sync.format /\ sync'.end = sync.end
  BY <1>1, KeepLeaves, MissingLeaves, ConcealLeaves, StretchLeaves, PlayOnLeaves
<1>3. follows' = follows
  BY DEF KeepPlaying, PacketMissing, Conceal, Stretch, PlayOn
<1>4. Ordered'
  BY <1>1, <1>2, LeftOrdered
<1>5. Framed'
  BY <1>1, <1>2, StillFramed DEF Framed
<1>6. Formatted'
  BY <1>1, <1>2, StillFormatted
<1>7. EndTrue'
  BY <1>1, <1>2, <1>3 DEF EndTrue
<1> QED
  BY <1>4, <1>5, <1>6, <1>7

LEMMA NoisePaced ==
    ASSUME Paced, OnePace(sent), NEW d \in Decisions, PlayNoise(d)
    PROVE  Ordered' /\ Framed' /\ Formatted' /\ EndTrue'
<1>1. Typed /\ Empty /\ Ordered /\ Framed /\ Formatted
  BY DEF Paced
<1>2. /\ Useful # <<>> /\ codec'.first = codec.first /\ codec'.pt = codec.pt
      /\ sync'.format = Ready(d).format /\ frame' = Ready(d).frame /\ sent' = sent
  BY <1>1, NoiseLeaves
<1>3. Ready(d).format = sync.format /\ Ready(d).frame = frame
  BY <1>1, <1>2, ReadyTuned
<1>4. (\E list : buffer' = Rest(list)) /\ follows' = Unknown
  BY DEF PlayNoise
<1>5. Ordered'
  BY <1>1, <1>2, <1>4, LeftOrdered
<1>6. Framed'
  BY <1>1, <1>2, <1>3, StillFramed DEF Framed
<1>7. Formatted'
  BY <1>1, <1>2, <1>3, StillFormatted
<1> QED
  BY <1>4, <1>5, <1>6, <1>7 DEF EndTrue

LEMMA SpeechPaced ==
    ASSUME Paced, OnePace(sent), NEW d \in Decisions, PlayPackets(d)
    PROVE  Ordered' /\ Framed' /\ Formatted' /\ EndTrue'
<1>1. Typed /\ Types /\ Empty /\ Ordered /\ Framed /\ Formatted
  BY DEF Paced, Typed
<1>2. /\ Useful # <<>> /\ codec'.first = codec.first /\ codec'.pt = codec.pt
      /\ sync'.format = Ready(d).format /\ Heard(d) /\ sent' = sent
      /\ AfterReset(d) \in {"normal", "merge", "accelerate", "preemptive"}
  BY <1>1, PlayLeaves
<1>3. Ready(d).format = sync.format
  BY <1>1, <1>2, ReadyTuned
<1>4. /\ buffer' = Rest(Taken(d))
      /\ \/ PlayDecoded(Goal(d), Ready(d), Taken(d), Loop(d, Speech(d)).len)
         \/ \E last : PlayError(Ready(d), Taken(d), last)
  BY PlayIs
<1>5. Ordered'
  BY <1>1, <1>2, <1>4, LeftOrdered
<1>6. Framed'
  BY <1>1, <1>2, HeardFramed
<1>7. Formatted'
  BY <1>1, <1>2, <1>3, StillFormatted
<1>8. EndTrue'
  <2>1. CASE \E last : PlayError(Ready(d), Taken(d), last)
    BY <2>1 DEF PlayError, EndTrue
  <2>2. CASE PlayDecoded(Goal(d), Ready(d), Taken(d), Loop(d, Speech(d)).len)
    <3>1. Goal(d) \in {"normal", "merge", "accelerate", "preemptive"}
      BY <1>2 DEF Goal
    <3>2. Loop(d, Speech(d)).len \in 0 .. Most
      <4>1. Speech(d) \in Seq(Packets) /\ Len(Speech(d)) <= MaxPackets
        BY <1>1, <1>2, SpeechIs
      <4> QED
        BY <1>1, <1>2, <4>1, LoopIs
    <3>3. MovesEnd(d, Taken(d), Loop(d, Speech(d)).len)
      BY <1>1, <1>2, <2>2, <3>1, <3>2, DecodedLeaves
    <3> QED
      BY <1>2, <3>3, SpeechEnds
  <2> QED
    BY <1>4, <2>1, <2>2
<1> QED
  BY <1>5, <1>6, <1>7, <1>8

OneRhythm == \A s \in Streams : OnePace(s)

LEMMA PacedNext == ASSUME OneRhythm PROVE Paced /\ [Next]_vars => Paced'
<1> SUFFICES ASSUME Paced, [Next]_vars PROVE Paced'
  OBVIOUS
<1>1. /\ Typed /\ Types /\ Empty /\ Ordered /\ Framed /\ Formatted /\ EndTrue
      /\ sent \in Streams /\ codec.ssrc \in Nat
  BY DEF Paced, Typed, Types, Codecs
<1>2. OnePace(sent)
  BY <1>1 DEF OneRhythm
<1>3. Typed' /\ Empty'
  BY <1>1, TypedNext, EmptyNext
<1> SUFFICES Ordered' /\ Framed' /\ Formatted' /\ EndTrue'
  BY <1>3 DEF Paced
<1>4. ASSUME NEW n \in Slots, InsertPacket(n)
      PROVE  Ordered' /\ Framed' /\ Formatted' /\ EndTrue'
  <2>1. Insert(ListOf(n), PacketOf(n), sent[n].ssrc) /\ sent' = sent
    BY <1>4 DEF InsertPacket, Insert
  <2>2. PacketOf(n) \in Packets /\ sent[n].ssrc \in Nat
    BY <1>1, ListIs
  <2> QED
    BY <1>2, <2>1, <2>2, InsertPaced
<1>5. ASSUME NEW n \in Slots, InsertSyncPacket(n)
      PROVE  Ordered' /\ Framed' /\ Formatted' /\ EndTrue'
  <2>1. Insert(<<SyncOf(n)>>, SyncOf(n), codec.ssrc) /\ sent' = sent
    BY <1>5 DEF InsertSyncPacket, Insert
  <2>2. SyncOf(n) \in Packets
    BY <1>1, ListIs
  <2> QED
    BY <1>1, <1>2, <2>1, <2>2, InsertPaced
<1>6. CASE FlushBuffers
  <2>1. buffer' = <<>> /\ codec'.first /\ frame' = frame /\ sent' = sent
    BY <1>1, <1>6, FlushLeaves
  <2>2. follows' = Unknown
    BY <1>6 DEF FlushBuffers
  <2>3. Ordered'
    BY <2>1 DEF Ordered, Sorted, Carried
  <2>4. Framed'
    BY <1>1, <2>1, StillFramed DEF Framed
  <2> QED
    BY <2>1, <2>2, <2>3, <2>4 DEF Formatted, EndTrue
<1>7. CASE GetAudio
  <2>1. PICK d \in Decisions : \/ KeepPlaying(d) \/ PacketMissing(d) \/ Conceal(d) \/ Stretch(d)
                               \/ PlayOn(d) \/ PlayNoise(d) \/ PlayPackets(d)
    BY <1>7 DEF GetAudio
  <2> QED
    BY <1>2, <2>1, HeldPaced, NoisePaced, SpeechPaced
<1>8. CASE UNCHANGED vars
  <2>1. /\ buffer' = buffer /\ codec' = codec /\ sync' = sync /\ frame' = frame /\ sent' = sent
        /\ follows' = follows
    BY <1>8 DEF vars, inputs
  <2>2. Ordered'
    BY <1>1, <2>1, StillOrdered DEF Ordered
  <2>3. Framed'
    BY <1>1, <2>1, StillFramed DEF Framed
  <2>4. Formatted'
    BY <1>1, <2>1, StillFormatted
  <2>5. EndTrue'
    BY <1>1, <2>1 DEF EndTrue
  <2> QED
    BY <2>2, <2>3, <2>4, <2>5
<1> QED
  BY <1>4, <1>5, <1>6, <1>7, <1>8 DEF Next

LEMMA PacedInit == Init => Paced
<1> SUFFICES ASSUME Init PROVE Paced
  OBVIOUS
<1>1. Typed
  BY TypedInit
<1>2. buffer = <<>> /\ codec.first /\ frame = 3 * Block /\ follows = Unknown
  BY DEF Init
<1>3. Ordered
  BY <1>2 DEF Ordered, Sorted, Carried
<1> QED
  BY <1>1, <1>2, <1>3 DEF Paced, Empty, Framed, Paces, Formatted, EndTrue

\* Whatever of a stream of one pace arrives, in whatever order, doubled or lost, and
\* whatever is decided, concealed, stretched or flushed: the end timestamp, by which
\* packets are judged old, due or early, is where the speech decoded last ends, unless a
\* decoder was taken into use without a restart.
THEOREM EndsRight == ASSUME OneRhythm PROVE Spec => []EndTrue
<1>1. Paced => EndTrue
  BY DEF Paced
<1>2. Paced /\ [Next]_vars => Paced'
  BY PacedNext
<1> QED
  BY <1>1, <1>2, PacedInit, PTL DEF Spec

-----------------------------------------------------------------------------
(* Slots in turn: the order of the copies of them.                           *)

\* A stream each slot of which is sent once the one before has been and starts at least a
\* unit of time after it; a copy ends where the packet that carries it starts; speech lasts
\* a block or more, and what its decoder calls comfort noise two, and carries no copy.
InTurn(s) ==
    /\ \A n, m \in DOMAIN s :
          n < m => s[n].at + s[n].len <= s[m].at /\ s[n].at + (m - n) <= s[m].at
    /\ \A n \in DOMAIN s :
          /\ s[n].fec => s[n].len = s[n - 1].len /\ s[n].at = s[n - 1].at + s[n].len
          /\ s[n].pt \in SpeechTypes => s[n].len >= Block
          /\ s[n].cn => s[n].len >= 2 * Block /\ ~s[n].fec

\* What may be in the buffer: only speech is stood in for.
Voiced == {p \in Arrived : p.sync => p.pt \in SpeechTypes}

\* How good a copy is, and its place in the buffer.
RankOf(p) == IF p.sync THEN 1 ELSE IF p.primary THEN 0 ELSE 2
Place(p) == 3 * p.n + RankOf(p)

LEMMA Apart ==
    ASSUME sent \in Streams, InTurn(sent), NEW n \in Slots, NEW m \in Slots
    PROVE  /\ n \in Nat /\ m \in Nat /\ sent[n].at \in Nat /\ sent[m].at \in Nat
           /\ n < m => sent[n].at < sent[m].at
           /\ sent[n].at < sent[m].at => n < m
           /\ sent[n].at = sent[m].at => n = m
<1>1. n \in Nat /\ m \in Nat /\ sent[n].at \in Nat /\ sent[m].at \in Nat
  BY SlotIs DEF Slot
<1>2. n < m => sent[n].at < sent[m].at
  <2>1. n < m => sent[n].at + (m - n) <= sent[m].at
    BY DEF InTurn, Slots
  <2> QED
    BY <1>1, <2>1
<1>3. m < n => sent[m].at < sent[n].at
  <2>1. m < n => sent[m].at + (n - m) <= sent[n].at
    BY DEF InTurn, Slots
  <2> QED
    BY <1>1, <2>1
<1> QED
  BY <1>1, <1>2, <1>3

\* A copy starts where its slot does.
LEMMA CopyIs ==
    ASSUME sent \in Streams, InTurn(sent), NEW p \in Arrived
    PROVE  /\ p.n \in Slots /\ p.n \in Nat /\ Start(p) = sent[p.n].at /\ Start(p) \in Nat
           /\ Start(p) < Half /\ p.ts = Ts(TsStart + Start(p))
           /\ p.pt = sent[p.n].pt /\ p.len = sent[p.n].len
           /\ p.primary \in BOOLEAN /\ p.sync \in BOOLEAN /\ (~p.primary => ~p.sync)
           /\ ~p.primary => sent[p.n + 1].fec /\ p.n + 1 \in Slots /\ p = FecOf(p.n + 1)
<1>1. /\ Start(p) \in Nat /\ Start(p) < Half /\ p.ts = Ts(TsStart + Start(p))
      /\ Carrier(p) \in Slots /\ p.pt = sent[Carrier(p)].pt /\ p.n \in Slots
      /\ p.len = sent[Carrier(p)].len /\ p.primary \in BOOLEAN /\ p.sync \in BOOLEAN
      /\ p.primary => Start(p) = sent[p.n].at
      /\ ~p.primary => /\ ~p.sync /\ sent[p.n + 1].fec /\ p = FecOf(p.n + 1)
                       /\ Start(p) + p.len = sent[p.n + 1].at /\ sent[p.n].pt = p.pt
  BY StartIs DEF Half
<1>2. p.n \in Nat /\ sent[p.n].len \in Nat /\ sent[p.n].at \in Nat
  BY <1>1, SlotIs, Limits DEF Slot, Frames
<1>3. CASE p.primary
  BY <1>1, <1>2, <1>3 DEF Carrier
<1>4. CASE ~p.primary
  <2>1. p.n + 1 \in Slots /\ (p.n + 1) - 1 = p.n
    BY <1>1, <1>2, <1>4 DEF Carrier
  <2>2. /\ sent[p.n + 1].at = sent[p.n].at + sent[p.n].len
        /\ p.len = sent[p.n].len
    BY <1>1, <1>4, <2>1 DEF InTurn, Slots, Carrier
  <2>3. Start(p) = sent[p.n].at
    BY <1>1, <1>2, <1>4, <2>2
  <2> QED
    BY <1>1, <1>2, <1>4, <2>1, <2>2, <2>3
<1> QED
  BY <1>1, <1>3, <1>4

LEMMA SameSlot ==
    ASSUME sent \in Streams, InTurn(sent), NEW p \in Arrived, NEW q \in Arrived
    PROVE  /\ p.ts = q.ts <=> p.n = q.n
           /\ p.n = q.n => p.pt = q.pt
           /\ p.n < q.n => Before(p, q)
           /\ q.n < p.n => ~Before(p, q)
<1>1. /\ p.n \in Slots /\ q.n \in Slots /\ Start(p) = sent[p.n].at /\ Start(q) = sent[q.n].at
      /\ p.pt = sent[p.n].pt /\ q.pt = sent[q.n].pt
  BY CopyIs
<1>2. /\ p.n < q.n => sent[p.n].at < sent[q.n].at
      /\ q.n < p.n => sent[q.n].at < sent[p.n].at
      /\ sent[p.n].at = sent[q.n].at => p.n = q.n
  BY <1>1, Apart
<1>3. /\ p.ts = q.ts <=> Start(p) = Start(q)
      /\ Start(p) < Start(q) => Before(p, q)
      /\ Start(q) < Start(p) => ~Before(p, q)
  BY StartsInOrder
<1> QED
  BY <1>1, <1>2, <1>3

\* The copy of slot n came with packet n + 1, the packet itself with number n.
LEMMA CopyBehind ==
    ASSUME sent \in Streams, OnePace(sent), InTurn(sent), SeqSpan \div 2 > 2,
           NEW p \in Arrived, NEW q \in Arrived, p.n = q.n
    PROVE  /\ p.primary /\ ~q.primary => Before(p, q)
           /\ ~p.primary /\ q.primary => ~Before(p, q)
           /\ (p.primary <=> q.primary) => (Before(p, q) <=> q.sync)
<1>1. /\ p.primary \in BOOLEAN /\ q.primary \in BOOLEAN /\ p.ts = q.ts
      /\ Carrier(p) \in Slots /\ p.seq = SeqNo(SeqStart + Carrier(p))
      /\ Carrier(q) \in Slots /\ q.seq = SeqNo(SeqStart + Carrier(q))
  BY SameSlot, StartIs
<1>2. /\ SeqSpan \in Nat \ {0} /\ SeqSpan \div 2 \in Nat /\ SeqSpan > 4
      /\ SeqSpan \div 2 <= SeqSpan - 2
  <2>1. SeqSpan \in Nat \ {0}
    BY SpansAssumption
  <2> QED
    BY <2>1
<1>3. p.n \in Nat /\ q.n \in Nat /\ SeqStart \in Nat
  BY CopyIs, Limits
<1>4. ASSUME NEW a \in Nat, NEW b \in Nat, b = a + 1
      PROVE  /\ SeqNo(SeqNo(b) - SeqNo(a)) = 1
             /\ SeqNo(SeqNo(a) - SeqNo(b)) = SeqSpan - 1
             /\ SeqNo(a) # SeqNo(b)
  <2>1. b - a \in 1 .. (SeqSpan - 1) /\ b - a = 1 /\ a \in Int /\ b \in Int
    BY <1>2, <1>4
  <2>2. /\ ((b % SeqSpan) - (a % SeqSpan)) % SeqSpan = b - a
        /\ ((a % SeqSpan) - (b % SeqSpan)) % SeqSpan = SeqSpan - (b - a)
    BY <1>2, <2>1, RoundTheCircle
  <2>3. SeqNo(0) = 0 /\ SeqNo(a) \in Int
    BY <1>2, OnTheCircle DEF SeqNo
  <2>4. SeqNo(SeqNo(b) - SeqNo(a)) = 1 /\ SeqNo(SeqNo(a) - SeqNo(b)) = SeqSpan - 1
    BY <1>2, <2>1, <2>2 DEF SeqNo
  <2>5. SeqNo(a) = SeqNo(b) => SeqNo(b) - SeqNo(a) = 0
    BY <2>3
  <2> QED
    BY <2>3, <2>4, <2>5
<1>6. CASE p.primary /\ ~q.primary
  <2>1. PICK a, b \in Nat : b = a + 1 /\ p.seq = SeqNo(a) /\ q.seq = SeqNo(b)
    BY <1>1, <1>3, <1>6 DEF Carrier
  <2>3. p.seq # q.seq /\ SeqNo(q.seq - p.seq) = 1
    BY <1>4, <2>1
  <2> QED
    BY <1>1, <1>2, <1>6, <2>3 DEF Before
<1>7. CASE ~p.primary /\ q.primary
  <2>1. PICK a, b \in Nat : b = a + 1 /\ q.seq = SeqNo(a) /\ p.seq = SeqNo(b)
    BY <1>1, <1>3, <1>7 DEF Carrier
  <2>3. p.seq # q.seq /\ SeqNo(q.seq - p.seq) = SeqSpan - 1
    BY <1>4, <2>1
  <2> QED
    BY <1>1, <1>2, <1>7, <2>3 DEF Before
<1>8. CASE p.primary <=> q.primary
  <2>1. p.seq = q.seq
    BY <1>1, <1>8 DEF Carrier
  <2> QED
    BY <1>1, <1>8, <2>1 DEF Before
<1> QED
  BY <1>6, <1>7, <1>8

\* What is sent of a stream of one pace, its slots in turn, on a circle of sequence numbers
\* that tells a number from the next.
Orderly == sent \in Streams /\ OnePace(sent) /\ InTurn(sent) /\ SeqSpan \div 2 > 2

\* The order of packets is that of their slots and, in a slot, of how good they are.
LEMMA PlaceOrder ==
    ASSUME Orderly, NEW p \in Arrived, NEW q \in Arrived
    PROVE  /\ Place(p) \in Nat /\ Place(q) \in Nat
           /\ Before(p, q) => Place(p) <= Place(q)
           /\ ~Before(p, q) => Place(q) <= Place(p)
           /\ Place(p) <= Place(q) => p.n <= q.n
           /\ p.n = q.n /\ Place(p) <= Place(q) => RankOf(p) <= RankOf(q)
<1>1. /\ sent \in Streams /\ OnePace(sent) /\ InTurn(sent) /\ SeqSpan \div 2 > 2
  BY DEF Orderly
<1>2. /\ p.n \in Nat /\ p.primary \in BOOLEAN /\ p.sync \in BOOLEAN /\ (~p.primary => ~p.sync)
      /\ q.n \in Nat /\ q.primary \in BOOLEAN /\ q.sync \in BOOLEAN /\ (~q.primary => ~q.sync)
  BY <1>1, CopyIs
<1>3. RankOf(p) \in 0 .. 2 /\ RankOf(q) \in 0 .. 2
  BY <1>2 DEF RankOf
<1>4. /\ Place(p) = 3 * p.n + RankOf(p) /\ Place(q) = 3 * q.n + RankOf(q)
  BY DEF Place
<1>5. CASE p.n < q.n
  BY <1>1, <1>2, <1>3, <1>4, <1>5, SameSlot
<1>6. CASE q.n < p.n
  BY <1>1, <1>2, <1>3, <1>4, <1>6, SameSlot
<1>7. CASE p.n = q.n
  <2>1. /\ p.primary /\ ~q.primary => Before(p, q)
        /\ ~p.primary /\ q.primary => ~Before(p, q)
        /\ (p.primary <=> q.primary) => (Before(p, q) <=> q.sync)
    BY <1>1, <1>7, CopyBehind
  <2>2. /\ Before(p, q) => RankOf(p) <= RankOf(q)
        /\ ~Before(p, q) => RankOf(q) <= RankOf(p)
    BY <1>2, <2>1 DEF RankOf
  <2> QED
    BY <1>2, <1>3, <1>4, <1>7, <2>2
<1> QED
  BY <1>2, <1>5, <1>6, <1>7

Ranked(b) == \A i, j \in 1 .. Len(b) : i < j => Place(b[i]) <= Place(b[j])

\* A packet put in its place keeps that so.
LEMMA PlacedRanked ==
    ASSUME Orderly, NEW b \in Seq(Arrived), NEW p \in Arrived, Ranked(b)
    PROVE  LET r == Placed(b, p)
           IN  r \in Seq(Arrived) /\ Ranked(r) /\ Range(r) = Range(b) \cup {p}
<1> DEFINE r == Placed(b, p)
<1>1. /\ r \in Seq(Arrived) /\ Len(r) = Len(b) + 1
      /\ \E m \in 0 .. Len(b) : PutBehind(b, p, m)
  BY PlacedBehind
<1>2. PICK m \in 0 .. Len(b) : PutBehind(b, p, m)
  BY <1>1
<1>3. /\ m > 0 => ~Before(p, b[m])
      /\ \A k \in 1 .. Len(b) : k > m => Before(p, b[k])
      /\ \A k \in 1 .. (Len(b) + 1) :
             r[k] = IF k <= m THEN b[k] ELSE IF k = m + 1 THEN p ELSE b[k - 1]
  BY <1>2 DEF PutBehind
<1> HIDE DEF r
<1>4. Len(b) \in Nat /\ m \in 0 .. Len(b) /\ Len(r) \in Nat
  BY <1>1
<1>5. \A k \in 1 .. Len(b) : b[k] \in Arrived /\ Place(b[k]) \in Nat
  BY PlaceOrder
<1>6. Place(p) \in Nat
  BY PlaceOrder
<1>7. ASSUME NEW k \in 1 .. Len(b), k <= m PROVE Place(b[k]) <= Place(p)
  <2>1. m \in 1 .. Len(b) /\ m > 0 /\ b[m] \in Arrived
    BY <1>4, <1>5, <1>7
  <2>2. Place(b[m]) <= Place(p)
    BY <1>3, <2>1, PlaceOrder
  <2>3. Place(b[k]) <= Place(b[m])
    <3>1. k = m \/ k < m
      BY <1>4, <1>7
    <3> QED
      BY <1>5, <2>1, <3>1 DEF Ranked
  <2> QED
    BY <1>5, <1>6, <2>1, <2>2, <2>3
<1>8. ASSUME NEW k \in 1 .. Len(b), k > m PROVE Place(p) <= Place(b[k])
  BY <1>3, <1>5, <1>8, PlaceOrder
<1>9. Ranked(r)
  <2> SUFFICES ASSUME NEW i \in 1 .. Len(r), NEW j \in 1 .. Len(r), i < j
               PROVE  Place(r[i]) <= Place(r[j])
    BY DEF Ranked
  <2>1. CASE j <= m
    <3>1. i \in 1 .. Len(b) /\ j \in 1 .. Len(b) /\ r[i] = b[i] /\ r[j] = b[j]
      BY <1>1, <1>3, <1>4, <2>1
    <3> QED
      BY <3>1 DEF Ranked
  <2>2. CASE j = m + 1
    <3>1. i \in 1 .. Len(b) /\ i <= m /\ r[i] = b[i] /\ r[j] = p
      BY <1>1, <1>3, <1>4, <2>2
    <3> QED
      BY <1>7, <3>1
  <2>3. CASE j > m + 1 /\ i = m + 1
    <3>1. j - 1 \in 1 .. Len(b) /\ j - 1 > m /\ r[j] = b[j - 1] /\ r[i] = p
      BY <1>1, <1>3, <1>4, <2>3
    <3> QED
      BY <1>8, <3>1
  <2>4. CASE j > m + 1 /\ i <= m
    <3>1. /\ i \in 1 .. Len(b) /\ j - 1 \in 1 .. Len(b) /\ i < j - 1
          /\ r[i] = b[i] /\ r[j] = b[j - 1]
      BY <1>1, <1>3, <1>4, <2>4
    <3> QED
      BY <3>1 DEF Ranked
  <2>5. CASE j > m + 1 /\ i > m + 1
    <3>1. /\ i - 1 \in 1 .. Len(b) /\ j - 1 \in 1 .. Len(b) /\ i - 1 < j - 1
          /\ r[i] = b[i - 1] /\ r[j] = b[j - 1]
      BY <1>1, <1>3, <1>4, <2>5
    <3> QED
      BY <3>1 DEF Ranked
  <2> QED
    BY <1>4, <2>1, <2>2, <2>3, <2>4, <2>5
<1>10. Range(r) \subseteq Range(b) \cup {p}
  <2> SUFFICES ASSUME NEW k \in 1 .. Len(r) PROVE r[k] \in Range(b) \cup {p}
    BY <1>1 DEF Range
  <2>1. r[k] = p \/ \E j \in 1 .. Len(b) : r[k] = b[j]
    BY <1>1, <1>3, <1>4
  <2> QED
    BY <2>1 DEF Range
<1>11. p \in Range(r)
  <2>1. m + 1 \in 1 .. Len(r) /\ r[m + 1] = p
    BY <1>1, <1>3, <1>4
  <2> QED
    BY <1>1, <2>1 DEF Range
<1>12. Range(b) \subseteq Range(r)
  <2> SUFFICES ASSUME NEW k \in 1 .. Len(b) PROVE \E j \in 1 .. Len(r) : r[j] = b[k]
    BY <1>1 DEF Range
  <2>1. CASE k <= m
    BY <1>1, <1>3, <1>4, <2>1
  <2>2. CASE k > m
    <3>1. k + 1 \in 1 .. Len(r) /\ r[k + 1] = b[k]
      BY <1>1, <1>3, <1>4, <2>2
    <3> QED
      BY <3>1
  <2> QED
    BY <1>4, <2>1, <2>2
<1> QED
  BY <1>1, <1>9, <1>10, <1>11, <1>12 DEF r

\* What comes with a slot is all that is added or, if it flushes the buffer, all that is left.
LEMMA ListAdds ==
    ASSUME Orderly, NEW b \in Seq(Arrived), Ranked(b), NEW pt, NEW cng,
           NEW list \in Seq(Arrived), Len(list) \in 1 .. 2
    PROVE  LET r == InsertPacketList(b, pt, cng, list)
           IN  /\ Ranked(r.buffer)
               /\ r.flushed => Range(r.buffer) \subseteq Range(list)
               /\ ~r.flushed => Range(r.buffer) = Range(b) \cup Range(list)
               /\ Range(r.buffer) \subseteq Range(b) \cup Range(list)
<1> DEFINE s == [buffer |-> b, pt |-> pt, cng |-> cng, flushed |-> FALSE]
           first == InsertOne(s, list[1])
           second == InsertOne(first, list[2])
           r == InsertPacketList(b, pt, cng, list)
<1>1. ASSUME NEW t, NEW p, NEW o, o = InsertOne(t, p), t.flushed \in BOOLEAN
      PROVE  \/ o.buffer = Placed(<<>>, p) /\ o.flushed = TRUE
             \/ o.buffer = Placed(t.buffer, p) /\ o.flushed = t.flushed
  <2> DEFINE current == IF IsComfortNoise(p) THEN t.cng ELSE t.pt
             flush == (current # NoType /\ current # p.pt) \/ Full(t.buffer)
  <2>1. /\ o.buffer = Placed(IF flush THEN <<>> ELSE t.buffer, p)
        /\ o.flushed = (t.flushed \/ flush)
    BY <1>1 DEF InsertOne
  <2>2. flush \in BOOLEAN
    OBVIOUS
  <2> HIDE DEF flush
  <2> QED
    BY <1>1, <2>1, <2>2
<1>2. s.buffer = b /\ s.flushed = FALSE
  OBVIOUS
<1>3. r = IF Len(list) = 1 THEN first ELSE second
  BY DEF InsertPacketList
<1> HIDE DEF s, r
<1>4. <<>> \in Seq(Arrived) /\ Ranked(<<>>) /\ Range(<<>>) = {}
  BY DEF Ranked, Range
<1>5. /\ list[1] \in Arrived /\ (Len(list) = 1 \/ Len(list) = 2)
      /\ Len(list) = 2 => list[2] \in Arrived
      /\ Len(list) = 1 => Range(list) = {list[1]}
      /\ Len(list) = 2 => Range(list) = {list[1], list[2]}
  BY DEF Range
<1> DEFINE p == list[1]
           q == list[2]
<1>6. ASSUME NEW from \in Seq(Arrived), Ranked(from), NEW x \in Arrived
      PROVE  /\ Placed(<<>>, x) \in Seq(Arrived) /\ Placed(from, x) \in Seq(Arrived)
             /\ Ranked(Placed(<<>>, x)) /\ Range(Placed(<<>>, x)) = {x}
             /\ Ranked(Placed(from, x)) /\ Range(Placed(from, x)) = Range(from) \cup {x}
  <2> DEFINE none == <<>>
  <2>1. none \in Seq(Arrived) /\ Ranked(none) /\ Range(none) = {}
    BY <1>4
  <2> HIDE DEF none
  <2>2. /\ Placed(none, x) \in Seq(Arrived) /\ Ranked(Placed(none, x))
        /\ Range(Placed(none, x)) = Range(none) \cup {x}
    BY <2>1, PlacedRanked
  <2>3. /\ Placed(from, x) \in Seq(Arrived) /\ Ranked(Placed(from, x))
        /\ Range(Placed(from, x)) = Range(from) \cup {x}
    BY <1>6, PlacedRanked
  <2>4. Range(Placed(none, x)) = {x}
    BY <2>1, <2>2
  <2> QED
    BY <2>2, <2>3, <2>4 DEF none
<1>7. /\ first.buffer \in Seq(Arrived) /\ Ranked(first.buffer) /\ first.flushed \in BOOLEAN
      /\ first.flushed => Range(first.buffer) = {p}
      /\ ~first.flushed => Range(first.buffer) = Range(b) \cup {p}
      /\ Range(first.buffer) \subseteq Range(b) \cup {p}
  <2>1. p \in Arrived
    BY <1>5
  <2>2. \/ first.buffer = Placed(<<>>, p) /\ first.flushed = TRUE
        \/ first.buffer = Placed(b, p) /\ first.flushed = FALSE
    <3>1. first = InsertOne(s, p) /\ s.flushed \in BOOLEAN
      BY <1>2
    <3> HIDE DEF first, p
    <3>2. \/ first.buffer = Placed(<<>>, p) /\ first.flushed = TRUE
          \/ first.buffer = Placed(s.buffer, p) /\ first.flushed = s.flushed
      BY ONLY <1>1, <3>1
    <3> QED
      BY <1>2, <3>2
  <2>3. /\ Placed(<<>>, p) \in Seq(Arrived) /\ Placed(b, p) \in Seq(Arrived)
        /\ Ranked(Placed(<<>>, p)) /\ Range(Placed(<<>>, p)) = {p}
        /\ Ranked(Placed(b, p)) /\ Range(Placed(b, p)) = Range(b) \cup {p}
    BY <1>6, <2>1
  <2> HIDE DEF first, p
  <2> QED
    BY <2>2, <2>3
<1> HIDE DEF first
<1>10. ASSUME Len(list) = 2
      PROVE  /\ Ranked(second.buffer) /\ second.flushed \in BOOLEAN
             /\ second.flushed => Range(second.buffer) \subseteq {p, q}
             /\ ~second.flushed => Range(second.buffer) = Range(b) \cup {p, q}
             /\ Range(second.buffer) \subseteq Range(b) \cup {p, q}
  <2> DEFINE from == first.buffer
  <2>1. q \in Arrived
    BY <1>5, <1>10
  <2>2. \/ second.buffer = Placed(<<>>, q) /\ second.flushed = TRUE
        \/ second.buffer = Placed(from, q) /\ second.flushed = first.flushed
    <3>1. second = InsertOne(first, q) /\ first.flushed \in BOOLEAN
      BY <1>7
    <3> HIDE DEF second, q
    <3> QED
      BY ONLY <1>1, <3>1
  <2>3. from \in Seq(Arrived) /\ Ranked(from)
    BY <1>7
  <2> HIDE DEF second, p, q, from
  <2>4. /\ Ranked(Placed(<<>>, q)) /\ Range(Placed(<<>>, q)) = {q}
        /\ Ranked(Placed(from, q)) /\ Range(Placed(from, q)) = Range(from) \cup {q}
    BY <1>6, <2>1, <2>3
  <2> QED
    BY <1>7, <2>2, <2>4 DEF from
<1> HIDE DEF second
<1>8. CASE Len(list) = 1
  BY <1>3, <1>5, <1>7, <1>8 DEF r
<1>9. CASE Len(list) = 2
  BY <1>3, <1>5, <1>9, <1>10 DEF r
<1> QED
  BY <1>5, <1>8, <1>9

-----------------------------------------------------------------------------
(* What goes from the buffer, by slots.                                      *)

\* The end of a sequence from the first of some places on has all of those.
LEMMA SuffixStarts ==
    ASSUME NEW T, NEW s \in Seq(T), NEW places, places \subseteq DOMAIN s
    PROVE  LET r == Suffix(s, places)
           IN  /\ \A k \in places : k > Len(s) - Len(r)
               /\ Len(r) >= 1 => Len(s) - Len(r) + 1 \in places
<1> DEFINE r == Suffix(s, places)
<1>1. CASE places = {}
  <2>1. Len(r) = 0
    BY <1>1, SuffixIs
  <2> HIDE DEF r
  <2> QED
    BY <1>1, <2>1 DEF r
<1>2. CASE places # {}
  <2> DEFINE m == Min(places)
  <2>1. DOMAIN s = 1 .. Len(s) /\ Len(s) \in Nat
    OBVIOUS
  <2>2. m \in places /\ \A k \in places : k >= m
    BY <1>2, <2>1, MinOf
  <2> HIDE DEF m
  <2>3. r = SubSeq(s, m, Len(s))
    BY <1>2 DEF Suffix, m
  <2>4. m \in 1 .. Len(s)
    BY <2>1, <2>2
  <2>5. Len(r) = Len(s) - m + 1
    BY <2>1, <2>3, <2>4
  <2> HIDE DEF r
  <2>6. Len(s) - Len(r) + 1 = m
    BY <2>1, <2>4, <2>5
  <2>7. \A k \in places : k > Len(s) - Len(r)
    BY <2>1, <2>2, <2>4, <2>5
  <2> QED
    BY <2>2, <2>6, <2>7 DEF r
<1> QED
  BY <1>1, <1>2

LEMMA FrontUseless ==
    ASSUME NEW T, buffer \in Seq(T)
    PROVE  \A k \in 1 .. Len(buffer) : k <= Len(buffer) - Len(Useful) => Useless(buffer[k])
<1> DEFINE places == {k \in DOMAIN buffer : ~Useless(buffer[k])}
           r == Suffix(buffer, places)
<1>1. Useful = r
  BY DEF Useful, WithoutFront, Suffix, Useless, CngOn
<1>2. places \subseteq DOMAIN buffer /\ DOMAIN buffer = 1 .. Len(buffer)
  OBVIOUS
<1>3. \A k \in 1 .. Len(buffer) : k \notin places => Useless(buffer[k])
  BY <1>2
<1>4. r \in Seq(T) /\ Len(r) \in Nat /\ Len(buffer) \in Nat
  <2> HIDE DEF places
  <2> QED
    BY <1>2, SuffixIs
<1>5. \A k \in places : k > Len(buffer) - Len(r)
  <2> HIDE DEF places
  <2> QED
    BY <1>2, SuffixStarts
<1> HIDE DEF r, places
<1>6. \A k \in 1 .. Len(buffer) : k <= Len(buffer) - Len(r) => k \notin places
  BY <1>4, <1>5
<1> QED
  BY <1>1, <1>3, <1>6

LEMMA FrontGone ==
    ASSUME NEW T, buffer \in Seq(T), NEW list
    PROVE  LET gone == {q.ts : q \in Range(list)}
               r == Rest(list)
           IN  /\ r \in Seq(T) /\ Len(r) \in Nat /\ Len(r) <= Len(Useful) /\ EndOf(r, Useful)
               /\ \A k \in 1 .. Len(Useful) : Useful[k].ts \notin gone => k > Len(Useful) - Len(r)
               /\ Len(r) >= 1 => r[1].ts \notin gone
<1> DEFINE u == Useful
           gone == {q.ts : q \in Range(list)}
           places == {k \in DOMAIN u : ~(u[k].ts \in gone)}
           r == Suffix(u, places)
<1>1. Rest(list) = r
  BY DEF Rest, WithoutFront, Suffix
<1>2. u \in Seq(T) /\ Len(u) \in Nat
  BY UsefulIs
<1> HIDE DEF u, gone
<1>3. places \subseteq DOMAIN u /\ DOMAIN u = 1 .. Len(u)
  BY <1>2
<1>4. /\ \A k \in places : k \in 1 .. Len(u) /\ u[k].ts \notin gone
      /\ \A k \in 1 .. Len(u) : u[k].ts \notin gone => k \in places
  BY <1>3
<1> HIDE DEF places
<1>5. /\ r \in Seq(T) /\ Len(r) \in Nat /\ Len(r) <= Len(u)
      /\ \A k \in 1 .. Len(r) : Len(u) - Len(r) + k \in DOMAIN u /\ r[k] = u[Len(u) - Len(r) + k]
  BY <1>2, <1>3, SuffixIs
<1>6. /\ \A k \in places : k > Len(u) - Len(r)
      /\ Len(r) >= 1 => Len(u) - Len(r) + 1 \in places
  BY <1>2, <1>3, SuffixStarts
<1> HIDE DEF r
<1>7. EndOf(r, u)
  BY <1>5 DEF EndOf
<1>8. Len(r) >= 1 => r[1].ts \notin gone
  <2> SUFFICES ASSUME Len(r) >= 1 PROVE r[1].ts \notin gone
    OBVIOUS
  <2>1. 1 \in 1 .. Len(r)
    BY <1>5
  <2>2. r[1] = u[Len(u) - Len(r) + 1]
    BY <1>5, <2>1
  <2> QED
    BY <1>4, <1>6, <2>2
<1> QED
  BY <1>1, <1>4, <1>5, <1>6, <1>7, <1>8 DEF u, gone

\* What goes is useless; of the slot next to decode nothing goes, and the best of it is next.
LEMMA BestNext ==
    ASSUME Types, Orderly, Ranked(buffer)
    PROVE  /\ Range(Useful) \subseteq Range(buffer)
           /\ \A p \in Range(buffer) : p \notin Range(Useful) => Useless(p)
           /\ Useful # <<>> =>
                 /\ Header \in Range(buffer)
                 /\ \A p \in Range(buffer) :
                       /\ p.n < Header.n => Useless(p)
                       /\ p.n >= Header.n => p \in Range(Useful)
                       /\ p.n = Header.n => RankOf(Header) <= RankOf(p)
                 /\ \A p \in Range(Useful) : p.n >= Header.n
<1> DEFINE u == Useful
           off == Len(buffer) - Len(u)
<1>1. buffer \in Seq(Arrived) /\ sent \in Streams /\ InTurn(sent)
  BY DEF Types, Orderly
<1>2. /\ u \in Seq(Arrived) /\ Len(u) \in Nat /\ Len(u) <= Len(buffer) /\ EndOf(u, buffer)
      /\ u # <<>> => Header \in Arrived /\ Header = u[1] /\ ~Useless(Header) /\ Len(u) >= 1
  BY <1>1, UsefulIs
<1>3. \A k \in 1 .. Len(buffer) : k <= off => Useless(buffer[k])
  BY <1>1, FrontUseless
<1> HIDE DEF u
<1>4. Len(buffer) \in Nat /\ off \in Nat
  BY <1>1, <1>2
<1>5. \A k \in 1 .. Len(u) : off + k \in 1 .. Len(buffer) /\ u[k] = buffer[off + k]
  BY <1>2, <1>4 DEF EndOf
<1>6. \A k \in 1 .. Len(buffer) : k > off => k - off \in 1 .. Len(u) /\ buffer[k] = u[k - off]
  <2> SUFFICES ASSUME NEW k \in 1 .. Len(buffer), k > off
               PROVE  k - off \in 1 .. Len(u) /\ buffer[k] = u[k - off]
    OBVIOUS
  <2>1. k - off \in 1 .. Len(u) /\ off + (k - off) = k
    BY <1>2, <1>4
  <2> HIDE DEF off
  <2> QED
    BY <1>5, <2>1
<1> HIDE DEF off
<1>7. /\ Range(buffer) = {buffer[k] : k \in 1 .. Len(buffer)}
      /\ Range(u) = {u[k] : k \in 1 .. Len(u)}
  BY <1>1, <1>2 DEF Range
<1>8. Range(u) \subseteq Range(buffer)
  BY <1>5, <1>7
<1>9. \A p \in Range(buffer) : p \notin Range(u) => Useless(p)
  <2> SUFFICES ASSUME NEW k \in 1 .. Len(buffer), buffer[k] \notin Range(u)
               PROVE  Useless(buffer[k])
    BY <1>7
  <2>1. ~(k > off)
    BY <1>6, <1>7
  <2> QED
    BY <1>3, <1>4, <2>1
<1>10. ASSUME u # <<>>
       PROVE  /\ Header \in Range(buffer)
              /\ \A p \in Range(buffer) :
                    /\ p.n < Header.n => Useless(p)
                    /\ p.n >= Header.n => p \in Range(u)
                    /\ p.n = Header.n => RankOf(Header) <= RankOf(p)
              /\ \A p \in Range(u) : p.n >= Header.n
  <2> DEFINE h == Header
             first == off + 1
  <2>1. h \in Arrived /\ h = u[1] /\ ~Useless(h) /\ 1 \in 1 .. Len(u)
    BY <1>2, <1>10
  <2> HIDE DEF h
  <2>2. first \in 1 .. Len(buffer) /\ h = buffer[first]
    BY <1>5, <2>1
  <2>3. ASSUME NEW k \in 1 .. Len(buffer), k >= first
        PROVE  Place(h) <= Place(buffer[k])
    <3>1. buffer[k] \in Arrived /\ Place(h) \in Nat
      BY <1>1, <2>1, PlaceOrder
    <3>2. k = first \/ first < k
      BY <2>2, <2>3
    <3> HIDE DEF first
    <3> QED
      BY <2>2, <3>1, <3>2 DEF Ranked
  <2>4. ASSUME NEW k \in 1 .. Len(buffer), k < first
        PROVE  Place(buffer[k]) <= Place(h)
    <3> HIDE DEF first
    <3> QED
      BY <2>2, <2>4 DEF Ranked
  <2>5. ASSUME NEW k \in 1 .. Len(buffer)
        PROVE  /\ buffer[k] \in Arrived /\ buffer[k].n \in Nat /\ h.n \in Nat
               /\ k >= first => h.n <= buffer[k].n
               /\ k < first => buffer[k].n < h.n /\ Useless(buffer[k])
    <3> DEFINE p == buffer[k]
    <3>1. p \in Arrived
      BY <1>1
    <3>2. k >= first => Place(h) <= Place(p)
      BY <2>3
    <3>3. k < first => Place(p) <= Place(h) /\ Useless(p)
      BY <1>3, <1>4, <2>4
    <3> HIDE DEF p, first
    <3>4. p.n \in Nat /\ h.n \in Nat
      BY <1>1, <2>1, <3>1, CopyIs
    <3>5. /\ Place(h) <= Place(p) => h.n <= p.n
          /\ Place(p) <= Place(h) => p.n <= h.n
      BY <2>1, <3>1, PlaceOrder
    <3>6. p.n = h.n => (Useless(p) <=> Useless(h))
      <4>1. p.n = h.n => p.ts = h.ts /\ p.pt = h.pt
        BY <1>1, <2>1, <3>1, SameSlot
      <4> QED
        BY <4>1 DEF Useless, IsComfortNoise
    <3>7. k < first => p.n < h.n /\ Useless(p)
      BY <2>1, <3>3, <3>4, <3>5, <3>6
    <3> QED
      BY <3>1, <3>2, <3>4, <3>5, <3>7 DEF p
  <2>6. ASSUME NEW k \in 1 .. Len(buffer)
        PROVE  LET p == buffer[k]
               IN  /\ p.n < h.n => Useless(p)
                   /\ p.n >= h.n => p \in Range(u)
                   /\ p.n = h.n => RankOf(h) <= RankOf(p)
    <3> DEFINE p == buffer[k]
    <3>1. CASE k < first
      <4>1. p.n < h.n /\ Useless(p) /\ p.n \in Nat /\ h.n \in Nat
        BY <2>5, <3>1
      <4> HIDE DEF p
      <4> QED
        BY <4>1 DEF p
    <3>2. CASE k >= first
      <4>1. p \in Range(u)
        <5>1. k > off
          BY <1>4, <3>2
        <5> QED
          BY <1>6, <1>7, <5>1
      <4>2. p \in Arrived /\ h.n <= p.n /\ p.n \in Nat /\ h.n \in Nat /\ Place(h) <= Place(p)
        BY <2>3, <2>5, <3>2
      <4> HIDE DEF p
      <4>3. p.n = h.n => RankOf(h) <= RankOf(p)
        BY <2>1, <4>2, PlaceOrder
      <4> QED
        BY <4>1, <4>2, <4>3 DEF p
    <3> QED
      BY <1>4, <3>1, <3>2
  <2>7. ASSUME NEW k \in 1 .. Len(u) PROVE u[k].n >= h.n
    <3>1. off + k \in 1 .. Len(buffer) /\ off + k >= first /\ u[k] = buffer[off + k]
      BY <1>4, <1>5
    <3> QED
      BY <2>5, <3>1
  <2>8. h \in Range(buffer)
    BY <1>7, <2>2
  <2>9. h = Header
    BY DEF h
  <2> HIDE DEF first
  <2> QED
    BY <1>7, <2>6, <2>7, <2>8, <2>9
<1> QED
  BY <1>8, <1>9, <1>10 DEF u

\* A list goes on with the next slot, and with the best of it.
LEMMA SlotGoesOn ==
    ASSUME Types, Orderly, Ordered, Useful # <<>>,
           NEW list, NEW required, NEW k, GoesOnWith(list, required, k)
    PROVE  /\ list[k] \in Arrived /\ list[k + 1] \in Arrived
           /\ list[k + 1].n = list[k].n + 1 /\ list[k].n \in Nat
<1> DEFINE p == list[k]
           q == list[k + 1]
           a == Carrier(p)
           b == Carrier(q)
<1>1. /\ sent \in Streams /\ OnePace(sent) /\ InTurn(sent) /\ Sorted(buffer) /\ Carried(buffer, {})
  BY DEF Orderly, Ordered
<1>2. /\ p \in Arrived /\ q \in Arrived /\ Start(p) < Start(q)
      /\ ~p.primary /\ p.len > 0 => Start(q) <= sent[p.n + 1].at
  BY <1>1, StartsNext
<1>3. SeqNo(q.seq - p.seq) = 1 \/ q.seq = p.seq
  BY DEF GoesOnWith
<1> HIDE DEF p, q
<1>4. /\ p.n \in Slots /\ p.n \in Nat /\ Start(p) = sent[p.n].at /\ p.primary \in BOOLEAN
      /\ p.pt = sent[p.n].pt /\ p.len = sent[p.n].len
      /\ ~p.primary => sent[p.n + 1].fec /\ p.n + 1 \in Slots
      /\ q.n \in Slots /\ q.n \in Nat /\ Start(q) = sent[q.n].at /\ q.primary \in BOOLEAN
      /\ a \in Slots /\ b \in Slots /\ p.seq = SeqNo(SeqStart + a) /\ q.seq = SeqNo(SeqStart + b)
  BY <1>1, <1>2, CopyIs, StartIs
<1>5. /\ a = IF p.primary THEN p.n ELSE p.n + 1
      /\ b = IF q.primary THEN q.n ELSE q.n + 1
  BY DEF Carrier
<1> HIDE DEF a, b
<1>6. p.n < q.n
  BY <1>1, <1>2, <1>4, Apart
<1>7. b = a + 1 \/ b = a
  <2>1. SeqStart \in Nat /\ a \in Nat /\ b \in Nat /\ a + 1 < SeqSpan /\ b + 1 < SeqSpan
    BY <1>1, <1>4, Limits, SlotIs DEF OnePace, Slots
  <2>2. \/ SeqNo(SeqNo(SeqStart + b) - SeqNo(SeqStart + a)) = 1
        \/ SeqNo(SeqStart + b) = SeqNo(SeqStart + a)
    BY <1>3, <1>4
  <2> QED
    BY <2>1, <2>2, NextCarrier
<1>8. ~p.primary => q.n <= p.n + 1
  <2> SUFFICES ASSUME ~p.primary PROVE q.n <= p.n + 1
    OBVIOUS
  <2> DEFINE m == p.n + 1
  <2>1. m \in Slots /\ sent[m].fec /\ m - 1 = p.n
    BY <1>4
  <2> HIDE DEF m
  <2>2. sent[p.n].pt \in SpeechTypes
    BY <1>1, <2>1, SlotIs DEF OnePace, Slots
  <2>3. p.len > 0
    BY <1>1, <1>4, <2>2 DEF OnePace, Slots
  <2>4. sent[q.n].at <= sent[m].at
    BY <1>2, <1>4, <2>3 DEF m
  <2>5. q.n <= m
    <3>1. sent[m].at \in Nat /\ sent[q.n].at \in Nat /\ m \in Nat /\ (m < q.n => sent[m].at < sent[q.n].at)
      BY <1>1, <1>4, <2>1, Apart
    <3> QED
      BY <1>4, <2>4, <3>1
  <2> QED
    BY <2>5 DEF m
<1>9. q.n = p.n + 1
  BY <1>4, <1>5, <1>6, <1>7, <1>8
<1> QED
  BY <1>2, <1>4, <1>9 DEF p, q

LEMMA BestGoesOn ==
    ASSUME Types, Orderly, Ordered, Ranked(buffer), Useful # <<>>,
           NEW list, NEW required, NEW k, GoesOnWith(list, required, k)
    PROVE  /\ list[k + 1] \in Range(buffer)
           /\ \A p \in Range(buffer) :
                 p.n = list[k + 1].n => RankOf(list[k + 1]) <= RankOf(p)
<1> DEFINE u == Useful
           q == list[k + 1]
           off == Len(buffer) - Len(u)
<1>1. PICK i, j \in 1 .. Len(u) : i < j /\ q = u[j] /\ q.ts # u[j - 1].ts
  BY DEF GoesOnWith
<1>2. buffer \in Seq(Arrived) /\ sent \in Streams /\ InTurn(sent)
  BY DEF Types, Orderly
<1>3. u \in Seq(Arrived) /\ Len(u) \in Nat /\ Len(u) <= Len(buffer) /\ EndOf(u, buffer)
  BY <1>2, UsefulIs
<1> HIDE DEF u, q
<1>4. Len(buffer) \in Nat /\ off \in Nat
  BY <1>2, <1>3
<1>5. \A x \in 1 .. Len(u) : off + x \in 1 .. Len(buffer) /\ u[x] = buffer[off + x]
  BY <1>3, <1>4 DEF EndOf
<1>6. j \in 1 .. Len(u) /\ j - 1 \in 1 .. Len(u)
  BY <1>1, <1>3
<1> DEFINE here == off + j
<1>7. /\ here \in 1 .. Len(buffer) /\ q = buffer[here]
      /\ here - 1 \in 1 .. Len(buffer) /\ u[j - 1] = buffer[here - 1]
  <2>1. off + (j - 1) = here - 1
    BY <1>4, <1>6
  <2> QED
    BY <1>1, <1>5, <1>6, <2>1
<1> HIDE DEF off, here
<1> DEFINE before == buffer[here - 1]
<1>8. /\ q \in Arrived /\ before \in Arrived /\ q.ts # before.ts
      /\ Range(buffer) = {buffer[x] : x \in 1 .. Len(buffer)}
  BY <1>1, <1>2, <1>7 DEF Range
<1>9. \A x \in 1 .. Len(buffer) : buffer[x] \in Arrived
  BY <1>2
<1>10. ASSUME NEW x \in 1 .. Len(buffer), buffer[x].n = q.n
       PROVE  RankOf(q) <= RankOf(buffer[x])
  <2> DEFINE p == buffer[x]
  <2>1. p \in Arrived /\ p.n = q.n
    BY <1>9, <1>10
  <2>2. CASE x >= here
    <3>1. x = here \/ Place(q) <= Place(p)
      BY <1>7, <2>2 DEF Ranked
    <3>2. Place(q) <= Place(p)
      BY <1>7, <1>8, <3>1, PlaceOrder
    <3> HIDE DEF p
    <3> QED
      BY <1>8, <2>1, <3>2, PlaceOrder DEF p
  <2>3. CASE x < here
    <3>1. x <= here - 1
      BY <1>7, <2>3
    <3>2. x = here - 1 \/ Place(p) <= Place(before)
      BY <1>7, <3>1 DEF Ranked
    <3>3. Place(before) <= Place(q)
      BY <1>7 DEF Ranked
    <3>4. Place(p) <= Place(before)
      BY <1>8, <2>1, <3>2, PlaceOrder
    <3> HIDE DEF p, before
    <3>5. p.n <= before.n /\ before.n <= q.n /\ p.n \in Nat /\ before.n \in Nat /\ q.n \in Nat
      BY <1>2, <1>8, <2>1, <3>3, <3>4, PlaceOrder, CopyIs
    <3>6. before.n = q.n
      BY <2>1, <3>5
    <3> QED
      BY <1>2, <1>8, <3>6, SameSlot
  <2> QED
    BY <1>7, <2>2, <2>3
<1>11. q \in Range(buffer)
  BY <1>7, <1>8
<1> QED
  BY <1>8, <1>10, <1>11 DEF q

\* What is taken is the slot next to decode and at most the one after it; once it is, the
\* slots behind it are left, and those only.
LEMMA RestSlots ==
    ASSUME Types, Orderly, Ranked(buffer), Useful # <<>>, NEW list, NEW last \in Nat,
           Header.n <= last,
           \A q \in Range(list) : q \in Arrived /\ q.n \in Header.n .. last,
           \A m \in Header.n .. last : \E q \in Range(list) : q.n = m
    PROVE  /\ Rest(list) \in Seq(Arrived) /\ Ranked(Rest(list))
           /\ Range(Rest(list)) = {p \in Range(buffer) : p.n > last}
<1> DEFINE u == Useful
           r == Rest(list)
           gone == {q.ts : q \in Range(list)}
           off == Len(u) - Len(r)
           all == Len(buffer) - Len(r)
           h == Header
<1>1. buffer \in Seq(Arrived) /\ sent \in Streams /\ InTurn(sent)
  BY DEF Types, Orderly
<1>2. /\ u \in Seq(Arrived) /\ Len(u) \in Nat /\ Len(u) <= Len(buffer)
      /\ h \in Arrived
  BY <1>1, UsefulIs
<1>3. /\ r \in Seq(Arrived) /\ Len(r) \in Nat /\ Len(r) <= Len(u) /\ EndOf(r, u)
      /\ \A k \in 1 .. Len(u) : u[k].ts \notin gone => k > off
      /\ Len(r) >= 1 => r[1].ts \notin gone
  BY <1>1, FrontGone
<1>4. EndOf(r, buffer)
  BY <1>1, RestIs
<1>5. \A p \in Range(u) : p \in Range(buffer) /\ p.n >= h.n
  BY BestNext
<1>6. \A p \in Range(buffer) : p.n >= h.n => p \in Range(u)
  BY BestNext
<1> HIDE DEF h, u, r
<1>7. ASSUME NEW p \in Arrived, p.n >= h.n PROVE p.ts \in gone <=> p.n <= last
  <2>1. p.n \in Nat /\ h.n \in Nat
    BY <1>1, <1>2, CopyIs
  <2>2. ASSUME p.ts \in gone PROVE p.n <= last
    <3>1. PICK q \in Range(list) : q.ts = p.ts
      BY <2>2
    <3>2. q \in Arrived /\ q.n \in h.n .. last
      BY DEF h
    <3>3. q.n = p.n
      BY <1>1, <3>1, <3>2, SameSlot
    <3> QED
      BY <2>1, <3>2, <3>3
  <2>3. ASSUME p.n <= last PROVE p.ts \in gone
    <3>1. p.n \in h.n .. last
      BY <1>7, <2>1, <2>3
    <3>2. PICK q \in Range(list) : q.n = p.n
      BY <3>1 DEF h
    <3>3. q \in Arrived
      OBVIOUS
    <3>4. q.ts = p.ts
      BY <1>1, <3>2, <3>3, SameSlot
    <3> QED
      BY <3>4
  <2> QED
    BY <2>2, <2>3
<1> HIDE DEF gone
<1>8. /\ Range(buffer) = {buffer[k] : k \in 1 .. Len(buffer)} /\ Len(buffer) \in Nat
      /\ Range(u) = {u[k] : k \in 1 .. Len(u)}
      /\ Range(r) = {r[k] : k \in 1 .. Len(r)}
  BY <1>1, <1>2, <1>3 DEF Range
<1>9. \A k \in 1 .. Len(r) : off + k \in 1 .. Len(u) /\ r[k] = u[off + k]
  BY <1>2, <1>3 DEF EndOf
<1>10. \A k \in 1 .. Len(r) : all + k \in 1 .. Len(buffer) /\ r[k] = buffer[all + k]
  <2>1. Len(u) \in Nat /\ Len(r) \in Nat /\ Len(r) <= Len(u) /\ Len(u) <= Len(buffer)
    BY <1>2, <1>3
  <2>2. all \in Nat /\ all + Len(r) = Len(buffer)
    BY <1>8, <2>1
  <2>3. \A k \in 1 .. Len(r) : r[k] = buffer[all + k]
    BY <1>4 DEF EndOf
  <2> HIDE DEF all
  <2> QED
    BY <1>8, <2>1, <2>2, <2>3
<1>11. Ranked(r)
  <2> SUFFICES ASSUME NEW i \in 1 .. Len(r), NEW j \in 1 .. Len(r), i < j
               PROVE  Place(r[i]) <= Place(r[j])
    BY DEF Ranked
  <2>1. all + i < all + j
    BY <1>2, <1>3, <1>8
  <2> HIDE DEF all
  <2> QED
    BY <1>10, <2>1 DEF Ranked
<1>12. ASSUME NEW k \in 1 .. Len(r) PROVE r[k] \in Range(buffer) /\ r[k].n > last
  <2>1. 1 \in 1 .. Len(r) /\ r[1].ts \notin gone /\ r[1] \in Arrived /\ r[k] \in Arrived
    BY <1>3
  <2>2. r[1] \in Range(u) /\ r[k] \in Range(buffer)
    BY <1>8, <1>9, <1>10, <2>1
  <2>3. r[1].n >= h.n
    BY <1>5, <2>2
  <2>4. ~(r[1].n <= last) /\ r[1].n \in Nat /\ r[k].n \in Nat
    BY <1>1, <1>7, <2>1, <2>3, CopyIs
  <2>5. r[1].n <= r[k].n
    <3>1. k = 1 \/ 1 < k
      OBVIOUS
    <3>2. k = 1 \/ Place(r[1]) <= Place(r[k])
      BY <1>11, <2>1, <3>1 DEF Ranked
    <3> QED
      BY <2>1, <2>4, <3>2, PlaceOrder
  <2> QED
    BY <2>2, <2>4, <2>5
<1>13. ASSUME NEW p \in Range(buffer), p.n > last PROVE p \in Range(r)
  <2>1. p \in Arrived /\ p.n \in Nat /\ h.n \in Nat
    BY <1>1, <1>2, <1>8, CopyIs
  <2>2. p.n >= h.n /\ ~(p.n <= last)
    BY <1>13, <2>1 DEF h
  <2>3. p \in Range(u) /\ p.ts \notin gone
    BY <1>6, <1>7, <2>1, <2>2
  <2>4. PICK k \in 1 .. Len(u) : p = u[k]
    BY <1>8, <2>3
  <2>5. k > off
    BY <1>3, <2>3, <2>4
  <2>6. k - off \in 1 .. Len(r) /\ off + (k - off) = k
    BY <1>2, <1>3, <2>5
  <2> HIDE DEF off
  <2>7. r[k - off] = p
    BY <1>9, <2>4, <2>6
  <2> QED
    BY <1>8, <2>6, <2>7
<1>14. Range(r) = {p \in Range(buffer) : p.n > last}
  <2>1. Range(r) \subseteq {p \in Range(buffer) : p.n > last}
    BY <1>8, <1>12
  <2>2. {p \in Range(buffer) : p.n > last} \subseteq Range(r)
    BY <1>13
  <2> QED
    BY <2>1, <2>2
<1> QED
  BY <1>3, <1>11, <1>14 DEF r

\* Speech lasts a block or more, and two where a decoder makes comfort noise of its own.
LEMMA LastsBlock ==
    ASSUME Typed, Orderly, Framed, NEW p \in Arrived
    PROVE  /\ Duration(p) \in Nat /\ Duration(p) >= Block
           /\ p.pt \in SpeechTypes => p.len \in Nat /\ p.len >= Block /\ p.len > 0
           /\ \A m \in Slots : sent[m].cn /\ sent[m].pt \in SpeechTypes /\ p.pt \in SpeechTypes =>
                 p.len >= 2 * Block /\ Duration(p) >= 2 * Block
<1>1. /\ sent \in Streams /\ OnePace(sent) /\ InTurn(sent) /\ frame \in Paces
      /\ frame \in Nat /\ Block = 2
  BY Limits DEF Orderly, Typed, Types, Framed, Frames
<1>2. \A n \in Slots : sent[n].len \in Nat
  BY <1>1, SlotIs, Limits DEF Slot, Frames
<1>3. \A n \in Slots : sent[n].pt \in SpeechTypes => sent[n].len >= Block
  BY <1>1 DEF InTurn, Slots
<1>4. \A n, m \in Slots : sent[n].pt \in SpeechTypes /\ sent[m].pt \in SpeechTypes
                             => sent[n].len = sent[m].len
  BY <1>1 DEF OnePace, Slots
<1>5. p.n \in Slots /\ p.pt = sent[p.n].pt /\ p.len = sent[p.n].len
  BY <1>1, CopyIs
<1>6. frame = 3 * Block \/ \E n \in Slots : sent[n].pt \in SpeechTypes /\ frame = sent[n].len
  BY <1>1 DEF Paces
<1>7. Duration(p) = frame \/ (p.pt \in SpeechTypes /\ Duration(p) = p.len)
  <2>1. p.pt \in Pts
    BY ArrivedIs, <1>1, AnyPacket
  <2> QED
    BY <2>1 DEF Duration, IsComfortNoise, Pts
<1>8. ASSUME NEW m \in Slots, sent[m].cn, sent[m].pt \in SpeechTypes
      PROVE  /\ frame >= 2 * Block
             /\ p.pt \in SpeechTypes => p.len >= 2 * Block
  <2>1. sent[m].len >= 2 * Block
    BY <1>1, <1>8 DEF InTurn, Slots
  <2> QED
    BY <1>1, <1>4, <1>5, <1>6, <1>8, <2>1
<1>9. frame >= Block /\ (p.pt \in SpeechTypes => p.len \in Nat /\ p.len >= Block)
  BY <1>1, <1>2, <1>3, <1>5, <1>6
<1> QED
  BY <1>1, <1>7, <1>8, <1>9

\* The timestamps of two slots are as far apart as they are.
LEMMA SlotsAway ==
    ASSUME sent \in Streams, InTurn(sent), NEW p \in Arrived, NEW q \in Arrived, p.n < q.n
    PROVE  Ts(q.ts - p.ts) \in Nat /\ Ts(q.ts - p.ts) >= p.len
<1>1. /\ p.n \in Slots /\ q.n \in Slots /\ Start(p) = sent[p.n].at /\ Start(q) = sent[q.n].at
      /\ Start(p) \in Nat /\ Start(q) \in Nat /\ Start(q) < Half /\ p.len = sent[p.n].len
      /\ p.ts = Ts(TsStart + Start(p)) /\ q.ts = Ts(TsStart + Start(q))
  BY CopyIs
<1>2. sent[p.n].at + sent[p.n].len <= sent[q.n].at /\ sent[p.n].at < sent[q.n].at
  BY <1>1, Apart DEF InTurn, Slots
<1>3. PICK u, v \in Nat : /\ u = TsStart + Start(p) /\ v = TsStart + Start(q)
  <2>1. TsStart \in Nat
    BY Limits
  <2> QED
    BY <1>1, <2>1
<1>4. u < v /\ v - u < Half /\ v - u = Start(q) - Start(p)
  <2>1. TsStart \in Nat /\ Half \in Nat
    BY Limits, SpansAssumption DEF Half
  <2> QED
    BY <1>1, <1>2, <1>3, <2>1
<1>5. Ts(Ts(v) - Ts(u)) = v - u
  BY <1>4, HalfCircle DEF Half
<1>6. Ts(q.ts - p.ts) = Start(q) - Start(p)
  BY <1>1, <1>3, <1>4, <1>5
<1>7. sent[p.n].len \in Nat
  BY <1>1, SlotIs, Limits DEF Slot, Frames
<1> QED
  BY <1>1, <1>2, <1>6, <1>7

\* What is taken at once: the slot next to decode, and the one after it where two blocks
\* are wanted and speech is shorter; each as well as it came.
LEMMA ListSlots ==
    ASSUME Typed, Orderly, Ordered, Framed, Ranked(buffer), Useful # <<>>,
           NEW required \in 0 .. (2 * Block), IsComfortNoise(Header) => required <= Block
    PROVE  LET list == Extracted(required)
               final == list[Len(list)]
           IN  /\ list \in Seq(Arrived) /\ list[1] = Header
               /\ Len(list) = 1 \/ (Len(list) = 2 /\ final.n = Header.n + 1)
               /\ required <= Block => Len(list) = 1
               /\ \A m \in Slots : sent[m].cn /\ sent[m].pt \in SpeechTypes => Len(list) = 1
               /\ Header.n \in Nat /\ final.n \in Nat
               /\ final \in Range(buffer)
               /\ \A p \in Range(buffer) : p.n = final.n => RankOf(final) <= RankOf(p)
               /\ Rest(list) \in Seq(Arrived) /\ Ranked(Rest(list))
               /\ Range(Rest(list)) = {p \in Range(buffer) : p.n > final.n}
<1> DEFINE list == Extracted(required)
           n == Len(list)
           final == list[n]
<1>1. /\ Types /\ sent \in Streams /\ InTurn(sent) /\ buffer \in Seq(Arrived) /\ frame \in Frames
      /\ Arrived \subseteq Packets /\ Block = 2
  BY DEF Typed, Types, Orderly, Arrived, Block
<1>2. /\ list \in Seq(Arrived) /\ n \in Nat /\ n >= 1 /\ list[1] = Header
      /\ \A k \in 1 .. n : list[k].pt = Header.pt
      /\ Duration(Header) >= required => n = 1
      /\ \A k \in 1 .. (n - 1) : GoesOnWith(list, required, k)
  <2>1. n \in 1 .. Len(buffer) /\ Len(buffer) \in Nat
    BY <1>1, ExtractedIs
  <2> QED
    BY <1>1, <2>1, ExtractedIs
<1> HIDE DEF list
<1>3. Header \in Arrived /\ Header.n \in Nat
  BY <1>1, HeaderIs, CopyIs
<1> DEFINE h == Header
<1>4. /\ h \in Arrived /\ list[1] = h /\ Duration(h) \in Nat /\ Duration(h) >= Block
      /\ h.pt \in SpeechTypes => h.len \in Nat /\ h.len >= Block
      /\ \A m \in Slots : sent[m].cn /\ sent[m].pt \in SpeechTypes /\ h.pt \in SpeechTypes =>
                 Duration(h) >= 2 * Block
  BY <1>2, <1>3, LastsBlock
<1>5. h.pt \in SpeechTypes \/ IsComfortNoise(h)
  <2>1. h.pt \in Pts
    BY <1>1, <1>3, AnyPacket
  <2> QED
    BY <2>1 DEF IsComfortNoise, Pts
<1>6. (required <= Block => n = 1) /\ (IsComfortNoise(h) => n = 1)
  <2> HIDE DEF h
  <2>1. required <= Block => Duration(h) >= required
    BY <1>1, <1>4
  <2> QED
    BY <1>2, <2>1 DEF h
<1>7. \A m \in Slots : sent[m].cn /\ sent[m].pt \in SpeechTypes => n = 1
  <2> SUFFICES ASSUME NEW m \in Slots, sent[m].cn, sent[m].pt \in SpeechTypes, n # 1 PROVE FALSE
    OBVIOUS
  <2>1. h.pt \in SpeechTypes
    BY <1>5, <1>6
  <2>2. Duration(h) >= 2 * Block
    BY <1>4, <2>1
  <2> HIDE DEF h
  <2>3. Duration(h) >= required
    BY <1>1, <1>4, <2>2
  <2> QED
    BY <1>2, <2>3 DEF h
<1>8. \A k \in 1 .. (n - 1) : /\ list[k] \in Arrived /\ list[k + 1] \in Arrived
                             /\ list[k + 1].n = list[k].n + 1 /\ list[k].n \in Nat
  BY <1>1, <1>2, SlotGoesOn
<1>9. n <= 2
  <2> SUFFICES ASSUME n > 2 PROVE FALSE
    BY <1>2
  <2>1. 1 \in 1 .. (n - 1) /\ 2 \in 1 .. (n - 1)
    BY <1>2
  <2> DEFINE q == list[2]
  <2>2. q \in Arrived /\ q.n = h.n + 1 /\ h.n \in Nat
    BY <1>4, <1>8, <2>1
  <2>3. ~(Ts(q.ts - list[1].ts) + Duration(q) >= required)
    BY <1>2, <2>1 DEF GoesOnWith
  <2>4. ~(Ts(q.ts - h.ts) + Duration(q) >= required)
    BY <1>4, <2>3
  <2>5. h.pt \in SpeechTypes /\ h.len >= Block /\ h.len \in Nat
    BY <1>2, <1>4, <1>5, <1>6
  <2> HIDE DEF q, h
  <2>6. Duration(q) \in Nat /\ Duration(q) >= Block
    BY <2>2, LastsBlock
  <2>7. Ts(q.ts - h.ts) \in Nat /\ Ts(q.ts - h.ts) >= h.len
    BY <1>1, <1>4, <2>2, SlotsAway
  <2> QED
    BY <1>1, <2>4, <2>5, <2>6, <2>7
<1>10. n = 1 \/ (n = 2 /\ final.n = h.n + 1 /\ final = list[2] /\ final \in Arrived)
  <2>1. n = 1 \/ n = 2
    <3>1. n \in Nat /\ n >= 1 /\ n <= 2
      BY <1>2, <1>9
    <3> HIDE DEF n
    <3> QED
      BY <3>1
  <2>2. CASE n = 2
    <3>1. 1 \in 1 .. (n - 1) /\ 1 + 1 = 2
      BY <2>2
    <3>2. list[1 + 1] \in Arrived /\ list[1 + 1].n = list[1].n + 1
      BY <1>8, <3>1
    <3>3. final = list[2]
      BY <2>2
    <3> QED
      BY <1>4, <2>2, <3>1, <3>2, <3>3
  <2> QED
    BY <2>1, <2>2
<1>11. n = 1 => final = h
  BY <1>4
<1>12. /\ final \in Range(buffer)
       /\ \A p \in Range(buffer) : p.n = final.n => RankOf(final) <= RankOf(p)
  <2>1. CASE n = 1
    <3>1. /\ Header \in Range(buffer)
          /\ \A p \in Range(buffer) : p.n = Header.n => RankOf(Header) <= RankOf(p)
      BY <1>1, BestNext
    <3> QED
      BY <1>11, <2>1, <3>1
  <2>2. CASE n = 2
    <3>1. 1 \in 1 .. (n - 1) /\ 1 + 1 = 2
      BY <2>2
    <3>2. GoesOnWith(list, required, 1)
      BY <1>2, <3>1
    <3>3. /\ list[1 + 1] \in Range(buffer)
          /\ \A p \in Range(buffer) :
                p.n = list[1 + 1].n => RankOf(list[1 + 1]) <= RankOf(p)
      BY <1>1, <3>2, BestGoesOn
    <3> QED
      BY <2>2, <3>1, <3>3
  <2> QED
    BY <1>10, <2>1, <2>2
<1>13. /\ final \in Arrived /\ h.n \in Nat /\ final.n \in Nat /\ h.n <= final.n
       /\ \A q \in Range(list) : q \in Arrived /\ q.n \in h.n .. final.n
       /\ \A m \in h.n .. final.n : \E q \in Range(list) : q.n = m
  <2>1. Range(list) = {list[k] : k \in 1 .. n}
    BY <1>2 DEF Range
  <2>2. CASE n = 1
    <3>1. Range(list) = {h} /\ final = h
      BY <1>4, <2>1, <2>2
    <3> HIDE DEF h, final
    <3> QED
      BY <1>3, <1>4, <3>1 DEF h
  <2>3. CASE n = 2
    <3>1. final = list[2] /\ final.n = h.n + 1 /\ Range(list) = {h, final} /\ final \in Arrived
      <4>1. 1 .. n = {1, 2}
        BY <2>3
      <4>2. Range(list) = {list[1], list[2]}
        BY <2>1, <4>1
      <4> HIDE DEF h, final
      <4> QED
        BY <1>4, <1>10, <2>3, <4>2
    <3> HIDE DEF h, final
    <3> QED
      BY <1>3, <1>4, <3>1 DEF h
  <2> QED
    BY <1>10, <2>2, <2>3
<1> HIDE DEF final
<1>14. /\ Rest(list) \in Seq(Arrived) /\ Ranked(Rest(list))
       /\ Range(Rest(list)) = {p \in Range(buffer) : p.n > final.n}
  BY <1>1, <1>13, RestSlots
<1> QED
  BY <1>2, <1>6, <1>7, <1>10, <1>12, <1>13, <1>14 DEF list, final

-----------------------------------------------------------------------------
(* Where the end is, by slots.                                               *)

Kind(p) == [n |-> p.n, kind |-> KindOf(p)]

LEMMA KindIs ==
    ASSUME Orderly, NEW p \in Voiced
    PROVE  /\ p \in Arrived /\ KindOf(p) \in {"network", "noise", "silence", "copy"}
           /\ Jitter!Rank[KindOf(p)] = RankOf(p)
           /\ IsComfortNoise(p) => KindOf(p) = "noise"
           /\ ~p.sync /\ p.cn => KindOf(p) = "noise" /\ p.n \in Slots /\ sent[p.n].cn
           /\ ~IsComfortNoise(p) /\ ~p.cn => KindOf(p) # "noise"
           /\ p.sync => KindOf(p) = "silence" /\ ~p.cn /\ ~IsComfortNoise(p)
           /\ p.primary <=> KindOf(p) # "copy"
<1>1. /\ sent \in Streams /\ OnePace(sent) /\ InTurn(sent) /\ p \in Arrived /\ Came(p)
      /\ p.sync => p.pt \in SpeechTypes
  BY DEF Orderly, Voiced, Arrived
<1>2. /\ p.n \in Slots /\ p.n \in Nat /\ p.primary \in BOOLEAN /\ p.sync \in BOOLEAN
      /\ ~p.primary => ~p.sync /\ sent[p.n + 1].fec /\ p.n + 1 \in Slots /\ p = FecOf(p.n + 1)
      /\ p.pt = sent[p.n].pt
  BY <1>1, CopyIs
<1>3. SpeechTypes \cap NoiseTypes = {}
  BY TypesAssumption
<1>4. ~p.primary => ~IsComfortNoise(p) /\ ~p.cn
  <2> SUFFICES ASSUME ~p.primary PROVE ~IsComfortNoise(p) /\ ~p.cn
    OBVIOUS
  <2> DEFINE m == p.n + 1
  <2>1. m \in Slots /\ sent[m].fec /\ p = FecOf(m)
    BY <1>2
  <2> HIDE DEF m
  <2>2. p.pt = sent[m].pt /\ p.cn = sent[m].cn
    BY <2>1 DEF FecOf, PacketOf
  <2>3. sent[m].pt \in SpeechTypes /\ ~sent[m].cn
    BY <1>1, <2>1 DEF OnePace, InTurn, Slots
  <2> QED
    BY <1>3, <2>2, <2>3 DEF IsComfortNoise
<1>5. p.sync => ~p.cn /\ ~IsComfortNoise(p)
  <2> SUFFICES ASSUME p.sync PROVE ~p.cn /\ ~IsComfortNoise(p)
    OBVIOUS
  <2>1. \A n \in Slots : PacketOf(n).sync = FALSE /\ FecOf(n).sync = FALSE /\ SyncOf(n).cn = FALSE
    BY DEF PacketOf, FecOf, SyncOf
  <2>2. PICK n \in Slots : p = PacketOf(n) \/ p = SyncOf(n) \/ p = FecOf(n)
    BY <1>1 DEF Came
  <2>3. p = SyncOf(n)
    BY <2>1, <2>2
  <2> QED
    BY <1>1, <1>3, <2>1, <2>3 DEF IsComfortNoise
<1>6. ~p.sync /\ p.primary => p.cn = sent[p.n].cn
  <2>1. \A n \in Slots : /\ PacketOf(n).cn = sent[n].cn /\ PacketOf(n).n = n
                         /\ FecOf(n).primary = FALSE /\ SyncOf(n).sync = TRUE
    BY DEF PacketOf, FecOf, SyncOf
  <2>2. PICK n \in Slots : p = PacketOf(n) \/ p = SyncOf(n) \/ p = FecOf(n)
    BY <1>1 DEF Came
  <2> QED
    BY <2>1, <2>2
<1>7. KindOf(p) = IF p.sync THEN "silence" ELSE IF ~p.primary THEN "copy"
                  ELSE IF IsComfortNoise(p) \/ p.cn THEN "noise" ELSE "network"
  BY DEF KindOf
<1>8. /\ Jitter!Rank["network"] = 0 /\ Jitter!Rank["noise"] = 0 /\ Jitter!Rank["silence"] = 1
      /\ Jitter!Rank["copy"] = 2
  BY DEF Jitter!Rank
<1> QED
  BY <1>1, <1>2, <1>4, <1>5, <1>6, <1>7, <1>8 DEF RankOf

\* The end is at e, of which the packet taken last is the cause: no slot before it but those
\* before that packet, and few after one that led it astray; all of those, but where it was
\* played out of its place; and that one itself, if it is speech.
Stray == {"astray", "unsettled", "silence"}
Covers(e, t) ==
    /\ \A m \in Slots : sent[m].at < e => m <= t.n \/ (t.kind \in Stray /\ m <= t.n + 3 * Block)
    /\ t.kind # "unsettled" => \A m \in Slots : m < t.n => sent[m].at < e
    /\ t.kind \notin {"noise", "astray", "unsettled"} => sent[t.n].at < e
EndAt(e) == e \in Nat /\ e < Half /\ sync.end = Ts(TsStart + e)
InPlace ==
    /\ taken = NoPacket <=> codec.first \/ codec.new
    /\ taken # NoPacket => taken.n \in Slots /\ \E e \in Nat : EndAt(e) /\ Covers(e, taken)

LEMMA StillInPlace ==
    ASSUME InPlace, sent' = sent, taken' = taken, sync'.end = sync.end,
           codec'.first = codec.first, codec'.new = codec.new
    PROVE  InPlace'
BY DEF InPlace, EndAt, Covers, Slots

\* A packet is old if its slot is before the end.
LEMMA OldIs ==
    ASSUME sent \in Streams, InTurn(sent), NEW p \in Arrived, NEW e \in Nat, EndAt(e)
    PROVE  Old(p.ts, sync.end) <=> sent[p.n].at < e
<1>1. /\ p.n \in Slots /\ Start(p) = sent[p.n].at /\ Start(p) \in Nat /\ Start(p) < Half
      /\ p.ts = Ts(TsStart + Start(p))
  BY CopyIs
<1>2. e < Half /\ sync.end = Ts(TsStart + e) /\ TsStart \in Nat /\ Half \in Nat
  BY Limits, SpansAssumption DEF EndAt, Half
<1>3. PICK u, v \in Nat : u = TsStart + Start(p) /\ v = TsStart + e
  BY <1>1, <1>2
<1>4. p.ts = Ts(u) /\ sync.end = Ts(v)
  BY <1>1, <1>2, <1>3
<1>5. CASE Start(p) < e
  <2>1. u < v /\ v - u < Half
    BY <1>1, <1>2, <1>3, <1>5
  <2>2. Ts(Ts(v) - Ts(u)) = v - u /\ Ts(u) # Ts(v)
    BY <2>1, HalfCircle DEF Half
  <2> QED
    BY <1>1, <1>4, <1>5, <2>1, <2>2 DEF Old, Half
<1>6. CASE e < Start(p)
  <2>1. v < u /\ u - v < Half
    BY <1>1, <1>2, <1>3, <1>6
  <2>2. Ts(Ts(v) - Ts(u)) = TsSpan - (u - v) /\ TsSpan - (u - v) >= Half
    BY <2>1, HalfCircle DEF Half
  <2>3. ~(Ts(sync.end - p.ts) < Half)
    <3>1. TsSpan \in Nat
      BY SpansAssumption
    <3> QED
      BY <1>2, <1>3, <1>4, <2>1, <2>2, <3>1
  <2> QED
    BY <1>1, <1>6, <2>3 DEF Old, Half
<1>7. CASE e = Start(p)
  <2>1. p.ts = sync.end
    BY <1>1, <1>2, <1>7
  <2> QED
    BY <1>1, <1>7, <2>1 DEF Old
<1> QED
  BY <1>1, <1>5, <1>6, <1>7

\* What goes without being taken came too late, or is comfort noise.
LEMMA UselessGoes ==
    ASSUME Orderly, InPlace, ~codec.first, NEW p \in Voiced, Useless(p)
    PROVE  Jitter!Droppable(Kind(p))
<1>1. sent \in Streams /\ InTurn(sent) /\ p \in Arrived /\ p.n \in Slots
  BY CopyIs DEF Orderly, Voiced
<1>2. CASE ~codec.new /\ Old(p.ts, sync.end)
  <2>1. taken # NoPacket
    BY <1>2 DEF InPlace
  <2>2. PICK e \in Nat : EndAt(e) /\ Covers(e, taken)
    BY <2>1 DEF InPlace
  <2>3. sent[p.n].at < e
    BY <1>1, <1>2, <2>2, OldIs
  <2>4. p.n <= taken.n \/ (taken.kind \in Stray /\ p.n <= taken.n + 3 * Block)
    BY <1>1, <2>2, <2>3 DEF Covers
  <2> QED
    BY <2>4 DEF Jitter!Droppable, Kind, Stray
<1>3. CASE IsComfortNoise(p)
  <2>1. KindOf(p) = "noise"
    BY <1>3, KindIs
  <2> QED
    BY <2>1 DEF Jitter!Droppable, Kind
<1> QED
  BY <1>2, <1>3 DEF Useless

\* What is next to decode comes after what was taken last, unless that was comfort noise,
\* or led the end astray.
LEMMA HeaderNext ==
    ASSUME Types, Orderly, InPlace, ~codec.first, Useful # <<>>
    PROVE  /\ \/ Header.n > taken.n
              \/ Header.n = taken.n /\ taken.kind \in {"noise", "astray"}
              \/ taken.kind = "unsettled"
           /\ ~codec.new => \E e \in Nat : EndAt(e) /\ e <= sent[Header.n].at
<1> DEFINE h == Header
<1>1. /\ sent \in Streams /\ InTurn(sent) /\ h \in Arrived /\ ~Useless(h)
  BY UsefulIs DEF Types, Orderly
<1> HIDE DEF h
<1>2. h.n \in Slots /\ h.n \in Nat /\ sent[h.n].at \in Nat
  BY <1>1, CopyIs, Apart
<1>3. CASE codec.new
  <2>1. taken = NoPacket
    BY <1>3 DEF InPlace
  <2>2. taken.n = -1
    BY <2>1 DEF NoPacket
  <2> QED
    BY <1>2, <1>3, <2>2 DEF h
<1>4. CASE ~codec.new
  <2>1. taken # NoPacket
    BY <1>4 DEF InPlace
  <2>2. PICK e \in Nat : EndAt(e) /\ Covers(e, taken) /\ taken.n \in Slots
    BY <2>1 DEF InPlace
  <2>3. ~(sent[h.n].at < e)
    BY <1>1, <1>4, <2>2, OldIs DEF Useless
  <2>4. taken.n \in Nat
    BY <1>1, <2>2, Apart
  <2>5. CASE taken.kind # "unsettled"
    <3>1. ~(h.n < taken.n)
      BY <1>2, <2>2, <2>3, <2>5 DEF Covers
    <3>2. h.n = taken.n => taken.kind \in {"noise", "astray"}
      BY <2>2, <2>3, <2>5 DEF Covers
    <3> QED
      BY <1>2, <1>4, <2>2, <2>3, <2>4, <3>1, <3>2 DEF h
  <2>6. CASE taken.kind = "unsettled"
    BY <1>2, <1>4, <2>2, <2>3, <2>6 DEF h
  <2> QED
    BY <2>5, <2>6
<1> QED
  BY <1>3, <1>4

-----------------------------------------------------------------------------
(* Steps, as a jitter buffer's.                                              *)

Copies(b) == {Kind(p) : p \in Range(b)}
JitterStep == Jitter!Next \/ (Copies(buffer') = Copies(buffer) /\ taken' = taken)

\* What holds before a step of the jitter buffer and after it, said by Copies.
LEMMA CopiesHeld ==
    /\ {[n |-> p.n, kind |-> KindOf(p)] : p \in Range(buffer)} = Copies(buffer)
    /\ {[n |-> p.n, kind |-> KindOf(p)] : p \in Range(buffer)}' = Copies(buffer')
<1>1. {[n |-> p.n, kind |-> KindOf(p)] : p \in Range(buffer)} = Copies(buffer)
  BY DEF Copies, Kind
<1>2. {[n |-> p.n, kind |-> KindOf(p)] : p \in Range(buffer)}' = Copies(buffer')
  BY DEF Copies, Kind, Range, KindOf, IsComfortNoise
<1> QED
  BY <1>1, <1>2

\* What an arrival adds is a packet and, it may be, the copy in front of it.
LEMMA ArrivalInserts ==
    ASSUME sent \in Streams, NEW n \in Slots, NEW list, list = ListOf(n) \/ list = <<SyncOf(n)>>,
           Range(buffer') = Range(buffer) \cup Range(list), taken' = taken
    PROVE  JitterStep
<1> DEFINE old == Copies(buffer)
           new == Copies(buffer')
<1>1. PICK main : /\ \A p \in Range(list) : p = main \/ KindOf(p) = "copy"
  <2>1. CASE list = <<SyncOf(n)>>
    <3>1. \A p \in Range(list) : p = SyncOf(n)
      BY <2>1 DEF Range
    <3> QED
      BY <3>1
  <2>2. CASE list = ListOf(n)
    <3>1. \A p \in Range(list) : p = PacketOf(n) \/ p = FecOf(n)
      BY <2>2 DEF Range, ListOf
    <3>2. KindOf(FecOf(n)) = "copy"
      <4>1. FecOf(n).sync = FALSE /\ FecOf(n).primary = FALSE
        BY DEF FecOf, PacketOf
      <4> QED
        BY <4>1 DEF KindOf
    <3> QED
      BY <3>1, <3>2
  <2> QED
    BY <2>1, <2>2
<1>2. old \subseteq new
  BY DEF Copies
<1>3. \A c \in new \ old : c.kind = "copy" \/ c = Kind(main)
  <2> SUFFICES ASSUME NEW c \in new \ old PROVE c.kind = "copy" \/ c = Kind(main)
    OBVIOUS
  <2>1. PICK p \in Range(buffer') : c = Kind(p)
    BY DEF Copies
  <2>2. p \in Range(list)
    BY <2>1 DEF Copies
  <2> QED
    BY <1>1, <2>1, <2>2 DEF Kind
<1>4. CASE new = old
  BY <1>4 DEF JitterStep
<1>5. CASE new # old
  <2>1. \A c \in new \ old : c.kind = "copy" \/ \A d \in new \ old : d = c \/ d.kind = "copy"
    BY <1>3
  <2> HIDE DEF old, new
  <2>2. Jitter!Insert
    BY <1>2, <1>5, <2>1, CopiesHeld DEF Jitter!Insert, Jitter!Packet, old, new
  <2> QED
    BY <2>2 DEF Jitter!Next, JitterStep
<1> QED
  BY <1>4, <1>5

\* After a flush, what arrived is all there is.
LEMMA ArrivalRestarts ==
    ASSUME sent \in Streams, InTurn(sent), NEW n \in Slots,
           NEW list, list = ListOf(n) \/ list = <<SyncOf(n)>> \/ list = <<>>,
           Range(buffer') \subseteq Range(list), taken' = NoPacket
    PROVE  JitterStep
<1>1. n \in Nat
  BY Apart
<1>2. \A p \in Range(list) : p.n = n \/ p.n = n - 1
  <2>1. FecOf(n).n = n - 1 /\ PacketOf(n).n = n /\ SyncOf(n).n = n
    BY DEF FecOf, PacketOf, SyncOf
  <2>2. \A p \in Range(list) : p = PacketOf(n) \/ p = FecOf(n) \/ p = SyncOf(n)
    BY DEF Range, ListOf
  <2> QED
    BY <2>1, <2>2
<1>3. \A c \in Copies(buffer') : c.n = n \/ c.n = n - 1
  BY <1>2 DEF Copies, Kind
<1>4. \A c, d \in Copies(buffer') : c.n - d.n \in -1 .. 1
  BY <1>1, <1>3
<1>5. taken' = Jitter!NoCopy
  BY DEF NoPacket, Jitter!NoCopy
<1>6. Jitter!Restart
  BY <1>4, <1>5, CopiesHeld DEF Jitter!Restart
<1> QED
  BY <1>6 DEF Jitter!Next, JitterStep

\* Packets that leave the front of the buffer are dropped.
LEMMA FrontDrops ==
    ASSUME Types, Orderly, InPlace, Empty, Ranked(buffer), Range(buffer) \subseteq Voiced,
           buffer' = Useful, taken' = taken
    PROVE  JitterStep
<1> DEFINE old == Copies(buffer)
           new == Copies(buffer')
<1>1. /\ Range(Useful) \subseteq Range(buffer)
      /\ \A p \in Range(buffer) : p \notin Range(Useful) => Useless(p)
  BY BestNext
<1>2. new \subseteq old
  BY <1>1 DEF Copies
<1>3. ASSUME NEW c \in old \ new PROVE Jitter!Droppable(c)
  <2>1. PICK p \in Range(buffer) : c = Kind(p)
    BY DEF Copies
  <2>2. p \notin Range(Useful)
    BY <1>3, <2>1 DEF Copies
  <2>3. ~codec.first
    BY <2>1 DEF Empty, Range
  <2> QED
    BY <1>1, <2>1, <2>2, <2>3, UselessGoes
<1>4. CASE new = old
  BY <1>4 DEF JitterStep
<1>5. CASE new # old
  <2> HIDE DEF old, new
  <2>1. Jitter!Drop
    BY <1>2, <1>3, <1>5, CopiesHeld DEF Jitter!Drop, old, new
  <2> QED
    BY <2>1 DEF Jitter!Next, JitterStep
<1> QED
  BY <1>4, <1>5

\* Decoding takes the slots that the first and the last packet extracted are of.
LEMMA DecodingTakes ==
    ASSUME Typed, Orderly, Ordered, Framed, InPlace, Empty, Ranked(buffer),
           Range(buffer) \subseteq Voiced, Useful # <<>>,
           NEW required \in 0 .. (2 * Block), IsComfortNoise(Header) => required <= Block,
           NEW list, list = Extracted(required), NEW final, final = list[Len(list)],
           buffer' = Rest(list), taken'.n = final.n,
           taken'.kind \in {KindOf(final), "astray", "unsettled"}
    PROVE  JitterStep
<1> DEFINE h == Header
           first == Kind(h)
           last == Kind(final)
           old == Copies(buffer)
           new == Copies(buffer')
<1>1. Types
  BY DEF Typed
<1>2. /\ Len(list) = 1 \/ (Len(list) = 2 /\ final.n = h.n + 1)
      /\ list[1] = h /\ h.n \in Nat /\ final.n \in Nat /\ final \in Range(buffer)
      /\ \A p \in Range(buffer) : p.n = final.n => RankOf(final) <= RankOf(p)
      /\ Range(buffer') = {p \in Range(buffer) : p.n > final.n}
  BY ListSlots
<1>3. /\ h \in Range(buffer)
      /\ \A p \in Range(buffer) : /\ p.n < h.n => Useless(p)
                                  /\ p.n >= h.n => p \in Range(Useful)
                                  /\ p.n = h.n => RankOf(h) <= RankOf(p)
  BY <1>1, BestNext
<1>4. ~codec.first
  BY <1>3 DEF Empty, Range
<1>5. \/ h.n > taken.n
      \/ h.n = taken.n /\ taken.kind \in {"noise", "astray"}
      \/ taken.kind = "unsettled"
  BY <1>1, <1>4, HeaderNext
<1> HIDE DEF h
<1>6. ASSUME NEW p \in Range(buffer)
      PROVE  /\ Jitter!Rank[Kind(p).kind] = RankOf(p) /\ Kind(p).n = p.n /\ Kind(p) \in old
             /\ Kind(p).kind = KindOf(p)
  <2>1. p \in Voiced
    OBVIOUS
  <2> QED
    BY <2>1, KindIs DEF Kind, Copies
<1>7. ASSUME NEW c \in old PROVE \E p \in Range(buffer) : c = Kind(p)
  BY DEF Copies
<1>8. \A c \in old : /\ c.n = first.n => Jitter!Rank[first.kind] <= Jitter!Rank[c.kind]
                     /\ c.n = last.n => Jitter!Rank[last.kind] <= Jitter!Rank[c.kind]
  <2> SUFFICES ASSUME NEW c \in old
               PROVE /\ c.n = first.n => Jitter!Rank[first.kind] <= Jitter!Rank[c.kind]
                     /\ c.n = last.n => Jitter!Rank[last.kind] <= Jitter!Rank[c.kind]
    OBVIOUS
  <2>1. PICK p \in Range(buffer) : c = Kind(p)
    BY <1>7
  <2>2. /\ Jitter!Rank[c.kind] = RankOf(p) /\ c.n = p.n
        /\ Jitter!Rank[first.kind] = RankOf(h) /\ first.n = h.n
        /\ Jitter!Rank[last.kind] = RankOf(final) /\ last.n = final.n
    BY <1>2, <1>3, <1>6, <2>1
  <2> HIDE DEF first, last
  <2> QED
    BY <1>2, <1>3, <2>1, <2>2
<1>9. first.n = h.n /\ last.n = final.n /\ first \in old /\ last \in old
  BY <1>2, <1>3, <1>6
<1>10. final.n = h.n \/ final.n = h.n + 1
  BY <1>2
<1>11. first.n .. last.n \subseteq {c.n : c \in old} /\ first.n <= last.n
  <2>1. h.n \in {c.n : c \in old} /\ final.n \in {c.n : c \in old}
    BY <1>9
  <2>2. \A m \in h.n .. final.n : m = h.n \/ m = final.n
    BY <1>2, <1>10
  <2> HIDE DEF old, first, last
  <2> QED
    BY <1>2, <1>9, <1>10, <2>1, <2>2
<1>12. ASSUME NEW c \in old, c.n < first.n PROVE Jitter!Droppable(c)
  <2>1. PICK p \in Range(buffer) : c = Kind(p)
    BY <1>7
  <2>2. p.n < h.n
    BY <1>6, <1>9, <1>12, <2>1
  <2> QED
    BY <1>3, <1>4, <2>1, <2>2, UselessGoes
<1>13. new = {c \in old : c.n > last.n}
  <2>1. ASSUME NEW c \in new PROVE c \in old /\ c.n > last.n
    <3>1. PICK p \in Range(buffer') : c = Kind(p)
      BY DEF Copies
    <3> QED
      BY <1>2, <1>6, <1>9, <3>1
  <2>2. ASSUME NEW c \in old, c.n > last.n PROVE c \in new
    <3>1. PICK p \in Range(buffer) : c = Kind(p)
      BY <1>7
    <3>2. p \in Range(buffer')
      BY <1>2, <1>6, <1>9, <2>2, <3>1
    <3> QED
      BY <3>1, <3>2 DEF Copies
  <2> QED
    BY <2>1, <2>2
<1>14. last.kind = KindOf(final)
  BY DEF Kind
<1> HIDE DEF old, new, first, last
<1>15. Jitter!Take(first, last)
  <2>1. \/ first.n > taken.n
        \/ first.n = taken.n /\ taken.kind \in {"noise", "astray"}
        \/ taken.kind = "unsettled"
    BY <1>5, <1>9
  <2>2. taken'.n = last.n /\ taken'.kind \in {last.kind, "astray", "unsettled"}
    BY <1>9, <1>14
  <2> QED
    BY <1>8, <1>11, <1>12, <1>13, <2>1, <2>2, CopiesHeld DEF Jitter!Take, Jitter!Best, old, new
<1>16. first \in old /\ last \in old /\ first.n <= last.n
  BY <1>9, <1>11
<1> QED
  BY <1>15, <1>16, CopiesHeld DEF Jitter!Next, JitterStep, old

-----------------------------------------------------------------------------
(* Where decoding leaves the end.                                            *)

\* The end is in its place when it is where the last slot taken ends, or near it.
LEMMA Lands ==
    ASSUME Orderly, NEW h \in Slots, NEW f \in Slots, f = h \/ f = h + 1, NEW e \in Nat, e < Half,
           sync'.end = Ts(TsStart + e), sent' = sent, taken'.n = f, ~codec'.first, ~codec'.new,
           \/ e <= sent[f].at + sent[f].len
           \/ taken'.kind \in Stray /\ e <= sent[f].at + 3 * Block,
           \/ taken'.kind = "unsettled"
           \/ taken'.kind \in {"noise", "astray"} /\ e >= sent[f].at
           \/ taken'.kind = "astray" /\ e > sent[h].at
           \/ e > sent[f].at
    PROVE  InPlace'
<1>1. sent \in Streams /\ InTurn(sent) /\ Block = 2
  BY Limits DEF Orderly
<1>2. /\ \A m \in Slots : m \in Nat /\ sent[m].at \in Nat
      /\ \A m \in Slots, n \in Slots :
            n < m => sent[n].at + sent[n].len <= sent[m].at /\ sent[n].at + (m - n) <= sent[m].at
      /\ sent[f].len \in Nat
  <2>1. sent[f].len \in Nat
    BY <1>1, SlotIs, Limits DEF Slot, Frames
  <2> QED
    BY <1>1, <2>1, Apart DEF InTurn, Slots
<1>3. \A m \in Slots : sent[m].at < e => m <= f \/ (taken'.kind \in Stray /\ m <= f + 3 * Block)
  <2> SUFFICES ASSUME NEW m \in Slots, sent[m].at < e, ~(m <= f)
               PROVE  taken'.kind \in Stray /\ m <= f + 3 * Block
    OBVIOUS
  <2>1. f < m /\ sent[f].at + sent[f].len <= sent[m].at /\ sent[f].at + (m - f) <= sent[m].at
    BY <1>2
  <2>2. sent[f].at \in Nat /\ sent[m].at \in Nat /\ f \in Nat /\ m \in Nat
    BY <1>2
  <2> QED
    BY <1>1, <1>2, <2>1, <2>2
<1>4. taken'.kind # "unsettled" => \A m \in Slots : m < f => sent[m].at < e
  <2> SUFFICES ASSUME taken'.kind # "unsettled", NEW m \in Slots, m < f PROVE sent[m].at < e
    OBVIOUS
  <2>1. /\ sent[f].at \in Nat /\ sent[m].at \in Nat /\ f \in Nat /\ m \in Nat
        /\ sent[h].at \in Nat /\ h \in Nat
    BY <1>2
  <2>2. sent[m].at + (f - m) <= sent[f].at /\ (m < h => sent[m].at + (h - m) <= sent[h].at)
    BY <1>2
  <2>3. CASE e >= sent[f].at
    BY <2>1, <2>2, <2>3
  <2>4. CASE e > sent[h].at
    <3>1. m = h \/ m < h
      BY <2>1
    <3> QED
      BY <2>1, <2>2, <2>4, <3>1
  <2> QED
    BY <2>1, <2>3, <2>4
<1>5. taken'.kind \notin {"noise", "astray", "unsettled"} => sent[f].at < e
  OBVIOUS
<1>6. f \in Nat /\ taken' # NoPacket
  BY <1>2 DEF NoPacket
<1>7. Slots' = Slots
  BY DEF Slots
<1>8. EndAt(e)' /\ Covers(e, taken)'
  BY <1>3, <1>4, <1>5, <1>7 DEF EndAt, Covers
<1> QED
  BY <1>6, <1>7, <1>8 DEF InPlace

\* What starts where the stream is at b ends x later.
LEMMA Later ==
    ASSUME NEW b \in Nat, NEW x \in Nat, NEW start, start = Ts(TsStart + b)
    PROVE  Ts(start + x) = Ts(TsStart + (b + x))
<1>1. TsStart \in Nat
  BY Limits
<1>2. PICK u \in Int : u = TsStart + b
  BY <1>1
<1>3. Ts(Ts(u) + x) = Ts(u + x)
  BY TsGoesOn
<1>4. u + x = TsStart + (b + x)
  BY <1>1, <1>2
<1> QED
  BY <1>2, <1>3, <1>4

\* Decoding starts where the first packet does, or no later than it.
LEMMA StartsAt ==
    ASSUME Paced, Orderly, InPlace, Useful # <<>>, NEW d
    PROVE  /\ Header.n \in Slots /\ sent[Header.n].at \in Nat /\ ~codec.first
           /\ Header.ts = Ts(TsStart + sent[Header.n].at)
           /\ \E b \in Nat : /\ b <= sent[Header.n].at /\ Ready(d).start = Ts(TsStart + b)
                             /\ ~Ready(d).astray => b = sent[Header.n].at
<1> DEFINE h == Header
<1>1. Types /\ Typed /\ Empty /\ Formatted /\ sent \in Streams /\ InTurn(sent) /\ OnePace(sent)
  BY DEF Paced, Typed, Orderly
<1>2. h \in Arrived
  BY <1>1, HeaderIs
<1>3. ~codec.first
  <2>1. buffer # <<>>
    BY <1>1, NoneUseful
  <2> QED
    BY <1>1, <2>1 DEF Empty
<1>4. Ready(d).astray \/ Ready(d).start = h.ts
  BY <1>1, ReadyTuned
<1>5. ~codec.new => \E e \in Nat : EndAt(e) /\ e <= sent[h.n].at
  BY <1>1, <1>3, HeaderNext
<1>6. Ready(d).astray => ~codec.new /\ Ready(d).start = sync.end
  BY DEF Ready, Restarting
<1> HIDE DEF h
<1>7. h.n \in Slots /\ h.ts = Ts(TsStart + sent[h.n].at) /\ sent[h.n].at \in Nat
  BY <1>1, <1>2, CopyIs
<1>8. \E b \in Nat : /\ b <= sent[h.n].at /\ Ready(d).start = Ts(TsStart + b)
                     /\ ~Ready(d).astray => b = sent[h.n].at
  <2>1. CASE Ready(d).astray
    <3>1. PICK e \in Nat : EndAt(e) /\ e <= sent[h.n].at
      BY <1>5, <1>6, <2>1
    <3> QED
      BY <1>6, <2>1, <3>1 DEF EndAt
  <2>2. CASE ~Ready(d).astray
    BY <1>4, <1>7, <2>2
  <2> QED
    BY <2>1, <2>2
<1> QED
  BY <1>3, <1>7, <1>8 DEF h

\* Comfort noise is taken as speech only after an error, a block of it.
LEMMA RequiredIs ==
    ASSUME Paced, Orderly, Useful # <<>>, NEW d \in Decisions,
           AfterReset(d) \in {"normal", "merge", "accelerate", "preemptive"}
    PROVE  Required(d) \in 0 .. (2 * Block) /\ (IsComfortNoise(Header) => Required(d) <= Block)
<1>1. Typed /\ Types /\ Empty /\ Formatted /\ OnePace(sent) /\ Block = 2
  BY Limits DEF Paced, Typed, Orderly
<1>2. sync.format.channels = 1
  BY <1>1, Tuned
<1>3. IsComfortNoise(Header) => AfterReset(d) = "normal"
  <2> SUFFICES ASSUME IsComfortNoise(Header) PROVE AfterReset(d) = "normal"
    OBVIOUS
  <2>1. last_mode # "error" => d.op \in {"cng", "cng_no_packet"}
    BY <1>1, DecisionIs
  <2>2. last_mode = "error" => d.op = "undefined"
    BY DEF Decisions, Plain
  <2> QED
    BY <2>1, <2>2 DEF AfterReset, Restarting
<1> HIDE DEF Header
<1> QED
  BY <1>1, <1>2, <1>3 DEF Required, BuildUp, Scaling

\* The packets that are taken, by slots.
LEMMA PlayedSlots ==
    ASSUME Paced, Orderly, Ranked(buffer), Range(buffer) \subseteq Voiced, InPlace,
           Useful # <<>>, NEW d \in Decisions,
           AfterReset(d) \in {"normal", "merge", "accelerate", "preemptive"}
    PROVE  LET list == Taken(d)
               final == list[Len(list)]
           IN  /\ list \in Seq(Voiced) /\ list \in Seq(Arrived) /\ list \in Seq(Packets)
               /\ Len(list) \in 1 .. 2 /\ list[1] = Header
               /\ \A k \in 1 .. Len(list) : list[k].pt = Header.pt
               /\ final.n = Header.n \/ final.n = Header.n + 1
               /\ Len(list) = 1 => final = Header
               /\ IsComfortNoise(Header) => Len(list) = 1
               /\ \A m \in Slots : sent[m].cn /\ sent[m].pt \in SpeechTypes => Len(list) = 1
               /\ final \in Range(buffer) /\ final \in Voiced /\ final.n \in Slots
<1> DEFINE list == Taken(d)
           final == list[Len(list)]
           required == Required(d)
<1>1. Typed /\ Types /\ Ordered /\ Framed /\ Arrived \subseteq Packets /\ buffer \in Seq(Arrived)
  BY DEF Paced, Typed, Types, Arrived
<1>2. required \in 0 .. (2 * Block) /\ (IsComfortNoise(Header) => required <= Block)
  BY RequiredIs
<1>3. /\ list \in Seq(Arrived) /\ Len(list) \in Nat /\ Len(list) >= 1
      /\ \A k \in 1 .. Len(list) : list[k].pt = Header.pt
  <2>1. Extracted(required) \in Seq(Arrived) /\ Len(Extracted(required)) \in Nat
        /\ Len(Extracted(required)) >= 1
        /\ \A k \in 1 .. Len(Extracted(required)) : Extracted(required)[k].pt = Header.pt
    BY <1>1, ListTaken
  <2> HIDE DEF Header
  <2> QED
    BY <2>1 DEF Taken
<1>4. /\ list[1] = Header
      /\ Len(list) = 1 \/ (Len(list) = 2 /\ final.n = Header.n + 1)
      /\ required <= Block => Len(list) = 1
      /\ \A m \in Slots : sent[m].cn /\ sent[m].pt \in SpeechTypes => Len(list) = 1
      /\ final \in Range(buffer)
  <2>1. list = Extracted(required)
    BY DEF Taken
  <2> HIDE DEF list, required
  <2> QED
    BY <1>1, <1>2, <2>1, ListSlots DEF final
<1>5. buffer \in Seq(Voiced)
  <2>1. \A k \in 1 .. Len(buffer) : buffer[k] \in Voiced
    BY <1>1 DEF Range
  <2> QED
    BY <1>1, <2>1
<1>6. list \in Seq(Voiced)
  <2>1. Voiced \subseteq Packets
    BY DEF Voiced, Arrived
  <2>2. frame \in Frames
    BY <1>1 DEF Types
  <2>3. Extracted(required) \in Seq(Voiced)
    BY <1>5, <2>1, <2>2, ExtractedIs
  <2> QED
    BY <2>3 DEF Taken
<1> HIDE DEF list
<1>7. list \in Seq(Packets)
  BY <1>1, <1>3
<1>8. final \in Voiced /\ final.n \in Slots
  <2>1. final \in Voiced
    BY <1>4
  <2>2. final \in Arrived
    BY <2>1 DEF Voiced
  <2> HIDE DEF final
  <2> QED
    BY <2>1, <2>2, CopyIs DEF Orderly
<1>9. Len(list) = 1 => final = Header
  BY <1>4
<1>10. final.n = Header.n \/ final.n = Header.n + 1
  <2> HIDE DEF final, Header
  <2> QED
    BY <1>4, <1>9
<1> HIDE DEF Header, required, final
<1>11. Len(list) \in 1 .. 2 /\ (IsComfortNoise(Header) => Len(list) = 1)
  BY <1>2, <1>4
<1> QED
  BY <1>3, <1>4, <1>6, <1>7, <1>8, <1>9, <1>10, <1>11 DEF list, final

\* The place after which a decoder's word on comfort noise is taken.
LastReal(list) ==
    LET real == {k \in DOMAIN list : ~list[k].sync}
    IN  real # {} /\ list[Max(real)].cn

\* Speech that its decoder calls comfort noise comes alone.
LEMMA NoiseAlone ==
    ASSUME Orderly, NEW list \in Seq(Voiced), Len(list) \in 1 .. 2, NEW pt \in SpeechTypes,
           \A k \in 1 .. Len(list) : list[k].pt = pt,
           \A m \in Slots : sent[m].cn /\ sent[m].pt \in SpeechTypes => Len(list) = 1,
           LastReal(list)
    PROVE  Len(list) = 1 /\ KindOf(list[1]) = "noise"
<1> DEFINE real == {k \in DOMAIN list : ~list[k].sync}
           top == Max(real)
<1>1. real \subseteq 0 .. 2 /\ real # {} /\ 2 \in Nat /\ list[top].cn
  BY DEF LastReal
<1>2. top \in real
  <2> HIDE DEF real
  <2> QED
    BY <1>1, MaxOf
<1>3. PICK k \in 1 .. Len(list) : k = top /\ ~list[k].sync /\ list[k].cn
  <2>1. top \in DOMAIN list /\ ~list[top].sync
    BY <1>2
  <2>2. DOMAIN list = 1 .. Len(list)
    OBVIOUS
  <2> HIDE DEF top
  <2> QED
    BY <1>1, <2>1, <2>2
<1>4. list[k] \in Voiced /\ list[k].pt = pt
  BY <1>3
<1>5. /\ KindOf(list[k]) = "noise" /\ list[k].n \in Slots /\ sent[list[k].n].cn
      /\ list[k] \in Arrived
  BY <1>3, <1>4, KindIs
<1>6. sent[list[k].n].pt = pt
  BY <1>4, <1>5, CopyIs DEF Orderly
<1>7. Len(list) = 1
  BY <1>5, <1>6
<1>8. k = 1
  BY <1>7
<1> QED
  BY <1>5, <1>7, <1>8

\* Packets of speech that start at `at`, one where the one before ends, silence standing for
\* a frame.
Consecutive(list, last, L, at) ==
    /\ list \in Seq(Packets) /\ Len(list) >= 1 /\ last \in Frames /\ L \in Frames /\ L > 0
    /\ last = L \/ ~list[1].sync
    /\ \A k \in 1 .. Len(list) : list[k].sync \/ list[k].len = L
    /\ \A k \in 1 .. Len(list) : at[k] \in Nat
    /\ \A k \in 1 .. (Len(list) - 1) : at[k + 1] = at[k] + L

LEMMA DecodesInTurn ==
    ASSUME NEW list, NEW last, NEW L, NEW at, Consecutive(list, last, L, at)
    PROVE  at[1] + DecodeLoop(list, last, 1).len = at[Len(list)] + L
BY DecodesToEnd DEF Consecutive

\* Decoded speech ends where its last packet does, counted from where it started; but silence
\* may be longer.
LEMMA PlayedLength ==
    ASSUME Paced, Orderly, Ranked(buffer), Range(buffer) \subseteq Voiced, InPlace,
           Useful # <<>>, NEW d \in Decisions,
           AfterReset(d) \in {"normal", "merge", "accelerate", "preemptive"},
           ~IsComfortNoise(Header), NEW len, len = Loop(d, Speech(d)).len,
           NEW list, list = Taken(d), NEW f, f = list[Len(list)].n
    PROVE  /\ len \in 0 .. Most
           /\ \/ sent[Header.n].at + len = sent[f].at + sent[f].len /\ sent[f].len > 0
              \/ /\ list[Len(list)].sync /\ f = Header.n /\ len > 0
                 /\ len <= sent[f].len \/ len <= 3 * Block
<1> DEFINE n == Len(list)
           final == list[n]
<1>1. /\ Typed /\ Types /\ Empty /\ Formatted /\ sent \in Streams /\ frame \in Frames
      /\ OnePace(sent) /\ InTurn(sent) /\ Block = 2
  BY Limits DEF Paced, Typed, Types, Orderly
<1>2. /\ list \in Seq(Voiced) /\ list \in Seq(Arrived) /\ list \in Seq(Packets)
      /\ n \in 1 .. 2 /\ list[1] = Header
      /\ n = 1 => final = Header
  BY PlayedSlots
<1>3. Speech(d) = list /\ Len(list) <= MaxPackets
  BY <1>1, SpeechIs
<1>4. len = DecodeLoop(list, frame, 1).len /\ len \in 0 .. Most
  <2>1. Loop(d, list).len \in 0 .. Most
    BY <1>1, <1>2, <1>3, LoopIs
  <2> QED
    BY <1>1, <1>3, <2>1, ReadyTuned DEF Loop
<1>5. PICK L \in Frames :
          /\ L > 0 /\ \A k \in 1 .. n : list[k].len = L
          /\ frame = L \/ frame = 3 * Block
          /\ frame = L \/ ~list[1].sync \/ n = 1
          /\ \A k \in 1 .. (n - 1) : Start(list[k + 1]) = Start(list[k]) + L
  BY <1>1, TakenInPace
<1> DEFINE at == [k \in 1 .. n |-> Start(list[k])]
<1>6. \A k \in 1 .. n : /\ at[k] = Start(list[k]) /\ at[k] \in Nat
                        /\ Start(list[k]) = sent[list[k].n].at /\ list[k].len = sent[list[k].n].len
  <2>1. \A k \in 1 .. n : list[k] \in Arrived
    BY <1>2
  <2> QED
    BY <1>1, <2>1, CopyIs
<1>7. n \in 1 .. 2 /\ 1 \in 1 .. n /\ n \in 1 .. n /\ n \in Nat /\ n >= 1
  <2>1. n \in 1 .. 2
    BY <1>2
  <2> HIDE DEF n
  <2> QED
    BY <2>1
<1>8. at[1] = sent[Header.n].at /\ at[n] = sent[f].at /\ sent[f].len = L /\ L \in Nat
  <2>1. at[1] = sent[list[1].n].at /\ at[n] = sent[list[n].n].at /\ list[n].len = sent[list[n].n].len
    BY <1>6, <1>7
  <2>2. list[1].n = Header.n /\ list[n].n = f /\ list[n].len = L
    BY <1>2, <1>5, <1>7
  <2> HIDE DEF Header, at
  <2> QED
    BY <2>1, <2>2, Limits DEF Frames
<1>9. CASE frame = L \/ ~list[1].sync
  <2>1. \A k \in 1 .. (n - 1) : at[k + 1] = at[k] + L
    <3> SUFFICES ASSUME NEW k \in 1 .. (n - 1) PROVE at[k + 1] = at[k] + L
      OBVIOUS
    <3>1. k \in 1 .. n /\ k + 1 \in 1 .. n
      BY <1>7
    <3> HIDE DEF at
    <3> QED
      BY <1>5, <1>6, <3>1
  <2>2. at[1] + len = at[n] + L
    <3>1. \A k \in 1 .. n : list[k].sync \/ list[k].len = L
      BY <1>5
    <3>2. list \in Seq(Packets) /\ n >= 1 /\ \A k \in 1 .. n : at[k] \in Nat
      BY <1>2, <1>6, <1>7
    <3> HIDE DEF at
    <3>3. at[1] + DecodeLoop(list, frame, 1).len = at[n] + L
      <4>1. frame \in Frames /\ L \in Frames /\ L > 0
        BY <1>1, <1>5
      <4>2. Consecutive(list, frame, L, at)
        BY <1>9, <2>1, <3>1, <3>2, <4>1 DEF Consecutive
      <4> QED
        BY <4>2, DecodesInTurn
    <3> QED
      BY <1>4, <3>3
  <2> HIDE DEF at, Header
  <2> QED
    BY <1>4, <1>5, <1>8, <2>2
<1>10. CASE frame = 3 * Block /\ list[1].sync /\ n = 1
  <2>1. len = Decoded(list[1], frame, 1)
    <3>1. 1 \in Nat \ {0}
      OBVIOUS
    <3> QED
      BY <1>1, <1>2, <1>4, <1>10, <3>1, DecodesFew
  <2>2. len = frame
    BY <1>1, <1>10, <2>1 DEF Decoded
  <2>3. final = Header /\ final.sync
    BY <1>2, <1>10
  <2>4. len > 0 /\ len <= 3 * Block
    BY <1>1, <1>10, <2>2
  <2> HIDE DEF Header
  <2> QED
    BY <1>4, <2>3, <2>4
<1> QED
  BY <1>5, <1>9, <1>10

\* Where decoding leaves the end, and what it takes.
LEMMA DecodedMoves ==
    ASSUME Types, NEW ready, NEW goal, NEW list, NEW len, PlayDecoded(goal, ready, list, len)
    PROVE  /\ sync'.end = Ts(IF LastReal(list) THEN ready.start ELSE ready.start + len)
           /\ taken' = [n |-> list[Len(list)].n,
                        kind |-> IF ready.astray THEN "unsettled" ELSE KindOf(list[Len(list)])]
<1> DEFINE end == IF LastReal(list) THEN ready.start ELSE ready.start + len
           s == [sync EXCEPT !.end = Ts(end), !.format = ready.format]
<1>1. /\ \E left : Output(left, s)
      /\ taken' = [n |-> list[Len(list)].n,
                   kind |-> IF ready.astray THEN "unsettled" ELSE KindOf(list[Len(list)])]
  BY Zenon DEF PlayDecoded, LastReal
<1>2. sync \in Syncs
  BY DEF Types
<1> HIDE DEF end
<1>3. s.end = Ts(end) /\ DOMAIN s = {"end", "left", "format"}
  BY <1>2 DEF Syncs
<1> HIDE DEF s
<1>4. PICK left : sync' = [s EXCEPT !.left = Max({left - Block, 0})]
  BY <1>1 DEF Output
<1>5. sync'.end = s.end
  BY <1>3, <1>4
<1> QED
  BY <1>1, <1>3, <1>5 DEF end

LEMMA ErrorMoves ==
    ASSUME Types, NEW ready, NEW list, NEW last, PlayError(ready, list, last)
    PROVE  /\ sync'.end = Ts(ready.start + last)
           /\ taken' = [n |-> list[Len(list)].n,
                        kind |-> IF ready.astray THEN "unsettled" ELSE "astray"]
<1> DEFINE s == [sync EXCEPT !.end = Ts(ready.start + last), !.format = ready.format]
<1>1. /\ \E left : Output(left, s)
      /\ taken' = [n |-> list[Len(list)].n,
                   kind |-> IF ready.astray THEN "unsettled" ELSE "astray"]
  BY Zenon DEF PlayError
<1>2. sync \in Syncs
  BY DEF Types
<1>3. s.end = Ts(ready.start + last) /\ DOMAIN s = {"end", "left", "format"}
  BY <1>2 DEF Syncs
<1> HIDE DEF s
<1>4. PICK left : sync' = [s EXCEPT !.left = Max({left - Block, 0})]
  BY <1>1 DEF Output
<1>5. sync'.end = s.end
  BY <1>3, <1>4
<1> QED
  BY <1>1, <1>3, <1>5

\* An end no more than a full buffer after a slot is on the near side of the circle.
LEMMA ShortOfHalf ==
    ASSUME sent \in Streams, NEW n \in Slots, NEW a, a = sent[n].at, NEW b \in Nat, b <= a,
           NEW x \in 0 .. Most
    PROVE  b + x \in Nat /\ b + x < Half
<1>1. a + Most < Half /\ Most \in Nat /\ a \in Nat
  BY SlotIs, MostIs DEF Most, Half, Slot
<1>2. Half \in Int
  BY SpansAssumption DEF Half
<1> HIDE DEF Most, Half
<1> QED
  BY <1>1, <1>2

\* Audio that starts no later than at a place ends no later than if it started there.
LEMMA EndsBy ==
    ASSUME NEW a \in Nat, NEW b \in Nat, NEW z \in Nat, NEW to \in Nat, NEW reach \in Nat,
           b <= a, a + z <= to + reach
    PROVE  /\ b + z <= to + reach
           /\ b = a /\ to < a + z => b + z > to
OBVIOUS

\* Decoding leaves the end in its place, whatever is decoded.
LEMMA DecodedInPlace ==
    ASSUME Paced, Orderly, Ranked(buffer), Range(buffer) \subseteq Voiced, InPlace,
           Useful # <<>>, NEW d \in Decisions,
           AfterReset(d) \in {"normal", "merge", "accelerate", "preemptive"},
           sent' = sent, ~codec'.first, ~codec'.new, NEW goal, NEW len, len = Loop(d, Speech(d)).len,
           PlayDecoded(goal, Ready(d), Taken(d), len)
    PROVE  InPlace'
<1> DEFINE list == Taken(d)
           final == list[Len(list)]
           inband == LastReal(list)
           h == Header.n
           f == final.n
           astray == Ready(d).astray
<1>1. Typed /\ Types /\ sent \in Streams /\ InTurn(sent)
  BY DEF Paced, Typed, Orderly
<1>2. /\ h \in Slots /\ sent[h].at \in Nat
      /\ \E b \in Nat : /\ b <= sent[h].at /\ Ready(d).start = Ts(TsStart + b)
                        /\ ~astray => b = sent[h].at
  BY StartsAt
<1>3. PICK b \in Nat : /\ b <= sent[h].at /\ Ready(d).start = Ts(TsStart + b)
                       /\ ~astray => b = sent[h].at
  BY <1>2
<1>4. /\ list \in Seq(Voiced) /\ Len(list) \in 1 .. 2 /\ list[1] = Header
      /\ \A k \in 1 .. Len(list) : list[k].pt = Header.pt
      /\ f = h \/ f = h + 1
      /\ Len(list) = 1 => final = Header
      /\ IsComfortNoise(Header) => Len(list) = 1
      /\ \A m \in Slots : sent[m].cn /\ sent[m].pt \in SpeechTypes => Len(list) = 1
      /\ final \in Voiced /\ f \in Slots
  BY PlayedSlots
<1>5. /\ sync'.end = Ts(IF inband THEN Ready(d).start ELSE Ready(d).start + len)
      /\ taken'.n = f /\ taken'.kind = IF astray THEN "unsettled" ELSE KindOf(final)
  <2>1. /\ sync'.end = Ts(IF inband THEN Ready(d).start ELSE Ready(d).start + len)
        /\ taken' = [n |-> f, kind |-> IF astray THEN "unsettled" ELSE KindOf(final)]
    BY <1>1, DecodedMoves
  <2> HIDE DEF f, final, astray
  <2> QED
    BY <2>1
<1>6. len \in 0 .. Most /\ (IsComfortNoise(Header) => len = 0 /\ ~astray)
  <2>1. Speech(d) \in Seq(Packets) /\ Len(Speech(d)) <= MaxPackets
    BY <1>1, SpeechIs
  <2>2. len \in 0 .. Most
    BY <1>1, <2>1, LoopIs
  <2>3. ASSUME IsComfortNoise(Header) PROVE len = 0 /\ ~astray
    <3>1. Speech(d) = <<>>
      BY <2>3 DEF Speech
    <3>2. Ready(d).frame \in Frames /\ Ready(d).format.channels \in Nat \ {0}
      BY <1>1, ReadyIs DEF Formats
    <3>3. Loop(d, Speech(d)) = [frame |-> Ready(d).frame, len |-> 0]
      <4>1. <<>> \in Seq(Packets) /\ Len(<<>>) = 0
        OBVIOUS
      <4> DEFINE none == <<>>
      <4>2. none \in Seq(Packets) /\ Len(none) = 0 /\ Speech(d) = none
        BY <3>1, <4>1
      <4> HIDE DEF none
      <4> QED
        BY <3>2, <4>2, DecodesFew DEF Loop
    <3>4. ~astray
      BY <2>3 DEF Ready
    <3> QED
      BY <3>3, <3>4
  <2> QED
    BY <2>2, <2>3
<1> HIDE DEF list, final, inband, astray
<1>7. \E x \in 0 .. Most : /\ x = IF inband THEN 0 ELSE len
                           /\ sync'.end = Ts(TsStart + (b + x))
  <2>1. 0 \in Nat /\ len \in Nat /\ 0 \in 0 .. Most /\ Most \in Nat
    BY <1>6, MostIs
  <2>2. Ready(d).start \in Stamps /\ Ready(d).start + 0 = Ready(d).start
    <3>1. Ready(d).start \in Stamps
      BY <1>1, ReadyIs
    <3> QED
      BY <3>1 DEF Stamps
  <2>3. PICK start : start = Ready(d).start /\ start = Ts(TsStart + b)
    BY <1>3
  <2>4. Ts(start + 0) = Ts(TsStart + (b + 0)) /\ Ts(start + len) = Ts(TsStart + (b + len))
    BY <2>1, <2>3, Later
  <2>5. CASE inband
    <3>1. sync'.end = Ts(TsStart + (b + 0))
      BY <1>5, <2>2, <2>3, <2>4, <2>5
    <3> QED
      BY <2>1, <2>5, <3>1
  <2>6. CASE ~inband
    <3>1. sync'.end = Ts(TsStart + (b + len))
      BY <1>5, <2>3, <2>4, <2>6
    <3> QED
      BY <1>6, <2>6, <3>1
  <2> QED
    BY <2>5, <2>6
<1>8. PICK x \in 0 .. Most : /\ x = IF inband THEN 0 ELSE len
                             /\ sync'.end = Ts(TsStart + (b + x))
  BY <1>7
<1>9. b + x \in Nat /\ b + x < Half
  <2>1. PICK a : a = sent[h].at /\ b <= a
    BY <1>3
  <2> HIDE DEF h
  <2> QED
    BY <1>1, <1>2, <2>1, ShortOfHalf
<1>10. PICK e \in Nat : e = b + x
  BY <1>9
<1>11. e < Half /\ sync'.end = Ts(TsStart + e)
  BY <1>8, <1>9, <1>10
<1>12. sent[f].at \in Nat /\ sent[f].len \in Nat
  BY <1>1, <1>4, SlotIs, Limits DEF Slot, Frames
<1>13. x \in Nat
  BY <1>8
<1> HIDE DEF h, f
<1>14. /\ \/ e <= sent[f].at + sent[f].len
          \/ taken'.kind \in Stray /\ e <= sent[f].at + 3 * Block
       /\ \/ taken'.kind = "unsettled"
          \/ taken'.kind \in {"noise", "astray"} /\ e >= sent[f].at
          \/ e > sent[f].at
  <2>1. CASE IsComfortNoise(Header) \/ inband
    <3>1. x = 0 /\ f = h /\ (~astray => KindOf(final) = "noise")
      <4>1. CASE IsComfortNoise(Header)
        <5>1. final = Header /\ x = 0 /\ f = h
          BY <1>4, <1>6, <1>8, <4>1 DEF f, h
        <5>2. KindOf(final) = "noise"
          <6> HIDE DEF Header
          <6> QED
            BY <1>4, <4>1, <5>1, KindIs
        <5> QED
          BY <5>1, <5>2
      <4>2. CASE ~IsComfortNoise(Header) /\ inband
        <5>1. Header \in Packets
          BY <1>1, HeaderIs
        <5>2. Header.pt \in SpeechTypes
          BY <4>2, <5>1 DEF Packets, Pts, IsComfortNoise
        <5>3. Len(list) = 1 /\ KindOf(list[1]) = "noise"
          BY <1>4, <4>2, <5>2, NoiseAlone DEF inband
        <5> QED
          BY <1>4, <1>8, <4>2, <5>3 DEF f, h
      <4> QED
        BY <2>1, <4>1, <4>2
    <3>2. b <= sent[f].at /\ (~astray => b = sent[f].at)
      BY <1>3, <3>1
    <3>3. e = b
      BY <1>10, <3>1
    <3> QED
      BY <1>5, <1>12, <3>1, <3>2, <3>3
  <2>2. CASE ~IsComfortNoise(Header) /\ ~inband
    <3>1. PICK g \in Slots : g = f /\ g = list[Len(list)].n
      BY <1>4 DEF f, final
    <3>2. /\ \/ sent[h].at + len = sent[g].at + sent[g].len /\ sent[g].len > 0
             \/ /\ list[Len(list)].sync /\ g = h /\ len > 0
                /\ len <= sent[g].len \/ len <= 3 * Block
      BY <2>2, <3>1, PlayedLength DEF list, h
    <3>3. x = len /\ e = b + len
      BY <1>8, <1>10, <2>2
    <3>4. KindOf(final) = "silence" \/ ~list[Len(list)].sync
      BY <1>4 DEF KindOf, final
    <3> PICK a \in Nat : a = sent[h].at
      BY <1>2 DEF h
    <3> PICK to \in Nat, size \in Nat : to = sent[f].at /\ size = sent[f].len
      BY <1>12
    <3>7. b <= a /\ (~astray => b = a) /\ len \in Nat /\ (g = h => a = to)
      BY <1>3, <1>13, <3>1, <3>3 DEF h
    <3> PICK z \in Nat : z = len
      BY <3>7
    <3>8. e = b + z /\ b <= a
      BY <3>3, <3>7
    <3>5. CASE sent[h].at + len = sent[g].at + sent[g].len /\ sent[g].len > 0
      <4>0. a + z = to + size /\ size > 0
        BY <3>1, <3>5
      <4>1. a + z <= to + size /\ to < a + z
        BY <4>0
      <4>2. e <= to + size /\ (b = a => e > to)
        BY <3>8, <4>1, EndsBy
      <4>3. ~astray => e > to
        BY <3>7, <4>2
      <4> QED
        BY <1>5, <4>2, <4>3
    <3>6. CASE /\ list[Len(list)].sync /\ g = h /\ len > 0
               /\ len <= sent[g].len \/ len <= 3 * Block
      <4>0. /\ a = to /\ z > 0
            /\ z <= size \/ z <= 3 * Block
        BY <3>1, <3>6, <3>7
      <4>1. PICK reach \in {size, 3 * Block} : z <= reach
        BY <4>0
      <4>4. reach \in Nat /\ a + z <= to + reach /\ to < a + z
        <5>1. reach \in Nat
          BY Limits
        <5> QED
          BY <4>0, <4>1, <5>1
      <4>5. e <= to + reach /\ (b = a => e > to)
        BY <3>8, <4>4, EndsBy
      <4>2. ~astray => e > to
        BY <3>7, <4>5
      <4>3. taken'.kind \in Stray
        BY <1>5, <3>4, <3>6 DEF Stray
      <4> QED
        BY <1>5, <4>2, <4>3, <4>5
    <3> QED
      BY <3>2, <3>5, <3>6
  <2> QED
    BY <2>1, <2>2
<1>15. h \in Slots /\ f \in Slots /\ (f = h \/ f = h + 1)
  BY <1>2, <1>4 DEF h, f
<1> QED
  BY <1>5, <1>11, <1>14, <1>15, Lands

\* A packet that does not decode costs a frame, and leaves the end near the last one's place.
LEMMA ErrorInPlace ==
    ASSUME Paced, Orderly, Ranked(buffer), Range(buffer) \subseteq Voiced, InPlace,
           Useful # <<>>, NEW d \in Decisions,
           AfterReset(d) \in {"normal", "merge", "accelerate", "preemptive"},
           sent' = sent, ~codec'.first, ~codec'.new, Framed', NEW bad \in DOMAIN Speech(d),
           PlayError(Ready(d), Taken(d), frame')
    PROVE  InPlace'
<1> DEFINE list == Taken(d)
           final == list[Len(list)]
           h == Header.n
           f == final.n
           astray == Ready(d).astray
<1>1. Typed /\ Types /\ sent \in Streams /\ InTurn(sent) /\ OnePace(sent) /\ Block = 2
  BY Limits DEF Paced, Typed, Orderly
<1>2. /\ h \in Slots /\ sent[h].at \in Nat
      /\ \E b \in Nat : /\ b <= sent[h].at /\ Ready(d).start = Ts(TsStart + b)
                        /\ ~astray => b = sent[h].at
  BY StartsAt
<1>3. PICK b \in Nat : /\ b <= sent[h].at /\ Ready(d).start = Ts(TsStart + b)
                       /\ ~astray => b = sent[h].at
  BY <1>2
<1>4. /\ Len(list) \in 1 .. 2 /\ \A k \in 1 .. Len(list) : list[k].pt = Header.pt
      /\ f = h \/ f = h + 1
      /\ final \in Voiced /\ f \in Slots
  BY PlayedSlots
<1>5. /\ sync'.end = Ts(Ready(d).start + frame')
      /\ taken'.n = f /\ taken'.kind = IF astray THEN "unsettled" ELSE "astray"
  <2>1. /\ sync'.end = Ts(Ready(d).start + frame')
        /\ taken' = [n |-> f, kind |-> IF astray THEN "unsettled" ELSE "astray"]
    BY <1>1, ErrorMoves
  <2> HIDE DEF f, final, astray
  <2> QED
    BY <2>1
<1>6. sent[f].pt \in SpeechTypes
  <2>1. ~IsComfortNoise(Header)
    BY DEF Speech
  <2>2. Header \in Packets
    BY <1>1, HeaderIs
  <2>3. Header.pt \in SpeechTypes
    BY <2>1, <2>2 DEF Packets, Pts, IsComfortNoise
  <2>4. final.pt = Header.pt
    <3>1. PICK n \in 1 .. 2 : n = Len(list)
      BY <1>4
    <3>2. n \in 1 .. n
      OBVIOUS
    <3> HIDE DEF list, Header
    <3> QED
      BY <1>4, <3>1, <3>2
  <2>5. final \in Arrived
    BY <1>4 DEF Voiced
  <2> HIDE DEF final
  <2>6. final.pt = sent[f].pt
    BY <1>1, <2>5, CopyIs
  <2> QED
    BY <2>3, <2>4, <2>6
<1> HIDE DEF list, final, astray
<1>7. frame' = 3 * Block \/ (frame' = sent[f].len /\ sent[f].len > 0)
  <2>1. frame' \in Paces
    BY DEF Framed, Paces, Slots
  <2>2. frame' = 3 * Block \/ \E m \in Slots : sent[m].pt \in SpeechTypes /\ frame' = sent[m].len
    BY <2>1 DEF Paces
  <2> HIDE DEF f
  <2>3. \A m \in Slots : sent[m].pt \in SpeechTypes => sent[m].len = sent[f].len /\ sent[m].len > 0
    BY <1>1, <1>4, <1>6 DEF OnePace, Slots
  <2> QED
    BY <2>2, <2>3
<1> HIDE DEF h, f
<1>8. frame' \in 0 .. Most /\ frame' \in Nat /\ frame' > 0
  <2>1. sent[f].len \in Frames
    BY <1>1, <1>4, SlotIs DEF Slot, f
  <2>2. frame' \in Frames /\ kMaxFrameSize \in Nat
    BY <1>7, <2>1, Limits
  <2>3. Most \in Nat /\ kMaxFrameSize <= Most
    BY MostIs
  <2> HIDE DEF Most
  <2> QED
    BY <1>1, <1>7, <2>2, <2>3 DEF Frames
<1>9. PICK x \in Nat : x = frame'
  BY <1>8
<1>10. b + x \in Nat /\ b + x < Half
  <2>1. PICK a : a = sent[h].at /\ b <= a
    BY <1>3
  <2>2. h \in Slots
    BY <1>2 DEF h
  <2> QED
    BY <1>1, <1>2, <1>8, <1>9, <2>1, <2>2, ShortOfHalf
<1>11. sync'.end = Ts(TsStart + (b + x))
  <2>1. PICK start : start = Ready(d).start /\ start = Ts(TsStart + b)
    BY <1>3
  <2>2. Ts(start + x) = Ts(TsStart + (b + x))
    BY <2>1, Later
  <2> QED
    BY <1>5, <1>9, <2>1, <2>2
<1>12. PICK e \in Nat : e = b + x
  BY <1>10
<1>13. e < Half /\ sync'.end = Ts(TsStart + e)
  BY <1>10, <1>11, <1>12
<1>14. h \in Slots /\ f \in Slots /\ (f = h \/ f = h + 1)
  BY <1>2, <1>4 DEF h, f
<1>15. PICK from \in Nat : from = sent[h].at
  BY <1>2 DEF h
<1>16. PICK to \in Nat : to = sent[f].at /\ from <= to
  <2>1. sent[f].at \in Nat /\ h \in Nat /\ (h < f => sent[h].at < sent[f].at)
    BY <1>1, <1>14, Apart
  <2> QED
    BY <1>14, <1>15, <2>1
<1>17. /\ \/ e <= sent[f].at + sent[f].len
          \/ taken'.kind \in Stray /\ e <= sent[f].at + 3 * Block
       /\ \/ taken'.kind = "unsettled"
          \/ taken'.kind = "astray" /\ e > sent[h].at
  <2>1. b <= from /\ (~astray => b = from)
    BY <1>3, <1>15 DEF h
  <2>2. e <= to + x
    BY <1>12, <1>16, <2>1
  <2>3. b = from => e > from
    <3>1. x > 0
      BY <1>8, <1>9
    <3> QED
      BY <1>12, <3>1
  <2>4. taken'.kind \in Stray
    BY <1>5 DEF Stray
  <2>5. x = 3 * Block \/ x = sent[f].len
    BY <1>7, <1>9
  <2> QED
    BY <1>5, <1>15, <1>16, <2>1, <2>2, <2>3, <2>4, <2>5
<1>18. taken'.n = f
  BY <1>5
<1> QED
  BY <1>13, <1>14, <1>17, <1>18, Lands

LEMMA NoiseInPlace ==
    ASSUME Paced, Orderly, InPlace, NEW d \in Decisions, PlayNoise(d), sent' = sent,
           ~codec'.new, codec'.first = codec.first
    PROVE  InPlace' /\ taken'.n = Header.n /\ taken'.kind \in {"noise", "astray"}
           /\ (IsComfortNoise(Header) => taken'.kind = "noise")
<1> DEFINE h == Header.n
<1>1. Typed /\ Types /\ sent \in Streams /\ InTurn(sent) /\ Useful # <<>>
  BY DEF Paced, Typed, Orderly, PlayNoise
<1>2. sync'.end = Header.ts
  BY <1>1, NoiseLeaves
<1>3. h \in Slots /\ sent[h].at \in Nat /\ ~codec.first /\ Header.ts = Ts(TsStart + sent[h].at)
  BY <1>1, StartsAt
<1>4. /\ taken'.n = h /\ taken'.kind \in {"noise", "astray"}
      /\ (IsComfortNoise(Header) => taken'.kind = "noise")
  <2>1. taken' = [n |-> h, kind |-> IF IsComfortNoise(Header) THEN "noise" ELSE "astray"]
    BY DEF PlayNoise
  <2> HIDE DEF h, Header
  <2> QED
    BY <2>1
<1> HIDE DEF h
<1>5. PICK e \in Nat : e = sent[h].at
  BY <1>3
<1>6. e < Half /\ e <= sent[h].at + sent[h].len
  <2>1. h \in Slots
    BY <1>3 DEF h
  <2>2. sent[h].at + Most < Half /\ sent[h].len \in Nat /\ Most \in Nat
    BY <1>1, <2>1, SlotIs, MostIs, Limits DEF Half, Most, Slot, Frames
  <2>3. Half \in Int
    BY SpansAssumption DEF Half
  <2> HIDE DEF Half, Most
  <2> QED
    BY <1>5, <2>2, <2>3
<1>7. h \in Slots /\ h = h /\ sync'.end = Ts(TsStart + e) /\ e >= sent[h].at /\ ~codec'.first
  BY <1>2, <1>3, <1>5 DEF h
<1>8. InPlace'
  BY <1>4, <1>6, <1>7, Lands
<1> QED
  BY <1>4, <1>8 DEF h

-----------------------------------------------------------------------------
(* Every step is a jitter buffer's.                                          *)

Settled == Range(buffer) \subseteq Voiced /\ Ranked(buffer) /\ InPlace

LEMMA StillVoiced == ASSUME sent' = sent PROVE Voiced' = Voiced
<1>1. Arrived' = Arrived
  BY StillArrived
<1> QED
  BY <1>1 DEF Voiced

LEMMA StillRanked == ASSUME Ranked(buffer') PROVE Ranked(buffer)'
BY DEF Ranked, Place, RankOf

LEMMA StillSettled ==
    ASSUME sent' = sent, Range(buffer') \subseteq Voiced, Ranked(buffer'), InPlace'
    PROVE  Settled'
<1>1. Range(buffer)' \subseteq Voiced'
  BY StillVoiced DEF Range
<1>2. Ranked(buffer)'
  BY StillRanked
<1> QED
  BY <1>1, <1>2 DEF Settled

\* What comes of a slot.
Arrival(list, n) == list = ListOf(n) \/ (list = <<SyncOf(n)>> /\ sent[n].pt \in SpeechTypes)

LEMMA ArrivalIs ==
    ASSUME sent \in Streams, NEW n \in Slots, NEW list, Arrival(list, n)
    PROVE  /\ list \in Seq(Arrived) /\ Len(list) \in 1 .. 2 /\ Range(list) \subseteq Voiced
           /\ list = ListOf(n) \/ list = <<SyncOf(n)>>
<1>1. /\ list \in Seq(Arrived) /\ Len(list) \in 1 .. 2
      /\ list = ListOf(n) \/ list = <<SyncOf(n)>>
  BY ListIs DEF Arrival
<1>2. Range(list) \subseteq Arrived
  BY <1>1 DEF Range
<1>3. \A p \in Range(list) : p.sync => p.pt \in SpeechTypes
  <2>1. FecOf(n).sync = FALSE /\ PacketOf(n).sync = FALSE /\ SyncOf(n).pt = sent[n].pt
    BY DEF FecOf, PacketOf, SyncOf
  <2>2. CASE list = ListOf(n)
    <3>1. \A p \in Range(list) : p = PacketOf(n) \/ p = FecOf(n)
      BY <2>2 DEF Range, ListOf
    <3> QED
      BY <2>1, <3>1
  <2>3. CASE list = <<SyncOf(n)>> /\ sent[n].pt \in SpeechTypes
    <3>1. \A p \in Range(list) : p = SyncOf(n)
      BY <2>3 DEF Range
    <3> QED
      BY <2>1, <2>3, <3>1
  <2> QED
    BY <2>2, <2>3 DEF Arrival
<1> QED
  BY <1>1, <1>2, <1>3 DEF Voiced

LEMMA InsertSettles ==
    ASSUME Paced, Orderly, Settled, sent' = sent, NEW n \in Slots, NEW list, Arrival(list, n),
           NEW main, NEW ssrc, Insert(list, main, ssrc)
    PROVE  Settled' /\ JitterStep
<1> DEFINE reinit == Reinit(ssrc)
           base == IF reinit THEN <<>> ELSE buffer
           pt == IF reinit THEN main.pt ELSE codec.pt
           s == InsertPacketList(base, pt, codec.cng, list)
           restart == reinit \/ s.flushed
<1>1. /\ sent \in Streams /\ InTurn(sent) /\ buffer \in Seq(Arrived) /\ codec \in Codecs
      /\ sync \in Syncs
  BY DEF Paced, Typed, Types, Orderly
<1>2. /\ list \in Seq(Arrived) /\ Len(list) \in 1 .. 2 /\ Range(list) \subseteq Voiced
      /\ list = ListOf(n) \/ list = <<SyncOf(n)>>
  BY <1>1, ArrivalIs
<1>3. /\ buffer' = s.buffer
      /\ codec'.first = FALSE /\ codec'.new = (codec.new \/ restart)
      /\ ~restart => sync'.end = sync.end
      /\ taken' = IF restart THEN NoPacket ELSE taken
  <2>1. /\ buffer' = s.buffer
        /\ taken' = IF restart THEN NoPacket ELSE taken
    BY DEF Insert
  <2>2. \E p, c, t : codec' = [codec EXCEPT !.pt = p, !.cng = c, !.ssrc = ssrc, !.first = FALSE,
                                            !.new = @ \/ restart, !.ts = t]
    BY DEF Insert
  <2>3. ~restart => sync' = [sync EXCEPT !.end = @]
    BY DEF Insert
  <2> HIDE DEF restart, s
  <2>4. codec'.first = FALSE /\ codec'.new = (codec.new \/ restart)
    BY <1>1, <2>2 DEF Codecs
  <2>5. ~restart => sync'.end = sync.end
    BY <1>1, <2>3 DEF Syncs
  <2> QED
    BY <2>1, <2>4, <2>5
<1>4. base \in Seq(Arrived) /\ Ranked(base)
  <2>1. CASE reinit
    <3> DEFINE none == <<>>
    <3>1. none \in Seq(Arrived) /\ Len(none) = 0 /\ base = none
      BY <2>1
    <3> HIDE DEF none
    <3>2. Ranked(none)
      BY <3>1 DEF Ranked
    <3> QED
      BY <3>1, <3>2
  <2>2. CASE ~reinit
    BY <1>1, <2>2 DEF Settled
  <2> QED
    BY <2>1, <2>2
<1> HIDE DEF base, pt
<1>5. /\ Ranked(s.buffer)
      /\ s.flushed => Range(s.buffer) \subseteq Range(list)
      /\ ~s.flushed => Range(s.buffer) = Range(base) \cup Range(list)
      /\ Range(s.buffer) \subseteq Range(base) \cup Range(list)
  BY <1>2, <1>4, ListAdds
<1> HIDE DEF s
<1>6. Range(base) = IF reinit THEN {} ELSE Range(buffer)
  BY DEF base, Range
<1> HIDE DEF reinit
<1>7. /\ restart => Range(buffer') \subseteq Range(list)
      /\ ~restart => Range(buffer') = Range(buffer) \cup Range(list)
      /\ Range(buffer') \subseteq Range(buffer) \cup Range(list)
  BY <1>3, <1>5, <1>6
<1>8. Range(buffer') \subseteq Voiced /\ Ranked(buffer')
  BY <1>2, <1>3, <1>5, <1>7 DEF Settled
<1>9. ~restart => ~codec.first
  BY DEF Reinit, reinit
<1> HIDE DEF restart
<1>10. CASE restart
  <2>1. taken' = NoPacket /\ codec'.new
    BY <1>3, <1>10
  <2>2. InPlace'
    BY <2>1 DEF InPlace
  <2>3. JitterStep
    BY <1>1, <1>2, <1>7, <1>10, <2>1, ArrivalRestarts
  <2> QED
    BY <1>8, <2>2, <2>3, StillSettled
<1>11. CASE ~restart
  <2>1. taken' = taken /\ sync'.end = sync.end
    BY <1>3, <1>11
  <2>2. codec'.first = codec.first /\ codec'.new = codec.new
    BY <1>1, <1>3, <1>9, <1>11 DEF Codecs
  <2>3. InPlace'
    BY <2>1, <2>2, StillInPlace DEF Settled
  <2>4. JitterStep
    BY <1>1, <1>2, <1>7, <1>11, <2>1, ArrivalInserts
  <2> QED
    BY <1>8, <2>3, <2>4, StillSettled
<1> QED
  BY <1>10, <1>11

LEMMA FlushSettles ==
    ASSUME Paced, Orderly, FlushBuffers PROVE Settled' /\ JitterStep
<1>1. /\ buffer' = <<>> /\ codec'.first /\ sent' = sent /\ Typed
  BY FlushLeaves DEF Paced
<1>2. taken' = NoPacket
  BY DEF FlushBuffers
<1>3. Range(buffer') = {} /\ Ranked(buffer')
  <2> DEFINE none == <<>>
  <2>1. Len(none) = 0 /\ Range(none) = {} /\ buffer' = none
    BY <1>1 DEF Range
  <2> HIDE DEF none
  <2> QED
    BY <2>1 DEF Ranked
<1>4. InPlace'
  BY <1>1, <1>2 DEF InPlace
<1>5. JitterStep
  <2>1. Copies(buffer') = {}
    BY <1>3 DEF Copies
  <2>2. taken' = Jitter!NoCopy
    BY <1>2 DEF NoPacket, Jitter!NoCopy
  <2>3. Jitter!Restart
    BY <2>1, <2>2, CopiesHeld DEF Jitter!Restart
  <2> QED
    BY <2>3 DEF Jitter!Next, JitterStep
<1> QED
  BY <1>1, <1>3, <1>4, <1>5, StillSettled

LEMMA UsefulRanked ==
    ASSUME Types, Settled
    PROVE  Ranked(Useful) /\ Range(Useful) \subseteq Voiced
<1> DEFINE u == Useful
           a == Len(buffer)
           c == Len(u)
<1>1. /\ u \in Seq(Arrived) /\ c \in Nat /\ c <= a /\ a \in Nat
      /\ \A k \in 1 .. c : u[k] = buffer[a - c + k]
  BY UsefulIs DEF Types, EndOf
<1> HIDE DEF u
<1>2. ASSUME NEW i \in 1 .. c, NEW j \in 1 .. c, i < j PROVE Place(u[i]) <= Place(u[j])
  <2>0. c \in Nat /\ a \in Nat /\ c <= a
    BY <1>1
  <2>1. a - c + i \in 1 .. a /\ a - c + j \in 1 .. a /\ a - c + i < a - c + j
    <3> HIDE DEF a, c
    <3> QED
      BY <1>2, <2>0
  <2>2. Place(buffer[a - c + i]) <= Place(buffer[a - c + j])
    BY <2>1 DEF Settled, Ranked
  <2> QED
    BY <1>1, <2>2
<1>3. Ranked(u)
  BY <1>2 DEF Ranked
<1>4. Range(u) \subseteq Range(buffer)
  <2> SUFFICES ASSUME NEW k \in 1 .. c PROVE u[k] \in Range(buffer)
    BY <1>1 DEF Range
  <2>1. a - c + k \in 1 .. a
    BY <1>1
  <2>2. u[k] = buffer[a - c + k] /\ DOMAIN buffer = 1 .. a
    BY <1>1 DEF Types
  <2> QED
    BY <2>1, <2>2 DEF Range
<1> QED
  BY <1>3, <1>4 DEF Settled, u

LEMMA HeldSettles ==
    ASSUME Paced, Orderly, Settled, NEW d \in Decisions,
           \/ KeepPlaying(d) \/ PacketMissing(d) \/ Conceal(d) \/ Stretch(d) \/ PlayOn(d)
    PROVE  Settled' /\ JitterStep
<1>1. Typed /\ Types /\ Empty
  BY DEF Paced, Typed
<1>2. /\ buffer' = Useful /\ taken' = taken /\ sent' = sent
      /\ codec'.first = codec.first /\ codec'.new = codec.new /\ sync'.end = sync.end
  <2>1. CASE KeepPlaying(d)
    <3>1. taken' = taken
      BY <2>1 DEF KeepPlaying
    <3> QED
      BY <1>1, <2>1, <3>1, KeepLeaves
  <2>2. CASE PacketMissing(d)
    <3>1. taken' = taken
      BY <2>2 DEF PacketMissing
    <3> QED
      BY <1>1, <2>2, <3>1, MissingLeaves
  <2>3. CASE Conceal(d)
    <3>1. taken' = taken
      BY <2>3 DEF Conceal
    <3>2. codec \in Codecs /\ codec' = [codec EXCEPT !.ts = codec'.ts]
      BY <1>1, <2>3 DEF Types, Conceal, Codecs
    <3>3. codec'.new = codec.new
      BY <3>2 DEF Codecs
    <3> QED
      BY <1>1, <2>3, <3>1, <3>3, ConcealLeaves
  <2>4. CASE Stretch(d)
    <3>1. taken' = taken
      BY <2>4 DEF Stretch
    <3> QED
      BY <1>1, <2>4, <3>1, StretchLeaves
  <2>5. CASE PlayOn(d)
    <3>1. taken' = taken
      BY <2>5 DEF PlayOn
    <3> QED
      BY <1>1, <2>5, <3>1, PlayOnLeaves
  <2> QED
    BY <2>1, <2>2, <2>3, <2>4, <2>5
<1>3. Ranked(buffer') /\ Range(buffer') \subseteq Voiced
  BY <1>1, <1>2, UsefulRanked
<1>4. InPlace'
  BY <1>2, StillInPlace DEF Settled
<1>5. JitterStep
  BY <1>1, <1>2, FrontDrops DEF Settled
<1> QED
  BY <1>2, <1>3, <1>4, <1>5, StillSettled

\* What is left of the buffer after packets are taken.
LEMMA TakingSettles ==
    ASSUME Paced, Orderly, Settled, Useful # <<>>, sent' = sent, InPlace',
           NEW required \in 0 .. (2 * Block), IsComfortNoise(Header) => required <= Block,
           NEW list, list = Extracted(required), NEW final, final = list[Len(list)],
           buffer' = Rest(list), taken'.n = final.n,
           taken'.kind \in {KindOf(final), "astray", "unsettled"}
    PROVE  Settled' /\ JitterStep
<1>1. Typed /\ Types /\ Empty /\ Ordered /\ Framed
  BY DEF Paced, Typed
<1>2. Ranked(buffer) /\ Range(buffer) \subseteq Voiced /\ InPlace
  BY DEF Settled
<1>3. /\ Ranked(Rest(list)) /\ Range(Rest(list)) = {p \in Range(buffer) : p.n > final.n}
  BY <1>1, <1>2, ListSlots
<1>4. Ranked(buffer') /\ Range(buffer') \subseteq Voiced
  BY <1>2, <1>3
<1>5. JitterStep
  BY <1>1, <1>2, DecodingTakes
<1> QED
  BY <1>4, <1>5, StillSettled

LEMMA NoiseSettles ==
    ASSUME Paced, Orderly, Settled, NEW d \in Decisions, PlayNoise(d)
    PROVE  Settled' /\ JitterStep
<1>1. Typed /\ Types /\ Ordered /\ Framed
  BY DEF Paced, Typed
<1>2. Ranked(buffer) /\ Range(buffer) \subseteq Voiced /\ InPlace
  BY DEF Settled
<1>3. /\ Useful # <<>> /\ ~codec'.new /\ codec'.first = codec.first /\ sent' = sent
  BY <1>1, NoiseLeaves
<1>4. buffer' = Rest(Extracted(Block))
  BY DEF PlayNoise
<1>5. /\ InPlace' /\ taken'.n = Header.n /\ taken'.kind \in {"noise", "astray"}
      /\ (IsComfortNoise(Header) => taken'.kind = "noise")
      /\ (taken'.kind = "noise" => IsComfortNoise(Header))
  <2>1. /\ InPlace' /\ taken'.n = Header.n /\ taken'.kind \in {"noise", "astray"}
        /\ (IsComfortNoise(Header) => taken'.kind = "noise")
    BY <1>2, <1>3, NoiseInPlace
  <2>2. taken' = [n |-> Header.n, kind |-> IF IsComfortNoise(Header) THEN "noise" ELSE "astray"]
    BY DEF PlayNoise
  <2>3. ~IsComfortNoise(Header) => taken'.kind = "astray"
    <3> HIDE DEF Header
    <3> QED
      BY <2>2
  <2> QED
    BY <2>1, <2>3
<1>6. Block \in 0 .. (2 * Block) /\ Block <= Block
  BY Limits
<1>7. PICK list : list = Extracted(Block)
  OBVIOUS
<1>8. PICK final : final = list[Len(list)]
  OBVIOUS
<1>9. Len(list) = 1 /\ list[1] = Header /\ final \in Range(buffer)
  BY <1>1, <1>2, <1>3, <1>6, <1>7, <1>8, ListSlots
<1>10. final = Header /\ final \in Voiced
  BY <1>2, <1>8, <1>9
<1>11. IsComfortNoise(final) => KindOf(final) = "noise"
  BY <1>10, KindIs
<1> HIDE DEF Header
<1>12. taken'.n = final.n /\ taken'.kind \in {KindOf(final), "astray", "unsettled"}
  BY <1>5, <1>10, <1>11
<1>13. buffer' = Rest(list)
  BY <1>4, <1>7
<1> QED
  BY <1>3, <1>5, <1>6, <1>7, <1>8, <1>12, <1>13, TakingSettles

LEMMA SpeechSettles ==
    ASSUME Paced, Orderly, Settled, NEW d \in Decisions, PlayPackets(d), Framed'
    PROVE  Settled' /\ JitterStep
<1>1. Typed /\ Types /\ Empty
  BY DEF Paced, Typed
<1>2. Ranked(buffer) /\ Range(buffer) \subseteq Voiced /\ InPlace
  BY DEF Settled
<1>3. /\ Useful # <<>> /\ ~codec'.new /\ codec'.first = codec.first /\ sent' = sent
      /\ AfterReset(d) \in {"normal", "merge", "accelerate", "preemptive"}
  BY <1>1, PlayLeaves
<1>4. /\ buffer' = Rest(Taken(d))
      /\ \/ PlayDecoded(Goal(d), Ready(d), Taken(d), Loop(d, Speech(d)).len)
         \/ \E bad \in DOMAIN Speech(d) : PlayError(Ready(d), Taken(d), frame')
  BY PlayIs
<1>5. Required(d) \in 0 .. (2 * Block) /\ (IsComfortNoise(Header) => Required(d) <= Block)
  BY <1>3, RequiredIs
<1>6. ~codec'.first
  BY <1>3, StartsAt DEF Settled
<1>7. PICK list : list = Taken(d)
  OBVIOUS
<1>8. PICK final : final = list[Len(list)]
  OBVIOUS
<1>9. /\ InPlace' /\ taken'.n = final.n /\ taken'.kind \in {KindOf(final), "astray", "unsettled"}
  <2>1. CASE PlayDecoded(Goal(d), Ready(d), Taken(d), Loop(d, Speech(d)).len)
    <3>1. PICK len : len = Loop(d, Speech(d)).len
      OBVIOUS
    <3>2. InPlace'
      BY <1>2, <1>3, <1>6, <2>1, <3>1, DecodedInPlace
    <3>3. taken' = [n |-> final.n,
                    kind |-> IF Ready(d).astray THEN "unsettled" ELSE KindOf(final)]
      BY <1>1, <1>7, <1>8, <2>1, DecodedMoves
    <3> QED
      BY <3>2, <3>3
  <2>2. CASE \E bad \in DOMAIN Speech(d) : PlayError(Ready(d), Taken(d), frame')
    <3>1. PICK bad \in DOMAIN Speech(d) : PlayError(Ready(d), Taken(d), frame')
      BY <2>2
    <3>2. InPlace'
      BY <1>2, <1>3, <1>6, <3>1, ErrorInPlace
    <3>3. taken' = [n |-> final.n, kind |-> IF Ready(d).astray THEN "unsettled" ELSE "astray"]
      BY <1>1, <1>7, <1>8, <3>1, ErrorMoves
    <3> QED
      BY <3>2, <3>3
  <2> QED
    BY <1>4, <2>1, <2>2
<1>10. PICK required \in 0 .. (2 * Block) :
           required = Required(d) /\ (IsComfortNoise(Header) => required <= Block)
  BY <1>5
<1>11. list = Extracted(required) /\ buffer' = Rest(list)
  BY <1>4, <1>7, <1>10 DEF Taken
<1> QED
  BY <1>3, <1>8, <1>9, <1>10, <1>11, TakingSettles

\* Streams of one rhythm, whose slots come one after another.
Regular == OneRhythm /\ SeqSpan \div 2 > 2 /\ \A s \in Streams : InTurn(s)

LEMMA SettledNext ==
    ASSUME Regular PROVE Paced /\ Settled /\ [Next]_vars => Settled' /\ JitterStep
<1> SUFFICES ASSUME Paced, Settled, [Next]_vars PROVE Settled' /\ JitterStep
  OBVIOUS
<1>1. Paced' /\ Typed /\ Types /\ sent \in Streams
  BY PacedNext DEF Regular, Paced, Typed, Types
<1>2. Orderly /\ Framed'
  BY <1>1 DEF Regular, OneRhythm, Orderly, Paced
<1>3. ASSUME NEW n \in Slots, InsertPacket(n) PROVE Settled' /\ JitterStep
  <2>1. Insert(ListOf(n), PacketOf(n), sent[n].ssrc) /\ sent' = sent
    BY <1>3 DEF InsertPacket, Insert
  <2>2. Arrival(ListOf(n), n)
    BY DEF Arrival
  <2> QED
    BY <1>2, <2>1, <2>2, InsertSettles
<1>4. ASSUME NEW n \in Slots, InsertSyncPacket(n) PROVE Settled' /\ JitterStep
  <2>1. Insert(<<SyncOf(n)>>, SyncOf(n), codec.ssrc) /\ sent' = sent
    BY <1>4 DEF InsertSyncPacket, Insert
  <2>2. Arrival(<<SyncOf(n)>>, n)
    BY <1>4 DEF Arrival, InsertSyncPacket
  <2> QED
    BY <1>2, <2>1, <2>2, InsertSettles
<1>5. CASE FlushBuffers
  BY <1>2, <1>5, FlushSettles
<1>6. CASE GetAudio
  <2>1. PICK d \in Decisions : \/ KeepPlaying(d) \/ PacketMissing(d) \/ Conceal(d) \/ Stretch(d)
                               \/ PlayOn(d) \/ PlayNoise(d) \/ PlayPackets(d)
    BY <1>6 DEF GetAudio
  <2> QED
    BY <1>2, <2>1, HeldSettles, NoiseSettles, SpeechSettles
<1>7. CASE UNCHANGED vars
  <2>1. /\ buffer' = buffer /\ codec' = codec /\ sync' = sync /\ sent' = sent /\ taken' = taken
    BY <1>7 DEF vars, inputs
  <2>2. InPlace'
    BY <2>1, StillInPlace DEF Settled
  <2>3. Ranked(buffer') /\ Range(buffer') \subseteq Voiced
    BY <2>1 DEF Settled
  <2> QED
    BY <2>1, <2>2, <2>3, StillSettled DEF JitterStep
<1> QED
  BY <1>3, <1>4, <1>5, <1>6, <1>7 DEF Next

LEMMA SettledInit == Init => Settled /\ Jitter!Init
<1> SUFFICES ASSUME Init PROVE Settled /\ Jitter!Init
  OBVIOUS
<1>1. buffer = <<>> /\ codec.first = TRUE /\ taken = NoPacket
  BY DEF Init
<1>2. Range(buffer) = {} /\ Ranked(buffer)
  <2> DEFINE none == <<>>
  <2>1. Len(none) = 0 /\ Range(none) = {} /\ buffer = none
    BY <1>1 DEF Range
  <2> HIDE DEF none
  <2> QED
    BY <2>1 DEF Ranked
<1>3. Copies(buffer) = {}
  BY <1>2 DEF Copies
<1>4. taken = Jitter!NoCopy
  BY <1>1 DEF NoPacket, Jitter!NoCopy
<1> QED
  BY <1>1, <1>2, <1>3, <1>4, CopiesHeld DEF Settled, InPlace, Jitter!Init

\* However the packets of such a stream arrive, late, doubled, out of order or not at all,
\* whichever do not decode, and whatever stands in for them or is flushed: those that are
\* decoded are taken in the order of their slots, each slot once, by the best copy of it
\* held; and what is dropped came too late, is comfort noise, or is within reach of one
\* that led the end astray.
THEOREM PacketsInTurn == ASSUME Regular PROVE Spec => ImplementsJitterBuffer
<1>1. Init => Paced /\ Settled /\ Jitter!Init
  BY PacedInit, SettledInit
<1>2. Paced /\ Settled /\ [Next]_vars => Paced' /\ Settled'
  BY PacedNext, SettledNext DEF Regular
<1>3. Paced /\ Settled /\ [Next]_vars =>
          [Jitter!Next]_<<{[n |-> p.n, kind |-> KindOf(p)] : p \in Range(buffer)}, taken>>
  BY SettledNext, CopiesHeld DEF JitterStep
<1> QED
  BY <1>1, <1>2, <1>3, PTL DEF Spec, ImplementsJitterBuffer, Jitter!Spec
=============================================================================
