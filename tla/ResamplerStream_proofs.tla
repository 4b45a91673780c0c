----------------------- MODULE ResamplerStream_proofs -----------------------
(***************************************************************************)
(* Theorems about ResamplerStream, for all rates, types, lengths and rooms *)
(* for the output, those of mode 3:2 included.                             *)
(*                                                                         *)
(* They rest on one table, UnitsFlow: what each filter of each mode makes  *)
(* of one unit of input.  A longer input is a multiple of it, so its run   *)
(* through the chain is a multiple of the table's row (ChainServes).       *)
(*                                                                         *)
(* The last part is about the handles of ResamplerApi over such instances: *)
(* what PushSample returns for each length and ratio.                      *)
(***************************************************************************)
EXTENDS ResamplerStream, ResamplerApi, WellFoundedInduction, TLAPS

\* A record of these five fields, whatever they hold: an update of one of them
\* leaves the others.
Whole(x) == x = [type |-> x.type, mode |-> x.mode, khz |-> x.khz, fed |-> x.fed,
                 slaves |-> x.slaves]

\* An instance has two slaves that are equal, or has none and is not stereo.
Twins(x) == \/ x.slaves = <<>> /\ ~Stereo(x.type)
            \/ x.slaves = <<x.slaves[1], x.slaves[1]>>

PairInv == Whole(r) /\ Twins(r)

LEMMA TwinsAligned == Twins(r) => ChannelsAligned
  BY DEF Twins, ChannelsAligned, Channels

\* A reset gives both slaves the same fresh state, or leaves none.
LEMMA ResetTwins ==
    ASSUME NEW x, NEW in, NEW out, NEW type
    PROVE  Whole(Reset(x, in, out, type)) /\ Twins(Reset(x, in, out, type))
<1> DEFINE ratio == Reduced(in, out)
           slave == ResetMono(Constructed, ratio[1], ratio[2], MonoOf(type))
           mono == ResetMono(x, in, out, type)
           pair == IF Stereo(type) THEN <<slave, slave>> ELSE <<>>
<1>1. Whole(mono) /\ mono.type \in {type, "Invalid"}
  BY DEF ResetMono, Whole
<1>2. Reset(x, in, out, type) = [mono EXCEPT !.slaves = pair]
  BY DEF Reset
<1>3. (pair = <<>> /\ ~Stereo(type)) \/ pair = <<slave, slave>>
  OBVIOUS
<1>4. ~Stereo("Invalid")
  BY DEF Stereo
<1> HIDE DEF mono, slave, pair
<1>5. LET q == [mono EXCEPT !.slaves = pair]
      IN  Whole(q) /\ q.slaves = pair /\ q.type = mono.type
  BY <1>1 DEF Whole
<1>6. <<slave, slave>>[1] = slave
  OBVIOUS
<1> QED
  BY <1>1, <1>2, <1>3, <1>4, <1>5, <1>6 DEF Twins

\* A push to a mono instance moves its filters and nothing else.
LEMMA MonoKeeps ==
    ASSUME NEW x, NEW n, NEW room, Whole(x)
    PROVE  LET y == PushMono(x, n, room).res
           IN  /\ Whole(y) /\ y.slaves = x.slaves /\ y.type = x.type
               /\ y.mode = x.mode /\ y.khz = x.khz
<1>1. ASSUME NEW took
      PROVE  LET y == Feed(x, took)
             IN  /\ Whole(y) /\ y.slaves = x.slaves /\ y.type = x.type
                 /\ y.mode = x.mode /\ y.khz = x.khz
  BY <1>1 DEF Feed, Whole
<1>2. \E took : PushMono(x, n, room).res \in {x, Feed(x, took)}
  BY DEF PushMono, Outcome, Rejected
<1> QED
  BY <1>1, <1>2

\* A push to a stereo instance pushes equal halves to equal slaves: what one
\* rejects the other rejects, and what one accepts moves both alike.
LEMMA PushTwins ==
    ASSUME NEW x, NEW n, NEW room, Whole(x), Twins(x)
    PROVE  Whole(Push(x, n, room).res) /\ Twins(Push(x, n, room).res)
<1> DEFINE left  == PushMono(x.slaves[1], n \div 2, room \div 2).res
           right == PushMono(x.slaves[2], n \div 2, room \div 2).res
           after == [x EXCEPT !.slaves = <<left, right>>]
<1>1. CASE Asynchronous(x.type)
  BY <1>1 DEF Push, Rejected, Outcome
<1>2. CASE ~Asynchronous(x.type) /\ ~Stereo(x.type)
  <2>1. Push(x, n, room).res = PushMono(x, n, room).res
    BY <1>2 DEF Push
  <2> QED
    BY <2>1, MonoKeeps DEF Twins
<1>3. CASE ~Asynchronous(x.type) /\ Stereo(x.type)
  <2>1. x.slaves[1] = x.slaves[2]
    BY <1>3 DEF Twins
  <2>2. left = right
    BY <2>1
  <2>3. Push(x, n, room).res = after
    BY <1>3 DEF Push, Rejected, Outcome
  <2> HIDE DEF left, right
  <2>4. Whole(after) /\ after.slaves = <<left, right>>
    BY DEF Whole
  <2> QED
    BY <2>2, <2>3, <2>4 DEF Twins
<1> QED
  BY <1>1, <1>2, <1>3

LEMMA PairInvInit == Init => PairInv
  BY DEF Init, PairInv, Constructed, Whole, Twins, Stereo

LEMMA PairInvNext == PairInv /\ [Next]_vars => PairInv'
<1> SUFFICES ASSUME PairInv, [Next]_vars PROVE PairInv'
  OBVIOUS
<1> USE DEF PairInv
<1>1. CASE UNCHANGED vars
  BY <1>1 DEF vars
<1>2. ASSUME NEW in, NEW out, NEW type, DoReset(in, out, type)
      PROVE  PairInv'
  BY <1>2, ResetTwins DEF DoReset
<1>3. ASSUME NEW in, NEW out, NEW type, DoResetIfNeeded(in, out, type)
      PROVE  PairInv'
  BY <1>2, <1>3 DEF DoResetIfNeeded
<1>4. ASSUME NEW n, NEW room, DoPush(n, room)
      PROVE  PairInv'
  BY <1>4, PushTwins DEF DoPush
<1> QED
  BY <1>1, <1>2, <1>3, <1>4 DEF Next

\* Left and right stay aligned, whatever was accepted, rejected or reset, for
\* every ratio, length and room.
THEOREM Aligned == Spec => []ChannelsAligned
<1>1. PairInv => ChannelsAligned
  BY TwinsAligned DEF PairInv
<1> QED
  BY PairInvInit, PairInvNext, <1>1, PTL DEF Spec

\* What enters a chain.
Entering(n) == [n |-> n, wrote |-> n, took |-> <<>>, fits |-> TRUE, room |-> n]

\* A run of a chain is the run of its filters, one after the other.
LEMMA RunUnfolds ==
    ASSUME NEW m, NEW n, NEW maxLen, Len(m.chain) \in 0 .. 3
    PROVE  /\ RunChain(m, n, maxLen, 0) = Entering(n)
           /\ \A s \in 1 .. Len(m.chain) :
                 RunChain(m, n, maxLen, s) = RunFilter(m.chain[s], RoomAfter(m, s, n, maxLen),
                                                       RunChain(m, n, maxLen, s - 1))
<1> DEFINE l == Len(m.chain)
           step(s, flow) == RunFilter(m.chain[s], RoomAfter(m, s, n, maxLen), flow)
           e(T) == [s \in 0 .. l |-> IF s = 0 THEN Entering(n) ELSE step(s, T[s - 1])]
           r1 == step(1, Entering(n))
           r2 == step(2, r1)
           r3 == step(3, r2)
           Run == CHOOSE T : T = e(T)
           w == [s \in 0 .. l |-> IF s = 0 THEN Entering(n) ELSE IF s = 1 THEN r1
                                  ELSE IF s = 2 THEN r2 ELSE r3]
<1>1. ASSUME NEW s
      PROVE  RunChain(m, n, maxLen, s) = Run[s]
  BY DEF RunChain, Entering
<1>2. l \in 0 .. 3
  OBVIOUS
<1> HIDE DEF l, Run, step
<1>3. w = e(w)
  <2> HIDE DEF r1, r2, r3
  <2> SUFFICES ASSUME NEW s \in 0 .. l
               PROVE  w[s] = e(w)[s]
    OBVIOUS
  <2>1. s = 0 \/ s = 1 \/ s = 2 \/ s = 3
    BY <1>2
  <2>2. s = 0 \/ s - 1 \in 0 .. l
    BY <1>2
  <2>3. e(w)[s] = IF s = 0 THEN Entering(n) ELSE step(s, w[s - 1])
    OBVIOUS
  <2> HIDE DEF e
  <2>4. CASE s = 0
    BY <2>3, <2>4
  <2>5. CASE s = 1
    <3>1. w[0] = Entering(n) /\ w[1] = r1
      BY <2>2, <2>5
    <3> QED
      BY <2>3, <2>5, <3>1 DEF r1
  <2>6. CASE s = 2
    <3>1. w[1] = r1 /\ w[2] = r2
      BY <2>2, <2>6
    <3> QED
      BY <2>3, <2>6, <3>1 DEF r2
  <2>7. CASE s = 3
    <3>1. w[2] = r2 /\ w[3] = r3
      BY <2>2, <2>7
    <3> QED
      BY <2>3, <2>7, <3>1 DEF r3
  <2> QED
    BY <2>1, <2>4, <2>5, <2>6, <2>7
<1> HIDE DEF w
<1>4. Run = e(Run)
  <2> HIDE DEF e
  <2> QED
    BY <1>3 DEF Run
<1>5. ASSUME NEW s \in 0 .. l
      PROVE  Run[s] = IF s = 0 THEN Entering(n) ELSE step(s, Run[s - 1])
  BY <1>4
<1>6. Run[0] = Entering(n)
  BY <1>2, <1>5
<1>7. ASSUME NEW s \in 1 .. l
      PROVE  Run[s] = step(s, Run[s - 1])
  BY <1>2, <1>5
<1> QED
  BY <1>1, <1>6, <1>7 DEF step, l

\* What the filters before one pass on to it is what the one before it makes of
\* what came to that.
LEMMA PassedUnfolds ==
    ASSUME NEW mode, NEW n, Len(ModeOf(mode).chain) \in 0 .. 3
    PROVE  /\ Passed(mode, 1, n) = n
           /\ \A s \in 1 .. Len(ModeOf(mode).chain) :
                 LET f == ModeOf(mode).chain[s]
                 IN  Passed(mode, s + 1, n) = (Passed(mode, s, n) * f.gives) \div f.eats
<1> DEFINE c == ModeOf(mode).chain
           l == Len(c)
           step(s, flow) == (flow * c[s].gives) \div c[s].eats
           e(T) == [s \in 0 .. l |-> IF s = 0 THEN n ELSE step(s, T[s - 1])]
           r1 == step(1, n)
           r2 == step(2, r1)
           r3 == step(3, r2)
           Through == CHOOSE T : T = e(T)
           w == [s \in 0 .. l |-> IF s = 0 THEN n ELSE IF s = 1 THEN r1
                                  ELSE IF s = 2 THEN r2 ELSE r3]
<1>1. ASSUME NEW s
      PROVE  Passed(mode, s, n) = Through[s - 1]
  BY DEF Passed
<1>2. l \in 0 .. 3
  OBVIOUS
<1> HIDE DEF c, l, Through, step
<1>3. w = e(w)
  <2> HIDE DEF r1, r2, r3
  <2> SUFFICES ASSUME NEW s \in 0 .. l
               PROVE  w[s] = e(w)[s]
    OBVIOUS
  <2>1. s = 0 \/ s = 1 \/ s = 2 \/ s = 3
    BY <1>2
  <2>2. s = 0 \/ s - 1 \in 0 .. l
    BY <1>2
  <2>3. e(w)[s] = IF s = 0 THEN n ELSE step(s, w[s - 1])
    OBVIOUS
  <2> HIDE DEF e
  <2>4. CASE s = 0
    BY <2>3, <2>4
  <2>5. CASE s = 1
    <3>1. w[0] = n /\ w[1] = r1
      BY <2>2, <2>5
    <3> QED
      BY <2>3, <2>5, <3>1 DEF r1
  <2>6. CASE s = 2
    <3>1. w[1] = r1 /\ w[2] = r2
      BY <2>2, <2>6
    <3> QED
      BY <2>3, <2>6, <3>1 DEF r2
  <2>7. CASE s = 3
    <3>1. w[2] = r2 /\ w[3] = r3
      BY <2>2, <2>7
    <3> QED
      BY <2>3, <2>7, <3>1 DEF r3
  <2> QED
    BY <2>1, <2>4, <2>5, <2>6, <2>7
<1> HIDE DEF w
<1>4. Through = e(Through)
  <2> HIDE DEF e
  <2> QED
    BY <1>3 DEF Through
<1>5. ASSUME NEW s \in 0 .. l
      PROVE  Through[s] = IF s = 0 THEN n ELSE step(s, Through[s - 1])
  BY <1>4
<1>6. Through[0] = n
  BY <1>2, <1>5
<1>7. ASSUME NEW s \in 1 .. l
      PROVE  Through[s] = step(s, Through[s - 1])
  BY <1>2, <1>5
<1>8. ASSUME NEW s \in 1 .. l
      PROVE  Passed(mode, s + 1, n) = step(s, Passed(mode, s, n))
  <2>1. Passed(mode, s + 1, n) = Through[(s + 1) - 1] /\ (s + 1) - 1 = s
    BY <1>1, <1>2
  <2> QED
    BY <1>1, <1>7, <2>1
<1>9. Passed(mode, 1, n) = n
  BY <1>1, <1>6
<1> QED
  BY <1>8, <1>9 DEF step, l, c

\* The lengths that go through a mode without a sample left over are multiples of
\* this: those its block test lets pass, or of four where it has none.
UnitOf(multiple) == IF multiple = 1 THEN 4 ELSE multiple
Unit(mode) == UnitOf(ModeOf(mode).multiple)

\* v samples become w in a mode; a temporary for v samples has room for w.
Turns(mode, v, w) == w * mode[1] = v * mode[2]
Roomy(p, v, w) == w * p[2] <= v * p[1]

\* Of a unit of v samples, the filters that count in 16 bits get no more than three times.
Short(f, v, w) == TakesWholeLength(f) => w <= 3 * v

Filters == {UpsampleBy2, DownsampleBy2, Resample16to48, Resample48to16, Resample8to22,
            Resample16to22, Resample22to16, Resample22to8}
RoomRatios == Nat \X (Nat \ {0})

LEMMA FiltersCount == \A f \in Filters : f.eats \in Nat \ {0} /\ f.gives \in Nat
  BY DEF Filters, Filter, UpsampleBy2, DownsampleBy2, Resample16to48, Resample48to16,
         Resample8to22, Resample16to22, Resample22to16, Resample22to8

\* What a filter makes of v samples, w, is a whole number b of its blocks.
Blocks(f, v, w, b) == v = f.eats * b /\ w = f.gives * b

\* Of a unit of input the filter s of a mode is passed v[s] samples, which are
\* b[s] of its blocks; they fit its temporary and the last of them are the output.
Flows(mode, v, b) ==
    LET m == ModeOf(mode)
        c == m.chain
    IN  /\ v \in [1 .. 4 -> Nat] /\ b \in [1 .. 3 -> Nat]
        /\ m.multiple \in Nat \ {0} /\ c \in Seq(Filters) /\ Len(c) \in 1 .. 3
        /\ v[1] = Unit(mode) /\ Turns(mode, Unit(mode), v[Len(c) + 1])
        /\ \A s \in 1 .. Len(c) : /\ c[s] \in Filters /\ Blocks(c[s], v[s], v[s + 1], b[s])
                                  /\ Short(c[s], Unit(mode), v[s])
        /\ \A s \in 1 .. (Len(c) - 1) :
              m.rooms[s] \in RoomRatios /\ Roomy(m.rooms[s], Unit(mode), v[s + 1])

LEMMA BlockFilters ==
    \A f \in {Resample16to48, Resample48to16, Resample8to22, Resample16to22, Resample22to16,
              Resample22to8} : ~TakesWholeLength(f)
  BY DEF TakesWholeLength, Filter, UpsampleBy2, DownsampleBy2, Resample16to48, Resample48to16,
         Resample8to22, Resample16to22, Resample22to16, Resample22to8

LEMMA FiltersAre ==
    \A v, w, b \in Nat :
        /\ Blocks(UpsampleBy2, v, w, b) <=> v = b /\ w = 2 * b
        /\ Blocks(DownsampleBy2, v, w, b) <=> v = 2 * b /\ w = b
        /\ Blocks(Resample16to48, v, w, b) <=> v = 160 * b /\ w = 480 * b
        /\ Blocks(Resample48to16, v, w, b) <=> v = 480 * b /\ w = 160 * b
        /\ Blocks(Resample8to22, v, w, b) <=> v = 80 * b /\ w = 220 * b
        /\ Blocks(Resample16to22, v, w, b) <=> v = 160 * b /\ w = 220 * b
        /\ Blocks(Resample22to16, v, w, b) <=> v = 220 * b /\ w = 160 * b
        /\ Blocks(Resample22to8, v, w, b) <=> v = 220 * b /\ w = 80 * b
  BY DEF Blocks, Filter, UpsampleBy2, DownsampleBy2, Resample16to48, Resample48to16,
         Resample8to22, Resample16to22, Resample22to16, Resample22to8

Flow(mode) == \E v, b : Flows(mode, v, b)

\* A mode has these multiple, chain and rooms.
Holds(mode, u, c, p) ==
    ModeOf(mode).multiple = u /\ ModeOf(mode).chain = c /\ ModeOf(mode).rooms = p

LEMMA OneFilter ==
    ASSUME NEW mode, NEW u \in Nat \ {0}, NEW f \in Filters, Holds(mode, u, <<f>>, <<>>),
           NEW v \in Nat, NEW w \in Nat, NEW b \in Nat, Blocks(f, v, w, b),
           v = UnitOf(u), Turns(mode, v, w), Short(f, v, v)
    PROVE  Flows(mode, <<v, w, 0, 0>>, <<b, 0, 0>>)
  BY DEF Flows, Unit, Holds

LEMMA TwoFilters ==
    ASSUME NEW mode, NEW u \in Nat \ {0}, NEW f \in Filters, NEW g \in Filters,
           NEW p \in RoomRatios,
           Holds(mode, u, <<f, g>>, <<p>>),
           NEW v \in Nat, NEW w \in Nat, NEW x \in Nat, NEW b \in Nat, NEW d \in Nat,
           Blocks(f, v, w, b), Blocks(g, w, x, d),
           v = UnitOf(u), Turns(mode, v, x),
           Short(f, v, v), Short(g, v, w), Roomy(p, v, w)
    PROVE  Flows(mode, <<v, w, x, 0>>, <<b, d, 0>>)
  BY DEF Flows, Unit, Holds

LEMMA ThreeFilters ==
    ASSUME NEW mode, NEW u \in Nat \ {0}, NEW f \in Filters, NEW g \in Filters, NEW h \in Filters,
           NEW p \in RoomRatios, NEW q \in RoomRatios,
           Holds(mode, u, <<f, g, h>>, <<p, q>>),
           NEW v \in Nat, NEW w \in Nat, NEW x \in Nat, NEW y \in Nat,
           NEW b \in Nat, NEW d \in Nat, NEW e \in Nat,
           Blocks(f, v, w, b), Blocks(g, w, x, d), Blocks(h, x, y, e),
           v = UnitOf(u), Turns(mode, v, y),
           Short(f, v, v), Short(g, v, w), Short(h, v, x), Roomy(p, v, w), Roomy(q, v, x)
    PROVE  Flows(mode, <<v, w, x, y>>, <<b, d, e>>)
  BY DEF Flows, Unit, Holds

\* So it is in every mode that converts.
LEMMA UnitsFlow ==
    ASSUME NEW mode \in Modes, mode # <<1, 1>>
    PROVE  Flow(mode)
<1>1. Flow(<<1, 2>>)
  <2>1. Holds(<<1, 2>>, 1, <<UpsampleBy2>>, <<>>)
    BY DEF ModeOf, Mode, Plain, Holds
  <2>2. Blocks(UpsampleBy2, 4, 8, 4)
    BY FiltersAre
  <2>3. 4 = UnitOf(1) /\ Turns(<<1, 2>>, 4, 8)
    BY DEF Turns, Roomy, UnitOf
  <2>4. Short(UpsampleBy2, 4, 4)
    BY BlockFilters DEF Short
  <2>5. UpsampleBy2 \in Filters
    BY DEF Filters, RoomRatios
  <2>6. Flows(<<1, 2>>, <<4, 8, 0, 0>>, <<4, 0, 0>>)
    BY <2>1, <2>2, <2>3, <2>4, <2>5, OneFilter
  <2> QED
    BY ONLY <2>6, Zenon DEF Flow
<1>2. Flow(<<1, 3>>)
  <2>1. Holds(<<1, 3>>, 160, <<Resample16to48>>, <<>>)
    BY DEF ModeOf, Mode, Plain, Holds
  <2>2. Blocks(Resample16to48, 160, 480, 1)
    BY FiltersAre
  <2>3. 160 = UnitOf(160) /\ Turns(<<1, 3>>, 160, 480)
    BY DEF Turns, Roomy, UnitOf
  <2>4. Short(Resample16to48, 160, 160)
    BY BlockFilters DEF Short
  <2>5. Resample16to48 \in Filters
    BY DEF Filters, RoomRatios
  <2>6. Flows(<<1, 3>>, <<160, 480, 0, 0>>, <<1, 0, 0>>)
    BY <2>1, <2>2, <2>3, <2>4, <2>5, OneFilter
  <2> QED
    BY ONLY <2>6, Zenon DEF Flow
<1>3. Flow(<<1, 4>>)
  <2>1. Holds(<<1, 4>>, 1, <<UpsampleBy2, UpsampleBy2>>, <<<<2, 1>>>>)
    BY DEF ModeOf, Mode, Plain, Holds
  <2>2. Blocks(UpsampleBy2, 4, 8, 4)
        /\ Blocks(UpsampleBy2, 8, 16, 8)
    BY FiltersAre
  <2>3. 4 = UnitOf(1) /\ Turns(<<1, 4>>, 4, 16)
        /\ Roomy(<<2, 1>>, 4, 8)
    BY DEF Turns, Roomy, UnitOf
  <2>4. Short(UpsampleBy2, 4, 4) /\ Short(UpsampleBy2, 4, 8)
    BY BlockFilters DEF Short
  <2>5. UpsampleBy2 \in Filters /\ <<2, 1>> \in RoomRatios
    BY DEF Filters, RoomRatios
  <2>6. Flows(<<1, 4>>, <<4, 8, 16, 0>>, <<4, 8, 0>>)
    BY <2>1, <2>2, <2>3, <2>4, <2>5, TwoFilters
  <2> QED
    BY ONLY <2>6, Zenon DEF Flow
<1>4. Flow(<<1, 6>>)
  <2>1. Holds(<<1, 6>>, 80, <<UpsampleBy2, Resample16to48>>, <<<<2, 1>>>>)
    BY DEF ModeOf, Mode, Plain, Holds
  <2>2. Blocks(UpsampleBy2, 80, 160, 80)
        /\ Blocks(Resample16to48, 160, 480, 1)
    BY FiltersAre
  <2>3. 80 = UnitOf(80) /\ Turns(<<1, 6>>, 80, 480)
        /\ Roomy(<<2, 1>>, 80, 160)
    BY DEF Turns, Roomy, UnitOf
  <2>4. Short(UpsampleBy2, 80, 80) /\ Short(Resample16to48, 80, 160)
    BY BlockFilters DEF Short
  <2>5. UpsampleBy2 \in Filters /\ Resample16to48 \in Filters /\ <<2, 1>> \in RoomRatios
    BY DEF Filters, RoomRatios
  <2>6. Flows(<<1, 6>>, <<80, 160, 480, 0>>, <<80, 1, 0>>)
    BY <2>1, <2>2, <2>3, <2>4, <2>5, TwoFilters
  <2> QED
    BY ONLY <2>6, Zenon DEF Flow
<1>5. Flow(<<1, 12>>)
  <2>1. Holds(<<1, 12>>, 40, <<UpsampleBy2, UpsampleBy2, Resample16to48>>, <<<<12, 1>>, <<4, 1>>>>)
    BY DEF ModeOf, Mode, Plain, Holds
  <2>2. Blocks(UpsampleBy2, 40, 80, 40)
        /\ Blocks(UpsampleBy2, 80, 160, 80)
        /\ Blocks(Resample16to48, 160, 480, 1)
    BY FiltersAre
  <2>3. 40 = UnitOf(40) /\ Turns(<<1, 12>>, 40, 480)
        /\ Roomy(<<12, 1>>, 40, 80)
        /\ Roomy(<<4, 1>>, 40, 160)
    BY DEF Turns, Roomy, UnitOf
  <2>4. Short(UpsampleBy2, 40, 40) /\ Short(UpsampleBy2, 40, 80) /\ Short(Resample16to48, 40, 160)
    BY BlockFilters DEF Short
  <2>5. /\ UpsampleBy2 \in Filters
        /\ Resample16to48 \in Filters
        /\ <<12, 1>> \in RoomRatios
        /\ <<4, 1>> \in RoomRatios
    BY DEF Filters, RoomRatios
  <2>6. Flows(<<1, 12>>, <<40, 80, 160, 480>>, <<40, 80, 1>>)
    BY <2>1, <2>2, <2>3, <2>4, <2>5, ThreeFilters
  <2> QED
    BY ONLY <2>6, Zenon DEF Flow
<1>6. Flow(<<2, 3>>)
  <2>1. Holds(<<2, 3>>, 160, <<Resample16to48, DownsampleBy2>>, <<<<3, 1>>>>)
    BY DEF ModeOf, Mode, Plain, Holds
  <2>2. Blocks(Resample16to48, 160, 480, 1)
        /\ Blocks(DownsampleBy2, 480, 240, 240)
    BY FiltersAre
  <2>3. 160 = UnitOf(160) /\ Turns(<<2, 3>>, 160, 240)
        /\ Roomy(<<3, 1>>, 160, 480)
    BY DEF Turns, Roomy, UnitOf
  <2>4. Short(Resample16to48, 160, 160) /\ Short(DownsampleBy2, 160, 480)
    BY BlockFilters DEF Short
  <2>5. Resample16to48 \in Filters /\ DownsampleBy2 \in Filters /\ <<3, 1>> \in RoomRatios
    BY DEF Filters, RoomRatios
  <2>6. Flows(<<2, 3>>, <<160, 480, 240, 0>>, <<1, 240, 0>>)
    BY <2>1, <2>2, <2>3, <2>4, <2>5, TwoFilters
  <2> QED
    BY ONLY <2>6, Zenon DEF Flow
<1>7. Flow(<<2, 11>>)
  <2>1. Holds(<<2, 11>>, 80, <<UpsampleBy2, Resample8to22>>, <<<<2, 1>>>>)
    BY DEF ModeOf, Mode, Plain, Holds
  <2>2. Blocks(UpsampleBy2, 80, 160, 80)
        /\ Blocks(Resample8to22, 160, 440, 2)
    BY FiltersAre
  <2>3. 80 = UnitOf(80) /\ Turns(<<2, 11>>, 80, 440)
        /\ Roomy(<<2, 1>>, 80, 160)
    BY DEF Turns, Roomy, UnitOf
  <2>4. Short(UpsampleBy2, 80, 80) /\ Short(Resample8to22, 80, 160)
    BY BlockFilters DEF Short
  <2>5. UpsampleBy2 \in Filters /\ Resample8to22 \in Filters /\ <<2, 1>> \in RoomRatios
    BY DEF Filters, RoomRatios
  <2>6. Flows(<<2, 11>>, <<80, 160, 440, 0>>, <<80, 2, 0>>)
    BY <2>1, <2>2, <2>3, <2>4, <2>5, TwoFilters
  <2> QED
    BY ONLY <2>6, Zenon DEF Flow
<1>8. Flow(<<4, 11>>)
  <2>1. Holds(<<4, 11>>, 80, <<Resample8to22>>, <<>>)
    BY DEF ModeOf, Mode, Plain, Holds
  <2>2. Blocks(Resample8to22, 80, 220, 1)
    BY FiltersAre
  <2>3. 80 = UnitOf(80) /\ Turns(<<4, 11>>, 80, 220)
    BY DEF Turns, Roomy, UnitOf
  <2>4. Short(Resample8to22, 80, 80)
    BY BlockFilters DEF Short
  <2>5. Resample8to22 \in Filters
    BY DEF Filters, RoomRatios
  <2>6. Flows(<<4, 11>>, <<80, 220, 0, 0>>, <<1, 0, 0>>)
    BY <2>1, <2>2, <2>3, <2>4, <2>5, OneFilter
  <2> QED
    BY ONLY <2>6, Zenon DEF Flow
<1>9. Flow(<<8, 11>>)
  <2>1. Holds(<<8, 11>>, 160, <<Resample16to22>>, <<>>)
    BY DEF ModeOf, Mode, Plain, Holds
  <2>2. Blocks(Resample16to22, 160, 220, 1)
    BY FiltersAre
  <2>3. 160 = UnitOf(160) /\ Turns(<<8, 11>>, 160, 220)
    BY DEF Turns, Roomy, UnitOf
  <2>4. Short(Resample16to22, 160, 160)
    BY BlockFilters DEF Short
  <2>5. Resample16to22 \in Filters
    BY DEF Filters, RoomRatios
  <2>6. Flows(<<8, 11>>, <<160, 220, 0, 0>>, <<1, 0, 0>>)
    BY <2>1, <2>2, <2>3, <2>4, <2>5, OneFilter
  <2> QED
    BY ONLY <2>6, Zenon DEF Flow
<1>10. Flow(<<11, 16>>)
  <2>1. Holds(<<11, 16>>, 110, <<UpsampleBy2, Resample22to16>>, <<<<2, 1>>>>)
    BY DEF ModeOf, Mode, Plain, Holds
  <2>2. Blocks(UpsampleBy2, 110, 220, 110)
        /\ Blocks(Resample22to16, 220, 160, 1)
    BY FiltersAre
  <2>3. 110 = UnitOf(110) /\ Turns(<<11, 16>>, 110, 160)
        /\ Roomy(<<2, 1>>, 110, 220)
    BY DEF Turns, Roomy, UnitOf
  <2>4. Short(UpsampleBy2, 110, 110) /\ Short(Resample22to16, 110, 220)
    BY BlockFilters DEF Short
  <2>5. UpsampleBy2 \in Filters /\ Resample22to16 \in Filters /\ <<2, 1>> \in RoomRatios
    BY DEF Filters, RoomRatios
  <2>6. Flows(<<11, 16>>, <<110, 220, 160, 0>>, <<110, 1, 0>>)
    BY <2>1, <2>2, <2>3, <2>4, <2>5, TwoFilters
  <2> QED
    BY ONLY <2>6, Zenon DEF Flow
<1>11. Flow(<<11, 32>>)
  <2>1. Holds(<<11, 32>>, 110, <<UpsampleBy2, Resample22to16, UpsampleBy2>>,
              <<<<32, 11>>, <<2, 1>>>>)
    BY DEF ModeOf, Mode, Plain, Holds
  <2>2. Blocks(UpsampleBy2, 110, 220, 110)
        /\ Blocks(Resample22to16, 220, 160, 1)
        /\ Blocks(UpsampleBy2, 160, 320, 160)
    BY FiltersAre
  <2>3. 110 = UnitOf(110) /\ Turns(<<11, 32>>, 110, 320)
        /\ Roomy(<<32, 11>>, 110, 220)
        /\ Roomy(<<2, 1>>, 110, 160)
    BY DEF Turns, Roomy, UnitOf
  <2>4. /\ Short(UpsampleBy2, 110, 110)
        /\ Short(Resample22to16, 110, 220)
        /\ Short(UpsampleBy2, 110, 160)
    BY BlockFilters DEF Short
  <2>5. /\ UpsampleBy2 \in Filters
        /\ Resample22to16 \in Filters
        /\ <<32, 11>> \in RoomRatios
        /\ <<2, 1>> \in RoomRatios
    BY DEF Filters, RoomRatios
  <2>6. Flows(<<11, 32>>, <<110, 220, 160, 320>>, <<110, 1, 160>>)
    BY <2>1, <2>2, <2>3, <2>4, <2>5, ThreeFilters
  <2> QED
    BY ONLY <2>6, Zenon DEF Flow
<1>12. Flow(<<2, 1>>)
  <2>1. Holds(<<2, 1>>, 1, <<DownsampleBy2>>, <<>>)
    BY DEF ModeOf, Mode, Plain, Holds
  <2>2. Blocks(DownsampleBy2, 4, 2, 2)
    BY FiltersAre
  <2>3. 4 = UnitOf(1) /\ Turns(<<2, 1>>, 4, 2)
    BY DEF Turns, Roomy, UnitOf
  <2>4. Short(DownsampleBy2, 4, 4)
    BY BlockFilters DEF Short
  <2>5. DownsampleBy2 \in Filters
    BY DEF Filters, RoomRatios
  <2>6. Flows(<<2, 1>>, <<4, 2, 0, 0>>, <<2, 0, 0>>)
    BY <2>1, <2>2, <2>3, <2>4, <2>5, OneFilter
  <2> QED
    BY ONLY <2>6, Zenon DEF Flow
<1>13. Flow(<<3, 1>>)
  <2>1. Holds(<<3, 1>>, 480, <<Resample48to16>>, <<>>)
    BY DEF ModeOf, Mode, Plain, Holds
  <2>2. Blocks(Resample48to16, 480, 160, 1)
    BY FiltersAre
  <2>3. 480 = UnitOf(480) /\ Turns(<<3, 1>>, 480, 160)
    BY DEF Turns, Roomy, UnitOf
  <2>4. Short(Resample48to16, 480, 480)
    BY BlockFilters DEF Short
  <2>5. Resample48to16 \in Filters
    BY DEF Filters, RoomRatios
  <2>6. Flows(<<3, 1>>, <<480, 160, 0, 0>>, <<1, 0, 0>>)
    BY <2>1, <2>2, <2>3, <2>4, <2>5, OneFilter
  <2> QED
    BY ONLY <2>6, Zenon DEF Flow
<1>14. Flow(<<4, 1>>)
  <2>1. Holds(<<4, 1>>, 1, <<DownsampleBy2, DownsampleBy2>>, <<<<1, 2>>>>)
    BY DEF ModeOf, Mode, Plain, Holds
  <2>2. Blocks(DownsampleBy2, 4, 2, 2)
        /\ Blocks(DownsampleBy2, 2, 1, 1)
    BY FiltersAre
  <2>3. 4 = UnitOf(1) /\ Turns(<<4, 1>>, 4, 1)
        /\ Roomy(<<1, 2>>, 4, 2)
    BY DEF Turns, Roomy, UnitOf
  <2>4. Short(DownsampleBy2, 4, 4) /\ Short(DownsampleBy2, 4, 2)
    BY BlockFilters DEF Short
  <2>5. DownsampleBy2 \in Filters /\ <<1, 2>> \in RoomRatios
    BY DEF Filters, RoomRatios
  <2>6. Flows(<<4, 1>>, <<4, 2, 1, 0>>, <<2, 1, 0>>)
    BY <2>1, <2>2, <2>3, <2>4, <2>5, TwoFilters
  <2> QED
    BY ONLY <2>6, Zenon DEF Flow
<1>15. Flow(<<6, 1>>)
  <2>1. Holds(<<6, 1>>, 480, <<Resample48to16, DownsampleBy2>>, <<<<1, 3>>>>)
    BY DEF ModeOf, Mode, Plain, Holds
  <2>2. Blocks(Resample48to16, 480, 160, 1)
        /\ Blocks(DownsampleBy2, 160, 80, 80)
    BY FiltersAre
  <2>3. 480 = UnitOf(480) /\ Turns(<<6, 1>>, 480, 80)
        /\ Roomy(<<1, 3>>, 480, 160)
    BY DEF Turns, Roomy, UnitOf
  <2>4. Short(Resample48to16, 480, 480) /\ Short(DownsampleBy2, 480, 160)
    BY BlockFilters DEF Short
  <2>5. Resample48to16 \in Filters /\ DownsampleBy2 \in Filters /\ <<1, 3>> \in RoomRatios
    BY DEF Filters, RoomRatios
  <2>6. Flows(<<6, 1>>, <<480, 160, 80, 0>>, <<1, 80, 0>>)
    BY <2>1, <2>2, <2>3, <2>4, <2>5, TwoFilters
  <2> QED
    BY ONLY <2>6, Zenon DEF Flow
<1>16. Flow(<<12, 1>>)
  <2>1. Holds(<<12, 1>>, 480, <<Resample48to16, DownsampleBy2, DownsampleBy2>>,
              <<<<1, 3>>, <<1, 6>>>>)
    BY DEF ModeOf, Mode, Plain, Holds
  <2>2. Blocks(Resample48to16, 480, 160, 1)
        /\ Blocks(DownsampleBy2, 160, 80, 80)
        /\ Blocks(DownsampleBy2, 80, 40, 40)
    BY FiltersAre
  <2>3. 480 = UnitOf(480) /\ Turns(<<12, 1>>, 480, 40)
        /\ Roomy(<<1, 3>>, 480, 160)
        /\ Roomy(<<1, 6>>, 480, 80)
    BY DEF Turns, Roomy, UnitOf
  <2>4. /\ Short(Resample48to16, 480, 480)
        /\ Short(DownsampleBy2, 480, 160)
        /\ Short(DownsampleBy2, 480, 80)
    BY BlockFilters DEF Short
  <2>5. /\ Resample48to16 \in Filters
        /\ DownsampleBy2 \in Filters
        /\ <<1, 3>> \in RoomRatios
        /\ <<1, 6>> \in RoomRatios
    BY DEF Filters, RoomRatios
  <2>6. Flows(<<12, 1>>, <<480, 160, 80, 40>>, <<1, 80, 40>>)
    BY <2>1, <2>2, <2>3, <2>4, <2>5, ThreeFilters
  <2> QED
    BY ONLY <2>6, Zenon DEF Flow
<1>17. Flow(<<3, 2>>)
  <2>1. Holds(<<3, 2>>, 240, <<UpsampleBy2, Resample48to16>>, <<<<2, 1>>>>)
    BY DEF ModeOf, Mode, Plain, Holds
  <2>2. Blocks(UpsampleBy2, 240, 480, 240)
        /\ Blocks(Resample48to16, 480, 160, 1)
    BY FiltersAre
  <2>3. 240 = UnitOf(240) /\ Turns(<<3, 2>>, 240, 160)
        /\ Roomy(<<2, 1>>, 240, 480)
    BY DEF Turns, Roomy, UnitOf
  <2>4. Short(UpsampleBy2, 240, 240) /\ Short(Resample48to16, 240, 480)
    BY BlockFilters DEF Short
  <2>5. UpsampleBy2 \in Filters /\ Resample48to16 \in Filters /\ <<2, 1>> \in RoomRatios
    BY DEF Filters, RoomRatios
  <2>6. Flows(<<3, 2>>, <<240, 480, 160, 0>>, <<240, 1, 0>>)
    BY <2>1, <2>2, <2>3, <2>4, <2>5, TwoFilters
  <2> QED
    BY ONLY <2>6, Zenon DEF Flow
<1>18. Flow(<<11, 2>>)
  <2>1. Holds(<<11, 2>>, 220, <<Resample22to8, DownsampleBy2>>, <<<<4, 11>>>>)
    BY DEF ModeOf, Mode, Plain, Holds
  <2>2. Blocks(Resample22to8, 220, 80, 1)
        /\ Blocks(DownsampleBy2, 80, 40, 40)
    BY FiltersAre
  <2>3. 220 = UnitOf(220) /\ Turns(<<11, 2>>, 220, 40)
        /\ Roomy(<<4, 11>>, 220, 80)
    BY DEF Turns, Roomy, UnitOf
  <2>4. Short(Resample22to8, 220, 220) /\ Short(DownsampleBy2, 220, 80)
    BY BlockFilters DEF Short
  <2>5. Resample22to8 \in Filters /\ DownsampleBy2 \in Filters /\ <<4, 11>> \in RoomRatios
    BY DEF Filters, RoomRatios
  <2>6. Flows(<<11, 2>>, <<220, 80, 40, 0>>, <<1, 40, 0>>)
    BY <2>1, <2>2, <2>3, <2>4, <2>5, TwoFilters
  <2> QED
    BY ONLY <2>6, Zenon DEF Flow
<1>19. Flow(<<11, 4>>)
  <2>1. Holds(<<11, 4>>, 220, <<Resample22to8>>, <<>>)
    BY DEF ModeOf, Mode, Plain, Holds
  <2>2. Blocks(Resample22to8, 220, 80, 1)
    BY FiltersAre
  <2>3. 220 = UnitOf(220) /\ Turns(<<11, 4>>, 220, 80)
    BY DEF Turns, Roomy, UnitOf
  <2>4. Short(Resample22to8, 220, 220)
    BY BlockFilters DEF Short
  <2>5. Resample22to8 \in Filters
    BY DEF Filters, RoomRatios
  <2>6. Flows(<<11, 4>>, <<220, 80, 0, 0>>, <<1, 0, 0>>)
    BY <2>1, <2>2, <2>3, <2>4, <2>5, OneFilter
  <2> QED
    BY ONLY <2>6, Zenon DEF Flow
<1>20. Flow(<<11, 8>>)
  <2>1. Holds(<<11, 8>>, 220, <<Resample22to16>>, <<>>)
    BY DEF ModeOf, Mode, Plain, Holds
  <2>2. Blocks(Resample22to16, 220, 160, 1)
    BY FiltersAre
  <2>3. 220 = UnitOf(220) /\ Turns(<<11, 8>>, 220, 160)
    BY DEF Turns, Roomy, UnitOf
  <2>4. Short(Resample22to16, 220, 220)
    BY BlockFilters DEF Short
  <2>5. Resample22to16 \in Filters
    BY DEF Filters, RoomRatios
  <2>6. Flows(<<11, 8>>, <<220, 160, 0, 0>>, <<1, 0, 0>>)
    BY <2>1, <2>2, <2>3, <2>4, <2>5, OneFilter
  <2> QED
    BY ONLY <2>6, Zenon DEF Flow
<1>21. \/ mode = <<1, 2>> \/ mode = <<1, 3>> \/ mode = <<1, 4>>
       \/ mode = <<1, 6>> \/ mode = <<1, 12>>
      \/ mode = <<2, 3>> \/ mode = <<2, 11>> \/ mode = <<4, 11>>
      \/ mode = <<8, 11>> \/ mode = <<11, 16>>
      \/ mode = <<11, 32>> \/ mode = <<2, 1>> \/ mode = <<3, 1>>
      \/ mode = <<4, 1>> \/ mode = <<6, 1>>
      \/ mode = <<12, 1>> \/ mode = <<3, 2>> \/ mode = <<11, 2>>
      \/ mode = <<11, 4>> \/ mode = <<11, 8>>
  BY DEF Modes
<1> QED
  BY <1>1, <1>2, <1>3, <1>4, <1>5, <1>6, <1>7, <1>8, <1>9, <1>10, <1>11, <1>12, <1>13, <1>14,
     <1>15, <1>16, <1>17, <1>18, <1>19, <1>20, <1>21

LEMMA TimesMonotone == \A a, b, c \in Nat : a <= b => a * c <= b * c
BY SMT

LEMMA TimesReordered ==
    \A a, b, c \in Nat : /\ a * b \in Nat /\ a * b = b * a
                         /\ a * (b * c) = (a * b) * c /\ (a * b) * c = (a * c) * b
BY SMT

LEMMA TimesDistributes == \A a, b, c \in Nat : a * (b + c) = a * b + a * c /\ a * b \in Nat
BY SMT

LEMMA DividedType ==
    ASSUME NEW a \in Nat, NEW b \in Nat \ {0}
    PROVE  a \div b \in Nat /\ a % b \in Nat
BY SMT

\* Whole blocks are divided exactly, and what is added to fill up one is not one.
LEMMA DividedExactly ==
    ASSUME NEW a \in Nat \ {0}, NEW b \in Nat
    PROVE  (a * b) \div a = b /\ (a * b + a - 1) \div a = b /\ (a * b) % a = 0
BY SMT

LEMMA DividedNoRest ==
    ASSUME NEW a \in Nat, NEW b \in Nat \ {0}, a % b = 0
    PROVE  a \div b \in Nat /\ a = b * (a \div b)
BY SMT

\* As many as come to no more than a number are no more than it holds.
LEMMA DividedMost ==
    ASSUME NEW a \in Nat, NEW b \in Nat \ {0}, NEW c \in Nat, c * b <= a
    PROVE  c <= a \div b
<1> DEFINE q == a \div b
           rest == a % b
<1>1. q \in Nat /\ rest \in 0 .. (b - 1) /\ a = b * q + rest
  BY SMT
<1> HIDE DEF q, rest
<1> SUFFICES ASSUME q + 1 <= c PROVE FALSE
  BY <1>1 DEF q
<1>2. (q + 1) * b <= c * b
  BY <1>1, TimesMonotone
<1>3. (q + 1) * b = b * (q + 1) /\ b * (q + 1) = b * q + b * 1
  <2>1. q + 1 \in Nat /\ b \in Nat /\ 1 \in Nat
    BY <1>1
  <2> QED
    BY <1>1, <2>1, TimesReordered, TimesDistributes
<1> QED
  BY <1>1, <1>2, <1>3

\* What a filter makes of k units, its share of each being whole blocks.
LEMMA OneShare ==
    ASSUME NEW f \in Filters, NEW v \in Nat, NEW w \in Nat, NEW b \in Nat, Blocks(f, v, w, b),
           NEW k \in Nat
    PROVE  /\ b * k \in Nat /\ v * k = f.eats * (b * k) /\ w * k = (b * k) * f.gives
           /\ (v * k * f.gives) \div f.eats = w * k
<1> DEFINE e == f.eats
           g == f.gives
           j == b * k
           z == g * j
<1>1. e \in Nat \ {0} /\ g \in Nat
  BY FiltersCount
<1>2. v = e * b /\ w = g * b
  BY DEF Blocks
<1> HIDE DEF e, g
<1>3. j \in Nat /\ (e * b) * k = e * (b * k) /\ (g * b) * k = g * (b * k)
  BY <1>1, TimesReordered
<1>4. v * k = e * j /\ w * k = z
  BY <1>2, <1>3
<1> HIDE DEF j
<1>5. z = j * g /\ z \in Nat /\ (e * j) * g = e * (j * g)
  BY <1>1, <1>3, TimesReordered
<1> HIDE DEF z
<1>6. v * k * g = e * z
  BY <1>4, <1>5
<1>7. (e * z) \div e = z
  BY <1>1, <1>5, DividedExactly
<1> QED
  BY <1>3, <1>4, <1>5, <1>6, <1>7 DEF e, g, j

\* A filter takes the whole of k units and gives all its blocks.
LEMMA OneRun ==
    ASSUME NEW f \in Filters, NEW v \in Nat, NEW w \in Nat, NEW b \in Nat, Blocks(f, v, w, b),
           NEW k \in Nat, TakesWholeLength(f) => v * k < 32768
    PROVE  /\ BlocksTaken(f, v * k) * f.eats = v * k
           /\ BlocksTaken(f, v * k) * f.gives = w * k
           /\ (v * k * f.gives) \div f.eats = w * k
<1> DEFINE e == f.eats
           j == b * k
           n == v * k
<1>1. e \in Nat \ {0}
  BY FiltersCount
<1>2. j \in Nat /\ n = e * j /\ w * k = j * f.gives /\ (v * k * f.gives) \div e = w * k
  BY OneShare
<1>3. TakesWholeLength(f) => n < 32768
  OBVIOUS
<1> HIDE DEF e, j, n
<1>4. (e * j) \div e = j /\ (e * j + e - 1) \div e = j /\ e * j \in Nat /\ e * j = j * e
  BY <1>1, <1>2, DividedExactly, TimesReordered
<1>5. BlocksTaken(f, n) = j
  <2>1. CASE TakesWholeLength(f)
    <3>1. ToInt16(n) = n
      BY <1>2, <1>3, <1>4, <2>1 DEF ToInt16
    <3>2. BlocksTaken(f, n) = IF n > 0 THEN n \div e ELSE 0
      BY <2>1, <3>1 DEF BlocksTaken, e
    <3>3. CASE n > 0
      BY <1>2, <1>4, <3>2, <3>3
    <3>4. CASE ~(n > 0)
      <4>1. n = 0
        BY <1>2, <1>4, <3>4
      <4>2. n \div e = 0
        BY <1>1, <4>1
      <4> QED
        BY <1>2, <1>4, <3>2, <3>4, <4>2
    <3> QED
      BY <3>3, <3>4
  <2>2. CASE ~TakesWholeLength(f)
    <3>1. BlocksTaken(f, n) = (n + e - 1) \div e
      BY <2>2 DEF BlocksTaken, e
    <3> QED
      BY <1>2, <1>4, <3>1
  <2> QED
    BY <2>1, <2>2
<1> QED
  BY <1>2, <1>4, <1>5 DEF e, n

\* After s filters of a chain that k units entered: all that came went through, and
\* every filter took what it was passed.
Along(v, k, s, flow) ==
    /\ flow.n = v[s + 1] * k /\ flow.wrote = v[s + 1] * k /\ flow.fits
    /\ v[s + 1] * k <= flow.room
    /\ flow.took \in Seq(Nat) /\ Len(flow.took) = s
    /\ \A t \in 1 .. s : flow.took[t] = v[t] * k

LEMMA FilterFits ==
    ASSUME NEW f, NEW room, NEW flow
    PROVE  RunFilter(f, room, flow).fits <=>
               /\ flow.fits /\ BlocksTaken(f, flow.n) * f.eats <= flow.room
               /\ BlocksTaken(f, flow.n) * f.gives <= room
  BY DEF RunFilter

LEMMA FilterGives ==
    ASSUME NEW f, NEW room, NEW flow
    PROVE  LET after == RunFilter(f, room, flow)
               j == BlocksTaken(f, flow.n)
           IN  /\ after.n = (flow.n * f.gives) \div f.eats /\ after.wrote = j * f.gives
               /\ after.took = Append(flow.took, j * f.eats) /\ after.room = room
  BY DEF RunFilter

LEMMA AlongBegins ==
    ASSUME NEW v \in [1 .. 4 -> Nat], NEW k \in Nat
    PROVE  Along(v, k, 0, Entering(v[1] * k))
<1> DEFINE n == v[1] * k
           flow == Entering(n)
<1>1. n \in Nat
  BY TimesReordered
<1> HIDE DEF n
<1>2. flow.n = n /\ flow.wrote = n /\ flow.room = n /\ flow.took = <<>>
  BY DEF Entering
<1>3. flow.fits
  BY DEF Entering
<1>4. <<>> \in Seq(Nat) /\ Len(<<>>) = 0
  OBVIOUS
<1> HIDE DEF flow
<1>5. v[0 + 1] * k = n
  BY DEF n
<1> SUFFICES Along(v, k, 0, flow)
  BY DEF flow, n
<1>6. flow.took \in Seq(Nat) /\ Len(flow.took) = 0 /\ \A t \in 1 .. 0 : flow.took[t] = v[t] * k
  BY <1>2, <1>4
<1>7. flow.n = v[0 + 1] * k /\ flow.wrote = v[0 + 1] * k /\ v[0 + 1] * k <= flow.room
  BY <1>1, <1>2, <1>5
<1> QED
  BY <1>3, <1>6, <1>7, Zenon DEF Along

LEMMA AlongGoesOn ==
    ASSUME NEW v \in [1 .. 4 -> Nat], NEW k \in Nat, NEW b \in Nat, NEW s \in 1 .. 3,
           NEW f \in Filters, Blocks(f, v[s], v[s + 1], b),
           TakesWholeLength(f) => v[s] * k < 32768,
           NEW flow, Along(v, k, s - 1, flow), NEW room, v[s + 1] * k <= room
    PROVE  Along(v, k, s, RunFilter(f, room, flow))
<1> DEFINE after == RunFilter(f, room, flow)
           n == v[s] * k
           w == v[s + 1] * k
           j == BlocksTaken(f, n)
<1>1. flow.n = n /\ n <= flow.room
  <2>1. (s - 1) + 1 = s
    OBVIOUS
  <2> QED
    BY <2>1 DEF Along
<1>2. n \in Nat /\ w \in Nat
  BY TimesReordered
<1>3. j * f.eats = n /\ j * f.gives = w /\ (n * f.gives) \div f.eats = w
  BY OneRun
<1>4. /\ flow.took \in Seq(Nat) /\ Len(flow.took) = s - 1
      /\ \A t \in 1 .. (s - 1) : flow.took[t] = v[t] * k
  BY DEF Along
<1>5. flow.fits
  BY DEF Along
<1> HIDE DEF n, w
<1>6. /\ after.n = (n * f.gives) \div f.eats /\ after.wrote = j * f.gives
      /\ after.took = Append(flow.took, j * f.eats) /\ after.room = room
  <2>1. flow.n = n
    BY <1>1
  <2> QED
    BY ONLY <2>1, FilterGives
<1>7. after.fits
  <2>1. j * f.eats <= flow.room /\ j * f.gives <= room
    <3> HIDE DEF j
    <3> QED
      BY <1>1, <1>3 DEF w
  <2>2. BlocksTaken(f, flow.n) = j
    BY <1>1
  <2> HIDE DEF j, after
  <2>3. /\ BlocksTaken(f, flow.n) * f.eats <= flow.room
        /\ BlocksTaken(f, flow.n) * f.gives <= room
    BY <2>1, <2>2
  <2> QED
    BY <1>5, <2>3, FilterFits DEF after
<1> HIDE DEF after, j
<1>8. after.n = w /\ after.wrote = w /\ w <= after.room
  BY <1>3, <1>6 DEF w
<1>9. /\ after.took \in Seq(Nat) /\ Len(after.took) = s
      /\ \A t \in 1 .. s : after.took[t] = v[t] * k
  <2> DEFINE q == flow.took
  <2>1. after.took = Append(q, n)
    BY <1>3, <1>6
  <2>2. q \in Seq(Nat) /\ Len(q) = s - 1 /\ \A t \in 1 .. (s - 1) : q[t] = v[t] * k
    BY <1>4
  <2> HIDE DEF q
  <2>3. Append(q, n) \in Seq(Nat) /\ Len(Append(q, n)) = s
    BY <1>2, <2>2
  <2>4. \A t \in 1 .. s : Append(q, n)[t] = IF t = s THEN n ELSE q[t]
    <3>1. q \in Seq(Nat) /\ Len(q) = s - 1 /\ n \in Nat
      BY <1>2, <2>2
    <3> QED
      BY ONLY <3>1, s \in 1 .. 3
  <2> DEFINE z == Append(q, n)
  <2>5. z \in Seq(Nat) /\ Len(z) = s
    BY <2>3
  <2>6. \A t \in 1 .. s : z[t] = IF t = s THEN n ELSE q[t]
    BY ONLY <2>4
  <2> HIDE DEF z
  <2>7. \A t \in 1 .. s : z[t] = v[t] * k
    <3> SUFFICES ASSUME NEW t \in 1 .. s PROVE z[t] = v[t] * k
      OBVIOUS
    <3>1. CASE t = s
      <4>1. z[t] = n
        BY <2>6, <3>1
      <4> HIDE DEF z
      <4> QED
        BY ONLY <3>1, <4>1 DEF n
    <3>2. CASE t # s
      <4>1. t \in 1 .. (s - 1)
        BY <3>2
      <4>2. z[t] = q[t]
        BY <2>6, <3>2
      <4>3. q[t] = v[t] * k
        BY <2>2, <4>1
      <4> QED
        BY <4>2, <4>3
    <3> QED
      BY <3>1, <3>2
  <2>8. after.took = z
    BY <2>1 DEF z
  <2> QED
    BY ONLY <2>5, <2>7, <2>8
<1> SUFFICES Along(v, k, s, after)
  BY DEF after
<1> HIDE DEF n
<1> QED
  BY <1>7, <1>8, <1>9 DEF Along, w

LEMMA ModesPositive == \A mode \in Modes : mode[1] \in Nat \ {0} /\ mode[2] \in Nat \ {0}
  BY DEF Modes

\* What a mode takes whole is so many units of it.
LEMMA WholeUnits ==
    ASSUME NEW mode, ModeOf(mode).multiple \in Nat \ {0},
           NEW n \in Nat, n % 4 = 0, n % ModeOf(mode).multiple = 0
    PROVE  Unit(mode) \in Nat \ {0} /\ \E k \in Nat : n = Unit(mode) * k
<1> DEFINE u == Unit(mode)
           k == n \div u
<1>1. u \in Nat \ {0} /\ n % u = 0
  BY DEF Unit, UnitOf
<1> HIDE DEF u
<1>2. k \in Nat /\ n = u * k
  BY <1>1, DividedNoRest
<1> HIDE DEF k
<1> QED
  BY <1>1, <1>2 DEF u

\* Each filter is passed its share of the units that come.
LEMMA PassedOfUnits ==
    ASSUME NEW mode, NEW v, NEW b, Flows(mode, v, b), NEW k \in Nat
    PROVE  \A s \in 1 .. Len(ModeOf(mode).chain) : Passed(mode, s, Unit(mode) * k) = v[s] * k
<1> DEFINE c == ModeOf(mode).chain
           n == Unit(mode) * k
<1>1. /\ v \in [1 .. 4 -> Nat] /\ b \in [1 .. 3 -> Nat] /\ Len(c) \in 1 .. 3 /\ v[1] = Unit(mode)
  BY DEF Flows
<1>8. \A s \in 1 .. Len(c) : c[s] \in Filters /\ Blocks(c[s], v[s], v[s + 1], b[s])
  BY DEF Flows
<1>2. /\ Passed(mode, 1, n) = n
      /\ \A s \in 1 .. Len(c) :
            Passed(mode, s + 1, n) = (Passed(mode, s, n) * c[s].gives) \div c[s].eats
  <2>1. Len(ModeOf(mode).chain) \in 0 .. 3
    BY <1>1
  <2> QED
    BY <2>1, PassedUnfolds
<1> HIDE DEF c
<1>3. Passed(mode, 1, n) = v[1] * k
  BY <1>1, <1>2
<1> HIDE DEF n
<1>9. \A s \in 1 .. Len(c) : s \in {1, 2, 3}
  <2> DEFINE l == Len(c)
  <2>1. l \in 1 .. 3
    BY <1>1
  <2> HIDE DEF l
  <2>2. \A s \in 1 .. l : s \in {1, 2, 3}
    BY <2>1
  <2> QED
    BY <2>2 DEF l
<1>4. ASSUME NEW s \in 1 .. Len(c), Passed(mode, s, n) = v[s] * k
      PROVE  Passed(mode, s + 1, n) = v[s + 1] * k
  <2>1. /\ c[s] \in Filters /\ Blocks(c[s], v[s], v[s + 1], b[s])
        /\ v[s] \in Nat /\ v[s + 1] \in Nat /\ b[s] \in Nat
    <3>1. s \in 1 .. 3 /\ s \in 1 .. 4 /\ s + 1 \in 1 .. 4
      BY <1>9
    <3>2. v[s] \in Nat /\ v[s + 1] \in Nat /\ b[s] \in Nat
      BY <1>1, <3>1
    <3>3. c[s] \in Filters /\ Blocks(c[s], v[s], v[s + 1], b[s])
      BY <1>8
    <3> QED
      BY <3>2, <3>3
  <2>2. (v[s] * k * c[s].gives) \div c[s].eats = v[s + 1] * k
    <3> DEFINE f == c[s]
               x == v[s]
               y == v[s + 1]
               z == b[s]
    <3>1. f \in Filters /\ Blocks(f, x, y, z) /\ x \in Nat /\ y \in Nat /\ z \in Nat
      BY <2>1
    <3> HIDE DEF f, x, y, z
    <3>2. (x * k * f.gives) \div f.eats = y * k
      BY ONLY <3>1, k \in Nat, OneShare
    <3> QED
      BY <3>2 DEF f, x, y
  <2> QED
    BY <1>2, <1>4, <2>2
<1>5. Len(c) >= 2 => Passed(mode, 2, n) = v[2] * k
  BY <1>1, <1>3, <1>4
<1>6. Len(c) >= 3 => Passed(mode, 3, n) = v[3] * k
  BY <1>1, <1>4, <1>5
<1>7. ASSUME NEW s \in 1 .. Len(c)
      PROVE  Passed(mode, s, n) = v[s] * k
  <2>1. s = 1 \/ s = 2 \/ s = 3
    BY <1>9
  <2> QED
    BY <1>1, <1>3, <1>5, <1>6, <2>1
<1> QED
  BY <1>7 DEF c, n

\* What a mode takes whole goes through its chain: every filter takes what it is
\* passed, no buffer overflows and the output is the length converted.
LEMMA ChainServes ==
    ASSUME NEW mode \in Modes, mode # <<1, 1>>, NEW n \in Nat, n % 4 = 0, 3 * n < 32768,
           n % ModeOf(mode).multiple = 0, NEW maxLen \in Nat, Converted(mode, n) <= maxLen
    PROVE  LET c == ModeOf(mode).chain
               whole == RunChain(ModeOf(mode), n, maxLen, Len(c))
           IN  /\ whole.fits /\ whole.n = Converted(mode, n) /\ whole.wrote = Converted(mode, n)
               /\ whole.took \in Seq(Nat) /\ Len(whole.took) = Len(c)
               /\ \A s \in 1 .. Len(c) : whole.took[s] = Passed(mode, s, n)
<1> DEFINE m == ModeOf(mode)
           c == m.chain
           u == Unit(mode)
           l == Len(c)
<1>1. PICK v, b : Flows(mode, v, b)
  <2>1. Flow(mode)
    BY UnitsFlow
  <2> QED
    BY ONLY <2>1, Zenon DEF Flow
<1>2. /\ v \in [1 .. 4 -> Nat] /\ b \in [1 .. 3 -> Nat] /\ l \in 1 .. 3
      /\ m.multiple \in Nat \ {0} /\ v[1] = u
  BY <1>1 DEF Flows
<1>3. \A s \in 1 .. l :
        c[s] \in Filters /\ Blocks(c[s], v[s], v[s + 1], b[s]) /\ Short(c[s], u, v[s])
  BY <1>1 DEF Flows
<1>4. \A s \in 1 .. (l - 1) : m.rooms[s] \in RoomRatios /\ Roomy(m.rooms[s], u, v[s + 1])
  BY ONLY <1>1, Zenon DEF Flows
<1>5. Turns(mode, u, v[l + 1])
  BY <1>1 DEF Flows
<1>6. u \in Nat \ {0} /\ \E k \in Nat : n = u * k
  BY <1>2, WholeUnits
<1>7. PICK k \in Nat : n = u * k
  BY <1>6
<1>8. \A s \in 1 .. l : Passed(mode, s, n) = v[s] * k
  BY <1>1, <1>7, PassedOfUnits
<1>9. Converted(mode, n) = v[l + 1] * k
  <2> DEFINE w == v[l + 1]
             i == mode[1]
             o == mode[2]
             z == w * k
  <2>1. i \in Nat \ {0} /\ o \in Nat /\ w \in Nat /\ w * i = u * o
    <3>1. l + 1 \in 1 .. 4
      <4>1. l \in 1 .. 3
        BY <1>2
      <4> HIDE DEF l
      <4> QED
        BY <4>1
    <3>2. w \in Nat /\ u \in Nat
      <4>1. v \in [1 .. 4 -> Nat]
        BY <1>2
      <4> HIDE DEF l, u
      <4> QED
        BY <4>1, <1>6, <3>1
    <3>3. w * i = u * o
      BY <1>5 DEF Turns
    <3> HIDE DEF w, u
    <3> QED
      BY <3>2, <3>3, ModesPositive
  <2> HIDE DEF w, i, o, u
  <2>2. n * o = (u * o) * k
    BY <1>6, <1>7, <2>1, TimesReordered
  <2>3. z \in Nat /\ (w * i) * k = z * i /\ z * i = i * z
    BY <2>1, TimesReordered
  <2> HIDE DEF z
  <2>4. n * o = i * z
    BY <2>1, <2>2, <2>3
  <2>5. (i * z) \div i = z
    BY <2>1, <2>3, DividedExactly
  <2> QED
    BY <2>4, <2>5 DEF Converted, z, w, i, o
<1>10. \A s \in 1 .. l : v[s + 1] * k <= RoomAfter(m, s, n, maxLen)
  <2> SUFFICES ASSUME NEW s \in 1 .. l
               PROVE  v[s + 1] * k <= RoomAfter(m, s, n, maxLen)
    OBVIOUS
  <2>1. CASE s = l
    BY <1>9, <2>1 DEF RoomAfter
  <2>2. CASE s # l
    <3> DEFINE w == v[s + 1]
               p == m.rooms[s][1]
               q == m.rooms[s][2]
    <3>1. s \in 1 .. (l - 1)
      BY <1>2, <2>2
    <3>2. p \in Nat /\ q \in Nat \ {0} /\ w * q <= u * p /\ w \in Nat
      <4>1. s + 1 \in 1 .. 4
        <5>1. l \in 1 .. 3
          BY <1>2
        <5> HIDE DEF l
        <5> QED
          BY <5>1
      <4>2. w \in Nat
        BY <1>2, <4>1
      <4>3. m.rooms[s] \in RoomRatios /\ Roomy(m.rooms[s], u, w)
        BY <1>4, <3>1
      <4> HIDE DEF w, u, m
      <4>4. p \in Nat /\ q \in Nat \ {0}
        BY <4>3 DEF RoomRatios
      <4>5. w * q <= u * p
        BY <4>3 DEF Roomy
      <4> QED
        BY <4>2, <4>4, <4>5
    <3>3. RoomAfter(m, s, n, maxLen) = (n * p) \div q
      BY <2>2 DEF RoomAfter
    <3> HIDE DEF w, p, q, u
    <3>4. w * k \in Nat /\ n * p \in Nat /\ w * q \in Nat /\ u * p \in Nat
      BY <1>6, <1>7, <3>2, TimesReordered
    <3>5. (w * q) * k <= (u * p) * k
      <4> DEFINE x == w * q
                 y == u * p
      <4>1. x \in Nat /\ y \in Nat /\ x <= y
        BY <3>2, <3>4
      <4> HIDE DEF x, y
      <4>2. x * k <= y * k
        BY ONLY <4>1, k \in Nat, TimesMonotone
      <4> QED
        BY <4>2 DEF x, y
    <3>6. (w * q) * k = (w * k) * q /\ (u * p) * k = n * p
      <4>1. (w * q) * k = (w * k) * q /\ (u * p) * k = (u * k) * p
        BY ONLY <1>6, <3>2, k \in Nat, TimesReordered
      <4> QED
        BY <1>7, <4>1
    <3>7. w * k <= (n * p) \div q
      <4> DEFINE x == w * k
                 y == n * p
      <4>1. x * q <= y
        BY <3>5, <3>6
      <4>2. x \in Nat /\ y \in Nat
        BY <3>4
      <4> HIDE DEF x, y
      <4>3. x <= y \div q
        BY <3>2, <4>1, <4>2, DividedMost
      <4> QED
        BY <4>3 DEF x, y
    <3> QED
      BY <3>3, <3>7 DEF w
  <2> QED
    BY <2>1, <2>2
<1>11. \A s \in 1 .. l : TakesWholeLength(c[s]) => v[s] * k < 32768
  <2> SUFFICES ASSUME NEW s \in 1 .. l, TakesWholeLength(c[s])
               PROVE  v[s] * k < 32768
    OBVIOUS
  <2>1. v[s] <= 3 * u /\ v[s] \in Nat /\ 3 * u \in Nat
    <3>1. s \in 1 .. 4
      <4>1. l \in 1 .. 3
        BY <1>2
      <4> HIDE DEF l
      <4> QED
        BY <4>1
    <3>2. v[s] \in Nat /\ Short(c[s], u, v[s])
      <4>1. v[s] \in Nat
        <5>1. v \in [1 .. 4 -> Nat]
          BY <1>2
        <5> QED
          BY <3>1, <5>1
      <4>2. Short(c[s], u, v[s])
        BY <1>3
      <4> QED
        BY <4>1, <4>2
    <3> HIDE DEF u, c
    <3> QED
      BY <1>6, <3>2 DEF Short
  <2> HIDE DEF u
  <2>2. v[s] * k <= (3 * u) * k /\ (3 * u) * k = 3 * (u * k) /\ v[s] * k \in Nat
    BY <1>6, <2>1, TimesMonotone, TimesReordered
  <2> DEFINE x == v[s] * k
  <2> HIDE DEF x
  <2>3. x <= 3 * n /\ x \in Nat
    BY <1>7, <2>2 DEF x
  <2>4. x < 32768
    BY <2>3
  <2> QED
    BY <2>4 DEF x
<1> DEFINE Run(s) == RunChain(m, n, maxLen, s)
<1>12. /\ Run(0) = Entering(n)
       /\ \A s \in 1 .. l : Run(s) = RunFilter(c[s], RoomAfter(m, s, n, maxLen), Run(s - 1))
  <2>1. Len(m.chain) \in 0 .. 3
    <3>1. l \in 1 .. 3
      BY <1>2
    <3> HIDE DEF l
    <3>2. l \in 0 .. 3
      BY <3>1
    <3> QED
      BY <3>2 DEF l
  <2> HIDE DEF m
  <2> QED
    BY ONLY <2>1, RunUnfolds
<1> HIDE DEF m, c, u, l, Run
<1>14. Along(v, k, 0, Run(0))
  BY <1>2, <1>7, <1>12, AlongBegins
<1>15. ASSUME NEW s \in 1 .. l, Along(v, k, s - 1, Run(s - 1))
       PROVE  Along(v, k, s, Run(s))
  <2>1. s \in 1 .. 3 /\ b[s] \in Nat
    BY <1>2
  <2>2. c[s] \in Filters /\ Blocks(c[s], v[s], v[s + 1], b[s])
    BY <1>3
  <2>3. TakesWholeLength(c[s]) => v[s] * k < 32768
    BY <1>11
  <2>4. v[s + 1] * k <= RoomAfter(m, s, n, maxLen)
    BY <1>10
  <2>5. Along(v, k, s, RunFilter(c[s], RoomAfter(m, s, n, maxLen), Run(s - 1)))
    BY <1>2, <1>15, <2>1, <2>2, <2>3, <2>4, AlongGoesOn
  <2> QED
    BY <1>12, <2>5
<1>16. Along(v, k, l, Run(l))
  <2>1. Along(v, k, 1, Run(1))
    BY <1>2, <1>14, <1>15
  <2>2. l >= 2 => Along(v, k, 2, Run(2))
    BY <1>2, <1>15, <2>1
  <2>3. l >= 3 => Along(v, k, 3, Run(3))
    BY <1>2, <1>15, <2>2
  <2>4. l = 1 \/ l = 2 \/ l = 3
    BY <1>2
  <2> QED
    BY <2>1, <2>2, <2>3, <2>4
<1> DEFINE whole == Run(l)
<1> HIDE DEF whole
<1>17. whole.fits
  BY <1>16 DEF Along, whole
<1>18. /\ whole.n = Converted(mode, n) /\ whole.wrote = Converted(mode, n)
       /\ whole.took \in Seq(Nat) /\ Len(whole.took) = l
       /\ \A s \in 1 .. l : whole.took[s] = Passed(mode, s, n)
  <2>1. Along(v, k, l, whole)
    BY ONLY <1>16, Zenon DEF whole
  <2>2. /\ whole.n = v[l + 1] * k /\ whole.wrote = v[l + 1] * k
        /\ whole.took \in Seq(Nat) /\ Len(whole.took) = l
        /\ \A s \in 1 .. l : whole.took[s] = v[s] * k
    BY ONLY <2>1, Zenon DEF Along
  <2>3. ASSUME NEW s \in 1 .. l PROVE whole.took[s] = Passed(mode, s, n)
    BY ONLY <1>8, <2>2, Zenon
  <2>4. whole.n = Converted(mode, n) /\ whole.wrote = Converted(mode, n)
    BY ONLY <1>9, <2>2, Zenon
  <2> QED
    BY ONLY <2>2, <2>3, <2>4, Zenon
<1>19. /\ whole.fits /\ whole.n = Converted(mode, n) /\ whole.wrote = Converted(mode, n)
       /\ whole.took \in Seq(Nat) /\ Len(whole.took) = l
       /\ \A s \in 1 .. l : whole.took[s] = Passed(mode, s, n)
  BY ONLY <1>17, <1>18
<1> QED
  BY ONLY <1>19, Zenon DEF whole, Run, l, c, m

\* Mode 1:1 copies.
LEMMA OneToOne == Holds(<<1, 1>>, 1, <<>>, <<>>) /\ ~ModeOf(<<1, 1>>).late
<1>1. Holds(<<1, 1>>, 1, <<>>, <<>>)
  BY DEF ModeOf, Mode, Holds
<1>2. ~ModeOf(<<1, 1>>).late
  BY DEF ModeOf, Mode
<1> QED
  BY <1>1, <1>2

\* Every mode's chain has at most three filters.
LEMMA ModeShapes ==
    ASSUME NEW mode \in Modes
    PROVE  LET m == ModeOf(mode)
           IN  m.multiple \in Nat \ {0} /\ m.chain \in Seq(Filters) /\ Len(m.chain) \in 0 .. 3
               /\ (mode # <<1, 1>> => Len(m.chain) >= 1)
<1>1. CASE mode = <<1, 1>>
  <2>1. ModeOf(mode).multiple = 1 /\ ModeOf(mode).chain = <<>>
    BY <1>1, OneToOne DEF Holds
  <2> DEFINE c == ModeOf(mode).chain
             u == ModeOf(mode).multiple
  <2>2. c \in Seq(Filters) /\ Len(c) = 0
    BY <2>1
  <2>3. u \in Nat \ {0}
    BY <2>1
  <2> HIDE DEF c, u
  <2>4. Len(c) \in 0 .. 3
    BY <2>2
  <2> QED
    BY <1>1, <2>2, <2>3, <2>4 DEF c, u
<1>2. CASE mode # <<1, 1>>
  <2>1. Flow(mode)
    BY <1>2, UnitsFlow
  <2>2. \E v, b : Flows(mode, v, b)
    BY ONLY <2>1, Zenon DEF Flow
  <2>3. PICK v, b : Flows(mode, v, b)
    BY <2>2
  <2> DEFINE m == ModeOf(mode)
             l == Len(m.chain)
  <2>4. m.multiple \in Nat \ {0} /\ m.chain \in Seq(Filters) /\ l \in 1 .. 3
    BY <2>3 DEF Flows
  <2>5. l \in 1 .. 3 => l \in 0 .. 3 /\ l >= 1
    <3> HIDE DEF l
    <3> QED
      OBVIOUS
  <2> QED
    BY <2>4, <2>5
<1> QED
  BY <1>1, <1>2

\* Whatever comes to a filter, it takes and gives no less than nothing.
LEMMA BlocksTyped ==
    ASSUME NEW f \in Filters, NEW n \in Nat
    PROVE  BlocksTaken(f, n) \in Nat
<1> DEFINE e == f.eats
           z == ToInt16(n)
<1>1. e \in Nat \ {0}
  BY FiltersCount
<1>2. z \in Int
  BY DEF ToInt16
<1> HIDE DEF e, z
<1>3. z > 0 => z \div e \in Nat
  BY <1>1, <1>2, DividedType
<1>4. (n + e - 1) \div e \in Nat
  <2>1. n + e - 1 \in Nat
    BY <1>1
  <2> QED
    BY <1>1, <2>1, DividedType
<1>5. BlocksTaken(f, n) = IF TakesWholeLength(f) THEN (IF z > 0 THEN z \div e ELSE 0)
                          ELSE (n + e - 1) \div e
  BY DEF BlocksTaken, z, e
<1>6. CASE TakesWholeLength(f)
  BY <1>3, <1>5, <1>6
<1>7. CASE ~TakesWholeLength(f)
  BY <1>4, <1>5, <1>7
<1> QED
  BY <1>6, <1>7

FlowTyped(s, flow) == flow.n \in Nat /\ flow.wrote \in Nat /\ flow.took \in Seq(Nat)
                      /\ Len(flow.took) = s

LEMMA RunTyped ==
    ASSUME NEW mode \in Modes, NEW n \in Nat, NEW maxLen
    PROVE  \A s \in 0 .. Len(ModeOf(mode).chain) :
              FlowTyped(s, RunChain(ModeOf(mode), n, maxLen, s))
<1> DEFINE m == ModeOf(mode)
           c == m.chain
           l == Len(c)
           Run(s) == RunChain(m, n, maxLen, s)
<1>1. c \in Seq(Filters) /\ l \in 0 .. 3 /\ \A s \in 1 .. l : c[s] \in Filters
  BY ModeShapes
<1>2. /\ Run(0) = Entering(n)
      /\ \A s \in 1 .. l : Run(s) = RunFilter(c[s], RoomAfter(m, s, n, maxLen), Run(s - 1))
  BY <1>1, RunUnfolds
<1> HIDE DEF m, c, l, Run
<1>3. FlowTyped(0, Run(0))
  <2>1. Run(0) = Entering(n)
    BY <1>2
  <2>2. Entering(n).n = n /\ Entering(n).wrote = n /\ Entering(n).took = <<>>
    BY DEF Entering
  <2>3. <<>> \in Seq(Nat) /\ Len(<<>>) = 0
    OBVIOUS
  <2> QED
    BY <2>1, <2>2, <2>3 DEF FlowTyped
<1>4. ASSUME NEW s \in 1 .. l, FlowTyped(s - 1, Run(s - 1))
      PROVE  FlowTyped(s, Run(s))
  <2> DEFINE flow == Run(s - 1)
             f == c[s]
             j == BlocksTaken(f, flow.n)
             after == Run(s)
  <2>1. flow.n \in Nat /\ flow.took \in Seq(Nat) /\ Len(flow.took) = s - 1 /\ s \in 1 .. 3
    BY <1>1, <1>4 DEF FlowTyped
  <2>2. f \in Filters /\ f.eats \in Nat \ {0} /\ f.gives \in Nat
    BY <1>1, FiltersCount
  <2>3. j \in Nat
    BY <2>1, <2>2, BlocksTyped
  <2>4. after = RunFilter(f, RoomAfter(m, s, n, maxLen), flow)
    BY <1>2
  <2> HIDE DEF flow, f, after
  <2>5. /\ after.n = (flow.n * f.gives) \div f.eats /\ after.wrote = j * f.gives
        /\ after.took = Append(flow.took, j * f.eats)
    BY <2>4 DEF RunFilter
  <2> HIDE DEF j
  <2>6. j * f.gives \in Nat /\ j * f.eats \in Nat /\ flow.n * f.gives \in Nat
    BY <2>1, <2>2, <2>3, TimesReordered
  <2>7. (flow.n * f.gives) \div f.eats \in Nat
    BY <2>2, <2>6, DividedType
  <2>8. after.took \in Seq(Nat) /\ Len(after.took) = s
    BY <2>1, <2>5, <2>6
  <2> QED
    BY <2>5, <2>6, <2>7, <2>8 DEF FlowTyped, after
<1>5. l >= 1 => FlowTyped(1, Run(1))
  BY <1>1, <1>3, <1>4
<1>6. l >= 2 => FlowTyped(2, Run(2))
  BY <1>1, <1>4, <1>5
<1>7. l >= 3 => FlowTyped(3, Run(3))
  BY <1>1, <1>4, <1>6
<1>8. ASSUME NEW s \in 0 .. l
      PROVE  FlowTyped(s, Run(s))
  <2>1. s = 0 \/ s = 1 \/ s = 2 \/ s = 3
    BY <1>1
  <2> QED
    BY <1>1, <1>3, <1>5, <1>6, <1>7, <2>1
<1> QED
  BY <1>8 DEF Run, l, c, m

\* What every instance is, a slave included.
Typed(x) ==
    /\ Whole(x) /\ x.mode \in Modes
    /\ \A s \in DOMAIN x.fed : x.fed[s] \in Nat

LEMMA FedTyped ==
    ASSUME NEW x, Typed(x), NEW took \in Seq(Nat)
    PROVE  Typed(Feed(x, took))
<1> DEFINE fed1 == [s \in DOMAIN x.fed |-> x.fed[s] + IF s \in DOMAIN took THEN took[s] ELSE 0]
<1>1. \A s \in DOMAIN fed1 : fed1[s] \in Nat
  <2> SUFFICES ASSUME NEW s \in DOMAIN x.fed
               PROVE  x.fed[s] + (IF s \in DOMAIN took THEN took[s] ELSE 0) \in Nat
    OBVIOUS
  <2>1. x.fed[s] \in Nat
    BY DEF Typed
  <2>2. s \in DOMAIN took => took[s] \in Nat
    OBVIOUS
  <2> QED
    BY <2>1, <2>2
<1> HIDE DEF fed1
<1>2. Feed(x, took) = [x EXCEPT !.fed = fed1]
  BY DEF Feed, fed1
<1>3. Whole(x) /\ x.mode \in Modes
  BY DEF Typed
<1>4. LET y == [x EXCEPT !.fed = fed1] IN Whole(y) /\ y.mode = x.mode /\ y.fed = fed1
  BY <1>3 DEF Whole
<1> QED
  BY <1>1, <1>2, <1>3, <1>4 DEF Typed

LEMMA MonoTyped ==
    ASSUME NEW x, Typed(x), NEW n \in Nat, NEW room
    PROVE  LET o == PushMono(x, n, room)
           IN  Typed(o.res) /\ o.outLen \in Nat /\ o.wrote \in Nat /\ o.ret \in {0, -1}
<1> DEFINE m == ModeOf(x.mode)
           c == m.chain
           whole == RunChain(m, n, room, Len(c))
           first == RunChain(m, n, room, 1)
           o == PushMono(x, n, room)
<1>1. x.mode \in Modes
  BY DEF Typed
<1>2. Len(c) \in 0 .. 3
  BY <1>1, ModeShapes
<1>3. FlowTyped(Len(c), whole)
  <2>1. Len(c) \in 0 .. Len(c)
    BY <1>2
  <2> QED
    BY <1>1, <2>1, RunTyped
<1>4. Len(c) >= 1 => FlowTyped(1, first)
  <2>1. Len(c) >= 1 => 1 \in 0 .. Len(c)
    BY <1>2
  <2> QED
    BY <1>1, <2>1, RunTyped
<1>5. m.late => Len(c) >= 1
  <2>1. m.late => x.mode # <<1, 1>>
    BY OneToOne
  <2> QED
    BY <1>1, <2>1, ModeShapes
<1>6. \/ o.res = x /\ o.outLen \in {0, n} /\ o.wrote \in {0, n} /\ o.ret \in {0, -1}
      \/ m.late /\ o.res = Feed(x, first.took) /\ o.outLen = 0 /\ o.wrote = 0 /\ o.ret = -1
      \/ o.res = Feed(x, whole.took) /\ o.outLen = whole.n /\ o.wrote = whole.wrote /\ o.ret = 0
  BY DEF PushMono, Outcome, Rejected
<1> HIDE DEF o, m, c, whole, first
<1>7. CASE o.res = x /\ o.outLen \in {0, n} /\ o.wrote \in {0, n} /\ o.ret \in {0, -1}
  BY <1>7 DEF o
<1>8. CASE m.late /\ o.res = Feed(x, first.took) /\ o.outLen = 0 /\ o.wrote = 0 /\ o.ret = -1
  <2>1. first.took \in Seq(Nat)
    BY <1>4, <1>5, <1>8 DEF FlowTyped
  <2> QED
    BY <1>8, <2>1, FedTyped DEF o
<1>9. CASE o.res = Feed(x, whole.took) /\ o.outLen = whole.n /\ o.wrote = whole.wrote /\ o.ret = 0
  <2>1. whole.took \in Seq(Nat) /\ whole.n \in Nat /\ whole.wrote \in Nat
    BY <1>3 DEF FlowTyped
  <2> QED
    BY <1>9, <2>1, FedTyped DEF o
<1> QED
  BY <1>6, <1>7, <1>8, <1>9

\* A push that fails tells no length, and touches no sample beyond a buffer.
LEMMA MonoAnswers ==
    ASSUME NEW x, NEW n, NEW room
    PROVE  LET o == PushMono(x, n, room)
           IN  (o.ret = -1 => o.outLen = 0) /\ (o.fits <=> o.ret = -1 \/ o.fits)
<1> DEFINE o == PushMono(x, n, room)
<1>1. o.ret = -1 => o.outLen = 0
  BY DEF PushMono, Outcome, Rejected
<1>2. o.ret = -1 => o.fits
  BY DEF PushMono, Outcome, Rejected
<1> HIDE DEF o
<1> QED
  BY <1>1, <1>2 DEF o

\* An instance that calls reach has slaves if it is stereo, and else none.
Sided(x) == \/ Asynchronous(x.type)
            \/ Stereo(x.type) /\ x.slaves # <<>>
            \/ ~Stereo(x.type) /\ x.slaves = <<>>

\* A channel of an instance and how many there are.
ChannelOf(x) == IF x.slaves = <<>> THEN x ELSE x.slaves[1]
SidesOf(x) == IF x.slaves = <<>> THEN 1 ELSE 2

TypeInv ==
    /\ PairInv /\ Sided(r) /\ r.type \in ResamplerTypes /\ Typed(r)
    /\ Typed(ChannelOf(r))
    /\ accepted \in Nat /\ last.outLen \in Nat /\ last.ret \in {0, -1}

LEMMA TypeInvTypes == TypeInv => TypeOK
<1> SUFFICES ASSUME TypeInv PROVE TypeOK
  OBVIOUS
<1>1. r.slaves = <<>> \/ Len(r.slaves) = 2
  <2>1. Twins(r)
    BY DEF TypeInv, PairInv
  <2>2. ASSUME NEW a PROVE Len(<<a, a>>) = 2
    OBVIOUS
  <2> QED
    BY <2>1, <2>2 DEF Twins
<1> QED
  BY <1>1 DEF TypeInv, TypeOK, Typed

LEMMA ResetTyped ==
    ASSUME NEW x, x.mode \in Modes, NEW in, NEW out, NEW type
    PROVE  Typed(ResetMono(x, in, out, type))
<1> DEFINE ratio == Reduced(in, out)
           y == ResetMono(x, in, out, type)
<1>1. Whole(y) /\ y.mode = IF ratio \in Modes THEN ratio ELSE x.mode
  BY DEF ResetMono, Whole
<1>2. y.fed = IF ratio \in Modes THEN [s \in DOMAIN ModeOf(ratio).chain |-> 0] ELSE <<>>
  BY DEF ResetMono
<1> HIDE DEF y
<1>3. \A s \in DOMAIN y.fed : y.fed[s] \in Nat
  BY <1>2
<1> QED
  BY <1>1, <1>3 DEF Typed, y

LEMMA ResetsTyped ==
    ASSUME NEW x, x.mode \in Modes, NEW in, NEW out, NEW type \in ResamplerTypes
    PROVE  LET y == Reset(x, in, out, type)
           IN  y.type \in ResamplerTypes /\ Typed(y) /\ Typed(ChannelOf(y))
               /\ Sided(y) /\ y.khz = kHz(in, out)
<1> DEFINE ratio == Reduced(in, out)
           slave == ResetMono(Constructed, ratio[1], ratio[2], MonoOf(type))
           mono == ResetMono(x, in, out, type)
           pair == IF Stereo(type) THEN <<slave, slave>> ELSE <<>>
<1>1. Typed(mono) /\ mono.type \in {type, "Invalid"} /\ mono.khz = kHz(in, out)
  BY ResetTyped DEF ResetMono
<1>2. Typed(slave)
  <2>1. Constructed.mode \in Modes
    BY DEF Constructed, Modes
  <2> QED
    BY <2>1, ResetTyped
<1>3. Reset(x, in, out, type) = [mono EXCEPT !.slaves = pair]
  BY DEF Reset
<1>4. \/ Stereo(type) /\ pair # <<>> /\ pair[1] = slave
      \/ ~Stereo(type) /\ pair = <<>>
  <2>1. ASSUME NEW z PROVE <<z, z>> # <<>> /\ <<z, z>>[1] = z
    OBVIOUS
  <2> HIDE DEF slave
  <2> QED
    BY <2>1
<1>5. "Invalid" \in ResamplerTypes /\ Asynchronous("Invalid")
  BY DEF ResamplerTypes, Asynchronous
<1> HIDE DEF mono, slave, pair
<1>6. LET q == [mono EXCEPT !.slaves = pair]
      IN  /\ Whole(q) /\ q.slaves = pair /\ q.type = mono.type /\ q.mode = mono.mode
          /\ q.fed = mono.fed /\ q.khz = mono.khz
  BY <1>1 DEF Typed, Whole
<1> DEFINE y == Reset(x, in, out, type)
<1>7. /\ Whole(y) /\ y.slaves = pair /\ y.type = mono.type /\ y.mode = mono.mode
      /\ y.fed = mono.fed /\ y.khz = kHz(in, out)
  BY <1>1, <1>3, <1>6
<1> HIDE DEF y
<1>9. Sided(y)
  BY <1>1, <1>4, <1>5, <1>7 DEF Sided
<1>10. y.type \in ResamplerTypes /\ Typed(y)
  BY <1>1, <1>5, <1>7 DEF Typed
<1>8. Typed(ChannelOf(y))
  BY <1>2, <1>4, <1>7, <1>10 DEF ChannelOf
<1> QED
  BY <1>7, <1>8, <1>9, <1>10 DEF y

\* What an instance is when a call comes.
Sound(x) == Typed(x) /\ Twins(x) /\ Sided(x) /\ Typed(ChannelOf(x))

\* A push does to a channel what a push of its share does to a mono instance, and
\* answers for all of them.
LEMMA PushSides ==
    ASSUME NEW x, Sound(x), ~Asynchronous(x.type), NEW n \in Nat, NEW room \in Nat
    PROVE  LET d == SidesOf(x)
               a == PushMono(ChannelOf(x), n \div d, room \div d)
               o == Push(x, n, room)
           IN  /\ Sound(o.res) /\ o.res.type = x.type /\ o.res.khz = x.khz
               /\ SidesOf(o.res) = d /\ ChannelOf(o.res) = a.res /\ o.ret = a.ret
               /\ o.ret = 0 => o.outLen = d * a.outLen /\ o.wrote = d * a.wrote
               /\ o.ret = -1 => o.outLen = 0
               /\ o.fits <=> o.ret = -1 \/ a.fits
<1> DEFINE d == SidesOf(x)
           y == ChannelOf(x)
           a == PushMono(y, n \div d, room \div d)
           o == Push(x, n, room)
<1> USE DEF Sound
<1>1. CASE ~Stereo(x.type)
  <2>1. x.slaves = <<>> /\ d = 1 /\ y = x
    BY <1>1 DEF Sided, SidesOf, ChannelOf
  <2>2. o = PushMono(x, n, room)
    BY <1>1 DEF Push
  <2>3. n \div 1 = n /\ room \div 1 = room
    OBVIOUS
  <2>4. a = o
    BY <2>1, <2>2, <2>3
  <2>5. Whole(x)
    BY DEF Typed
  <2>6. o.res.type = x.type /\ o.res.slaves = x.slaves /\ o.res.khz = x.khz
    BY <2>2, <2>5, MonoKeeps
  <2>7. Typed(o.res) /\ o.outLen \in Nat /\ o.wrote \in Nat /\ o.ret \in {0, -1}
    BY <2>2, MonoTyped
  <2>8. (o.ret = -1 => o.outLen = 0) /\ (o.fits <=> o.ret = -1 \/ o.fits)
    BY <2>2, MonoAnswers
  <2> HIDE DEF o, a, d, y
  <2>9. SidesOf(o.res) = 1 /\ ChannelOf(o.res) = o.res
    BY <2>1, <2>6 DEF SidesOf, ChannelOf
  <2>10. Twins(o.res) /\ Sided(o.res)
    BY <1>1, <2>1, <2>6 DEF Twins, Sided
  <2>11. Sound(o.res)
    BY <2>7, <2>9, <2>10
  <2>12. SidesOf(o.res) = d /\ ChannelOf(o.res) = a.res /\ o.ret = a.ret
    BY <2>1, <2>4, <2>9
  <2>13. o.ret = 0 => o.outLen = d * a.outLen /\ o.wrote = d * a.wrote
    BY <2>1, <2>4, <2>7
  <2>14. o.fits <=> o.ret = -1 \/ a.fits
    BY <2>4, <2>8
  <2> QED
    BY <2>6, <2>8, <2>11, <2>12, <2>13, <2>14 DEF o, a, d, y
<1>2. CASE Stereo(x.type)
  <2> DEFINE b == PushMono(x.slaves[2], n \div 2, room \div 2)
             pair == <<a.res, b.res>>
             after == [x EXCEPT !.slaves = pair]
  <2>1. x.slaves # <<>> /\ d = 2 /\ y = x.slaves[1]
    BY <1>2 DEF Sided, SidesOf, ChannelOf
  <2>2. x.slaves[2] = y
    <3>1. x.slaves = <<x.slaves[1], x.slaves[1]>>
      BY <2>1 DEF Twins
    <3>2. ASSUME NEW z PROVE <<z, z>>[2] = z
      OBVIOUS
    <3> QED
      BY <2>1, <3>1, <3>2
  <2>3. b = a
    BY <2>1, <2>2
  <2>4. Typed(y) /\ n \div 2 \in Nat
    OBVIOUS
  <2>5. Typed(a.res) /\ a.outLen \in Nat /\ a.wrote \in Nat /\ a.ret \in {0, -1}
    BY <2>1, <2>4, MonoTyped
  <2>6. /\ o.res = after
        /\ \/ (a.ret = -1 \/ b.ret = -1 \/ a.outLen # b.outLen) /\ o.outLen = 0 /\ o.ret = -1
           \/ /\ ~(a.ret = -1 \/ b.ret = -1 \/ a.outLen # b.outLen)
              /\ o.outLen = 2 * a.outLen /\ o.ret = 0 /\ o.wrote = a.wrote + b.wrote
    BY <1>2, <2>1 DEF Push, Rejected, Outcome
  <2>7. \/ (a.ret = -1 \/ b.ret = -1 \/ a.outLen # b.outLen) /\ o.fits
        \/ ~(a.ret = -1 \/ b.ret = -1 \/ a.outLen # b.outLen) /\ (o.fits <=> a.fits /\ b.fits)
    BY <1>2, <2>1 DEF Push, Rejected, Outcome
  <2>8. pair # <<>> /\ pair[1] = a.res /\ pair = <<pair[1], pair[1]>>
    <3> HIDE DEF a, b
    <3> QED
      BY <2>3
  <2> HIDE DEF a, b, pair, y, d, o
  <2>9. /\ Whole(after) /\ after.slaves = pair /\ after.type = x.type /\ after.mode = x.mode
        /\ after.fed = x.fed /\ after.khz = x.khz
    BY DEF Typed, Whole
  <2> HIDE DEF after
  <2>10. SidesOf(after) = 2 /\ ChannelOf(after) = a.res
    BY <2>8, <2>9 DEF SidesOf, ChannelOf
  <2>11. Typed(after) /\ Twins(after) /\ Sided(after)
    BY <1>2, <2>8, <2>9 DEF Typed, Twins, Sided
  <2>12. Sound(after)
    BY <2>5, <2>10, <2>11
  <2>13. o.ret = a.ret /\ (o.ret = -1 => o.outLen = 0)
    BY <2>3, <2>5, <2>6
  <2>14. o.ret = 0 => o.outLen = d * a.outLen /\ o.wrote = d * a.wrote
    BY <2>1, <2>3, <2>5, <2>6
  <2>15. o.fits <=> o.ret = -1 \/ a.fits
    BY <2>3, <2>5, <2>7, <2>13
  <2> QED
    BY <2>1, <2>6, <2>9, <2>10, <2>12, <2>13, <2>14, <2>15 DEF o, a, d, y
<1> QED
  BY <1>1, <1>2

LEMMA PushAsynchronous ==
    ASSUME NEW x, Asynchronous(x.type), NEW n, NEW room
    PROVE  Push(x, n, room).res = x /\ Push(x, n, room).ret = -1 /\ Push(x, n, room).outLen = 0
  BY DEF Push, Rejected, Outcome

LEMMA TypeInvInit == Init => TypeInv
<1> SUFFICES ASSUME Init PROVE TypeInv
  OBVIOUS
<1>1. PairInv
  BY PairInvInit
<1>2. /\ r.type \in ResamplerTypes /\ r.mode \in Modes /\ r.fed = <<>> /\ r.slaves = <<>>
  BY DEF Init, Constructed, ResamplerTypes, Modes
<1>3. accepted \in Nat /\ last.outLen \in Nat /\ last.ret \in {0, -1}
  BY DEF Init, Lengthless
<1>4. Sided(r)
  BY DEF Init, Constructed, Sided, Asynchronous
<1> QED
  BY <1>1, <1>2, <1>3, <1>4 DEF TypeInv, Typed, PairInv, ChannelOf

LEMMA TypeInvNext ==
    ASSUME Types \subseteq ResamplerTypes, TypeInv, [Next]_vars
    PROVE  TypeInv'
<1>1. PairInv'
  BY PairInvNext DEF TypeInv
<1>2. r.mode \in Modes /\ Typed(r) /\ Twins(r)
  BY DEF TypeInv, Typed, PairInv
<1>3. ASSUME NEW in, NEW out, NEW type \in ResamplerTypes, DoReset(in, out, type)
      PROVE  TypeInv'
  <2>1. r' = Reset(r, in, out, type) /\ accepted' = 0
    BY <1>3 DEF DoReset
  <2>2. last'.outLen \in Nat /\ last'.ret \in {0, -1}
    BY <1>3 DEF DoReset, Lengthless
  <2> QED
    BY <1>1, <1>2, <2>1, <2>2, ResetsTyped DEF TypeInv
<1>4. CASE UNCHANGED vars
  BY <1>1, <1>4 DEF vars, TypeInv
<1>5. ASSUME NEW in, NEW out, NEW type \in ResamplerTypes, DoResetIfNeeded(in, out, type)
      PROVE  TypeInv'
  <2>1. CASE NeedsReset(r, in, out, type)
    BY <1>3, <1>5, <2>1 DEF DoResetIfNeeded
  <2>2. CASE ~NeedsReset(r, in, out, type)
    <3>1. UNCHANGED <<r, accepted>>
      BY <1>5, <2>2 DEF DoResetIfNeeded
    <3>2. last'.outLen \in Nat /\ last'.ret \in {0, -1}
      BY <1>5, <2>2 DEF DoResetIfNeeded, Lengthless
    <3> QED
      BY <1>1, <3>1, <3>2 DEF TypeInv
  <2> QED
    BY <2>1, <2>2
<1>6. ASSUME NEW n \in Nat, NEW room \in Nat, DoPush(n, room)
      PROVE  TypeInv'
  <2> DEFINE o == Push(r, n, room)
  <2>1. r' = o.res /\ last'.outLen = o.outLen /\ last'.ret = o.ret
    BY <1>6 DEF DoPush
  <2>2. accepted' \in Nat
    BY <1>6 DEF DoPush, TypeInv
  <2>3. Sound(r)
    BY DEF TypeInv, PairInv, Sound
  <2>4. /\ o.res.type = r.type /\ Typed(o.res) /\ Sided(o.res) /\ Typed(ChannelOf(o.res))
        /\ o.outLen \in Nat /\ o.ret \in {0, -1}
    <3>1. CASE Asynchronous(r.type)
      BY <2>3, <3>1, PushAsynchronous DEF Sound
    <3>2. CASE ~Asynchronous(r.type)
      <4> DEFINE d == SidesOf(r)
                 a == PushMono(ChannelOf(r), n \div d, room \div d)
      <4>1. /\ Sound(o.res) /\ o.res.type = r.type /\ o.ret = a.ret
            /\ o.ret = 0 => o.outLen = d * a.outLen
            /\ o.ret = -1 => o.outLen = 0
        BY <2>3, <3>2, PushSides
      <4>2. d \in {1, 2} /\ n \div d \in Nat
        BY DEF SidesOf
      <4> HIDE DEF d, o
      <4>3. a.outLen \in Nat /\ a.ret \in {0, -1}
        BY <2>3, <4>2, MonoTyped DEF Sound
      <4> HIDE DEF a
      <4>4. o.outLen \in Nat /\ o.ret \in {0, -1}
        BY <4>1, <4>2, <4>3
      <4> QED
        BY <4>1, <4>4 DEF Sound
    <3> QED
      BY <3>1, <3>2
  <2> HIDE DEF o
  <2> QED
    BY <1>1, <2>1, <2>2, <2>4 DEF TypeInv
<1> QED
  BY <1>3, <1>4, <1>5, <1>6, LengthsAssumption DEF Next

\* For all rates, legal or not, and lengths: the instance keeps a supported mode,
\* has no slave or two, and counts no less than nothing.
THEOREM TypeCorrect == (Types \subseteq ResamplerTypes) => (Spec => []TypeOK)
<1> SUFFICES ASSUME Types \subseteq ResamplerTypes PROVE Spec => []TypeOK
  OBVIOUS
<1>1. TypeInv /\ [Next]_vars => TypeInv'
  BY TypeInvNext
<1> QED
  BY TypeInvInit, <1>1, TypeInvTypes, PTL DEF Spec

\* The common divisors of two numbers, the largest of a set of numbers, and the
\* function Euclid's steps compute: the existence of gcd.
Common(a, b) == {d \in Nat \ {0} : a % d = 0 /\ b % d = 0}
Largest(D) == CHOOSE d \in D : \A e \in D : e <= d
Measure == [p \in Nat \X Nat |-> IF p[2] = 0 THEN p[1] ELSE Largest(Common(p[1], p[2]))]

LEMMA RestOfSum ==
    ASSUME NEW d \in Nat \ {0}, NEW q \in Int, NEW z \in 0 .. (d - 1)
    PROVE  (d * q + z) % d = z
BY SMT

LEMMA ProductsInt ==
    \A a, b, c \in Int : /\ a * b \in Int /\ a * (b - c) = a * b - a * c
                         /\ a * (b + c) = a * b + a * c /\ a * b = b * a
                         /\ a * (b * c) = (a * b) * c
BY SMT

\* What divides b divides a if and only if it divides what b leaves of a.
LEMMA DividesRest ==
    ASSUME NEW a \in Nat, NEW b \in Nat \ {0}, NEW d \in Nat \ {0}, b % d = 0
    PROVE  a % d = 0 <=> (a % b) % d = 0
<1> DEFINE q == a \div b
           c == a % b
           y == b \div d
<1>1. q \in Nat /\ c \in Nat /\ a = b * q + c
  BY SMT
<1>2. y \in Nat /\ b = d * y
  BY DividedNoRest
<1> SUFFICES a % d = 0 <=> c % d = 0
  OBVIOUS
<1> HIDE DEF q, c, y
<1> DEFINE x == a \div d
           w == c \div d
<1>3. a % d = 0 => x \in Nat /\ a = d * x
  BY DividedNoRest
<1>4. c % d = 0 => w \in Nat /\ c = d * w
  BY <1>1, DividedNoRest
<1> HIDE DEF x, w
<1> DEFINE t == y * q
<1>5. t \in Nat /\ b * q = d * t
  <2>1. (d * y) * q = d * (y * q) /\ y * q \in Nat
    BY <1>1, <1>2, TimesReordered
  <2> QED
    BY <1>2, <2>1
<1> HIDE DEF t
<1>6. ASSUME a % d = 0 PROVE c % d = 0
  <2>1. d * (x - t) = d * x - d * t /\ x - t \in Int
    BY <1>3, <1>5, <1>6, ProductsInt
  <2>2. c = a - b * q
    <3>1. b * q \in Nat
      BY <1>1, TimesReordered
    <3> DEFINE z == b * q
    <3> HIDE DEF z
    <3> QED
      BY <1>1, <3>1 DEF z
  <2>3. c = d * (x - t)
    BY <1>3, <1>5, <1>6, <2>1, <2>2
  <2> DEFINE u == x - t
  <2>4. u \in Int /\ c = d * u /\ d * u \in Int
    BY <2>1, <2>3, ProductsInt
  <2> HIDE DEF u
  <2>5. (d * u + 0) % d = 0 /\ d * u + 0 = d * u
    BY <2>4, RestOfSum
  <2> QED
    BY <2>4, <2>5
<1>7. ASSUME c % d = 0 PROVE a % d = 0
  <2> DEFINE u == t + w
  <2>1. d * u = d * t + d * w /\ u \in Nat /\ d * u \in Nat
    BY <1>4, <1>5, <1>7, TimesDistributes
  <2>2. a = d * u
    BY <1>1, <1>4, <1>5, <1>7, <2>1
  <2> HIDE DEF u
  <2>3. (d * u) % d = 0
    BY <2>1, DividedExactly
  <2> QED
    BY <2>2, <2>3
<1> QED
  BY <1>6, <1>7

LEMMA SameDivisors ==
    ASSUME NEW a \in Nat, NEW b \in Nat \ {0}
    PROVE  Common(a, b) = Common(b, a % b)
<1>1. ASSUME NEW d \in Nat \ {0}
      PROVE  a % d = 0 /\ b % d = 0 <=> b % d = 0 /\ (a % b) % d = 0
  BY DividesRest
<1> QED
  BY <1>1 DEF Common

\* A number is the largest of its own divisors.
LEMMA LargestOwn ==
    ASSUME NEW b \in Nat \ {0}
    PROVE  Largest(Common(b, 0)) = b
<1> DEFINE D == Common(b, 0)
<1>1. b \in D
  <2>1. b % b = 0
    BY SMT
  <2> QED
    BY <2>1 DEF Common
<1>2. \A e \in D : e \in Nat /\ e <= b
  <2> SUFFICES ASSUME NEW e \in Nat \ {0}, b % e = 0 PROVE e <= b
    BY DEF Common
  <2> QED
    BY SMT
<1> HIDE DEF D
<1>3. \E d \in D : \A e \in D : e <= d
  BY <1>1, <1>2
<1> DEFINE g == Largest(D)
<1>4. g \in D /\ \A e \in D : e <= g
  BY <1>3 DEF Largest
<1> HIDE DEF g
<1>5. g = b
  BY <1>1, <1>2, <1>4
<1> QED
  BY <1>5 DEF g, D

\* Euclid's step.
LEMMA GcdSteps ==
    /\ \A a \in Nat : gcd[<<a, 0>>] = a
    /\ \A a \in Nat, b \in Nat \ {0} : gcd[<<a, b>>] = gcd[<<b, a % b>>]
<1> DEFINE e(g) == [p \in Nat \X Nat |-> IF p[2] = 0 THEN p[1] ELSE g[<<p[2], p[1] % p[2]>>]]
<1>1. Measure = e(Measure)
  <2>1. ASSUME NEW p \in Nat \X Nat
        PROVE  Measure[p] = IF p[2] = 0 THEN p[1] ELSE Measure[<<p[2], p[1] % p[2]>>]
    <3> DEFINE a == p[1]
               b == p[2]
               c == a % b
    <3>1. a \in Nat /\ b \in Nat /\ p = <<a, b>>
      OBVIOUS
    <3>2. CASE b = 0
      BY <3>1, <3>2 DEF Measure
    <3>3. CASE b # 0
      <4>1. c \in Nat /\ Common(a, b) = Common(b, c)
        BY <3>1, <3>3, SameDivisors, DividedType
      <4>2. Measure[p] = Largest(Common(a, b))
        BY <3>3 DEF Measure
      <4> HIDE DEF c
      <4>3. Measure[<<b, c>>] = IF c = 0 THEN b ELSE Largest(Common(b, c))
        BY <3>1, <4>1 DEF Measure
      <4>4. c = 0 => Largest(Common(b, c)) = b
        BY <3>1, <3>3, LargestOwn
      <4>5. Measure[p] = Measure[<<b, c>>]
        BY <4>1, <4>2, <4>3, <4>4
      <4> QED
        BY <3>3, <4>5 DEF c
    <3> QED
      BY <3>2, <3>3
  <2> QED
    BY <2>1 DEF Measure
<1>2. gcd = e(gcd)
  <2> HIDE DEF e
  <2>1. gcd = CHOOSE g : g = e(g)
    BY DEF gcd, e
  <2> QED
    BY <1>1, <2>1
<1>3. ASSUME NEW p \in Nat \X Nat
      PROVE  gcd[p] = IF p[2] = 0 THEN p[1] ELSE gcd[<<p[2], p[1] % p[2]>>]
  <2> DEFINE G == gcd
  <2> HIDE DEF G
  <2> QED
    BY <1>2
<1> HIDE DEF e
<1>4. ASSUME NEW a \in Nat, NEW b \in Nat
      PROVE  gcd[<<a, b>>] = IF b = 0 THEN a ELSE gcd[<<b, a % b>>]
  <2>1. <<a, b>> \in Nat \X Nat /\ <<a, b>>[1] = a /\ <<a, b>>[2] = b
    OBVIOUS
  <2> QED
    BY <1>3, <2>1
<1> QED
  BY <1>4

LEMMA GcdOne == \A a \in Nat : gcd[<<a, 1>>] = 1
<1> SUFFICES ASSUME NEW a \in Nat PROVE gcd[<<a, 1>>] = 1
  OBVIOUS
<1>1. a % 1 = 0
  BY SMT
<1>2. gcd[<<a, 1>>] = gcd[<<1, a % 1>>]
  BY GcdSteps
<1>3. gcd[<<1, 0>>] = 1
  BY GcdSteps
<1> QED
  BY <1>1, <1>2, <1>3

LEMMA GcdRound ==
    ASSUME NEW a \in Nat, NEW b \in Nat \ {0}, NEW c \in Nat, NEW q \in Nat,
           c < b, a = b * q + c, gcd[<<b, c>>] = 1
    PROVE  gcd[<<a, b>>] = 1
<1>1. a % b = c
  <2>1. c \in 0 .. (b - 1)
    OBVIOUS
  <2>2. (b * q + c) % b = c
    BY <2>1, RestOfSum
  <2> QED
    BY <2>2
<1> QED
  BY <1>1, GcdSteps

\* The modes are reduced ratios: what a stereo instance tells its slaves to reduce
\* comes to the same mode.
LEMMA ModesReduced == \A mode \in Modes : Reduced(mode[1], mode[2]) = mode
<1>1. \A a \in 2 .. 100 : gcd[<<1, a>>] = 1
  <2> SUFFICES ASSUME NEW a \in 2 .. 100 PROVE gcd[<<1, a>>] = 1
    OBVIOUS
  <2>1. gcd[<<a, 1>>] = 1
    BY GcdOne
  <2>2. 1 % a = 1
    BY SMT
  <2>3. gcd[<<1, a>>] = gcd[<<a, 1 % a>>]
    BY GcdSteps
  <2> QED
    BY <2>1, <2>2, <2>3
<1>2. gcd[<<3, 2>>] = 1 /\ gcd[<<4, 3>>] = 1 /\ gcd[<<11, 2>>] = 1 /\ gcd[<<11, 5>>] = 1
      /\ gcd[<<11, 10>>] = 1
  <2>1. \A b \in 2 .. 10, q \in 1 .. 5 : gcd[<<b * q + 1, b>>] = 1
    <3> SUFFICES ASSUME NEW b \in 2 .. 10, NEW q \in 1 .. 5
                 PROVE  gcd[<<b * q + 1, b>>] = 1
      OBVIOUS
    <3>1. gcd[<<b, 1>>] = 1
      BY GcdOne
    <3>2. b * q + 1 \in Nat
      OBVIOUS
    <3> QED
      BY <3>1, <3>2, GcdRound
  <2>2. 3 = 2 * 1 + 1 /\ 4 = 3 * 1 + 1 /\ 11 = 2 * 5 + 1 /\ 11 = 5 * 2 + 1 /\ 11 = 10 * 1 + 1
    OBVIOUS
  <2> QED
    BY <2>1, <2>2
<1>3. gcd[<<2, 3>>] = 1 /\ gcd[<<2, 11>>] = 1
  BY <1>2, GcdRound
<1>4. gcd[<<8, 3>>] = 1 /\ gcd[<<11, 4>>] = 1
  BY <1>2, GcdRound
<1>5. gcd[<<11, 8>>] = 1 /\ gcd[<<4, 11>>] = 1 /\ gcd[<<16, 11>>] = 1 /\ gcd[<<32, 11>>] = 1
  BY <1>2, <1>4, GcdRound
<1>6. gcd[<<8, 11>>] = 1 /\ gcd[<<11, 16>>] = 1 /\ gcd[<<11, 32>>] = 1
  BY <1>5, GcdRound
<1>7. \A mode \in Modes : gcd[<<mode[1], mode[2]>>] = 1
  <2> SUFFICES ASSUME NEW mode \in Modes PROVE gcd[<<mode[1], mode[2]>>] = 1
    OBVIOUS
  <2>1. mode[2] = 1 => gcd[<<mode[1], mode[2]>>] = 1
    BY GcdOne, ModesPositive
  <2>2. mode[1] = 1 /\ mode[2] # 1 => gcd[<<mode[1], mode[2]>>] = 1
    <3>1. mode[2] \in 1 .. 100
      BY DEF Modes
    <3>2. ASSUME mode[1] = 1 PROVE <<mode[1], mode[2]>> = <<1, mode[2]>>
      BY <3>2
    <3>3. mode[2] # 1 => mode[2] \in 2 .. 100
      BY <3>1
    <3> DEFINE b == mode[2]
    <3> HIDE DEF b
    <3>4. mode[2] # 1 => gcd[<<1, b>>] = 1
      BY <1>1, <3>3 DEF b
    <3> QED
      BY <3>2, <3>4 DEF b
  <2>3. mode[1] # 1 /\ mode[2] # 1 =>
           mode \in {<<2, 3>>, <<2, 11>>, <<4, 11>>, <<8, 11>>, <<11, 16>>, <<11, 32>>,
                     <<3, 2>>, <<11, 2>>, <<11, 4>>, <<11, 8>>}
    BY DEF Modes
  <2> QED
    BY <1>2, <1>3, <1>4, <1>5, <1>6, <2>1, <2>2, <2>3
<1>8. ASSUME NEW mode \in Modes
      PROVE  Reduced(mode[1], mode[2]) = mode
  <2>1. \A a \in Nat : a \div 1 = a
    BY SMT
  <2>2. Reduced(mode[1], mode[2]) = <<mode[1] \div 1, mode[2] \div 1>>
    BY <1>7 DEF Reduced
  <2>3. mode = <<mode[1], mode[2]>>
    BY DEF Modes
  <2> QED
    BY <2>1, <2>2, <2>3, ModesPositive
<1> QED
  BY <1>8

\* ResetIfNeeded compares whole kHz: the rates the client asks for are told apart
\* by them as far as their ratio goes.
RatesTold ==
    \A p, q \in Rates : kHz(p[1], p[2]) = kHz(q[1], q[2]) =>
                            Reduced(p[1], p[2]) = Reduced(q[1], q[2])

\* The rates an instance remembers are those last asked for, and while it can push
\* they are rates of the client, whose ratio is its channels' mode.
RatioInv ==
    /\ r.khz = kHz(asked[1], asked[2])
    /\ \/ Asynchronous(r.type)
       \/ /\ \E p \in Rates : asked = <<p[1], p[2]>>
          /\ ChannelOf(r).mode = Reduced(asked[1], asked[2])

AskedInv ==
    /\ RatioInv
    /\ last.call = "Push" /\ last.ret = 0 => ~Asynchronous(r.type)

LEMMA ChannelsAre ==
    ASSUME Twins(r)
    PROVE  Len(Channels) = SidesOf(r) /\ \A c \in DOMAIN Channels : Channels[c] = ChannelOf(r)
<1>1. CASE r.slaves = <<>>
  <2>1. Channels = <<r>> /\ SidesOf(r) = 1 /\ ChannelOf(r) = r
    BY <1>1 DEF Channels, SidesOf, ChannelOf
  <2>2. ASSUME NEW z PROVE Len(<<z>>) = 1 /\ \A c \in DOMAIN <<z>> : <<z>>[c] = z
    OBVIOUS
  <2> QED
    BY <2>1, <2>2
<1>2. CASE r.slaves # <<>>
  <2> DEFINE y == r.slaves[1]
  <2>1. Channels = <<y, y>> /\ SidesOf(r) = 2 /\ ChannelOf(r) = y
    BY <1>2 DEF Channels, SidesOf, ChannelOf, Twins
  <2> HIDE DEF y
  <2>2. ASSUME NEW z PROVE Len(<<z, z>>) = 2 /\ \A c \in DOMAIN <<z, z>> : <<z, z>>[c] = z
    OBVIOUS
  <2> QED
    BY <2>1, <2>2
<1> QED
  BY <1>1, <1>2

LEMMA AskedInvRatio == TypeInv /\ AskedInv => UnderTheRatioAsked
<1> SUFFICES ASSUME TypeInv, AskedInv, last.call = "Push", last.ret = 0, NEW c \in DOMAIN Channels
             PROVE  Channels[c].mode = Reduced(asked[1], asked[2])
  BY DEF UnderTheRatioAsked
<1>1. Channels[c] = ChannelOf(r)
  BY ChannelsAre DEF TypeInv, PairInv
<1> QED
  BY <1>1 DEF AskedInv, RatioInv

\* A reset that leaves an instance able to push gives its channels the ratio.
LEMMA ResetKHz ==
    ASSUME NEW x, NEW in, NEW out, NEW type
    PROVE  Reset(x, in, out, type).khz = kHz(in, out)
<1>1. ResetMono(x, in, out, type).khz = kHz(in, out) /\ Whole(ResetMono(x, in, out, type))
  BY DEF ResetMono, Whole
<1> QED
  BY <1>1 DEF Reset, Whole

LEMMA ResetMode ==
    ASSUME NEW x, NEW in, NEW out, NEW type, ~Asynchronous(Reset(x, in, out, type).type)
    PROVE  ChannelOf(Reset(x, in, out, type)).mode = Reduced(in, out)
<1> DEFINE ratio == Reduced(in, out)
           slave == ResetMono(Constructed, ratio[1], ratio[2], MonoOf(type))
           mono == ResetMono(x, in, out, type)
           pair == IF Stereo(type) THEN <<slave, slave>> ELSE <<>>
           y == Reset(x, in, out, type)
<1>1. Whole(mono) /\ mono.type = IF ratio \in Modes THEN type ELSE "Invalid"
  BY DEF ResetMono, Whole
<1>2. mono.mode = IF ratio \in Modes THEN ratio ELSE x.mode
  BY DEF ResetMono
<1>3. y = [mono EXCEPT !.slaves = pair]
  BY DEF Reset
<1>4. slave.mode = IF Reduced(ratio[1], ratio[2]) \in Modes THEN Reduced(ratio[1], ratio[2])
                   ELSE Constructed.mode
  BY DEF ResetMono
<1>5. \/ pair # <<>> /\ pair[1] = slave
      \/ pair = <<>>
  <2>1. ASSUME NEW z PROVE <<z, z>> # <<>> /\ <<z, z>>[1] = z
    OBVIOUS
  <2> HIDE DEF slave
  <2> QED
    BY <2>1
<1> HIDE DEF mono, slave, pair
<1>6. y.slaves = pair /\ y.type = mono.type /\ y.mode = mono.mode
  BY <1>1, <1>3 DEF Whole
<1>7. ratio \in Modes
  <2>1. Asynchronous("Invalid")
    BY DEF Asynchronous
  <2> HIDE DEF ratio
  <2>2. ~Asynchronous(y.type)
    OBVIOUS
  <2> HIDE DEF y
  <2> QED
    BY <1>1, <1>6, <2>1, <2>2
<1> HIDE DEF y, ratio
<1>8. slave.mode = ratio /\ mono.mode = ratio
  BY <1>2, <1>4, <1>7, ModesReduced
<1>9. ChannelOf(y).mode = ratio
  BY <1>5, <1>6, <1>8 DEF ChannelOf
<1> QED
  BY <1>9 DEF y, ratio

LEMMA AskedInvInit == Init => AskedInv
<1> SUFFICES ASSUME Init PROVE AskedInv
  OBVIOUS
<1>1. r.khz = <<0, 0>> /\ r.type = "Invalid" /\ asked = <<1, 1>> /\ last.call = "none"
  BY DEF Init, Constructed, Lengthless
<1>2. kHz(asked[1], asked[2]) = <<0, 0>>
  BY <1>1 DEF kHz
<1>3. Asynchronous(r.type)
  BY <1>1 DEF Asynchronous
<1> QED
  BY <1>1, <1>2, <1>3 DEF AskedInv, RatioInv

LEMMA AskedInvNext ==
    ASSUME RatesTold, TypeInv, AskedInv, [Next]_vars
    PROVE  AskedInv'
<1>1. r.mode \in Modes /\ Sound(r)
  BY DEF TypeInv, Typed, PairInv, Sound
<1>2. ASSUME NEW p \in Rates, NEW type, DoReset(p[1], p[2], type)
      PROVE  AskedInv'
  <2> DEFINE y == Reset(r, p[1], p[2], type)
  <2>1. r' = y /\ asked' = <<p[1], p[2]>> /\ last'.call = "Reset"
    BY <1>2 DEF DoReset, Lengthless
  <2>2. asked'[1] = p[1] /\ asked'[2] = p[2]
    BY <2>1
  <2>3. y.khz = kHz(p[1], p[2])
    BY ResetKHz
  <2>4. ~Asynchronous(y.type) => ChannelOf(y).mode = Reduced(p[1], p[2])
    BY ResetMode
  <2> HIDE DEF y
  <2> QED
    BY <2>1, <2>2, <2>3, <2>4 DEF AskedInv, RatioInv
<1>3. CASE UNCHANGED vars
  BY <1>3 DEF vars, AskedInv, RatioInv
<1>4. ASSUME NEW p \in Rates, NEW type, DoResetIfNeeded(p[1], p[2], type)
      PROVE  AskedInv'
  <2>1. CASE NeedsReset(r, p[1], p[2], type)
    BY <1>2, <1>4, <2>1 DEF DoResetIfNeeded
  <2>2. CASE ~NeedsReset(r, p[1], p[2], type)
    <3>1. r' = r /\ asked' = <<p[1], p[2]>> /\ last'.call = "ResetIfNeeded"
      BY <1>4, <2>2 DEF DoResetIfNeeded, Lengthless
    <3>2. kHz(p[1], p[2]) = r.khz
      BY <2>2 DEF NeedsReset
    <3>3. asked'[1] = p[1] /\ asked'[2] = p[2]
      BY <3>1
    <3>4. ~Asynchronous(r.type) => ChannelOf(r).mode = Reduced(p[1], p[2])
      <4> SUFFICES ASSUME ~Asynchronous(r.type)
                   PROVE  ChannelOf(r).mode = Reduced(p[1], p[2])
        OBVIOUS
      <4>1. PICK q \in Rates : asked = <<q[1], q[2]>>
        BY DEF AskedInv, RatioInv
      <4>2. asked[1] = q[1] /\ asked[2] = q[2]
        BY <4>1
      <4>3. ChannelOf(r).mode = Reduced(q[1], q[2]) /\ r.khz = kHz(q[1], q[2])
        BY <4>2 DEF AskedInv, RatioInv
      <4> QED
        BY <3>2, <4>3 DEF RatesTold
    <3> QED
      BY <3>1, <3>2, <3>3, <3>4 DEF AskedInv, RatioInv
  <2> QED
    BY <2>1, <2>2
<1>5. ASSUME NEW n \in Nat, NEW room \in Nat, DoPush(n, room)
      PROVE  AskedInv'
  <2> DEFINE o == Push(r, n, room)
  <2>1. r' = o.res /\ last'.ret = o.ret /\ asked' = asked
    BY <1>5 DEF DoPush
  <2>2. CASE Asynchronous(r.type)
    <3>1. o.res = r /\ o.ret = -1
      BY <2>2, PushAsynchronous
    <3> QED
      BY <2>1, <3>1 DEF AskedInv, RatioInv
  <2>3. CASE ~Asynchronous(r.type)
    <3> DEFINE d == SidesOf(r)
               x == ChannelOf(r)
               a == PushMono(x, n \div d, room \div d)
    <3>1. o.res.type = r.type /\ o.res.khz = r.khz /\ ChannelOf(o.res) = a.res
      BY <1>1, <2>3, PushSides
    <3>2. Whole(x)
      BY <1>1 DEF Sound, Typed
    <3>3. a.res.mode = x.mode
      BY <3>2, MonoKeeps
    <3> HIDE DEF o, a, d
    <3> QED
      BY <2>1, <2>3, <3>1, <3>3 DEF AskedInv, RatioInv
  <2> QED
    BY <2>2, <2>3
<1> QED
  BY <1>2, <1>3, <1>4, <1>5, LengthsAssumption DEF Next

\* A Push that succeeds converts by the ratio last asked for, whatever was asked,
\* rejected or left as it was in between.
THEOREM RatioAsked ==
    (Types \subseteq ResamplerTypes) /\ RatesTold => (Spec => []UnderTheRatioAsked)
<1> SUFFICES ASSUME Types \subseteq ResamplerTypes, RatesTold
             PROVE  Spec => []UnderTheRatioAsked
  OBVIOUS
<1>1. TypeInv /\ [Next]_vars => TypeInv'
  BY TypeInvNext
<1>2. TypeInv /\ AskedInv /\ [Next]_vars => AskedInv'
  BY AskedInvNext
<1> QED
  BY TypeInvInit, AskedInvInit, <1>1, <1>2, AskedInvRatio, PTL DEF Spec

\* Lengths whose halves and quarters are whole, a channel's included, and that the
\* filters that count in 16 bits take: halving an odd length drops a sample of it.
WholeLengths == \A n \in Lengths : n % 8 = 0 /\ 3 * n < 32768

\* A channel that was brought n samples: they are whole blocks of its mode, and its
\* filters took what they were passed of them.
InStep(x, n) ==
    LET m == ModeOf(x.mode)
    IN  /\ n % 4 = 0 /\ n % m.multiple = 0
        /\ \A s \in DOMAIN x.fed :
              /\ s \in 1 .. Len(m.chain)
              /\ \/ x.fed[s] = Passed(x.mode, s, n)
                 \/ m.late /\ s = 1 /\ x.fed[s] > Passed(x.mode, s, n)

FiltersInv ==
    \E share \in Nat : accepted = SidesOf(r) * share /\ InStep(ChannelOf(r), share)

LEMMA SharesDivide == \A n \in Nat : (1 * n) \div 1 = n /\ (2 * n) \div 2 = n
  OBVIOUS

LEMMA FiltersInvStep == TypeInv /\ FiltersInv => FiltersInStep
<1> SUFFICES ASSUME TypeInv, FiltersInv PROVE FiltersInStep
  OBVIOUS
<1> DEFINE y == ChannelOf(r)
           d == SidesOf(r)
<1>1. Len(Channels) = d /\ \A c \in DOMAIN Channels : Channels[c] = y
  BY ChannelsAre DEF TypeInv, PairInv
<1>2. PICK share \in Nat : accepted = d * share /\ InStep(y, share)
  BY DEF FiltersInv
<1>3. d \in {1, 2}
  BY DEF SidesOf
<1> HIDE DEF y, d
<1>4. accepted \div Len(Channels) = share
  BY <1>1, <1>2, <1>3, SharesDivide
<1> SUFFICES ASSUME NEW c \in DOMAIN Channels, NEW s \in DOMAIN y.fed
             PROVE  \/ y.fed[s] = Passed(y.mode, s, share)
                    \/ ModeOf(y.mode).late /\ s = 1 /\ y.fed[s] > Passed(y.mode, s, share)
  BY <1>1, <1>4 DEF FiltersInStep
<1> QED
  BY <1>2 DEF InStep

\* What the filters of a mode are passed of two lengths they are passed of both.
LEMMA PassedSum ==
    ASSUME NEW mode \in Modes, NEW n \in Nat, n % 4 = 0, n % ModeOf(mode).multiple = 0,
           NEW k \in Nat, k % 4 = 0, k % ModeOf(mode).multiple = 0
    PROVE  /\ (n + k) % 4 = 0 /\ (n + k) % ModeOf(mode).multiple = 0
           /\ \A s \in 1 .. Len(ModeOf(mode).chain) :
                 /\ Passed(mode, s, n) \in Nat /\ Passed(mode, s, k) \in Nat
                 /\ Passed(mode, s, n + k) = Passed(mode, s, n) + Passed(mode, s, k)
                 /\ Passed(mode, s, 0) = 0
<1> DEFINE u == ModeOf(mode).multiple
           l == Len(ModeOf(mode).chain)
           w == Unit(mode)
<1>1. u \in Nat \ {0} /\ l \in 0 .. 3 /\ (mode # <<1, 1>> => l >= 1)
  BY ModeShapes
<1>2. w \in Nat \ {0} /\ (\E i \in Nat : n = w * i) /\ (\E j \in Nat : k = w * j)
  BY <1>1, WholeUnits
<1>3. PICK i \in Nat : n = w * i
  BY <1>2
<1>4. PICK j \in Nat : k = w * j
  BY <1>2
<1>5. n + k = w * (i + j) /\ i + j \in Nat
  BY <1>2, <1>3, <1>4, TimesDistributes
<1>6. (n + k) % 4 = 0
  OBVIOUS
<1>7. (n + k) % u = 0
  <2> HIDE DEF u
  <2> DEFINE a == n \div u
             b == k \div u
  <2>1. a \in Nat /\ n = u * a /\ b \in Nat /\ k = u * b
    BY <1>1, DividedNoRest DEF u
  <2> HIDE DEF a, b
  <2>2. n + k = u * (a + b) /\ a + b \in Nat
    BY <1>1, <2>1, TimesDistributes
  <2> DEFINE c == a + b
  <2>3. c \in Nat /\ n + k = u * c
    BY <2>2
  <2> HIDE DEF c
  <2>4. (u * c) % u = 0
    BY <1>1, <2>3, DividedExactly
  <2> QED
    BY <2>3, <2>4
<1>8. ASSUME NEW s \in 1 .. l
      PROVE  /\ Passed(mode, s, n) \in Nat /\ Passed(mode, s, k) \in Nat
             /\ Passed(mode, s, n + k) = Passed(mode, s, n) + Passed(mode, s, k)
             /\ Passed(mode, s, 0) = 0
  <2>1. s \in 1 .. 3 /\ l >= 1
    <3> HIDE DEF l
    <3> QED
      BY <1>1
  <2>2. mode # <<1, 1>>
    <3>1. Len(<<>>) = 0
      OBVIOUS
    <3>2. mode = <<1, 1>> => l = 0
      BY <3>1, OneToOne DEF Holds
    <3> HIDE DEF l
    <3> QED
      BY <2>1, <3>2
  <2>3. Flow(mode)
    BY <2>2, UnitsFlow
  <2>4. \E v, b : Flows(mode, v, b)
    BY ONLY <2>3, Zenon DEF Flow
  <2>5. PICK v, b : Flows(mode, v, b)
    BY <2>4
  <2>6. v \in [1 .. 4 -> Nat]
    BY <2>5 DEF Flows
  <2>7. v[s] \in Nat
    BY <2>1, <2>6
  <2>8. \A x \in Nat : Passed(mode, s, w * x) = v[s] * x
    BY <2>5, PassedOfUnits
  <2> HIDE DEF w, l
  <2>9. v[s] * (i + j) = v[s] * i + v[s] * j /\ v[s] * i \in Nat /\ v[s] * j \in Nat
    BY <2>7, TimesDistributes
  <2>10. Passed(mode, s, n) = v[s] * i /\ Passed(mode, s, k) = v[s] * j
         /\ Passed(mode, s, n + k) = v[s] * (i + j)
    BY <1>3, <1>4, <1>5, <2>8
  <2>11. Passed(mode, s, 0) = 0
    <3>1. w * 0 = 0 /\ v[s] * 0 = 0
      BY <1>2, <2>7
    <3>2. Passed(mode, s, w * 0) = v[s] * 0
      BY <2>8
    <3> QED
      BY <3>1, <3>2
  <2> QED
    BY <2>9, <2>10, <2>11
<1> QED
  BY <1>6, <1>7, <1>8

\* Right after a reset every filter of a channel has taken nothing.
LEMMA ResetInStep ==
    ASSUME NEW x, x.mode \in Modes, NEW in, NEW out, NEW type
    PROVE  InStep(ResetMono(x, in, out, type), 0)
<1> DEFINE ratio == Reduced(in, out)
           y == ResetMono(x, in, out, type)
           m == ModeOf(y.mode)
<1>1. y.mode = IF ratio \in Modes THEN ratio ELSE x.mode
  BY DEF ResetMono
<1>2. y.fed = IF ratio \in Modes THEN [s \in DOMAIN ModeOf(ratio).chain |-> 0] ELSE <<>>
  BY DEF ResetMono
<1> HIDE DEF y
<1>3. y.mode \in Modes
  BY <1>1
<1>4. m.multiple \in Nat \ {0} /\ m.chain \in Seq(Filters)
  BY <1>3, ModeShapes
<1>5. 0 % 4 = 0 /\ 0 % m.multiple = 0
  <2> DEFINE u == m.multiple
  <2>1. u \in Nat \ {0}
    BY <1>4
  <2> HIDE DEF u
  <2>2. 0 % u = 0
    BY <2>1, SMT
  <2> QED
    BY <2>2 DEF u
<1>6. ASSUME NEW s \in 1 .. Len(m.chain)
      PROVE  Passed(y.mode, s, 0) = 0
  BY <1>3, <1>5, PassedSum
<1>7. ASSUME NEW s \in DOMAIN y.fed
      PROVE  s \in 1 .. Len(m.chain) /\ y.fed[s] = 0
  <2>1. CASE ratio \in Modes
    <3>1. m = ModeOf(ratio) /\ y.fed = [q \in DOMAIN m.chain |-> 0]
      BY <1>1, <1>2, <2>1
    <3>2. DOMAIN m.chain = 1 .. Len(m.chain)
      BY <1>4
    <3> HIDE DEF m
    <3> QED
      BY <3>1, <3>2
  <2>2. CASE ratio \notin Modes
    <3>1. y.fed = <<>>
      BY <1>2, <2>2
    <3> QED
      BY <3>1
  <2> QED
    BY <2>1, <2>2
<1>8. \A s \in DOMAIN y.fed : s \in 1 .. Len(m.chain) /\ y.fed[s] = Passed(y.mode, s, 0)
  BY <1>6, <1>7
<1>9. InStep(y, 0)
  BY <1>5, <1>8 DEF InStep
<1> QED
  BY <1>9 DEF y

\* Feeding takes each filter's share and leaves the rest of an instance.
LEMMA FedAre ==
    ASSUME NEW x, Whole(x), NEW took
    PROVE  LET y == Feed(x, took)
           IN  /\ y.mode = x.mode /\ DOMAIN y.fed = DOMAIN x.fed
               /\ \A s \in DOMAIN x.fed :
                     y.fed[s] = x.fed[s] + IF s \in DOMAIN took THEN took[s] ELSE 0
<1> DEFINE f == [s \in DOMAIN x.fed |-> x.fed[s] + IF s \in DOMAIN took THEN took[s] ELSE 0]
           y == Feed(x, took)
<1>1. /\ DOMAIN f = DOMAIN x.fed
      /\ \A s \in DOMAIN x.fed : f[s] = x.fed[s] + IF s \in DOMAIN took THEN took[s] ELSE 0
  OBVIOUS
<1>2. y = [x EXCEPT !.fed = f]
  BY DEF Feed
<1> HIDE DEF f, y
<1>3. y.mode = x.mode /\ y.fed = f
  BY <1>2 DEF Whole
<1> QED
  BY <1>1, <1>3 DEF y

\* A call that converts writes nothing past its room or a temporary, failed or not.
LEMMA MonoFits ==
    ASSUME NEW x, x.mode \in Modes, x.mode # <<1, 1>>, NEW n \in Nat, n % 4 = 0,
           3 * n < 32768, NEW room \in Nat
    PROVE  PushMono(x, n, room).fits
<1> DEFINE mode == x.mode
           m == ModeOf(mode)
           whole == RunChain(m, n, room, Len(m.chain))
           o == PushMono(x, n, room)
           z == Converted(mode, n)
<1>1. z \in Nat
  <2>1. mode[1] \in Nat \ {0} /\ mode[2] \in Nat
    BY ModesPositive
  <2>2. n * mode[2] \in Nat
    BY <2>1, TimesReordered
  <2> QED
    BY <2>1, <2>2, DividedType DEF Converted
<1>2. n % m.multiple = 0 /\ z <= room => whole.fits
  BY ChainServes
<1> HIDE DEF z
<1>3. room < z \/ z <= room
  BY <1>1
<1>4. o.ret = -1 => o.fits
  BY DEF PushMono, Outcome, Rejected
<1>5. o.ret = 0 \/ o.ret = -1
  BY DEF PushMono, Outcome, Rejected
<1>6. o.ret = 0 => n % m.multiple = 0 /\ z <= room
  BY <1>3 DEF PushMono, Outcome, Rejected, z
<1>7. o.ret = 0 => (o.fits <=> whole.fits)
  BY DEF PushMono, Outcome, Rejected
<1> HIDE DEF o, whole, m
<1> QED
  BY <1>2, <1>4, <1>5, <1>6, <1>7 DEF o

\* A call of whole blocks moves every filter of a channel by what it is passed, and
\* gives all its output within the room; one that fails skips and repeats nothing.
LEMMA MonoInStep ==
    ASSUME NEW x, Typed(x), NEW share \in Nat, InStep(x, share),
           NEW n \in Nat, n % 4 = 0, 3 * n < 32768, NEW room \in Nat
    PROVE  LET o == PushMono(x, n, room)
           IN  /\ o.ret = 0 => InStep(o.res, share + n)
               /\ o.ret = -1 => InStep(o.res, share)
               /\ o.ret = 0 /\ x.mode # <<1, 1>> =>
                     o.outLen = Converted(x.mode, n) /\ o.wrote = Converted(x.mode, n)
<1> DEFINE mode == x.mode
           m == ModeOf(mode)
           c == m.chain
           l == Len(c)
           whole == RunChain(m, n, room, l)
           first == RunChain(m, n, room, 1)
           o == PushMono(x, n, room)
           Right(s) == \/ x.fed[s] = Passed(mode, s, share)
                       \/ m.late /\ s = 1 /\ x.fed[s] > Passed(mode, s, share)
<1>1. Whole(x) /\ mode \in Modes /\ \A s \in DOMAIN x.fed : x.fed[s] \in Nat
  BY DEF Typed
<1>2. share % 4 = 0 /\ share % m.multiple = 0
  BY DEF InStep
<1>3. \A s \in DOMAIN x.fed : s \in 1 .. l /\ Right(s)
  BY DEF InStep
<1>4. \/ mode = <<1, 1>> /\ o.res = x /\ o.ret = 0
      \/ o.res = x /\ o.ret = -1
      \/ m.late /\ o.res = Feed(x, first.took) /\ o.ret = -1
      \/ /\ mode # <<1, 1>> /\ Converted(mode, n) <= room /\ n % m.multiple = 0
         /\ o.res = Feed(x, whole.took) /\ o.ret = 0
         /\ o.outLen = whole.n /\ o.wrote = whole.wrote
  <2>1. Converted(mode, n) \in Nat
    <3>1. mode[1] \in Nat \ {0} /\ mode[2] \in Nat
      BY <1>1, ModesPositive
    <3>2. n * mode[2] \in Nat
      BY <3>1, TimesReordered
    <3> QED
      BY <3>1, <3>2, DividedType DEF Converted
  <2> DEFINE z == Converted(mode, n)
  <2> HIDE DEF z
  <2>2. room < z \/ z <= room
    BY <2>1 DEF z
  <2> QED
    BY <2>2 DEF PushMono, Outcome, Rejected, z
<1>5. l \in 0 .. 3 /\ m.multiple \in Nat \ {0} /\ (m.late => l >= 1)
  <2>1. m.late => mode # <<1, 1>>
    BY OneToOne
  <2> QED
    BY <1>1, <2>1, ModeShapes
<1>6. m.late => first.took \in Seq(Nat) /\ Len(first.took) = 1
  <2>1. m.late => 1 \in 0 .. l
    BY <1>5
  <2>2. m.late => FlowTyped(1, first)
    BY <1>1, <2>1, RunTyped
  <2> HIDE DEF first, m
  <2> QED
    BY <2>2 DEF FlowTyped
<1>7. \A s \in 1 .. l : Passed(mode, s, share) \in Nat
  <2>1. mode \in Modes /\ share \in Nat /\ share % 4 = 0 /\ share % m.multiple = 0
    BY <1>1, <1>2
  <2> HIDE DEF mode
  <2> QED
    BY ONLY <2>1, PassedSum DEF m, l, c
<1>8. mode = <<1, 1>> => l = 0 /\ m.multiple = 1
  <2>1. Len(<<>>) = 0
    OBVIOUS
  <2> QED
    BY <2>1, OneToOne DEF Holds
<1>9. mode # <<1, 1>> /\ Converted(mode, n) <= room /\ n % m.multiple = 0 =>
            /\ whole.n = Converted(mode, n) /\ whole.wrote = Converted(mode, n)
            /\ whole.took \in Seq(Nat) /\ Len(whole.took) = l
            /\ \A s \in 1 .. l : whole.took[s] = Passed(mode, s, n)
  <2> SUFFICES ASSUME mode # <<1, 1>>, Converted(mode, n) <= room, n % m.multiple = 0
               PROVE  /\ whole.n = Converted(mode, n) /\ whole.wrote = Converted(mode, n)
                      /\ whole.took \in Seq(Nat) /\ Len(whole.took) = l
                      /\ \A s \in 1 .. l : whole.took[s] = Passed(mode, s, n)
    OBVIOUS
  <2>1. mode \in Modes
    BY <1>1
  <2> HIDE DEF mode
  <2> QED
    BY <2>1, ChainServes
<1> HIDE DEF o, whole, first, c
<1> SUFFICES /\ o.ret = 0 => InStep(o.res, share + n)
             /\ o.ret = -1 => InStep(o.res, share)
             /\ o.ret = 0 /\ mode # <<1, 1>> =>
                   o.outLen = Converted(mode, n) /\ o.wrote = Converted(mode, n)
  BY DEF o
<1>10. CASE mode = <<1, 1>> /\ o.res = x /\ o.ret = 0
  <2> HIDE DEF l, m
  <2>1. (share + n) % 4 = 0
    BY <1>2
  <2>2. (share + n) % m.multiple = 0
    <3>1. m.multiple = 1
      BY <1>8, <1>10
    <3>2. (share + n) % 1 = 0
      BY SMT
    <3> QED
      BY <3>1, <3>2
  <2>3. l = 0
    BY <1>8, <1>10
  <2>4. ASSUME NEW s \in DOMAIN x.fed PROVE FALSE
    BY <1>3, <2>3
  <2>5. InStep(x, share + n)
    BY <2>1, <2>2, <2>4 DEF InStep, m
  <2> QED
    BY <1>10, <2>5
<1>11. CASE o.res = x /\ o.ret = -1
  BY <1>11
<1>12. CASE m.late /\ o.res = Feed(x, first.took) /\ o.ret = -1
  <2> DEFINE y == o.res
             t == first.took
  <2>1. /\ y.mode = mode /\ DOMAIN y.fed = DOMAIN x.fed
        /\ \A s \in DOMAIN x.fed : y.fed[s] = x.fed[s] + IF s \in DOMAIN t THEN t[s] ELSE 0
    BY <1>1, <1>12, FedAre
  <2>2. t \in Seq(Nat) /\ Len(t) = 1
    BY <1>6, <1>12
  <2> HIDE DEF y, t, l, m
  <2>3. DOMAIN t = {1} /\ t[1] \in Nat
    <3>1. DOMAIN t = 1 .. Len(t) /\ t \in [1 .. Len(t) -> Nat]
      <4>1. t \in Seq(Nat)
        BY ONLY <2>2
      <4> QED
        BY ONLY <4>1
    <3>2. 1 .. 1 = {1}
      BY SMT
    <3>3. DOMAIN t = {1}
      BY ONLY <2>2, <3>1, <3>2
    <3> QED
      BY ONLY <3>1, <3>3
  <2>4. ASSUME NEW s \in DOMAIN y.fed
        PROVE  /\ s \in 1 .. l
               /\ \/ y.fed[s] = Passed(mode, s, share)
                  \/ m.late /\ s = 1 /\ y.fed[s] > Passed(mode, s, share)
    <3> DEFINE p == Passed(mode, s, share)
               q == x.fed[s]
    <3>1. s \in DOMAIN x.fed /\ s \in 1 .. l /\ q \in Nat /\ p \in Nat
      BY <1>1, <1>3, <1>7, <2>1
    <3>2. q = p \/ (s = 1 /\ q > p)
      BY <1>3, <3>1
    <3>3. y.fed[s] = IF s = 1 THEN q + t[1] ELSE q
      BY <2>1, <2>3, <3>1
    <3> HIDE DEF p, q
    <3>4. y.fed[s] = p \/ (s = 1 /\ y.fed[s] > p)
      BY <2>3, <3>1, <3>2, <3>3
    <3> QED
      BY <1>12, <3>1, <3>4 DEF p
  <2>5. InStep(y, share)
    BY <1>2, <2>1, <2>4 DEF InStep, m, l
  <2> QED
    BY <1>12, <2>5 DEF y
<1>13. CASE /\ mode # <<1, 1>> /\ Converted(mode, n) <= room /\ n % m.multiple = 0
            /\ o.res = Feed(x, whole.took) /\ o.ret = 0
            /\ o.outLen = whole.n /\ o.wrote = whole.wrote
  <2> DEFINE y == o.res
             t == whole.took
  <2>1. /\ y.mode = mode /\ DOMAIN y.fed = DOMAIN x.fed
        /\ \A s \in DOMAIN x.fed : y.fed[s] = x.fed[s] + IF s \in DOMAIN t THEN t[s] ELSE 0
    BY <1>1, <1>13, FedAre
  <2>2. t \in Seq(Nat) /\ Len(t) = l /\ \A s \in 1 .. l : t[s] = Passed(mode, s, n)
    <3> HIDE DEF y, l, m, mode
    <3> QED
      BY ONLY <1>9, <1>13
  <2>3. /\ (share + n) % 4 = 0 /\ (share + n) % m.multiple = 0
        /\ \A s \in 1 .. l :
              /\ Passed(mode, s, share) \in Nat /\ Passed(mode, s, n) \in Nat
              /\ Passed(mode, s, share + n) = Passed(mode, s, share) + Passed(mode, s, n)
    <3>1. n % m.multiple = 0 /\ share % m.multiple = 0 /\ share % 4 = 0
      BY <1>2, <1>13
    <3>2. n \in Nat /\ share \in Nat /\ n % 4 = 0 /\ x.mode \in Modes
      BY <1>1
    <3> HIDE DEF mode, m
    <3>3. n % m.multiple = 0 /\ share % m.multiple = 0 /\ share % 4 = 0 /\ mode \in Modes
      BY <3>1, <3>2 DEF mode
    <3>4. (share + n) % 4 = 0 /\ (share + n) % m.multiple = 0
      BY ONLY <3>2, <3>3, PassedSum DEF m
    <3>5. ASSUME NEW s \in 1 .. l
          PROVE  /\ Passed(mode, s, share) \in Nat /\ Passed(mode, s, n) \in Nat
                 /\ Passed(mode, s, share + n) = Passed(mode, s, share) + Passed(mode, s, n)
      BY ONLY <3>2, <3>3, <3>5, PassedSum DEF m, l, c
    <3> QED
      BY <3>4, <3>5
  <2>4. o.outLen = Converted(mode, n) /\ o.wrote = Converted(mode, n)
    BY <1>9, <1>13
  <2> HIDE DEF y, t, l, m
  <2>5. DOMAIN t = 1 .. l
    BY <2>2
  <2>6. ASSUME NEW s \in DOMAIN y.fed
        PROVE  /\ s \in 1 .. l
               /\ \/ y.fed[s] = Passed(mode, s, share + n)
                  \/ m.late /\ s = 1 /\ y.fed[s] > Passed(mode, s, share + n)
    <3> DEFINE p == Passed(mode, s, share)
               k == Passed(mode, s, n)
               q == x.fed[s]
    <3>1. s \in DOMAIN x.fed /\ s \in 1 .. l /\ q \in Nat /\ p \in Nat /\ k \in Nat
      BY <1>1, <1>3, <2>1, <2>3
    <3>2. q = p \/ (m.late /\ s = 1 /\ q > p)
      BY <1>3, <3>1
    <3>3. y.fed[s] = q + k /\ Passed(mode, s, share + n) = p + k
      BY <2>1, <2>2, <2>3, <2>5, <3>1
    <3> HIDE DEF p, q, k
    <3>4. CASE q = p
      BY <3>1, <3>3, <3>4
    <3>5. CASE m.late /\ s = 1 /\ q > p
      <4>1. y.fed[s] > Passed(mode, s, share + n)
        BY <3>1, <3>3, <3>5
      <4> QED
        BY <3>1, <3>5, <4>1
    <3> QED
      BY <3>2, <3>4, <3>5
  <2>7. InStep(y, share + n)
    BY <2>1, <2>3, <2>6 DEF InStep, m, l
  <2> QED
    BY <1>13, <2>4, <2>7 DEF y
<1> QED
  BY <1>4, <1>10, <1>11, <1>12, <1>13

\* A share of whole blocks is whole blocks of the call's samples.
LEMMA WholeShares ==
    ASSUME NEW n \in Nat, n % 8 = 0, 3 * n < 32768, NEW d \in {1, 2}
    PROVE  n \div d \in Nat /\ (n \div d) % 4 = 0 /\ 3 * (n \div d) < 32768 /\ n = d * (n \div d)
<1>1. CASE d = 1
  BY <1>1
<1>2. CASE d = 2
  BY <1>2
<1> QED
  BY <1>1, <1>2

\* What a push does, as its channels see it.
LEMMA PushInStep ==
    ASSUME WholeLengths, TypeInv, FiltersInv, ~Asynchronous(r.type),
           NEW n \in Lengths, NEW room \in Nat
    PROVE  LET d == SidesOf(r)
               o == Push(r, n, room)
           IN  /\ \E share \in Nat : /\ accepted + (IF o.ret = 0 THEN n ELSE 0) = d * share
                                     /\ SidesOf(o.res) = d /\ InStep(ChannelOf(o.res), share)
               /\ ChannelOf(r).mode # <<1, 1>> /\ o.ret = 0 =>
                     /\ o.outLen = d * Converted(ChannelOf(r).mode, n \div d)
                     /\ o.wrote = o.outLen
               /\ ChannelOf(r).mode # <<1, 1>> => o.fits
<1> DEFINE d == SidesOf(r)
           x == ChannelOf(r)
           part == n \div d
           a == PushMono(x, part, room \div d)
           o == Push(r, n, room)
<1>1. Sound(r) /\ Typed(x) /\ accepted \in Nat
  BY DEF TypeInv, PairInv, Sound
<1>2. PICK share \in Nat : accepted = d * share /\ InStep(x, share)
  BY DEF FiltersInv
<1>3. d \in {1, 2}
  BY DEF SidesOf
<1>4. n \in Nat /\ n % 8 = 0 /\ 3 * n < 32768
  BY LengthsAssumption DEF WholeLengths
<1>5. /\ SidesOf(o.res) = d /\ ChannelOf(o.res) = a.res /\ o.ret = a.ret
      /\ o.ret = 0 => o.outLen = d * a.outLen /\ o.wrote = d * a.wrote
  <2>1. Sound(r) /\ ~Asynchronous(r.type) /\ n \in Nat /\ room \in Nat
    BY <1>1, <1>4
  <2>2. SidesOf(o.res) = d
    BY ONLY <2>1, PushSides
  <2>3. ChannelOf(o.res) = a.res
    BY <2>1, PushSides, Zenon
  <2>4. o.ret = a.ret
    BY ONLY <2>1, PushSides, Zenon
  <2>5. o.ret = 0 => o.outLen = d * a.outLen
    BY ONLY <2>1, PushSides, SMTT(30)
  <2>6. o.ret = 0 => o.wrote = d * a.wrote
    BY <2>1, PushSides, SMTT(30)
  <2> HIDE DEF o, d, a
  <2> QED
    BY <2>2, <2>3, <2>4, <2>5, <2>6
<1>6. o.fits <=> o.ret = -1 \/ a.fits
  <2>1. Sound(r) /\ ~Asynchronous(r.type) /\ n \in Nat /\ room \in Nat
    BY <1>1, <1>4
  <2> QED
    BY ONLY <2>1, PushSides, ZenonT(30)
<1> HIDE DEF o, x, d
<1>7. part \in Nat /\ part % 4 = 0 /\ 3 * part < 32768 /\ n = d * part
  BY <1>3, <1>4, WholeShares
<1>8. room \div d \in Nat
  BY <1>3, DividedType
<1> DEFINE space == room \div d
<1> HIDE DEF part, space
<1>9. a.ret \in {0, -1}
  BY <1>1, <1>7, MonoTyped
<1>10. /\ a.ret = 0 => InStep(a.res, share + part)
       /\ a.ret = -1 => InStep(a.res, share)
       /\ a.ret = 0 /\ x.mode # <<1, 1>> =>
             /\ a.outLen = Converted(x.mode, part) /\ a.wrote = Converted(x.mode, part)
  BY <1>1, <1>2, <1>7, <1>8, MonoInStep DEF space
<1>11. x.mode # <<1, 1>> => a.fits
  <2>1. x.mode \in Modes
    BY <1>1 DEF Typed
  <2>2. part \in Nat /\ part % 4 = 0 /\ 3 * part < 32768 /\ space \in Nat
    BY <1>7, <1>8 DEF space
  <2>3. x.mode # <<1, 1>> => PushMono(x, part, space).fits
    BY ONLY <2>1, <2>2, MonoFits
  <2> QED
    BY ONLY <2>3 DEF space
<1> HIDE DEF a
<1>12. ASSUME o.ret = 0
       PROVE  \E s \in Nat : /\ accepted + (IF o.ret = 0 THEN n ELSE 0) = d * s
                             /\ SidesOf(o.res) = d /\ InStep(ChannelOf(o.res), s)
  <2>1. accepted + n = d * (share + part) /\ share + part \in Nat
    BY <1>2, <1>3, <1>7, TimesDistributes
  <2>2. InStep(a.res, share + part)
    BY <1>5, <1>10, <1>12
  <2> QED
    BY <1>5, <1>12, <2>1, <2>2
<1>13. ASSUME o.ret = -1
       PROVE  \E s \in Nat : /\ accepted + (IF o.ret = 0 THEN n ELSE 0) = d * s
                             /\ SidesOf(o.res) = d /\ InStep(ChannelOf(o.res), s)
  <2>1. InStep(a.res, share)
    BY <1>5, <1>10, <1>13
  <2>2. accepted + (IF o.ret = 0 THEN n ELSE 0) = d * share
    BY <1>1, <1>2, <1>13
  <2> QED
    BY <1>5, <2>1, <2>2
<1>14. x.mode # <<1, 1>> /\ o.ret = 0 =>
          /\ o.outLen = d * Converted(x.mode, part) /\ o.wrote = o.outLen
  BY <1>5, <1>10
<1>15. x.mode # <<1, 1>> => o.fits
  BY <1>6, <1>11
<1>16. o.ret = 0 \/ o.ret = -1
  BY <1>5, <1>9
<1>17. \E s \in Nat : /\ accepted + (IF o.ret = 0 THEN n ELSE 0) = d * s
                      /\ SidesOf(o.res) = d /\ InStep(ChannelOf(o.res), s)
  BY <1>12, <1>13, <1>16
<1> QED
  BY <1>14, <1>15, <1>17 DEF o, x, d, part

LEMMA FiltersInvInit == Init => FiltersInv
<1> SUFFICES ASSUME Init PROVE FiltersInv
  OBVIOUS
<1>1. r.slaves = <<>> /\ r.mode = <<1, 1>> /\ r.fed = <<>> /\ accepted = 0
  BY DEF Init, Constructed
<1>2. ChannelOf(r) = r /\ SidesOf(r) = 1
  BY <1>1 DEF ChannelOf, SidesOf
<1>3. ModeOf(r.mode).multiple = 1
  BY <1>1, OneToOne DEF Holds
<1>4. 0 % 1 = 0 /\ 0 % 4 = 0
  BY SMT
<1>5. \A s \in DOMAIN r.fed : FALSE
  BY <1>1
<1>6. InStep(r, 0)
  BY <1>3, <1>4, <1>5 DEF InStep
<1> QED
  BY <1>1, <1>2, <1>6 DEF FiltersInv

LEMMA FiltersInvNext ==
    ASSUME WholeLengths, TypeInv, FiltersInv, [Next]_vars
    PROVE  FiltersInv'
<1>1. r.mode \in Modes
  BY DEF TypeInv, Typed
<1>2. ASSUME NEW in, NEW out, NEW type, DoReset(in, out, type)
      PROVE  FiltersInv'
  <2> DEFINE y == Reset(r, in, out, type)
             ratio == Reduced(in, out)
             slave == ResetMono(Constructed, ratio[1], ratio[2], MonoOf(type))
             mono == ResetMono(r, in, out, type)
             pair == IF Stereo(type) THEN <<slave, slave>> ELSE <<>>
  <2>1. r' = y /\ accepted' = 0
    BY <1>2 DEF DoReset
  <2>2. InStep(mono, 0) /\ Whole(mono)
    BY <1>1, ResetInStep DEF ResetMono, Whole
  <2>3. InStep(slave, 0)
    <3>1. Constructed.mode \in Modes
      BY DEF Constructed, Modes
    <3> QED
      BY <3>1, ResetInStep
  <2>4. y = [mono EXCEPT !.slaves = pair]
    BY DEF Reset
  <2>5. \/ pair # <<>> /\ pair[1] = slave
        \/ pair = <<>>
    <3>1. ASSUME NEW z PROVE <<z, z>> # <<>> /\ <<z, z>>[1] = z
      OBVIOUS
    <3> HIDE DEF slave
    <3> QED
      BY <3>1
  <2> HIDE DEF mono, slave, pair, y, ratio
  <2>6. y.slaves = pair /\ y.mode = mono.mode /\ y.fed = mono.fed
    BY <2>2, <2>4 DEF Whole
  <2>7. InStep(ChannelOf(y), 0)
    <3>1. CASE pair = <<>>
      <4>1. ChannelOf(y) = y
        BY <2>6, <3>1 DEF ChannelOf
      <4>2. InStep(y, 0)
        BY <2>2, <2>6 DEF InStep
      <4> QED
        BY <4>1, <4>2
    <3>2. CASE pair # <<>> /\ pair[1] = slave
      BY <2>3, <2>6, <3>2 DEF ChannelOf
    <3> QED
      BY <2>5, <3>1, <3>2
  <2>8. SidesOf(y) * 0 = 0
    BY DEF SidesOf
  <2> QED
    BY <2>1, <2>7, <2>8 DEF FiltersInv
<1>3. CASE UNCHANGED vars
  BY <1>3 DEF vars, FiltersInv
<1>4. ASSUME NEW in, NEW out, NEW type, DoResetIfNeeded(in, out, type)
      PROVE  FiltersInv'
  <2>1. CASE NeedsReset(r, in, out, type)
    BY <1>2, <1>4, <2>1 DEF DoResetIfNeeded
  <2>2. CASE ~NeedsReset(r, in, out, type)
    <3>1. r' = r /\ accepted' = accepted
      BY <1>4, <2>2 DEF DoResetIfNeeded
    <3> QED
      BY <3>1 DEF FiltersInv
  <2> QED
    BY <2>1, <2>2
<1>5. ASSUME NEW n \in Lengths, NEW room \in Nat, DoPush(n, room)
      PROVE  FiltersInv'
  <2> DEFINE o == Push(r, n, room)
  <2>1. r' = o.res /\ accepted' = accepted + IF o.ret = 0 THEN n ELSE 0
    BY <1>5 DEF DoPush
  <2>2. CASE Asynchronous(r.type)
    <3>1. o.res = r /\ o.ret = -1
      BY <2>2, PushAsynchronous
    <3>2. accepted \in Nat
      BY DEF TypeInv
    <3>3. r' = r /\ accepted' = accepted
      BY <2>1, <3>1, <3>2
    <3> QED
      BY <3>3 DEF FiltersInv
  <2>3. CASE ~Asynchronous(r.type)
    <3>1. \E share \in Nat : /\ accepted + (IF o.ret = 0 THEN n ELSE 0) = SidesOf(r) * share
                             /\ SidesOf(o.res) = SidesOf(r) /\ InStep(ChannelOf(o.res), share)
      BY <2>3, PushInStep
    <3> HIDE DEF o
    <3> QED
      BY <2>1, <3>1 DEF FiltersInv
  <2> QED
    BY <2>2, <2>3
<1> QED
  BY <1>2, <1>3, <1>4, <1>5, LengthsAssumption DEF Next

\* Every filter of every channel has taken exactly what the calls that succeeded
\* brought, whatever was rejected for its length or its room in between.
THEOREM FiltersStay ==
    (Types \subseteq ResamplerTypes) /\ WholeLengths => (Spec => []FiltersInStep)
<1> SUFFICES ASSUME Types \subseteq ResamplerTypes, WholeLengths
             PROVE  Spec => []FiltersInStep
  OBVIOUS
<1>1. TypeInv /\ [Next]_vars => TypeInv'
  BY TypeInvNext
<1>2. TypeInv /\ FiltersInv /\ [Next]_vars => FiltersInv'
  BY FiltersInvNext
<1> QED
  BY TypeInvInit, FiltersInvInit, <1>1, <1>2, FiltersInvStep, PTL DEF Spec

-----------------------------------------------------------------------------
\* The client never asks for the rate it has: mode 1:1 copies without a look at
\* the room.
NoCopies == \A p \in Rates : Reduced(p[1], p[2]) # <<1, 1>>

LEMMA CountOf ==
    ASSUME NEW x, Twins(x)
    PROVE  Len(IF x.slaves = <<>> THEN <<x>> ELSE x.slaves) = SidesOf(x)
<1>1. CASE x.slaves = <<>>
  <2>1. ASSUME NEW z PROVE Len(<<z>>) = 1
    OBVIOUS
  <2> QED
    BY <1>1, <2>1 DEF SidesOf
<1>2. CASE x.slaves # <<>>
  <2>1. ASSUME NEW z PROVE Len(<<z, z>>) = 2
    OBVIOUS
  <2>2. x.slaves = <<x.slaves[1], x.slaves[1]>>
    BY <1>2 DEF Twins
  <2> QED
    BY <1>2, <2>1, <2>2 DEF SidesOf
<1> QED
  BY <1>1, <1>2

LEMMA WritesInit == Init => WritesAll
  BY DEF Init, Lengthless, WritesAll, FitsBuffers, AllWritten

LEMMA WritesNext ==
    ASSUME WholeLengths, NoCopies, TypeInv, TypeInv', AskedInv, FiltersInv, WritesAll, [Next]_vars
    PROVE  WritesAll'
<1>1. ASSUME last'.call # "Push"
      PROVE  WritesAll'
  BY <1>1 DEF WritesAll, FitsBuffers, AllWritten
<1>2. CASE UNCHANGED vars
  BY <1>2 DEF vars, WritesAll, FitsBuffers, AllWritten, Channels
<1>3. ASSUME NEW in, NEW out, NEW type, DoReset(in, out, type)
      PROVE  WritesAll'
  BY <1>1, <1>3 DEF DoReset, Lengthless
<1>4. ASSUME NEW in, NEW out, NEW type, DoResetIfNeeded(in, out, type)
      PROVE  WritesAll'
  <2>1. CASE NeedsReset(r, in, out, type)
    BY <1>3, <1>4, <2>1 DEF DoResetIfNeeded
  <2>2. CASE ~NeedsReset(r, in, out, type)
    BY <1>1, <1>4, <2>2 DEF DoResetIfNeeded, Lengthless
  <2> QED
    BY <2>1, <2>2
<1>5. ASSUME NEW n \in Lengths, NEW room \in Nat, DoPush(n, room)
      PROVE  WritesAll'
  <2> DEFINE o == Push(r, n, room)
             d == SidesOf(r)
             ratio == Reduced(asked[1], asked[2])
  <2>1. /\ r' = o.res /\ asked' = asked /\ last'.n = n /\ last'.ret = o.ret
        /\ last'.outLen = o.outLen /\ last'.wrote = o.wrote
    BY <1>5 DEF DoPush
  <2>2. last'.fits <=> o.fits
    BY <1>5 DEF DoPush
  <2>3. CASE Asynchronous(r.type)
    <3>1. o.ret = -1
      BY <2>3, PushAsynchronous
    <3>2. o.fits
      BY <2>3 DEF Push, Rejected, Outcome
    <3>3. last'.fits
      BY <2>2, <3>2
    <3>4. last'.ret # 0
      BY <2>1, <3>1
    <3> QED
      BY <3>3, <3>4 DEF WritesAll, FitsBuffers, AllWritten
  <2>4. CASE ~Asynchronous(r.type)
    <3>1. ChannelOf(r).mode = ratio /\ ratio # <<1, 1>>
      <4>1. PICK p \in Rates : asked = <<p[1], p[2]>>
        BY <2>4 DEF AskedInv, RatioInv
      <4>2. asked[1] = p[1] /\ asked[2] = p[2]
        BY <4>1
      <4> QED
        BY <2>4, <4>2 DEF AskedInv, RatioInv, NoCopies
    <3> HIDE DEF ratio, o
    <3>2. /\ SidesOf(o.res) = d
          /\ o.ret = 0 => o.outLen = d * Converted(ratio, n \div d) /\ o.wrote = o.outLen
      BY <2>4, <3>1, PushInStep DEF o
    <3>3. o.fits
      BY <2>4, <3>1, PushInStep DEF o
    <3>4. last'.fits
      BY <2>2, <3>3
    <3>5. (Len(Channels))' = d
      <4>1. Twins(r')
        BY DEF TypeInv, PairInv
      <4> QED
        BY <2>1, <3>2, <4>1, CountOf DEF Channels
    <3>6. last'.ret = 0 => /\ last'.outLen = last'.wrote
                           /\ last'.outLen = (Len(Channels))' *
                                 Converted(Reduced(asked'[1], asked'[2]),
                                           last'.n \div (Len(Channels))')
      BY <2>1, <3>2, <3>5 DEF ratio
    <3> QED
      BY <3>4, <3>6 DEF WritesAll, FitsBuffers, AllWritten
  <2> QED
    BY <2>3, <2>4
<1> QED
  BY <1>2, <1>3, <1>4, <1>5, LengthsAssumption DEF Next

\* A Push that succeeds gives all its output, the length converted, and no Push
\* reads past what it was given or writes past its room or a temporary.
THEOREM AllIsWritten ==
    (Types \subseteq ResamplerTypes) /\ RatesTold /\ WholeLengths /\ NoCopies =>
        (Spec => []WritesAll)
<1> SUFFICES ASSUME Types \subseteq ResamplerTypes, RatesTold, WholeLengths, NoCopies
             PROVE  Spec => []WritesAll
  OBVIOUS
<1>1. TypeInv /\ [Next]_vars => TypeInv'
  BY TypeInvNext
<1>2. TypeInv /\ AskedInv /\ [Next]_vars => AskedInv'
  BY AskedInvNext
<1>3. TypeInv /\ FiltersInv /\ [Next]_vars => FiltersInv'
  BY FiltersInvNext
<1>4. TypeInv /\ TypeInv' /\ AskedInv /\ FiltersInv /\ WritesAll /\ [Next]_vars => WritesAll'
  BY WritesNext
<1> QED
  BY TypeInvInit, AskedInvInit, FiltersInvInit, WritesInit, <1>1, <1>2, <1>3, <1>4, PTL DEF Spec

-----------------------------------------------------------------------------
\* A set of numbers that is not empty has a least one.
LEMMA LeastNumber ==
    ASSUME NEW S, S \subseteq Nat, S # {}
    PROVE  \E x \in S : \A y \in S : x <= y
<1> DEFINE R == {ss \in Nat \X Nat : ss[1] < ss[2]}
<1>1. IsWellFoundedOn(R, Nat)
  BY NatLessThanWellFounded, Zenon DEF OpToRel
<1>2. ASSUME NEW x \in Nat, NEW y \in Nat, y < x PROVE <<y, x>> \in R
  BY <1>2
<1> HIDE DEF R
<1>3. PICK x \in S : \A y \in S : ~(<<y, x>> \in R)
  BY <1>1, WFMin
<1>4. ASSUME NEW y \in S PROVE x <= y
  <2>1. x \in Nat /\ y \in Nat /\ ~(y < x)
    BY <1>2, <1>3
  <2> QED
    BY <2>1
<1> QED
  BY <1>4

\* The greatest common divisor divides both numbers.
Divides(a, b) ==
    LET g == gcd[<<a, b>>] IN g \in Nat \ {0} /\ a % g = 0 /\ b % g = 0

LEMMA NoRest ==
    ASSUME NEW a \in Nat \ {0}
    PROVE  0 % a = 0 /\ a % a = 0
BY SMT

LEMMA GcdDivides ==
    ASSUME NEW b \in Nat, NEW a \in Nat \ {0}
    PROVE  Divides(a, b)
<1> DEFINE Bad == {y \in Nat : \E x \in Nat \ {0} : ~Divides(x, y)}
<1> SUFFICES ASSUME Bad # {} PROVE FALSE
  OBVIOUS
<1>1. PICK y \in Bad : \A z \in Bad : y <= z
  <2>1. Bad \subseteq Nat
    OBVIOUS
  <2> HIDE DEF Bad
  <2> QED
    BY <2>1, LeastNumber
<1>2. PICK x \in Nat \ {0} : ~Divides(x, y)
  BY <1>1
<1>3. CASE y = 0
  BY <1>2, <1>3, GcdSteps, NoRest DEF Divides
<1>4. CASE y # 0
  <2> DEFINE z == x % y
  <2>1. z \in Nat /\ z < y /\ y \in Nat \ {0}
    BY <1>1, <1>4
  <2>2. Divides(y, z)
    BY <1>1, <2>1
  <2>3. gcd[<<x, y>>] = gcd[<<y, z>>]
    BY <2>1, GcdSteps
  <2> DEFINE g == gcd[<<y, z>>]
  <2>4. g \in Nat \ {0} /\ y % g = 0 /\ z % g = 0
    BY <2>2 DEF Divides
  <2> HIDE DEF g
  <2>5. x % g = 0
    BY <2>1, <2>4, DividesRest
  <2> QED
    BY <1>2, <2>3, <2>4, <2>5 DEF Divides, g
<1> QED
  BY <1>3, <1>4

\* x is g times a.
Times(x, g, a) == x = g * a

\* Rates are so many times the two sides of their ratio.
LEMMA RatesReduce ==
    ASSUME NEW in \in Nat \ {0}, NEW out \in Nat \ {0}
    PROVE  \E g, a, b \in Nat \ {0} :
              Times(in, g, a) /\ Times(out, g, b) /\ Reduced(in, out) = <<a, b>>
<1> DEFINE g == gcd[<<in, out>>]
           a == in \div g
           b == out \div g
<1>1. g \in Nat \ {0} /\ in % g = 0 /\ out % g = 0
  BY GcdDivides DEF Divides
<1>2. Reduced(in, out) = <<a, b>>
  BY DEF Reduced
<1> HIDE DEF g
<1>3. a \in Nat /\ b \in Nat /\ in = g * a /\ out = g * b
  BY <1>1, DividedNoRest
<1> HIDE DEF a, b
<1>4. g * 0 = 0
  BY <1>1
<1>5. a # 0 /\ b # 0
  BY <1>3, <1>4
<1>6. Times(in, g, a) /\ Times(out, g, b)
  BY <1>3 DEF Times
<1> QED
  BY ONLY <1>1, <1>2, <1>3, <1>5, <1>6

-----------------------------------------------------------------------------
\* Division with a rest, for the output multiple: twice the rest decides whether
\* the ratio is rounded up.
LEMMA DividedInto ==
    ASSUME NEW in \in Nat \ {0}, NEW out \in Nat
    PROVE  \E q \in Nat, z \in 0 .. (in - 1) : out = in * q + z /\ out % in = z
  BY SMT

LEMMA QuotientIs ==
    ASSUME NEW d \in Nat \ {0}, NEW q \in Nat, NEW z \in 0 .. (d - 1)
    PROVE  (d * q + z) \div d = q
BY SMT

LEMMA MoreTimes ==
    ASSUME NEW in \in Nat \ {0}, NEW q \in Nat, NEW m \in Nat, m > q
    PROVE  m * in >= in * q + in
<1>1. (q + 1) * in <= m * in
  BY TimesMonotone
<1>2. (q + 1) * in = in * q + in
  BY SMT
<1> QED
  BY <1>1, <1>2

\* The multiple leaves room exactly for the ratios it does not round down.
LEMMA MultipleRounds ==
    ASSUME NEW in \in Nat \ {0}, NEW out \in Nat \ {0}
    PROVE  LET m == OutputMultiple(in, out)
           IN  m \in Nat \ {0} /\ (m * in >= out <=> RoundsUp(in, out))
<1> DEFINE m == OutputMultiple(in, out)
<1>1. PICK q \in Nat, z \in 0 .. (in - 1) : out = in * q + z /\ out % in = z
  BY DividedInto
<1> DEFINE up == 2 * z >= in
           d == 2 * in
           half == (2 * out + in) \div (2 * in)
           p == in * q
<1>2. p \in Nat /\ 2 * p = d * q /\ d \in Nat \ {0}
  <2>1. p \in Nat /\ (2 * in) * q = 2 * (in * q)
    BY TimesReordered
  <2> QED
    BY <2>1
<1>3. half = IF up THEN q + 1 ELSE q
  <2>1. 2 * out + in = d * q + (2 * z + in)
    BY <1>1, <1>2
  <2>2. CASE ~up
    <3>1. 2 * z + in \in 0 .. (d - 1)
      BY <2>2
    <3>2. (d * q + (2 * z + in)) \div d = q
      BY <1>2, <3>1, QuotientIs
    <3> QED
      BY <2>1, <2>2, <3>2
  <2>3. CASE up
    <3>1. 2 * z - in \in 0 .. (d - 1) /\ q + 1 \in Nat
      BY <2>3
    <3>2. (d * (q + 1) + (2 * z - in)) \div d = q + 1
      BY <1>2, <3>1, QuotientIs
    <3>3. d * (q + 1) = d * q + d
      <4>1. d * (q + 1) = d * q + d * 1
        BY <1>2, TimesDistributes
      <4> QED
        BY <4>1
    <3>4. d * q + (2 * z + in) = d * (q + 1) + (2 * z - in)
      BY <1>2, <3>3
    <3> QED
      BY <2>1, <2>3, <3>2, <3>4
  <2> QED
    BY <2>2, <2>3
<1>4. m = IF half = 0 THEN 1 ELSE half
  BY DEF OutputMultiple
<1> HIDE DEF half, m
<1>5. m \in Nat \ {0}
  BY <1>3, <1>4
<1>6. q = 0 \/ p >= in
  <2>1. q >= 1 => 1 * in <= q * in
    BY TimesMonotone
  <2>2. q * in = p
    BY TimesReordered
  <2> QED
    BY <2>1, <2>2
<1>7. RoundsUp(in, out) <=> q = 0 \/ z = 0 \/ up
  <2>1. q = 0 => p = 0
    BY <1>2
  <2>2. out <= in => q = 0 \/ z = 0
    BY <1>1, <1>2, <1>6
  <2>3. q = 0 => out <= in
    BY <1>1, <2>1
  <2> QED
    BY <1>1, <2>2, <2>3 DEF RoundsUp
<1>8. CASE m > q
  <2>1. m * in >= p + in
    BY <1>5, <1>8, MoreTimes
  <2>2. m * in \in Nat
    BY <1>5, TimesReordered
  <2>3. m * in >= out
    BY <1>1, <1>2, <2>1, <2>2
  <2>4. q = 0 \/ up
    BY <1>3, <1>4, <1>8
  <2> QED
    BY <1>5, <1>7, <2>3, <2>4 DEF m
<1>9. CASE ~(m > q)
  <2>1. m = q /\ ~up /\ q # 0
    BY <1>3, <1>4, <1>9
  <2>2. m * in = p
    BY <2>1, TimesReordered
  <2>3. m * in >= out <=> z = 0
    BY <1>1, <1>2, <2>2
  <2> QED
    BY <1>5, <1>7, <2>1, <2>3 DEF m
<1> QED
  BY <1>8, <1>9

-----------------------------------------------------------------------------
\* A mode whose block test lets every length pass is one of these; the others take
\* whole units.
FreeModes == {<<1, 1>>, <<1, 2>>, <<1, 4>>, <<2, 1>>, <<4, 1>>}

LEMMA ModesFree ==
    \A mode \in Modes : ModeOf(mode).multiple = 1 => mode \in FreeModes
<1>1. ModeOf(<<1, 3>>).multiple = 160
  BY DEF ModeOf, Mode, Plain
<1>2. ModeOf(<<1, 6>>).multiple = 80
  BY DEF ModeOf, Mode, Plain
<1>3. ModeOf(<<1, 12>>).multiple = 40
  BY DEF ModeOf, Mode, Plain
<1>4. ModeOf(<<2, 3>>).multiple = 160
  BY DEF ModeOf, Mode, Plain
<1>5. \A mode \in {<<1, 3>>, <<1, 6>>, <<1, 12>>, <<2, 3>>} : ModeOf(mode).multiple # 1
  BY ONLY <1>1, <1>2, <1>3, <1>4
<1>6. ModeOf(<<2, 11>>).multiple = 80
  BY DEF ModeOf, Mode, Plain
<1>7. ModeOf(<<4, 11>>).multiple = 80
  BY DEF ModeOf, Mode, Plain
<1>8. ModeOf(<<8, 11>>).multiple = 160
  BY DEF ModeOf, Mode, Plain
<1>9. ModeOf(<<11, 16>>).multiple = 110
  BY DEF ModeOf, Mode, Plain
<1>10. \A mode \in {<<2, 11>>, <<4, 11>>, <<8, 11>>, <<11, 16>>} : ModeOf(mode).multiple # 1
  BY ONLY <1>6, <1>7, <1>8, <1>9
<1>11. ModeOf(<<11, 32>>).multiple = 110
  BY DEF ModeOf, Mode, Plain
<1>12. ModeOf(<<3, 1>>).multiple = 480
  BY DEF ModeOf, Mode, Plain
<1>13. ModeOf(<<6, 1>>).multiple = 480
  BY DEF ModeOf, Mode, Plain
<1>14. ModeOf(<<12, 1>>).multiple = 480
  BY DEF ModeOf, Mode, Plain
<1>15. \A mode \in {<<11, 32>>, <<3, 1>>, <<6, 1>>, <<12, 1>>} : ModeOf(mode).multiple # 1
  BY ONLY <1>11, <1>12, <1>13, <1>14
<1>16. ModeOf(<<3, 2>>).multiple = 240
  BY DEF ModeOf, Mode, Plain
<1>17. ModeOf(<<11, 2>>).multiple = 220
  BY DEF ModeOf, Mode, Plain
<1>18. ModeOf(<<11, 4>>).multiple = 220
  BY DEF ModeOf, Mode, Plain
<1>19. ModeOf(<<11, 8>>).multiple = 220
  BY DEF ModeOf, Mode, Plain
<1>20. \A mode \in {<<3, 2>>, <<11, 2>>, <<11, 4>>, <<11, 8>>} : ModeOf(mode).multiple # 1
  BY ONLY <1>16, <1>17, <1>18, <1>19
<1>21. Modes = FreeModes \cup {<<1, 3>>, <<1, 6>>, <<1, 12>>, <<2, 3>>}
            \cup {<<2, 11>>, <<4, 11>>, <<8, 11>>, <<11, 16>>}
            \cup {<<11, 32>>, <<3, 1>>, <<6, 1>>, <<12, 1>>}
            \cup {<<3, 2>>, <<11, 2>>, <<11, 4>>, <<11, 8>>}
  BY Zenon DEF Modes, FreeModes
<1> QED
  BY ONLY <1>5, <1>10, <1>15, <1>20, <1>21, Zenon

LEMMA FilterConverts ==
    ASSUME NEW f, NEW room, NEW flow
    PROVE  RunFilter(f, room, flow).n = (flow.n * f.gives) \div f.eats
BY DEF RunFilter

LEMMA OneByTwo ==
    \A n \in Nat : /\ (n * 2) \div 1 = n * 2 /\ n * 2 \in Nat /\ (n * 2) * 2 = n * 4
                   /\ (n * 4) \div 1 = n * 4 /\ n * 1 = n /\ n \div 2 \in Nat
                   /\ (n \div 2) \div 2 = n \div 4
BY SMT

\* What comes out of a mode's chain is the converted length, if the block test lets
\* the input pass: also for lengths a halving filter does not take whole.
LEMMA FreeConverts ==
    ASSUME NEW mode \in FreeModes, mode # <<1, 1>>, NEW n \in Nat, NEW maxLen
    PROVE  LET m == ModeOf(mode)
           IN  RunChain(m, n, maxLen, Len(m.chain)).n = Converted(mode, n)
<1> DEFINE m == ModeOf(mode)
           c == m.chain
           Run(s) == RunChain(m, n, maxLen, s)
<1>1. mode \in Modes
  BY DEF FreeModes, Modes
<1>2. Len(c) \in 0 .. 3
  BY <1>1, ModeShapes
<1>3. /\ Run(0) = Entering(n)
      /\ \A s \in 1 .. Len(c) : Run(s) = RunFilter(c[s], RoomAfter(m, s, n, maxLen), Run(s - 1))
  BY <1>2, RunUnfolds
<1> HIDE DEF m, c, Run
<1>4. Run(0).n = n
  BY <1>3 DEF Entering
<1>5. \A s \in 1 .. Len(c) : Run(s).n = (Run(s - 1).n * c[s].gives) \div c[s].eats
  BY <1>3, FilterConverts
<1>6. /\ UpsampleBy2.eats = 1 /\ UpsampleBy2.gives = 2
      /\ DownsampleBy2.eats = 2 /\ DownsampleBy2.gives = 1
  BY DEF UpsampleBy2, DownsampleBy2, Filter
<1>7. ASSUME NEW f, c = <<f>>
      PROVE  Len(c) = 1 /\ Run(1).n = (n * f.gives) \div f.eats
  <2>1. Len(c) = 1 /\ c[1] = f
    BY <1>7
  <2> QED
    BY <1>4, <1>5, <2>1
<1>8. ASSUME NEW f, c = <<f, f>>
      PROVE  Len(c) = 2 /\ Run(2).n = (((n * f.gives) \div f.eats) * f.gives) \div f.eats
  <2>1. Len(c) = 2 /\ c[1] = f /\ c[2] = f
    BY <1>8
  <2>2. Run(1).n = (n * f.gives) \div f.eats
    BY <1>4, <1>5, <2>1
  <2>3. Run(2).n = (Run(1).n * f.gives) \div f.eats
    BY <1>5, <2>1
  <2> QED
    BY <2>1, <2>2, <2>3
<1>9. Run(Len(c)).n = Converted(mode, n)
  <2>1. CASE mode = <<1, 2>>
    <3>1. c = <<UpsampleBy2>>
      BY <2>1 DEF c, m, ModeOf, Mode, Plain
    <3> QED
      BY <1>6, <1>7, <2>1, <3>1 DEF Converted
  <2>2. CASE mode = <<2, 1>>
    <3>1. c = <<DownsampleBy2>>
      BY <2>2 DEF c, m, ModeOf, Mode, Plain
    <3> QED
      BY <1>6, <1>7, <2>2, <3>1 DEF Converted
  <2>3. CASE mode = <<1, 4>>
    <3>1. c = <<UpsampleBy2, UpsampleBy2>>
      BY <2>3 DEF c, m, ModeOf, Mode, Plain
    <3>2. Len(c) = 2 /\ Run(2).n = (((n * 2) \div 1) * 2) \div 1
      BY <1>6, <1>8, <3>1
    <3>3. Converted(mode, n) = (n * 4) \div 1
      BY <2>3 DEF Converted
    <3> QED
      BY <3>2, <3>3, OneByTwo
  <2>4. CASE mode = <<4, 1>>
    <3>1. c = <<DownsampleBy2, DownsampleBy2>>
      BY <2>4 DEF c, m, ModeOf, Mode, Plain
    <3>2. Len(c) = 2 /\ Run(2).n = (((n * 1) \div 2) * 1) \div 2
      BY <1>6, <1>8, <3>1
    <3>3. Converted(mode, n) = (n * 1) \div 4
      BY <2>4 DEF Converted
    <3> QED
      BY <3>2, <3>3, OneByTwo
  <2> QED
    BY <2>1, <2>2, <2>3, <2>4 DEF FreeModes
<1> QED
  BY <1>9 DEF Run, c, m

\* So many units of a mode become so many of what it makes of one.
LEMMA UnitsConvert ==
    ASSUME NEW mode \in Modes, NEW u \in Nat, NEW w \in Nat, Turns(mode, u, w), NEW k \in Nat
    PROVE  /\ Converted(mode, u * k) = w * k
           /\ (w * k) * mode[1] = (u * k) * mode[2]
<1> DEFINE i == mode[1]
           o == mode[2]
           z == w * k
<1>1. i \in Nat \ {0} /\ o \in Nat /\ w * i = u * o
  BY ModesPositive DEF Turns
<1> HIDE DEF i, o
<1>2. (u * k) * o = (u * o) * k
  BY <1>1, TimesReordered
<1>3. z \in Nat /\ (w * i) * k = z * i /\ z * i = i * z
  BY <1>1, TimesReordered
<1> HIDE DEF z
<1>4. (u * k) * o = i * z
  BY <1>1, <1>2, <1>3
<1>5. (i * z) \div i = z
  BY <1>1, <1>3, DividedExactly
<1> QED
  BY <1>3, <1>4, <1>5 DEF Converted, z, i, o

LEMMA BlocksConvert ==
    ASSUME NEW mode \in Modes, mode \notin FreeModes, NEW n \in Nat,
           n % ModeOf(mode).multiple = 0, NEW maxLen
    PROVE  LET m == ModeOf(mode)
           IN  /\ RunChain(m, n, maxLen, Len(m.chain)).n = Converted(mode, n)
               /\ Converted(mode, n) \in Nat /\ Converted(mode, n) * mode[1] = n * mode[2]
<1> DEFINE m == ModeOf(mode)
           c == m.chain
           u == Unit(mode)
           l == Len(c)
           Run(s) == RunChain(m, n, maxLen, s)
<1>1. PICK v, b : Flows(mode, v, b)
  <2>1. Flow(mode)
    BY UnitsFlow DEF FreeModes
  <2> QED
    BY ONLY <2>1, Zenon DEF Flow
<1>2. /\ v \in [1 .. 4 -> Nat] /\ b \in [1 .. 3 -> Nat] /\ l \in 1 .. 3
      /\ m.multiple \in Nat \ {0} /\ v[1] = u
  BY <1>1 DEF Flows
<1>3. \A s \in 1 .. l : c[s] \in Filters /\ Blocks(c[s], v[s], v[s + 1], b[s])
  BY <1>1 DEF Flows
<1>4. Turns(mode, u, v[l + 1])
  BY <1>1 DEF Flows
<1>5. u = m.multiple
  BY ModesFree DEF Unit, UnitOf
<1>6. PICK k \in Nat : n = u * k
  <2>1. n \div u \in Nat /\ n = u * (n \div u)
    BY <1>2, <1>5, DividedNoRest
  <2> QED
    BY <2>1
<1>7. /\ Run(0) = Entering(n)
      /\ \A s \in 1 .. l : Run(s) = RunFilter(c[s], RoomAfter(m, s, n, maxLen), Run(s - 1))
  <2>1. Len(m.chain) \in 0 .. 3
    <3>1. l \in 1 .. 3
      BY <1>2
    <3> HIDE DEF l
    <3>2. l \in 0 .. 3
      BY <3>1
    <3> QED
      BY <3>2 DEF l
  <2> HIDE DEF m
  <2> QED
    BY ONLY <2>1, RunUnfolds
<1> HIDE DEF m, c, u, l, Run
<1>8. Run(0).n = v[1] * k
  BY <1>2, <1>6, <1>7 DEF Entering
<1>9. ASSUME NEW s \in 1 .. l, Run(s - 1).n = v[s] * k
      PROVE  Run(s).n = v[s + 1] * k
  <2> DEFINE f == c[s]
             x == v[s]
             y == v[s + 1]
             d == b[s]
  <2>1. x \in Nat /\ y \in Nat /\ d \in Nat
    BY <1>2
  <2>2. f \in Filters /\ Blocks(f, x, y, d)
    BY <1>3
  <2> HIDE DEF f, x, y, d
  <2>5. (x * k * f.gives) \div f.eats = y * k
    BY <2>1, <2>2, OneShare
  <2>3. (v[s] * k * c[s].gives) \div c[s].eats = v[s + 1] * k
    BY <2>5 DEF f, x, y
  <2>4. Run(s).n = (Run(s - 1).n * c[s].gives) \div c[s].eats
    BY <1>7, FilterConverts
  <2> QED
    BY <1>9, <2>3, <2>4
<1>10. Run(l).n = v[l + 1] * k
  <2>1. Run(1).n = v[2] * k
    BY <1>2, <1>8, <1>9
  <2>2. l >= 2 => Run(2).n = v[3] * k
    BY <1>2, <1>9, <2>1
  <2>3. l >= 3 => Run(3).n = v[4] * k
    BY <1>2, <1>9, <2>2
  <2>4. l = 1 \/ l = 2 \/ l = 3
    BY <1>2
  <2> QED
    BY <2>1, <2>2, <2>3, <2>4
<1> DEFINE w == v[l + 1]
<1>11. w \in Nat /\ u \in Nat
  <2>1. l + 1 \in 1 .. 4
    BY <1>2
  <2> QED
    BY <1>2, <1>5, <2>1
<1>12. Turns(mode, u, w)
  BY <1>4
<1>13. Run(l).n = w * k
  BY <1>10
<1> HIDE DEF w
<1>14. Converted(mode, n) = w * k /\ (w * k) * mode[1] = n * mode[2]
  BY <1>6, <1>11, <1>12, UnitsConvert
<1>15. w * k \in Nat
  BY <1>11, TimesReordered
<1> QED
  BY <1>13, <1>14, <1>15 DEF Run, l, c, m

\* A push succeeds, and gives the converted length, exactly if the block test lets
\* the input pass and there is room; mode 1:1 looks at neither.
LEMMA MonoServes ==
    ASSUME NEW x, x.mode \in Modes, NEW n \in Nat, NEW room \in Nat
    PROVE  LET o == PushMono(x, n, room)
           IN  /\ o.ret \in {0, -1}
               /\ o.ret = 0 <=> \/ x.mode = <<1, 1>>
                                \/ /\ room >= Converted(x.mode, n)
                                   /\ n % ModeOf(x.mode).multiple = 0
               /\ o.ret = 0 => o.outLen = Converted(x.mode, n)
<1> DEFINE m == ModeOf(x.mode)
           whole == RunChain(m, n, room, Len(m.chain))
           o == PushMono(x, n, room)
           v == Converted(x.mode, n)
<1>1. CASE x.mode = <<1, 1>>
  <2>1. o.ret = 0 /\ o.outLen = n
    BY <1>1 DEF PushMono, Outcome
  <2>2. v = (n * 1) \div 1
    BY <1>1 DEF Converted
  <2>3. v = n
    BY <2>2
  <2> HIDE DEF o, v
  <2> QED
    BY <1>1, <2>1, <2>3 DEF o, v
<1>2. CASE x.mode # <<1, 1>>
  <2>1. v \in Nat
    <3> DEFINE a == x.mode[1]
               b == x.mode[2]
    <3>1. a \in Nat \ {0} /\ b \in Nat
      BY ModesPositive
    <3> HIDE DEF a, b
    <3>2. n * b \in Nat
      BY <3>1, TimesReordered
    <3>3. (n * b) \div a \in Nat
      BY <3>1, <3>2, DividedType
    <3> QED
      BY <3>3 DEF Converted, a, b
  <2>2. n % m.multiple = 0 => whole.n = v
    <3>1. CASE x.mode \in FreeModes
      BY <1>2, <3>1, FreeConverts
    <3>2. CASE x.mode \notin FreeModes
      BY <1>2, <3>2, BlocksConvert
    <3> QED
      BY <3>1, <3>2
  <2>3. o = IF room < v THEN Rejected(x)
            ELSE IF n % m.multiple # 0
            THEN IF m.late THEN Rejected(Feed(x, RunChain(m, n, room, 1).took)) ELSE Rejected(x)
            ELSE Outcome(Feed(x, whole.took), 0, whole.n, whole.wrote, whole.fits)
    BY <1>2 DEF PushMono
  <2> HIDE DEF v, whole, o
  <2>4. CASE room < v
    <3>1. o.ret = -1
      BY <2>3, <2>4 DEF Rejected, Outcome
    <3> QED
      BY <1>2, <2>1, <2>4, <3>1 DEF o, v
  <2>5. CASE ~(room < v) /\ n % m.multiple # 0
    <3>1. o.ret = -1
      BY <2>3, <2>5 DEF Rejected, Outcome
    <3> QED
      BY <1>2, <2>5, <3>1 DEF o, v, m
  <2>6. CASE ~(room < v) /\ n % m.multiple = 0
    <3>1. o.ret = 0 /\ o.outLen = whole.n
      BY <2>3, <2>6 DEF Outcome
    <3> QED
      BY <1>2, <2>1, <2>2, <2>6, <3>1 DEF o, v, m
  <2> QED
    BY <2>4, <2>5, <2>6
<1> QED
  BY <1>1, <1>2

LEMMA CancelTimes ==
    ASSUME NEW g \in Nat \ {0}, NEW x \in Nat, NEW y \in Nat
    PROVE  g * x >= g * y <=> x >= y
BY SMT

LEMMA DividedLess ==
    ASSUME NEW a \in Nat \ {0}, NEW x \in Nat, NEW y \in Nat, x <= a * y
    PROVE  x \div a <= y
<1>1. PICK q \in Nat, z \in 0 .. (a - 1) : x = a * q + z /\ x % a = z
  BY DividedInto
<1>2. x \div a = q
  BY <1>1, QuotientIs
<1> SUFFICES ASSUME q >= y + 1 PROVE FALSE
  BY <1>2
<1>3. a * q >= a * (y + 1)
  BY CancelTimes
<1>4. a * (y + 1) = a * y + a * 1 /\ a * y \in Nat /\ a * q \in Nat
  BY TimesDistributes
<1> QED
  BY <1>1, <1>3, <1>4

LEMMA DividedScaled ==
    ASSUME NEW g \in Nat \ {0}, NEW a \in Nat \ {0}, NEW x \in Nat
    PROVE  g * a \in Nat \ {0} /\ g * x \in Nat /\ (g * x) \div (g * a) = x \div a
<1>1. PICK q \in Nat, z \in 0 .. (a - 1) : x = a * q + z /\ x % a = z
  BY DividedInto
<1>2. x \div a = q
  BY <1>1, QuotientIs
<1> DEFINE d == g * a
           y == g * z
           p == a * q
<1>3. d \in Nat \ {0} /\ y \in Nat /\ p \in Nat /\ g * p = d * q
  <2>1. d \in Nat /\ y \in Nat /\ p \in Nat /\ g * (a * q) = (g * a) * q
    BY TimesReordered
  <2>2. g * 1 = g /\ g * a >= g * 1
    BY CancelTimes
  <2> QED
    BY <2>1, <2>2
<1>4. y < d
  <2>1. ~(z >= a)
    OBVIOUS
  <2>2. ~(y >= d)
    BY <2>1, CancelTimes
  <2> QED
    BY <1>3, <2>2
<1>5. g * x = d * q + y
  <2>1. g * (p + z) = g * p + g * z
    BY <1>3, TimesDistributes
  <2> QED
    BY <1>1, <1>3, <2>1
<1> HIDE DEF d, y, p
<1>6. (d * q + y) \div d = q
  <2>1. y \in 0 .. (d - 1)
    BY <1>3, <1>4
  <2> QED
    BY <1>3, <2>1, QuotientIs
<1>7. g * x \in Nat
  BY TimesReordered
<1> QED
  BY <1>2, <1>3, <1>5, <1>6, <1>7 DEF d

\* The room PushSample makes of the multiple holds a mode's output exactly for the
\* ratios the multiple does not round down.
LEMMA RatioRoom ==
    ASSUME NEW g \in Nat \ {0}, NEW a \in Nat \ {0}, NEW b \in Nat \ {0},
           <<a, b>> \in Modes, NEW n \in Nat \ {0}, n % ModeOf(<<a, b>>).multiple = 0,
           NEW in \in Nat, Times(in, g, a), NEW out \in Nat, Times(out, g, b)
    PROVE  LET v == Converted(<<a, b>>, n)
               m == OutputMultiple(in, out)
           IN  /\ m \in Nat \ {0} /\ m * n \in Nat
               /\ m * n >= v <=> RoundsUp(in, out)
               /\ v = (n * out) \div in
<1> DEFINE mode == <<a, b>>
           m == OutputMultiple(in, out)
           v == Converted(mode, n)
           x == n * b
<1>0. in = g * a /\ out = g * b
  BY DEF Times
<1>1. in \in Nat \ {0} /\ out \in Nat \ {0}
  BY <1>0, DividedScaled
<1>2. m \in Nat \ {0} /\ (m * in >= out <=> RoundsUp(in, out))
  BY <1>1, MultipleRounds
<1> HIDE DEF m
<1>3. m * in >= out <=> m * a >= b
  <2>1. m * (g * a) = (m * g) * a /\ (m * g) * a = (m * a) * g /\ (m * a) * g = g * (m * a)
        /\ m * a \in Nat
    BY <1>2, TimesReordered
  <2> DEFINE y == m * a
  <2>2. y \in Nat /\ m * in = g * y
    BY <1>0, <2>1
  <2> HIDE DEF y
  <2>3. g * y >= g * b <=> y >= b
    BY <2>2, CancelTimes
  <2> QED
    BY <1>0, <2>2, <2>3 DEF y
<1>4. v = x \div a /\ x \in Nat
  <2>1. v = x \div a
    BY DEF Converted
  <2> QED
    BY <2>1, TimesReordered
<1>5. m * n \in Nat /\ m * a \in Nat /\ n * (m * a) = a * (m * n) /\ m * n = n * m
  <2>1. n * (m * a) = (n * m) * a /\ n * m = m * n /\ (m * n) * a = a * (m * n)
        /\ m * n \in Nat /\ m * a \in Nat
    BY <1>2, TimesReordered
  <2> QED
    BY <2>1
<1>6. ASSUME m * a >= b PROVE m * n >= v
  <2> DEFINE y == m * n
             z == m * a
  <2>1. n * z >= n * b
    <3> HIDE DEF z
    <3> QED
      BY <1>5, <1>6, CancelTimes DEF z
  <2>2. x <= a * y
    BY <1>4, <1>5, <2>1
  <2>3. y \in Nat
    BY <1>5
  <2> HIDE DEF x, y
  <2>4. x \div a <= y
    BY <1>4, <2>2, <2>3, DividedLess
  <2> QED
    BY <1>4, <2>4 DEF y
<1>7. ASSUME m * n >= v PROVE m * a >= b
  <2>1. CASE mode \in FreeModes
    <3>1. a = 1 \/ b = 1
      BY <2>1 DEF FreeModes
    <3>2. CASE b = 1
      <4>1. m * a >= m * 1
        BY <1>2, CancelTimes
      <4> QED
        BY <1>2, <1>5, <3>2, <4>1
    <3>3. CASE a = 1
      <4>1. v = n * b
        BY <1>4, <3>3
      <4>2. n * m >= n * b
        BY <1>5, <1>7, <4>1
      <4>3. m >= b
        BY <1>2, <4>2, CancelTimes
      <4> QED
        BY <1>2, <3>3, <4>3
    <3> QED
      BY <3>1, <3>2, <3>3
  <2>2. CASE mode \notin FreeModes
    <3>1. v \in Nat /\ v * a = n * b
      BY <2>2, BlocksConvert
    <3>2. v * a <= (m * n) * a
      BY <1>5, <1>7, <3>1, TimesMonotone
    <3>3. (m * n) * a = n * (m * a)
      BY <1>5, TimesReordered
    <3>4. n * (m * a) >= n * b
      BY <1>4, <1>5, <3>1, <3>2, <3>3, TimesReordered
    <3> DEFINE z == m * a
    <3>5. z \in Nat /\ n * z >= n * b
      BY <1>5, <3>4
    <3> HIDE DEF z
    <3>6. z >= b
      BY <3>5, CancelTimes
    <3> QED
      BY <3>6 DEF z
  <2> QED
    BY <2>1, <2>2
<1>8. v = (n * out) \div in
  <2>1. n * (g * b) = (n * g) * b /\ (n * g) * b = (n * b) * g /\ (n * b) * g = g * (n * b)
    BY TimesReordered
  <2>2. n * out = g * x
    BY <1>0, <2>1
  <2> HIDE DEF x
  <2>3. (g * x) \div (g * a) = x \div a
    BY <1>4, DividedScaled
  <2> QED
    BY <1>0, <1>4, <2>2, <2>3
<1> QED
  BY <1>2, <1>3, <1>5, <1>6, <1>7, <1>8 DEF m

-----------------------------------------------------------------------------
\* 10 ms are whole samples of the stereo rates.
WholeHundreds == \A p \in StereoRates : p[1] % 100 = 0 /\ p[2] % 100 = 0

WholeHandle(h) == h = [kind |-> h.kind, in |-> h.in, out |-> h.out, channels |-> h.channels,
                       ptr |-> h.ptr, ptr2 |-> h.ptr2]

\* A mono handle can push when its two rates are of a mode: the one it is in.
MonoHandle(h) ==
    /\ h.kind = "mono" /\ h.in \in Nat \ {0} /\ h.out \in Nat \ {0}
    /\ Whole(h.ptr) /\ h.ptr.type \in {"Synchronous", "Invalid"}
    /\ h.ptr.type = "Synchronous" => h.ptr.mode \in Modes /\ h.ptr.mode = Reduced(h.in, h.out)

\* A stereo handle has its rates and channels, or refused them and has none.
WholePush(p) ==
    /\ p = [src |-> p.src, dst |-> p.dst, channels |-> p.channels, made |-> p.made,
            left |-> p.left, right |-> p.right]
    /\ p.left = [source |-> p.left.source, destination |-> p.left.destination,
                 made |-> p.left.made, calls |-> p.left.calls]

Serves(p, in, out, channels) ==
    /\ WholePush(p)
    /\ \/ /\ channels \in 1 .. 2 /\ p.src = in /\ p.dst = out /\ p.channels = channels
          /\ p.left.destination = out \div 100
       \/ channels \notin 1 .. 2 /\ p.src = 0 /\ p.dst = 0 /\ p.channels = 0

StereoHandle(h) ==
    /\ h.kind = "stereo" /\ h.in \in Nat \ {0} /\ h.out \in Nat \ {0}
    /\ h.in % 100 = 0 /\ h.out % 100 = 0
    /\ Serves(h.ptr2, h.in, h.out, h.channels)

HandleInv ==
    \/ handle = NoHandle /\ latest = Quiet
    \/ WholeHandle(handle) /\ (MonoHandle(handle) \/ StereoHandle(handle))

\* What a push answers, and that the handle stays the handle it was.
Answers(h, n, o) ==
    /\ o.ret = 0 <=> TakesLength(h, n) /\ RoundsUp(h.in, h.out)
    /\ o.ret = 0 => o.outLen = (n * h.out) \div h.in
    /\ o.h.kind = h.kind /\ o.h.in = h.in /\ o.h.out = h.out /\ o.h.channels = h.channels
    /\ o.h.ptr.type = h.ptr.type /\ o.h.ptr.mode = h.ptr.mode
    /\ WholeHandle(o.h)

LEMMA MonoHandleServes ==
    ASSUME NEW h, WholeHandle(h), MonoHandle(h), NEW n \in Nat \ {0}
    PROVE  LET o == push_audio_resampler(h, n, OutputMultiple(h.in, h.out) * n)
           IN  Answers(h, n, o) /\ MonoHandle(o.h)
<1> DEFINE x == h.ptr
           room == OutputMultiple(h.in, h.out) * n
           p == Push(x, n, room)
           o == push_audio_resampler(h, n, room)
<1>1. o = [h |-> [h EXCEPT !.ptr = p.res], ret |-> p.ret, outLen |-> p.outLen]
  BY DEF push_audio_resampler, MonoHandle
<1>2. /\ o.h = [h EXCEPT !.ptr = p.res] /\ o.ret = p.ret /\ o.outLen = p.outLen
  BY <1>1
<1>3. /\ WholeHandle(o.h) /\ o.h.kind = h.kind /\ o.h.in = h.in /\ o.h.out = h.out
      /\ o.h.channels = h.channels /\ o.h.ptr = p.res
  <2> HIDE DEF p, o
  <2> QED
    BY <1>2 DEF WholeHandle
<1>4. h.in \in Nat \ {0} /\ h.out \in Nat \ {0} /\ Whole(x)
  BY DEF MonoHandle
<1>5. ASSUME /\ Whole(p.res) /\ p.res.type = x.type /\ p.res.mode = x.mode
             /\ p.ret = 0 <=> TakesLength(h, n) /\ RoundsUp(h.in, h.out)
             /\ p.ret = 0 => p.outLen = (n * h.out) \div h.in
      PROVE  Answers(h, n, o) /\ MonoHandle(o.h)
  <2> HIDE DEF p, o, x
  <2>1. Answers(h, n, o)
    BY <1>2, <1>3, <1>5 DEF Answers, x
  <2>2. MonoHandle(o.h)
    BY <1>3, <1>5 DEF MonoHandle, x
  <2> QED
    BY <2>1, <2>2
<1>6. CASE x.type = "Invalid"
  <2>1. p.res = x /\ p.ret = -1
    BY <1>6 DEF Push, Asynchronous, Rejected, Outcome
  <2>2. ~TakesLength(h, n)
    BY <1>6 DEF TakesLength, MonoHandle
  <2> HIDE DEF p
  <2> QED
    BY <1>4, <1>5, <2>1, <2>2
<1>7. CASE x.type = "Synchronous"
  <2>1. p = PushMono(x, n, room)
    BY <1>7 DEF Push, Asynchronous, Stereo
  <2>2. Whole(p.res) /\ p.res.type = x.type /\ p.res.mode = x.mode
    BY <1>4, <2>1, MonoKeeps
  <2>3. x.mode \in Modes /\ x.mode = Reduced(h.in, h.out)
    BY <1>7 DEF MonoHandle
  <2>4. PICK g, a, b \in Nat \ {0} :
           h.in = g * a /\ h.out = g * b /\ Reduced(h.in, h.out) = <<a, b>>
    <3> DEFINE in == h.in
               out == h.out
    <3>1. in \in Nat \ {0} /\ out \in Nat \ {0}
      BY <1>4
    <3> HIDE DEF in, out
    <3>2. PICK g, a, b \in Nat \ {0} :
             Times(in, g, a) /\ Times(out, g, b) /\ Reduced(in, out) = <<a, b>>
      BY ONLY <3>1, RatesReduce
    <3>3. in = g * a /\ out = g * b
      BY ONLY <3>2 DEF Times
    <3> QED
      BY <3>2, <3>3 DEF in, out
  <2> DEFINE mode == <<a, b>>
             v == Converted(mode, n)
             u == ModeOf(mode).multiple
  <2>5. x.mode = mode /\ mode \in Modes
    BY <2>3, <2>4
  <2>6. TakesLength(h, n) <=> n % u = 0
    BY <1>7, <2>5 DEF TakesLength, MonoHandle
  <2>7. OutputMultiple(h.in, h.out) \in Nat \ {0}
    BY <1>4, MultipleRounds
  <2>8. room \in Nat
    BY <2>7, TimesReordered
  <2>9. /\ p.ret \in {0, -1} /\ (p.ret = 0 <=> mode = <<1, 1>> \/ (room >= v /\ n % u = 0))
        /\ p.ret = 0 => p.outLen = v
    BY <2>1, <2>5, <2>8, MonoServes
  <2>10. n % u = 0 => /\ room >= v <=> RoundsUp(h.in, h.out)
                      /\ v = (n * h.out) \div h.in
    <3> SUFFICES ASSUME n % u = 0
                 PROVE  (room >= v <=> RoundsUp(h.in, h.out)) /\ v = (n * h.out) \div h.in
      OBVIOUS
    <3> DEFINE in == h.in
               out == h.out
    <3>1. /\ in \in Nat /\ Times(in, g, a) /\ out \in Nat /\ Times(out, g, b)
          /\ <<a, b>> \in Modes /\ n % ModeOf(<<a, b>>).multiple = 0
      BY <1>4, <2>4, <2>5 DEF Times
    <3> HIDE DEF in, out, u, v, x, p, o, room
    <3>2. LET w == Converted(<<a, b>>, n)
              m == OutputMultiple(in, out)
          IN  (m * n >= w <=> RoundsUp(in, out)) /\ w = (n * out) \div in
      BY <3>1, RatioRoom
    <3> QED
      BY <3>2 DEF in, out, v, room, u
  <2>11. mode = <<1, 1>> => n % u = 0 /\ RoundsUp(h.in, h.out)
    <3> SUFFICES ASSUME mode = <<1, 1>> PROVE n % u = 0 /\ RoundsUp(h.in, h.out)
      OBVIOUS
    <3>1. u = 1 /\ a = 1 /\ b = 1
      BY OneToOne DEF Holds
    <3>2. n % 1 = 0
      OBVIOUS
    <3>3. h.out <= h.in
      BY <1>4, <2>4, <3>1
    <3> QED
      BY <3>1, <3>2, <3>3 DEF RoundsUp
  <2> HIDE DEF p, o, x, room, v, u, mode
  <2>12. p.ret = 0 <=> TakesLength(h, n) /\ RoundsUp(h.in, h.out)
    BY <2>6, <2>9, <2>10, <2>11
  <2>13. p.ret = 0 => p.outLen = (n * h.out) \div h.in
    BY <2>6, <2>9, <2>10, <2>12
  <2> QED
    BY <1>5, <2>2, <2>12, <2>13 DEF room, o, p
<1> QED
  BY <1>6, <1>7 DEF MonoHandle

\* A whole number of hundreds per second is a whole number in 10 ms, of one channel
\* or two.
LEMMA Hundreds ==
    ASSUME NEW x \in Nat \ {0}, x % 100 = 0
    PROVE  \E y \in Nat \ {0} : x = 100 * y /\ x \div 100 = y
                                /\ \A c \in 1 .. 2 : (x * c) \div 100 = y * c
<1> DEFINE y == x \div 100
<1>1. y \in Nat /\ x = 100 * y
  BY DividedNoRest
<1> HIDE DEF y
<1>2. y # 0
  BY <1>1
<1>3. \A c \in 1 .. 2 : (x * c) \div 100 = y * c
  <2>1. (x * 1) \div 100 = y /\ (x * 2) \div 100 = y * 2
    BY <1>1
  <2> QED
    BY <1>1, <2>1
<1> QED
  BY <1>1, <1>2, <1>3 DEF y

\* Pushing n samples leaves room for w, the converted ones, unless rounded down.
RoomFor(in, out, n, w) ==
    /\ OutputMultiple(in, out) * n \in Nat /\ (n * out) \div in = w
    /\ OutputMultiple(in, out) * n >= w <=> RoundsUp(in, out)

LEMMA StereoRoom ==
    ASSUME NEW a \in Nat \ {0}, NEW b \in Nat \ {0}, NEW c \in 1 .. 2,
           NEW in \in Nat, Times(in, 100, a), NEW out \in Nat, Times(out, 100, b),
           NEW n \in Nat, Times(n, a, c), NEW w \in Nat, Times(w, b, c)
    PROVE  RoomFor(in, out, n, w)
<1> DEFINE m == OutputMultiple(in, out)
           y == m * a
<1>0. in = 100 * a /\ out = 100 * b /\ n = a * c /\ w = b * c
  BY DEF Times
<1>1. in \in Nat \ {0} /\ out \in Nat \ {0}
  BY <1>0
<1>2. m \in Nat \ {0} /\ (m * in >= out <=> RoundsUp(in, out))
  BY <1>1, MultipleRounds
<1> HIDE DEF m
<1>3. y \in Nat /\ m * in = 100 * y /\ m * (a * c) = y * c /\ y * c = c * y /\ b * c = c * b
  <2>1. /\ m * a \in Nat /\ m * (100 * a) = (m * 100) * a /\ (m * 100) * a = (m * a) * 100
        /\ (m * a) * 100 = 100 * (m * a) /\ m * (a * c) = (m * a) * c
        /\ (m * a) * c = c * (m * a) /\ b * c = c * b
    BY <1>2, TimesReordered
  <2> QED
    BY <1>0, <2>1
<1> HIDE DEF y
<1>4. m * in >= out <=> y >= b
  BY <1>0, <1>3
<1>5. c * y >= c * b <=> y >= b
  BY <1>3, CancelTimes
<1>6. (n * out) \div in = b * c
  <2> DEFINE x == b * c
             z == a * x
  <2>1. x \in Nat /\ z \in Nat
    BY TimesReordered
  <2>2. (a * c) * (100 * b) = 100 * z
    <3>1. (a * c) * (100 * b) = ((a * c) * 100) * b /\ ((a * c) * 100) * b = ((a * c) * b) * 100
          /\ (a * c) * b = (a * b) * c /\ (a * b) * c = a * (b * c)
      BY TimesReordered
    <3> QED
      BY <2>1, <3>1
  <2> HIDE DEF x
  <2>3. (100 * z) \div (100 * a) = z \div a
    BY <2>1, DividedScaled
  <2>4. (a * x) \div a = x
    BY <2>1, DividedExactly
  <2> QED
    BY <1>0, <2>2, <2>3, <2>4 DEF x
<1>7. y * c \in Nat
  BY <1>3, TimesReordered
<1> QED
  BY <1>0, <1>2, <1>3, <1>4, <1>5, <1>6, <1>7 DEF m, RoomFor

LEMMA StereoHandleServes ==
    ASSUME NEW h, WholeHandle(h), StereoHandle(h), NEW n \in Nat \ {0}
    PROVE  LET o == push_audio_resampler(h, n, OutputMultiple(h.in, h.out) * n)
           IN  Answers(h, n, o) /\ StereoHandle(o.h)
<1> DEFINE p == h.ptr2
           room == OutputMultiple(h.in, h.out) * n
           s == P!Resample(p, n, room)
           o == push_audio_resampler(h, n, room)
<1>1. o = [h |-> [h EXCEPT !.ptr2 = s.p], ret |-> IF s.ret > 0 THEN 0 ELSE s.ret,
           outLen |-> IF s.ret > 0 THEN s.ret ELSE 0]
  BY DEF push_audio_resampler, StereoHandle
<1>2. /\ o.h = [h EXCEPT !.ptr2 = s.p] /\ o.ret = IF s.ret > 0 THEN 0 ELSE s.ret
      /\ o.outLen = IF s.ret > 0 THEN s.ret ELSE 0
  <2> HIDE DEF s
  <2> QED
    BY <1>1
<1>3. /\ WholeHandle(o.h) /\ o.h.kind = h.kind /\ o.h.in = h.in /\ o.h.out = h.out
      /\ o.h.channels = h.channels /\ o.h.ptr = h.ptr /\ o.h.ptr2 = s.p
  <2> HIDE DEF s, o
  <2> QED
    BY <1>2 DEF WholeHandle
<1>4. /\ h.in \in Nat \ {0} /\ h.out \in Nat \ {0} /\ h.in % 100 = 0 /\ h.out % 100 = 0
      /\ h.kind = "stereo"
  BY DEF StereoHandle
<1>5. ASSUME /\ Serves(s.p, h.in, h.out, h.channels)
             /\ s.ret > 0 <=> TakesLength(h, n) /\ RoundsUp(h.in, h.out)
             /\ s.ret > 0 \/ s.ret = -1
             /\ s.ret > 0 => s.ret = (n * h.out) \div h.in
      PROVE  Answers(h, n, o) /\ StereoHandle(o.h)
  <2> HIDE DEF s, o, p
  <2>1. o.ret = 0 <=> s.ret > 0
    BY <1>2, <1>5
  <2>2. o.ret = 0 => o.outLen = (n * h.out) \div h.in
    BY <1>2, <1>5, <2>1
  <2>3. Answers(h, n, o)
    BY <1>3, <1>5, <2>1, <2>2 DEF Answers
  <2>4. StereoHandle(o.h)
    BY <1>3, <1>4, <1>5 DEF StereoHandle
  <2> QED
    BY <2>3, <2>4
<1>6. CASE h.channels \notin 1 .. 2
  <2>1. p.src = 0 /\ p.dst = 0 /\ p.channels = 0
    BY <1>6 DEF StereoHandle, Serves
  <2>2. n # (p.src * p.channels) \div 100
    BY <2>1
  <2>3. s = [p |-> p, ret |-> -1]
    BY <2>2 DEF P!Resample
  <2>4. s.p = p /\ s.ret = -1
    BY <2>3
  <2>5. ~TakesLength(h, n)
    BY <1>4, <1>6 DEF TakesLength
  <2>6. Serves(p, h.in, h.out, h.channels)
    BY DEF StereoHandle
  <2> HIDE DEF s, p
  <2> QED
    BY <1>5, <2>4, <2>5, <2>6
<1>7. CASE h.channels \in 1 .. 2
  <2> DEFINE c == h.channels
             in == h.in
             out == h.out
  <2>1. /\ p.src = in /\ p.dst = out /\ p.channels = c /\ p.left.destination = out \div 100
        /\ Serves(p, in, out, c)
    BY <1>7 DEF StereoHandle, Serves
  <2>2. PICK a \in Nat \ {0} : in = 100 * a /\ in \div 100 = a
                               /\ \A d \in 1 .. 2 : (in * d) \div 100 = a * d
    BY <1>4, Hundreds
  <2>3. PICK b \in Nat \ {0} : out = 100 * b /\ out \div 100 = b
                               /\ \A d \in 1 .. 2 : (out * d) \div 100 = b * d
    BY <1>4, Hundreds
  <2>4. (in * c) \div 100 = a * c /\ (out * c) \div 100 = b * c
    BY <1>7, <2>2, <2>3
  <2>5. TakesLength(h, n) <=> n = a * c
    BY <1>4, <1>7, <2>4 DEF TakesLength
  <2>6. n = a * c => /\ room \in Nat /\ (room >= b * c <=> RoundsUp(in, out))
                     /\ (n * out) \div in = b * c
    <3> DEFINE w == b * c
    <3> SUFFICES ASSUME n = a * c PROVE RoomFor(in, out, n, w)
      BY DEF RoomFor
    <3>1. /\ c \in 1 .. 2 /\ in \in Nat /\ Times(in, 100, a) /\ out \in Nat /\ Times(out, 100, b)
          /\ Times(n, a, c) /\ w \in Nat /\ Times(w, b, c)
      BY <1>4, <1>7, <2>2, <2>3 DEF Times
    <3> HIDE DEF c, in, out, w
    <3> QED
      BY <3>1, StereoRoom
  <2>7. b * c \in Nat \ {0} /\ (c = 2 => b * c = 2 * b) /\ (c # 2 => b * c = b)
    BY <1>7
  <2>8. s = IF n # a * c \/ room < b * c THEN [p |-> p, ret |-> -1]
            ELSE IF in = out THEN [p |-> p, ret |-> n]
            ELSE IF c = 2
            THEN [p |-> [p EXCEPT !.left = P!Served(@), !.right = P!Served(@)], ret |-> 2 * b]
            ELSE [p |-> [p EXCEPT !.left = P!Served(@)], ret |-> b]
    BY <2>1, <2>3, <2>4 DEF P!Resample
  <2>9. s.ret = IF n # a * c \/ room < b * c THEN -1
                ELSE IF in = out THEN n ELSE IF c = 2 THEN 2 * b ELSE b
    <3> HIDE DEF s
    <3> QED
      BY <2>8
  <2>10. in = out => a = b
    BY <2>2, <2>3
  <2>11. Serves(s.p, in, out, c)
    <3> HIDE DEF s
    <3> DEFINE l == P!Served(p.left)
               q == s.p
    <3>1. \/ q = p
          \/ q = [p EXCEPT !.left = l, !.right = P!Served(p.right)]
          \/ q = [p EXCEPT !.left = l]
      BY <2>8
    <3>2. WholePush(p)
      BY <2>1 DEF Serves
    <3>3. /\ l.destination = p.left.destination
          /\ l = [source |-> l.source, destination |-> l.destination, made |-> l.made,
                  calls |-> l.calls]
      BY <3>2 DEF P!Served, WholePush
    <3> HIDE DEF p, l, q
    <3>4. /\ WholePush(q) /\ q.src = p.src /\ q.dst = p.dst /\ q.channels = p.channels
          /\ q.left.destination = p.left.destination
      BY <3>1, <3>2, <3>3 DEF WholePush
    <3> QED
      BY <2>1, <3>4 DEF Serves, q
  <2> HIDE DEF s, p, room, in, out, c
  <2>12. s.ret > 0 <=> n = a * c /\ RoundsUp(in, out)
    BY <2>6, <2>7, <2>9
  <2>13. s.ret > 0 => s.ret = b * c
    BY <2>7, <2>9, <2>10
  <2>14. s.ret > 0 \/ s.ret = -1
    BY <2>7, <2>9
  <2>15. /\ Serves(s.p, h.in, h.out, h.channels)
         /\ s.ret > 0 <=> TakesLength(h, n) /\ RoundsUp(h.in, h.out)
    BY <2>5, <2>11, <2>12 DEF in, out, c
  <2>16. s.ret > 0 => s.ret = (n * h.out) \div h.in
    BY <2>6, <2>12, <2>13 DEF in, out
  <2>17. Answers(h, n, o) /\ StereoHandle(o.h)
    BY <1>5, <2>14, <2>15, <2>16
  <2> QED
    BY <2>17 DEF o, room
<1> QED
  BY <1>6, <1>7

-----------------------------------------------------------------------------
ApiInv == HandleInv /\ LegalLengthsServed

LEMMA ApiInvInit == ApiInit => ApiInv
<1> SUFFICES ASSUME ApiInit PROVE ApiInv
  OBVIOUS
<1>1. latest.n = 0
  BY DEF ApiInit, Quiet
<1> QED
  BY <1>1 DEF ApiInit, ApiInv, HandleInv, LegalLengthsServed

\* A handle just made: nothing was pushed to it.
LEMMA FreshServes ==
    ASSUME NEW h, Fresh(h), WholeHandle(h), MonoHandle(h) \/ StereoHandle(h)
    PROVE  ApiInv'
<1>1. handle' = h /\ latest' = Quiet
  BY DEF Fresh
<1>2. latest'.n = 0
  BY <1>1 DEF Quiet
<1> QED
  BY <1>1, <1>2 DEF ApiInv, HandleInv, LegalLengthsServed

LEMMA NoHandleWhole == WholeHandle(NoHandle)
  BY DEF NoHandle, WholeHandle

LEMMA MonoMade ==
    ASSUME NEW in \in Nat \ {0}, NEW out \in Nat \ {0}, create_audio_resampler(in, out)
    PROVE  ApiInv'
<1> DEFINE x == Reset(Constructed, in, out, "Synchronous")
           y == ResetMono(Constructed, in, out, "Synchronous")
           h == [NoHandle EXCEPT !.kind = "mono", !.in = in, !.out = out, !.channels = -1,
                                 !.ptr = x]
<1>1. Whole(x)
  BY ResetTwins
<1>2. x = [y EXCEPT !.slaves = <<>>]
  BY DEF Reset, Stereo
<1>3. /\ y.type \in {"Synchronous", "Invalid"}
      /\ y.type = "Synchronous" => y.mode \in Modes /\ y.mode = Reduced(in, out)
  <2> DEFINE ratio == Reduced(in, out)
  <2>1. CASE ratio \in Modes
    BY <2>1 DEF ResetMono
  <2>2. CASE ratio \notin Modes
    BY <2>2 DEF ResetMono
  <2> QED
    BY <2>1, <2>2
<1>4. x.type = y.type /\ x.mode = y.mode
  <2>1. Whole(y)
    BY DEF ResetMono, Whole
  <2> HIDE DEF y
  <2>2. LET z == [y EXCEPT !.slaves = <<>>] IN z.type = y.type /\ z.mode = y.mode
    BY <2>1 DEF Whole
  <2> HIDE DEF x
  <2> QED
    BY <1>2, <2>2
<1> HIDE DEF x, y
<1>5. WholeHandle(h) /\ h.kind = "mono" /\ h.in = in /\ h.out = out /\ h.ptr = x
  <2> DEFINE c == -1
  <2>1. h = [NoHandle EXCEPT !.kind = "mono", !.in = in, !.out = out, !.channels = c,
                             !.ptr = x]
    OBVIOUS
  <2> HIDE DEF h, c
  <2>2. h.kind = "mono" /\ h.in = in /\ h.out = out /\ h.ptr = x
    BY <2>1, NoHandleWhole DEF WholeHandle
  <2>3. WholeHandle(h)
    BY <2>1, NoHandleWhole DEF WholeHandle
  <2> QED
    BY <2>2, <2>3
<1>6. Fresh(h)
  BY DEF create_audio_resampler, x
<1> HIDE DEF h
<1>7. MonoHandle(h)
  BY <1>1, <1>3, <1>4, <1>5 DEF MonoHandle
<1> QED
  BY <1>5, <1>6, <1>7, FreshServes

LEMMA StereoMade ==
    ASSUME NEW in \in Nat \ {0}, NEW out \in Nat \ {0}, in % 100 = 0, out % 100 = 0,
           NEW channels, create_audio_stereo_resampler(in, out, channels)
    PROVE  ApiInv'
<1> DEFINE q == P!InitializeIfNeeded(P!NewPushResampler, in, out, channels).p
           h == [NoHandle EXCEPT !.kind = "stereo", !.in = in, !.out = out,
                                 !.channels = channels, !.ptr2 = q]
<1>1. Serves(q, in, out, channels)
  <2> DEFINE n == P!NewPushResampler
             made == P!NewSinc(in, out, n.made + 1)
  <2>1. /\ n.src = 0 /\ n.dst = 0 /\ n.channels = 0 /\ n.left = P!NoSinc /\ WholePush(n)
    BY DEF P!NewPushResampler, P!NoSinc, WholePush
  <2>2. ~P!Same(n, in, out, channels)
    BY <2>1 DEF P!Same
  <2>3. CASE channels \notin 1 .. 2
    <3>1. q = n
      BY <2>2, <2>3 DEF P!InitializeIfNeeded
    <3> QED
      BY <2>1, <2>3, <3>1 DEF Serves
  <2>4. CASE channels \in 1 .. 2
    <3> DEFINE right == P!Right(n, in, out, channels)
    <3>1. q = [src |-> in, dst |-> out, channels |-> channels, made |-> n.made + 1,
               left |-> made, right |-> right]
      BY <2>2, <2>4 DEF P!InitializeIfNeeded
    <3>2. /\ made = [source |-> made.source, destination |-> made.destination,
                     made |-> made.made, calls |-> made.calls]
          /\ made.destination = out \div 100
      BY DEF P!NewSinc
    <3> HIDE DEF q, n, made, right
    <3> QED
      BY <2>4, <3>1, <3>2 DEF Serves, WholePush
  <2> QED
    BY <2>3, <2>4
<1> HIDE DEF q
<1>2. /\ WholeHandle(h) /\ h.kind = "stereo" /\ h.in = in /\ h.out = out
      /\ h.channels = channels /\ h.ptr2 = q
  <2>1. h = [NoHandle EXCEPT !.kind = "stereo", !.in = in, !.out = out,
                             !.channels = channels, !.ptr2 = q]
    OBVIOUS
  <2> HIDE DEF h
  <2>2. /\ h.kind = "stereo" /\ h.in = in /\ h.out = out /\ h.channels = channels
        /\ h.ptr2 = q
    BY <2>1, NoHandleWhole DEF WholeHandle
  <2>3. WholeHandle(h)
    BY <2>1, NoHandleWhole DEF WholeHandle
  <2> QED
    BY <2>2, <2>3
<1>3. Fresh(h)
  BY DEF create_audio_stereo_resampler, q
<1> HIDE DEF h
<1>4. StereoHandle(h)
  BY <1>1, <1>2 DEF StereoHandle
<1> QED
  BY <1>2, <1>3, <1>4, FreshServes

LEMMA PushServes ==
    ASSUME ApiInv, NEW n \in Nat, PushSample(n)
    PROVE  ApiInv'
<1> DEFINE h == handle
           maxOutLen == OutputMultiple(h.in, h.out) * n
           o == push_audio_resampler(h, n, maxOutLen)
<1>1. h # NoHandle
  BY DEF PushSample
<1>2. WholeHandle(h) /\ (MonoHandle(h) \/ StereoHandle(h))
  BY <1>1 DEF ApiInv, HandleInv
<1>3. h.in \in Nat \ {0} /\ h.out \in Nat \ {0}
  BY <1>2 DEF MonoHandle, StereoHandle
<1>4. OutputMultiple(h.in, h.out) \in Nat \ {0}
  BY <1>3, MultipleRounds
<1>5. CASE n = 0
  <2>1. maxOutLen = 0
    BY <1>4, <1>5
  <2>2. latest' = [Quiet EXCEPT !.n = n] /\ UNCHANGED handle
    BY <2>1 DEF PushSample
  <2>3. latest'.n = 0
    BY <1>5, <2>2 DEF Quiet
  <2> QED
    BY <1>1, <2>2, <2>3 DEF ApiInv, HandleInv, LegalLengthsServed, WholeHandle, MonoHandle, StereoHandle
<1>6. CASE n # 0
  <2>1. maxOutLen \in Nat /\ maxOutLen > 0
    <3> DEFINE m == OutputMultiple(h.in, h.out)
    <3>1. m \in Nat \ {0}
      BY <1>4
    <3> HIDE DEF m
    <3>2. m * n \in Nat /\ m * n > 0
      BY <1>6, <3>1
    <3> QED
      BY <3>2 DEF m
  <2>2. /\ handle' = o.h
        /\ latest' = [n |-> n,
                      array |-> IF o.ret = 0 THEN o.outLen ELSE NULL]
    <3> HIDE DEF h, o, maxOutLen
    <3>1. \E z \in {o} : handle' = z.h
             /\ latest' = [n |-> n,
                           array |-> IF z.ret = 0 THEN z.outLen ELSE NULL]
      BY <2>1 DEF PushSample, h, o, maxOutLen
    <3> QED
      BY <3>1
  <2>3. Answers(h, n, o) /\ (MonoHandle(o.h) \/ StereoHandle(o.h))
    BY <1>2, <1>6, MonoHandleServes, StereoHandleServes
  <2> HIDE DEF h, o
  <2>4. WholeHandle(handle') /\ (MonoHandle(handle') \/ StereoHandle(handle'))
    BY <2>2, <2>3 DEF Answers
  <2>5. HandleInv'
    BY <2>4 DEF HandleInv
  <2> DEFINE whole == (n * h.out) \div h.in
  <2>6. whole \in Nat
    BY <1>3, DividedType, TimesReordered
  <2>7. TakesLength(o.h, n) <=> TakesLength(h, n)
    BY <2>3 DEF Answers, TakesLength
  <2>8. (handle').in = h.in /\ (handle').out = h.out
    BY <2>2, <2>3 DEF Answers
  <2>9. /\ (latest').n = n
        /\ o.ret = 0 => (latest').array = whole
        /\ o.ret # 0 => (latest').array = NULL
    BY <2>2, <2>3 DEF Answers
  <2>10. whole # NULL
    BY <2>6 DEF NULL
  <2>11. (latest').array # NULL <=> TakesLength(h, n) /\ RoundsUp(h.in, h.out)
    BY <2>3, <2>9, <2>10 DEF Answers
  <2>12. TakesLength(handle', n) <=> TakesLength(h, n)
    BY <2>2, <2>7
  <2> HIDE DEF whole
  <2>13. LegalLengthsServed'
    BY <2>8, <2>9, <2>11, <2>12 DEF LegalLengthsServed, whole
  <2> QED
    BY <2>5, <2>13 DEF ApiInv
<1> QED
  BY <1>5, <1>6

LEMMA ApiInvNext == WholeHundreds /\ ApiInv /\ [ApiNext]_api_vars => ApiInv'
<1> SUFFICES ASSUME WholeHundreds, ApiInv, [ApiNext]_api_vars PROVE ApiInv'
  OBVIOUS
<1>1. ASSUME NEW p \in MonoRates, create_audio_resampler(p[1], p[2])
      PROVE  ApiInv'
  BY <1>1, MonoMade, HandleRatesAssumption
<1>2. ASSUME NEW p \in StereoRates, NEW c \in ChannelCounts,
             create_audio_stereo_resampler(p[1], p[2], c)
      PROVE  ApiInv'
  BY <1>2, StereoMade, HandleRatesAssumption DEF WholeHundreds
<1>3. ASSUME NEW n \in PushLengths, PushSample(n)
      PROVE  ApiInv'
  BY <1>3, PushServes, PushLengthsAssumption
<1>4. CASE destroy_audio_resampler
  <2>1. handle' = NoHandle /\ latest' = Quiet
    BY <1>4 DEF destroy_audio_resampler
  <2>2. latest'.n = 0
    BY <2>1 DEF Quiet
  <2> QED
    BY <2>1, <2>2 DEF ApiInv, HandleInv, LegalLengthsServed
<1>5. CASE UNCHANGED api_vars
  <2>1. handle' = handle /\ latest' = latest
    BY <1>5 DEF api_vars
  <2> QED
    BY <2>1 DEF ApiInv, HandleInv, LegalLengthsServed
<1> QED
  BY <1>1, <1>2, <1>3, <1>4, <1>5 DEF ApiNext

\* PushSample of the JNI code returns an array exactly for the lengths a handle
\* takes, and the array is the whole converted block, for any rates: unless the
\* output multiple rounds their ratio down, then it never returns one.  10 ms of
\* a stereo handle are a whole number of samples.
THEOREM LengthsServed == WholeHundreds => (ApiSpec => []LegalLengthsServed)
<1> SUFFICES ASSUME WholeHundreds PROVE ApiSpec => []LegalLengthsServed
  OBVIOUS
<1>1. ApiInit => ApiInv
  BY ApiInvInit
<1>2. ApiInv /\ [ApiNext]_api_vars => ApiInv'
  BY ApiInvNext
<1>3. ApiInv => LegalLengthsServed
  BY DEF ApiInv
<1> QED
  BY <1>1, <1>2, <1>3, PTL DEF ApiSpec
=============================================================================
