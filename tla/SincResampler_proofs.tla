------------------------ MODULE SincResampler_proofs ------------------------
(***************************************************************************)
(* Theorems about the resampling of 10 ms blocks: about SincResampler, for *)
(* every kernel and every pair of rates the constructor accepts (and more  *)
(* than one output per call), and about AcmResampler, which reconfigures   *)
(* such resamplers, for all rates, capacities and bounds.                  *)
(***************************************************************************)
EXTENDS SincResampler, AcmResampler, TLAPS

\* Integer division, as TLA+ defines it.
LEMMA DivBounds ==
    ASSUME NEW a \in Int, NEW b \in Nat \ {0}
    PROVE  /\ a \div b \in Int
           /\ (a \div b) * b <= a
           /\ a < (a \div b) * b + b
  BY SMT

LEMMA DivShift ==
    ASSUME NEW a \in Int, NEW b \in Nat \ {0}, NEW n \in Int
    PROVE  (a + b * n) \div b = a \div b + n
  BY SMT

LEMMA DivRange ==
    ASSUME NEW a \in Nat, NEW b \in Nat \ {0}, NEW n \in Nat, a < n * b
    PROVE  a \div b \in 0 .. (n - 1)
  BY SMT

LEMMA Sizes ==
    /\ SourceFrames \in Nat \ {0} /\ DestFrames \in Nat \ {0, 1}
    /\ HalfKernel \in Nat \ {0} /\ kKernelSize \in Nat
    /\ SourceFrames > kKernelSize /\ SourceFrames > 3 * HalfKernel
  BY SizesAssumption DEF kKernelSize

\* The lead-in is not empty, and stops less than one output short of the end.
LEMMA LeadFacts ==
    /\ Lead \in Nat \ {0}
    /\ Slack \in 0 .. (SourceFrames - 1)
    /\ Early \in {0, 1} /\ (Early = 0 <=> Slack = 0)
    /\ (SourceFrames - HalfKernel) * DestFrames = Lead * SourceFrames + Slack
<1> DEFINE a == (SourceFrames - HalfKernel) * DestFrames
<1>1. a \in Nat /\ a >= SourceFrames
  <2>1. DestFrames >= 2 /\ SourceFrames - HalfKernel \in Nat
    BY Sizes
  <2>2. (SourceFrames - HalfKernel) * DestFrames >= (SourceFrames - HalfKernel) * 2
    BY <2>1, Sizes
  <2> QED BY <2>1, <2>2, Sizes
<1>2. /\ Lead \in Int /\ Lead * SourceFrames <= a
      /\ a < Lead * SourceFrames + SourceFrames
  BY <1>1, Sizes, DivBounds DEF Lead
<1>3. Lead >= 1
  BY <1>1, <1>2, Sizes
<1>4. Slack = a - Lead * SourceFrames
  BY DEF Slack
<1> QED BY <1>1, <1>2, <1>3, <1>4, Sizes DEF Early

\* The for loop's i at its entry, Progress outputs past the end of the block
\* that the lead-in ended.
LEMMA Steps ==
    ASSUME NEW p \in Int
    PROVE  Ceil(Slack - p * SourceFrames, SourceFrames) = Early - p
<1>0. -Slack \in Int /\ SourceFrames \in Nat \ {0}
  BY LeadFacts, Sizes
<1>1. -(Slack - p * SourceFrames) = -Slack + SourceFrames * p
  BY LeadFacts, Sizes
<1>2. (-Slack + SourceFrames * p) \div SourceFrames = (-Slack) \div SourceFrames + p
  <2> HIDE DEF Slack
  <2> QED BY ONLY <1>0, p \in Int, DivShift
<1>3. (-Slack) \div SourceFrames = -Early
  <2>1. CASE Slack = 0
    BY <2>1, LeadFacts, Sizes
  <2>2. CASE Slack # 0
    <3>1. -Slack < 0 /\ -Slack > -SourceFrames /\ Early = 1
      BY <2>2, LeadFacts, Sizes
    <3>2. /\ (-Slack) \div SourceFrames \in Int
          /\ ((-Slack) \div SourceFrames) * SourceFrames <= -Slack
          /\ -Slack < ((-Slack) \div SourceFrames) * SourceFrames + SourceFrames
      BY DivBounds, LeadFacts, Sizes
    <3> QED BY <3>1, <3>2, LeadFacts, Sizes
  <2> QED BY <2>1, <2>2
<1> QED BY <1>1, <1>2, <1>3, LeadFacts, Sizes DEF Ceil

-----------------------------------------------------------------------------
Inv == TypeOK /\ IInv

LEMMA InitInv == Init => Inv
<1> SUFFICES ASSUME Init PROVE Inv
  OBVIOUS
<1> USE Sizes, LeadFacts DEF Init
<1>1. TypeOK
  <2>1. \A n \in Places : n \in Int /\ Silence(n) \in Int /\ Blank \in Int
    BY DEF Places, Silence, Blank, kKernelSize
  <2>2. buf \in [Places -> Int]
    BY <2>1
  <2>3. window \in [first : Int, size : Nat, gapless : BOOLEAN]
    BY DEF kKernelSize
  <2>4. /\ calls = 0 /\ runs = 0 /\ outs = 0 /\ remaining = 0 /\ i = 0
        /\ v = 0 /\ available = 0 /\ r0 = HalfKernel
        /\ primed \in BOOLEAN /\ first_pass \in BOOLEAN
        /\ pc = "idle" /\ stage = "real"
    OBVIOUS
  <2> QED BY ONLY <2>2, <2>3, <2>4, Sizes DEF TypeOK
<1>2. BufferInv
  BY DEF BufferInv, Base, Places, Silence, kKernelSize
<1>3. PhaseInv
  <2>1. block_size = SourceFrames - HalfKernel
    BY DEF block_size, r4, r2
  <2> QED BY <2>1, LeadFacts DEF PhaseInv
<1> QED BY <1>1, <1>2, <1>3 DEF Inv, IInv, RegionsInv, IdleInv

\* The block after r0_ was set, in source samples.
LEMMA BlockSize ==
    ASSUME Inv
    PROVE  /\ block_size = IF runs = 0 THEN SourceFrames - HalfKernel ELSE SourceFrames
           /\ block_size = r0 + SourceFrames - kKernelSize
           /\ block_size \in Nat \ {0}
  BY Sizes DEF Inv, IInv, RegionsInv, block_size, r4, r2, kKernelSize

LEMMA PushInv == Inv /\ Push => Inv'
<1> SUFFICES ASSUME Inv, Push PROVE Inv'
  OBVIOUS
<1> USE Sizes, LeadFacts DEF Inv, Push
<1>1. TypeOK'
  <2>1. ChunkSize \in Nat
    <3>1. block_size * DestFrames \in Nat
      BY BlockSize
    <3>2. (block_size * DestFrames) \div SourceFrames \in Nat
      BY <3>1
    <3> QED BY <3>2 DEF ChunkSize
  <2> QED BY <2>1 DEF TypeOK
<1>2. BufferInv' /\ PhaseInv' /\ RegionsInv'
  BY DEF IInv, BufferInv, PhaseInv, RegionsInv, Base, block_size, r4, r2
<1>3. IdleInv
  BY DEF IInv
<1>4. CASE calls = 0
  <2>1. ~primed /\ first_pass /\ runs = 0 /\ outs = 0 /\ r0 = HalfKernel
    BY <1>3, <1>4 DEF IInv, IdleInv, RegionsInv, TypeOK
  <2>2. ChunkSize = Lead
    BY <2>1 DEF ChunkSize, Lead, block_size, r4, r2
  <2>3. LeadInv'
    <3>1. calls' = 1 /\ pc' = "prime" /\ available' = SourceFrames
          /\ remaining' = Lead /\ runs' = 0 /\ outs' = 0
      BY <1>4, <2>1, <2>2
    <3>2. ~primed'
      BY <2>1
    <3> QED BY <3>1, <3>2 DEF LeadInv
  <2> QED BY <1>1, <1>2, <2>1, <2>3 DEF IInv
<1>5. CASE calls # 0
  <2>1. primed /\ ~first_pass /\ runs = calls /\ outs = Lead + calls * DestFrames
    BY <1>3, <1>5 DEF IInv, IdleInv, TypeOK
  <2>2. (calls + 1) * DestFrames = calls * DestFrames + DestFrames
    BY DEF TypeOK
  <2>3. RealInv'
    BY <1>5, <2>1, <2>2 DEF RealInv, FreshInv, TypeOK
  <2> QED BY <1>1, <1>2, <2>1, <2>3 DEF IInv
<1> QED BY <1>4, <1>5

LEMMA PrimeInv == Inv /\ Prime => Inv'
<1> SUFFICES ASSUME Inv, Prime PROVE Inv'
  OBVIOUS
<1> USE Sizes, LeadFacts DEF Inv, Prime
<1>1. CASE primed
  <2>1. UNCHANGED <<primed, first_pass, buf, available, runs>>
    BY <1>1
  <2>2. TypeOK'
    BY <2>1 DEF TypeOK
  <2>3. BufferInv' /\ PhaseInv' /\ RegionsInv'
    BY <2>1 DEF IInv, BufferInv, PhaseInv, RegionsInv, Base, block_size, r4, r2
  <2>4. stage = "real" /\ RealInv
    BY <1>1 DEF IInv, LeadInv, TypeOK
  <2>5. RealInv'
    BY <1>1, <2>1, <2>4 DEF RealInv, FreshInv, TakenInv, TypeOK
  <2> QED BY <1>1, <2>1, <2>2, <2>3, <2>4, <2>5 DEF IInv
<1>2. CASE ~primed
  <2>1. stage = "lead" /\ LeadInv
    BY <1>2 DEF IInv, RealInv, TypeOK
  <2>2. first_pass /\ runs = 0 /\ outs = 0 /\ r0 = HalfKernel /\ remaining > 0
    BY <1>2, <2>1 DEF IInv, LeadInv, RegionsInv, TypeOK
  <2>3. /\ primed' = TRUE /\ first_pass' = FALSE
        /\ available' = available /\ runs' = runs
        /\ buf' = [n \in Places |-> IF n \in r0 .. (r0 + SourceFrames - 1)
                                    THEN n - r0 ELSE buf[n]]
    BY <1>2, <2>2 DEF Fill
  <2>4. TypeOK'
    <3>1. \A n \in Places : n - r0 \in Int /\ buf[n] \in Int
      BY DEF TypeOK, Places
    <3>2. buf' \in [Places -> Int]
      BY <2>3, <3>1
    <3> QED BY <2>3, <3>2 DEF TypeOK
  <2>5. BufferInv'
    BY <1>2, <2>2, <2>3 DEF IInv, BufferInv, Base, Places
  <2>6. PhaseInv' /\ RegionsInv'
    BY <2>3 DEF IInv, PhaseInv, RegionsInv, block_size, r4, r2
  <2>7. LeadInv'
    BY <2>1, <2>3 DEF LeadInv
  <2> QED BY <2>1, <2>3, <2>4, <2>5, <2>6, <2>7 DEF IInv
<1> QED BY <1>1, <1>2

\* While a real call has not taken the caller's samples it is at most one
\* output past the end of the lead-in; otherwise it is `remaining` short of
\* where the next call will start.
Progress == outs - Lead - runs * DestFrames

LEMMA ProgressFacts ==
    ASSUME Inv, pc # "idle"
    PROVE  /\ Progress \in Int
           /\ stage = "lead" \/ TakenInv => Progress = -remaining
           /\ stage = "real" /\ FreshInv => Progress = DestFrames - remaining
           /\ v = block_size * DestFrames + Progress * SourceFrames - Slack
<1> USE Sizes, LeadFacts DEF Inv
<1>1. Progress \in Int
  BY DEF Progress, TypeOK
<1>2. v = block_size * DestFrames + Progress * SourceFrames - Slack
  BY DEF Progress, IInv, PhaseInv
<1>3. CASE stage = "lead"
  <2>1. runs = 0 /\ outs = Lead - remaining
    BY <1>3 DEF IInv, LeadInv
  <2>2. Progress = -remaining
    BY <2>1 DEF Progress, TypeOK
  <2> QED BY <1>1, <1>2, <1>3, <2>2
<1>4. CASE stage = "real"
  <2>1. outs = Lead + calls * DestFrames - remaining
    BY <1>4 DEF IInv, RealInv
  <2>2. ASSUME runs = calls PROVE Progress = -remaining
    BY <2>1, <2>2 DEF Progress, TypeOK
  <2>3. ASSUME runs = calls - 1 PROVE Progress = DestFrames - remaining
    <3>1. runs * DestFrames = calls * DestFrames - DestFrames
      BY <2>3 DEF TypeOK
    <3>2. calls * DestFrames \in Int
      BY DEF TypeOK
    <3> QED BY <2>1, <3>1, <3>2 DEF Progress, TypeOK
  <2> QED BY <1>1, <1>2, <1>4, <2>2, <2>3 DEF TakenInv, FreshInv
<1> QED BY <1>3, <1>4 DEF TypeOK

LEMMA BlockInv == Inv /\ Block => Inv'
<1> SUFFICES ASSUME Inv, Block PROVE Inv'
  OBVIOUS
<1> USE Sizes, LeadFacts DEF Inv, Block
<1>1. remaining > 0
  BY DEF IInv, LeadInv, RealInv, FreshInv, TakenInv, TypeOK
<1>2. i' = Early - Progress
  <2>1. block_size * DestFrames - v = Slack - Progress * SourceFrames
    <3>1. block_size * DestFrames \in Int /\ Progress * SourceFrames \in Int
      BY BlockSize, ProgressFacts
    <3> QED BY <3>1, ProgressFacts
  <2>2. StepsInBlock = Early - Progress
    BY <2>1, Steps, ProgressFacts DEF StepsInBlock
  <2> QED BY <1>1, <2>2
<1>3. /\ pc' = "convolve" /\ UNCHANGED <<stage, remaining>>
      /\ UNCHANGED <<calls, r0, buf, v, primed, first_pass, available, runs, outs,
                     window>>
  BY <1>1
<1>4. TypeOK'
  BY <1>2, <1>3, ProgressFacts DEF TypeOK
<1>5. BufferInv' /\ PhaseInv' /\ RegionsInv'
  BY <1>3 DEF IInv, BufferInv, PhaseInv, RegionsInv, Base, block_size, r4, r2
<1>6. CASE stage = "lead"
  <2>1. LeadInv'
    BY <1>2, <1>3, <1>6, ProgressFacts DEF IInv, LeadInv, TypeOK
  <2> QED BY <1>3, <1>4, <1>5, <1>6, <2>1 DEF IInv
<1>7. CASE stage = "real" /\ FreshInv
  <2>1. remaining = DestFrames /\ i' = Early
    BY <1>2, <1>7, ProgressFacts DEF FreshInv, TypeOK
  <2>2. FreshInv'
    BY <1>3, <1>7, <2>1 DEF FreshInv
  <2> QED BY <1>3, <1>4, <1>5, <1>7, <2>2 DEF IInv, RealInv
<1>8. CASE stage = "real" /\ TakenInv
  <2>1. i' = remaining + Early
    BY <1>2, <1>8, ProgressFacts DEF TypeOK
  <2>2. TakenInv'
    BY <1>3, <1>8, <2>1 DEF TakenInv
  <2> QED BY <1>3, <1>4, <1>5, <1>8, <2>2 DEF IInv, RealInv
<1> QED BY <1>6, <1>7, <1>8 DEF IInv, RealInv, TypeOK

\* Where an output reads: inside the block, so inside what was loaded.
LEMMA InBlock ==
    ASSUME Inv, pc = "convolve", i > 0
    PROVE  /\ v \in Nat /\ v < block_size * DestFrames
           /\ v \div DestFrames \in 0 .. (block_size - 1)
           /\ primed
           /\ \/ stage = "lead"
              \/ stage = "real" /\ FreshInv /\ remaining = DestFrames /\ Early = 1 /\ i = 1
              \/ stage = "real" /\ TakenInv
<1> USE Sizes, LeadFacts DEF Inv
<1>1. /\ primed
      /\ \/ stage = "lead" /\ LeadInv
         \/ stage = "real" /\ FreshInv /\ remaining = DestFrames /\ Early = 1 /\ i = 1
         \/ stage = "real" /\ TakenInv
  BY DEF IInv, LeadInv, RealInv, FreshInv, TakenInv, TypeOK
<1>2. v < block_size * DestFrames
  <2>1. Progress * SourceFrames - Slack < 0
    <3>1. CASE Progress = 0 /\ Early = 1
      BY <3>1
    <3>2. CASE Progress < 0
      <4>1. Progress * SourceFrames < 0
        BY <3>2, ProgressFacts
      <4> QED BY <4>1, ProgressFacts
    <3>3. Progress < 0 \/ (Progress = 0 /\ Early = 1)
      BY <1>1, ProgressFacts DEF LeadInv, TakenInv, TypeOK
    <3> QED BY <3>1, <3>2, <3>3
  <2>2. block_size * DestFrames \in Int /\ Progress * SourceFrames \in Int
    BY BlockSize, ProgressFacts
  <2> QED BY <2>1, <2>2, ProgressFacts
<1>3. v >= 0
  <2>1. CASE stage = "lead"
    <3>1. runs = 0 /\ outs >= 0 /\ Progress = outs - Lead
      BY <1>1, <2>1 DEF LeadInv, Progress, TypeOK
    <3>2. v = (Lead * SourceFrames + Slack) + (outs - Lead) * SourceFrames - Slack
      BY <3>1, BlockSize, ProgressFacts
    <3>3. (outs - Lead) * SourceFrames = outs * SourceFrames - Lead * SourceFrames
      BY DEF TypeOK
    <3>4. outs * SourceFrames >= 0
      BY DEF TypeOK
    <3>5. outs * SourceFrames \in Int /\ Lead * SourceFrames \in Int
      BY DEF TypeOK
    <3>6. v = outs * SourceFrames
      BY ONLY <3>2, <3>3, <3>5, Sizes, LeadFacts
    <3> QED BY <3>4, <3>6
  <2>2. CASE stage = "real" /\ FreshInv /\ remaining = DestFrames
    <3>1. v = block_size * DestFrames - Slack
      BY <2>2, ProgressFacts, BlockSize
    <3>2. block_size * DestFrames >= block_size
      BY BlockSize
    <3>3. block_size * DestFrames >= Slack
      <4>1. CASE runs = 0
        <5>1. block_size * DestFrames = Lead * SourceFrames + Slack
          BY <4>1, BlockSize
        <5>2. Lead * SourceFrames >= 0
          OBVIOUS
        <5> QED BY <5>1, <5>2
      <4>2. CASE runs # 0
        BY <4>2, <3>2, BlockSize
      <4> QED BY <4>1, <4>2
    <3> QED BY <3>1, <3>3, BlockSize
  <2>3. CASE stage = "real" /\ TakenInv
    <3>1. block_size = SourceFrames
      BY <2>3, BlockSize DEF TakenInv, IInv, RealInv, TypeOK
    <3>2. v = SourceFrames * DestFrames - remaining * SourceFrames - Slack
      BY <2>3, <3>1, ProgressFacts DEF TypeOK
    <3>3. SourceFrames * DestFrames - remaining * SourceFrames
             = (DestFrames - remaining) * SourceFrames
      BY DEF TypeOK
    <3>4. DestFrames - remaining \in Nat /\ DestFrames - remaining >= Early
      BY <2>3 DEF TakenInv, TypeOK
    <3>5. (DestFrames - remaining) * SourceFrames >= Early * SourceFrames
      BY <3>4
    <3>6. Early * SourceFrames >= Slack
      OBVIOUS
    <3>7. v = (DestFrames - remaining) * SourceFrames - Slack
      BY <3>2, <3>3
    <3> QED BY <3>4, <3>5, <3>6, <3>7
  <2> QED BY <1>1, <2>1, <2>2, <2>3
<1>4. v \div DestFrames \in 0 .. (block_size - 1)
  BY <1>2, <1>3, DivRange, BlockSize DEF TypeOK
<1> QED BY <1>1, <1>2, <1>3, <1>4 DEF TypeOK

LEMMA ConvolveInv == Inv /\ Convolve => Inv'
<1> SUFFICES ASSUME Inv, Convolve PROVE Inv'
  OBVIOUS
<1> USE Sizes, LeadFacts DEF Inv
<1>1. /\ pc = "convolve" /\ i > 0
      /\ v' = v + SourceFrames /\ outs' = outs + 1 /\ i' = i - 1
      /\ UNCHANGED <<calls, r0, buf, primed, first_pass, available, runs>>
  BY DEF Convolve
<1>2. remaining \in Nat \ {0}
  BY <1>1, InBlock DEF IInv, LeadInv, TakenInv, TypeOK
<1>3. \/ /\ remaining = 1 /\ stage = "lead"
         /\ stage' = "real" /\ remaining' = DestFrames /\ pc' = "prime"
      \/ /\ remaining = 1 /\ stage = "real"
         /\ stage' = "real" /\ remaining' = 0 /\ pc' = "idle"
      \/ /\ remaining > 1 /\ remaining' = remaining - 1
         /\ UNCHANGED <<stage, pc>>
  BY <1>2 DEF Convolve, Return, TypeOK
<1>4. TypeOK'
  <2>1. window' \in [first : Int, size : Nat, gapless : BOOLEAN]
    <3>1. (IF v \div DestFrames \in Places THEN buf[v \div DestFrames] ELSE Blank) \in Int
      BY DEF TypeOK, Blank
    <3> QED BY <3>1 DEF Convolve
  <2> QED BY <1>1, <1>2, <1>3, <2>1 DEF TypeOK
<1>5. BufferInv' /\ RegionsInv'
  BY <1>1 DEF IInv, BufferInv, RegionsInv, Base
<1>6. PhaseInv'
  <2>1. block_size' = block_size /\ block_size * DestFrames \in Int
    BY <1>1, BlockSize DEF block_size, r4, r2
  <2>2. Progress' = Progress + 1
    BY <1>1, ProgressFacts DEF Progress, TypeOK
  <2>3. (Progress + 1) * SourceFrames = Progress * SourceFrames + SourceFrames
    BY <1>1, ProgressFacts
  <2>4. v = block_size * DestFrames + Progress * SourceFrames - Slack
    BY <1>1, ProgressFacts
  <2>5. Progress * SourceFrames \in Int
    BY <1>1, ProgressFacts
  <2>6. v' = block_size' * DestFrames + Progress' * SourceFrames - Slack
    BY <1>1, <2>1, <2>2, <2>3, <2>4, <2>5
  <2> QED BY <2>6 DEF PhaseInv, Progress
<1>7. CASE stage = "lead"
  <2>1. LeadInv
    BY <1>1, <1>7 DEF IInv
  <2>2. CASE remaining = 1
    <3>1. outs' = Lead /\ stage' = "real" /\ pc' = "prime" /\ remaining' = DestFrames
      BY <1>1, <1>3, <1>7, <2>1, <2>2 DEF LeadInv, TypeOK
    <3>2. RealInv'
      BY <1>1, <2>1, <3>1 DEF LeadInv, RealInv, FreshInv, TypeOK
    <3> QED BY <1>1, <1>4, <1>5, <1>6, <2>1, <3>1, <3>2 DEF IInv, LeadInv
  <2>3. CASE remaining > 1
    <3>1. LeadInv'
      BY <1>1, <1>3, <2>1, <2>3 DEF LeadInv, TypeOK
    <3> QED BY <1>1, <1>3, <1>4, <1>5, <1>6, <1>7, <2>1, <2>3, <3>1 DEF IInv, LeadInv
  <2> QED BY <1>2, <2>2, <2>3
<1>8. CASE stage = "real" /\ FreshInv
  <2>1. remaining = DestFrames /\ Early = 1 /\ i = 1
    BY <1>1, <1>8, InBlock DEF FreshInv, TakenInv, TypeOK
  <2>2. remaining' = DestFrames - 1 /\ i' = 0 /\ pc' = "convolve" /\ stage' = "real"
    BY <1>1, <1>3, <1>8, <2>1
  <2>3. FreshInv'
    BY <1>1, <1>8, <2>1, <2>2 DEF FreshInv, Early
  <2>4. calls * DestFrames \in Int
    BY DEF TypeOK
  <2>5. RealInv'
    BY <1>1, <1>8, <2>1, <2>2, <2>3, <2>4 DEF IInv, RealInv, TypeOK
  <2> QED BY <1>1, <1>4, <1>5, <1>6, <1>8, <2>2, <2>5 DEF IInv, RealInv
<1>9. CASE stage = "real" /\ TakenInv
  <2>0. calls * DestFrames \in Int /\ RealInv
    BY <1>1, <1>9 DEF IInv, TypeOK
  <2>1. CASE remaining = 1
    <3>1. IdleInv'
      BY <1>1, <1>3, <1>9, <2>0, <2>1 DEF RealInv, TakenInv, IdleInv, TypeOK
    <3> QED BY <1>1, <1>3, <1>4, <1>5, <1>6, <1>9, <2>0, <2>1, <3>1 DEF IInv, RealInv
  <2>2. CASE remaining > 1
    <3>1. TakenInv'
      BY <1>1, <1>3, <1>9, <2>2 DEF TakenInv, Early, TypeOK
    <3>2. RealInv'
      BY <1>1, <1>3, <1>9, <2>0, <2>2, <3>1 DEF RealInv, TypeOK
    <3> QED BY <1>1, <1>3, <1>4, <1>5, <1>6, <1>9, <2>0, <2>2, <3>2 DEF IInv, RealInv
  <2> QED BY <1>2, <2>1, <2>2
<1> QED BY <1>1, <1>7, <1>8, <1>9 DEF IInv, RealInv, TypeOK

LEMMA WrapInv == Inv /\ Wrap => Inv'
<1> SUFFICES ASSUME Inv, Wrap PROVE Inv'
  OBVIOUS
<1> USE Sizes, LeadFacts DEF Inv
<1>1. /\ pc = "convolve" /\ i <= 0
      /\ v' = v - block_size * DestFrames
      /\ r0' = kKernelSize
      /\ pc' = "block"
      /\ UNCHANGED <<calls, stage, remaining, i, primed, outs, window>>
  BY DEF Wrap, r2, TypeOK
<1>2. stage = "real" /\ RealInv /\ FreshInv /\ primed /\ ~first_pass
  BY <1>1 DEF IInv, LeadInv, RealInv, TakenInv, TypeOK
<1>3. /\ first_pass' = FALSE
      /\ available' = 0 /\ runs' = calls /\ runs' = runs + 1
      /\ buf' = [n \in Places |->
                    IF n \in kKernelSize .. (kKernelSize + SourceFrames - 1)
                    THEN calls * SourceFrames + (n - kKernelSize)
                    ELSE [m \in Places |-> IF m < kKernelSize THEN buf[r3 + m]
                                                             ELSE buf[m]][n]]
  BY <1>1, <1>2 DEF Wrap, Fill, FreshInv, TypeOK
<1>4. \A n \in Places : n < kKernelSize => r3 + n \in Places /\ r3 + n < r0 + SourceFrames
  BY DEF r3, Places, TypeOK, kKernelSize
<1>5. /\ calls * SourceFrames \in Int
      /\ Base' = calls * SourceFrames - kKernelSize
      /\ Base + r3 = calls * SourceFrames - kKernelSize
  <2>1. calls * SourceFrames \in Int
    BY DEF TypeOK
  <2>2. Base' = calls * SourceFrames - kKernelSize
    BY <1>2, <1>3 DEF Base, RealInv, TypeOK
  <2>3. CASE runs = 0
    <3>1. calls * SourceFrames = SourceFrames
      BY <1>3, <2>3 DEF TypeOK
    <3> QED BY <2>1, <2>2, <2>3, <3>1 DEF Base, r3, IInv, RegionsInv
  <2>4. CASE runs # 0
    <3>1. calls * SourceFrames = runs * SourceFrames + SourceFrames
      BY <1>3 DEF TypeOK
    <3>2. runs * SourceFrames \in Int
      BY DEF TypeOK
    <3> QED BY <2>1, <2>2, <2>4, <3>1, <3>2 DEF Base, r3, IInv, RegionsInv
  <2> QED BY <2>1, <2>2, <2>3, <2>4
<1>6. BufferInv'
  <2> SUFFICES ASSUME NEW n \in Places PROVE buf'[n] = Base' + n
    BY DEF BufferInv
  <2>1. CASE n < kKernelSize
    <3>1. buf'[n] = buf[r3 + n]
      BY <1>3, <2>1 DEF Places
    <3>2. buf[r3 + n] = Base + (r3 + n)
      BY <1>2, <1>4, <2>1 DEF IInv, BufferInv
    <3>3. Base \in Int /\ r3 \in Int /\ n \in Int
      BY DEF Base, r3, Places, TypeOK
    <3> QED BY <1>5, <3>1, <3>2, <3>3
  <2>2. CASE n >= kKernelSize
    <3>1. n \in Int /\ n \in kKernelSize .. (kKernelSize + SourceFrames - 1)
      BY <2>2 DEF Places
    <3>2. buf'[n] = calls * SourceFrames + (n - kKernelSize)
      BY ONLY <1>3, <3>1, n \in Places
    <3> QED BY ONLY <1>5, <3>1, <3>2, Sizes
  <2> QED BY <2>1, <2>2 DEF Places
<1>7. TypeOK'
  <2>1. \A n \in Places : buf'[n] = Base' + n /\ Base' + n \in Int
    <3>1. primed' /\ r0' + SourceFrames = SourceFrames + kKernelSize
      BY <1>1, <1>2
    <3>2. \A n \in Places : n \in Int /\ n < SourceFrames + kKernelSize
      BY DEF Places
    <3> QED BY <1>5, <1>6, <3>1, <3>2 DEF BufferInv
  <2>2. buf' \in [Places -> Int]
    BY <1>3, <2>1
  <2>3. v' \in Int
    <3>1. block_size * DestFrames \in Int /\ v \in Int
      BY BlockSize DEF TypeOK
    <3> QED BY ONLY <1>1, <3>1
  <2>4. calls \in Nat /\ outs \in Nat /\ remaining \in Nat /\ i \in Int
    BY DEF TypeOK
  <2>5. window' \in [first : Int, size : Nat, gapless : BOOLEAN] /\ stage' \in {"lead", "real"}
    BY <1>1 DEF TypeOK
  <2>6. primed' \in BOOLEAN /\ first_pass' \in BOOLEAN
    BY <1>1, <1>2, <1>3
  <2> QED BY ONLY <1>1, <1>3, <2>2, <2>3, <2>4, <2>5, <2>6, Sizes DEF TypeOK
<1>8. RegionsInv'
  BY <1>1, <1>3 DEF RegionsInv, TypeOK
<1>9. PhaseInv'
  <2>1. block_size' = SourceFrames
    BY <1>1 DEF block_size, r4, r2, kKernelSize
  <2>2. Progress' = Progress - DestFrames
    <3>1. (runs + 1) * DestFrames = runs * DestFrames + DestFrames
      BY DEF TypeOK
    <3>2. runs * DestFrames \in Int
      BY DEF TypeOK
    <3> QED BY <1>1, <1>3, <3>1, <3>2 DEF Progress, TypeOK
  <2>3. (Progress - DestFrames) * SourceFrames
           = Progress * SourceFrames - SourceFrames * DestFrames
    BY <1>1, ProgressFacts
  <2>4. v = block_size * DestFrames + Progress * SourceFrames - Slack
    BY <1>1, ProgressFacts
  <2>5. /\ Progress * SourceFrames \in Int /\ block_size * DestFrames \in Int
        /\ SourceFrames * DestFrames \in Int
    BY <1>1, ProgressFacts, BlockSize
  <2>6. v' = block_size' * DestFrames + Progress' * SourceFrames - Slack
    BY <1>1, <2>1, <2>2, <2>3, <2>4, <2>5
  <2> QED BY <2>6 DEF PhaseInv, Progress
<1>10. RealInv'
  <2>1. remaining \in 1 .. (DestFrames - Early)
    BY <1>1, <1>2 DEF FreshInv, TypeOK
  <2>2. TakenInv'
    BY <1>1, <1>3, <2>1 DEF TakenInv, Early
  <2> QED BY <1>1, <1>2, <1>3, <2>2 DEF RealInv, Lead
<1> QED BY <1>1, <1>2, <1>3, <1>6, <1>7, <1>8, <1>9, <1>10 DEF IInv

LEMMA NextInv == Inv /\ [Next]_vars => Inv'
<1> SUFFICES ASSUME Inv, [Next]_vars PROVE Inv'
  OBVIOUS
<1>1. CASE Push
  BY <1>1, PushInv
<1>2. CASE Prime
  BY <1>2, PrimeInv
<1>3. CASE Block
  BY <1>3, BlockInv
<1>4. CASE Convolve
  BY <1>4, ConvolveInv
<1>5. CASE Wrap
  BY <1>5, WrapInv
<1>6. CASE UNCHANGED vars
  <2>1. TypeOK'
    BY <1>6 DEF Inv, TypeOK, vars
  <2>2. BufferInv' /\ PhaseInv' /\ RegionsInv'
    BY <1>6 DEF Inv, IInv, BufferInv, PhaseInv, RegionsInv, Base, block_size, r4, r2, vars
  <2>3. /\ first_pass' <=> ~primed'
        /\ ~primed' => runs' = 0 /\ outs' = 0
        /\ pc' = "idle" => IdleInv'
        /\ pc' # "idle" /\ stage' = "lead" => LeadInv'
        /\ pc' # "idle" /\ stage' = "real" => RealInv'
    BY <1>6 DEF Inv, IInv, IdleInv, LeadInv, RealInv, FreshInv, TakenInv, vars
  <2> QED BY <2>1, <2>2, <2>3 DEF Inv, IInv
<1> QED BY <1>1, <1>2, <1>3, <1>4, <1>5, <1>6 DEF Next, Step

\* The invariant that carries everything else: in every state of every run the
\* ring holds consecutive source samples from Base on, and the virtual index
\* stands exactly where the outputs and refills so far put it.
THEOREM Invariance == Spec => []Inv
  BY InitInv, NextInv, PTL DEF Spec

\* Every variable stays in its type.
THEOREM TypeCorrect == Spec => []TypeOK
<1>1. Inv => TypeOK
  BY DEF Inv
<1> QED BY <1>1, Invariance, PTL

\* A call that returned took the caller's samples exactly once: the one Run()
\* of sinc_resampler.cc's loop, never none and never two.
THEOREM TakesOncePerCall == Spec => []OneRunPerCall
<1>1. Inv => OneRunPerCall
  BY DEF Inv, IInv, IdleInv, OneRunPerCall
<1> QED BY <1>1, Invariance, PTL

\* Neither assertion of the code can fail: the index stays in the block, and
\* Run() is never asked for samples the caller did not bring.
THEOREM NoAssertionFails == Spec => []AssertionsHold
<1>1. Inv => AssertionsHold
  <2> SUFFICES ASSUME Inv PROVE AssertionsHold
    OBVIOUS
  <2>1. pc = "convolve" /\ i > 0 => v < block_size * DestFrames
    BY InBlock
  <2>2. pc = "prime" /\ ~primed /\ remaining > 0 => available = SourceFrames
    BY DEF Inv, IInv, LeadInv, RealInv, TypeOK
  <2>3. pc = "convolve" /\ i <= 0 => available = SourceFrames
    BY LeadFacts DEF Inv, IInv, LeadInv, RealInv, FreshInv, TakenInv, TypeOK
  <2> QED BY <2>1, <2>2, <2>3 DEF AssertionsHold
<1> QED BY <1>1, Invariance, PTL

-----------------------------------------------------------------------------
\* What an output reads.
LEMMA Reads ==
    ASSUME Inv, Convolve
    PROVE  /\ window'.gapless
           /\ window'.first = Base + v \div DestFrames
           /\ Base \in Int /\ v \div DestFrames \in 0 .. (block_size - 1)
<1> USE Sizes DEF Inv
<1> DEFINE source_idx == v \div DestFrames
<1>1. source_idx \in 0 .. (block_size - 1) /\ primed
  BY InBlock DEF Convolve
<1>2. Base \in Int /\ r0 \in {HalfKernel, kKernelSize}
  BY DEF Base, TypeOK
<1>3. block_size = r0 + SourceFrames - kKernelSize
  BY BlockSize
<1>4. \A n \in 0 .. (kKernelSize - 1) :
         source_idx + n \in Places /\ source_idx + n < r0 + SourceFrames
  <2> HIDE DEF source_idx
  <2> QED BY ONLY <1>1, <1>2, <1>3, Sizes DEF Places, kKernelSize
<1>5. \A n \in 0 .. (kKernelSize - 1) : buf[source_idx + n] = Base + (source_idx + n)
  BY <1>1, <1>4 DEF IInv, BufferInv
<1>6. source_idx + 0 = source_idx /\ 0 \in 0 .. (kKernelSize - 1)
  BY <1>1 DEF kKernelSize
<1>7. source_idx \in Places /\ buf[source_idx] = Base + source_idx
  BY <1>4, <1>5, <1>6
<1>8. \A n \in 0 .. (kKernelSize - 1) :
         buf[source_idx + n] = (Base + source_idx) + n
  BY <1>1, <1>2, <1>5
<1> HIDE DEF source_idx
<1>9. window'.first = Base + source_idx
  BY <1>7 DEF Convolve, source_idx
<1>10. window'.gapless
  BY <1>4, <1>7, <1>8 DEF Convolve, source_idx
<1> QED BY <1>1, <1>2, <1>9, <1>10 DEF source_idx

\* Where it stands.
LEMMA Phase ==
    ASSUME Inv, Convolve
    PROVE  Base + v \div DestFrames = (outs * SourceFrames) \div DestFrames - HalfKernel
<1> USE Sizes, LeadFacts
<1>1. /\ outs \in Nat /\ runs \in Nat /\ Lead \in Int /\ v \in Int
      /\ v = block_size * DestFrames
               + (outs - Lead - runs * DestFrames) * SourceFrames - Slack
  BY DEF Inv, IInv, PhaseInv, TypeOK
<1>2. /\ outs * SourceFrames \in Int /\ Lead * SourceFrames \in Int
      /\ runs * DestFrames \in Int /\ runs * SourceFrames \in Int
  BY <1>1
<1>3. (outs - Lead - runs * DestFrames) * SourceFrames
         = outs * SourceFrames - Lead * SourceFrames - DestFrames * (runs * SourceFrames)
  BY <1>1
<1>4. DestFrames * (runs * SourceFrames) \in Int /\ block_size * DestFrames \in Int
  BY <1>2, BlockSize
<1>5. CASE runs = 0
  <2>1. block_size * DestFrames = Lead * SourceFrames + Slack
    BY <1>5, BlockSize
  <2>2. DestFrames * (runs * SourceFrames) = 0
    BY <1>5
  <2>3. v = outs * SourceFrames
    BY <1>1, <1>2, <1>3, <2>1, <2>2
  <2> QED BY <1>2, <1>5, <2>3 DEF Base
<1>6. CASE runs # 0
  <2>1. block_size * DestFrames = (SourceFrames - HalfKernel) * DestFrames
                                     + DestFrames * HalfKernel
    BY <1>6, BlockSize
  <2>2. v = outs * SourceFrames + DestFrames * HalfKernel
               - DestFrames * (runs * SourceFrames)
    BY <1>1, <1>2, <1>3, <1>4, <2>1
  <2>3. DestFrames * (HalfKernel - runs * SourceFrames)
           = DestFrames * HalfKernel - DestFrames * (runs * SourceFrames)
    BY <1>2
  <2>4. HalfKernel - runs * SourceFrames \in Int
    BY <1>2
  <2>5. v = outs * SourceFrames + DestFrames * (HalfKernel - runs * SourceFrames)
    BY <1>2, <1>4, <2>2, <2>3
  <2>6. v \div DestFrames = (outs * SourceFrames) \div DestFrames
                               + (HalfKernel - runs * SourceFrames)
    <3> DEFINE x == outs * SourceFrames
               n == HalfKernel - runs * SourceFrames
    <3>1. x \in Int /\ n \in Int /\ v = x + DestFrames * n
      BY <1>2, <2>4, <2>5
    <3> HIDE DEF x, n
    <3>2. (x + DestFrames * n) \div DestFrames = x \div DestFrames + n
      BY ONLY <3>1, Sizes, DivShift
    <3> QED BY <3>1, <3>2 DEF x, n
  <2>7. (outs * SourceFrames) \div DestFrames \in Int
    BY <1>2, DivBounds
  <2> QED BY ONLY <1>2, <1>6, <2>6, <2>7, Sizes DEF Base, kKernelSize
<1> QED BY <1>5, <1>6

\* No wrap of the ring and no slide of the regions loses, repeats or tears a
\* sample: each output reads kKernelSize consecutive source samples.
THEOREM NoGaps == Spec => []Gapless
<1>1. Init => Gapless
  BY DEF Init, Gapless
<1>2. Inv /\ Gapless /\ [Next]_vars => Gapless'
  BY Reads DEF Gapless, Next, Step, Push, Prime, Block, Wrap, vars
<1> QED BY <1>1, <1>2, Invariance, PTL DEF Spec

\* Output j stands at exactly j * SourceFrames / DestFrames for ever.
THEOREM NeverDrifts == Spec => []NoDrift
<1>1. Init => NoDrift
  BY DEF Init, NoDrift
<1>2. ASSUME Inv, NoDrift, [Next]_vars PROVE NoDrift'
  <2>1. CASE Convolve
    <3>1. outs' - 1 = outs
      BY <1>2, <2>1 DEF Convolve, Inv, TypeOK
    <3>2. window'.first = (outs * SourceFrames) \div DestFrames - HalfKernel
      BY <1>2, <2>1, Reads, Phase
    <3> QED BY <3>1, <3>2 DEF NoDrift
  <2>2. CASE UNCHANGED <<outs, window>>
    BY <1>2, <2>2 DEF NoDrift
  <2> QED BY <1>2, <2>1, <2>2 DEF Next, Step, Push, Prime, Block, Wrap, vars
<1> QED BY <1>1, <1>2, Invariance, PTL DEF Spec

\* An output needs only what the calls so far supplied.
LEMMA NotAhead ==
    ASSUME Inv, Convolve
    PROVE  /\ calls > 0 /\ outs < Lead + calls * DestFrames
           /\ (outs * SourceFrames) \div DestFrames - HalfKernel + kKernelSize
                 <= (calls + 1) * SourceFrames
<1> USE Sizes, LeadFacts DEF Inv
<1>1. calls \in Nat /\ runs \in Nat /\ outs \in Nat /\ remaining \in Nat
  BY DEF TypeOK
<1>2. calls * DestFrames \in Int
  BY <1>1
<1>3. calls > 0 /\ outs < Lead + calls * DestFrames /\ runs <= calls
  BY <1>1, <1>2, InBlock DEF Convolve, IInv, LeadInv, RealInv, FreshInv, TakenInv, TypeOK
<1>4. Base + v \div DestFrames + kKernelSize < (runs + 1) * SourceFrames
  <2>1. /\ v \div DestFrames \in Int
        /\ v \div DestFrames + kKernelSize < r0 + SourceFrames
    BY Reads, BlockSize DEF TypeOK
  <2>2. Base + r0 = runs * SourceFrames
    <3>1. runs * SourceFrames \in Int
      BY <1>1
    <3> QED BY <1>1, <3>1 DEF IInv, RegionsInv, Base
  <2>3. (runs + 1) * SourceFrames = runs * SourceFrames + SourceFrames
    BY <1>1
  <2>4. Base \in Int /\ r0 \in Int /\ runs * SourceFrames \in Int
    BY <1>1, Reads DEF TypeOK
  <2> QED BY ONLY <2>1, <2>2, <2>3, <2>4, Sizes
<1>5. (runs + 1) * SourceFrames <= (calls + 1) * SourceFrames
  BY <1>1, <1>3
<1>6. /\ Base + v \div DestFrames \in Int
      /\ (runs + 1) * SourceFrames \in Int /\ (calls + 1) * SourceFrames \in Int
  BY <1>1, Reads
<1>7. Base + v \div DestFrames + kKernelSize <= (calls + 1) * SourceFrames
  BY ONLY <1>4, <1>5, <1>6, Sizes
<1> QED BY <1>3, <1>7, Phase

\* Every step of the ring is a step of the promised stream or leaves it alone.
THEOREM RefinesStream == Spec => Stream!StreamSafety
<1>1. Init => Stream!StreamInit
  BY DEF Init, Stream!StreamInit
<1>2. ASSUME Inv, [Next]_vars
      PROVE  [Stream!StreamNext]_(Stream!streamVars)
  <2>1. CASE Push
    <3>1. calls = 0 \/ outs = Stream!Due(calls)
      BY <1>2, <2>1 DEF Inv, IInv, IdleInv, Push, Lead, Stream!Due, Stream!Lead
    <3>2. calls' = calls + 1 /\ UNCHANGED <<outs, window>>
      BY <2>1 DEF Push
    <3> QED BY <3>1, <3>2 DEF Stream!StreamNext, Stream!Supply
  <2>2. CASE Convolve
    <3>1. calls > 0 /\ outs < Stream!Due(calls)
      BY <1>2, <2>2, NotAhead DEF Lead, Stream!Due, Stream!Lead
    <3>2. Stream!WindowOf(outs) + Stream!KernelSize <= (calls + 1) * SourceFrames
      BY <1>2, <2>2, NotAhead DEF Stream!WindowOf, Stream!KernelSize, kKernelSize
    <3>3. window'.first = Stream!WindowOf(outs)
      BY <1>2, <2>2, Reads, Phase DEF Stream!WindowOf
    <3>4. outs' = outs + 1 /\ calls' = calls
      BY <2>2 DEF Convolve
    <3> QED BY <3>1, <3>2, <3>3, <3>4 DEF Stream!StreamNext, Stream!Emit
  <2>3. CASE UNCHANGED <<calls, outs, window>>
    BY <2>3 DEF Stream!streamVars
  <2> QED BY <1>2, <2>1, <2>2, <2>3 DEF Next, Step, Prime, Block, Wrap, vars
<1> QED BY <1>1, <1>2, Invariance, PTL DEF Spec, Stream!StreamSafety

-----------------------------------------------------------------------------
(* AcmResampler, for all rates, capacities and bounds.                       *)

\* What the proofs need to know of the instance: it is a record of these
\* fields, so that an update of two of them leaves the others.
Sincs == [source : Int, destination : Int, made : Int, calls : Int]
PushResamplers ==
    [src : Int, dst : Int, channels : Int, made : Int, left : Sincs, right : Sincs]

StepInv == resampler \in PushResamplers /\ ChannelsInStep

\* A configuration is a whole one: either nothing changes, or both channels'
\* resamplers are made anew by the same call.
LEMMA Configured ==
    ASSUME NEW p \in PushResamplers, NEW src \in Nat, NEW dst \in Nat, NEW channels \in 1..2,
           p.channels = 2 => p.left = p.right
    PROVE  LET q == InitializeIfNeeded(p, src, dst, channels).p
           IN  q \in PushResamplers /\ (q.channels = 2 => q.left = q.right)
<1> DEFINE sinc == NewSinc(src, dst, p.made + 1)
           new == [src |-> src, dst |-> dst, channels |-> channels, made |-> p.made + 1,
                   left |-> sinc, right |-> Right(p, src, dst, channels)]
<1>1. sinc \in Sincs /\ p.made + 1 \in Int
  BY SMT DEF NewSinc, Sincs, PushResamplers
<1>2. Right(p, src, dst, channels) \in Sincs
  BY <1>1 DEF Right, PushResamplers
<1>3. channels = 2 => Right(p, src, dst, channels) = sinc
  BY DEF Right
<1>4. new \in PushResamplers /\ (new.channels = 2 => new.left = new.right)
  BY <1>1, <1>2, <1>3 DEF PushResamplers
<1>5. InitializeIfNeeded(p, src, dst, channels).p \in {p, new}
  BY DEF InitializeIfNeeded
<1> QED
  BY <1>4, <1>5

\* A block is served by both channels or by neither.
LEMMA ServedTogether ==
    ASSUME NEW p \in PushResamplers, NEW n, NEW room, p.channels = 2 => p.left = p.right
    PROVE  LET q == Resample(p, n, room).p
           IN  q \in PushResamplers /\ (q.channels = 2 => q.left = q.right)
<1> DEFINE both == [p EXCEPT !.left = Served(@), !.right = Served(@)]
           left == [p EXCEPT !.left = Served(@)]
<1>1. Served(p.left) \in Sincs /\ Served(p.right) \in Sincs
  BY SMT DEF Served, Sincs, PushResamplers
<1>2. CASE p.channels = 2
  <2>1. both \in PushResamplers /\ both.left = both.right
    BY <1>1, <1>2 DEF PushResamplers
  <2>2. Resample(p, n, room).p \in {p, both}
    BY <1>2 DEF Resample
  <2> QED
    BY <1>2, <2>1, <2>2
<1>3. CASE p.channels # 2
  <2>1. left \in PushResamplers /\ left.channels = p.channels
    BY <1>1 DEF PushResamplers
  <2>2. Resample(p, n, room).p \in {p, left}
    BY <1>3 DEF Resample
  <2> QED
    BY <1>3, <2>1, <2>2
<1> QED
  BY <1>2, <1>3

LEMMA StepInvInit == AcmInit => StepInv
<1> SUFFICES ASSUME AcmInit PROVE StepInv
  OBVIOUS
<1>1. NoSinc \in Sincs
  BY SMT DEF NoSinc, Sincs
<1>2. resampler \in PushResamplers
  BY <1>1 DEF AcmInit, NewPushResampler, PushResamplers
<1>3. resampler.channels = 0
  BY DEF AcmInit, NewPushResampler
<1> QED
  BY <1>2, <1>3 DEF StepInv, ChannelsInStep

LEMMA StepInvNext == StepInv /\ [AcmNext]_acm_vars => StepInv'
<1> SUFFICES ASSUME StepInv, [AcmNext]_acm_vars PROVE StepInv'
  OBVIOUS
<1>1. CASE UNCHANGED acm_vars
  BY <1>1 DEF acm_vars, StepInv, ChannelsInStep
<1>2. ASSUME NEW in \in InRates, NEW out \in OutRates, NEW channels \in 1..2,
             NEW room \in Capacities, Resample10Msec(in, out, channels, room)
      PROVE  StepInv'
  <2> DEFINE ready == InitializeIfNeeded(resampler, in, out, channels)
             n == (in * channels) \div 100
  <2>1. in \in Nat /\ out \in Nat
    BY RatesAssumption
  <2>2. /\ ready.p \in PushResamplers
        /\ ready.p.channels = 2 => ready.p.left = ready.p.right
    BY <2>1, Configured DEF StepInv, ChannelsInStep
  <2>3. LET q == Resample(ready.p, n, room).p
        IN  q \in PushResamplers /\ (q.channels = 2 => q.left = q.right)
    BY <2>2, ServedTogether
  <2>4. resampler' \in {resampler, ready.p, Resample(ready.p, n, room).p}
    BY <1>2 DEF Resample10Msec
  <2> QED
    BY <2>2, <2>3, <2>4 DEF StepInv, ChannelsInStep
<1> QED
  BY <1>1, <1>2 DEF AcmNext

\* The two channels of a stereo stream are never out of step, whatever was
\* asked of the module's resampler before.
THEOREM InStep == AcmSpec => []ChannelsInStep
<1>1. StepInv => ChannelsInStep
  BY DEF StepInv
<1> QED
  BY StepInvInit, StepInvNext, <1>1, PTL DEF AcmSpec

-----------------------------------------------------------------------------
\* A resampler that was configured produces 10 ms at the rate it was made for.
Made(p) ==
    p.channels = 0 \/ (p.channels \in 1..2 /\ p.left.destination = p.dst \div 100 /\ p.dst \in Nat)

ServedInv == StepInv /\ Made(resampler) /\ BlockServed /\ FilterKept

\* A configuration gives what was asked for, and keeps the resamplers that fit.
LEMMA Fits ==
    ASSUME NEW p \in PushResamplers, Made(p), NEW src \in Nat \ {0}, NEW dst \in Nat \ {0},
           NEW channels \in 1..2
    PROVE  LET q == InitializeIfNeeded(p, src, dst, channels).p
           IN  /\ InitializeIfNeeded(p, src, dst, channels).ret = 0 /\ Made(q)
               /\ q.src = src /\ q.dst = dst /\ q.channels = channels
               /\ q.left.calls = IF Same(p, src, dst, channels) THEN p.left.calls ELSE 0
<1>1. CASE Same(p, src, dst, channels)
  BY <1>1 DEF InitializeIfNeeded, Same, Made
<1>2. CASE ~Same(p, src, dst, channels)
  <2> DEFINE sinc == NewSinc(src, dst, p.made + 1)
             new == [src |-> src, dst |-> dst, channels |-> channels, made |-> p.made + 1,
                     left |-> sinc, right |-> Right(p, src, dst, channels)]
  <2>1. InitializeIfNeeded(p, src, dst, channels) = [p |-> new, ret |-> 0]
    BY <1>2 DEF InitializeIfNeeded
  <2>2. sinc.destination = dst \div 100 /\ sinc.calls = 0
    BY DEF NewSinc
  <2> HIDE DEF sinc
  <2>3. /\ new.src = src /\ new.dst = dst /\ new.channels = channels
        /\ new.left = sinc
    OBVIOUS
  <2> HIDE DEF new
  <2>4. Made(new)
    BY <2>2, <2>3 DEF Made
  <2> QED
    BY <1>2, <2>1, <2>2, <2>3, <2>4
<1> QED
  BY <1>1, <1>2

\* One block through a resampler made for it.
LEMMA Serves ==
    ASSUME NEW p \in PushResamplers, Made(p), p.channels \in 1..2, p.src # p.dst, NEW room,
           p.channels = 2 => p.left = p.right
    PROVE  LET n == (p.src * p.channels) \div 100
               out == (p.dst * p.channels) \div 100
               o == Resample(p, n, room)
           IN  /\ Made(o.p) /\ o.p.channels = p.channels
               /\ room < out => o.ret = -1 /\ o.p.left.calls = p.left.calls
               /\ ~(room < out) => /\ o.ret = p.channels * (p.dst \div 100)
                                   /\ o.p.left.calls = p.left.calls + 1
<1> DEFINE n == (p.src * p.channels) \div 100
           out == (p.dst * p.channels) \div 100
           o == Resample(p, n, room)
           served == Served(p.left)
<1>1. p.left \in Sincs /\ p.right \in Sincs
  BY DEF PushResamplers
<1>2. served.destination = p.left.destination /\ served.calls = p.left.calls + 1
  BY <1>1 DEF Served, Sincs
<1>3. CASE room < out
  BY <1>3 DEF Resample
<1>4. CASE ~(room < out) /\ p.channels = 2
  <2>1. o = [p |-> [p EXCEPT !.left = served, !.right = Served(p.right)],
             ret |-> 2 * p.left.destination]
    BY <1>4 DEF Resample, PushResamplers
  <2> DEFINE right == Served(p.right)
             q == [p EXCEPT !.left = served, !.right = right]
  <2> HIDE DEF served, right
  <2>2. /\ o.p.left = served /\ o.p.channels = p.channels /\ o.p.dst = p.dst
        /\ o.ret = 2 * p.left.destination
    <3>1. q.left = served /\ q.channels = p.channels /\ q.dst = p.dst
      BY DEF PushResamplers
    <3>2. o.p = q /\ o.ret = 2 * p.left.destination
      <4> HIDE DEF q, o
      <4> QED
        BY <2>1 DEF q, right
    <3> QED
      BY <3>1, <3>2
  <2> HIDE DEF o
  <2>3. Made(o.p) /\ o.ret = p.channels * (p.dst \div 100) /\ o.p.left.calls = p.left.calls + 1
    BY <1>2, <1>4, <2>2 DEF Made
  <2> QED
    BY <1>4, <2>2, <2>3 DEF o
<1>5. CASE ~(room < out) /\ p.channels = 1
  <2>1. o = [p |-> [p EXCEPT !.left = served], ret |-> p.left.destination]
    BY <1>5 DEF Resample, PushResamplers
  <2> HIDE DEF served
  <2>2. /\ o.p.left = served /\ o.p.channels = p.channels /\ o.p.dst = p.dst
        /\ o.ret = p.left.destination
    BY <2>1 DEF PushResamplers
  <2> HIDE DEF o
  <2>3. Made(o.p) /\ o.ret = p.channels * (p.dst \div 100) /\ o.p.left.calls = p.left.calls + 1
    BY <1>2, <1>5, <2>2 DEF Made
  <2> QED
    BY <1>5, <2>2, <2>3 DEF o
<1> QED
  BY <1>3, <1>4, <1>5

LEMMA ServedInvInit == AcmInit => ServedInv
<1> SUFFICES ASSUME AcmInit PROVE ServedInv
  OBVIOUS
<1>1. resampler.channels = 0
  BY DEF AcmInit, NewPushResampler
<1>2. block.in = 0 /\ block.out = 0 /\ block.room = 0 /\ block.ret = 0 /\ block.channels = 1
  BY DEF AcmInit
<1>3. BlockServed /\ FilterKept
  BY <1>1, <1>2 DEF BlockServed, FilterKept
<1> QED
  BY <1>1, <1>3, StepInvInit DEF ServedInv, Made

LEMMA ServedInvNext == ServedInv /\ [AcmNext]_acm_vars => ServedInv'
<1> SUFFICES ASSUME ServedInv, [AcmNext]_acm_vars PROVE ServedInv'
  OBVIOUS
<1>1. StepInv'
  BY StepInvNext DEF ServedInv
<1>2. CASE UNCHANGED acm_vars
  BY <1>1, <1>2 DEF acm_vars, ServedInv, Made, BlockServed, FilterKept
<1>3. ASSUME NEW in \in InRates, NEW out \in OutRates, NEW channels \in 1..2,
             NEW room \in Capacities, Resample10Msec(in, out, channels, room)
      PROVE  Made(resampler') /\ BlockServed' /\ FilterKept'
  <2> DEFINE ready == InitializeIfNeeded(resampler, in, out, channels)
             n == (in * channels) \div 100
             room2 == (out * channels) \div 100
             o == Resample(ready.p, n, room)
             same == Same(resampler, in, out, channels)
  <2>1. in \in Nat \ {0} /\ out \in Nat \ {0} /\ room \in Nat
    BY RatesAssumption, BoundsAssumption
  <2>2. resampler \in PushResamplers /\ Made(resampler)
        /\ (resampler.channels = 2 => resampler.left = resampler.right)
    BY DEF ServedInv, StepInv, ChannelsInStep
  <2>3. /\ ready.p \in PushResamplers
        /\ ready.p.channels = 2 => ready.p.left = ready.p.right
    BY <2>1, <2>2, Configured
  <2>4. /\ ready.ret = 0 /\ Made(ready.p)
        /\ ready.p.src = in /\ ready.p.dst = out /\ ready.p.channels = channels
        /\ ready.p.left.calls = IF same THEN resampler.left.calls ELSE 0
    BY <2>1, <2>2, Fits
  <2>5. /\ block'.in = in /\ block'.out = out /\ block'.channels = channels
        /\ block'.room = room /\ block'.found = resampler
    BY <1>3 DEF Resample10Msec
  <2>6. CASE in = out
    <3>1. UNCHANGED resampler /\ room >= n /\ block'.ret = n \div channels
      BY <1>3, <2>6 DEF Resample10Msec
    <3>2. n \div channels = in \div 100
      <4>1. CASE channels = 1
        BY <2>1, <4>1
      <4>2. CASE channels = 2
        BY <2>1, <4>2
      <4> QED
        BY <4>1, <4>2
    <3> QED
      BY <2>2, <2>5, <2>6, <3>1, <3>2 DEF BlockServed, FilterKept
  <2>7. CASE in # out
    <3>1. resampler' = o.p /\ block'.ret = IF o.ret = -1 THEN -1 ELSE o.ret \div channels
      BY <1>3, <2>4, <2>7 DEF Resample10Msec
    <3>2. /\ Made(o.p) /\ o.p.channels = channels
          /\ room < room2 => o.ret = -1 /\ o.p.left.calls = ready.p.left.calls
          /\ ~(room < room2) => /\ o.ret = channels * (out \div 100)
                                /\ o.p.left.calls = ready.p.left.calls + 1
      BY <2>3, <2>4, <2>7, Serves
    <3> HIDE DEF o, ready, same
    <3>3. CASE room < room2
      <4>1. block'.ret = -1 /\ ~(room >= room2)
        BY <2>1, <3>1, <3>2, <3>3
      <4>2. resampler'.left.calls = ready.p.left.calls /\ ready.p.left.calls \in Int
        BY <2>3, <3>1, <3>2, <3>3 DEF PushResamplers, Sincs
      <4> QED
        BY <2>4, <2>5, <3>1, <3>2, <4>1, <4>2 DEF BlockServed, FilterKept, Same, same
    <3>4. CASE ~(room < room2)
      <4>1. block'.ret = out \div 100 /\ out \div 100 >= 0
        <5>1. out \div 100 \in Nat
          BY <2>1
        <5>2. CASE channels = 1
          BY <3>1, <3>2, <3>4, <5>1, <5>2
        <5>3. CASE channels = 2
          BY <3>1, <3>2, <3>4, <5>1, <5>3
        <5> QED
          BY <5>1, <5>2, <5>3
      <4>2. resampler'.left.calls = ready.p.left.calls + 1 /\ ready.p.left.calls \in Int
            /\ block'.ret # -1
        BY <2>1, <2>3, <3>1, <3>2, <3>4, <4>1 DEF PushResamplers, Sincs
      <4> QED
        BY <2>4, <2>5, <3>1, <3>2, <4>1, <4>2 DEF BlockServed, FilterKept, Same, same
    <3> QED
      BY <3>3, <3>4
  <2> QED
    BY <2>6, <2>7
<1> QED
  BY <1>1, <1>2, <1>3 DEF AcmNext, ServedInv

\* Whatever was asked for just before it, a block with room for its output is
\* served, and gives 10 ms at the rate asked for.
THEOREM AlwaysServed == AcmSpec => []BlockServed
<1>1. ServedInv => BlockServed
  BY DEF ServedInv
<1> QED
  BY ServedInvInit, ServedInvNext, <1>1, PTL DEF AcmSpec

\* A change of rate or of channels starts new resamplers, and nothing else does.
THEOREM KeepsItsFilters == AcmSpec => []FilterKept
<1>1. ServedInv => FilterKept
  BY DEF ServedInv
<1> QED
  BY ServedInvInit, ServedInvNext, <1>1, PTL DEF AcmSpec
=============================================================================
