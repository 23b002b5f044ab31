----------------------------- MODULE MchProofs ------------------------------
(***************************************************************************)
(* Proofs about the PMCH: how is_mch_subframe numbers its subframes, and   *)
(* what the MAC and one PHY worker make of that numbering.                 *)
(*                                                                         *)
(* The argument goes in four stages, each resting on the one before.       *)
(*   1. Arithmetic.  sf_idx is the ordinal of a PMCH subframe in its       *)
(*      scheduling period, from 0 to LastIdx.                              *)
(*   2. Data.  The block under way holds what its worker read (DataInv).   *)
(*      The units on the air, with the worker and in RLC are those         *)
(*      written, in order (StreamInv); only this needs a PMCH that has     *)
(*      the whole period, as PHY encodes nothing behind SfAllocEnd.        *)
(*   3. Plan (PlanInv).  The announced stop is that of the plan, the       *)
(*      counter of get_mch_sched agrees with sf_idx, and data is read up   *)
(*      to the stop only.                                                  *)
(*   4. Debt (OwedInv).  What a plan promised and has not sent yet is      *)
(*      still in RLC, and there are subframes enough left for it.          *)
(* Types need none of this and hold for any number of workers.             *)
(***************************************************************************)
EXTENDS MchScheduling, MCMbsfnSubframes, TLAPS

\* Z3 and then Zenon get half a minute for a leaf.
USE SMTT(30), ZenonT(30)

-----------------------------------------------------------------------------
(* Division.                                                               *)

\* Quotient and remainder.
LEMMA DivMod ==
  ASSUME NEW a \in Nat, NEW b \in Nat \ {0}
  PROVE  a \div b \in Nat /\ a % b \in 0 .. b - 1 /\ a = b * (a \div b) + (a % b)
BY SMT

\* Quotient and remainder are the only such numbers.
LEMMA DivModUnique ==
  ASSUME NEW b \in Nat \ {0}, NEW q \in Nat, NEW r \in 0 .. b - 1
  PROVE  (b * q + r) \div b = q /\ (b * q + r) % b = r
<1>. DEFINE a == b * q + r
            p == a \div b
            s == a % b
<1>1. a \in Nat /\ p \in Nat /\ s \in 0 .. b - 1 /\ b * p + s = b * q + r
  <2>1. b * q \in Nat
    OBVIOUS
  <2>2. a \in Nat
    BY <2>1
  <2>. HIDE DEF a
  <2>3. p \in Nat /\ s \in 0 .. b - 1 /\ a = b * p + s
    BY <2>2, DivMod, Zenon
  <2>. QED BY <2>2, <2>3 DEF a
<1>. HIDE DEF a, p, s
<1>2. \A x, y \in Nat : x > y => b * x >= b * y + b
  OBVIOUS
<1>3. p = q
  BY <1>1, <1>2
<1>4. s = r
  BY <1>1, <1>3
<1>. QED BY <1>3, <1>4 DEF a, p, s

\* Counting on from a to a + 1.
LEMMA DivModNext ==
  ASSUME NEW a \in Nat, NEW b \in Nat \ {0}
  PROVE  IF a % b = b - 1
         THEN (a + 1) \div b = (a \div b) + 1 /\ (a + 1) % b = 0
         ELSE (a + 1) \div b = a \div b /\ (a + 1) % b = (a % b) + 1
<1>. DEFINE q == a \div b
            r == a % b
<1>1. q \in Nat /\ r \in 0 .. b - 1 /\ a = b * q + r
  BY DivMod, Zenon
<1>. HIDE DEF q, r
<1>2. CASE r = b - 1
  <2>1. a + 1 = b * (q + 1) + 0 /\ q + 1 \in Nat /\ 0 \in 0 .. b - 1
    BY <1>1, <1>2
  <2>2. (b * (q + 1) + 0) \div b = q + 1 /\ (b * (q + 1) + 0) % b = 0
    BY <2>1, DivModUnique, Zenon
  <2>. QED BY <1>2, <2>1, <2>2 DEF q, r
<1>3. CASE r # b - 1
  <2>1. a + 1 = b * q + (r + 1) /\ r + 1 \in 0 .. b - 1
    BY <1>1, <1>3
  <2>2. (b * q + (r + 1)) \div b = q /\ (b * q + (r + 1)) % b = r + 1
    BY <1>1, <2>1, DivModUnique, Zenon
  <2>. QED BY <1>3, <2>1, <2>2 DEF q, r
<1>. QED BY <1>2, <1>3

-----------------------------------------------------------------------------
(* The place of a subframe in its scheduling period.                       *)

\* The TTI that the TXRX thread hands out after t.
NextTti(t) == (t + 1) % TtiMod

\* A frame of the period, and a subframe of the frame.
LEMMA Parts ==
  ASSUME NEW t \in Nat
  PROVE  /\ Sfn(t) \in Nat /\ Sf(t) \in 0 .. SfPerFrame - 1
         /\ FnInSchedulingPeriod(t) \in 0 .. MchSchedPeriod - 1
         /\ t = SfPerFrame * Sfn(t) + Sf(t)
         /\ Sfn(t) \div MchSchedPeriod \in Nat
         /\ Sfn(t) = MchSchedPeriod * (Sfn(t) \div MchSchedPeriod) + FnInSchedulingPeriod(t)
<1>1. SfPerFrame \in Nat \ {0} /\ MchSchedPeriod \in Nat \ {0}
  BY PeriodAssumption
<1>2. Sfn(t) \in Nat /\ Sf(t) \in 0 .. SfPerFrame - 1 /\ t = SfPerFrame * Sfn(t) + Sf(t)
  BY <1>1, DivMod, Zenon DEF Sfn, Sf
<1>3. /\ FnInSchedulingPeriod(t) \in 0 .. MchSchedPeriod - 1
      /\ Sfn(t) \div MchSchedPeriod \in Nat
      /\ Sfn(t) = MchSchedPeriod * (Sfn(t) \div MchSchedPeriod) + FnInSchedulingPeriod(t)
  BY <1>1, <1>2, DivMod, Zenon DEF FnInSchedulingPeriod
<1>. QED BY <1>2, <1>3, Zenon

\* The period counts its subframes from 0.
LEMMA PlaceInPeriod ==
  ASSUME NEW t \in Nat
  PROVE  /\ SfPerFrame * MchSchedPeriod \in Nat \ {0}
         /\ t % (SfPerFrame * MchSchedPeriod) = SfPerFrame * FnInSchedulingPeriod(t) + Sf(t)
<1>. DEFINE S == SfPerFrame
            P == MchSchedPeriod
            b == S * P
            f == FnInSchedulingPeriod(t)
            q == Sfn(t) \div P
            r == S * f + Sf(t)
<1>1. S \in Nat \ {0} /\ P \in Nat \ {0}
  BY PeriodAssumption
<1>2. /\ Sf(t) \in 0 .. S - 1 /\ f \in 0 .. P - 1 /\ q \in Nat
      /\ t = S * Sfn(t) + Sf(t) /\ Sfn(t) = P * q + f
  BY Parts, Zenon
<1>. HIDE DEF S, P, f, q
<1>3. b \in Nat \ {0}
  BY <1>1
<1>4. t = b * q + r
  <2>1. S * (P * q + f) = (S * P) * q + S * f
    BY <1>1, <1>2
  <2>. QED BY <1>1, <1>2, <2>1
<1>5. r \in 0 .. b - 1
  <2>1. S * f <= S * (P - 1) /\ S * (P - 1) = b - S /\ S * f \in Nat
    BY <1>1, <1>2
  <2>. QED BY <1>1, <1>2, <1>3, <2>1
<1>. HIDE DEF b, r
<1>6. (b * q + r) % b = r
  BY <1>2, <1>3, <1>5, DivModUnique, Zenon
<1>. QED BY <1>3, <1>4, <1>6 DEF b, r, S, P, f

\* From one subframe to the next, up to the end of the frame, the period and
\* the frame counter.
LEMMA NextSubframe ==
  ASSUME NEW t \in Ttis
  PROVE  LET u == NextTti(t)
         IN  /\ u \in Ttis
             /\ \/ /\ Sf(t) # SfPerFrame - 1 /\ Sf(u) = Sf(t) + 1
                   /\ FnInSchedulingPeriod(u) = FnInSchedulingPeriod(t)
                \/ /\ Sf(t) = SfPerFrame - 1 /\ Sf(u) = 0
                   /\ FnInSchedulingPeriod(t) # MchSchedPeriod - 1
                   /\ FnInSchedulingPeriod(u) = FnInSchedulingPeriod(t) + 1
                \/ /\ Sf(t) = SfPerFrame - 1 /\ Sf(u) = 0
                   /\ FnInSchedulingPeriod(t) = MchSchedPeriod - 1
                   /\ FnInSchedulingPeriod(u) = 0
<1>. DEFINE u == NextTti(t)
            f == FnInSchedulingPeriod(t)
<1>1. /\ SfPerFrame \in Nat \ {0} /\ MchSchedPeriod \in Nat \ {0}
      /\ TtiMod \in Nat \ {0} /\ t \in Nat /\ t < TtiMod
  BY PeriodAssumption, CycleAssumption DEF Ttis
<1>2. /\ Sfn(t) \in Nat /\ Sf(t) \in 0 .. SfPerFrame - 1 /\ f \in 0 .. MchSchedPeriod - 1
  BY <1>1, Parts, Zenon
<1>3. CASE t + 1 < TtiMod
  <2>1. u = t + 1
    BY <1>1, <1>3 DEF NextTti
  <2>2. IF Sf(t) = SfPerFrame - 1
        THEN Sfn(t + 1) = Sfn(t) + 1 /\ Sf(t + 1) = 0
        ELSE Sfn(t + 1) = Sfn(t) /\ Sf(t + 1) = Sf(t) + 1
    BY <1>1, DivModNext, Zenon DEF Sfn, Sf
  <2>3. IF f = MchSchedPeriod - 1
        THEN (Sfn(t) + 1) % MchSchedPeriod = 0
        ELSE (Sfn(t) + 1) % MchSchedPeriod = f + 1
    BY <1>1, <1>2, DivModNext, Zenon DEF FnInSchedulingPeriod
  <2>4. u \in Ttis
    BY <1>1, <1>3, <2>1 DEF Ttis
  <2>. QED BY <2>1, <2>2, <2>3, <2>4 DEF FnInSchedulingPeriod
<1>4. CASE t + 1 = TtiMod
  <2>. DEFINE b == SfPerFrame * MchSchedPeriod
  <2>1. b \in Nat \ {0} /\ t % b = SfPerFrame * f + Sf(t) /\ (t + 1) % b = 0
    BY <1>1, <1>4, PlaceInPeriod, CycleAssumption
  <2>. HIDE DEF b
  <2>2. t % b \in 0 .. b - 1 /\ (t % b # b - 1 => (t + 1) % b = (t % b) + 1)
    BY <1>1, <2>1, DivMod, DivModNext, Zenon
  <2>3. SfPerFrame * f + Sf(t) = b - 1
    BY <2>1, <2>2
  <2>4. f < MchSchedPeriod - 1 => SfPerFrame * f + SfPerFrame <= b - SfPerFrame
    <3>1. \A x, y, z \in Nat : x + 1 < z => y * x + y <= y * z - y
      OBVIOUS
    <3>. QED BY <1>1, <1>2, <3>1 DEF b
  <2>5. f = MchSchedPeriod - 1
    BY <1>1, <1>2, <2>1, <2>3, <2>4
  <2>6. SfPerFrame * (MchSchedPeriod - 1) = b - SfPerFrame
    BY <1>1 DEF b
  <2>7. Sf(t) = SfPerFrame - 1
    BY <1>1, <1>2, <2>1, <2>3, <2>5, <2>6
  <2>8. u = 0
    BY <1>1, <1>4 DEF NextTti
  <2>9. Sf(0) = 0 /\ Sfn(0) = 0 /\ FnInSchedulingPeriod(0) = 0
    BY <1>1 DEF Sf, Sfn, FnInSchedulingPeriod
  <2>. QED BY <1>1, <2>5, <2>7, <2>8, <2>9 DEF Ttis
<1>. QED BY <1>1, <1>3, <1>4 DEF u

-----------------------------------------------------------------------------
(* Counting PMCH subframes.                                                *)

\* Every scheduling period has its CAS at the same places.
CasAligned == MchSchedPeriod % CasFrames = 0

\* PMCH subframes of the period before t.
Ordinal(t) == IF IsCas(t) THEN SfIdx(t) + 1 ELSE SfIdx(t)

\* The index of the period's last PMCH subframe.
LastIdx == SfPerFrame * MchSchedPeriod - (MchSchedPeriod \div CasFrames) - 1

\* is_mch_subframe looks for the CAS in the frame counter; the frame's number
\* in its period says the same.
LEMMA CasInPeriod ==
  ASSUME CasAligned, NEW t \in Nat
  PROVE  IsCas(t) <=> FnInSchedulingPeriod(t) % CasFrames = 0 /\ Sf(t) = 0
<1>. DEFINE P == MchSchedPeriod
            C == CasFrames
            f == FnInSchedulingPeriod(t)
            q == Sfn(t) \div P
            m == P \div C
            d == f \div C
            e == f % C
<1>1. P \in Nat \ {0} /\ C \in Nat \ {0} /\ P % C = 0
  BY PeriodAssumption DEF CasAligned
<1>2. f \in 0 .. P - 1 /\ q \in Nat /\ Sfn(t) = P * q + f
  BY Parts, Zenon
<1>. HIDE DEF P, C, f, q
<1>3. m \in Nat /\ P = C * m + (P % C)
  BY <1>1, DivMod, Zenon
<1>4. f \in Nat
  BY <1>1, <1>2
<1>5. d \in Nat /\ e \in 0 .. C - 1 /\ f = C * d + e
  BY <1>1, <1>4, DivMod, Zenon
<1>. HIDE DEF m, d, e
<1>6. Sfn(t) = C * (m * q + d) + e /\ m * q + d \in Nat
  <2>1. P * q = C * (m * q)
    BY <1>1, <1>2, <1>3
  <2>2. m * q \in Nat
    BY <1>2, <1>3
  <2>3. C * (m * q + d) = C * (m * q) + C * d
    BY <1>1, <1>5, <2>2
  <2>. QED BY <1>1, <1>2, <1>5, <2>1, <2>2, <2>3
<1>7. (C * (m * q + d) + e) % C = e
  BY <1>1, <1>5, <1>6, DivModUnique, Zenon
<1>. QED BY <1>6, <1>7 DEF IsCas, C, e, f

\* Each PMCH subframe counts once, and a new period starts again at 0.
LEMMA NextOrdinal ==
  ASSUME CasAligned, NEW t \in Ttis
  PROVE  LET u == NextTti(t)
         IN  /\ u \in Ttis
             /\ u % (SfPerFrame * MchSchedPeriod) = 0 => Ordinal(u) = 0
             /\ u % (SfPerFrame * MchSchedPeriod) # 0 =>
                  Ordinal(u) = Ordinal(t) + (IF IsMbsfnSf(t) THEN 1 ELSE 0)
<1>. DEFINE S == SfPerFrame
            C == CasFrames
            u == NextTti(t)
            f == FnInSchedulingPeriod(t)
            g == FnInSchedulingPeriod(u)
<1>1. S \in Nat \ {0} /\ C \in Nat \ {0} /\ t \in Nat /\ MchSchedPeriod \in Nat
  BY PeriodAssumption, CycleAssumption DEF Ttis
<1>2. /\ u \in Ttis
      /\ \/ Sf(t) # S - 1 /\ Sf(u) = Sf(t) + 1 /\ g = f
         \/ Sf(t) = S - 1 /\ Sf(u) = 0 /\ g = f + 1
         \/ Sf(t) = S - 1 /\ Sf(u) = 0 /\ g = 0
  BY NextSubframe, Zenon
<1>3. u \in Nat
  BY <1>2 DEF Ttis
<1>. HIDE DEF u
<1>4. /\ Sf(t) \in 0 .. S - 1 /\ f \in 0 .. MchSchedPeriod - 1
      /\ Sf(u) \in 0 .. S - 1 /\ g \in 0 .. MchSchedPeriod - 1
  BY <1>1, <1>3, Parts, Zenon
<1>5. u % (S * MchSchedPeriod) = S * g + Sf(u)
  BY <1>3, PlaceInPeriod, Zenon
<1>6. /\ IsCas(t) <=> f % C = 0 /\ Sf(t) = 0
      /\ IsCas(u) <=> g % C = 0 /\ Sf(u) = 0
  BY <1>1, <1>3, CasInPeriod, Zenon
<1>7. /\ SfIdx(t) = f * S + Sf(t) - (f \div C) - 1
      /\ SfIdx(u) = g * S + Sf(u) - (g \div C) - 1
  BY DEF SfIdx
<1>. HIDE DEF f, g, S, C
<1>8. S * g + Sf(u) = 0 <=> g = 0 /\ Sf(u) = 0
  <2>1. S * g \in Nat /\ (g > 0 => S * g > 0)
    BY <1>1, <1>4
  <2>. QED BY <1>1, <1>4, <2>1
<1>9. f \in Nat /\ g \in Nat
  BY <1>1, <1>4
<1>10. f \div C \in Nat /\ g \div C \in Nat
  BY <1>1, <1>9, DivMod, Zenon
<1>11. IF f % C = C - 1
       THEN (f + 1) \div C = (f \div C) + 1 /\ (f + 1) % C = 0
       ELSE (f + 1) \div C = f \div C /\ (f + 1) % C = (f % C) + 1
  BY <1>1, <1>9, DivModNext, Zenon
<1>12. f % C \in 0 .. C - 1
  BY <1>1, <1>9, DivMod, Zenon
<1>13. ASSUME g = 0, Sf(u) = 0 PROVE Ordinal(u) = 0
  <2>1. 0 \div C = 0 /\ 0 % C = 0
    BY <1>1
  <2>. QED BY <1>1, <1>6, <1>7, <1>13, <2>1 DEF Ordinal
<1>14. ASSUME ~(g = 0 /\ Sf(u) = 0) PROVE Ordinal(u) = Ordinal(t) + (IF IsMbsfnSf(t) THEN 1 ELSE 0)
  <2>1. CASE Sf(u) = Sf(t) + 1 /\ g = f
    BY <1>1, <1>4, <1>6, <1>7, <1>9, <1>10, <2>1 DEF Ordinal, IsMbsfnSf
  <2>2. CASE Sf(t) = S - 1 /\ Sf(u) = 0 /\ g = f + 1
    <3>1. g * S = f * S + S /\ f * S \in Nat
      BY <1>1, <1>9, <2>2
    <3>. QED BY <1>1, <1>4, <1>6, <1>7, <1>9, <1>10, <1>11, <1>12, <2>2, <3>1 DEF Ordinal, IsMbsfnSf
  <2>. QED BY <1>2, <1>14, <2>1, <2>2
<1>. QED BY <1>2, <1>5, <1>8, <1>13, <1>14 DEF u, S, g

\* Every PMCH subframe of a period has an index of it.
LEMMA SfIdxBounds ==
  ASSUME CasAligned, NEW t \in Nat, ~IsCas(t)
  PROVE  SfIdx(t) \in 0 .. LastIdx
<1>. DEFINE S == SfPerFrame
            P == MchSchedPeriod
            C == CasFrames
            f == FnInSchedulingPeriod(t)
            m == P \div C
            d == f \div C
            e == f % C
<1>1. S \in Nat \ {0} /\ P \in Nat \ {0} /\ C \in Nat \ {0} /\ P % C = 0
  BY PeriodAssumption DEF CasAligned
<1>2. Sf(t) \in 0 .. S - 1 /\ f \in 0 .. P - 1
  BY Parts, Zenon
<1>3. f % C = 0 => Sf(t) > 0
  <2>1. f % C = 0 => Sf(t) # 0
    BY CasInPeriod, Zenon
  <2>. QED BY <1>1, <1>2, <2>1
<1>4. SfIdx(t) = f * S + Sf(t) - d - 1 /\ LastIdx = S * P - m - 1
  BY DEF SfIdx, LastIdx
<1>. HIDE DEF S, P, C, f
<1>5. m \in Nat /\ P = C * m + (P % C)
  BY <1>1, DivMod, Zenon
<1>6. f \in Nat
  BY <1>1, <1>2
<1>7. d \in Nat /\ e \in 0 .. C - 1 /\ f = C * d + e
  BY <1>1, <1>6, DivMod, Zenon
<1>8. f % C = e
  OBVIOUS
<1>. HIDE DEF m, d, e
<1>9. d <= f /\ (e # 0 => d < f)
  <2>1. C * d >= d
    BY <1>1, <1>7
  <2>. QED BY <1>1, <1>7, <2>1
<1>10. f * S >= f /\ f * S \in Nat
  BY <1>1, <1>6
<1>11. SfIdx(t) >= 0
  BY <1>1, <1>2, <1>3, <1>4, <1>6, <1>7, <1>8, <1>9, <1>10
<1>12. d < m
  <2>1. d >= m => C * d >= C * m
    BY <1>1, <1>5, <1>7
  <2>2. C * d < C * m /\ C * d \in Nat /\ C * m \in Nat
    BY <1>1, <1>2, <1>5, <1>7
  <2>3. ~(C * d >= C * m)
    BY <2>2
  <2>. QED BY <1>5, <1>7, <2>1, <2>3
<1>. DEFINE k == C * S - 1
<1>13. k \in Nat
  BY <1>1
<1>14. f * S + Sf(t) <= k * d + d + k
  <2>1. f <= C * d + (C - 1) /\ C * d \in Nat
    BY <1>1, <1>7
  <2>2. f * S <= (C * d + (C - 1)) * S
    BY <1>1, <1>6, <2>1
  <2>3. (C * d + (C - 1)) * S = k * d + d + k - (S - 1)
    BY <1>1, <1>7
  <2>. QED BY <1>1, <1>2, <1>7, <1>10, <1>13, <2>2, <2>3
<1>15. S * P = k * m + m
  BY <1>1, <1>5
<1>. HIDE DEF k
<1>16. k * d + k <= k * m /\ k * d \in Nat /\ k * m \in Nat
  <2>1. \A x, y \in Nat : x < y => k * x + k <= k * y
    BY <1>13
  <2>. QED BY <1>5, <1>7, <1>12, <1>13, <2>1
<1>. QED BY <1>1, <1>2, <1>4, <1>5, <1>7, <1>10, <1>11, <1>13, <1>14, <1>15, <1>16

\* Later PMCH subframes of a period have larger indices.
LEMMA SfIdxIncreases ==
  ASSUME CasAligned, NEW t \in Nat, NEW u \in Nat, ~IsCas(t), ~IsCas(u),
         t % (SfPerFrame * MchSchedPeriod) < u % (SfPerFrame * MchSchedPeriod)
  PROVE  SfIdx(t) < SfIdx(u)
<1>. DEFINE S == SfPerFrame
            C == CasFrames
            f == FnInSchedulingPeriod(t)
            g == FnInSchedulingPeriod(u)
            a == f \div C
            b == g \div C
<1>1. S \in Nat \ {0} /\ C \in Nat \ {0} /\ MchSchedPeriod \in Nat
  BY PeriodAssumption
<1>2. /\ Sf(t) \in 0 .. S - 1 /\ f \in 0 .. MchSchedPeriod - 1
      /\ Sf(u) \in 0 .. S - 1 /\ g \in 0 .. MchSchedPeriod - 1
  BY Parts, Zenon
<1>3. S * f + Sf(t) < S * g + Sf(u)
  BY PlaceInPeriod
<1>4. g % C = 0 => Sf(u) # 0
  BY CasInPeriod, Zenon
<1>5. SfIdx(t) = f * S + Sf(t) - a - 1 /\ SfIdx(u) = g * S + Sf(u) - b - 1
  BY DEF SfIdx
<1>. HIDE DEF S, C, f, g
<1>6. f \in Nat /\ g \in Nat
  BY <1>1, <1>2
<1>7. /\ a \in Nat /\ f % C \in 0 .. C - 1 /\ f = C * a + (f % C)
      /\ b \in Nat /\ g % C \in 0 .. C - 1 /\ g = C * b + (g % C)
  BY <1>1, <1>6, DivMod, Zenon
<1>8. f = g => a = b
  OBVIOUS
<1>. HIDE DEF a, b
<1>9. f <= g
  <2>1. f > g => S * f >= S * g + S
    BY <1>1, <1>6
  <2>2. S * f \in Nat /\ S * g \in Nat
    BY <1>1, <1>6
  <2>. QED BY <1>1, <1>2, <1>3, <1>6, <2>1, <2>2
<1>10. CASE f = g
  BY <1>1, <1>2, <1>3, <1>5, <1>6, <1>7, <1>8, <1>10
<1>11. CASE f < g
  <2>1. b - a <= g - f /\ (g % C # 0 => b - a < g - f)
    <3>1. CASE b <= a
      BY <1>6, <1>7, <1>11, <3>1
    <3>2. CASE b > a
      <4>. DEFINE x == b - a
      <4>1. x \in Nat /\ x >= 1
        BY <1>7, <3>2
      <4>2. C * b = C * a + C * x
        BY <1>1, <1>7
      <4>. HIDE DEF x
      <4>3. C * x >= C + (x - 1)
        <5>1. C * (x - 1) >= x - 1 /\ C * x = C * (x - 1) + C
          BY <1>1, <4>1
        <5>. QED BY <1>1, <4>1, <5>1
      <4>4. C * a \in Nat /\ C * x \in Nat
        BY <1>1, <1>7, <4>1
      <4>5. x <= g - f /\ (g % C # 0 => x < g - f)
        BY <1>1, <1>6, <1>7, <4>1, <4>2, <4>3, <4>4
      <4>. QED BY <4>5 DEF x
    <3>. QED BY <1>7, <3>1, <3>2
  <2>2. g * S >= f * S + S + (g - f - 1)
    <3>. DEFINE y == g - f - 1
    <3>1. y \in Nat /\ y * S >= y
      BY <1>1, <1>6, <1>11
    <3>2. g * S = f * S + S + y * S
      BY <1>1, <1>6
    <3>. QED BY <1>1, <1>6, <3>1, <3>2
  <2>3. f * S \in Nat /\ g * S \in Nat
    BY <1>1, <1>6
  <2>. QED BY <1>1, <1>2, <1>4, <1>5, <1>6, <1>7, <1>11, <2>1, <2>2, <2>3
<1>. QED BY <1>6, <1>9, <1>10, <1>11

-----------------------------------------------------------------------------
(* Numbers and coding schemes.                                             *)

\* sf_idx of is_mch_subframe is the ordinal of a PMCH subframe in its
\* scheduling period, for every frame, period and CAS spacing in which the
\* period holds a whole number of CAS.
THEOREM SfIdxIsOrdinal == CasAligned => (Walk => []SfIdxCounts)
<1>. SUFFICES ASSUME CasAligned PROVE Walk => []SfIdxCounts
  OBVIOUS
<1>. DEFINE Inv == tti \in Ttis /\ idx = Ordinal(tti)
<1>1. tti = 0 /\ idx = 0 => Inv
  <2>1. 0 \in Nat /\ 0 \in Ttis /\ 0 \div CasFrames = 0 /\ 0 % CasFrames = 0
    BY PeriodAssumption, CycleAssumption DEF Ttis
  <2>2. Sf(0) = 0 /\ FnInSchedulingPeriod(0) = 0
    BY PeriodAssumption DEF Sf, Sfn, FnInSchedulingPeriod
  <2>3. IsCas(0)
    BY <2>1, <2>2, CasInPeriod
  <2>4. SfIdx(0) = -1
    BY <2>1, <2>2, PeriodAssumption DEF SfIdx
  <2>. QED BY <2>1, <2>3, <2>4 DEF Ordinal
<1>2. Inv /\ [Subframe]_<<tti, idx>> => Inv'
  <2>1. ASSUME Inv, Subframe PROVE Inv'
    <3>1. tti' = NextTti(tti)
      BY <2>1 DEF Subframe, NextTti
    <3>2. /\ tti' \in Ttis
          /\ tti' % (SfPerFrame * MchSchedPeriod) = 0 => Ordinal(tti') = 0
          /\ tti' % (SfPerFrame * MchSchedPeriod) # 0 =>
               Ordinal(tti') = Ordinal(tti) + (IF IsMbsfnSf(tti) THEN 1 ELSE 0)
      BY <2>1, <3>1, NextOrdinal
    <3>3. Ordinal(tti) + 0 = Ordinal(tti)
      <4>1. /\ tti \in Nat /\ SfPerFrame \in Nat /\ CasFrames \in Nat \ {0} /\ MchSchedPeriod \in Nat
        BY <2>1, PeriodAssumption, CycleAssumption DEF Ttis
      <4>2. Sf(tti) \in Nat /\ FnInSchedulingPeriod(tti) \in Nat
        BY <4>1, Parts
      <4>3. FnInSchedulingPeriod(tti) \div CasFrames \in Nat
        BY <4>1, <4>2, DivMod, Zenon
      <4>4. SfIdx(tti) \in Int
        BY <4>1, <4>2, <4>3 DEF SfIdx
      <4>. QED BY <4>4 DEF Ordinal
    <3>. QED BY <2>1, <3>2, <3>3 DEF Subframe
  <2>2. ASSUME Inv, UNCHANGED <<tti, idx>> PROVE Inv'
    BY <2>2
  <2>. QED BY <2>1, <2>2
<1>3. Inv => SfIdxCounts
  BY DEF SfIdxCounts, Ordinal, IsMbsfnSf
<1>. QED BY <1>1, <1>2, <1>3, PTL DEF Walk

\* The MCCH is sent in the first PMCH subframe of every scheduling period.
McchComesFirst == McchOffset = 0 /\ MchSchedPeriod % McchPeriod = 0 /\ 1 \in McchTable

\* The PMCH has all subframes of the period.
WholePeriod == SfAllocEnd >= LastIdx

\* Then PHY encodes a block in every PMCH subframe.
LEMMA WithinPmch ==
  ASSUME CasAligned, WholePeriod, NEW t \in Nat, IsMbsfnSf(t)
  PROVE  SfIdx(t) <= SfAllocEnd /\ PmchEnabled(t)
<1>1. SfIdx(t) \in 0 .. LastIdx
  BY SfIdxBounds DEF IsMbsfnSf
<1>2. LastIdx \in Int
  <2>1. SfPerFrame * MchSchedPeriod \in Nat /\ MchSchedPeriod \in Nat /\ CasFrames \in Nat \ {0}
    BY PeriodAssumption
  <2>2. MchSchedPeriod \div CasFrames \in Nat
    BY <2>1, DivMod, Zenon
  <2>. QED BY <2>1, <2>2 DEF LastIdx
<1>3. SfIdx(t) <= SfAllocEnd
  BY <1>1, <1>2, PeriodAssumption DEF WholePeriod
<1>. QED BY <1>3 DEF PmchEnabled

\* PHY encodes every PMCH subframe with the scheme MAC sized its block for, in
\* every configuration whose MCCH comes first in each scheduling period and
\* whose PMCH has the whole period.
THEOREM McsAlwaysAgrees ==
  CasAligned /\ McchComesFirst /\ WholePeriod => (Walk => []McsAgrees)
<1>. SUFFICES ASSUME CasAligned, McchComesFirst, WholePeriod PROVE Walk => []McsAgrees
  OBVIOUS
<1>. DEFINE Inv == tti \in Ttis
<1>1. tti = 0 => Inv
  BY CycleAssumption DEF Ttis
<1>2. Inv /\ [Subframe]_<<tti, idx>> => Inv'
  BY CycleAssumption DEF Subframe, Ttis
<1>3. Inv => McsAgrees
  <2>. SUFFICES ASSUME tti \in Ttis, IsMbsfnSf(tti)
                PROVE  PmchEnabled(tti) /\ MbsfnMcs(tti) = MacMcs(tti)
    BY DEF McsAgrees
  <2>1. tti \in Nat
    BY CycleAssumption DEF Ttis
  <2>2. SfIdx(tti) <= SfAllocEnd
    BY <2>1, WithinPmch
  <2>3. SignallingSf(tti) => IsMcch(tti)
    <3>. SUFFICES ASSUME FnInSchedulingPeriod(tti) = 0, Sf(tti) = 1 PROVE IsMcch(tti)
      BY DEF SignallingSf
    <3>. DEFINE P == MchSchedPeriod
                M == McchPeriod
                q == Sfn(tti) \div P
                k == P \div M
    <3>1. P \in Nat \ {0} /\ M \in Nat \ {0} /\ P % M = 0
      BY PeriodAssumption DEF McchComesFirst
    <3>2. q \in Nat /\ Sfn(tti) = P * q + 0
      BY <2>1, Parts, Zenon
    <3>. HIDE DEF P, M, q
    <3>3. k \in Nat /\ P = M * k + (P % M)
      BY <3>1, DivMod, Zenon
    <3>. HIDE DEF k
    <3>4. Sfn(tti) = M * (k * q) + 0 /\ k * q \in Nat /\ 0 \in 0 .. M - 1
      BY <3>1, <3>2, <3>3
    <3>5. (M * (k * q) + 0) % M = 0
      BY <3>1, <3>4, DivModUnique, Zenon
    <3>6. McchPeriod % 256 = M
      BY PeriodAssumption DEF M
    <3>7. Sfn(tti) % (McchPeriod % 256) = 0
      BY <3>4, <3>5, <3>6
    <3>. QED BY <3>7 DEF IsMcch, McchComesFirst
  <2>4. CASE IsMcch(tti)
    BY <2>4 DEF PmchEnabled, MbsfnMcs, MacMcs
  <2>5. CASE ~IsMcch(tti)
    BY <2>2, <2>3, <2>5 DEF PmchEnabled, MbsfnMcs, MacMcs
  <2>. QED BY <2>4, <2>5
<1>. QED BY <1>1, <1>2, <1>3, PTL DEF Walk

-----------------------------------------------------------------------------
(* The invariant: types, and what is known of the data.                    *)

\* Where a worker may be.
Pcs == {"idle", "mcch", "plan", "start", "mtch", "read", "report", "pdu", "generate",
        "count", "increment", "encode", "end"}

\* Transport blocks.
Blocks == [kind : {"none", "msi", "mtch"}, stop : 0 .. MaxStop, units : Seq(Units)]

\* Values of current_sf_allocation_num, as bounded by the model.
SfCounts == 0 .. MaxStop + 1

\* Subframes for which get_mch_sched asks RLC.
IsMtch(t) == IsMbsfnSf(t) /\ ~IsMcch(t)

\* RLC and what it has reported, MAC's structures, the workers, the air.
RlcTypes ==
  /\ rlc \in Seq(Units) /\ Len(rlc) <= MaxQueue
  /\ written \in 0 .. MaxUnits /\ reporting \in BOOLEAN
  /\ lcid_buffer_size \in 0 .. MaxQueue

MacTypes ==
  /\ stop \in 0 .. MaxStop /\ current_sf_allocation_num \in SfCounts
  /\ pdu \in [kind : {"none", "msi", "mtch"}, nbytes : 0 .. UnitsPerSf]
  /\ mtch_payload_buffer \in Seq(Units)
  /\ tx_payload_buffer \in [0 .. NOF_HARQ - 1 -> [tti : Ttis, block : Blocks]]

WorkerTypes ==
  /\ next_tti \in Ttis /\ tti_tx_dl \in [Workers -> Ttis] /\ pc \in [Workers -> Pcs]
  /\ total \in [Workers -> 0 .. MaxQueue]
  /\ requested \in [Workers -> 0 .. UnitsPerSf] /\ increment \in [Workers -> SfCounts]
  /\ received \in [Workers -> {u \in Seq(Units) : Len(u) <= UnitsPerSf}]
  /\ data \in [Workers -> BOOLEAN] /\ encoded \in [Workers -> Blocks]

AirTypes ==
  aired \in Seq(Units) /\ announced \in {None} \cup 0 .. MaxStop

\* The strengthening of TypeOK that is inductive.
TypeInv == RlcTypes /\ MacTypes /\ WorkerTypes /\ AirTypes

\* The units on the air, with the worker and in RLC are those written, in order.
Stream(w) ==
  /\ written = Len(aired) + Len(received[w]) + Len(rlc)
  /\ \A i \in 1 .. Len(aired) : aired[i] = i
  /\ \A i \in 1 .. Len(received[w]) : received[w][i] = Len(aired) + i
  /\ \A i \in 1 .. Len(rlc) : rlc[i] = Len(aired) + Len(received[w]) + i

\* The transport block of the worker's HARQ process.
TxBlock(w) == tx_payload_buffer[HarqPid(tti_tx_dl[w])].block

\* What the worker has read, and nothing else, is in the buffer its block is
\* made from and then in the block.
Block(w) ==
  /\ pc[w] \in {"idle", "mcch", "plan", "start", "mtch", "read"} => received[w] = <<>>
  /\ received[w] # <<>> => IsMtch(tti_tx_dl[w])
  /\ pc[w] \in {"mcch", "plan", "start"} => IsMbsfnSf(tti_tx_dl[w]) /\ IsMcch(tti_tx_dl[w])
  /\ pc[w] \in {"mtch", "read", "report", "pdu", "count", "increment"} => IsMtch(tti_tx_dl[w])
  /\ pc[w] \in {"report", "pdu", "generate"} =>
       /\ Len(received[w]) <= Len(mtch_payload_buffer)
       /\ \A i \in 1 .. Len(received[w]) : mtch_payload_buffer[i] = received[w][i]
  /\ pc[w] = "generate" =>
       /\ IsMbsfnSf(tti_tx_dl[w])
       /\ IsMcch(tti_tx_dl[w]) => pdu.kind = "msi"
       /\ ~IsMcch(tti_tx_dl[w]) => pdu.kind = "mtch" /\ pdu.nbytes = Len(received[w])
  /\ pc[w] \notin {"count", "increment", "encode", "end"} => ~data[w]
  /\ pc[w] \in {"count", "increment", "encode"} =>
       /\ data[w] => TxBlock(w).units = received[w]
       /\ ~data[w] => received[w] = <<>>
  /\ pc[w] = "end" =>
       encoded[w].units = IF PmchEnabled(tti_tx_dl[w]) THEN received[w] ELSE <<>>

-----------------------------------------------------------------------------
(* Operators of the model.                                                 *)

\* A full queue needs a number of subframes, and n units that fit into them
\* need no more.
LEMMA MaxStopType ==
  /\ MaxStop \in Nat
  /\ \A n \in 0 .. MaxQueue, x \in Nat : UnitsPerSf * x <= n + UnitsPerSf - 1 => x <= MaxStop
<1>. DEFINE U == UnitsPerSf
            s == (MaxQueue + U - 1) % U
<1>1. U \in Nat \ {0} /\ MaxQueue \in Nat /\ MaxQueue + U - 1 \in Nat
  BY SchedulingAssumption
<1>2. MaxStop \in Nat /\ s \in 0 .. U - 1 /\ MaxQueue + U - 1 = U * MaxStop + s
  BY <1>1, DivMod, Zenon DEF MaxStop
<1>. HIDE DEF U, s
<1>3. ASSUME NEW n \in 0 .. MaxQueue, NEW x \in Nat, U * x <= n + U - 1
      PROVE  x <= MaxStop
  <2>1. x > MaxStop => U * x >= U * MaxStop + U
    BY <1>1, <1>2
  <2>2. U * x \in Nat /\ U * MaxStop \in Nat
    BY <1>1, <1>2
  <2>. QED BY <1>1, <1>2, <1>3, <2>1, <2>2
<1>. QED BY <1>2, <1>3 DEF U

\* No stop of build_mch_sched exceeds what a full queue needs, whatever it read
\* first; a queue that it took to fit fits before the stop; and if the queue did
\* not shrink meanwhile, a total that fills the PMCH is given all of it.
LEMMA PlannedStopType ==
  ASSUME NEW c \in Nat, NEW n \in 0 .. MaxQueue
  PROVE  /\ PlannedStop(c, n) \in 0 .. MaxStop
         /\ c < SfAllocEnd * UnitsPerSf => n <= PlannedStop(c, n) * UnitsPerSf
         /\ c = 0 => n <= PlannedStop(c, n) * UnitsPerSf
         /\ c > 0 /\ c >= SfAllocEnd * UnitsPerSf /\ c <= n => PlannedStop(c, n) >= SfAllocEnd
<1>. DEFINE U == UnitsPerSf
            E == SfAllocEnd
            q == (n + U - 1) \div U
            r == (n + U - 1) % U
            k == n \div c
<1>1. U \in Nat \ {0} /\ E \in Nat /\ MaxQueue \in Nat /\ n \in Nat /\ n + U - 1 \in Nat /\ E * U \in Nat
  BY SchedulingAssumption, PeriodAssumption
<1>2. /\ q \in Nat /\ r \in 0 .. U - 1
      /\ n + U - 1 = U * q + r
  BY <1>1, DivMod, Zenon
<1>3. PlannedStop(c, n) = IF c > 0 /\ c >= E * U THEN E * k ELSE q
  BY DEF PlannedStop
<1>4. ASSUME c > 0
      PROVE  k \in Nat /\ c * k <= n /\ (c <= n => k >= 1)
  <2>1. k \in Nat /\ n % c \in 0 .. c - 1 /\ n = c * k + (n % c)
    BY <1>1, <1>4, DivMod
  <2>. HIDE DEF k
  <2>2. c * k \in Nat /\ (k = 0 => c * k = 0)
    BY <2>1
  <2>. QED BY <1>1, <1>4, <2>1, <2>2
<1>. HIDE DEF U, E, q, r, k
<1>5. n <= q * U
  <2>1. U * q \in Nat /\ q * U = U * q
    BY <1>1, <1>2
  <2>. QED BY <1>1, <1>2, <2>1
<1>6. q <= MaxStop
  <2>1. U * q <= n + U - 1
    <3>1. U * q \in Nat
      BY <1>1, <1>2
    <3>. QED BY <1>1, <1>2, <3>1
  <2>. QED BY <1>2, <2>1, MaxStopType DEF U
<1>7. ASSUME c > 0, c >= E * U
      PROVE  E * k \in Nat /\ E * k <= MaxStop /\ (c <= n => E * k >= E)
  <2>1. k \in Nat /\ c * k <= n /\ (c <= n => k >= 1)
    BY <1>4, <1>7
  <2>2. E * k \in Nat /\ (k >= 1 => E * k >= E)
    BY <1>1, <2>1
  <2>3. U * (E * k) <= c * k
    <3>1. U * (E * k) = (E * U) * k
      BY <1>1, <2>1
    <3>2. (E * U) * k <= c * k
      BY <1>1, <1>7, <2>1
    <3>. QED BY <3>1, <3>2
  <2>4. U * (E * k) \in Nat /\ c * k \in Nat
    BY <1>1, <2>1, <2>2
  <2>5. U * (E * k) <= n + U - 1
    BY <1>1, <2>1, <2>3, <2>4
  <2>. QED BY <2>1, <2>2, <2>5, MaxStopType DEF U
<1>8. PlannedStop(c, n) \in 0 .. MaxStop
  <2>1. PlannedStop(c, n) \in Nat /\ PlannedStop(c, n) <= MaxStop
    BY <1>2, <1>3, <1>6, <1>7
  <2>. QED BY <2>1, MaxStopType
<1>9. c < E * U \/ c = 0 => PlannedStop(c, n) = q
  BY <1>1, <1>3
<1>10. c > 0 /\ c >= E * U /\ c <= n => PlannedStop(c, n) >= E
  BY <1>3, <1>7
<1>. QED BY <1>5, <1>8, <1>9, <1>10 DEF U, E

\* A prefix and the rest of a sequence.
LEMMA Split ==
  ASSUME NEW S, NEW s \in Seq(S), NEW n \in 0 .. Len(s)
  PROVE  /\ SubSeq(s, 1, n) \in Seq(S) /\ Len(SubSeq(s, 1, n)) = n
         /\ \A i \in 1 .. n : SubSeq(s, 1, n)[i] = s[i]
         /\ SubSeq(s, n + 1, Len(s)) \in Seq(S)
         /\ Len(SubSeq(s, n + 1, Len(s))) = Len(s) - n
         /\ \A i \in 1 .. Len(s) - n : SubSeq(s, n + 1, Len(s))[i] = s[n + i]
OBVIOUS

\* The lengths of both parts.
LEMMA SplitLengths ==
  ASSUME NEW S, NEW s \in Seq(S), NEW n \in 0 .. Len(s)
  PROVE  Len(SubSeq(s, 1, n)) = n /\ Len(SubSeq(s, n + 1, Len(s))) = Len(s) - n
OBVIOUS

\* What is left of the buffer behind the units just read.
LEMMA Rest ==
  ASSUME NEW S, NEW s \in Seq(S), NEW n \in Nat
  PROVE  SubSeq(s, n + 1, Len(s)) \in Seq(S)
OBVIOUS

\* A sequence is the front of what starts with it.
LEMMA Front ==
  ASSUME NEW S, NEW s \in Seq(S), NEW r \in Seq(S)
  PROVE  Len(s) <= Len(s \o r) /\ \A i \in 1 .. Len(s) : (s \o r)[i] = s[i]
OBVIOUS

\* No data is the front of anything.
LEMMA Nothing ==
  ASSUME NEW S, NEW s \in Seq(S)
  PROVE  Len(<<>>) <= Len(s) /\ \A i \in 1 .. Len(<<>>) : s[i] = <<>>[i]
OBVIOUS

\* A prefix of a buffer that agrees with a sequence is that sequence.
LEMMA SamePrefix ==
  ASSUME NEW S, NEW s \in Seq(S), NEW u \in Seq(S), Len(u) <= Len(s),
         \A i \in 1 .. Len(u) : s[i] = u[i]
  PROVE  SubSeq(s, 1, Len(u)) = u
OBVIOUS

\* A block is of the user's HARQ processes.
LEMMA HarqPidType ==
  ASSUME NEW t \in Ttis
  PROVE  HarqPid(t) \in 0 .. NOF_HARQ - 1
BY SchedulingAssumption, CycleAssumption DEF HarqPid, Ttis

\* The table of MCCH subframes has no place for a CAS.
LEMMA McchIsMbsfn ==
  ASSUME NEW t, IsMcch(t)
  PROVE  IsMbsfnSf(t) /\ Sf(t) \in McchTable
<1>1. Sf(t) \in McchTable /\ McchTable \subseteq {1, 2, 3, 6, 7, 8}
  BY DEF IsMcch, McchTable
<1>2. Sf(t) # 0
  BY <1>1
<1>. QED BY <1>1, <1>2 DEF IsMbsfnSf, IsCas

-----------------------------------------------------------------------------
(* Types.                                                                  *)

\* Every variable starts with a value of its type.
LEMMA TypeInit == Init => TypeInv
<1>. SUFFICES ASSUME Init PROVE TypeInv
  OBVIOUS
<1>0. /\ UnitsPerSf \in Nat \ {0} /\ MaxUnits \in Nat /\ MaxQueue \in Nat
      /\ MaxStop \in Nat /\ TtiMod \in Nat \ {0}
  BY SchedulingAssumption, MaxStopType, CycleAssumption
<1>1. Empty \in Blocks /\ 0 \in Ttis
  BY <1>0 DEF Empty, Blocks, Ttis
<1>2. RlcTypes
  <2>1. rlc \in Seq(Units) /\ Len(rlc) <= MaxQueue /\ 0 \in 0 .. MaxUnits /\ 0 \in 0 .. MaxQueue
    BY <1>0 DEF Init
  <2>. QED BY <2>1, Zenon DEF Init, RlcTypes
<1>3. MacTypes
  BY <1>0, <1>1 DEF Init, MacTypes, SfCounts
<1>4. WorkerTypes
  <2>1. <<>> \in {u \in Seq(Units) : Len(u) <= UnitsPerSf} /\ 0 \in SfCounts
        /\ 0 \in 0 .. UnitsPerSf /\ 0 \in 0 .. MaxQueue /\ "idle" \in Pcs
    BY <1>0 DEF SfCounts, Pcs
  <2>. QED BY <1>1, <2>1, Zenon DEF Init, WorkerTypes, PerWorker
<1>5. AirTypes
  BY DEF Init, AirTypes
<1>. QED BY <1>2, <1>3, <1>4, <1>5 DEF TypeInv

\* The steps of the stack thread.
LEMMA StackTypes ==
  ASSUME TypeInv, WriteSdu \/ UpdateBsr
  PROVE  TypeInv'
<1>0. RlcTypes /\ MaxUnits \in Nat /\ MaxQueue \in Nat
  BY SchedulingAssumption DEF TypeInv
<1>1. RlcTypes'
  <2>1. CASE WriteSdu
    <3>1. CASE Len(rlc) < MaxQueue /\ written' = written + 1 /\ rlc' = Append(rlc, written')
      <4>1. written' \in Units /\ written' \in 0 .. MaxUnits
        BY <1>0, <2>1, <3>1 DEF WriteSdu, Units, RlcTypes
      <4>. QED BY <1>0, <2>1, <3>1, <4>1 DEF WriteSdu, RlcTypes
    <3>2. CASE UNCHANGED <<written, rlc>>
      BY <1>0, <2>1, <3>2 DEF WriteSdu, RlcTypes
    <3>. QED BY <2>1, <3>1, <3>2 DEF WriteSdu
  <2>2. CASE UpdateBsr
    <3>1. lcid_buffer_size' \in 0 .. MaxQueue
      BY <1>0, <2>2 DEF UpdateBsr, RlcTypes
    <3>. QED BY <1>0, <2>2, <3>1, Zenon DEF UpdateBsr, RlcTypes
  <2>. QED BY <2>1, <2>2
<1>2. UNCHANGED <<planVars, bufVars, workerVars, pc, localVars, airVars>>
  BY Zenon DEF WriteSdu, UpdateBsr
<1>3. MacTypes' /\ WorkerTypes' /\ AirTypes'
  BY <1>2, Zenon DEF TypeInv, MacTypes, WorkerTypes, AirTypes, planVars, bufVars, workerVars,
     localVars, airVars
<1>. QED BY <1>1, <1>3 DEF TypeInv

\* A worker's program counter takes its values.
LEMMA GotoType ==
  ASSUME WorkerTypes, NEW w \in Workers, NEW label \in Pcs, Goto(w, label)
  PROVE  pc' \in [Workers -> Pcs]
BY Zenon DEF WorkerTypes, Goto

\* The steps of a PHY worker on its way through get_mch_sched, the encoder and
\* worker_end.
LEMMA WorkerStepTypes ==
  ASSUME TypeInv, NEW w \in Workers, StartWorker(w) \/ Worker(w)
  PROVE  TypeInv'
<1>0. /\ UnitsPerSf \in Nat \ {0} /\ NOF_HARQ \in Nat \ {0} /\ MaxUnits \in Nat
      /\ MaxQueue \in Nat /\ MaxStop \in Nat /\ TtiMod \in Nat \ {0}
  BY SchedulingAssumption, MaxStopType, CycleAssumption
<1>t. RlcTypes /\ MacTypes /\ WorkerTypes /\ AirTypes
  BY DEF TypeInv
<1>u. \A x \in {"idle", "mcch", "plan", "start", "mtch", "read", "report", "pdu", "generate",
                "count", "increment", "encode", "end"} : Goto(w, x) => pc' \in [Workers -> Pcs]
  BY <1>t, GotoType, Zenon DEF Pcs
<1>1. CASE StartWorker(w)
  <2>1. next_tti' \in Ttis
    <3>1. next_tti \in Nat /\ next_tti' = (next_tti + 1) % TtiMod
      BY <1>0, <1>1, <1>t DEF WorkerTypes, Ttis, StartWorker
    <3>. QED BY <1>0, <3>1 DEF Ttis
  <2>2. tti_tx_dl' \in [Workers -> Ttis]
    BY <1>1, <1>t, Zenon DEF StartWorker, WorkerTypes
  <2>3. pc' \in [Workers -> Pcs]
    BY <1>1, <1>u DEF StartWorker
  <2>. QED BY <1>1, <1>t, <2>1, <2>2, <2>3, Zenon
           DEF StartWorker, rlcVars, planVars, bufVars, localVars, airVars,
               TypeInv, RlcTypes, MacTypes, WorkerTypes, AirTypes
<1>2. CASE TotalBytes(w)
  <2>1. total' \in [Workers -> 0 .. MaxQueue]
    BY <1>2, <1>t, Zenon DEF TotalBytes, RlcTypes, WorkerTypes
  <2>2. stop' \in 0 .. MaxStop
    BY <1>0, <1>2 DEF TotalBytes
  <2>3. pc' \in [Workers -> Pcs]
    BY <1>2, <1>u, Zenon DEF TotalBytes
  <2>. QED BY <1>2, <1>t, <2>1, <2>2, <2>3, Zenon
           DEF TotalBytes, rlcVars, bufVars, workerVars, airVars,
               TypeInv, RlcTypes, MacTypes, WorkerTypes, AirTypes
<1>2a. CASE BuildMchSched(w)
  <2>1. lcid_buffer_size \in 0 .. MaxQueue /\ total[w] \in Nat
    BY <1>0, <1>t DEF RlcTypes, WorkerTypes
  <2>2. stop' \in 0 .. MaxStop
    BY <1>2a, <2>1, PlannedStopType, Zenon DEF BuildMchSched
  <2>3. pc' \in [Workers -> Pcs]
    BY <1>2a, <1>u, Zenon DEF BuildMchSched
  <2>. QED BY <1>2a, <1>t, <2>2, <2>3, Zenon
           DEF BuildMchSched, rlcVars, bufVars, workerVars, localVars,
               TypeInv, RlcTypes, MacTypes, WorkerTypes, AirTypes
<1>2b. CASE StartPeriod(w)
  <2>1. pc' \in [Workers -> Pcs]
    BY <1>2b, <1>u, Zenon DEF StartPeriod
  <2>2. current_sf_allocation_num' \in SfCounts
    <3>1. current_sf_allocation_num' = 1
      BY <1>2b, Zenon DEF StartPeriod
    <3>. QED BY <1>0, <3>1 DEF SfCounts
  <2>3. pdu' \in [kind : {"none", "msi", "mtch"}, nbytes : 0 .. UnitsPerSf]
    <3>1. pdu' = [pdu EXCEPT !.kind = "msi"]
      BY <1>2b, Zenon DEF StartPeriod
    <3>. QED BY <1>t, <3>1 DEF MacTypes
  <2>. QED BY <1>2b, <1>t, <2>1, <2>2, <2>3, Zenon
           DEF StartPeriod, rlcVars, workerVars, localVars, airVars,
               TypeInv, RlcTypes, MacTypes, WorkerTypes, AirTypes
<1>3. CASE SelectMtch(w)
  <2>1. Least(UnitsPerSf, lcid_buffer_size) \in 0 .. UnitsPerSf
    BY <1>0, <1>t DEF RlcTypes, Least
  <2>2. requested' \in [Workers -> 0 .. UnitsPerSf]
    BY <1>3, <1>t, <2>1, Zenon DEF SelectMtch, WorkerTypes
  <2>3. pc' \in [Workers -> Pcs]
    BY <1>3, <1>u, Zenon DEF SelectMtch
  <2>. QED BY <1>3, <1>t, <2>2, <2>3, Zenon
           DEF SelectMtch, rlcVars, planVars, bufVars, workerVars, airVars,
               TypeInv, RlcTypes, MacTypes, WorkerTypes, AirTypes
<1>4. CASE ReadPdu(w)
  <2>. DEFINE n == Least(requested[w], Len(rlc))
  <2>1. n \in 0 .. Len(rlc) /\ n \in Nat /\ n <= UnitsPerSf
    BY <1>0, <1>t DEF Least, RlcTypes, WorkerTypes
  <2>2. /\ rlc' = SubSeq(rlc, n + 1, Len(rlc))
        /\ mtch_payload_buffer' = SubSeq(rlc, 1, n)
             \o SubSeq(mtch_payload_buffer, n + 1, Len(mtch_payload_buffer))
        /\ received' = [received EXCEPT ![w] = SubSeq(rlc, 1, n)]
    BY <1>4 DEF ReadPdu
  <2>. HIDE DEF n
  <2>3. /\ SubSeq(rlc, 1, n) \in Seq(Units) /\ Len(SubSeq(rlc, 1, n)) = n
        /\ SubSeq(rlc, n + 1, Len(rlc)) \in Seq(Units)
        /\ Len(SubSeq(rlc, n + 1, Len(rlc))) = Len(rlc) - n
    <3>1. rlc \in Seq(Units)
      BY <1>t DEF RlcTypes
    <3>. QED BY <2>1, <3>1, Split
  <2>4. rlc' \in Seq(Units) /\ Len(rlc') <= MaxQueue
    BY <1>0, <1>t, <2>1, <2>2, <2>3 DEF RlcTypes
  <2>5. mtch_payload_buffer' \in Seq(Units)
    <3>1. mtch_payload_buffer \in Seq(Units)
      BY <1>t DEF MacTypes
    <3>2. SubSeq(mtch_payload_buffer, n + 1, Len(mtch_payload_buffer)) \in Seq(Units)
      BY <2>1, <3>1, Rest
    <3>. QED BY <2>2, <2>3, <3>2
  <2>6. received' \in [Workers -> {u \in Seq(Units) : Len(u) <= UnitsPerSf}]
    <3>1. SubSeq(rlc, 1, n) \in {u \in Seq(Units) : Len(u) <= UnitsPerSf}
      BY <2>1, <2>3
    <3>. QED BY <1>t, <2>2, <3>1, Zenon DEF WorkerTypes
  <2>7. pc' \in [Workers -> Pcs]
    BY <1>4, <1>u, Zenon DEF ReadPdu
  <2>. QED BY <1>4, <1>t, <2>4, <2>5, <2>6, <2>7, Zenon
           DEF ReadPdu, planVars, workerVars, airVars,
               TypeInv, RlcTypes, MacTypes, WorkerTypes, AirTypes
<1>5. CASE ReadReport(w)
  <2>1. pc' \in [Workers -> Pcs]
    BY <1>5, <1>u, Zenon DEF ReadReport
  <2>2. lcid_buffer_size' \in 0 .. MaxQueue
    BY <1>0, <1>5, <1>t DEF ReadReport, RlcTypes
  <2>. QED BY <1>5, <1>t, <2>1, <2>2, Zenon
           DEF ReadReport, rlcVars, planVars, bufVars, workerVars, localVars, airVars,
               TypeInv, RlcTypes, MacTypes, WorkerTypes, AirTypes
<1>6. CASE SetPdu(w)
  <2>1. pc' \in [Workers -> Pcs]
    BY <1>6, <1>u, Zenon DEF SetPdu
  <2>2. Len(received[w]) \in 0 .. UnitsPerSf
    BY <1>0, <1>t DEF WorkerTypes
  <2>3. pdu' \in [kind : {"none", "msi", "mtch"}, nbytes : 0 .. UnitsPerSf]
    BY <1>6, <2>2 DEF SetPdu
  <2>. QED BY <1>6, <1>t, <2>1, <2>3, Zenon
           DEF SetPdu, rlcVars, planVars, workerVars, localVars, airVars,
               TypeInv, RlcTypes, MacTypes, WorkerTypes, AirTypes
<1>7. CASE GenerateMchPdu(w)
  <2>. DEFINE n == Least(pdu.nbytes, Len(mtch_payload_buffer))
              block == IF pdu.kind = "msi"
                       THEN [kind |-> "msi", stop |-> stop, units |-> <<>>]
                       ELSE [kind |-> "mtch", stop |-> 0,
                             units |-> SubSeq(mtch_payload_buffer, 1, n)]
  <2>1. n \in 0 .. Len(mtch_payload_buffer) /\ mtch_payload_buffer \in Seq(Units)
    BY <1>0, <1>t DEF Least, MacTypes
  <2>2. tx_payload_buffer' = [tx_payload_buffer EXCEPT ![HarqPid(tti_tx_dl[w])] =
                                [tti |-> tti_tx_dl[w], block |-> block]]
    BY <1>7, Zenon DEF GenerateMchPdu
  <2>. HIDE DEF n
  <2>3. SubSeq(mtch_payload_buffer, 1, n) \in Seq(Units)
    BY <2>1, Split
  <2>4. block \in Blocks
    BY <1>0, <1>t, <2>3 DEF Blocks, MacTypes
  <2>. HIDE DEF block
  <2>5. tx_payload_buffer' \in [0 .. NOF_HARQ - 1 -> [tti : Ttis, block : Blocks]]
    <3>1. [tti |-> tti_tx_dl[w], block |-> block] \in [tti : Ttis, block : Blocks]
      BY <1>t, <2>4 DEF WorkerTypes
    <3>. QED BY <1>t, <2>2, <3>1, Zenon DEF MacTypes
  <2>6. data' \in [Workers -> BOOLEAN]
    BY <1>7, <1>t, Zenon DEF GenerateMchPdu, WorkerTypes
  <2>7. pc' \in [Workers -> Pcs]
    BY <1>7, <1>u DEF GenerateMchPdu
  <2>. QED BY <1>7, <1>t, <2>5, <2>6, <2>7, Zenon
           DEF GenerateMchPdu, rlcVars, planVars, workerVars, airVars,
               TypeInv, RlcTypes, MacTypes, WorkerTypes, AirTypes
<1>8. CASE CountRead(w)
  <2>1. increment' \in [Workers -> SfCounts]
    BY <1>8, <1>t, Zenon DEF CountRead, MacTypes, WorkerTypes
  <2>2. pc' \in [Workers -> Pcs]
    BY <1>8, <1>u, Zenon DEF CountRead
  <2>. QED BY <1>8, <1>t, <2>1, <2>2, Zenon
           DEF CountRead, rlcVars, planVars, bufVars, workerVars, airVars,
               TypeInv, RlcTypes, MacTypes, WorkerTypes, AirTypes
<1>9. CASE CountWrite(w)
  <2>1. current_sf_allocation_num' \in SfCounts
    <3>1. increment[w] \in 0 .. MaxStop + 1
      BY <1>t DEF WorkerTypes, SfCounts
    <3>2. current_sf_allocation_num' = Least(increment[w] + 1, MaxStop + 1)
      BY <1>9, Zenon DEF CountWrite
    <3>. QED BY <1>0, <3>1, <3>2 DEF SfCounts, Least
  <2>2. pc' \in [Workers -> Pcs]
    BY <1>9, <1>u, Zenon DEF CountWrite
  <2>. QED BY <1>9, <1>t, <2>1, <2>2, Zenon
           DEF CountWrite, rlcVars, bufVars, workerVars, localVars, airVars,
               TypeInv, RlcTypes, MacTypes, WorkerTypes, AirTypes
<1>10. CASE EncodePmch(w)
  <2>1. tx_payload_buffer[HarqPid(tti_tx_dl[w])].block \in Blocks
    <3>1. HarqPid(tti_tx_dl[w]) \in 0 .. NOF_HARQ - 1
      BY <1>t, HarqPidType DEF WorkerTypes
    <3>. QED BY <1>t, <3>1 DEF MacTypes
  <2>2. Empty \in Blocks
    BY <1>0 DEF Empty, Blocks
  <2>3. encoded' \in [Workers -> Blocks]
    BY <1>10, <1>t, <2>1, <2>2, Zenon DEF EncodePmch, WorkerTypes
  <2>4. pc' \in [Workers -> Pcs]
    BY <1>10, <1>u, Zenon DEF EncodePmch
  <2>. QED BY <1>10, <1>t, <2>3, <2>4, Zenon
           DEF EncodePmch, rlcVars, planVars, bufVars, workerVars, airVars,
               TypeInv, RlcTypes, MacTypes, WorkerTypes, AirTypes
<1>11. CASE WorkerEnd(w)
  <2>1. encoded[w].units \in Seq(Units) /\ encoded[w].stop \in 0 .. MaxStop
    BY <1>t DEF Blocks, WorkerTypes
  <2>2. aired' \in Seq(Units) /\ announced' \in {None} \cup 0 .. MaxStop
    BY <1>11, <1>t, <2>1 DEF WorkerEnd, AirTypes
  <2>3. pc' \in [Workers -> Pcs]
    BY <1>11, <1>u, Zenon DEF WorkerEnd
  <2>4. /\ Empty \in Blocks /\ 0 \in Ttis /\ 0 \in SfCounts /\ 0 \in 0 .. UnitsPerSf
        /\ 0 \in 0 .. MaxQueue /\ <<>> \in {u \in Seq(Units) : Len(u) <= UnitsPerSf}
    BY <1>0 DEF Empty, Blocks, Ttis, SfCounts
  <2>5. /\ total' \in [Workers -> 0 .. MaxQueue] /\ requested' \in [Workers -> 0 .. UnitsPerSf]
        /\ increment' \in [Workers -> SfCounts]
    BY <1>11, <1>t, <2>4, Zenon DEF WorkerEnd, WorkerTypes
  <2>6. received' \in [Workers -> {u \in Seq(Units) : Len(u) <= UnitsPerSf}]
    BY <1>11, <1>t, <2>4, Zenon DEF WorkerEnd, WorkerTypes
  <2>7. data' \in [Workers -> BOOLEAN]
    BY <1>11, <1>t, Zenon DEF WorkerEnd, WorkerTypes
  <2>8. encoded' \in [Workers -> Blocks] /\ tti_tx_dl' \in [Workers -> Ttis]
    BY <1>11, <1>t, <2>4, Zenon DEF WorkerEnd, WorkerTypes
  <2>. QED BY <1>11, <1>t, <2>2, <2>3, <2>5, <2>6, <2>7, <2>8, Zenon
           DEF WorkerEnd, rlcVars, planVars, bufVars,
               TypeInv, RlcTypes, MacTypes, WorkerTypes, AirTypes
<1>. QED BY <1>1, <1>2, <1>2a, <1>2b, <1>3, <1>4, <1>5, <1>6, <1>7, <1>8, <1>9, <1>10, <1>11, Zenon DEF Worker

\* No step of any thread leaves the types.
LEMMA TypeStep == TypeInv /\ [Next]_vars => TypeInv'
<1>1. ASSUME TypeInv, Next PROVE TypeInv'
  BY <1>1, StackTypes, WorkerStepTypes, Zenon DEF Next
<1>2. ASSUME TypeInv, UNCHANGED vars PROVE TypeInv'
  BY <1>2, Zenon DEF vars, rlcVars, planVars, bufVars, workerVars, localVars, airVars,
     TypeInv, RlcTypes, MacTypes, WorkerTypes, AirTypes
<1>. QED BY <1>1, <1>2

\* TypeInv is TypeOK with bounds.
LEMMA TypeInvOK == TypeInv => TypeOK
BY DEF TypeOK, TypeInv, RlcTypes, MacTypes, WorkerTypes, AirTypes

-----------------------------------------------------------------------------
(* Data.                                                                   *)

\* There is no data at first.
LEMMA DataInit ==
  ASSUME Init, NEW w \in Workers
  PROVE  Stream(w) /\ Block(w)
<1>1. /\ pc[w] = "idle" /\ received[w] = <<>> /\ data[w] = FALSE /\ aired = <<>>
      /\ rlc = <<>> /\ written = 0
  BY Zenon DEF Init, PerWorker
<1>2. Stream(w)
  BY <1>1 DEF Stream
<1>3. Block(w)
  BY <1>1 DEF Block
<1>. QED BY <1>2, <1>3

\* A packet that RLC accepts is the next unit of the stream.
LEMMA StackData ==
  ASSUME TypeInv, NEW w \in Workers, Block(w), WriteSdu \/ UpdateBsr
  PROVE  Block(w)' /\ (Stream(w) => Stream(w)')
<1>1. UNCHANGED <<planVars, bufVars, workerVars, pc, localVars, airVars>>
  BY Zenon DEF WriteSdu, UpdateBsr
<1>2. Block(w)'
  BY <1>1, Zenon DEF Block, TxBlock, bufVars, workerVars, localVars
<1>3. ASSUME Stream(w), rlc' = Append(rlc, written + 1), written' = written + 1
      PROVE  Stream(w)'
  <2>. USE <1>3
  <2>1. rlc \in Seq(Units) /\ aired \in Seq(Units) /\ received[w] \in Seq(Units) /\ written \in Nat
    BY SchedulingAssumption DEF TypeInv, RlcTypes, WorkerTypes, AirTypes
  <2>2. /\ rlc' = Append(rlc, written + 1) /\ written' = written + 1
        /\ aired' = aired /\ received' = received
    BY <1>1, Zenon DEF localVars, airVars
  <2>3. /\ Len(rlc') = Len(rlc) + 1 /\ rlc'[Len(rlc) + 1] = written + 1
        /\ \A i \in 1 .. Len(rlc) : rlc'[i] = rlc[i]
    BY <2>1, <2>2
  <2>4. Len(rlc) \in Nat /\ Len(aired) \in Nat /\ Len(received[w]) \in Nat /\ written \in Nat
    BY <2>1
  <2>41. written = Len(aired) + Len(received[w]) + Len(rlc)
    BY DEF Stream
  <2>42. /\ Len(aired') = Len(aired) /\ Len(received'[w]) = Len(received[w])
         /\ Len(rlc') = Len(rlc) + 1 /\ rlc'[Len(rlc) + 1] = written + 1 /\ written' = written + 1
    BY <2>2, <2>3, Zenon
  <2>43. written + 1 = Len(aired) + Len(received[w]) + (Len(rlc) + 1)
    <3>. DEFINE a == Len(aired)
                r == Len(received[w])
                l == Len(rlc)
    <3>1. a \in Nat /\ r \in Nat /\ l \in Nat /\ written = a + r + l
      BY <2>4, <2>41, Zenon
    <3>. HIDE DEF a, r, l
    <3>2. written + 1 = a + r + (l + 1)
      BY <3>1
    <3>. QED BY <3>2, Zenon DEF a, r, l
  <2>5. ASSUME NEW i \in 1 .. Len(rlc')
        PROVE  rlc'[i] = Len(aired') + Len(received'[w]) + i
    <3>1. CASE i \in 1 .. Len(rlc)
      BY <2>2, <2>3, <3>1, Zenon DEF Stream
    <3>2. CASE i = Len(rlc) + 1
      BY <2>42, <2>43, <3>2, Zenon
    <3>. QED BY <2>3, <2>4, <2>5, <3>1, <3>2
  <2>6. written' = Len(aired') + Len(received'[w]) + Len(rlc')
    BY <2>42, <2>43, Zenon
  <2>. QED BY <2>2, <2>5, <2>6, Zenon DEF Stream
<1>4. ASSUME Stream(w), UNCHANGED <<rlc, written>>
      PROVE  Stream(w)'
  BY <1>1, <1>4, Zenon DEF Stream, localVars, airVars
<1>5. \/ rlc' = Append(rlc, written + 1) /\ written' = written + 1
      \/ UNCHANGED <<rlc, written>>
  BY Zenon DEF WriteSdu, UpdateBsr
<1>. QED BY <1>2, <1>3, <1>4, <1>5, Zenon

\* Where a worker goes.
LEMMA GotoAt ==
  ASSUME TypeInv, NEW w \in Workers, NEW label, Goto(w, label)
  PROVE  pc'[w] = label
BY Zenon DEF TypeInv, WorkerTypes, Goto

\* A step that moves no data and leaves the buffer alone.
LEMMA StreamUnchanged ==
  ASSUME NEW w \in Workers, Stream(w), UNCHANGED <<rlc, written, aired, received>>
  PROVE  Stream(w)'
BY Zenon DEF Stream

\* What a worker takes from RLC is the next part of the stream.
LEMMA ReadPduData ==
  ASSUME TypeInv, NEW w \in Workers, Block(w), ReadPdu(w)
  PROVE  Block(w)' /\ (Stream(w) => Stream(w)')
<1>. DEFINE n == Least(requested[w], Len(rlc))
            a == Len(aired)
<1>1. /\ rlc \in Seq(Units) /\ aired \in Seq(Units) /\ mtch_payload_buffer \in Seq(Units)
      /\ requested[w] \in 0 .. UnitsPerSf /\ UnitsPerSf \in Nat /\ written \in Nat
      /\ received \in [Workers -> {u \in Seq(Units) : Len(u) <= UnitsPerSf}]
  BY SchedulingAssumption DEF TypeInv, RlcTypes, MacTypes, WorkerTypes, AirTypes
<1>2. n \in 0 .. Len(rlc) /\ n \in Nat /\ Len(rlc) \in Nat /\ a \in Nat
  BY <1>1 DEF Least
<1>3. /\ pc[w] = "read" /\ Goto(w, "report")
      /\ rlc' = SubSeq(rlc, n + 1, Len(rlc))
      /\ mtch_payload_buffer' = SubSeq(rlc, 1, n)
           \o SubSeq(mtch_payload_buffer, n + 1, Len(mtch_payload_buffer))
      /\ received' = [received EXCEPT ![w] = SubSeq(rlc, 1, n)]
      /\ UNCHANGED <<written, tti_tx_dl, data, aired>>
  BY Zenon DEF ReadPdu, At, workerVars, airVars
<1>. HIDE DEF n
<1>4. /\ Len(SubSeq(rlc, 1, n)) = n /\ \A i \in 1 .. n : SubSeq(rlc, 1, n)[i] = rlc[i]
      /\ SubSeq(rlc, 1, n) \in Seq(Units)
      /\ Len(rlc') = Len(rlc) - n /\ \A i \in 1 .. Len(rlc) - n : rlc'[i] = rlc[n + i]
  BY <1>1, <1>2, <1>3, Split, ZenonT(60)
<1>5. received'[w] = SubSeq(rlc, 1, n) /\ pc'[w] = "report"
  BY <1>1, <1>3, GotoAt, Zenon
<1>6. received[w] = <<>> /\ IsMtch(tti_tx_dl[w]) /\ ~data[w]
  BY <1>3 DEF Block
<1>7. ASSUME Stream(w)
      PROVE  /\ written = a + Len(rlc)
             /\ \A i \in 1 .. Len(rlc) : rlc[i] = a + i
  <2>1. Len(received[w]) = 0
    BY <1>6
  <2>. QED BY <1>1, <1>2, <1>7, <2>1 DEF Stream
<1>8. ASSUME Stream(w) PROVE Stream(w)'
  <2>0. written = a + Len(rlc) /\ \A i \in 1 .. Len(rlc) : rlc[i] = a + i
    BY <1>7, <1>8, Zenon
  <2>1. written = a + n + (Len(rlc) - n)
    BY <1>2, <2>0
  <2>2. \A i \in 1 .. n : rlc[i] = a + i
    BY <1>2, <2>0
  <2>3. \A i \in 1 .. Len(rlc) - n : rlc[n + i] = a + n + i
    BY <1>2, <2>0
  <2>. QED BY <1>3, <1>4, <1>5, <1>8, <2>1, <2>2, <2>3, ZenonT(60) DEF Stream
<1>9. /\ Len(received'[w]) <= Len(mtch_payload_buffer')
      /\ \A i \in 1 .. Len(received'[w]) : mtch_payload_buffer'[i] = received'[w][i]
  <2>1. SubSeq(mtch_payload_buffer, n + 1, Len(mtch_payload_buffer)) \in Seq(Units)
    BY <1>1, <1>2, Rest, Zenon
  <2>. DEFINE s == SubSeq(rlc, 1, n)
              r == SubSeq(mtch_payload_buffer, n + 1, Len(mtch_payload_buffer))
  <2>2. s \in Seq(Units) /\ r \in Seq(Units) /\ received'[w] = s /\ mtch_payload_buffer' = s \o r
    BY <1>3, <1>4, <1>5, <2>1, Zenon
  <2>. HIDE DEF s, r
  <2>3. Len(s) <= Len(s \o r) /\ \A i \in 1 .. Len(s) : (s \o r)[i] = s[i]
    BY <2>2, Front, Zenon
  <2>. QED BY <2>2, <2>3, Zenon
<1>10. Block(w)'
  BY <1>3, <1>5, <1>6, <1>9, Zenon DEF Block
<1>. QED BY <1>8, <1>10

\* The worker's block holds the data it read.
LEMMA GenerateData ==
  ASSUME TypeInv, NEW w \in Workers, Block(w), GenerateMchPdu(w)
  PROVE  Block(w)' /\ (Stream(w) => Stream(w)')
<1>. DEFINE n == Least(pdu.nbytes, Len(mtch_payload_buffer))
            block == IF pdu.kind = "msi"
                     THEN [kind |-> "msi", stop |-> stop, units |-> <<>>]
                     ELSE [kind |-> "mtch", stop |-> 0,
                           units |-> SubSeq(mtch_payload_buffer, 1, n)]
            t == tti_tx_dl[w]
<1>1. /\ pc[w] = "generate" /\ Goto(w, IF IsMcch(t) THEN "encode" ELSE "count")
      /\ tx_payload_buffer' = [tx_payload_buffer EXCEPT ![HarqPid(t)] =
                                 [tti |-> t, block |-> block]]
      /\ data' = [data EXCEPT ![w] = TRUE]
      /\ UNCHANGED <<rlc, written, aired, received, tti_tx_dl>>
  BY Zenon DEF GenerateMchPdu, At, rlcVars, workerVars, airVars
<1>2. /\ HarqPid(t) \in 0 .. NOF_HARQ - 1 /\ data'[w]
      /\ tx_payload_buffer \in [0 .. NOF_HARQ - 1 -> [tti : Ttis, block : Blocks]]
      /\ mtch_payload_buffer \in Seq(Units) /\ received[w] \in Seq(Units)
  BY <1>1, HarqPidType DEF TypeInv, MacTypes, WorkerTypes
<1>3. pc'[w] = IF IsMcch(t) THEN "encode" ELSE "count"
  BY <1>1, GotoAt, Zenon
<1>4. tx_payload_buffer'[HarqPid(t)].block = block
  <2>1. tx_payload_buffer'[HarqPid(t)] = [tti |-> t, block |-> block]
    BY <1>1, <1>2, Zenon
  <2>. HIDE DEF block, t
  <2>. QED BY <2>1
<1>5. TxBlock(w)' = block
  BY <1>1, <1>4, Zenon DEF TxBlock
<1>6. block.units = received[w]
  <2>1. CASE IsMcch(t)
    <3>1. pdu.kind = "msi" /\ received[w] = <<>>
      BY <1>1, <2>1, Zenon DEF Block, IsMtch
    <3>. QED BY <3>1
  <2>2. CASE ~IsMcch(t)
    <3>1. /\ pdu.kind = "mtch" /\ pdu.nbytes = Len(received[w])
          /\ Len(received[w]) <= Len(mtch_payload_buffer)
          /\ \A i \in 1 .. Len(received[w]) : mtch_payload_buffer[i] = received[w][i]
      BY <1>1, <2>2 DEF Block
    <3>2. n = Len(received[w])
      BY <1>2, <3>1 DEF Least
    <3>. HIDE DEF n
    <3>3. SubSeq(mtch_payload_buffer, 1, n) = received[w]
      BY <1>2, <3>1, <3>2, SamePrefix
    <3>. QED BY <3>1, <3>3
  <2>. QED BY <2>1, <2>2
<1>7. ~IsMcch(t) => IsMtch(t)
  BY <1>1, Zenon DEF Block, IsMtch
<1>8. received[w] # <<>> => IsMtch(t)
  BY Zenon DEF Block
<1>. HIDE DEF block
<1>9. Block(w)'
  BY <1>1, <1>2, <1>3, <1>5, <1>6, <1>7, <1>8, Zenon DEF Block
<1>. QED BY <1>1, <1>9, StreamUnchanged

\* After worker_end the worker holds nothing.
LEMMA WorkerEndBlock ==
  ASSUME TypeInv, NEW w \in Workers, Block(w), WorkerEnd(w)
  PROVE  Block(w)'
<1>1. pc'[w] = "idle" /\ received'[w] = <<>> /\ data'[w] = FALSE
  BY GotoAt, Zenon DEF WorkerEnd, TypeInv, WorkerTypes
<1>. QED BY <1>1 DEF Block

\* What the worker read goes out next in the stream, if the PMCH has the whole
\* period.
LEMMA WorkerEndStream ==
  ASSUME CasAligned, WholePeriod, TypeInv, NEW w \in Workers, Stream(w), Block(w), WorkerEnd(w)
  PROVE  Stream(w)'
<1>1. /\ pc[w] = "end" /\ Goto(w, "idle")
      /\ aired' = aired \o encoded[w].units
      /\ received' = [received EXCEPT ![w] = <<>>]
      /\ UNCHANGED <<rlc, written>>
  BY Zenon DEF WorkerEnd, At, rlcVars
<1>2. /\ rlc \in Seq(Units) /\ aired \in Seq(Units) /\ written \in Nat
      /\ received[w] \in Seq(Units)
  BY SchedulingAssumption DEF TypeInv, RlcTypes, WorkerTypes, AirTypes
<1>3. received[w] # <<>> => PmchEnabled(tti_tx_dl[w])
  <2>1. tti_tx_dl[w] \in Nat
    BY DEF TypeInv, WorkerTypes, Ttis
  <2>2. received[w] # <<>> => IsMbsfnSf(tti_tx_dl[w])
    BY Zenon DEF Block, IsMtch
  <2>. QED BY <2>1, <2>2, WithinPmch, Zenon
<1>4. received'[w] = <<>>
  BY <1>1, Zenon DEF TypeInv, WorkerTypes
<1>5. aired' = aired \o received[w]
  BY <1>1, <1>3, Zenon DEF Block
<1>6. /\ Len(rlc) \in Nat /\ Len(aired) \in Nat /\ Len(received[w]) \in Nat
      /\ Len(aired') = Len(aired) + Len(received[w]) /\ Len(received'[w]) = 0
      /\ \A i \in 1 .. Len(aired) : aired'[i] = aired[i]
      /\ \A i \in 1 .. Len(received[w]) : aired'[Len(aired) + i] = received[w][i]
  BY <1>2, <1>4, <1>5
<1>7. \A i \in 1 .. Len(aired') : aired'[i] = i
  <2>. SUFFICES ASSUME NEW i \in 1 .. Len(aired') PROVE aired'[i] = i
    OBVIOUS
  <2>1. CASE i <= Len(aired)
    BY <1>6, <2>1 DEF Stream
  <2>2. CASE i > Len(aired)
    <3>. DEFINE j == i - Len(aired)
    <3>1. j \in 1 .. Len(received[w]) /\ Len(aired) + j = i
      BY <1>6, <2>2
    <3>2. received[w][j] = Len(aired) + j
      BY <3>1, Zenon DEF Stream
    <3>3. aired'[Len(aired) + j] = received[w][j]
      BY <1>6, <3>1, Zenon
    <3>. QED BY <3>1, <3>2, <3>3, Zenon
  <2>. QED BY <1>6, <2>1, <2>2
<1>8. Stream(w)'
  <2>. DEFINE a == Len(aired)
              r == Len(received[w])
              l == Len(rlc)
  <2>0. a \in Nat /\ r \in Nat /\ l \in Nat /\ Len(aired') = a + r /\ Len(received'[w]) = 0
    BY <1>6, Zenon
  <2>4. written = a + r + l /\ \A i \in 1 .. l : rlc[i] = a + r + i
    BY Zenon DEF Stream
  <2>. HIDE DEF a, r, l
  <2>1. written = Len(aired') + Len(received'[w]) + l
    <3>1. written = a + r + l
      BY <2>4, Zenon
    <3>2. a + r + l = a + r + 0 + l
      BY <2>0
    <3>. QED BY <2>0, <3>1, <3>2, Zenon
  <2>2. \A i \in 1 .. Len(received'[w]) : FALSE
    BY <1>6
  <2>3. \A i \in 1 .. l : rlc[i] = Len(aired') + Len(received'[w]) + i
    BY <2>0, <2>4
  <2>. QED BY <1>1, <1>7, <2>1, <2>2, <2>3, Zenon DEF Stream, l
<1>. QED BY <1>8

\* The other steps move no data.
LEMMA OtherData ==
  ASSUME TypeInv, NEW w \in Workers, Block(w),
         \/ StartWorker(w) \/ TotalBytes(w) \/ BuildMchSched(w) \/ StartPeriod(w)
         \/ SelectMtch(w) \/ ReadReport(w) \/ SetPdu(w)
         \/ CountRead(w) \/ CountWrite(w) \/ EncodePmch(w)
  PROVE  Block(w)' /\ (Stream(w) => Stream(w)')
<1>1. UNCHANGED <<rlc, written, aired, received, data>>
  BY Zenon DEF StartWorker, TotalBytes, BuildMchSched, StartPeriod, SelectMtch, ReadReport, SetPdu,
     CountRead, CountWrite, EncodePmch, rlcVars, localVars, airVars
<1>2. Stream(w) => Stream(w)'
  BY <1>1, StreamUnchanged, Zenon
<1>3. CASE StartWorker(w)
  <2>1. /\ pc[w] = "idle" /\ tti_tx_dl'[w] = next_tti
        /\ pc'[w] = CASE ~IsMbsfnSf(next_tti) -> "encode"
                      [] IsMcch(next_tti)     -> "mcch"
                      [] OTHER                -> "mtch"
    BY <1>3, GotoAt, Zenon DEF StartWorker, At, TypeInv, WorkerTypes
  <2>2. received[w] = <<>> /\ ~data[w]
    BY <2>1, Zenon DEF Block
  <2>3. \/ pc'[w] = "encode"
        \/ pc'[w] = "mcch" /\ IsMbsfnSf(tti_tx_dl'[w]) /\ IsMcch(tti_tx_dl'[w])
        \/ pc'[w] = "mtch" /\ IsMtch(tti_tx_dl'[w])
    <3>1. CASE ~IsMbsfnSf(next_tti)
      BY <2>1, <3>1, McchIsMbsfn
    <3>2. CASE IsMbsfnSf(next_tti) /\ IsMcch(next_tti)
      BY <2>1, <3>2
    <3>3. CASE IsMbsfnSf(next_tti) /\ ~IsMcch(next_tti)
      BY <2>1, <3>3 DEF IsMtch
    <3>. QED BY <3>1, <3>2, <3>3, Zenon
  <2>. QED BY <1>1, <1>2, <2>2, <2>3, Zenon DEF Block
<1>4. CASE StartPeriod(w)
  <2>1. /\ pc[w] = "start" /\ pc'[w] = "generate" /\ pdu' = [pdu EXCEPT !.kind = "msi"]
        /\ UNCHANGED <<mtch_payload_buffer, tti_tx_dl>>
    BY <1>4, GotoAt, Zenon DEF StartPeriod, At, workerVars
  <2>2. pdu'.kind = "msi"
    BY <2>1 DEF TypeInv, MacTypes
  <2>3. received[w] = <<>> /\ ~data[w] /\ IsMbsfnSf(tti_tx_dl[w]) /\ IsMcch(tti_tx_dl[w])
    BY <2>1, Zenon DEF Block
  <2>4. /\ Len(received[w]) <= Len(mtch_payload_buffer)
        /\ \A i \in 1 .. Len(received[w]) : mtch_payload_buffer[i] = received[w][i]
    BY <2>3, Nothing, ZenonT(60) DEF TypeInv, MacTypes
  <2>. QED BY <1>1, <1>2, <2>1, <2>2, <2>3, <2>4, Zenon DEF Block
<1>4a. CASE TotalBytes(w) \/ BuildMchSched(w)
  <2>1. pc[w] \in {"mcch", "plan"} /\ pc'[w] \in {"plan", "start"} /\ tti_tx_dl' = tti_tx_dl
    BY <1>4a, GotoAt, Zenon DEF TotalBytes, BuildMchSched, At, workerVars
  <2>2. received[w] = <<>> /\ ~data[w] /\ IsMbsfnSf(tti_tx_dl[w]) /\ IsMcch(tti_tx_dl[w])
    BY <2>1, Zenon DEF Block
  <2>. QED BY <1>1, <1>2, <2>1, <2>2, Zenon DEF Block
<1>5. CASE SelectMtch(w)
  <2>1. pc[w] = "mtch" /\ pc'[w] \in {"read", "count"} /\ tti_tx_dl' = tti_tx_dl
    BY <1>5, GotoAt, Zenon DEF SelectMtch, At, workerVars
  <2>2. received[w] = <<>> /\ ~data[w] /\ IsMtch(tti_tx_dl[w])
    BY <2>1, Zenon DEF Block
  <2>. QED BY <1>1, <1>2, <2>1, <2>2, Zenon DEF Block
<1>6. CASE ReadReport(w)
  <2>1. /\ pc[w] = "report" /\ pc'[w] = "pdu"
        /\ UNCHANGED <<mtch_payload_buffer, tti_tx_dl>>
    BY <1>6, GotoAt, Zenon DEF ReadReport, At, bufVars, workerVars
  <2>2. /\ IsMtch(tti_tx_dl[w]) /\ ~data[w] /\ Len(received[w]) <= Len(mtch_payload_buffer)
        /\ \A i \in 1 .. Len(received[w]) : mtch_payload_buffer[i] = received[w][i]
    BY <2>1, Zenon DEF Block
  <2>. QED BY <1>1, <1>2, <2>1, <2>2, Zenon DEF Block
<1>7. CASE SetPdu(w)
  <2>1. /\ pc[w] = "pdu" /\ pc'[w] = IF received[w] # <<>> THEN "generate" ELSE "count"
        /\ pdu' = [kind |-> "mtch", nbytes |-> Len(received[w])]
        /\ UNCHANGED <<mtch_payload_buffer, tti_tx_dl>>
    BY <1>7, GotoAt, Zenon DEF SetPdu, At, workerVars
  <2>2. pdu'.kind = "mtch" /\ pdu'.nbytes = Len(received[w])
    <3>. DEFINE r == Len(received[w])
    <3>1. pdu' = [kind |-> "mtch", nbytes |-> r]
      BY <2>1, Zenon
    <3>. HIDE DEF r
    <3>2. pdu'.kind = "mtch" /\ pdu'.nbytes = r
      BY <3>1
    <3>. QED BY <3>2, Zenon DEF r
  <2>3. /\ IsMtch(tti_tx_dl[w]) /\ ~data[w] /\ Len(received[w]) <= Len(mtch_payload_buffer)
        /\ \A i \in 1 .. Len(received[w]) : mtch_payload_buffer[i] = received[w][i]
    BY <2>1, Zenon DEF Block
  <2>4. IsMbsfnSf(tti_tx_dl[w]) /\ ~IsMcch(tti_tx_dl[w])
    BY <2>3, Zenon DEF IsMtch
  <2>5. CASE received[w] # <<>>
    BY <1>1, <1>2, <2>1, <2>2, <2>3, <2>4, <2>5, Zenon DEF Block
  <2>6. CASE received[w] = <<>>
    BY <1>1, <1>2, <2>1, <2>3, <2>6, Zenon DEF Block
  <2>. QED BY <2>5, <2>6, Zenon
<1>8. CASE CountRead(w) \/ CountWrite(w)
  <2>1. /\ pc[w] \in {"count", "increment"} /\ pc'[w] \in {"increment", "encode"}
        /\ UNCHANGED <<tx_payload_buffer, tti_tx_dl>>
    BY <1>8, GotoAt, Zenon DEF CountRead, CountWrite, At, bufVars, workerVars
  <2>2. /\ IsMtch(tti_tx_dl[w]) /\ (data[w] => TxBlock(w).units = received[w])
        /\ (~data[w] => received[w] = <<>>)
    BY <2>1, Zenon DEF Block
  <2>3. TxBlock(w)' = TxBlock(w)
    BY <2>1, Zenon DEF TxBlock
  <2>. QED BY <1>1, <1>2, <2>1, <2>2, <2>3, Zenon DEF Block
<1>9. CASE EncodePmch(w)
  <2>1. /\ pc[w] = "encode" /\ pc'[w] = "end" /\ tti_tx_dl' = tti_tx_dl
        /\ encoded'[w] = IF data[w] /\ PmchEnabled(tti_tx_dl[w]) THEN TxBlock(w) ELSE Empty
    BY <1>9, GotoAt, Zenon DEF EncodePmch, At, workerVars, TxBlock, TypeInv, WorkerTypes
  <2>2. /\ (received[w] # <<>> => IsMtch(tti_tx_dl[w]))
        /\ (data[w] => TxBlock(w).units = received[w]) /\ (~data[w] => received[w] = <<>>)
    BY <2>1, Zenon DEF Block
  <2>3. encoded'[w].units = IF PmchEnabled(tti_tx_dl[w]) THEN received[w] ELSE <<>>
    BY <2>1, <2>2 DEF Empty
  <2>. QED BY <1>1, <1>2, <2>1, <2>2, <2>3, Zenon DEF Block
<1>. QED BY <1>3, <1>4, <1>4a, <1>5, <1>6, <1>7, <1>8, <1>9

\* PHY has one worker, so that nobody else is inside get_mch_sched.
Serial == \A v, w \in Workers : v = w

\* What is known of the data, whoever the worker is.
DataInv == \A w \in Workers : Block(w)
StreamInv == \A w \in Workers : Stream(w)

\* No step mixes data, with one worker: OtherData does not hold of a second
\* worker, which may overwrite the payload buffer.
LEMMA DataStep ==
  ASSUME Serial, TypeInv, DataInv, [Next]_vars
  PROVE  DataInv'
<1>1. CASE WriteSdu \/ UpdateBsr
  BY <1>1, StackData, Zenon DEF DataInv
<1>2. ASSUME NEW w \in Workers, StartWorker(w) \/ Worker(w) PROVE DataInv'
  <2>1. Block(w)
    BY Zenon DEF DataInv
  <2>2. Block(w)'
    BY <1>2, <2>1, OtherData, ReadPduData, GenerateData, WorkerEndBlock, Zenon DEF Worker
  <2>. QED BY <2>2, Zenon DEF DataInv, Serial
<1>3. CASE UNCHANGED vars
  BY <1>3, ZenonT(60) DEF DataInv, Block, TxBlock, vars, bufVars, workerVars, localVars
<1>. QED BY <1>1, <1>2, <1>3 DEF Next

\* No step loses or repeats data, if the PMCH has the whole period.
LEMMA StreamStep ==
  ASSUME Serial, CasAligned, WholePeriod, TypeInv, DataInv, StreamInv, [Next]_vars
  PROVE  StreamInv'
<1>1. CASE WriteSdu \/ UpdateBsr
  BY <1>1, StackData, Zenon DEF DataInv, StreamInv
<1>2. ASSUME NEW w \in Workers, StartWorker(w) \/ Worker(w) PROVE StreamInv'
  <2>1. Block(w) /\ Stream(w)
    BY Zenon DEF DataInv, StreamInv
  <2>2. Stream(w)'
    BY <1>2, <2>1, OtherData, ReadPduData, GenerateData, WorkerEndStream, Zenon DEF Worker
  <2>. QED BY <2>2, Zenon DEF StreamInv, Serial
<1>3. CASE UNCHANGED vars
  BY <1>3, ZenonT(60) DEF StreamInv, Stream, vars, rlcVars, localVars, airVars
<1>. QED BY <1>1, <1>2, <1>3 DEF Next

\* For any number of workers, and although they race on MAC's structures and RLC
\* reports at any moment, every variable keeps its type: the stop that
\* build_mch_sched computes from its two readings of the size never exceeds what
\* a full queue needs, and read_pdu never returns more than it was asked for.
THEOREM MchTypeCorrect == Spec => []TypeOK
<1>1. Init => TypeInv
  BY TypeInit
<1>2. TypeInv /\ [Next]_vars => TypeInv'
  BY TypeStep
<1>3. TypeInv => TypeOK
  BY TypeInvOK
<1>. QED BY <1>1, <1>2, <1>3, PTL DEF Spec

\* With one worker, and a PMCH that has every subframe of its period, each unit
\* that RLC accepts goes on the air at most once, in order and with none left
\* out, whatever the period, the sizes and the moments at which RLC reports its
\* queue.  (get_mch_sched knows nothing of SfAllocEnd: what it read for a subframe
\* behind it cc_worker would not encode.)
THEOREM AirsInOrder == Serial /\ CasAligned /\ WholePeriod => (Spec => []AiredInOrder)
<1>. SUFFICES ASSUME Serial, CasAligned, WholePeriod PROVE Spec => []AiredInOrder
  OBVIOUS
<1>. DEFINE Inv == TypeInv /\ DataInv /\ StreamInv
<1>1. Init => Inv
  BY TypeInit, DataInit DEF DataInv, StreamInv
<1>2. Inv /\ [Next]_vars => Inv'
  BY TypeStep, DataStep, StreamStep
<1>3. Inv => AiredInOrder
  <2>. SUFFICES ASSUME Inv PROVE AiredInOrder
    OBVIOUS
  <2>1. aired \in Seq(Units)
    BY DEF TypeInv, AirTypes
  <2>2. PICK w \in Workers : Stream(w)
    BY SchedulingAssumption, Zenon DEF StreamInv
  <2>3. \A i \in 1 .. Len(aired) : aired[i] = i
    BY <2>2, Zenon DEF Stream
  <2>4. aired = [i \in 1 .. Len(aired) |-> aired[i]]
    BY <2>1
  <2>5. [i \in 1 .. Len(aired) |-> aired[i]] = [i \in 1 .. Len(aired) |-> i]
    BY <2>3, Zenon
  <2>. QED BY <2>4, <2>5, Zenon DEF AiredInOrder
<1>. QED BY <1>1, <1>2, <1>3, PTL DEF Spec

\* With one worker a transport block holds what its worker read from RLC: the
\* mixing of blocks that the shared buffers of get_mch_sched allow takes two
\* workers inside it.
THEOREM BlocksAreOwn == Serial => (Spec => []BlockIsOwn)
<1>. SUFFICES ASSUME Serial PROVE Spec => []BlockIsOwn
  OBVIOUS
<1>. DEFINE Inv == TypeInv /\ DataInv
<1>1. Init => Inv
  BY TypeInit, DataInit DEF DataInv
<1>2. Inv /\ [Next]_vars => Inv'
  BY TypeStep, DataStep
<1>3. Inv => BlockIsOwn
  BY Zenon DEF DataInv, Block, TxBlock, BlockIsOwn
<1>. QED BY <1>1, <1>2, <1>3, PTL DEF Spec

-----------------------------------------------------------------------------
(* The plan of a period.                                                   *)

\* The MCCH is the first PMCH subframe of every scheduling period and no other.
McchOnlyFirst ==
  /\ SfPerFrame > 1 /\ McchOffset = 0 /\ McchPeriod = MchSchedPeriod
  /\ McchTable = {1}

\* The scheduling information of a period is on its way.
MsiUnderway(w) == IsMcch(tti_tx_dl[w]) /\ pc[w] \in {"plan", "start", "generate", "encode", "end"}
\* A period has been planned: its information is on the air or on its way.
Planned(w) == announced # None \/ MsiUnderway(w)

\* What goes out as scheduling information is the stop of the plan.
Announces(w) ==
  /\ announced # None /\ ~MsiUnderway(w) => announced = stop
  /\ pc[w] \in {"count", "increment", "encode"} =>
       /\ IsMcch(tti_tx_dl[w]) => data[w] /\ TxBlock(w).kind = "msi" /\ TxBlock(w).stop = stop
       /\ ~IsMcch(tti_tx_dl[w]) /\ data[w] => TxBlock(w).kind = "mtch"
  /\ pc[w] = "end" =>
       /\ IsMcch(tti_tx_dl[w]) => encoded[w].kind = "msi" /\ encoded[w].stop = stop
       /\ ~IsMcch(tti_tx_dl[w]) => encoded[w].kind # "msi"

\* The worker's subframe is counted.
Done(w) == pc[w] \in {"encode", "end"} \/ (pc[w] = "generate" /\ IsMcch(tti_tx_dl[w]))
\* PMCH subframes of the period that current_sf_allocation_num has counted.
Counted(w) ==
  IF pc[w] = "idle" THEN Ordinal(next_tti)
  ELSE IF IsMbsfnSf(tti_tx_dl[w]) /\ Done(w)
       THEN Ordinal(tti_tx_dl[w]) + 1
       ELSE Ordinal(tti_tx_dl[w])

\* current_sf_allocation_num follows the PMCH subframes of the period.
Counts(w) ==
  /\ pc[w] # "idle" => next_tti = NextTti(tti_tx_dl[w])
  /\ Planned(w) /\ Counted(w) > 0 =>
       current_sf_allocation_num = Least(Counted(w), MaxStop + 1)
  /\ pc[w] = "increment" => increment[w] = current_sf_allocation_num

\* Data is read only up to the stop of the plan.
Grants(w) ==
  /\ Planned(w) /\ IsMtch(tti_tx_dl[w])
  /\ pc[w] \in {"read", "report", "pdu", "generate"} \/ received[w] # <<>>
  => SfIdx(tti_tx_dl[w]) <= stop

\* What is known of the plan.
PlanAt(w) == Announces(w) /\ Counts(w) /\ Grants(w)

\* PMCH subframes of a period before t are counted from 0, and the first one is
\* the MCCH.
LEMMA OrdinalOf ==
  ASSUME CasAligned, McchOnlyFirst, NEW t \in Ttis
  PROVE  /\ Ordinal(t) \in Nat
         /\ IsMcch(t) => Ordinal(t) = 0
         /\ IsMtch(t) => Ordinal(t) = SfIdx(t) /\ SfIdx(t) \in Nat /\ SfIdx(t) > 0
<1>. DEFINE S == SfPerFrame
            P == MchSchedPeriod
            b == S * P
            f == FnInSchedulingPeriod(t)
<1>1. S \in Nat /\ S > 1 /\ P \in Nat \ {0} /\ CasFrames \in Nat \ {0} /\ t \in Nat
  BY PeriodAssumption, CycleAssumption DEF Ttis, McchOnlyFirst
<1>2. Sf(t) \in 0 .. S - 1 /\ f \in 0 .. P - 1
  BY <1>1, Parts, Zenon
<1>3. f \in Nat
  BY <1>1, <1>2
<1>4. f \div CasFrames \in Nat /\ f \div CasFrames <= f
  <2>1. f \div CasFrames \in Nat /\ f % CasFrames \in 0 .. CasFrames - 1
        /\ f = CasFrames * (f \div CasFrames) + (f % CasFrames)
    BY <1>1, <1>3, DivMod, Zenon
  <2>2. CasFrames * (f \div CasFrames) >= f \div CasFrames
    <3>1. \A x \in Nat : CasFrames * x >= x
      BY <1>1
    <3>. QED BY <2>1, <3>1, Zenon
  <2>. QED BY <1>1, <1>3, <2>1, <2>2
<1>5. SfIdx(t) = f * S + Sf(t) - (f \div CasFrames) - 1
  BY DEF SfIdx
<1>6. Ordinal(t) \in Nat
  <2>1. CASE IsCas(t)
    <3>1. f * S >= f /\ f * S \in Nat
      BY <1>1, <1>3
    <3>. QED BY <1>1, <1>2, <1>3, <1>4, <1>5, <2>1, <3>1 DEF Ordinal
  <2>2. CASE ~IsCas(t)
    <3>1. SfIdx(t) \in 0 .. LastIdx
      BY <1>1, <2>2, SfIdxBounds
    <3>. QED BY <2>2, <3>1 DEF Ordinal
  <2>. QED BY <2>1, <2>2
<1>7. McchPeriod % 256 = P
  BY PeriodAssumption DEF McchOnlyFirst
<1>8. IsMcch(t) <=> f = 0 /\ Sf(t) = 1
  BY <1>7 DEF IsMcch, McchOnlyFirst, FnInSchedulingPeriod
<1>9. ASSUME IsMcch(t) PROVE Ordinal(t) = 0
  <2>1. ~IsCas(t) /\ f = 0 /\ Sf(t) = 1
    BY <1>8, <1>9, McchIsMbsfn DEF IsMbsfnSf
  <2>2. 0 \div CasFrames = 0
    BY <1>1
  <2>. QED BY <1>1, <1>5, <2>1, <2>2 DEF Ordinal
<1>10. ASSUME IsMtch(t) PROVE Ordinal(t) = SfIdx(t) /\ SfIdx(t) > 0
  <2>1. ~IsCas(t) /\ ~IsMcch(t)
    BY <1>10 DEF IsMtch, IsMbsfnSf
  <2>2. b \in Nat \ {0} /\ t % b = S * f + Sf(t)
    BY <1>1, PlaceInPeriod, Zenon
  <2>3. 1 % b = 1 /\ ~IsCas(1) /\ SfIdx(1) = 0
    <3>1. Sf(1) = 1 /\ Sfn(1) = 0 /\ FnInSchedulingPeriod(1) = 0 /\ 0 \div CasFrames = 0
      BY <1>1 DEF Sf, Sfn, FnInSchedulingPeriod
    <3>2. 1 % b = S * 0 + 1
      BY <3>1, PlaceInPeriod
    <3>. QED BY <1>1, <3>1, <3>2 DEF IsCas, SfIdx
  <2>4. t % b > 1
    <3>1. f = 0 => Sf(t) # 0
      <4>1. 0 % CasFrames = 0
        BY <1>1
      <4>. QED BY <1>1, <2>1, <4>1, CasInPeriod
    <3>2. CASE f = 0
      BY <1>1, <1>2, <1>8, <2>1, <2>2, <3>1, <3>2
    <3>3. CASE f > 0
      <4>1. S * f >= S /\ S * f \in Nat
        BY <1>1, <1>3, <3>3
      <4>. QED BY <1>1, <1>2, <2>2, <4>1
    <3>. QED BY <1>3, <3>2, <3>3
  <2>. HIDE DEF b
  <2>5. 1 % b < t % b
    BY <1>1, <2>2, <2>3, <2>4
  <2>6. SfIdx(1) < SfIdx(t)
    BY <1>1, <2>1, <2>3, <2>5, SfIdxIncreases DEF b
  <2>. QED BY <2>1, <2>3, <2>6 DEF Ordinal
<1>. QED BY <1>6, <1>9, <1>10

\* A step that leaves the plan, the counter and the worker's TTI alone.
Quiet(w) ==
  /\ UNCHANGED <<announced, stop, current_sf_allocation_num, next_tti, tti_tx_dl>>
  /\ pc[w] # "idle" /\ pc'[w] # "idle"
  /\ MsiUnderway(w)' <=> MsiUnderway(w)
  /\ Done(w)' <=> Done(w)

\* Such a step keeps what Announces and Counts say of a plan.
LEMMA QuietPlan ==
  ASSUME NEW w \in Workers, Quiet(w), PlanAt(w)
  PROVE  /\ Planned(w)' <=> Planned(w)
         /\ Counted(w)' = Counted(w)
         /\ announced # None /\ ~MsiUnderway(w)' => announced' = stop'
         /\ pc'[w] # "idle" => next_tti' = NextTti(tti_tx_dl'[w])
         /\ Planned(w)' /\ Counted(w)' > 0 =>
              current_sf_allocation_num' = Least(Counted(w)', MaxStop + 1)
<1>1. UNCHANGED <<announced, stop, current_sf_allocation_num, next_tti, tti_tx_dl>>
  BY Zenon DEF Quiet
<1>2. Planned(w)' <=> Planned(w)
  BY <1>1, Zenon DEF Quiet, Planned
<1>3. Counted(w)' = Counted(w)
  BY <1>1, Zenon DEF Quiet, Counted, Done
<1>. QED BY <1>1, <1>2, <1>3, Zenon DEF Quiet, PlanAt, Announces, Counts

\* Most steps of get_mch_sched are of this kind.
LEMMA QuietSteps ==
  ASSUME TypeInv, NEW w \in Workers, Block(w),
         \/ SelectMtch(w) \/ ReadPdu(w) \/ ReadReport(w) \/ SetPdu(w)
         \/ GenerateMchPdu(w) \/ CountRead(w) \/ EncodePmch(w)
  PROVE  Quiet(w)
<1>1. UNCHANGED <<announced, stop, current_sf_allocation_num, next_tti, tti_tx_dl>>
  BY Zenon DEF SelectMtch, ReadPdu, ReadReport, SetPdu, GenerateMchPdu, CountRead, EncodePmch,
     planVars, workerVars, airVars
<1>2. \/ pc[w] \in {"mtch", "read", "report", "pdu", "count"} /\ IsMtch(tti_tx_dl[w])
         /\ pc'[w] \in {"read", "report", "pdu", "generate", "count", "increment"}
      \/ pc[w] = "generate" /\ pc'[w] = IF IsMcch(tti_tx_dl[w]) THEN "encode" ELSE "count"
      \/ pc[w] = "encode" /\ pc'[w] = "end"
  BY GotoAt, Zenon DEF SelectMtch, ReadPdu, ReadReport, SetPdu, GenerateMchPdu, CountRead, EncodePmch,
     At, Block
<1>3. CASE pc[w] \in {"mtch", "read", "report", "pdu", "count"} /\ IsMtch(tti_tx_dl[w])
           /\ pc'[w] \in {"read", "report", "pdu", "generate", "count", "increment"}
  BY <1>1, <1>3, Zenon DEF Quiet, MsiUnderway, Done, IsMtch
<1>4. CASE pc[w] = "generate" /\ pc'[w] = IF IsMcch(tti_tx_dl[w]) THEN "encode" ELSE "count"
  <2>1. CASE IsMcch(tti_tx_dl[w])
    BY <1>1, <1>4, <2>1, Zenon DEF Quiet, MsiUnderway, Done
  <2>2. CASE ~IsMcch(tti_tx_dl[w])
    BY <1>1, <1>4, <2>2, Zenon DEF Quiet, MsiUnderway, Done
  <2>. QED BY <2>1, <2>2
<1>5. CASE pc[w] = "encode" /\ pc'[w] = "end"
  BY <1>1, <1>5, Zenon DEF Quiet, MsiUnderway, Done
<1>. QED BY <1>2, <1>3, <1>4, <1>5, Zenon

\* Steps of an MTCH subframe before its block is made.
LEMMA FetchPlan ==
  ASSUME TypeInv, NEW w \in Workers, Block(w), PlanAt(w), CasAligned, McchOnlyFirst,
         SelectMtch(w) \/ ReadPdu(w) \/ ReadReport(w) \/ SetPdu(w) \/ CountRead(w)
  PROVE  PlanAt(w)'
<1>1. Quiet(w)
  BY QuietSteps, Zenon
<1>2. /\ Planned(w)' <=> Planned(w)
      /\ announced # None /\ ~MsiUnderway(w)' => announced' = stop'
      /\ pc'[w] # "idle" => next_tti' = NextTti(tti_tx_dl'[w])
      /\ Planned(w)' /\ Counted(w)' > 0 =>
           current_sf_allocation_num' = Least(Counted(w)', MaxStop + 1)
  BY <1>1, QuietPlan, Zenon
<1>3. UNCHANGED <<announced, stop, current_sf_allocation_num, tti_tx_dl, tx_payload_buffer, data>>
  BY <1>1, Zenon DEF Quiet, SelectMtch, ReadPdu, ReadReport, SetPdu, CountRead, bufVars, localVars
<1>4. IsMtch(tti_tx_dl[w]) /\ ~IsMcch(tti_tx_dl[w])
  BY Zenon DEF SelectMtch, ReadPdu, ReadReport, SetPdu, CountRead, At, Block, IsMtch
<1>5. TxBlock(w)' = TxBlock(w)
  BY <1>3, Zenon DEF TxBlock
<1>6. pc'[w] \in {"count", "increment"} => ~data[w] \/ pc[w] = "count"
  BY Zenon DEF SelectMtch, ReadPdu, ReadReport, SetPdu, CountRead, At, Block
<1>7. /\ pc'[w] \in {"read", "report", "pdu", "generate", "count", "increment"}
      /\ pc'[w] = "increment" => increment'[w] = current_sf_allocation_num
  <2>1. SelectMtch(w) \/ ReadPdu(w) \/ ReadReport(w) \/ SetPdu(w)
        => pc'[w] \in {"read", "report", "pdu", "generate", "count"}
    BY GotoAt, Zenon DEF SelectMtch, ReadPdu, ReadReport, SetPdu
  <2>2. CountRead(w) => pc'[w] = "increment" /\ increment'[w] = current_sf_allocation_num
    BY GotoAt, Zenon DEF CountRead, TypeInv, WorkerTypes
  <2>. QED BY <2>1, <2>2, Zenon
<1>8. Announces(w)'
  BY <1>2, <1>3, <1>4, <1>5, <1>6, <1>7, Zenon DEF PlanAt, Announces
<1>9. Counts(w)'
  BY <1>2, <1>3, <1>7, Zenon DEF Counts
<1>10. ASSUME Planned(w), pc'[w] \in {"read", "report", "pdu", "generate"} \/ received'[w] # <<>>
       PROVE  SfIdx(tti_tx_dl[w]) <= stop
  <2>1. CASE SelectMtch(w)
    <3>1. pc[w] = "mtch" /\ received' = received /\ received[w] = <<>>
      BY <2>1, Zenon DEF SelectMtch, At, Block
    <3>2. current_sf_allocation_num <= stop
      BY <1>10, <2>1, <3>1, GotoAt, Zenon DEF SelectMtch
    <3>3. tti_tx_dl[w] \in Ttis
      BY Zenon DEF TypeInv, WorkerTypes
    <3>4. Counted(w) = Ordinal(tti_tx_dl[w])
      BY <1>4, <3>1, Zenon DEF Counted, Done, MsiUnderway
    <3>5. Counted(w) = SfIdx(tti_tx_dl[w]) /\ SfIdx(tti_tx_dl[w]) \in Nat /\ SfIdx(tti_tx_dl[w]) > 0
      BY <1>4, <3>3, <3>4, OrdinalOf, Zenon
    <3>6. current_sf_allocation_num = Least(SfIdx(tti_tx_dl[w]), MaxStop + 1)
      BY <1>10, <3>5, Zenon DEF PlanAt, Counts
    <3>7. stop \in 0 .. MaxStop /\ MaxStop \in Nat
      BY MaxStopType DEF TypeInv, MacTypes
    <3>. QED BY <3>2, <3>5, <3>6, <3>7 DEF Least
  <2>2. CASE ReadPdu(w) \/ ReadReport(w) \/ SetPdu(w)
    <3>1. pc[w] \in {"read", "report", "pdu"}
      BY <2>2, Zenon DEF ReadPdu, ReadReport, SetPdu, At
    <3>. QED BY <1>4, <1>10, <3>1, Zenon DEF PlanAt, Grants
  <2>3. CASE CountRead(w)
    <3>1. received' = received /\ pc'[w] = "increment"
      BY <2>3, GotoAt, Zenon DEF CountRead
    <3>. QED BY <1>4, <1>10, <3>1, Zenon DEF PlanAt, Grants
  <2>. QED BY <2>1, <2>2, <2>3
<1>11. Grants(w)'
  BY <1>2, <1>3, <1>10, Zenon DEF Grants
<1>. QED BY <1>8, <1>9, <1>11, Zenon DEF PlanAt

\* The block is made.
LEMMA GeneratePlan ==
  ASSUME TypeInv, NEW w \in Workers, Block(w), PlanAt(w), GenerateMchPdu(w)
  PROVE  PlanAt(w)'
<1>1. Quiet(w)
  BY QuietSteps, Zenon
<1>2. /\ Planned(w)' <=> Planned(w)
      /\ announced # None /\ ~MsiUnderway(w)' => announced' = stop'
      /\ pc'[w] # "idle" => next_tti' = NextTti(tti_tx_dl'[w])
      /\ Planned(w)' /\ Counted(w)' > 0 =>
           current_sf_allocation_num' = Least(Counted(w)', MaxStop + 1)
  BY <1>1, QuietPlan, Zenon
<1>3. /\ UNCHANGED <<announced, stop, current_sf_allocation_num, tti_tx_dl, received>>
      /\ pc[w] = "generate" /\ pc'[w] = IF IsMcch(tti_tx_dl[w]) THEN "encode" ELSE "count"
  BY <1>1, GotoAt, Zenon DEF Quiet, GenerateMchPdu, At
<1>4. data'[w] = TRUE
  BY Zenon DEF GenerateMchPdu, TypeInv, WorkerTypes
<1>5. /\ IsMcch(tti_tx_dl[w]) => TxBlock(w)'.kind = "msi" /\ TxBlock(w)'.stop = stop
      /\ ~IsMcch(tti_tx_dl[w]) => TxBlock(w)'.kind = "mtch"
  <2>. DEFINE p == HarqPid(tti_tx_dl[w])
              n == Least(pdu.nbytes, Len(mtch_payload_buffer))
              block == IF pdu.kind = "msi"
                       THEN [kind |-> "msi", stop |-> stop, units |-> <<>>]
                       ELSE [kind |-> "mtch", stop |-> 0,
                             units |-> SubSeq(mtch_payload_buffer, 1, n)]
  <2>1. p \in 0 .. NOF_HARQ - 1
    BY HarqPidType, Zenon DEF TypeInv, WorkerTypes
  <2>2. tx_payload_buffer' = [tx_payload_buffer EXCEPT ![p] = [tti |-> tti_tx_dl[w], block |-> block]]
    BY Zenon DEF GenerateMchPdu
  <2>3. TxBlock(w)' = block
    <3>1. tx_payload_buffer'[p] = [tti |-> tti_tx_dl[w], block |-> block]
      BY <2>1, <2>2, Zenon DEF TypeInv, MacTypes
    <3>2. TxBlock(w)' = tx_payload_buffer'[p].block
      BY <1>3, Zenon DEF TxBlock
    <3>. HIDE DEF block, p
    <3>. QED BY <3>1, <3>2
  <2>4. /\ IsMcch(tti_tx_dl[w]) => pdu.kind = "msi"
        /\ ~IsMcch(tti_tx_dl[w]) => pdu.kind = "mtch"
    BY <1>3, Zenon DEF Block
  <2>5. /\ pdu.kind = "msi" => block.kind = "msi" /\ block.stop = stop
        /\ pdu.kind = "mtch" => block.kind = "mtch"
    OBVIOUS
  <2>. HIDE DEF block
  <2>. QED BY <2>3, <2>4, <2>5, Zenon
<1>6. pc'[w] \in {"encode", "count"}
  BY <1>3, Zenon
<1>7. Announces(w)'
  BY <1>2, <1>3, <1>4, <1>5, <1>6, Zenon DEF Announces
<1>8. Counts(w)'
  BY <1>2, <1>6, Zenon DEF Counts
<1>9. Grants(w)'
  BY <1>2, <1>3, <1>6, Zenon DEF PlanAt, Grants
<1>. QED BY <1>7, <1>8, <1>9, Zenon DEF PlanAt

\* The block is encoded.
LEMMA EncodePlan ==
  ASSUME TypeInv, NEW w \in Workers, Block(w), PlanAt(w), EncodePmch(w)
  PROVE  PlanAt(w)'
<1>1. Quiet(w)
  BY QuietSteps, Zenon
<1>2. /\ Planned(w)' <=> Planned(w)
      /\ announced # None /\ ~MsiUnderway(w)' => announced' = stop'
      /\ pc'[w] # "idle" => next_tti' = NextTti(tti_tx_dl'[w])
      /\ Planned(w)' /\ Counted(w)' > 0 =>
           current_sf_allocation_num' = Least(Counted(w)', MaxStop + 1)
  BY <1>1, QuietPlan, Zenon
<1>3. /\ UNCHANGED <<announced, stop, current_sf_allocation_num, tti_tx_dl, received>>
      /\ pc[w] = "encode" /\ pc'[w] = "end"
      /\ encoded'[w] = IF data[w] /\ PmchEnabled(tti_tx_dl[w]) THEN TxBlock(w) ELSE Empty
  BY <1>1, GotoAt, Zenon DEF Quiet, EncodePmch, At, TxBlock, TypeInv, WorkerTypes
<1>4. /\ IsMcch(tti_tx_dl[w]) => data[w] /\ TxBlock(w).kind = "msi" /\ TxBlock(w).stop = stop
      /\ ~IsMcch(tti_tx_dl[w]) /\ data[w] => TxBlock(w).kind = "mtch"
  BY <1>3, Zenon DEF PlanAt, Announces
<1>5. Empty.kind # "msi" /\ (IsMcch(tti_tx_dl[w]) => PmchEnabled(tti_tx_dl[w]))
  BY DEF Empty, PmchEnabled
<1>6. /\ IsMcch(tti_tx_dl[w]) => encoded'[w].kind = "msi" /\ encoded'[w].stop = stop
      /\ ~IsMcch(tti_tx_dl[w]) => encoded'[w].kind # "msi"
  BY <1>3, <1>4, <1>5, Zenon
<1>7. Announces(w)'
  BY <1>2, <1>3, <1>6, Zenon DEF Announces
<1>8. Counts(w)'
  BY <1>2, <1>3, Zenon DEF Counts
<1>9. Grants(w)'
  BY <1>2, <1>3, Zenon DEF PlanAt, Grants
<1>. QED BY <1>7, <1>8, <1>9, Zenon DEF PlanAt

\* The next TTI goes to the worker.
LEMMA StartPlan ==
  ASSUME TypeInv, NEW w \in Workers, Block(w), PlanAt(w), StartWorker(w)
  PROVE  PlanAt(w)'
<1>1. /\ pc[w] = "idle" /\ tti_tx_dl'[w] = next_tti /\ next_tti' = NextTti(next_tti)
      /\ pc'[w] = CASE ~IsMbsfnSf(next_tti) -> "encode"
                    [] IsMcch(next_tti)     -> "mcch"
                    [] OTHER                -> "mtch"
      /\ UNCHANGED <<announced, stop, current_sf_allocation_num, data, received>>
  BY GotoAt, Zenon DEF StartWorker, At, TypeInv, WorkerTypes, NextTti, planVars, localVars, airVars
<1>2. \/ pc'[w] = "encode" /\ ~IsMbsfnSf(next_tti) /\ ~IsMcch(next_tti)
      \/ pc'[w] \in {"mcch", "mtch"}
  BY <1>1, McchIsMbsfn
<1>3. ~MsiUnderway(w) /\ ~MsiUnderway(w)'
  BY <1>1, <1>2, Zenon DEF MsiUnderway
<1>4. Counted(w)' = Counted(w)
  BY <1>1, <1>2, <1>3, Zenon DEF Counted, Done
<1>5. received[w] = <<>> /\ ~data[w]
  BY <1>1, Zenon DEF Block
<1>6. Announces(w)'
  BY <1>1, <1>2, <1>3, <1>5, Zenon DEF PlanAt, Announces
<1>7. Counts(w)'
  BY <1>1, <1>2, <1>3, <1>4, Zenon DEF PlanAt, Counts, Planned
<1>8. Grants(w)'
  BY <1>1, <1>2, <1>5, Zenon DEF Grants
<1>. QED BY <1>6, <1>7, <1>8, Zenon DEF PlanAt

\* A new plan is made at the MCCH, which nothing has been counted of.
LEMMA BuildPlan ==
  ASSUME TypeInv, NEW w \in Workers, Block(w), PlanAt(w), CasAligned, McchOnlyFirst,
         TotalBytes(w) \/ BuildMchSched(w)
  PROVE  PlanAt(w)'
<1>1. /\ pc[w] \in {"mcch", "plan"} /\ pc'[w] \in {"plan", "start"}
      /\ UNCHANGED <<tti_tx_dl, next_tti>>
  BY GotoAt, Zenon DEF TotalBytes, BuildMchSched, At, workerVars
<1>2. IsMcch(tti_tx_dl[w]) /\ IsMbsfnSf(tti_tx_dl[w]) /\ tti_tx_dl[w] \in Ttis
  BY <1>1, Zenon DEF Block, TypeInv, WorkerTypes
<1>3. MsiUnderway(w)' /\ ~Done(w)'
  BY <1>1, <1>2, Zenon DEF MsiUnderway, Done
<1>4. ~(Counted(w)' > 0)
  <2>1. Ordinal(tti_tx_dl[w]) = 0
    BY <1>2, OrdinalOf, Zenon
  <2>2. Counted(w)' = 0
    BY <1>1, <1>3, <2>1, Zenon DEF Counted
  <2>. QED BY <2>2
<1>5. Counts(w)'
  BY <1>1, <1>4, Zenon DEF PlanAt, Counts
<1>6. Announces(w)'
  BY <1>1, <1>3, Zenon DEF Announces
<1>7. Grants(w)'
  BY <1>1, <1>2, Zenon DEF Grants, IsMtch
<1>. QED BY <1>5, <1>6, <1>7, Zenon DEF PlanAt

\* The counter starts with the MCCH.
LEMMA StartPeriodPlan ==
  ASSUME TypeInv, NEW w \in Workers, Block(w), PlanAt(w), CasAligned, McchOnlyFirst, StartPeriod(w)
  PROVE  PlanAt(w)'
<1>1. /\ pc[w] = "start" /\ pc'[w] = "generate" /\ current_sf_allocation_num' = 1
      /\ UNCHANGED <<tti_tx_dl, next_tti>>
  BY GotoAt, Zenon DEF StartPeriod, At, workerVars
<1>2. IsMcch(tti_tx_dl[w]) /\ IsMbsfnSf(tti_tx_dl[w]) /\ tti_tx_dl[w] \in Ttis
  BY <1>1, Zenon DEF Block, TypeInv, WorkerTypes
<1>3. MsiUnderway(w)' /\ Done(w)'
  BY <1>1, <1>2, Zenon DEF MsiUnderway, Done
<1>4. Counted(w)' = 0 + 1
  <2>1. Ordinal(tti_tx_dl[w]) = 0
    BY <1>2, OrdinalOf, Zenon
  <2>. QED BY <1>1, <1>2, <1>3, <2>1, Zenon DEF Counted
<1>5. Least(Counted(w)', MaxStop + 1) = 1
  BY <1>4, MaxStopType DEF Least
<1>6. Counts(w)'
  BY <1>1, <1>5, Zenon DEF PlanAt, Counts
<1>7. Announces(w)'
  BY <1>1, <1>3, Zenon DEF Announces
<1>8. Grants(w)'
  BY <1>1, <1>2, Zenon DEF Grants, IsMtch
<1>. QED BY <1>6, <1>7, <1>8, Zenon DEF PlanAt

\* The subframe is counted.
LEMMA CountWritePlan ==
  ASSUME TypeInv, NEW w \in Workers, Block(w), PlanAt(w), CasAligned, McchOnlyFirst, CountWrite(w)
  PROVE  PlanAt(w)'
<1>1. /\ pc[w] = "increment" /\ pc'[w] = "encode"
      /\ current_sf_allocation_num' = Least(increment[w] + 1, MaxStop + 1)
      /\ UNCHANGED <<tti_tx_dl, next_tti, stop, announced, data, tx_payload_buffer, received>>
  BY GotoAt, Zenon DEF CountWrite, At, workerVars, airVars, localVars, bufVars
<1>2. IsMtch(tti_tx_dl[w]) /\ IsMbsfnSf(tti_tx_dl[w]) /\ ~IsMcch(tti_tx_dl[w]) /\ tti_tx_dl[w] \in Ttis
  BY <1>1, Zenon DEF Block, TypeInv, WorkerTypes, IsMtch
<1>3. ~MsiUnderway(w) /\ ~MsiUnderway(w)' /\ TxBlock(w)' = TxBlock(w)
  BY <1>1, <1>2, Zenon DEF MsiUnderway, TxBlock
<1>4. Counted(w) = Ordinal(tti_tx_dl[w]) /\ Counted(w)' = Counted(w) + 1
  BY <1>1, <1>2, <1>3, Zenon DEF Counted, Done
<1>5. Counted(w) \in Nat /\ Counted(w) > 0
  BY <1>2, <1>4, OrdinalOf
<1>6. Planned(w)' => current_sf_allocation_num = Least(Counted(w), MaxStop + 1)
  BY <1>1, <1>3, <1>5, Zenon DEF PlanAt, Counts, Planned
<1>7. increment[w] = current_sf_allocation_num
  BY <1>1, Zenon DEF PlanAt, Counts
<1>8. Planned(w)' => current_sf_allocation_num' = Least(Counted(w)', MaxStop + 1)
  BY <1>1, <1>4, <1>5, <1>6, <1>7, MaxStopType DEF Least
<1>9. Counts(w)'
  BY <1>1, <1>8, Zenon DEF PlanAt, Counts
<1>10. Announces(w)'
  BY <1>1, <1>2, <1>3, Zenon DEF PlanAt, Announces
<1>11. Grants(w)'
  BY <1>1, <1>3, Zenon DEF PlanAt, Grants, Planned
<1>. QED BY <1>9, <1>10, <1>11, Zenon DEF PlanAt

\* The subframe is on the air.
LEMMA EndPlan ==
  ASSUME TypeInv, NEW w \in Workers, Block(w), PlanAt(w), CasAligned, McchOnlyFirst, WorkerEnd(w)
  PROVE  PlanAt(w)'
<1>1. /\ pc[w] = "end" /\ pc'[w] = "idle"
      /\ announced' = IF encoded[w].kind = "msi" THEN encoded[w].stop ELSE announced
      /\ UNCHANGED <<next_tti, stop, current_sf_allocation_num>>
      /\ received'[w] = <<>>
  BY GotoAt, Zenon DEF WorkerEnd, At, planVars, TypeInv, WorkerTypes
<1>2. ~MsiUnderway(w)'
  BY <1>1, Zenon DEF MsiUnderway
<1>3. announced' # None => announced' = stop /\ Planned(w)
  <2>1. CASE IsMcch(tti_tx_dl[w])
    BY <1>1, <2>1, Zenon DEF PlanAt, Announces, Planned, MsiUnderway
  <2>2. CASE ~IsMcch(tti_tx_dl[w])
    BY <1>1, <2>2, Zenon DEF PlanAt, Announces, Planned, MsiUnderway
  <2>. QED BY <2>1, <2>2
<1>4. Counted(w)' = 0 \/ Counted(w)' = Counted(w)
  <2>1. tti_tx_dl[w] \in Ttis /\ next_tti = NextTti(tti_tx_dl[w])
    BY <1>1, Zenon DEF PlanAt, Counts, TypeInv, WorkerTypes
  <2>2. Ordinal(tti_tx_dl[w]) \in Nat
    BY <2>1, OrdinalOf, Zenon
  <2>3. \/ Ordinal(next_tti) = 0
        \/ Ordinal(next_tti) = Ordinal(tti_tx_dl[w]) + (IF IsMbsfnSf(tti_tx_dl[w]) THEN 1 ELSE 0)
    BY <2>1, NextOrdinal
  <2>4. Counted(w)' = Ordinal(next_tti)
    BY <1>1, Zenon DEF Counted, Done
  <2>5. Counted(w) = IF IsMbsfnSf(tti_tx_dl[w]) THEN Ordinal(tti_tx_dl[w]) + 1 ELSE Ordinal(tti_tx_dl[w])
    BY <1>1, Zenon DEF Counted, Done
  <2>. QED BY <2>2, <2>3, <2>4, <2>5
<1>5. Counted(w)' > 0 => Counted(w)' = Counted(w)
  BY <1>4
<1>6. Counts(w)'
  BY <1>1, <1>2, <1>3, <1>5, Zenon DEF PlanAt, Counts, Planned
<1>7. Announces(w)'
  BY <1>1, <1>3, Zenon DEF Announces
<1>8. Grants(w)'
  BY <1>1, Zenon DEF Grants
<1>. QED BY <1>6, <1>7, <1>8, Zenon DEF PlanAt

\* What is known of the plan, whoever the worker is.
PlanInv == \A w \in Workers : PlanAt(w)

\* Nothing has been planned at first.
LEMMA PlanInit == Init => PlanInv
<1>. SUFFICES ASSUME Init, NEW w \in Workers PROVE PlanAt(w)
  BY Zenon DEF PlanInv
<1>1. pc[w] = "idle" /\ announced = None /\ received[w] = <<>>
  BY Zenon DEF Init, PerWorker
<1>2. ~Planned(w)
  BY <1>1, Zenon DEF Planned, MsiUnderway
<1>. QED BY <1>1, <1>2, Zenon DEF PlanAt, Announces, Counts, Grants

\* No step of the one worker leaves the plan, and no other step touches it.
LEMMA PlanStep ==
  ASSUME Serial, CasAligned, McchOnlyFirst, TypeInv, DataInv, PlanInv, [Next]_vars
  PROVE  PlanInv'
<1>1. ASSUME NEW w \in Workers, StartWorker(w) \/ Worker(w) PROVE PlanInv'
  <2>1. Block(w) /\ PlanAt(w)
    BY Zenon DEF DataInv, PlanInv
  <2>2. PlanAt(w)'
    BY <1>1, <2>1, StartPlan, BuildPlan, StartPeriodPlan, FetchPlan, GeneratePlan, CountWritePlan, EncodePlan,
       EndPlan, Zenon DEF Worker
  <2>. QED BY <2>2, Zenon DEF PlanInv, Serial
<1>2. CASE WriteSdu \/ UpdateBsr \/ UNCHANGED vars
  <2>1. UNCHANGED <<announced, stop, current_sf_allocation_num, next_tti, tti_tx_dl, pc, data,
                    tx_payload_buffer, encoded, increment, received>>
    BY <1>2, Zenon DEF WriteSdu, UpdateBsr, vars, planVars, bufVars, workerVars, localVars, airVars
  <2>. QED BY <2>1, ZenonT(60) DEF PlanInv, PlanAt, Announces, Counts, Grants, Planned, MsiUnderway,
              TxBlock, Counted, Done
<1>. QED BY <1>1, <1>2 DEF Next

\* MTCH data goes out only in subframes up to the stop that the scheduling
\* information of its period announced, so that a receiver that sleeps after the
\* stop misses nothing: get_mch_sched compares its own counter with the stop of
\* the plan, and the two agree with the subframe's number and with what
\* build_mch_sched put on the air.
THEOREM AirsWithinAnnounced ==
  Serial /\ CasAligned /\ McchOnlyFirst => (Spec => WithinAnnounced)
<1>. SUFFICES ASSUME Serial, CasAligned, McchOnlyFirst PROVE Spec => WithinAnnounced
  OBVIOUS
<1>. DEFINE Inv == TypeInv /\ DataInv /\ PlanInv
            Step == aired' # aired /\ announced # None => SfIdx(tti_tx_dl[Head(fifo)]) <= announced
<1>1. Init => Inv
  BY TypeInit, DataInit, PlanInit DEF DataInv
<1>2. Inv /\ [Next]_vars => Inv'
  BY TypeStep, DataStep, PlanStep
<1>3. Inv /\ [Next]_vars => [Step]_vars
  <2>. SUFFICES ASSUME Inv, Next, aired' # aired, announced # None
                PROVE  SfIdx(tti_tx_dl[Head(fifo)]) <= announced
    OBVIOUS
  <2>1. PICK w \in Workers : WorkerEnd(w)
    BY Zenon DEF Next, Worker, WriteSdu, UpdateBsr, StartWorker, TotalBytes, BuildMchSched, StartPeriod, SelectMtch, ReadPdu,
       ReadReport, SetPdu, GenerateMchPdu, CountRead, CountWrite, EncodePmch, airVars
  <2>2. pc[w] = "end" /\ w = Head(fifo) /\ aired' = aired \o encoded[w].units
    BY <2>1, Zenon DEF WorkerEnd, At
  <2>3. /\ encoded[w].units = received[w] \/ encoded[w].units = <<>>
        /\ received[w] # <<>> => IsMtch(tti_tx_dl[w])
    BY <2>2, Zenon DEF DataInv, Block
  <2>4. received[w] # <<>>
    <3>1. aired \o <<>> = aired
      BY DEF TypeInv, AirTypes
    <3>. QED BY <2>2, <2>3, <3>1, Zenon
  <2>5. Planned(w) /\ ~MsiUnderway(w)
    BY <2>3, <2>4, Zenon DEF Planned, MsiUnderway, IsMtch
  <2>6. SfIdx(tti_tx_dl[w]) <= stop /\ announced = stop
    BY <2>3, <2>4, <2>5, Zenon DEF PlanInv, PlanAt, Grants, Announces
  <2>. QED BY <2>2, <2>6
<1>. QED BY <1>1, <1>2, <1>3, PTL DEF Spec, WithinAnnounced

\* A period has at least the PMCH subframe of its MCCH.
LEMMA LastIdxType ==
  ASSUME CasAligned, McchOnlyFirst
  PROVE  LastIdx \in Nat
<1>1. /\ SfPerFrame \in Nat /\ SfPerFrame > 1 /\ MchSchedPeriod \in Nat \ {0} /\ CasFrames \in Nat \ {0}
  BY PeriodAssumption DEF McchOnlyFirst
<1>2. SfPerFrame * MchSchedPeriod \in Nat /\ ~IsCas(1)
  BY <1>1 DEF IsCas, Sf
<1>3. SfIdx(1) \in 0 .. LastIdx
  BY <1>2, SfIdxBounds
<1>4. MchSchedPeriod \div CasFrames \in Nat
  BY <1>1, DivMod, Zenon
<1>5. LastIdx \in Int
  BY <1>2, <1>4 DEF LastIdx
<1>. QED BY <1>3, <1>5

\* The last subframe of a period is the PMCH's, with the last index.
LEMMA LastSubframe ==
  ASSUME CasAligned, McchOnlyFirst, NEW t \in Ttis,
         NextTti(t) % (SfPerFrame * MchSchedPeriod) = 0
  PROVE  IsMbsfnSf(t) /\ Ordinal(t) = LastIdx
<1>. DEFINE S == SfPerFrame
            P == MchSchedPeriod
            C == CasFrames
            u == NextTti(t)
            f == FnInSchedulingPeriod(t)
            g == FnInSchedulingPeriod(u)
            m == P \div C
<1>1. S \in Nat /\ S > 1 /\ P \in Nat \ {0} /\ C \in Nat \ {0} /\ P % C = 0 /\ t \in Nat
  BY PeriodAssumption, CycleAssumption DEF Ttis, McchOnlyFirst, CasAligned
<1>2. /\ u \in Ttis
      /\ \/ Sf(t) # S - 1 /\ Sf(u) = Sf(t) + 1 /\ g = f
         \/ Sf(t) = S - 1 /\ Sf(u) = 0 /\ f # P - 1 /\ g = f + 1
         \/ Sf(t) = S - 1 /\ Sf(u) = 0 /\ f = P - 1 /\ g = 0
  BY NextSubframe, Zenon
<1>3. u \in Nat
  BY <1>2 DEF Ttis
<1>. HIDE DEF u
<1>4. Sf(t) \in 0 .. S - 1 /\ f \in 0 .. P - 1 /\ Sf(u) \in 0 .. S - 1 /\ g \in 0 .. P - 1
  BY <1>1, <1>3, Parts, Zenon
<1>5. S * g + Sf(u) = 0
  BY <1>3, PlaceInPeriod DEF u
<1>6. g = 0 /\ Sf(u) = 0
  <2>1. S * g \in Nat /\ (g > 0 => S * g > 0)
    BY <1>1, <1>4
  <2>. QED BY <1>1, <1>4, <1>5, <2>1
<1>7. Sf(t) = S - 1 /\ f = P - 1
  BY <1>1, <1>2, <1>4, <1>6
<1>8. ~IsCas(t)
  BY <1>1, <1>7 DEF IsCas
<1>9. m \in Nat /\ P = C * m + (P % C)
  BY <1>1, DivMod, Zenon
<1>10. SfIdx(t) = f * S + Sf(t) - (f \div C) - 1 /\ LastIdx = S * P - m - 1
  BY DEF SfIdx, LastIdx
<1>. HIDE DEF f, S, P, C, m
<1>11. f \div C = m - 1
  <2>1. m > 0
    BY <1>1, <1>9
  <2>2. C * (m - 1) = C * m - C
    BY <1>1, <1>9
  <2>3. f = C * (m - 1) + (C - 1) /\ m - 1 \in Nat /\ C - 1 \in 0 .. C - 1
    BY <1>1, <1>7, <1>9, <2>1, <2>2
  <2>4. (C * (m - 1) + (C - 1)) \div C = m - 1
    BY <1>1, <2>3, DivModUnique, Zenon
  <2>. QED BY <2>3, <2>4
<1>12. f * S = S * P - S
  BY <1>1, <1>7
<1>13. S * P \in Nat
  BY <1>1
<1>. QED BY <1>1, <1>7, <1>8, <1>9, <1>10, <1>11, <1>12, <1>13 DEF IsMbsfnSf, Ordinal

-----------------------------------------------------------------------------
(* What the plan still owes.                                               *)

\* Units promised with the last plan and neither on the air nor with the worker.
Owed(w) == promised - Len(aired) - Len(received[w])

\* PMCH subframes of the period that have read their data, or have none.
Served(w) ==
  IF pc[w] \in {"start", "report", "pdu", "generate", "count", "increment"}
  THEN Ordinal(tti_tx_dl[w]) + 1 ELSE Counted(w)

\* What is owed is in RLC, which has reported it.
Backed(w) ==
  /\ Owed(w) <= lcid_buffer_size /\ Owed(w) <= Len(rlc)
  /\ pc[w] = "read" => requested[w] >= Least(UnitsPerSf, Owed(w))

\* There is room for what is owed up to subframe n of the period.
Room(w, n) == Owed(w) <= (n + 1 - Served(w)) * UnitsPerSf

\* What is owed can still be delivered: RLC has it, and the subframes left have
\* room for it, up to the stop of the plan and up to the end of the period.  While
\* build_mch_sched is at work the reported size does not shrink.
Owes(w) ==
  /\ promised \in Nat
  /\ pc[w] # "report" => lcid_buffer_size <= Len(rlc)
  /\ pc[w] = "plan" => total[w] <= lcid_buffer_size
  /\ ~Planned(w) => promised = 0
  /\ Owed(w) > 0 => Backed(w) /\ Served(w) > 0 /\ Room(w, stop) /\ Room(w, LastIdx)

\* The numbers in these definitions are numbers.
LEMMA OwedTypes ==
  ASSUME TypeInv, CasAligned, McchOnlyFirst, NEW w \in Workers, Owes(w)
  PROVE  /\ Owed(w) \in Int /\ Served(w) \in Nat /\ Len(rlc) \in Nat /\ lcid_buffer_size \in Nat
         /\ UnitsPerSf \in Nat \ {0} /\ LastIdx \in Nat /\ stop \in 0 .. MaxStop
         /\ Len(received[w]) \in Nat /\ Len(aired) \in Nat /\ requested[w] \in Nat /\ promised \in Nat
         /\ SfAllocEnd \in Nat /\ MaxStop \in Nat
<1>1. Len(rlc) \in Nat /\ Len(aired) \in Nat /\ Len(received[w]) \in Nat
  BY DEF TypeInv, RlcTypes, AirTypes, WorkerTypes
<1>2. /\ promised \in Nat /\ stop \in 0 .. MaxStop /\ lcid_buffer_size \in 0 .. MaxQueue
      /\ requested[w] \in 0 .. UnitsPerSf
  BY Zenon DEF Owes, TypeInv, RlcTypes, MacTypes, AirTypes, WorkerTypes
<1>3. MaxQueue \in Nat /\ UnitsPerSf \in Nat \ {0} /\ SfAllocEnd \in Nat /\ MaxStop \in Nat
  BY SchedulingAssumption, PeriodAssumption, MaxStopType
<1>4. Owed(w) \in Int
  <2>. DEFINE a == Len(aired)
              r == Len(received[w])
  <2>. HIDE DEF a, r
  <2>1. a \in Nat /\ r \in Nat
    BY <1>1 DEF a, r
  <2>2. promised - a - r \in Int
    BY <1>2, <2>1
  <2>. QED BY <2>2 DEF Owed, a, r
<1>5. Served(w) \in Nat
  <2>1. Ordinal(tti_tx_dl[w]) \in Nat /\ Ordinal(next_tti) \in Nat
    BY OrdinalOf, Zenon DEF TypeInv, WorkerTypes
  <2>. QED BY <2>1 DEF Served, Counted, Done
<1>6. LastIdx \in Nat
  BY LastIdxType, Zenon
<1>7. requested[w] \in Nat /\ lcid_buffer_size \in Nat
  BY <1>2, <1>3
<1>. QED BY <1>1, <1>2, <1>3, <1>4, <1>5, <1>6, <1>7, Zenon

\* Steps that read nothing and plan nothing.
LEMMA QuietOwes ==
  ASSUME NEW w \in Workers, Owes(w),
         UNCHANGED <<promised, stop, lcid_buffer_size, rlc, aired>>,
         received'[w] = received[w], Served(w)' = Served(w),
         pc[w] # "report", pc'[w] \notin {"read", "plan"},
         ~Planned(w)' => ~Planned(w)
  PROVE  Owes(w)'
<1>1. Owed(w)' = Owed(w)
  BY Zenon DEF Owed
<1>2. Backed(w) => Backed(w)'
  BY <1>1, Zenon DEF Backed
<1>3. (Room(w, stop) => Room(w, stop)') /\ (Room(w, LastIdx) => Room(w, LastIdx)')
  BY <1>1, Zenon DEF Room
<1>. QED BY <1>1, <1>2, <1>3, Zenon DEF Owes

\* Steps of a worker of this kind.
LEMMA QuietStepsOwe ==
  ASSUME TypeInv, CasAligned, McchOnlyFirst, NEW w \in Workers, Block(w), PlanAt(w), Owes(w),
         \/ StartWorker(w) \/ StartPeriod(w) \/ SetPdu(w) \/ GenerateMchPdu(w) \/ CountRead(w)
         \/ CountWrite(w) \/ EncodePmch(w)
  PROVE  Owes(w)'
<1>1. /\ UNCHANGED <<promised, stop, lcid_buffer_size, rlc, aired, received, announced>>
      /\ pc[w] # "report"
  BY Zenon DEF StartWorker, StartPeriod, SetPdu, GenerateMchPdu, CountRead, CountWrite, EncodePmch,
     rlcVars, planVars, localVars, airVars, At
<1>2. CASE StartWorker(w)
  <2>1. /\ pc[w] = "idle" /\ tti_tx_dl'[w] = next_tti
        /\ pc'[w] = CASE ~IsMbsfnSf(next_tti) -> "encode"
                      [] IsMcch(next_tti)     -> "mcch"
                      [] OTHER                -> "mtch"
    BY <1>2, GotoAt, Zenon DEF StartWorker, At, TypeInv, WorkerTypes
  <2>2. \/ pc'[w] = "encode" /\ ~IsMbsfnSf(next_tti) /\ ~IsMcch(next_tti)
        \/ pc'[w] \in {"mcch", "mtch"}
    BY <2>1, McchIsMbsfn
  <2>3. ~MsiUnderway(w) /\ ~MsiUnderway(w)'
    BY <2>1, <2>2, Zenon DEF MsiUnderway
  <2>4. Served(w)' = Served(w)
    BY <2>1, <2>2, <2>3, Zenon DEF Served, Counted, Done
  <2>5. Planned(w)' <=> Planned(w)
    BY <1>1, <2>3, Zenon DEF Planned
  <2>. QED BY <1>1, <2>2, <2>4, <2>5, QuietOwes, Zenon
<1>3. CASE SetPdu(w) \/ CountRead(w) \/ CountWrite(w)
  <2>1. /\ pc[w] \in {"pdu", "count", "increment"} /\ tti_tx_dl' = tti_tx_dl
        /\ \/ pc'[w] \in {"generate", "count", "increment"}
           \/ pc[w] = "increment" /\ pc'[w] = "encode"
    BY <1>3, GotoAt, Zenon DEF SetPdu, CountRead, CountWrite, At, workerVars
  <2>2. IsMbsfnSf(tti_tx_dl[w]) /\ ~IsMcch(tti_tx_dl[w])
    BY <2>1, Zenon DEF Block, IsMtch
  <2>3. Served(w)' = Served(w)
    BY <2>1, <2>2, Zenon DEF Served, Counted, Done
  <2>4. Planned(w)' <=> Planned(w)
    BY <1>1, <2>1, <2>2, Zenon DEF Planned, MsiUnderway
  <2>. QED BY <1>1, <2>1, <2>3, <2>4, QuietOwes, Zenon
<1>4. CASE StartPeriod(w)
  <2>1. pc[w] = "start" /\ pc'[w] = "generate" /\ tti_tx_dl' = tti_tx_dl
    BY <1>4, GotoAt, Zenon DEF StartPeriod, At, workerVars
  <2>2. Served(w)' = Served(w) /\ (Planned(w)' <=> Planned(w))
    BY <1>1, <2>1, Zenon DEF Served, Planned, MsiUnderway
  <2>. QED BY <1>1, <2>1, <2>2, QuietOwes, Zenon
<1>5. CASE GenerateMchPdu(w) \/ EncodePmch(w)
  <2>1. Quiet(w)
    BY <1>5, QuietSteps, Zenon
  <2>2. Counted(w)' = Counted(w) /\ (Planned(w)' <=> Planned(w)) /\ tti_tx_dl' = tti_tx_dl
    BY <2>1, QuietPlan, Zenon DEF Quiet
  <2>3. \/ pc[w] = "encode" /\ pc'[w] = "end"
        \/ pc[w] = "generate" /\ pc'[w] = "count"
        \/ pc[w] = "generate" /\ pc'[w] = "encode" /\ IsMcch(tti_tx_dl[w])
    BY <1>5, GotoAt, Zenon DEF GenerateMchPdu, EncodePmch, At
  <2>4. pc[w] = "generate" => IsMbsfnSf(tti_tx_dl[w])
    BY Zenon DEF Block
  <2>5. pc[w] = "generate" /\ IsMcch(tti_tx_dl[w]) => Counted(w) = Ordinal(tti_tx_dl[w]) + 1
    BY <2>4, Zenon DEF Counted, Done, MsiUnderway
  <2>6. Served(w)' = Served(w)
    BY <2>2, <2>3, <2>5, Zenon DEF Served
  <2>. QED BY <1>1, <2>2, <2>3, <2>6, QuietOwes, Zenon
<1>. QED BY <1>2, <1>3, <1>4, <1>5

\* Nothing is owed when the next plan is made.
LEMMA PaidAtMcch ==
  ASSUME TypeInv, CasAligned, McchOnlyFirst, NEW w \in Workers, Block(w), Owes(w),
         pc[w] \in {"mcch", "plan"}
  PROVE  ~(Owed(w) > 0)
<1>1. IsMcch(tti_tx_dl[w]) /\ tti_tx_dl[w] \in Ttis
  BY Zenon DEF Block, TypeInv, WorkerTypes
<1>2. Ordinal(tti_tx_dl[w]) = 0 /\ Served(w) = Ordinal(tti_tx_dl[w])
  BY <1>1, OrdinalOf, Zenon DEF Served, Counted, Done
<1>3. ~(Served(w) > 0)
  BY <1>2
<1>. QED BY <1>3, Zenon DEF Owes

\* build_mch_sched clears the stop and takes the size.
LEMMA TotalOwes ==
  ASSUME TypeInv, CasAligned, McchOnlyFirst, NEW w \in Workers, Block(w), Owes(w), TotalBytes(w)
  PROVE  Owes(w)'
<1>1. /\ pc[w] = "mcch" /\ pc'[w] = "plan"
      /\ UNCHANGED <<promised, rlc, lcid_buffer_size, aired, received, tti_tx_dl>>
      /\ total'[w] = lcid_buffer_size
  BY GotoAt, Zenon DEF TotalBytes, At, rlcVars, workerVars, airVars, TypeInv, WorkerTypes
<1>2. ~(Owed(w)' > 0)
  <2>1. Owed(w)' = Owed(w)
    BY <1>1, Zenon DEF Owed
  <2>. QED BY <1>1, <2>1, PaidAtMcch, Zenon
<1>3. MsiUnderway(w)' /\ Planned(w)'
  BY <1>1, Zenon DEF MsiUnderway, Planned, Block
<1>4. lcid_buffer_size <= lcid_buffer_size
  <2>1. lcid_buffer_size \in Nat
    BY OwedTypes, Zenon
  <2>. QED BY <2>1
<1>. QED BY <1>1, <1>2, <1>3, <1>4, Zenon DEF Owes

\* The new plan has room for what it promises.
LEMMA BuildOwes ==
  ASSUME MtchPerPeriod \in 0 .. LastIdx,
         TypeInv, CasAligned, McchOnlyFirst, WholePeriod, NEW w \in Workers, Block(w), PlanAt(w),
         Owes(w), BuildMchSched(w)
  PROVE  Owes(w)'
<1>. DEFINE n == lcid_buffer_size
            c == total[w]
            p == PlannedStop(c, n)
            M == MtchPerPeriod
            U == UnitsPerSf
            E == SfAllocEnd
            L == LastIdx
<1>1. /\ pc[w] = "plan" /\ pc'[w] = "start"
      /\ UNCHANGED <<rlc, lcid_buffer_size, aired, received, tti_tx_dl>>
      /\ stop' = p
      /\ promised' = Len(aired) + Least(n, M * U)
  BY GotoAt, Zenon DEF BuildMchSched, At, rlcVars, localVars, workerVars
<1>2. received[w] = <<>> /\ IsMcch(tti_tx_dl[w]) /\ IsMbsfnSf(tti_tx_dl[w]) /\ tti_tx_dl[w] \in Ttis
  BY <1>1, Zenon DEF Block, TypeInv, WorkerTypes
<1>3. /\ n \in Nat /\ Len(rlc) \in Nat /\ U \in Nat \ {0} /\ L \in Nat /\ Len(aired) \in Nat /\ E \in Nat
  BY OwedTypes, Zenon
<1>4. M \in Nat /\ M <= L /\ L <= E
  BY <1>3 DEF WholePeriod
<1>5. c \in Nat /\ n \in 0 .. MaxQueue /\ c <= n
  <2>1. c \in 0 .. MaxQueue /\ n \in 0 .. MaxQueue
    BY Zenon DEF TypeInv, RlcTypes, WorkerTypes
  <2>2. c <= n
    BY <1>1, Zenon DEF Owes
  <2>3. MaxQueue \in Nat
    BY SchedulingAssumption, Zenon
  <2>. HIDE DEF c, n
  <2>. QED BY <2>1, <2>2, <2>3
<1>6. /\ p \in 0 .. MaxStop /\ MaxStop \in Nat
      /\ c < E * U => n <= p * U
      /\ c = 0 => n <= p * U
      /\ c > 0 /\ c >= E * U => p >= E
  BY <1>5, PlannedStopType, MaxStopType
<1>7. n <= Len(rlc)
  BY <1>1, Zenon DEF Owes
<1>8. MsiUnderway(w)' /\ Planned(w)'
  BY <1>1, <1>2, Zenon DEF MsiUnderway, Planned
<1>9. Served(w)' = 1
  <2>1. Ordinal(tti_tx_dl[w]) = 0
    BY <1>2, OrdinalOf, Zenon
  <2>2. Served(w)' = 0 + 1
    BY <1>1, <2>1, Zenon DEF Served
  <2>. QED BY <2>2
<1>. DEFINE o == Least(n, M * U)
<1>10. Owed(w)' = o
  <2>1. Len(received[w]) = 0
    <3>1. Len(<<>>) = 0
      OBVIOUS
    <3>. QED BY <1>2, <3>1, Zenon
  <2>2. Owed(w)' = promised' - Len(aired) - Len(received[w])
    BY <1>1, Zenon DEF Owed
  <2>. DEFINE a == Len(aired)
  <2>3. a \in Nat /\ promised' = a + o /\ Owed(w)' = promised' - a - 0
    BY <1>1, <1>3, <2>1, <2>2, Zenon
  <2>4. M * U \in Nat
    BY <1>3, <1>4
  <2>5. o \in Nat
    BY <1>3, <2>4 DEF Least
  <2>. HIDE DEF o, a
  <2>. QED BY <2>3, <2>5
<1>. HIDE DEF n, c, p, M, U, E, L
<1>11. M * U \in Nat /\ M * U <= L * U /\ L * U <= E * U /\ L * U \in Nat /\ E * U \in Nat
  BY <1>3, <1>4
<1>12. o \in Nat /\ o <= n /\ o <= M * U
  BY <1>3, <1>11 DEF Least
<1>. HIDE DEF o
<1>13. o <= p * U
  <2>1. p * U \in Int /\ (p >= E => p * U >= E * U)
    BY <1>3, <1>6
  <2>2. CASE c < E * U \/ c = 0
    BY <1>3, <1>6, <1>12, <2>1, <2>2
  <2>3. CASE c > 0 /\ c >= E * U
    BY <1>3, <1>6, <1>11, <1>12, <2>1, <2>3
  <2>. QED BY <1>5, <1>11, <2>2, <2>3
<1>14. ASSUME o > 0 PROVE Room(w, stop)' /\ Room(w, LastIdx)'
  <2>1. (stop' + 1 - Served(w)') * U = p * U
    BY <1>1, <1>6, <1>9
  <2>2. (L + 1 - Served(w)') * U = L * U
    BY <1>3, <1>9
  <2>3. o <= L * U
    BY <1>11, <1>12
  <2>. QED BY <1>10, <1>13, <1>14, <2>1, <2>2, <2>3 DEF Room, U, L
<1>15. Backed(w)'
  <2>1. o <= n /\ o <= Len(rlc)
    BY <1>3, <1>7, <1>12
  <2>. QED BY <1>1, <1>10, <2>1, Zenon DEF Backed, n
<1>16. Served(w)' > 0
  BY <1>9
<1>17. promised' \in Nat
  <2>. DEFINE a == Len(aired)
  <2>1. promised' = a + o /\ a \in Nat
    BY <1>1, <1>3, Zenon DEF o, n, M, U
  <2>. HIDE DEF a
  <2>. QED BY <1>12, <2>1
<1>. QED BY <1>1, <1>7, <1>8, <1>10, <1>14, <1>15, <1>16, <1>17, Zenon DEF Owes, n

\* A subframe behind the plan's stop owes nothing.
LEMMA SelectOwes ==
  ASSUME TypeInv, CasAligned, McchOnlyFirst, NEW w \in Workers, Block(w), PlanAt(w), Owes(w), SelectMtch(w)
  PROVE  Owes(w)'
<1>1. /\ pc[w] = "mtch"
      /\ UNCHANGED <<promised, stop, lcid_buffer_size, rlc, aired, received, announced, tti_tx_dl>>
      /\ \/ /\ current_sf_allocation_num <= stop
            /\ requested' = [requested EXCEPT ![w] = Least(UnitsPerSf, lcid_buffer_size)]
            /\ pc'[w] = "read"
         \/ ~(current_sf_allocation_num <= stop) /\ pc'[w] = "count"
  BY GotoAt, Zenon DEF SelectMtch, At, rlcVars, planVars, workerVars, airVars
<1>2. IsMtch(tti_tx_dl[w]) /\ ~IsMcch(tti_tx_dl[w]) /\ tti_tx_dl[w] \in Ttis
  BY <1>1, Zenon DEF Block, IsMtch, TypeInv, WorkerTypes
<1>3. ~MsiUnderway(w) /\ (Planned(w)' <=> Planned(w))
  BY <1>1, <1>2, Zenon DEF Planned, MsiUnderway
<1>4. /\ Owed(w) \in Int /\ lcid_buffer_size \in Nat /\ UnitsPerSf \in Nat \ {0}
      /\ stop \in 0 .. MaxStop /\ MaxStop \in Nat /\ Len(received[w]) \in Nat
      /\ Len(aired) \in Nat /\ promised \in Nat
  BY OwedTypes, Zenon
<1>5. Counted(w) = Ordinal(tti_tx_dl[w]) /\ Served(w) = Ordinal(tti_tx_dl[w])
  BY <1>1, <1>2, <1>3, Zenon DEF Served, Counted, Done
<1>6. Owed(w)' = Owed(w)
  BY <1>1, Zenon DEF Owed
<1>7. CASE pc'[w] = "read"
  <2>1. Served(w)' = Served(w)
    BY <1>1, <1>2, <1>7, Zenon DEF Served, Counted, Done, MsiUnderway
  <2>2. requested'[w] = Least(UnitsPerSf, lcid_buffer_size)
    <3>1. requested' = [requested EXCEPT ![w] = Least(UnitsPerSf, lcid_buffer_size)]
      BY <1>1, <1>7, Zenon
    <3>. QED BY <3>1, Zenon DEF TypeInv, WorkerTypes
  <2>3. Backed(w) => requested'[w] >= Least(UnitsPerSf, Owed(w))
    <3>1. Backed(w) => Owed(w) <= lcid_buffer_size
      BY Zenon DEF Backed
    <3>. QED BY <1>4, <2>2, <3>1 DEF Least
  <2>4. Backed(w) => Backed(w)'
    BY <1>1, <1>6, <2>3, Zenon DEF Backed
  <2>5. (Room(w, stop) => Room(w, stop)') /\ (Room(w, LastIdx) => Room(w, LastIdx)')
    BY <1>1, <1>6, <2>1, Zenon DEF Room
  <2>. QED BY <1>1, <1>3, <1>6, <2>1, <2>4, <2>5, Zenon DEF Owes
<1>8. CASE ~(current_sf_allocation_num <= stop) /\ pc'[w] = "count"
  <2>1. ASSUME Owed(w) > 0 PROVE FALSE
    <3>1. Room(w, stop) /\ Served(w) > 0
      BY <2>1, Zenon DEF Owes
    <3>. DEFINE k == Ordinal(tti_tx_dl[w])
    <3>2. k \in Nat
      BY <1>2, OrdinalOf, Zenon
    <3>3. Owed(w) <= (stop + 1 - k) * UnitsPerSf /\ k > 0
      BY <1>5, <3>1, Zenon DEF Room
    <3>. HIDE DEF k
    <3>4. k <= stop
      <4>1. \A x \in Int : x <= 0 => x * UnitsPerSf <= 0 /\ x * UnitsPerSf \in Int
        BY <1>4
      <4>. QED BY <1>4, <2>1, <3>2, <3>3, <4>1
    <3>5. Planned(w)
      <4>1. ASSUME promised = 0 PROVE ~(Owed(w) > 0)
        <5>. DEFINE a == Len(aired)
                    r == Len(received[w])
        <5>. HIDE DEF a, r
        <5>1. a \in Nat /\ r \in Nat
          BY <1>4 DEF a, r
        <5>2. ~(0 - a - r > 0)
          BY <5>1
        <5>. QED BY <4>1, <5>2, Zenon DEF Owed, a, r
      <4>. QED BY <2>1, <4>1, Zenon DEF Owes
    <3>6. current_sf_allocation_num = Least(k, MaxStop + 1)
      BY <1>5, <3>3, <3>5, Zenon DEF PlanAt, Counts, k
    <3>. QED BY <1>4, <1>8, <3>2, <3>4, <3>6 DEF Least
  <2>. QED BY <1>1, <1>3, <1>6, <1>8, <2>1, Zenon DEF Owes
<1>. QED BY <1>1, <1>7, <1>8

\* A subframe takes a block full of what is owed, or all of it.
LEMMA ReadOwes ==
  ASSUME TypeInv, CasAligned, McchOnlyFirst, NEW w \in Workers, Block(w), PlanAt(w), Owes(w), ReadPdu(w)
  PROVE  Owes(w)'
<1>. DEFINE n == Least(requested[w], Len(rlc))
            U == UnitsPerSf
            k == Ordinal(tti_tx_dl[w])
            a == Len(aired)
            l == Len(rlc)
<1>1. /\ pc[w] = "read" /\ pc'[w] = "report"
      /\ rlc' = SubSeq(rlc, n + 1, Len(rlc))
      /\ received' = [received EXCEPT ![w] = SubSeq(rlc, 1, n)]
      /\ UNCHANGED <<promised, stop, lcid_buffer_size, aired, announced, tti_tx_dl>>
  BY GotoAt, Zenon DEF ReadPdu, At, planVars, workerVars, airVars
<1>2. /\ IsMtch(tti_tx_dl[w]) /\ ~IsMcch(tti_tx_dl[w]) /\ tti_tx_dl[w] \in Ttis
      /\ received[w] = <<>>
  BY <1>1, Zenon DEF Block, IsMtch, TypeInv, WorkerTypes
<1>3. Planned(w)' <=> Planned(w)
  BY <1>1, <1>2, Zenon DEF Planned, MsiUnderway
<1>4. /\ Owed(w) \in Int /\ lcid_buffer_size \in Nat /\ U \in Nat \ {0} /\ requested[w] \in Nat
      /\ stop \in 0 .. MaxStop /\ MaxStop \in Nat /\ LastIdx \in Nat
      /\ a \in Nat /\ l \in Nat /\ promised \in Nat
  BY OwedTypes, Zenon
<1>5. n \in 0 .. l /\ n <= requested[w] /\ (n = requested[w] \/ n = l)
  BY <1>4 DEF Least
<1>6. k \in Nat /\ Served(w) = k /\ Served(w)' = k + 1
  <2>1. k \in Nat
    BY <1>2, OrdinalOf, Zenon
  <2>2. Served(w) = k /\ Served(w)' = k + 1
    BY <1>1, <1>2, Zenon DEF Served, Counted, Done, MsiUnderway
  <2>. QED BY <2>1, <2>2
<1>7. Len(rlc') = l - n /\ Len(received'[w]) = n /\ Len(received[w]) = 0
  <2>1. rlc \in Seq(Units) /\ received'[w] = SubSeq(rlc, 1, n)
    BY <1>1, Zenon DEF TypeInv, RlcTypes, WorkerTypes
  <2>2. Len(SubSeq(rlc, 1, n)) = n /\ Len(SubSeq(rlc, n + 1, Len(rlc))) = Len(rlc) - n
    BY <1>5, <2>1, SplitLengths, ZenonT(60)
  <2>3. Len(<<>>) = 0
    OBVIOUS
  <2>. QED BY <1>1, <1>2, <2>1, <2>2, <2>3, Zenon
<1>. HIDE DEF n, a, l, U, k
<1>8. n \in Nat
  BY <1>4, <1>5
<1>9. Owed(w) = promised - a /\ Owed(w)' = Owed(w) - n
  <2>1. Owed(w) = promised - a - 0 /\ Owed(w)' = promised - a - n
    BY <1>1, <1>7, Zenon DEF Owed, a
  <2>. QED BY <1>4, <1>8, <2>1
<1>10. ASSUME Owed(w)' > 0
       PROVE  Backed(w)' /\ Served(w)' > 0 /\ Room(w, stop)' /\ Room(w, LastIdx)'
  <2>1. Owed(w) > 0
    BY <1>4, <1>8, <1>9, <1>10
  <2>2. /\ Owed(w) <= lcid_buffer_size /\ Owed(w) <= l /\ requested[w] >= Least(U, Owed(w))
        /\ Room(w, stop) /\ Room(w, LastIdx)
    BY <1>1, <2>1, Zenon DEF Owes, Backed, l, U
  <2>3. n >= U
    BY <1>4, <1>5, <1>8, <1>9, <1>10, <2>1, <2>2 DEF Least
  <2>4. \A m \in Nat : Owed(w) <= (m + 1 - k) * U => Owed(w) - n <= (m + 1 - (k + 1)) * U
    <3>. TAKE m \in Nat
    <3>1. (m + 1 - (k + 1)) * U = (m + 1 - k) * U - U
      BY <1>4, <1>6
    <3>2. (m + 1 - k) * U \in Int
      BY <1>4, <1>6
    <3>. HIDE DEF Room
    <3>. QED BY <1>4, <1>8, <2>3, <3>1, <3>2
  <2>5. stop \in Nat
    BY <1>4
  <2>6. Room(w, stop)' /\ Room(w, LastIdx)'
    <3>1. Owed(w) <= (stop + 1 - k) * U /\ Owed(w) <= (LastIdx + 1 - k) * U
      BY <1>6, <2>2, Zenon DEF Room, U
    <3>2. Owed(w) - n <= (stop + 1 - (k + 1)) * U /\ Owed(w) - n <= (LastIdx + 1 - (k + 1)) * U
      BY <1>4, <2>4, <2>5, <3>1, Zenon
    <3>. QED BY <1>1, <1>6, <1>9, <3>2, Zenon DEF Room, U
  <2>7. Owed(w) - n <= lcid_buffer_size /\ Owed(w) - n <= l - n
    BY <1>4, <1>8, <2>2
  <2>8. Backed(w)'
    BY <1>1, <1>7, <1>9, <2>7, Zenon DEF Backed
  <2>9. Served(w)' > 0
    BY <1>6
  <2>. QED BY <2>6, <2>8, <2>9
<1>. QED BY <1>1, <1>3, <1>10, Zenon DEF Owes

\* RLC reports what is left.
LEMMA ReportOwes ==
  ASSUME TypeInv, CasAligned, McchOnlyFirst, NEW w \in Workers, Block(w), PlanAt(w), Owes(w), ReadReport(w)
  PROVE  Owes(w)'
<1>1. /\ pc[w] = "report" /\ pc'[w] = "pdu" /\ lcid_buffer_size' = Len(rlc)
      /\ UNCHANGED <<promised, stop, rlc, aired, received, announced, tti_tx_dl>>
  BY GotoAt, Zenon DEF ReadReport, At, rlcVars, planVars, workerVars, localVars, airVars
<1>2. ~IsMcch(tti_tx_dl[w])
  BY <1>1, Zenon DEF Block, IsMtch
<1>3. (Planned(w)' <=> Planned(w)) /\ Served(w)' = Served(w) /\ Owed(w)' = Owed(w)
  BY <1>1, <1>2, Zenon DEF Planned, MsiUnderway, Served, Owed
<1>4. Len(rlc) <= Len(rlc)
  <2>1. Len(rlc) \in Nat
    BY OwedTypes, Zenon
  <2>. QED BY <2>1
<1>5. Backed(w) => Backed(w)'
  BY <1>1, <1>3, Zenon DEF Backed
<1>6. (Room(w, stop) => Room(w, stop)') /\ (Room(w, LastIdx) => Room(w, LastIdx)')
  BY <1>1, <1>3, Zenon DEF Room
<1>. QED BY <1>1, <1>3, <1>4, <1>5, <1>6, Zenon DEF Owes

\* The period does not end before everything owed is on the air.
LEMMA EndOwes ==
  ASSUME TypeInv, CasAligned, McchOnlyFirst, WholePeriod, NEW w \in Workers, Block(w), PlanAt(w), Owes(w), WorkerEnd(w)
  PROVE  Owes(w)'
<1>. DEFINE a == Len(aired)
            r == Len(received[w])
            t == tti_tx_dl[w]
            U == UnitsPerSf
<1>1. /\ pc[w] = "end" /\ pc'[w] = "idle"
      /\ announced' = IF encoded[w].kind = "msi" THEN encoded[w].stop ELSE announced
      /\ aired' = aired \o encoded[w].units /\ received'[w] = <<>>
      /\ UNCHANGED <<promised, stop, rlc, lcid_buffer_size, next_tti>>
  BY GotoAt, Zenon DEF WorkerEnd, At, rlcVars, planVars, TypeInv, WorkerTypes
<1>2. encoded[w].units = received[w] /\ t \in Ttis /\ next_tti = NextTti(t)
  <2>1. t \in Ttis /\ next_tti = NextTti(t)
    BY <1>1, Zenon DEF PlanAt, Counts, TypeInv, WorkerTypes
  <2>2. t \in Nat
    BY <2>1 DEF Ttis
  <2>3. received[w] # <<>> => PmchEnabled(t)
    BY <2>2, WithinPmch, Zenon DEF Block, IsMtch
  <2>. QED BY <1>1, <2>1, <2>3, Zenon DEF Block
<1>3. /\ Owed(w) \in Int /\ U \in Nat \ {0} /\ LastIdx \in Nat /\ a \in Nat /\ r \in Nat /\ promised \in Nat
      /\ Served(w) \in Nat
  BY OwedTypes, Zenon
<1>4. Owed(w)' = Owed(w)
  <2>1. Len(aired') = a + r
    <3>1. aired \in Seq(Units) /\ received[w] \in Seq(Units)
      BY Zenon DEF TypeInv, AirTypes, WorkerTypes
    <3>2. Len(aired \o received[w]) = a + r
      BY <3>1
    <3>. QED BY <1>1, <1>2, <3>2, Zenon
  <2>2. Len(received'[w]) = 0
    <3>1. Len(<<>>) = 0
      OBVIOUS
    <3>. QED BY <1>1, <3>1, Zenon
  <2>3. Owed(w)' = promised - (a + r) - 0 /\ Owed(w) = promised - a - r
    BY <1>1, <2>1, <2>2, Zenon DEF Owed
  <2>. HIDE DEF a, r
  <2>. QED BY <1>3, <2>3
<1>5. ~Planned(w)' => promised' = 0
  <2>. SUFFICES ASSUME ~Planned(w)' PROVE promised = 0
    BY <1>1, Zenon
  <2>1. announced' = None
    BY Zenon DEF Planned
  <2>2. encoded[w].stop # None
    <3>1. encoded[w].stop \in 0 .. MaxStop
      BY DEF TypeInv, WorkerTypes, Blocks
    <3>. QED BY <3>1, MaxStopType DEF None
  <2>3. encoded[w].kind # "msi" /\ announced = None
    BY <1>1, <2>1, <2>2, Zenon
  <2>4. ~IsMcch(t)
    BY <1>1, <2>3, Zenon DEF PlanAt, Announces
  <2>. QED BY <2>3, <2>4, Zenon DEF Planned, MsiUnderway, Owes
<1>6. Served(w) = IF IsMbsfnSf(t) THEN Ordinal(t) + 1 ELSE Ordinal(t)
  BY <1>1, Zenon DEF Served, Counted, Done
<1>7. Served(w)' = Ordinal(next_tti)
  BY <1>1, Zenon DEF Served, Counted, Done
<1>8. ASSUME Owed(w) > 0 PROVE Served(w)' = Served(w)
  <2>1. next_tti % (SfPerFrame * MchSchedPeriod) # 0
    <3>. SUFFICES ASSUME next_tti % (SfPerFrame * MchSchedPeriod) = 0 PROVE FALSE
      BY Zenon
    <3>1. IsMbsfnSf(t) /\ Ordinal(t) = LastIdx
      BY <1>2, LastSubframe, Zenon
    <3>2. Owed(w) <= (LastIdx + 1 - (LastIdx + 1)) * U
      BY <1>6, <1>8, <3>1, ZenonT(60) DEF Owes, Room
    <3>. QED BY <1>3, <1>8, <3>2
  <2>2. Ordinal(next_tti) = Ordinal(t) + (IF IsMbsfnSf(t) THEN 1 ELSE 0)
    BY <1>2, <2>1, NextOrdinal, ZenonT(60)
  <2>3. Ordinal(t) \in Nat
    BY <1>2, OrdinalOf, Zenon
  <2>. QED BY <1>6, <1>7, <2>2, <2>3
<1>9. Backed(w) => Backed(w)'
  BY <1>1, <1>4, Zenon DEF Backed
<1>10. ASSUME Owed(w) > 0 PROVE (Room(w, stop) => Room(w, stop)') /\ (Room(w, LastIdx) => Room(w, LastIdx)')
  BY <1>1, <1>4, <1>8, <1>10, Zenon DEF Room
<1>11. lcid_buffer_size' <= Len(rlc')
  BY <1>1, Zenon DEF Owes
<1>. QED BY <1>1, <1>4, <1>5, <1>8, <1>9, <1>10, <1>11, Zenon DEF Owes

\* The stack thread only adds to RLC and reports it.
LEMMA StackOwes ==
  ASSUME TypeInv, CasAligned, McchOnlyFirst, NEW w \in Workers, Owes(w), WriteSdu \/ UpdateBsr
  PROVE  Owes(w)'
<1>1. UNCHANGED <<promised, stop, aired, received, announced, tti_tx_dl, next_tti, pc, total, requested>>
  BY Zenon DEF WriteSdu, UpdateBsr, planVars, workerVars, localVars, airVars
<1>2. (Planned(w)' <=> Planned(w)) /\ Served(w)' = Served(w) /\ Owed(w)' = Owed(w)
  BY <1>1, Zenon DEF Planned, MsiUnderway, Served, Counted, Done, Owed
<1>3. Owed(w) \in Int /\ lcid_buffer_size \in Nat /\ Len(rlc) \in Nat
  BY OwedTypes, Zenon
<1>4. \/ lcid_buffer_size' = lcid_buffer_size /\ (Len(rlc') = Len(rlc) + 1 \/ rlc' = rlc)
      \/ lcid_buffer_size' = Len(rlc) /\ rlc' = rlc
  <2>1. rlc \in Seq(Units)
    BY Zenon DEF TypeInv, RlcTypes
  <2>2. \A x : Len(Append(rlc, x)) = Len(rlc) + 1
    BY <2>1
  <2>. QED BY <2>2, Zenon DEF WriteSdu, UpdateBsr
<1>. DEFINE l == Len(rlc)
<1>. HIDE DEF l
<1>5. \/ lcid_buffer_size' = lcid_buffer_size /\ (Len(rlc') = l + 1 \/ Len(rlc') = l)
      \/ lcid_buffer_size' = l /\ Len(rlc') = l
  BY <1>4, Zenon DEF l
<1>6. l \in Nat
  BY <1>3, Zenon DEF l
<1>7. /\ Owed(w) <= lcid_buffer_size /\ Owed(w) <= l => Owed(w) <= lcid_buffer_size' /\ Owed(w) <= Len(rlc')
      /\ lcid_buffer_size <= l => lcid_buffer_size' <= Len(rlc')
      /\ l <= l
  BY <1>3, <1>5, <1>6
<1>8. Backed(w) => Backed(w)'
  BY <1>1, <1>2, <1>7, Zenon DEF Backed, l
<1>9. (Room(w, stop) => Room(w, stop)') /\ (Room(w, LastIdx) => Room(w, LastIdx)')
  BY <1>1, <1>2, Zenon DEF Room
<1>10. pc'[w] # "report" => lcid_buffer_size' <= Len(rlc')
  BY <1>1, <1>7, Zenon DEF Owes, l
<1>12. pc'[w] = "plan" => total'[w] <= lcid_buffer_size'
  <2>1. total[w] \in 0 .. MaxQueue /\ MaxQueue \in Nat
    BY SchedulingAssumption, Zenon DEF TypeInv, WorkerTypes
  <2>2. pc[w] = "plan" => total[w] <= lcid_buffer_size /\ lcid_buffer_size <= l
    BY Zenon DEF Owes, l
  <2>. QED BY <1>1, <1>3, <1>5, <1>6, <2>1, <2>2
<1>11. /\ ~Planned(w)' => promised' = 0
       /\ Owed(w)' > 0 => Backed(w) /\ Served(w) > 0 /\ Room(w, stop) /\ Room(w, LastIdx)
  BY <1>1, <1>2, Zenon DEF Owes
<1>. QED BY <1>1, <1>2, <1>8, <1>9, <1>10, <1>11, <1>12, Zenon DEF Owes

\* What is known of the debt, whoever the worker is.
OwedInv == \A w \in Workers : Owes(w)

\* Nothing is owed at first.
LEMMA OwedInit == Init => OwedInv
<1>. SUFFICES ASSUME Init, NEW w \in Workers PROVE Owes(w)
  BY Zenon DEF OwedInv
<1>1. rlc = <<>> /\ lcid_buffer_size = 0 /\ promised = 0 /\ aired = <<>> /\ received[w] = <<>>
  BY Zenon DEF Init, PerWorker
<1>2. Len(<<>>) = 0
  OBVIOUS
<1>3. 0 <= 0 /\ ~(0 - 0 - 0 > 0) /\ 0 \in Nat
  OBVIOUS
<1>4. lcid_buffer_size <= Len(rlc) /\ ~(Owed(w) > 0) /\ promised \in Nat
  BY <1>1, <1>2, <1>3, Zenon DEF Owed
<1>5. pc[w] = "idle"
  BY Zenon DEF Init, PerWorker
<1>. QED BY <1>1, <1>4, <1>5, Zenon DEF Owes

\* No step makes a debt that cannot be paid within the period.
LEMMA OwedStep ==
  ASSUME MtchPerPeriod \in 0 .. LastIdx,
         Serial, CasAligned, McchOnlyFirst, WholePeriod, TypeInv, DataInv, PlanInv, OwedInv, [Next]_vars
  PROVE  OwedInv'
<1>1. ASSUME NEW w \in Workers, StartWorker(w) \/ Worker(w) PROVE OwedInv'
  <2>1. Block(w) /\ PlanAt(w) /\ Owes(w)
    BY Zenon DEF DataInv, PlanInv, OwedInv
  <2>2. Owes(w)'
    BY <1>1, <2>1, QuietStepsOwe, TotalOwes, BuildOwes, SelectOwes, ReadOwes, ReportOwes, EndOwes, Zenon DEF Worker
  <2>. QED BY <2>2, Zenon DEF OwedInv, Serial
<1>2. CASE WriteSdu \/ UpdateBsr
  BY <1>2, StackOwes, Zenon DEF OwedInv
<1>3. CASE UNCHANGED vars
  <2>1. UNCHANGED <<promised, stop, lcid_buffer_size, rlc, aired, received, announced, tti_tx_dl,
                    next_tti, pc, total, requested>>
    BY <1>3, Zenon DEF vars, rlcVars, planVars, workerVars, localVars, airVars
  <2>. SUFFICES ASSUME NEW w \in Workers PROVE Owes(w)'
    BY Zenon DEF OwedInv
  <2>2. (Planned(w)' <=> Planned(w)) /\ Served(w)' = Served(w) /\ Owed(w)' = Owed(w)
    BY <2>1, Zenon DEF Planned, MsiUnderway, Served, Counted, Done, Owed
  <2>. QED BY <2>1, <2>2, Zenon DEF OwedInv, Owes, Backed, Room
<1>. QED BY <1>1, <1>2, <1>3 DEF Next

-----------------------------------------------------------------------------
(* The number of MTCH subframes, and the theorem.                          *)

INSTANCE FiniteSetTheorems

\* A period has a number of MTCH subframes.
LEMMA MtchPerPeriodType == MtchPerPeriod \in Nat
<1>. DEFINE T == 0 .. SfPerFrame * MchSchedPeriod - 1
            A == {t \in T : IsMbsfnSf(t) /\ ~IsMcch(t)}
<1>1. IsFiniteSet(T)
  <2>1. SfPerFrame * MchSchedPeriod - 1 \in Int
    BY PeriodAssumption
  <2>. QED BY <2>1, FS_Interval
<1>2. A \in SUBSET T
  BY Zenon
<1>3. IsFiniteSet(A)
  BY <1>1, <1>2, FS_Subset, Zenon
<1>. QED BY <1>3, FS_CardinalityType, Zenon DEF MtchPerPeriod

\* Behind the MCCH, a period has as many PMCH subframes as the last one's index.
LEMMA MtchPerPeriodBound ==
  ASSUME CasAligned, McchOnlyFirst
  PROVE  MtchPerPeriod \in 0 .. LastIdx
<1>. DEFINE b == SfPerFrame * MchSchedPeriod
            A == {t \in 0 .. b - 1 : IsMbsfnSf(t) /\ ~IsMcch(t)}
            I == 1 .. LastIdx
            f == [t \in A |-> SfIdx(t)]
<1>1. /\ SfPerFrame \in Nat /\ SfPerFrame > 1 /\ MchSchedPeriod \in Nat \ {0} /\ CasFrames \in Nat \ {0}
  BY PeriodAssumption DEF McchOnlyFirst
<1>2. b \in Nat \ {0}
  BY <1>1
<1>3. LastIdx \in Nat
  BY LastIdxType, Zenon
<1>4. \A t \in 0 .. b - 1 : t \in Ttis /\ t \in Nat /\ t % b = t
  <2>1. TtiMod \in Nat \ {0} /\ TtiMod % b = 0
    BY CycleAssumption
  <2>. HIDE DEF b
  <2>2. TtiMod >= b
    BY <1>2, <2>1
  <2>. QED BY <1>2, <2>1, <2>2 DEF Ttis
<1>5. \A t \in A : t \in Nat /\ ~IsCas(t) /\ SfIdx(t) \in I /\ t % b = t
  <2>. SUFFICES ASSUME NEW t \in A PROVE t \in Nat /\ ~IsCas(t) /\ SfIdx(t) \in I /\ t % b = t
    BY Zenon
  <2>1. t \in Nat /\ t \in Ttis /\ ~IsCas(t) /\ IsMtch(t) /\ t % b = t
    BY <1>4 DEF IsMtch, IsMbsfnSf
  <2>2. SfIdx(t) \in Nat /\ SfIdx(t) > 0
    BY <2>1, OrdinalOf, Zenon
  <2>3. SfIdx(t) \in 0 .. LastIdx
    BY <2>1, SfIdxBounds, Zenon
  <2>. QED BY <1>3, <2>1, <2>2, <2>3
<1>6. \A t, u \in A : t # u => SfIdx(t) # SfIdx(u)
  <2>1. ASSUME NEW t \in A, NEW u \in A, t < u PROVE SfIdx(t) < SfIdx(u)
    <3>1. t % b < u % b
      BY <1>5, <2>1
    <3>. QED BY <1>5, <2>1, <3>1, SfIdxIncreases
  <2>. HIDE DEF A
  <2>2. \A t \in A : SfIdx(t) \in Int /\ t \in Nat
    BY <1>3, <1>5
  <2>3. \A t, u \in Nat : t # u => t < u \/ u < t
    OBVIOUS
  <2>4. \A x, y \in Int : x < y \/ y < x => x # y
    OBVIOUS
  <2>. QED BY <2>1, <2>2, <2>3, <2>4, Zenon
<1>7. f \in Injection(A, I)
  <2>1. f \in [A -> I]
    BY <1>5, Zenon
  <2>2. IsInjective(f)
    BY <1>6, Zenon DEF IsInjective
  <2>. QED BY <2>1, <2>2, Zenon DEF Injection
<1>8. IsFiniteSet(I) /\ Cardinality(I) = LastIdx
  <2>. HIDE DEF LastIdx
  <2>1. IsFiniteSet(1 .. LastIdx) /\ Cardinality(1 .. LastIdx) = IF 1 > LastIdx THEN 0 ELSE LastIdx - 1 + 1
    BY <1>3, FS_Interval
  <2>. QED BY <1>3, <2>1
<1>9. Cardinality(A) <= Cardinality(I)
  BY <1>7, <1>8, FS_Injection, Zenon
<1>. QED BY <1>3, <1>8, <1>9, MtchPerPeriodType DEF MtchPerPeriod

\* By the time the next plan is made, a period has put on the air all that
\* build_mch_sched counted on when it planned the period: the stop it computes
\* by rounding leaves room for every unit, get_mch_sched asks for data in each
\* subframe up to it, and RLC still has the data.
THEOREM CarriesOutPlan ==
  Serial /\ CasAligned /\ McchOnlyFirst /\ WholePeriod => (Spec => []PlanCarriedOut)
<1>. SUFFICES ASSUME Serial, CasAligned, McchOnlyFirst, WholePeriod PROVE Spec => []PlanCarriedOut
  OBVIOUS
<1>. DEFINE Inv == TypeInv /\ DataInv /\ PlanInv /\ OwedInv
<1>1. Init => Inv
  BY TypeInit, DataInit, PlanInit, OwedInit, Zenon DEF DataInv
<1>2. Inv /\ [Next]_vars => Inv'
  BY TypeStep, DataStep, PlanStep, OwedStep, MtchPerPeriodBound
<1>3. Inv => PlanCarriedOut
  <2>. SUFFICES ASSUME Inv, NEW w \in Workers, pc[w] = "mcch" PROVE Len(aired) >= promised
    BY Zenon DEF PlanCarriedOut, At
  <2>1. Block(w) /\ received[w] = <<>> /\ Owes(w)
    BY Zenon DEF DataInv, Block, OwedInv
  <2>4. ~(Owed(w) > 0)
    BY <2>1, PaidAtMcch, Zenon
  <2>5. Len(received[w]) = 0
    BY <2>1
  <2>. DEFINE a == Len(aired)
  <2>6. a \in Nat /\ promised \in Nat /\ Owed(w) = promised - a - 0
    BY <2>1, <2>5, OwedTypes, Zenon DEF Owed
  <2>. HIDE DEF a
  <2>7. a >= promised
    BY <2>4, <2>6
  <2>. QED BY <2>7 DEF a
<1>. QED BY <1>1, <1>2, <1>3, PTL DEF Spec
=============================================================================
