-------------------------- MODULE CalibrateProofs ---------------------------
(***************************************************************************)
(* What timer_calibrate() finds is right within a factor of two, and so    *)
(* are the delays that are computed from it, for every length of a tick,   *)
(* every first guess and every size of numbers.                            *)
(***************************************************************************)
EXTENDS Calibrate, TLAPS

-----------------------------------------------------------------------------
(***************************************************************************)
(* The inductive invariant.                                                *)
(***************************************************************************)

CTypeOK ==
  /\ tick \in Tick
  /\ pc \in {"approximate", "refine", "calibrated", "delayed", "slept", "assert"}
  /\ loops_per_tick \in Nat
  /\ high_bit \in Nat
  /\ test_bit \in Nat

\* While it doubles: what has been found fits into a tick.
Doubling ==
  pc = "approximate" =>
    /\ loops_per_tick \in 1 .. Word - 1
    /\ FIRST <= tick => loops_per_tick <= tick + Jitter

\* high_bit fits into a tick, twice of it does not; the refinement has set no bit yet,
\* or first one that fits and then, at most, all those below.
Refining ==
  pc \in {"refine", "calibrated", "delayed", "slept"} =>
    /\ tick <= 2 * high_bit + Jitter
    /\ FIRST <= tick => high_bit <= tick + Jitter
    /\ high_bit <= loops_per_tick
    /\ \/ loops_per_tick = high_bit
       \/ loops_per_tick + 2 * test_bit + high_bit <= 2 * (tick + Jitter)

\* Doubling has gone past all numbers.
Wrapped == pc = "assert" /\ FIRST <= tick => Word <= 2 * (tick + Jitter)

CInv == CTypeOK /\ Doubling /\ Refining /\ Wrapped

-----------------------------------------------------------------------------
(***************************************************************************)
(* Arithmetic.                                                             *)
(***************************************************************************)

\* loops_per_tick << 1 wraps at most once.
LEMMA ShiftWraps ==
  ASSUME NEW w \in Nat \ {0}, NEW l \in Nat, l < w
  PROVE  /\ (2 * l) % w \in Nat /\ (2 * l) % w < w
         /\ (2 * l) % w <= 2 * l
         /\ (2 * l) % w = 0 => l = 0 \/ w = 2 * l
<1>1. CASE 2 * l < w
  <2>1. (2 * l) % w = 2 * l BY <1>1, Z3
  <2> QED BY <2>1, <1>1, SMT
<1>2. CASE 2 * l >= w
  <2>1. 2 * l - w \in 0 .. w - 1 BY <1>2, SMT
  <2>2. (2 * l) % w = 2 * l - w BY <2>1, Z3
  <2> QED BY <2>1, <2>2, SMT
<1> QED BY <1>1, <1>2, SMT

-----------------------------------------------------------------------------
(***************************************************************************)
(* The steps.                                                              *)
(***************************************************************************)

\* What is known of the constants and of a tick.
LEMMA TickFacts ==
  ASSUME tick \in Tick
  PROVE  /\ tick \in Nat /\ tick > Jitter /\ Jitter \in Nat
         /\ FIRST \in Nat /\ FIRST > 0 /\ Word \in Nat /\ FIRST < Word
BY CalibrateAssumption, SMT

LEMMA InitInv == Init => CInv
<1> SUFFICES ASSUME Init PROVE CInv
  OBVIOUS
<1>1. tick \in Tick /\ pc = "approximate" /\ loops_per_tick = FIRST /\ high_bit = 0 /\ test_bit = 0
  BY DEF Init
<1>2. CTypeOK
  BY <1>1, TickFacts, SMT DEF CTypeOK
<1>3. Doubling
  BY <1>1, TickFacts, SMT DEF Doubling
<1> QED BY <1>1, <1>2, <1>3 DEF CInv, Refining, Wrapped

LEMMA DoubleInv == CInv /\ Double => CInv'
<1> SUFFICES ASSUME CInv, Double PROVE CInv'
  OBVIOUS
<1>1. /\ pc = "approximate" /\ MayFit(Shifted)
      /\ loops_per_tick' = Shifted
      /\ pc' = IF Shifted = 0 THEN "assert" ELSE "approximate"
      /\ tick' = tick /\ high_bit' = high_bit /\ test_bit' = test_bit
  BY DEF Double
<1>2. CTypeOK
  BY DEF CInv
<1>3. tick \in Nat /\ Jitter \in Nat /\ Word \in Nat \ {0}
  BY <1>2, TickFacts, SMT DEF CTypeOK
<1>4. loops_per_tick \in 1 .. Word - 1 /\ (FIRST <= tick => loops_per_tick <= tick + Jitter)
  BY <1>1 DEF CInv, Doubling
<1>5. /\ Shifted \in Nat /\ Shifted < Word
      /\ Shifted = 0 => Word = 2 * loops_per_tick
  <2>1. loops_per_tick \in Nat /\ loops_per_tick < Word /\ loops_per_tick # 0
    BY <1>3, <1>4, SMT
  <2> QED BY <2>1, <1>3, ShiftWraps DEF Shifted
<1>6. CTypeOK'
  BY <1>1, <1>2, <1>5 DEF CTypeOK
<1>7. Doubling'
  BY <1>1, <1>3, <1>5, SMT DEF Doubling, MayFit
<1>8. Wrapped'
  BY <1>1, <1>3, <1>4, <1>5, SMT DEF Wrapped
<1>9. Refining'
  BY <1>1 DEF Refining
<1> QED BY <1>6, <1>7, <1>8, <1>9 DEF CInv

LEMMA ApproximatedInv == CInv /\ Approximated => CInv'
<1> SUFFICES ASSUME CInv, Approximated PROVE CInv'
  OBVIOUS
<1>1. /\ pc = "approximate" /\ MayBeTooMany(Shifted)
      /\ high_bit' = loops_per_tick /\ test_bit' = loops_per_tick \div 2
      /\ pc' = "refine" /\ tick' = tick /\ loops_per_tick' = loops_per_tick
  BY DEF Approximated
<1>2. CTypeOK
  BY DEF CInv
<1>3. tick \in Nat /\ Jitter \in Nat /\ Word \in Nat \ {0} /\ FIRST \in Nat
  BY <1>2, TickFacts, SMT DEF CTypeOK
<1>4. loops_per_tick \in 1 .. Word - 1 /\ (FIRST <= tick => loops_per_tick <= tick + Jitter)
  BY <1>1 DEF CInv, Doubling
<1>5. Shifted \in Nat /\ Shifted <= 2 * loops_per_tick
  <2>1. loops_per_tick \in Nat /\ loops_per_tick < Word
    BY <1>3, <1>4, SMT
  <2> QED BY <2>1, <1>3, ShiftWraps DEF Shifted
<1>6. CTypeOK'
  <2>1. loops_per_tick \div 2 \in Nat
    BY <1>4, <1>3, SMT
  <2> QED BY <2>1, <1>1, <1>2 DEF CTypeOK
<1>7. tick <= 2 * loops_per_tick + Jitter
  BY <1>1, <1>3, <1>4, <1>5, SMT DEF MayBeTooMany
<1>8. Refining'
  BY <1>1, <1>3, <1>4, <1>7, SMT DEF Refining
<1> QED BY <1>1, <1>6, <1>8 DEF CInv, Doubling, Wrapped

\* A bit that fits on top of high_bit, with all those below it, stays within bounds.
LEMMA RefineInv == CInv /\ Refine => CInv'
<1> SUFFICES ASSUME CInv, Refine PROVE CInv'
  OBVIOUS
<1>1. /\ pc = "refine" /\ pc' = "refine"
      /\ tick' = tick /\ high_bit' = high_bit /\ test_bit' = test_bit \div 2
  BY DEF Refine
<1>2. CTypeOK
  BY DEF CInv
<1>3. tick \in Nat /\ Jitter \in Nat /\ FIRST \in Nat
  BY <1>2, TickFacts, SMT DEF CTypeOK
<1>4. loops_per_tick \in Nat /\ high_bit \in Nat /\ test_bit \in Nat
  BY <1>2 DEF CTypeOK
<1>5. test_bit \div 2 \in Nat /\ 2 * (test_bit \div 2) <= test_bit
  BY <1>4, SMT
<1>6. /\ tick <= 2 * high_bit + Jitter
      /\ FIRST <= tick => high_bit <= tick + Jitter
      /\ high_bit <= loops_per_tick
      /\ \/ loops_per_tick = high_bit
         \/ loops_per_tick + 2 * test_bit + high_bit <= 2 * (tick + Jitter)
  BY <1>1 DEF CInv, Refining
<1>7. \/ high_bit + test_bit <= tick + Jitter /\ loops_per_tick' = loops_per_tick + test_bit
      \/ loops_per_tick' = loops_per_tick
  BY DEF Refine, MayFit
<1>8. loops_per_tick' \in Nat /\ high_bit <= loops_per_tick'
  BY <1>4, <1>6, <1>7, SMT
<1>9. \/ loops_per_tick' = high_bit
      \/ loops_per_tick' + 2 * (test_bit \div 2) + high_bit <= 2 * (tick + Jitter)
  BY <1>3, <1>4, <1>5, <1>6, <1>7, SMT
<1>10. CTypeOK'
  BY <1>1, <1>2, <1>5, <1>8 DEF CTypeOK
<1>11. Refining'
  BY <1>1, <1>6, <1>8, <1>9 DEF Refining
<1> QED BY <1>1, <1>10, <1>11 DEF CInv, Doubling, Wrapped

\* What happens after calibration leaves it alone.
LEMMA RestInv ==
  ASSUME CInv, UNCHANGED <<tick, bits>>,
         \/ UNCHANGED pc
         \/ pc \in {"refine", "calibrated"} /\ pc' \in {"calibrated", "delayed", "slept"}
  PROVE  CInv'
<1>1. tick' = tick /\ loops_per_tick' = loops_per_tick /\ high_bit' = high_bit /\ test_bit' = test_bit
  BY DEF bits
<1> QED BY <1>1 DEF CInv, CTypeOK, Doubling, Refining, Wrapped

\* The invariant holds throughout.
THEOREM CalibrationInvariant == Spec => []CInv
<1>1. CInv /\ [Next]_vars => CInv'
  <2> SUFFICES ASSUME CInv, [Next]_vars PROVE CInv'
    OBVIOUS
  <2>1. CASE Double
    BY <2>1, DoubleInv
  <2>2. CASE Approximated
    BY <2>2, ApproximatedInv
  <2>3. CASE Refine
    BY <2>3, RefineInv
  <2>4. CASE Refined
    BY <2>4, RestInv DEF Refined
  <2>5. CASE \E num \in Num, denom \in Denom : Delay(num, denom) \/ Sleep(num, denom)
    <3>1. /\ UNCHANGED <<tick, bits>>
          /\ pc = "calibrated" /\ pc' \in {"delayed", "slept"}
      BY <2>5 DEF Delay, Sleep
    <3> QED BY <3>1, RestInv
  <2>6. CASE UNCHANGED vars
    BY <2>6, RestInv DEF vars
  <2> QED BY <2>1, <2>2, <2>3, <2>4, <2>5, <2>6 DEF Next
<1> QED BY InitInv, <1>1, PTL DEF Spec

\* What has been found and what is still to be tried bound the result.
LEMMA CInvAccurate == CInv => Accurate
<1> SUFFICES ASSUME CInv PROVE Accurate
  OBVIOUS
<1>1. tick \in Nat /\ Jitter \in Nat /\ FIRST \in Nat
  BY TickFacts DEF CInv, CTypeOK
<1>2. loops_per_tick \in Nat /\ high_bit \in Nat /\ test_bit \in Nat
  BY DEF CInv, CTypeOK
<1>3. ASSUME Calibrated
      PROVE  /\ tick <= 2 * loops_per_tick + Jitter
             /\ FIRST <= tick => loops_per_tick + high_bit <= 2 * (tick + Jitter)
  <2>1. /\ tick <= 2 * high_bit + Jitter
        /\ FIRST <= tick => high_bit <= tick + Jitter
        /\ high_bit <= loops_per_tick
        /\ \/ loops_per_tick = high_bit
           \/ loops_per_tick + 2 * test_bit + high_bit <= 2 * (tick + Jitter)
    BY <1>3 DEF CInv, Refining, Calibrated
  <2> QED BY <2>1, <1>1, <1>2, SMT
<1>4. pc = "assert" /\ FIRST <= tick => Word <= 2 * (tick + Jitter)
  BY DEF CInv, Wrapped
<1> QED BY <1>3, <1>4 DEF Accurate

\* timer_calibrate(): loops_per_tick is at least half of the loops in a tick and less than
\* twice of them, and the ASSERT of line 57 fails only if a tick takes half of all numbers.
THEOREM CalibrationAccurate == Spec => []Accurate
BY CalibrationInvariant, CInvAccurate, PTL

-----------------------------------------------------------------------------
(***************************************************************************)
(* Products, quotients and powers of two.                                  *)
(***************************************************************************)

\* A quotient and what it was rounded from.
LEMMA Rounded ==
  ASSUME NEW a \in Nat, NEW b \in Nat \ {0}
  PROVE  /\ a \div b \in Nat
         /\ b * (a \div b) <= a
         /\ a < b * (a \div b) + b
BY Z3

\* Division undoes multiplication.
LEMMA DivOfProduct ==
  ASSUME NEW m \in Nat, NEW b \in Nat \ {0}
  PROVE  (b * m) \div b = m
<1>1. /\ (b * m) \in Nat
  BY Z3
<1>2. PICK x \in Nat : x = (b * m) \div b
  BY <1>1, Rounded
<1>3. b * x <= b * m /\ b * m < b * x + b
  BY <1>1, <1>2, Rounded
<1>4. ASSUME x + 1 <= m PROVE FALSE
  <2>1. b * (x + 1) <= b * m
    BY <1>4, Z3
  <2> QED
    BY <1>3, <2>1, Z3
<1>5. ASSUME m + 1 <= x PROVE FALSE
  <2>1. b * (m + 1) <= b * x
    BY <1>5, Z3
  <2>2. b * (m + 1) = b * m + b
    BY Z3
  <2> QED
    BY <1>1, <1>3, <2>1, <2>2, Z3
<1> QED
  BY <1>2, <1>4, <1>5, Z3

\* What divides is a factor.
LEMMA Divides ==
  ASSUME NEW a \in Nat, NEW d \in Nat \ {0}
  PROVE  a % d = 0 <=> \E e \in Nat : a = d * e
<1>1. ASSUME a % d = 0 PROVE \E e \in Nat : a = d * e
  <2>1. a = d * (a \div d) /\ a \div d \in Nat
    BY <1>1, Z3
  <2> QED
    BY <2>1
<1>2. ASSUME NEW e \in Nat, a = d * e PROVE a % d = 0
  BY <1>2, Z3
<1> QED
  BY <1>1, <1>2

\* A power of two beyond 1 is twice a power of two.
LEMMA HalfOfPower ==
  ASSUME NEW p \in Nat, p > 1, PowerOf2(p)
  PROVE  \E h \in Nat \ {0} : p = 2 * h /\ PowerOf2(h)
<1>1. p % p = 0 /\ p \in 2 .. p
  BY Z3
<1>2. p % 2 = 0
  BY <1>1 DEF PowerOf2
<1>3. PICK h \in Nat \ {0} : p = 2 * h
  BY <1>2, Z3
<1>4. ASSUME NEW d \in 2 .. h, h % d = 0 PROVE d % 2 = 0
  <2>1. PICK e \in Nat : h = d * e
    BY <1>4, Divides
  <2>2. p = d * (2 * e)
    BY <1>3, <2>1, Z3
  <2>3. p % d = 0 /\ d \in 2 .. p
    <3>1. 2 * e \in Nat /\ d \in Nat \ {0} /\ d \in 2 .. p
      BY <1>3, Z3
    <3> QED
      BY <2>2, <3>1, Divides
  <2> QED
    BY <2>3 DEF PowerOf2
<1> QED
  BY <1>3, <1>4 DEF PowerOf2

\* So is what is left of it when a factor has been taken out.
LEMMA FactorOfPower ==
  ASSUME NEW w \in Nat, NEW a \in Nat \ {0}, NEW q \in Nat \ {0}, w = a * q, PowerOf2(w)
  PROVE  PowerOf2(q)
<1>1. ASSUME NEW d \in 2 .. q, q % d = 0 PROVE d % 2 = 0
  <2>0. d \in Nat \ {0}
    BY Z3
  <2>1. PICK e \in Nat : q = d * e
    BY <2>0, <1>1, Divides
  <2>2. w = d * (a * e) /\ a * e \in Nat
    BY <2>1, Z3
  <2>3. q <= w
    BY Z3
  <2>4. w % d = 0 /\ d \in 2 .. w
    <3>1. d \in Nat \ {0} /\ d \in 2 .. w
      BY <2>3, Z3
    <3> QED
      BY <2>2, <3>1, Divides
  <2> QED
    BY <2>4 DEF PowerOf2
<1> QED
  BY <1>1 DEF PowerOf2

-----------------------------------------------------------------------------
(***************************************************************************)
(* The bits.                                                               *)
(***************************************************************************)

\* high_bit is the first guess times some m, what is doubled divides Word, and each bit
\* tried is m times a power of two: none is lost in a division before high_bit / FIRST.
\* What is still to be tried makes up for what a tick has beyond loops_per_tick.
BitInv ==
  /\ pc = "approximate" =>
       \E m, q \in Nat \ {0} :
          /\ loops_per_tick = FIRST * m
          /\ Word = loops_per_tick * q
          /\ PowerOf2(q)
  /\ pc = "refine" =>
       /\ \E m, p \in Nat \ {0} : high_bit = FIRST * m /\ test_bit = m * p /\ PowerOf2(p)
       /\ tick <= loops_per_tick + 2 * test_bit + Jitter
  /\ Calibrated =>
       /\ 0 < loops_per_tick
       /\ tick <= loops_per_tick + 2 * (high_bit \div FIRST) + Jitter

LEMMA InitBit == Init => BitInv
<1> SUFFICES ASSUME Init PROVE BitInv
  OBVIOUS
<1>1. pc = "approximate" /\ loops_per_tick = FIRST
  BY DEF Init
<1>2. FIRST \in Nat \ {0} /\ Word \in Nat /\ FIRST < Word
  BY CalibrateAssumption, Z3
<1>3. PICK q \in Nat : Word = FIRST * q
  BY <1>2, PowerAssumption, Divides
<1>4. q # 0
  BY <1>2, <1>3, Z3
<1>5. PowerOf2(q)
  BY <1>2, <1>3, <1>4, PowerAssumption, FactorOfPower
<1>6. FIRST = FIRST * 1 /\ Word = loops_per_tick * q /\ 1 \in Nat \ {0}
  BY <1>1, <1>2, <1>3, Z3
<1> QED
  BY <1>1, <1>4, <1>5, <1>6 DEF BitInv, Calibrated

LEMMA DoubleBit == CInv /\ BitInv /\ Double => BitInv'
<1> SUFFICES ASSUME CInv, BitInv, Double PROVE BitInv'
  OBVIOUS
<1>1. /\ pc = "approximate" /\ loops_per_tick' = Shifted
      /\ pc' = IF Shifted = 0 THEN "assert" ELSE "approximate"
  BY DEF Double
<1>2. PICK m, q \in Nat \ {0} :
        loops_per_tick = FIRST * m /\ Word = loops_per_tick * q /\ PowerOf2(q)
  BY <1>1 DEF BitInv
<1>3. /\ loops_per_tick \in Nat \ {0} /\ loops_per_tick < Word
      /\ FIRST \in Nat \ {0} /\ Word \in Nat
  BY <1>1, CalibrateAssumption, Z3 DEF CInv, Doubling
<1>4. q > 1
  <2>1. q # 1
    BY <1>2, <1>3, Z3
  <2> QED
    BY <2>1, Z3
<1>5. PICK h \in Nat \ {0} : q = 2 * h /\ PowerOf2(h)
  BY <1>2, <1>4, HalfOfPower
<1>6. Word = (2 * loops_per_tick) * h
  BY <1>2, <1>3, <1>5, Z3
<1>7. CASE h = 1
  <2>1. Word = 2 * loops_per_tick
    BY <1>3, <1>6, <1>7, Z3
  <2>2. Shifted = 0
    BY <1>3, <2>1, Z3 DEF Shifted
  <2> QED
    BY <1>1, <2>2 DEF BitInv, Calibrated
<1>8. CASE h > 1
  <2>1. 2 * loops_per_tick < Word
    BY <1>3, <1>6, <1>8, Z3
  <2>2. Shifted = 2 * loops_per_tick
    BY <1>3, <2>1, Z3 DEF Shifted
  <2>3. pc' = "approximate"
    BY <1>1, <1>3, <2>2, Z3
  <2>4. loops_per_tick' = FIRST * (2 * m) /\ 2 * m \in Nat \ {0}
    BY <1>1, <1>2, <1>3, <2>2, Z3
  <2>5. Word' = loops_per_tick' * h
    BY <1>1, <1>6, <2>2
  <2> QED
    BY <1>5, <2>3, <2>4, <2>5 DEF BitInv, Calibrated
<1> QED
  BY <1>7, <1>8, Z3

LEMMA ApproximatedBit == CInv /\ CInv' /\ BitInv /\ Approximated => BitInv'
<1> SUFFICES ASSUME CInv, CInv', BitInv, Approximated PROVE BitInv'
  OBVIOUS
<1>1. /\ pc = "approximate" /\ pc' = "refine"
      /\ high_bit' = loops_per_tick /\ test_bit' = loops_per_tick \div 2
      /\ loops_per_tick' = loops_per_tick
  BY DEF Approximated
<1>2. PICK m \in Nat \ {0} : loops_per_tick = FIRST * m
  BY <1>1 DEF BitInv
<1>3. FIRST \in Nat /\ FIRST > 1
  BY CalibrateAssumption, Z3
<1>4. PICK f \in Nat \ {0} : FIRST = 2 * f /\ PowerOf2(f)
  BY <1>3, PowerAssumption, HalfOfPower
<1>5. loops_per_tick = 2 * (m * f) /\ m * f \in Nat
  BY <1>2, <1>4, Z3
<1>6. test_bit' = m * f
  BY <1>1, <1>5, Z3
<1>7. tick' <= 2 * high_bit' + Jitter
  BY <1>1 DEF CInv, Refining
<1>8. tick' <= loops_per_tick' + 2 * test_bit' + Jitter
  <2>1. tick' \in Nat /\ Jitter \in Nat
    BY CalibrateAssumption DEF CInv, CTypeOK
  <2>2. PICK x \in Nat : x = m * f
    BY <1>5
  <2>3. loops_per_tick' = 2 * x /\ high_bit' = 2 * x /\ test_bit' = x
    BY <1>1, <1>5, <1>6, <2>2
  <2>4. tick' <= 2 * (2 * x) + Jitter
    BY <1>7, <2>3
  <2>5. tick' <= 2 * x + 2 * x + Jitter
    BY <2>1, <2>4, Z3
  <2> QED
    BY <2>3, <2>5
<1> QED
  BY <1>1, <1>2, <1>4, <1>6, <1>8 DEF BitInv, Calibrated

LEMMA RefineBit == CInv /\ BitInv /\ Refine => BitInv'
<1> SUFFICES ASSUME CInv, BitInv, Refine PROVE BitInv'
  OBVIOUS
<1>1. /\ pc = "refine" /\ pc' = "refine" /\ test_bit # high_bit \div FIRST
      /\ high_bit' = high_bit /\ test_bit' = test_bit \div 2 /\ tick' = tick
  BY DEF Refine
<1>2. PICK m, p \in Nat \ {0} : high_bit = FIRST * m /\ test_bit = m * p /\ PowerOf2(p)
  BY <1>1 DEF BitInv
<1>3. FIRST \in Nat \ {0}
  BY CalibrateAssumption, Z3
<1>4. high_bit \div FIRST = m
  BY <1>2, <1>3, DivOfProduct
<1>5. p > 1
  <2>1. p # 1
    BY <1>1, <1>2, <1>4, Z3
  <2> QED
    BY <2>1, Z3
<1>6. PICK h \in Nat \ {0} : p = 2 * h /\ PowerOf2(h)
  BY <1>2, <1>5, HalfOfPower
<1>7. PICK x \in Nat : x = m * h
  BY Z3
<1>8. test_bit = 2 * x /\ test_bit' = x
  <2>1. test_bit = 2 * x
    BY <1>2, <1>6, <1>7, Z3
  <2> QED
    BY <1>1, <2>1, Z3
<1>9. tick' <= loops_per_tick' + 2 * test_bit' + Jitter
  <2>1. /\ tick \in Nat /\ Jitter \in Nat /\ loops_per_tick \in Nat /\ high_bit \in Nat
    BY TickFacts DEF CInv, CTypeOK
  <2>2. tick <= loops_per_tick + 2 * (2 * x) + Jitter /\ high_bit <= loops_per_tick
    BY <1>1, <1>8 DEF BitInv, CInv, Refining
  <2>3. CASE loops_per_tick' = loops_per_tick + 2 * x
    BY <1>1, <1>8, <2>1, <2>2, <2>3, Z3
  <2>4. CASE high_bit + 2 * x + Jitter >= tick /\ loops_per_tick' = loops_per_tick
    BY <1>1, <1>8, <2>1, <2>2, <2>4, Z3
  <2> QED
    BY <1>8, <2>3, <2>4 DEF Refine, MayBeTooMany
<1> QED
  BY <1>1, <1>2, <1>6, <1>7, <1>8, <1>9 DEF BitInv, Calibrated

LEMMA RefinedBit == CInv /\ BitInv /\ Refined => BitInv'
<1> SUFFICES ASSUME CInv, BitInv, Refined PROVE BitInv'
  OBVIOUS
<1>1. /\ pc = "refine" /\ pc' = "calibrated" /\ test_bit = high_bit \div FIRST
      /\ high_bit' = high_bit /\ loops_per_tick' = loops_per_tick /\ tick' = tick
  BY DEF Refined, bits
<1>2. tick' <= loops_per_tick' + 2 * (high_bit' \div FIRST) + Jitter
  BY <1>1 DEF BitInv
<1>3. 0 < loops_per_tick'
  <2>1. PICK m \in Nat \ {0} : high_bit = FIRST * m
    BY <1>1 DEF BitInv
  <2>2. FIRST \in Nat \ {0}
    BY CalibrateAssumption, Z3
  <2>3. high_bit \in Nat \ {0}
    BY <2>1, <2>2, Z3
  <2>4. loops_per_tick \in Nat /\ high_bit <= loops_per_tick
    BY <1>1 DEF CInv, CTypeOK, Refining
  <2> QED
    BY <1>1, <2>3, <2>4, Z3
<1> QED
  BY <1>1, <1>2, <1>3 DEF BitInv, Calibrated

LEMMA RestBit ==
  ASSUME BitInv, UNCHANGED <<tick, bits>>,
         UNCHANGED pc \/ (pc = "calibrated" /\ pc' \in {"delayed", "slept"})
  PROVE  BitInv'
<1>1. tick' = tick /\ loops_per_tick' = loops_per_tick /\ high_bit' = high_bit /\ test_bit' = test_bit
  BY DEF bits
<1> QED
  BY <1>1 DEF BitInv, Calibrated

-----------------------------------------------------------------------------
(***************************************************************************)
(* The sleeps and delays.                                                  *)
(***************************************************************************)

\* Each denominator is Scale times what the code divides by last.
LEMMA Denominators ==
  ASSUME NEW denom \in Denom
  PROVE  /\ Scale \in Nat \ {0}
         /\ \E e \in Nat \ {0} : denom = Scale * e /\ denom \div Scale = e
<1>1. Scale \in Nat \ {0}
  BY CalibrateAssumption
<1>2. PICK e \in Nat \ {0} : denom = Scale * e
  <2>1. denom = Scale * 1 \/ denom = Scale * Scale \/ denom = Scale * (Scale * Scale)
    BY <1>1, Z3 DEF Denom
  <2>2. 1 \in Nat \ {0} /\ Scale * Scale \in Nat \ {0}
    BY <1>1, Z3
  <2> QED
    BY <1>1, <2>1, <2>2
<1> QED
  BY <1>1, <1>2, DivOfProduct

\* C rounds towards zero.
LEMMA QuotientSign ==
  ASSUME NEW a \in Int, NEW b \in Nat \ {0}
  PROVE  /\ Quotient(a, b) \in Int
         /\ a <= 0 => Quotient(a, b) <= 0
         /\ a >= 0 => Quotient(a, b) = a \div b /\ a \div b \in Nat
<1>1. CASE a >= 0
  <2>1. a \in Nat
    BY <1>1, Z3
  <2>2. Quotient(a, b) = a \div b
    BY <1>1 DEF Quotient
  <2>3. a = 0 => a \div b = 0
    BY Z3
  <2> QED
    BY <1>1, <2>1, <2>2, <2>3, Rounded, Z3
<1>2. CASE a < 0
  <2>1. - a \in Nat
    BY <1>2, Z3
  <2>2. PICK x \in Nat : x = (- a) \div b
    BY <2>1, Rounded
  <2>3. Quotient(a, b) = - x
    BY <1>2, <2>2, Z3 DEF Quotient
  <2> QED
    BY <1>2, <2>2, <2>3, Z3
<1> QED
  BY <1>1, <1>2, Z3

\* Nobody delays for no time or less.
LEMMA NoDelay ==
  ASSUME loops_per_tick \in Nat, NEW num \in Int, num <= 0, NEW denom \in Denom
  PROVE  delay_loops(num, denom) = 0
<1>1. Scale \in Nat \ {0} /\ TIMER_FREQ \in Nat \ {0}
  BY CalibrateAssumption
<1>2. PICK e \in Nat \ {0} : denom \div Scale = e
  BY Denominators
<1>3. loops_per_tick * num \in Int /\ loops_per_tick * num <= 0
  BY Z3
<1>4. PICK q \in Int : q = Quotient(loops_per_tick * num, Scale) /\ q <= 0
  BY <1>1, <1>3, QuotientSign
<1>5. q * TIMER_FREQ \in Int /\ q * TIMER_FREQ <= 0
  BY <1>1, <1>4, Z3
<1>6. PICK r \in Int : r = Quotient(q * TIMER_FREQ, e) /\ r <= 0
  BY <1>2, <1>5, QuotientSign
<1>7. delay_loops(num, denom) = busy_wait(r)
  BY <1>2, <1>4, <1>6 DEF delay_loops
<1> QED
  BY <1>6, <1>7, Z3 DEF busy_wait

\* A delay is as long as asked for, in loops_per_tick, but for what two divisions round off.
LEMMA DelayBounds ==
  ASSUME loops_per_tick \in Nat, NEW num \in Nat, NEW denom \in Denom
  PROVE  /\ delay_loops(num, denom) \in Nat
         /\ delay_loops(num, denom) * denom <= num * TIMER_FREQ * loops_per_tick
         /\ num * TIMER_FREQ * loops_per_tick
              < (delay_loops(num, denom) + 1) * denom + Scale * TIMER_FREQ
<1>1. Scale \in Nat \ {0} /\ TIMER_FREQ \in Nat \ {0}
  BY CalibrateAssumption
<1>2. PICK e \in Nat \ {0} : denom = Scale * e /\ denom \div Scale = e
  BY Denominators
<1>3. PICK a \in Nat : a = loops_per_tick * num
  BY Z3
<1>4. PICK q \in Nat : /\ q = Quotient(a, Scale)
                       /\ Scale * q <= a /\ a < Scale * q + Scale
  <2>1. Quotient(a, Scale) = a \div Scale
    <3>1. a \in Int /\ a >= 0
      BY Z3
    <3> QED
      BY <1>1, <3>1, QuotientSign
  <2> QED
    BY <1>1, <1>3, <2>1, Rounded
<1>5. PICK b \in Nat : b = q * TIMER_FREQ
  BY <1>1, <1>4, Z3
<1>6. PICK r \in Nat : /\ r = Quotient(b, e)
                       /\ e * r <= b /\ b < e * r + e
  <2>1. Quotient(b, e) = b \div e
    <3>1. b \in Int /\ b >= 0
      BY Z3
    <3> QED
      BY <3>1, QuotientSign
  <2> QED
    BY <1>2, <1>5, <2>1, Rounded
<1>7. delay_loops(num, denom) = r
  <2>1. delay_loops(num, denom) = busy_wait(r)
    BY <1>2, <1>3, <1>4, <1>5, <1>6 DEF delay_loops
  <2> QED
    BY <1>6, <2>1, Z3 DEF busy_wait
<1>8. r * denom <= a * TIMER_FREQ
  <2>1. Scale * (e * r) <= Scale * b
    BY <1>1, <1>2, <1>5, <1>6, Z3
  <2>2. Scale * b <= a * TIMER_FREQ
    <3>1. (Scale * q) * TIMER_FREQ <= a * TIMER_FREQ
      BY <1>1, <1>3, <1>4, Z3
    <3> QED
      BY <1>1, <1>3, <1>4, <1>5, <3>1, Z3
  <2>3. r * denom = Scale * (e * r)
    BY <1>1, <1>2, <1>6, Z3
  <2> QED
    BY <1>1, <1>2, <1>3, <1>5, <1>6, <2>1, <2>2, <2>3, Z3
<1>9. a * TIMER_FREQ < (r + 1) * denom + Scale * TIMER_FREQ
  <2>1. Scale * b < Scale * (e * r + e)
    BY <1>1, <1>2, <1>5, <1>6, Z3
  <2>2. a * TIMER_FREQ < Scale * b + Scale * TIMER_FREQ
    <3>1. a * TIMER_FREQ < (Scale * q + Scale) * TIMER_FREQ
      BY <1>1, <1>3, <1>4, Z3
    <3> QED
      BY <1>1, <1>3, <1>4, <1>5, <3>1, Z3
  <2>3. (r + 1) * denom = Scale * (e * r + e)
    BY <1>1, <1>2, <1>6, Z3
  <2> QED
    BY <1>1, <1>2, <1>3, <1>5, <1>6, <2>1, <2>2, <2>3, Z3
<1>10. num * TIMER_FREQ * loops_per_tick = a * TIMER_FREQ
  BY <1>1, <1>3, Z3
<1> QED
  BY <1>6, <1>7, <1>8, <1>9, <1>10

\* With what has been measured, a delay lasts as long as TimeKept says.
LEMMA DelayInTime ==
  ASSUME CInv, BitInv, pc = "calibrated", NEW num \in Num, NEW denom \in Denom,
         NEW loops, loops = delay_loops(num, denom)
  PROVE  /\ num <= 0 => loops = 0
         /\ num > 0 =>
              /\ (loops + 1) * denom + Scale * TIMER_FREQ
                   > Exact(num, tick - Jitter - 2 * (high_bit \div FIRST))
              /\ FIRST <= tick => loops * denom <= Exact(num, 2 * (tick + Jitter) - high_bit)
<1>1. /\ tick \in Nat /\ Jitter \in Nat /\ FIRST \in Nat \ {0} /\ num \in Int
      /\ Scale \in Nat \ {0} /\ TIMER_FREQ \in Nat \ {0}
      /\ loops_per_tick \in Nat /\ high_bit \in Nat
  BY CalibrateAssumption, TickFacts, Z3 DEF CInv, CTypeOK
<1>2. num <= 0 => loops = 0
  BY <1>1, NoDelay
<1>3. ASSUME num > 0
      PROVE  /\ (loops + 1) * denom + Scale * TIMER_FREQ
                   > Exact(num, tick - Jitter - 2 * (high_bit \div FIRST))
             /\ FIRST <= tick => loops * denom <= Exact(num, 2 * (tick + Jitter) - high_bit)
  <2>1. PICK k \in Nat : k = num * TIMER_FREQ
    BY <1>1, <1>3, Z3
  <2>2. /\ loops \in Nat /\ loops * denom <= k * loops_per_tick
        /\ k * loops_per_tick < (loops + 1) * denom + Scale * TIMER_FREQ
    <3>1. num \in Nat
      BY <1>1, <1>3, Z3
    <3> QED
      BY <1>1, <2>1, <3>1, DelayBounds
  <2>3. denom \in Nat
    BY <1>1, Z3 DEF Denom
  <2>4. PICK least \in Int : /\ least = tick - Jitter - 2 * (high_bit \div FIRST)
                             /\ least <= loops_per_tick
    <3>1. PICK h \in Nat : h = high_bit \div FIRST
      BY <1>1, Rounded
    <3>2. tick <= loops_per_tick + 2 * h + Jitter
      BY <3>1 DEF BitInv, Calibrated
    <3> QED
      BY <1>1, <3>1, <3>2, Z3
  <2>5. k * least <= k * loops_per_tick
    BY <1>1, <2>4, Z3
  <2>6. (loops + 1) * denom + Scale * TIMER_FREQ > k * least
    BY <1>1, <2>2, <2>3, <2>5, Z3
  <2>7. ASSUME FIRST <= tick
        PROVE  loops * denom <= k * (2 * (tick + Jitter) - high_bit)
    <3>1. loops_per_tick + high_bit <= 2 * (tick + Jitter)
      BY <1>1, <2>7, CInvAccurate DEF Accurate, Calibrated
    <3>2. PICK most \in Int : most = 2 * (tick + Jitter) - high_bit /\ loops_per_tick <= most
      BY <1>1, <3>1, Z3
    <3>3. k * loops_per_tick <= k * most
      BY <1>1, <3>2, Z3
    <3> QED
      BY <1>1, <2>2, <2>3, <3>2, <3>3, Z3
  <2> QED
    BY <2>1, <2>4, <2>6, <2>7 DEF Exact
<1> QED
  BY <1>2, <1>3

\* A sleep is rounded down to whole ticks; where that leaves none, the delay is below one.
LEMMA SleepInTime ==
  ASSUME CInv, BitInv, pc = "calibrated", NEW num \in Num, NEW denom \in Denom,
         NEW ticks, ticks = Quotient(num * TIMER_FREQ, denom)
  PROVE  /\ ticks \in Int
         /\ ticks > 0 => /\ ticks * denom <= num * TIMER_FREQ
                         /\ num * TIMER_FREQ < (ticks + 1) * denom
         /\ ticks <= 0 => delay_loops(num, denom) < loops_per_tick
<1>1. /\ num \in Int /\ Scale \in Nat \ {0} /\ TIMER_FREQ \in Nat \ {0}
      /\ loops_per_tick \in Nat
  BY CalibrateAssumption DEF CInv, CTypeOK
<1>2. loops_per_tick > 0
  BY DEF BitInv, Calibrated
<1>3. denom \in Nat \ {0}
  BY <1>1, Z3 DEF Denom
<1>4. PICK k \in Int : k = num * TIMER_FREQ
  BY <1>1, Z3
<1>5. ticks \in Int
  BY <1>3, <1>4, QuotientSign
<1>6. CASE num <= 0
  <2>1. k <= 0
    BY <1>1, <1>4, <1>6, Z3
  <2>2. ticks <= 0
    BY <1>3, <1>4, <2>1, QuotientSign
  <2>3. delay_loops(num, denom) = 0
    BY <1>1, <1>6, NoDelay
  <2> QED
    BY <1>2, <1>5, <2>2, <2>3, Z3
<1>7. CASE num > 0
  <2>1. k \in Nat
    BY <1>1, <1>4, <1>7, Z3
  <2>2. ticks = k \div denom
    <3>1. k >= 0
      BY <2>1, Z3
    <3> QED
      BY <1>3, <1>4, <3>1, QuotientSign
  <2>3. ticks \in Nat /\ denom * ticks <= k /\ k < denom * ticks + denom
    BY <1>3, <2>1, <2>2, Rounded
  <2>4. ticks * denom <= k /\ k < (ticks + 1) * denom
    BY <1>3, <2>1, <2>3, Z3
  <2>5. ASSUME ticks <= 0 PROVE delay_loops(num, denom) < loops_per_tick
    <3>1. k < denom
      BY <1>3, <2>1, <2>3, <2>5, Z3
    <3>2. PICK d \in Nat : d = delay_loops(num, denom) /\ d * denom <= k * loops_per_tick
      <4>1. num \in Nat
        BY <1>1, <1>7, Z3
      <4> QED
        BY <1>1, <1>4, <4>1, DelayBounds
    <3>3. k * loops_per_tick < denom * loops_per_tick
      BY <1>1, <1>2, <1>3, <2>1, <3>1, Z3
    <3>4. d * denom < loops_per_tick * denom
      BY <1>1, <1>3, <2>1, <3>2, <3>3, Z3
    <3> QED
      BY <1>1, <1>3, <3>2, <3>4, Z3
  <2> QED
    BY <1>4, <1>5, <2>4, <2>5
<1> QED
  BY <1>1, <1>6, <1>7, Z3

\* real_time_delay() and real_time_sleep() with what timer_calibrate() has measured: no
\* delay is shorter than asked for by more than two roundings and the last bit, or twice as
\* long; a sleep is rounded down to ticks.
THEOREM TimeKeeping == Spec => []TimeKept
<1>1. Init => TimeKept
  BY DEF Init, TimeKept
<1>2. CInv /\ CInv' /\ BitInv /\ [Next]_vars => BitInv'
  <2> SUFFICES ASSUME CInv, CInv', BitInv, [Next]_vars PROVE BitInv'
    OBVIOUS
  <2>1. CASE \E num \in Num, denom \in Denom : Delay(num, denom) \/ Sleep(num, denom)
    <3>1. /\ UNCHANGED <<tick, bits>>
          /\ pc = "calibrated" /\ pc' \in {"delayed", "slept"}
      BY <2>1 DEF Delay, Sleep
    <3> QED
      BY <3>1, RestBit
  <2>2. CASE UNCHANGED vars
    BY <2>2, RestBit DEF vars
  <2> QED
    BY <2>1, <2>2, DoubleBit, ApproximatedBit, RefineBit, RefinedBit DEF Next
<1>3. CInv /\ BitInv /\ TimeKept /\ [Next]_vars => TimeKept'
  <2> SUFFICES ASSUME CInv, BitInv, TimeKept, [Next]_vars PROVE TimeKept'
    OBVIOUS
  <2>1. ASSUME NEW num \in Num, NEW denom \in Denom, Delay(num, denom) PROVE TimeKept'
    <3>1. /\ pc = "calibrated" /\ pc' = "delayed" /\ tick' = tick /\ high_bit' = high_bit
          /\ call' = [num |-> num, denom |-> denom, ticks |-> 0,
                      loops |-> delay_loops(num, denom)]
      BY <2>1 DEF Delay, bits
    <3> QED
      BY <3>1, DelayInTime DEF TimeKept, Exact
  <2>2. ASSUME NEW num \in Num, NEW denom \in Denom, Sleep(num, denom) PROVE TimeKept'
    <3>1. PICK ticks : ticks = Quotient(num * TIMER_FREQ, denom)
      OBVIOUS
    <3>2. /\ pc = "calibrated" /\ pc' = "slept" /\ tick' = tick /\ high_bit' = high_bit
          /\ loops_per_tick' = loops_per_tick
          /\ call' = [num |-> num, denom |-> denom,
                      ticks |-> IF ticks > 0 THEN ticks ELSE 0,
                      loops |-> IF ticks > 0 THEN 0 ELSE delay_loops(num, denom)]
      BY <2>2, <3>1 DEF Sleep, bits
    <3>3. CASE ticks > 0
      <4>1. /\ ticks \in Int /\ ticks * denom <= num * TIMER_FREQ
            /\ num * TIMER_FREQ < (ticks + 1) * denom
        BY <3>1, <3>2, <3>3, SleepInTime
      <4>2. call'.num = num /\ call'.denom = denom /\ call'.ticks = ticks
        BY <3>2, <3>3
      <4>3. ticks # 0
        BY <3>3, <4>1, Z3
      <4> QED
        BY <3>2, <3>3, <4>1, <4>2, <4>3 DEF TimeKept
    <3>4. CASE ~ (ticks > 0)
      <4>1. delay_loops(num, denom) < loops_per_tick
        <5>1. ticks \in Int
          BY <3>1, <3>2, SleepInTime
        <5>2. ticks <= 0
          BY <3>4, <5>1, Z3
        <5> QED
          BY <3>1, <3>2, <5>2, SleepInTime
      <4>2. /\ call'.num = num /\ call'.denom = denom /\ call'.ticks = 0
            /\ call'.loops = delay_loops(num, denom)
        BY <3>2, <3>4
      <4>3. ~ (0 > 0)
        BY Z3
      <4> QED
        BY <3>2, <4>1, <4>2, <4>3, DelayInTime DEF TimeKept, Exact
    <3> QED
      BY <3>3, <3>4
  <2>3. CASE Double \/ Approximated \/ Refine \/ Refined
    <3>1. pc' \notin {"delayed", "slept"}
      BY <2>3 DEF Double, Approximated, Refine, Refined
    <3> QED
      BY <3>1 DEF TimeKept
  <2>4. CASE UNCHANGED vars
    BY <2>4 DEF vars, bits, TimeKept, Exact
  <2> QED
    BY <2>1, <2>2, <2>3, <2>4 DEF Next
<1> QED
  BY <1>1, <1>2, <1>3, InitBit, CalibrationInvariant, PTL DEF Spec
=============================================================================
