---------------------------- MODULE QualityProofs ----------------------------
(***************************************************************************)
(* Proofs about Quality, for all limits, factors and resolutions.  That an *)
(* adjustment goes the right way is a matter of the quotients: dividing by *)
(* more than 1 does not make a whole number larger, nor by less smaller,   *)
(* in spite of the rounding.                                               *)
(***************************************************************************)
EXTENDS Quality, TLAPS

\* Bounds of a quotient, from bounds of the dividend.
LEMMA QuotientAtLeast ==
  ASSUME NEW a \in Nat, NEW x \in Nat, NEW f \in Nat \ {0}, x * f <= a
  PROVE  a \div f \in Nat /\ x <= a \div f
OBVIOUS

LEMMA QuotientAtMost ==
  ASSUME NEW a \in Nat, NEW x \in Nat, NEW f \in Nat \ {0}, a <= x * f
  PROVE  a \div f \in Nat /\ a \div f <= x
OBVIOUS

LEMMA LargerFactor ==
  ASSUME NEW x \in Nat, NEW f \in Nat, NEW g \in Nat, f <= g
  PROVE  x * f <= x * g
OBVIOUS

\* Dividing by less than 0.9 does not make a quality smaller ...
LEMMA ScaledUp ==
  ASSUME NEW x \in Nat, NEW f \in Nat, 1 <= f, Under(f)
  PROVE  Scaled(x, f) \in Nat /\ x <= Scaled(x, f)
BY QuotientAtLeast, LargerFactor DEF Scaled, Under

\* ... dividing by more than 1.05 does not make it larger, ...
LEMMA ScaledDown ==
  ASSUME NEW x \in Nat, NEW f \in Nat, Over(f)
  PROVE  Scaled(x, f) \in Nat /\ Scaled(x, f) <= x
BY QuotientAtMost, LargerFactor DEF Scaled, Over

\* ... and int(factor), at least 1 then, does not raise a rate.
LEMMA SlowerDown ==
  ASSUME NEW x \in Nat, NEW f \in Nat, Over(f)
  PROVE  x \div (f \div 100) \in Nat /\ x \div (f \div 100) <= x
<1>1. PICK n \in Nat \ {0} : n = f \div 100
  BY DEF Over
<1>2. x * 1 <= x * n
  BY LargerFactor
<1> QED BY <1>1, <1>2, QuotientAtMost

\* A clamped number is in its range.
LEMMA Clamped ==
  ASSUME NEW low \in Nat, NEW high \in Nat, low <= high, NEW y \in Int
  PROVE  Clamp(y, low, high) \in low .. high
BY DEF Clamp

LEMMA Product ==
  ASSUME NEW a \in Nat \ {0}, NEW b \in Nat \ {0}
  PROVE  a * b \in Nat \ {0}
OBVIOUS

\* The guess is a quotient of positive numbers.
LEMMA GuessPositive ==
  ASSUME TypeOK, activeRes + 1 < Levels, NEW f \in Nat, 1 <= f
  PROVE  Guess(f).num \in Nat \ {0} /\ Guess(f).den \in Nat \ {0}
<1>1. PICK p \in Nat \ {0} : p = Pixels[activeRes + 1]
  BY PixelsAssumption DEF TypeOK
<1>2. PICK r \in Nat \ {0} : r = Pixels[activeRes]
  BY PixelsAssumption DEF TypeOK
<1>3. /\ MinFPS \in Nat \ {0} /\ MaxFPS \in Nat \ {0}
      /\ MinQ \in Nat \ {0} /\ MaxQ \in Nat \ {0} /\ f \in Nat \ {0}
      /\ 100 \in Nat \ {0}
  BY LimitsAssumption
<1>4. f * MinFPS * MinQ * p \in Nat \ {0}
  <2>1. f * MinFPS \in Nat \ {0}
    BY <1>3, Product
  <2>2. f * MinFPS * MinQ \in Nat \ {0}
    BY <1>3, <2>1, Product
  <2> QED BY <1>1, <2>2, Product
<1>5. 100 * MaxFPS * MaxQ * r \in Nat \ {0}
  <2>1. 100 * MaxFPS \in Nat \ {0}
    BY <1>3, Product
  <2>2. 100 * MaxFPS * MaxQ \in Nat \ {0}
    BY <1>3, <2>1, Product
  <2> QED BY <1>2, <2>2, Product
<1> QED BY <1>1, <1>2, <1>4, <1>5 DEF Guess

\* What a rise of the resolution stores is in range.
LEMMA RaiseInRange ==
  ASSUME TypeOK, activeRes + 1 < Levels, NEW f \in Nat, 1 <= f
  PROVE  /\ Clamp((Guess(f).num * fps) \div Guess(f).den, MinFPS, MaxFPS)
              \in MinFPS .. MaxFPS
         /\ Clamp((Guess(f).num * q) \div Guess(f).den, MinQ, MaxQ)
              \in MinQ .. MaxQ
<1>0. Guess(f).num \in Nat \ {0} /\ Guess(f).den \in Nat \ {0}
  BY GuessPositive
<1>1. PICK num \in Nat \ {0} : num = Guess(f).num
  BY <1>0
<1>2. PICK den \in Nat \ {0} : den = Guess(f).den
  BY <1>0
<1>3. /\ fps \in Nat /\ MinFPS <= fps /\ fps <= MaxFPS
      /\ q \in Nat /\ MinQ <= q /\ q <= MaxQ
      /\ MinFPS \in Nat /\ MaxFPS \in Nat /\ MinFPS <= MaxFPS
      /\ MinQ \in Nat /\ MaxQ \in Nat /\ MinQ <= MaxQ
  BY LimitsAssumption DEF TypeOK
<1>4. num * fps \in Nat /\ num * q \in Nat
  BY <1>3
<1>5. (num * fps) \div den \in Int /\ (num * q) \div den \in Int
  BY <1>4
<1>6. /\ Clamp((num * fps) \div den, MinFPS, MaxFPS) \in MinFPS .. MaxFPS
      /\ Clamp((num * q) \div den, MinQ, MaxQ) \in MinQ .. MaxQ
  BY <1>3, <1>5, Clamped
<1> QED BY <1>1, <1>2, <1>6

\* One adjustment: the ranges are kept, and its direction is the right one.
LEMMA OneStep ==
  ASSUME TypeOK, NEW f \in Factors, addBytes(f)
  PROVE  /\ TypeOK'
         /\ Over(f) => fps' <= fps /\ q' <= q /\ activeRes' <= activeRes
         /\ Under(f) =>
              \/ activeRes' > activeRes
              \/ fps' >= fps /\ q' >= q /\ activeRes' = activeRes
<1> DEFINE Good(x, y, r) ==
      /\ x \in MinFPS .. MaxFPS /\ y \in MinQ .. MaxQ /\ r \in 0 .. Levels - 1
      /\ Over(f) => x <= fps /\ y <= q /\ r <= activeRes
      /\ Under(f) =>
           \/ r > activeRes
           \/ x >= fps /\ y >= q /\ r = activeRes
<1>0. /\ f \in Nat /\ 1 <= f /\ fps \in MinFPS .. MaxFPS /\ q \in MinQ .. MaxQ
      /\ fps \in Nat /\ MinFPS <= fps /\ fps <= MaxFPS
      /\ q \in Nat /\ MinQ <= q /\ q <= MaxQ /\ activeRes \in 0 .. Levels - 1
      /\ MinFPS \in Nat /\ MaxFPS \in Nat /\ MinFPS <= MaxFPS
      /\ MinQ \in Nat /\ MaxQ \in Nat /\ MinQ <= MaxQ /\ Levels \in Nat
  BY FactorsAssumption, LimitsAssumption, PixelsAssumption DEF TypeOK
<1>1. \E x, y, r : Good(x, y, r) /\ fps' = x /\ q' = y /\ activeRes' = r
  <2>1. CASE Lower(f)
    <3>1. PICK r \in 0 .. Levels - 1 :
            r <= activeRes /\ activeRes' = r /\ fps' = fps /\ q' = q
      BY <1>0, <2>1 DEF Lower
    <3>2. Over(f) /\ ~Under(f)
      BY <1>0, <2>1 DEF Lower, Over, Under
    <3> QED BY <1>0, <3>1, <3>2
  <2>2. CASE Raise(f)
    <3>0. Under(f) /\ ~Over(f)
      BY <1>0, <2>2 DEF Raise, Over, Under
    <3>1. CASE Fits(f)
      <4>0. activeRes + 1 < Levels
        BY <3>1 DEF Fits
      <4>1. PICK x \in MinFPS .. MaxFPS : fps' = x
        BY <1>0, <2>2, <3>1, <4>0, RaiseInRange DEF Raise
      <4>2. PICK y \in MinQ .. MaxQ : q' = y
        BY <1>0, <2>2, <3>1, <4>0, RaiseInRange DEF Raise
      <4>3. activeRes' = activeRes + 1 /\ activeRes + 1 < Levels
        BY <2>2, <3>1, <4>0 DEF Raise
      <4>4. Good(x, y, activeRes + 1)
        BY <1>0, <3>0, <4>1, <4>2, <4>3
      <4> QED BY <4>1, <4>2, <4>3, <4>4
    <3>2. CASE ~Fits(f)
      <4>1. fps' = fps /\ q' = q /\ activeRes' = activeRes
        BY <2>2, <3>2 DEF Raise
      <4> QED BY <1>0, <3>0, <4>1
    <3> QED BY <3>1, <3>2
  <2>3. CASE Slow(f)
    <3>0. Over(f) /\ ~Under(f)
      BY <1>0, <2>3 DEF Slow, Over, Under
    <3>a. Slower(f) \in Nat /\ Slower(f) <= fps
      BY <1>0, <3>0, SlowerDown DEF Slower
    <3>b. Scaled(q, f) \in Nat /\ Scaled(q, f) <= q
      BY <1>0, <3>0, ScaledDown
    <3>1. PICK d \in Nat : d = Slower(f) /\ d <= fps
      BY <3>a
    <3>2. PICK e \in Nat : e = Scaled(q, f) /\ e <= q
      BY <3>b
    <3>c. /\ Clamp(d, MinFPS, MaxFPS) \in MinFPS .. MaxFPS
          /\ Clamp(d, MinFPS, MaxFPS) <= fps
      BY <1>0, <3>1 DEF Clamp
    <3>d. Clamp(e, MinQ, MaxQ) \in MinQ .. MaxQ /\ Clamp(e, MinQ, MaxQ) <= q
      BY <1>0, <3>2 DEF Clamp
    <3>3. PICK x \in MinFPS .. MaxFPS : x = Clamp(d, MinFPS, MaxFPS) /\ x <= fps
      BY <3>c
    <3>4. PICK y \in MinQ .. MaxQ : y = Clamp(e, MinQ, MaxQ) /\ y <= q
      BY <3>d
    <3>5. fps' = x /\ (q' = y \/ q' = q) /\ activeRes' = activeRes
      BY <2>3, <3>1, <3>2, <3>3, <3>4 DEF Slow
    <3>6. Good(x, y, activeRes) /\ Good(x, q, activeRes)
      BY <1>0, <3>0, <3>3, <3>4
    <3> QED BY <3>5, <3>6
  <2>4. CASE Quicken(f)
    <3>0. Under(f) /\ ~Over(f)
      BY <1>0, <2>4 DEF Quicken, Over, Under
    <3>1. PICK d \in Nat : d = Quicker(f) /\ fps <= d
      BY <1>0 DEF Quicker
    <3>b. Scaled(q, f) \in Nat /\ q <= Scaled(q, f)
      BY <1>0, <3>0, ScaledUp
    <3>2. PICK e \in Nat : e = Scaled(q, f) /\ q <= e
      BY <3>b
    <3>c. /\ Clamp(d, MinFPS, MaxFPS) \in MinFPS .. MaxFPS
          /\ fps <= Clamp(d, MinFPS, MaxFPS)
      BY <1>0, <3>1 DEF Clamp
    <3>d. Clamp(e, MinQ, MaxQ) \in MinQ .. MaxQ /\ q <= Clamp(e, MinQ, MaxQ)
      BY <1>0, <3>2 DEF Clamp
    <3>3. PICK x \in MinFPS .. MaxFPS : x = Clamp(d, MinFPS, MaxFPS) /\ fps <= x
      BY <3>c
    <3>4. PICK y \in MinQ .. MaxQ : y = Clamp(e, MinQ, MaxQ) /\ q <= y
      BY <3>d
    <3>5. (fps' = x \/ fps' = fps) /\ q' = y /\ activeRes' = activeRes
      BY <2>4, <3>1, <3>2, <3>3, <3>4 DEF Quicken
    <3>6. Good(x, y, activeRes) /\ Good(fps, y, activeRes)
      BY <1>0, <3>0, <3>3, <3>4
    <3> QED BY <3>5, <3>6
  <2>5. CASE Keep(f)
    <3>1. Good(fps, q, activeRes)
      BY <1>0
    <3> QED BY <2>5, <3>1 DEF Keep
  <2> QED BY <2>1, <2>2, <2>3, <2>4, <2>5 DEF addBytes
<1>2. Good(fps', q', activeRes')
  BY <1>1
<1>3. TypeOK'
  <2>1. settled' \in BOOLEAN
    BY DEF addBytes
  <2>2. odd' \in BOOLEAN
    BY DEF addBytes
  <2>3. factor' \in Factors \cup {100}
    BY DEF addBytes
  <2> QED BY <1>2, <2>1, <2>2, <2>3 DEF TypeOK
<1> QED BY <1>2, <1>3

-----------------------------------------------------------------------------
(* What keeps an adjustment from stalling.                                 *)

\* Dividing by two or more makes a positive number smaller, ...
LEMMA Halved ==
  ASSUME NEW x \in Nat \ {0}, NEW f \in Nat, f >= 200
  PROVE  /\ Scaled(x, f) \in Nat /\ Scaled(x, f) < x
         /\ x \div (f \div 100) \in Nat /\ x \div (f \div 100) < x
<1>1. ASSUME NEW a \in Nat, NEW d \in Nat \ {0}, a < x * d
      PROVE  a \div d \in Nat /\ a \div d < x
  BY <1>1
<1>2. x * 100 < x * f
  OBVIOUS
<1>3. Scaled(x, f) \in Nat /\ Scaled(x, f) < x
  BY <1>1, <1>2 DEF Scaled
<1>4. PICK n \in Nat \ {0} : n = f \div 100 /\ n >= 2
  OBVIOUS
<1>5. x < x * n
  <2>1. x * 2 <= x * n
    BY <1>4, LargerFactor
  <2> QED BY <1>4, <2>1
<1> QED BY <1>1, <1>3, <1>4, <1>5

\* ... and by a half or less larger.
LEMMA Doubled ==
  ASSUME NEW x \in Nat \ {0}, NEW f \in Nat, 1 <= f, f <= 50
  PROVE  /\ Scaled(x, f) \in Nat /\ x < Scaled(x, f)
         /\ 100 \div f \in Nat /\ 1 <= 100 \div f
<1>1. (x + 1) * f <= x * 100
  <2>1. (x + 1) * f <= (x + 1) * 50
    BY LargerFactor
  <2> QED BY <2>1
<1>2. x + 1 <= (x * 100) \div f /\ (x * 100) \div f \in Nat
  BY <1>1, QuotientAtLeast
<1>3. 100 \div f \in Nat /\ 1 <= 100 \div f
  BY QuotientAtLeast
<1> QED BY <1>2, <1>3 DEF Scaled

\* Too much: rate or quality gives, or with both at the lowest the resolution.
LEMMA GivesWay ==
  ASSUME TypeOK, NEW f \in Factors, addBytes(f), f >= 200
  PROVE  \/ activeRes' < activeRes
         \/ activeRes' = activeRes /\ fps' + q' < fps + q
         \/ AtLowest /\ activeRes = 0
<1>0. /\ f \in Nat /\ Over(f) /\ ~Under(f)
      /\ fps \in Nat \ {0} /\ MinFPS <= fps /\ fps <= MaxFPS
      /\ q \in Nat \ {0} /\ MinQ <= q /\ q <= MaxQ /\ activeRes \in Nat
      /\ MinFPS \in Nat /\ MaxFPS \in Nat /\ MinFPS <= MaxFPS
      /\ MinQ \in Nat /\ MaxQ \in Nat /\ MinQ <= MaxQ
  BY FactorsAssumption, LimitsAssumption, PixelsAssumption
  DEF TypeOK, Over, Under
<1>1. CASE Lower(f)
  BY <1>0, <1>1 DEF Lower
<1>2. CASE Slow(f)
  <2>1. PICK d \in Nat : d = Slower(f) /\ d < fps
    BY <1>0, Halved DEF Slower
  <2>2. PICK e \in Nat : e = Scaled(q, f) /\ e < q
    BY <1>0, Halved
  <2>3. /\ fps' = Clamp(d, MinFPS, MaxFPS)
        /\ q' = IF LowRate(d) THEN Clamp(e, MinQ, MaxQ) ELSE q
        /\ activeRes' = activeRes /\ ~AtLowest
    BY <1>2, <2>1, <2>2 DEF Slow
  <2>4. Clamp(e, MinQ, MaxQ) \in Nat /\ Clamp(e, MinQ, MaxQ) <= q
        /\ (q # MinQ => Clamp(e, MinQ, MaxQ) < q)
    BY <1>0, <2>2 DEF Clamp
  <2>5. Clamp(d, MinFPS, MaxFPS) \in Nat /\ Clamp(d, MinFPS, MaxFPS) <= fps
        /\ (fps # MinFPS => Clamp(d, MinFPS, MaxFPS) < fps)
    BY <1>0, <2>1 DEF Clamp
  <2>6. CASE fps # MinFPS
    BY <1>0, <2>3, <2>4, <2>5, <2>6
  <2>7. CASE fps = MinFPS
    <3>1. q # MinQ
      BY <2>3, <2>7 DEF AtLowest
    <3>2. LowRate(d)
      BY <1>0, <2>1, <2>7 DEF LowRate
    <3> QED BY <1>0, <2>3, <2>4, <2>5, <3>1, <3>2
  <2> QED BY <2>6, <2>7
<1> QED
  BY <1>0, <1>1, <1>2 DEF addBytes, Raise, Quicken, Keep

\* Room: quality or rate rises, or with both at the highest the resolution.
LEMMA TakesRoom ==
  ASSUME TypeOK, NEW f \in Factors, addBytes(f), f <= 50
  PROVE  \/ activeRes' > activeRes
         \/ activeRes' = activeRes /\ fps' + q' > fps + q
         \/ AtHighest /\ ~(settled /\ Fits(f))
<1>0. /\ f \in Nat /\ 1 <= f /\ ~Over(f) /\ Under(f)
      /\ fps \in Nat \ {0} /\ MinFPS <= fps /\ fps <= MaxFPS
      /\ q \in Nat \ {0} /\ MinQ <= q /\ q <= MaxQ /\ activeRes \in Nat
      /\ MinFPS \in Nat /\ MaxFPS \in Nat /\ MinFPS <= MaxFPS
      /\ MinQ \in Nat /\ MaxQ \in Nat /\ MinQ <= MaxQ
  BY FactorsAssumption, LimitsAssumption, PixelsAssumption
  DEF TypeOK, Over, Under
<1>1. CASE Raise(f)
  BY <1>0, <1>1 DEF Raise
<1>2. CASE Quicken(f)
  <2>1. PICK d \in Nat : d = Quicker(f) /\ fps < d
    BY <1>0, Doubled DEF Quicker
  <2>2. PICK e \in Nat : e = Scaled(q, f) /\ q < e
    BY <1>0, Doubled
  <2>3. /\ fps' = IF LowRate(fps) \/ q >= MaxQ
                  THEN Clamp(d, MinFPS, MaxFPS) ELSE fps
        /\ q' = Clamp(e, MinQ, MaxQ)
        /\ activeRes' = activeRes /\ ~(settled /\ AtHighest)
    BY <1>2, <2>1, <2>2 DEF Quicken
  <2>4. Clamp(e, MinQ, MaxQ) \in Nat /\ Clamp(e, MinQ, MaxQ) >= q
        /\ (q # MaxQ => Clamp(e, MinQ, MaxQ) > q)
    BY <1>0, <2>2 DEF Clamp
  <2>5. Clamp(d, MinFPS, MaxFPS) \in Nat /\ Clamp(d, MinFPS, MaxFPS) >= fps
        /\ (fps # MaxFPS => Clamp(d, MinFPS, MaxFPS) > fps)
    BY <1>0, <2>1 DEF Clamp
  <2>6. CASE q # MaxQ
    BY <1>0, <2>3, <2>4, <2>5, <2>6
  <2>7. CASE q = MaxQ /\ fps # MaxFPS
    BY <1>0, <2>3, <2>4, <2>5, <2>7
  <2>8. CASE q = MaxQ /\ fps = MaxFPS
    BY <2>3, <2>8 DEF AtHighest
  <2> QED BY <2>6, <2>7, <2>8
<1> QED
  BY <1>0, <1>1, <1>2 DEF addBytes, Lower, Slow, Keep

-----------------------------------------------------------------------------
(* The theorems.                                                           *)

LEMMA Initially == Init => TypeOK
<1> SUFFICES ASSUME Init PROVE TypeOK
  OBVIOUS
<1>1. fps \in MinFPS .. MaxFPS /\ q \in MinQ .. MaxQ
  BY LimitsAssumption DEF Init
<1>2. activeRes \in 0 .. Levels - 1
  BY PixelsAssumption DEF Init
<1>3. settled \in BOOLEAN /\ factor \in Factors \cup {100} /\ odd \in BOOLEAN
  BY DEF Init
<1> QED BY <1>1, <1>2, <1>3 DEF TypeOK

\* Every step keeps the ranges and goes the right way.
LEMMA Step ==
  ASSUME TypeOK, [Next]_vars
  PROVE  TypeOK' /\ [RightStep]_vars
<1>1. CASE Adjust
  <2>1. PICK f \in Factors : addBytes(f)
    BY <1>1 DEF Adjust
  <2>2. factor' = f
    BY <2>1 DEF addBytes
  <2> QED BY <2>1, <2>2, OneStep DEF RightStep
<1>2. CASE Settle
  <2>1. fps \in Int /\ q \in Int /\ activeRes \in Int
    BY LimitsAssumption, PixelsAssumption DEF TypeOK
  <2>2. RightStep
    BY <1>2, <2>1 DEF Settle, RightStep
  <2> QED BY <1>2, <2>2 DEF Settle, TypeOK
<1>3. CASE UNCHANGED vars
  BY <1>3 DEF vars, TypeOK
<1> QED BY <1>1, <1>2, <1>3 DEF Next

\* Rate, quality and resolution stay between their limits.
THEOREM InLimits == Spec => []TypeOK
BY Initially, Step, PTL DEF Spec

\* No adjustment goes the wrong way, whatever the limits and the factors are.
THEOREM AlwaysRightWay == Spec => RightWay
<1>1. TypeOK /\ [Next]_vars => [RightStep]_vars
  BY Step
<1> QED BY InLimits, <1>1, PTL DEF Spec, RightWay

\* No adjustment stalls half-way, whatever the limits, the resolutions and the
\* factors are: with every call there is less to lower, or to raise.
THEOREM AlwaysMovesOn == Spec => MovesOn
<1>1. TypeOK /\ [Next]_vars => [StepMovesOn]_vars
  <2> SUFFICES ASSUME TypeOK, Next, odd' # odd PROVE StepMovesOn
    BY DEF StepMovesOn
  <2>1. PICK f \in Factors : addBytes(f)
    BY DEF Next, Adjust, Settle
  <2>2. factor' = f
    BY <2>1 DEF addBytes
  <2> QED BY <2>1, <2>2, GivesWay, TakesRoom DEF StepMovesOn
<1> QED BY InLimits, <1>1, PTL DEF Spec, MovesOn
=============================================================================
