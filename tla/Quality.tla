------------------------------ MODULE Quality ------------------------------
(***************************************************************************)
(* The arithmetic of addBytes: how the throughput of the last seconds      *)
(* changes the frame rate, the JPEG quality and the resolution.  Camera    *)
(* has the same adjustments step by step, with what the camera does about  *)
(* them, and leaves open why they are made.                                *)
(*                                                                         *)
(* A factor is the throughput as a part of what is desired, in hundredths. *)
(* One step is one call of addBytes that gets past its two intervals.      *)
(***************************************************************************)
EXTENDS Integers

CONSTANTS
  Factors,      \* factors that occur
  MinFPS, MaxFPS, MinQ, MaxQ,   \* the limits configured
  Levels,       \* how many resolutions there are
  Pixels        \* Pixels[r]: the size of the resolution r, ascending

\* The factor is clamped to 0.01 and 20.
ASSUME FactorsAssumption == Factors \subseteq 1 .. 2000
ASSUME LimitsAssumption ==
  /\ MinFPS \in Nat \ {0} /\ MaxFPS \in Nat /\ MinFPS <= MaxFPS
  /\ MinQ \in Nat \ {0} /\ MaxQ \in Nat /\ MinQ <= MaxQ
ASSUME PixelsAssumption ==
  Levels \in Nat \ {0} /\ Pixels \in [0 .. Levels - 1 -> Nat \ {0}]

VARIABLES
  fps, q,       \* s.fps and s.jpegOpts.Quality
  activeRes,    \* s.cam.activeRes
  settled,      \* 30 seconds have passed since activeRes last changed
  factor,       \* history: the factor of the last adjustment
  odd           \* history: the number of adjustments is odd, so that one that
                \* changes nothing is a step as well

vars == <<fps, q, activeRes, settled, factor, odd>>

TypeOK ==
  /\ fps \in MinFPS .. MaxFPS /\ q \in MinQ .. MaxQ
  /\ activeRes \in 0 .. Levels - 1
  /\ settled \in BOOLEAN /\ factor \in Factors \cup {100}
  /\ odd \in BOOLEAN

\* What New and tryInitCam start with.
Init ==
  /\ fps = MaxFPS /\ q = MaxQ /\ activeRes = Levels - 1
  /\ settled = TRUE /\ factor = 100 /\ odd = FALSE

-----------------------------------------------------------------------------
(* The cases of addBytes, f being the factor.                              *)

Clamp(x, low, high) == IF x < low THEN low ELSE IF x > high THEN high ELSE x

\* Below the middle of the rates the quality has to give, too.
LowRate(x) == x <= MinFPS + (MaxFPS - MinFPS) \div 2

\* Mutant: the quotient the wrong way round.
Scaled_Wrong(x, f) == (x * f) \div 100

\* int(float64(x) / factor)
Scaled(x, f) == (x * 100) \div f

Over(f)  == f > 105
Under(f) == f < 90

AtLowest  == fps = MinFPS /\ q = MinQ
AtHighest == fps = MaxFPS /\ q = MaxQ

\* Too much, with nothing left to lower but the resolution.
Lower(f) ==
  /\ Over(f) /\ AtLowest
  /\ activeRes' = IF activeRes > 0 THEN activeRes - 1 ELSE activeRes
  /\ UNCHANGED <<fps, q>>

\* The rough guess: what the throughput would be with the next resolution at
\* the lowest rate and quality, as a part num / den of the one desired now.
Guess(f) == [num |-> f * MinFPS * MinQ * Pixels[activeRes + 1],
             den |-> 100 * MaxFPS * MaxQ * Pixels[activeRes]]

\* There is a larger resolution, and the guess allows it.
Fits(f) == activeRes + 1 < Levels /\ Guess(f).num < Guess(f).den

\* Room, with nothing left to raise but the resolution.  Rate and quality go
\* down with it.
Raise(f) ==
  /\ settled /\ Under(f) /\ AtHighest
  /\ IF Fits(f)
     THEN /\ activeRes' = activeRes + 1
          /\ fps' = Clamp((Guess(f).num * fps) \div Guess(f).den, MinFPS, MaxFPS)
          /\ q' = Clamp((Guess(f).num * q) \div Guess(f).den, MinQ, MaxQ)
     ELSE UNCHANGED <<fps, q, activeRes>>

\* s.fps /= int(factor)
Slower(f) == fps \div (f \div 100)

\* Too much: a lower rate, and a lower quality if that rate is low.
Slow(f) ==
  /\ Over(f) /\ ~AtLowest
  /\ fps' = Clamp(Slower(f), MinFPS, MaxFPS)
  /\ q' = IF LowRate(Slower(f)) THEN Clamp(Scaled(q, f), MinQ, MaxQ) ELSE q
  /\ UNCHANGED activeRes

\* Mutant: the factor itself.
Quicker_Factor(f) == fps + f \div 100

\* s.fps += int(1 / factor)
Quicker(f) == fps + 100 \div f

\* Room: a higher quality, and a higher rate if that was low, or the quality
\* as high as it gets.
Quicken(f) ==
  /\ Under(f) /\ ~(settled /\ AtHighest)
  /\ fps' = IF LowRate(fps) \/ q >= MaxQ
            THEN Clamp(Quicker(f), MinFPS, MaxFPS) ELSE fps
  /\ q' = Clamp(Scaled(q, f), MinQ, MaxQ)
  /\ UNCHANGED activeRes

Keep(f) == ~Over(f) /\ ~Under(f) /\ UNCHANGED <<fps, q, activeRes>>

addBytes(f) ==
  /\ Lower(f) \/ Raise(f) \/ Slow(f) \/ Quicken(f) \/ Keep(f)
  /\ factor' = f /\ odd' = ~odd
  /\ settled' = (settled /\ activeRes' = activeRes)

\* 30 seconds pass.
Settle == ~settled /\ settled' = TRUE
          /\ UNCHANGED <<fps, q, activeRes, factor, odd>>

Adjust == \E f \in Factors : addBytes(f)

Next == Adjust \/ Settle

\* Clients keep asking for pictures, and time passes.
Spec == Init /\ [][Next]_vars /\ WF_vars(Adjust) /\ WF_vars(Settle)

-----------------------------------------------------------------------------
(* Properties.                                                             *)

\* An adjustment goes the right way: too much throughput raises nothing, and
\* room lowers nothing, except rate and quality for a higher resolution.
RightStep ==
  /\ Over(factor') => fps' <= fps /\ q' <= q /\ activeRes' <= activeRes
  /\ Under(factor') =>
       \/ activeRes' > activeRes
       \/ fps' >= fps /\ q' >= q /\ activeRes' = activeRes

RightWay == [][RightStep]_vars

\* No adjustment stalls half-way, where the roundings would let it: at twice
\* the desired throughput, or more, each one lowers something until all is at
\* the lowest, and at half of it, or less, each one raises something until
\* rate and quality are at the highest and no larger resolution fits, or has
\* to wait its 30 seconds.
StepMovesOn ==
  odd' # odd =>
    /\ factor' >= 200 =>
         \/ activeRes' < activeRes
         \/ activeRes' = activeRes /\ fps' + q' < fps + q
         \/ AtLowest /\ activeRes = 0
    /\ factor' <= 50 =>
         \/ activeRes' > activeRes
         \/ activeRes' = activeRes /\ fps' + q' > fps + q
         \/ AtHighest /\ ~(settled /\ Fits(factor'))

MovesOn == [][StepMovesOn]_vars

\* A throughput that stays twice too high, or more, gets everything down to
\* the lowest, and one that stays at half, or less, gets rate and quality to
\* the highest for good; roundings do not stop either.
Adapts ==
  /\ <>[](factor >= 200) => <>[](AtLowest /\ activeRes = 0)
  /\ <>[](factor <= 50) => <>[](AtHighest /\ activeRes = Levels - 1)
=============================================================================
