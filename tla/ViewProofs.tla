----------------------------- MODULE ViewProofs -----------------------------
(***************************************************************************)
(* Proofs about View, for passwords of any length, all sizes, texts and    *)
(* directions.  The touches (Touch) and the stage do not share variables,  *)
(* but for at, which says what the loop does: their invariants are proved  *)
(* separately, each with what it needs about at.                           *)
(***************************************************************************)
EXTENDS View, TLAPS

\* A stroke is one of the eight arrows, or none.
LEMMA DirectionRange ==
  ASSUME NEW d \in Int \X Int
  PROVE  Direction(d) \in Arrows \cup {0}
<1>1. PICK x \in Int, y \in Int : x = d[1] /\ y = d[2]
  OBVIOUS
<1> DEFINE V == IF 2 * Abs(x) < 5 * Abs(y) THEN IF y < 0 THEN 8 ELSE 4 ELSE 0
           H == IF 5 * Abs(x) > 2 * Abs(y) THEN IF x < 0 THEN 1 ELSE 2 ELSE 0
<1>2. V \in {0, 4, 8} /\ H \in {0, 1, 2}
  OBVIOUS
<1>3. V + H \in Arrows \cup {0}
  <2> HIDE DEF V, H
  <2> QED BY <1>2 DEF Arrows
<1> QED BY <1>1, <1>3 DEF Direction

-----------------------------------------------------------------------------
(* The password.  While a ClearPass has not come to the strokes, and while *)
(* the loop is about to store or to send some, old ones may still be there.*)

AuthInv ==
  /\ phase \in {0, 1}
  /\ strokes \in 0 .. PassLen /\ drawn \in 0 .. PassLen
  /\ n \in Arrows \cup {0}
  /\ wiping \in {"no", "pass", "rest"}
  /\ at \in {"store", "send"} => phase = 0
  /\ (phase = 0 /\ wiping # "pass" /\ at \notin {"store", "send"})
       => strokes < PassLen

FlagsInv == fingersDown \in BOOLEAN /\ last \in BOOLEAN

LEMMA AuthInitially == Init => AuthInv /\ FlagsInv
<1>1. Init => AuthInv
  BY PassLenAssumption DEF Init, TouchInit, AuthInv
<1>2. Init => FlagsInv
  BY DEF Init, TouchInit, FlagsInv
<1> QED BY <1>1, <1>2

\* handlePassword adds one stroke at most.
LEMMA AuthDraw ==
  ASSUME AuthInv, Draw
  PROVE  AuthInv'
<1>0. /\ strokes \in Nat /\ strokes <= PassLen /\ PassLen \in Nat
      /\ at = "idle" /\ at' = "store" /\ phase = 0 /\ phase' = phase
      /\ strokes' = strokes /\ wiping' = wiping
  BY PassLenAssumption DEF AuthInv, Draw
<1>1. \E k \in 0 .. PassLen, m \in Arrows \cup {0} : drawn' = k /\ n' = m
  <2>1. ASSUME NEW quick \in BOOLEAN, PassBegin(quick)
        PROVE  \E k \in 0 .. PassLen : drawn' = k /\ n' = n
    <3>1. 0 \in 0 .. PassLen /\ strokes \in 0 .. PassLen
      BY <1>0
    <3> QED BY <2>1, <3>1, Zenon DEF PassBegin
  <2>2. CASE PassEnd
    <3>1. strokes \in 0 .. PassLen /\ 0 \in Arrows \cup {0}
      BY <1>0
    <3> QED BY <2>2, <3>1 DEF PassEnd
  <2>3. ASSUME NEW d \in Deltas, PassMove(d)
        PROVE  \E k \in 0 .. PassLen, m \in Arrows \cup {0} :
                 drawn' = k /\ n' = m
    <3>1. Direction(d) \in Arrows \cup {0}
      BY DirectionRange, DeltasAssumption
    <3>2. drawn' = strokes \/ (strokes < PassLen /\ drawn' = strokes + 1)
      BY <2>3, Zenon DEF PassMove
    <3>3. n' = n \/ n' = Direction(d)
      BY <2>3, Zenon DEF PassMove
    <3>4. PICK k \in 0 .. PassLen : drawn' = k
      BY <1>0, <3>2
    <3>5. PICK m \in Arrows \cup {0} : n' = m
      BY <3>1, <3>3 DEF AuthInv
    <3> QED BY <3>4, <3>5
  <2>4. CASE PassSecond
    BY <1>0, <2>4 DEF PassSecond, AuthInv
  <2>5. n \in Arrows \cup {0}
    BY DEF AuthInv
  <2> QED BY <2>1, <2>2, <2>3, <2>4, <2>5, Zenon DEF Draw
<1>2. PICK k \in 0 .. PassLen, m \in Arrows \cup {0} : drawn' = k /\ n' = m
  BY <1>1
<1> QED BY <1>0, <1>2 DEF AuthInv

LEMMA AuthStep ==
  ASSUME AuthInv, [Next]_vars
  PROVE  AuthInv'
<1>1. CASE Draw
  BY <1>1, AuthDraw
<1>2. CASE Store
  <2>0. drawn \in Nat /\ drawn <= PassLen /\ PassLen \in Nat
    BY PassLenAssumption DEF AuthInv
  <2>1. CASE drawn >= PassLen
    BY <1>2, <2>0, <2>1 DEF Store, AuthInv
  <2>2. CASE ~(drawn >= PassLen)
    BY <1>2, <2>0, <2>2 DEF Store, AuthInv
  <2> QED BY <2>1, <2>2
<1>3. CASE Send
  BY <1>3 DEF Send, AuthInv
<1>4. CASE ClearPass
  <2>1. CASE Wipe
    BY <1>4, <2>1 DEF ClearPass, Wipe, AuthInv
  <2>2. CASE WipePass
    BY <1>4, <2>2, PassLenAssumption DEF ClearPass, WipePass, Made, AuthInv
  <2>3. CASE WipeRest
    BY <1>4, <2>3 DEF ClearPass, WipeRest, AuthInv
  <2> QED BY <1>4, <2>1, <2>2, <2>3 DEF ClearPass
<1>5. CASE Gesture
  BY <1>5 DEF Gesture, authVars, AuthInv
\* The rest of the loop is never where a password is stored or sent.
<1>6. ASSUME UNCHANGED <<authVars, drawn, wiping>>,
             at' = at \/ {at, at'} \cap {"store", "send"} = {}
      PROVE  AuthInv'
  BY <1>6 DEF authVars, AuthInv
<1>7. CASE Show \/ Hide \/ Destroy
  <2>1. UNCHANGED <<authVars, drawn, wiping>>
    BY <1>7 DEF Show, Hide, Destroy, touchVars
  <2>2. at' = at \/ {at, at'} \cap {"store", "send"} = {}
    BY <1>7 DEF Show, Hide, Destroy, touchVars
  <2> QED BY <1>6, <2>1, <2>2
<1>8. CASE Decoder
  BY <1>6, <1>8 DEF Decoder, touchVars
<1>9. CASE Paints
  <2>1. UNCHANGED <<authVars, drawn, wiping>>
    BY <1>9 DEF Paints
  <2>2. {at, at'} \cap {"store", "send"} = {}
    BY <1>9 DEF Paints, Paint, PaintPrompt, PaintPicture, PaintArrow, Upload,
         Painted
  <2> QED BY <1>6, <2>1, <2>2
<1>10. CASE UNCHANGED vars
  BY <1>6, <1>10 DEF vars, touchVars
<1> QED BY <1>1, <1>2, <1>3, <1>4, <1>5, <1>7, <1>8, <1>9, <1>10
        DEF Next, TouchNext

\* The flags beside them.
LEMMA FlagsStep ==
  ASSUME FlagsInv, [Next]_vars
  PROVE  FlagsInv'
<1>1. CASE Draw
  BY <1>1 DEF Draw, PassBegin, PassEnd, PassMove, PassSecond, FlagsInv
<1>2. CASE Store \/ Send \/ Gesture
  BY <1>2 DEF Store, Send, Gesture, authVars, FlagsInv
<1>3. CASE ClearPass
  BY <1>3 DEF ClearPass, Wipe, WipePass, WipeRest, FlagsInv
<1>4. CASE Show \/ Hide \/ Destroy \/ Decoder \/ Paints
  BY <1>4 DEF Show, Hide, Destroy, Decoder, Paints, touchVars, authVars,
     FlagsInv
<1>5. CASE UNCHANGED vars
  BY <1>5 DEF vars, touchVars, authVars, FlagsInv
<1> QED BY <1>1, <1>2, <1>3, <1>4, <1>5 DEF Next, TouchNext

\* The strokes of a refused password are never left for the next one, in
\* whatever order the assignments of ClearPass and of the loop come.
THEOREM AlwaysStartsAfresh == Spec => []StartsAfresh
<1>1. AuthInv => StartsAfresh
  BY DEF AuthInv, StartsAfresh
<1> QED BY <1>1, AuthInitially, AuthStep, PTL DEF Spec

-----------------------------------------------------------------------------
(* The gestures.                                                           *)

\* A finger is taken to be down exactly when it is, unless it came or went
\* unseen; the gestures follow what the fingers are taken for.
FingersInv ==
  /\ {begun, down, missed} \subseteq SUBSET Fingers
  /\ \A s \in Fingers \ missed : s \in begun <=> s \in down

GestureInv ==
  /\ moving \in BOOLEAN /\ pinching \in BOOLEAN /\ pinchingIntent \in BOOLEAN
  /\ moving => begun = {0}
  /\ pinching => begun = {0, 1}

LEMMA FingersStep ==
  ASSUME FingersInv, [Next]_vars
  PROVE  FingersInv'
<1> USE DEF FingersInv
<1>1. CASE Draw
  <2>1. begun' = begun
    BY <1>1 DEF Draw, gestureVars
  <2>2. ASSUME NEW s \in {0, 1}, Touches(s) \/ Lifts(s),
               missed' = missed \cup {s}
        PROVE  FingersInv'
    BY <2>1, <2>2 DEF Touches, Lifts
  <2>3. UNCHANGED <<down, missed>> => FingersInv'
    BY <2>1
  <2> QED BY <1>1, <2>2, <2>3 DEF Draw, Moves
<1>2. CASE Gesture
  <2>1. PICK s \in Fingers :
          \/ Touches(s) /\ missed' = missed \ {s} /\ Begin(s)
          \/ Lifts(s) /\ missed' = missed \ {s} /\ End(s)
          \/ Moves(s) /\ missed' = missed /\ \E far \in BOOLEAN : Moving(far)
    BY <1>2 DEF Gesture
  <2> QED BY <2>1 DEF Touches, Lifts, Moves, Begin, End, Moving
<1>3. ASSUME UNCHANGED <<begun, fingerVars>>
      PROVE  FingersInv'
  BY <1>3 DEF fingerVars
<1>4. CASE Store \/ Send \/ ClearPass
  BY <1>3, <1>4 DEF Store, Send, ClearPass, gestureVars
<1>5. CASE Show \/ Hide \/ Destroy \/ Decoder \/ Paints
  BY <1>3, <1>5
  DEF Show, Hide, Destroy, Decoder, Paints, touchVars, gestureVars
<1>6. CASE UNCHANGED vars
  BY <1>3, <1>6 DEF vars, touchVars, gestureVars
<1> QED BY <1>1, <1>2, <1>4, <1>5, <1>6 DEF Next, TouchNext

LEMMA GestureStep ==
  ASSUME FingersInv, GestureInv, [Next]_vars
  PROVE  GestureInv'
<1>1. CASE Gesture
  <2>1. ASSUME NEW s \in {0, 1}, Begin(s)
        PROVE  GestureInv'
    <3>1. CASE s = 0
      BY <2>1, <3>1 DEF Begin, GestureInv
    <3>2. CASE s = 1
      BY <2>1, <3>2 DEF Begin, GestureInv
    <3> QED BY <3>1, <3>2
  <2>2. ASSUME NEW s \in {0, 1}, End(s)
        PROVE  GestureInv'
    <3>1. /\ begun' = begun \ {s} /\ ~pinching' /\ ~pinchingIntent'
          /\ pinching' \in BOOLEAN /\ pinchingIntent' \in BOOLEAN
      BY <2>2 DEF End
    <3>2. CASE moving /\ s = 1
      <4>1. moving' = TRUE
        BY <2>2, <3>2, Zenon DEF End
      <4>2. begun' = {0}
        BY <3>1, <3>2 DEF GestureInv
      <4> QED BY <3>1, <4>1, <4>2, Zenon DEF GestureInv
    <3>3. CASE ~(moving /\ s = 1)
      <4>1. moving' = FALSE
        BY <2>2, <3>3, Zenon DEF End
      <4> QED BY <3>1, <4>1, Zenon DEF GestureInv
    <3> QED BY <3>2, <3>3
  <2>3. ASSUME NEW far \in BOOLEAN, Moving(far)
        PROVE  GestureInv'
    <3>1. CASE 0 \notin begun /\ UNCHANGED <<moving, pinching, pinchingIntent>>
      BY <2>3, <3>1 DEF Moving, GestureInv
    <3>2. CASE begun = {0}
      BY <2>3, <3>2 DEF Moving, GestureInv
    <3>3. CASE begun = {0, 1}
      <4>1. ~moving
        BY <3>3 DEF GestureInv
      <4>2. /\ begun' = begun /\ UNCHANGED moving /\ pinchingIntent' = TRUE
            /\ pinching' = (pinching \/ (pinchingIntent /\ far))
        BY <2>3, <3>3 DEF Moving
      <4>3. pinching' \in BOOLEAN
        BY <4>2
      <4> QED BY <3>3, <4>1, <4>2, <4>3 DEF GestureInv
    <3> QED BY <2>3, <3>1, <3>2, <3>3 DEF Moving
  <2> QED BY <1>1, <2>1, <2>2, <2>3, FingersAssumption DEF Gesture
<1>2. ASSUME UNCHANGED gestureVars
      PROVE  GestureInv'
  BY <1>2 DEF gestureVars, GestureInv
<1>3. CASE Draw \/ Store \/ Send \/ ClearPass
  BY <1>2, <1>3 DEF Draw, Store, Send, ClearPass
<1>4. CASE Show \/ Hide \/ Destroy \/ Decoder \/ Paints
  BY <1>2, <1>4 DEF Show, Hide, Destroy, Decoder, Paints, touchVars
<1>5. CASE UNCHANGED vars
  BY <1>2, <1>5 DEF vars, touchVars
<1> QED BY <1>1, <1>3, <1>4, <1>5 DEF Next, TouchNext

LEMMA GestureInitially == Init => FingersInv /\ GestureInv
BY DEF Init, TouchInit, FingersInv, GestureInv

\* Whatever the fingers do, and whoever sees it: a drag is of the first finger
\* that is on the screen, alone, and a pinch of the two that are, save for
\* fingers that last came or went while a password was drawn.
THEOREM AlwaysGestureRight == Spec => []GestureRight
<1>1. FingersInv /\ GestureInv => GestureRight
  BY DEF FingersInv, GestureInv, GestureRight
<1> QED
  BY <1>1, GestureInitially, FingersStep, GestureStep, PTL DEF Spec

-----------------------------------------------------------------------------
(* The stage: the decoder, the picture and the text.                       *)

StageInv ==
  /\ at \in {"idle", "store", "send", "paint", "arrow", "upload", "hide",
            "nil arrow"}
  /\ visible \in BOOLEAN
  /\ decoder \in {"off", "idle", "bounds", "image", "write"}
  /\ {bounds, origBounds} \subseteq Sizes \cup {None}
  /\ frame \in Sizes \cup {None, "released"}
  /\ {msg, text} \subseteq Texts \cup {None}
  /\ OnStage
  /\ TextKept
  /\ decoder \in {"bounds", "image"} => bounds # None
  /\ decoder = "image" => origBounds = bounds
  /\ frame # None => decoder \in {"idle", "write", "bounds", "image"}
  /\ frame # None /\ decoder = "bounds" => frame = origBounds
  /\ frame # None /\ decoder \in {"idle", "write"} =>
       frame = bounds /\ origBounds = bounds

LEMMA StageInitially == Init => StageInv
BY DEF Init, TouchInit, StageInv, OnStage, TextKept

LEMMA StageStep ==
  ASSUME StageInv, [Next]_vars
  PROVE  StageInv'
<1> USE DEF StageInv, OnStage, TextKept
\* Touches happen on no stage or on one, and leave it alone.
<1>1. CASE TouchNext /\ UNCHANGED stageVars
  <2>1. {at, at'} \subseteq {"idle", "store", "send"} \/ at' = at
    BY <1>1 DEF TouchNext, Draw, Store, Send, ClearPass, Gesture
  <2> QED BY <1>1, <2>1 DEF stageVars
<1>2. CASE Show
  BY <1>2 DEF Show, ShowText, touchVars
<1>3. CASE Hide
  BY <1>3 DEF Hide, stageVars
<1>4. CASE Destroy
  BY <1>4 DEF Destroy, Stopped
<1>5. CASE Decoder
  <2>0. at' = at /\ visible' = visible
    BY <1>5 DEF Decoder, touchVars
  <2>1. CASE Decode /\ UNCHANGED <<origBounds, frame, msg, text>>
    BY <2>0, <2>1, ViewAssumption DEF Decode, Undecodable
  <2>2. CASE DrawPicture /\ UNCHANGED <<bounds, msg, text>>
    BY <2>0, <2>2 DEF DrawPicture, Replace, Released, None
  <2>3. CASE TakeText /\ UNCHANGED <<bounds, origBounds, frame, text>>
    BY <2>0, <2>3 DEF TakeText
  <2>4. CASE WriteText /\ UNCHANGED <<bounds, origBounds, frame, msg>>
    BY <2>0, <2>4 DEF WriteText
  <2> QED BY <1>5, <2>1, <2>2, <2>3, <2>4 DEF Decoder
<1>6. CASE Paints
  BY <1>6 DEF Paints, Paint, PaintPrompt, PaintPicture, PaintArrow, Upload,
         Painted
<1>7. CASE UNCHANGED vars
  BY <1>7 DEF vars, touchVars, stageVars
<1> QED BY <1>1, <1>2, <1>3, <1>4, <1>5, <1>6, <1>7 DEF Next

\* The decoder and the loop agree on the stage, and paint never meets an
\* image that has gone since it looked.
THEOREM AlwaysOnStage == Spec => []OnStage
<1>1. StageInv => OnStage
  BY DEF StageInv
<1> QED BY <1>1, StageInitially, StageStep, PTL DEF Spec

\* A picture is in an image of its own bounds.
THEOREM AlwaysFrameFits == Spec => []FrameFits
<1>1. StageInv => FrameFits
  BY DEF StageInv, FrameFits
<1> QED BY <1>1, StageInitially, StageStep, PTL DEF Spec

\* The last status text is on every stage.
THEOREM AlwaysTextKept == Spec => []TextKept
<1>1. StageInv => TextKept
  BY DEF StageInv
<1> QED BY <1>1, StageInitially, StageStep, PTL DEF Spec

-----------------------------------------------------------------------------
(* Painting.                                                               *)

PaintInv ==
  /\ paints \in 0 .. MaxPaints
  /\ at \in {"paint", "arrow", "upload"} => paints < MaxPaints
  /\ Painting

LEMMA PaintStep ==
  ASSUME StageInv, PaintInv, [Next]_vars
  PROVE  PaintInv'
<1>0. MaxPaints \in Nat \ {0} /\ paints \in Nat
  BY ViewAssumption DEF PaintInv
<1> USE DEF PaintInv, Painting
<1>1. CASE TouchNext /\ UNCHANGED stageVars
  <2>1. {at, at'} \subseteq {"idle", "store", "send"} \/ at' = at
    BY <1>1 DEF TouchNext, Draw, Store, Send, ClearPass, Gesture
  <2> QED BY <1>1, <2>1 DEF stageVars
<1>2. CASE Show
  BY <1>0, <1>2 DEF Show, ShowPaints, touchVars
<1>3. CASE Hide
  BY <1>3 DEF Hide, stageVars
<1>4. CASE Destroy
  BY <1>4 DEF Destroy
<1>5. CASE Decoder
  BY <1>5 DEF Decoder, touchVars
<1>6. CASE Paints
  <2>0. visible' = visible
    BY <1>6 DEF Paints
  <2>1. CASE Paint
    BY <1>0, <2>0, <2>1 DEF Paint
  <2>2. CASE at' \in {"arrow", "upload"} /\ at = "paint" /\ paints' = paints
    BY <2>2
  <2>3. CASE Painted /\ at \in {"paint", "arrow", "upload"}
    BY <1>0, <2>3 DEF Painted
  <2> QED BY <1>6, <2>1, <2>2, <2>3
          DEF Paints, PaintPrompt, PaintPicture, PaintArrow, Upload
<1>7. CASE UNCHANGED vars
  BY <1>7 DEF vars, touchVars, stageVars
<1> QED BY <1>1, <1>2, <1>3, <1>4, <1>5, <1>6, <1>7 DEF Next

LEMMA PaintInitially == Init => PaintInv
BY ViewAssumption DEF Init, PaintInv, Painting

\* A visible view goes on painting.
THEOREM AlwaysPainting == Spec => []Painting
<1>1. PaintInv => Painting
  BY DEF PaintInv
<1> QED BY <1>1, StageInitially, StageStep, PaintInitially, PaintStep, PTL
        DEF Spec

\* The types of everything, from the invariants.
THEOREM TypeCorrect == Spec => []TypeOK
<1>1. AuthInv /\ FlagsInv /\ FingersInv /\ GestureInv /\ StageInv /\ PaintInv
        => TypeOK
  BY DEF AuthInv, FlagsInv, FingersInv, GestureInv, StageInv, PaintInv, TypeOK, TouchTypeOK
<1> QED BY <1>1, AuthInitially, AuthStep, FlagsStep, GestureInitially,
           FingersStep, GestureStep, StageInitially, StageStep, PaintInitially, PaintStep,
           PTL DEF Spec
=============================================================================
