------------------------------- MODULE Touch -------------------------------
(***************************************************************************)
(* The touches of the view, and ClearPass, which the goroutines of         *)
(* cmd/client run beside the view's loop, without a lock.  While           *)
(* auth.phase is 0 touches draw the password (handlePassword); later they  *)
(* drag and pinch the picture (handleTouch).  A stroke is a direction, the *)
(* sum of up 8, down 4, right 2 and left 1.                                *)
(*                                                                         *)
(* Left out: positions but for the direction of a stroke, times but for    *)
(* "a second tap within 200 ms", offsets and zoom.  handlePassword is one  *)
(* step, what the loop does with its result are others.                    *)
(***************************************************************************)
EXTENDS Integers

CONSTANTS
  Fingers,      \* those that touch the screen: the first, 0, the second, 1
  PassLen,      \* strokes of a password
  Deltas        \* the ways a finger has gone since it went down: <<dx, dy>>

ASSUME FingersAssumption == Fingers \subseteq {0, 1}
ASSUME PassLenAssumption == PassLen \in Nat \ {0}
ASSUME DeltasAssumption == Deltas \subseteq Int \X Int

VARIABLES
  at,           \* what the view's loop does
  phase,        \* auth.phase
  strokes,      \* len(auth.pass), at most PassLen (nothing looks beyond)
  drawn,        \* while at = "store": what handlePassword returned
  n,            \* auth.n, the stroke of this touch, or 0
  fingersDown,  \* auth.fingersDown: a stroke of this touch counted
  last,         \* auth.last has a type: strokes are measured from it
  wiping,       \* where a ClearPass is
  begun,        \* the fingers of which lastBegin and lastBegin2 are set
  moving, pinching, pinchingIntent,  \* the gesture, as in touch
  down,         \* environment: the fingers on the screen
  missed        \* history: the fingers whose last begin or end drew a password

authVars    == <<phase, strokes, n, fingersDown, last>>
gestureVars == <<begun, moving, pinching, pinchingIntent>>
fingerVars  == <<down, missed>>
touchVars   == <<at, authVars, drawn, wiping, gestureVars, fingerVars>>

\* The arrows initStage loads: four directions, and four in between.
Arrows == {1, 2, 4, 8, 5, 9, 6, 10}

TouchTypeOK ==
  /\ phase \in {0, 1}
  /\ strokes \in 0 .. PassLen /\ drawn \in 0 .. PassLen
  /\ n \in Arrows \cup {0} /\ fingersDown \in BOOLEAN /\ last \in BOOLEAN
  /\ wiping \in {"no", "pass", "rest"}
  /\ begun \subseteq Fingers /\ down \subseteq Fingers
  /\ missed \subseteq Fingers
  /\ moving \in BOOLEAN /\ pinching \in BOOLEAN /\ pinchingIntent \in BOOLEAN

\* After the loop's own ClearPass.
TouchInit ==
  /\ at = "idle" /\ phase = 0 /\ strokes = 0 /\ drawn = 0
  /\ n = 0 /\ fingersDown = FALSE /\ last = FALSE /\ wiping = "no"
  /\ begun = {} /\ moving = FALSE /\ pinching = FALSE
  /\ pinchingIntent = FALSE
  /\ down = {} /\ missed = {}

\* What fingers do: go down, and once they are down, move and go up.
Touches(s) == s \in Fingers \ down /\ down' = down \cup {s}
Lifts(s)   == s \in down /\ down' = down \ {s}
Moves(s)   == s \in down /\ down' = down

-----------------------------------------------------------------------------
(* handlePassword, for the first finger.                                   *)

Abs(x) == IF x < 0 THEN -x ELSE x

\* The quotient of the distances decides: below 2.5 there is a vertical part,
\* above 1 / 2.5 a horizontal one, and between them both.
Direction(d) ==
  (IF 2 * Abs(d[1]) < 5 * Abs(d[2]) THEN IF d[2] < 0 THEN 8 ELSE 4 ELSE 0)
  + (IF 5 * Abs(d[1]) > 2 * Abs(d[2]) THEN IF d[1] < 0 THEN 1 ELSE 2 ELSE 0)

\* A finger goes down.  A quick second tap starts the password again.
PassBegin(quick) ==
  /\ drawn' = IF quick THEN 0 ELSE strokes
  /\ last' = ~quick
  /\ fingersDown' = (fingersDown /\ quick)
  /\ UNCHANGED n

PassEnd ==
  /\ drawn' = strokes /\ n' = 0 /\ last' = FALSE /\ fingersDown' = FALSE

\* A move too short, or in the direction of before, does not count.
PassMove(d) ==
  LET counts == last /\ Direction(d) \notin {0, n}
  IN /\ drawn' = IF counts /\ strokes < PassLen THEN strokes + 1 ELSE strokes
     /\ n' = IF counts THEN Direction(d) ELSE n
     /\ fingersDown' = (fingersDown \/ counts)
     /\ UNCHANGED last

\* The second finger draws nothing.
PassSecond == drawn' = strokes /\ UNCHANGED <<n, fingersDown, last>>

\* The loop has handlePassword look at the event, and keeps what it returns.
\* handleTouch does not see it.
Draw ==
  /\ at = "idle" /\ phase = 0 /\ at' = "store"
  /\ \/ /\ Touches(0) /\ missed' = missed \cup {0}
        /\ \E quick \in BOOLEAN : PassBegin(quick)
     \/ Lifts(0) /\ missed' = missed \cup {0} /\ PassEnd
     \/ Moves(0) /\ missed' = missed /\ \E d \in Deltas : PassMove(d)
     \/ (Touches(1) \/ Lifts(1)) /\ missed' = missed \cup {1} /\ PassSecond
     \/ Moves(1) /\ missed' = missed /\ PassSecond
  /\ UNCHANGED <<phase, strokes, wiping, gestureVars>>

Store ==
  /\ at = "store" /\ strokes' = drawn
  /\ at' = IF drawn >= PassLen THEN "send" ELSE "idle"
  /\ UNCHANGED <<phase, drawn, n, fingersDown, last, wiping, gestureVars>>
  /\ UNCHANGED fingerVars

\* The password is sent, and touches get their other meaning.
Send ==
  /\ at = "send" /\ at' = "idle" /\ phase' = 1
  /\ UNCHANGED <<strokes, drawn, n, fingersDown, last, wiping, gestureVars>>
  /\ UNCHANGED fingerVars

-----------------------------------------------------------------------------
(* ClearPass, in the order of its assignments.  It runs when a password    *)
(* was refused, which takes the server far longer than the loop takes to   *)
(* get to phase 1 (Session).                                               *)

Wipe ==
  /\ wiping = "no" /\ phase = 1
  /\ phase' = 0 /\ wiping' = "pass"
  /\ UNCHANGED <<strokes, n, fingersDown, last>>

\* Mutant: the strokes stay.
Made_Keeps == strokes

Made == 0

WipePass ==
  /\ wiping = "pass" /\ strokes' = Made /\ wiping' = "rest"
  /\ UNCHANGED <<phase, n, fingersDown, last>>

WipeRest ==
  /\ wiping = "rest" /\ wiping' = "no"
  /\ last' = FALSE /\ n' = 0 /\ fingersDown' = FALSE
  /\ UNCHANGED <<phase, strokes>>

ClearPass ==
  /\ Wipe \/ WipePass \/ WipeRest
  /\ UNCHANGED <<at, drawn, gestureVars, fingerVars>>

-----------------------------------------------------------------------------
(* handleTouch, for the fingers 0 and 1.                                   *)

\* Mutant: the second finger does not end the drag.
Begin_Drags(s) ==
  /\ begun' = begun \cup {s}
  /\ UNCHANGED <<moving, pinching, pinchingIntent>>

Begin(s) ==
  /\ begun' = begun \cup {s}
  /\ moving' = (moving /\ s = 0)
  /\ UNCHANGED <<pinching, pinchingIntent>>

End(s) ==
  /\ begun' = begun \ {s}
  /\ pinching' = FALSE /\ pinchingIntent' = FALSE
  /\ moving' = (moving /\ s = 1)

\* Without a first finger a move is dropped; one finger drags once it is far
\* from where it went down; two pinch once their distance is far from what it
\* was at their first move.
Moving(far) ==
  /\ UNCHANGED begun
  /\ \/ 0 \notin begun /\ UNCHANGED <<moving, pinching, pinchingIntent>>
     \/ /\ begun = {0} /\ moving' = (moving \/ far)
        /\ UNCHANGED <<pinching, pinchingIntent>>
     \/ /\ begun = {0, 1} /\ pinchingIntent' = TRUE
        /\ pinching' = (pinching \/ (pinchingIntent /\ far))
        /\ UNCHANGED moving

Gesture ==
  /\ at = "idle" /\ phase = 1
  /\ \E s \in Fingers :
       \/ Touches(s) /\ missed' = missed \ {s} /\ Begin(s)
       \/ Lifts(s) /\ missed' = missed \ {s} /\ End(s)
       \/ Moves(s) /\ missed' = missed /\ \E far \in BOOLEAN : Moving(far)
  /\ UNCHANGED <<at, authVars, drawn, wiping>>

TouchNext == Draw \/ Store \/ Send \/ ClearPass \/ Gesture

-----------------------------------------------------------------------------
(* Properties.                                                             *)

\* Whenever a password is asked for, and neither the loop nor a ClearPass is
\* in the middle of something, there is at least one stroke still to draw:
\* ClearPass and the loop write to auth at the same time, and an old password
\* that came through would make the next touch send it again.
StartsAfresh ==
  phase = 0 /\ wiping = "no" /\ at \notin {"store", "send"}
    => strokes < PassLen

\* A drag is of the first finger alone, and a pinch of both, in whatever order
\* they come and go.  A finger that came or went while a password was drawn is
\* taken for what it was before, until it next comes or goes: handlePassword
\* does not tell handleTouch.
GestureRight ==
  /\ moving   => 0 \in down \cup missed /\ 1 \notin down \ missed
  /\ pinching => {0, 1} \subseteq down \cup missed
=============================================================================
