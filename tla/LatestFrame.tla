---------------------------- MODULE LatestFrame ----------------------------
(***************************************************************************)
(* What the camera server promises its viewers about pictures, with none   *)
(* of the goroutines, buffers and counters that provide it.  The camera    *)
(* publishes ever newer frames; a viewer is only ever handed the frame     *)
(* that is the latest at that moment, so what one connection sees never    *)
(* goes back in time.  FrameStream implements this.                        *)
(***************************************************************************)
EXTENDS Naturals

CONSTANT Viewers    \* the connections that may watch

VARIABLES
  latest,           \* number of the newest published frame, 0 = none yet
  seen              \* seen[v]: the frame v was last handed, 0 = none yet

vars == <<latest, seen>>

Init ==
  /\ latest = 0
  /\ seen = [v \in Viewers |-> 0]

\* A newer frame replaces the published one.  Frames may be skipped.
Publish ==
  /\ latest' \in Nat
  /\ latest' > latest
  /\ UNCHANGED seen

\* A viewer is handed the latest frame; it may be handed the same one again.
Serve(v) ==
  /\ latest # 0
  /\ seen' = [seen EXCEPT ![v] = latest]
  /\ UNCHANGED latest

\* A viewer's connection ends; a later connection starts from nothing.
Forget(v) ==
  /\ seen' = [seen EXCEPT ![v] = 0]
  /\ UNCHANGED latest

Next == Publish \/ \E v \in Viewers : Serve(v) \/ Forget(v)

Spec == Init /\ [][Next]_vars
============================================================================
