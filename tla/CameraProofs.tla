---------------------------- MODULE CameraProofs ----------------------------
(***************************************************************************)
(* Proofs about Camera, for any formats and sizes and any number of faults *)
(* and adjustments.                                                        *)
(*                                                                         *)
(* FormatFollows needs what holds while it does not apply: a change that   *)
(* is on its way (Pending) keeps being announced until the camera goroutine*)
(* reads the resolution again (FormatInv).  OneDevice needs to know where  *)
(* in tryInitCam the handle and the descriptor may disagree (HandleInv).   *)
(***************************************************************************)
EXTENDS Camera, TLAPS

\* The resolution has changed, and the camera goroutine will hear of it.
Pending ==
  \/ reinit
  \/ adj # "idle" /\ activeRes # oActiveRes

\* With no change on its way, what tryInitCam has read so far is current.
FormatInv ==
  /\ pc = "clear" => reinit
  /\ ~Pending =>
       /\ pc = "height" => width = activeRes
       /\ pc = "stream" \/ pc \in Looping =>
            /\ format.pix # Unset
            /\ format.width = activeRes /\ format.height = activeRes

\* The descriptor is open exactly when there is a handle, except between the
\* close and the open.
HandleInv ==
  /\ pc = "open" => fds = 0
  /\ pc # "open" /\ handle = "nil" => fds = 0
  /\ pc # "open" /\ handle # "nil" => fds = 1
  /\ pc \in {"formats", "sizes", "width", "height", "stream"} =>
       handle = "open"
  /\ fds \in {0, 1}

\* The loop runs on a camera that was started, or is about to start one.
LoopInv ==
  pc \in Looping =>
    \/ handle \in {"streaming", "dead"}
    \/ handle = "nil" /\ reinit /\ pc \in {"top", "clear"}

IInv == TypeOK /\ ActiveExists /\ FormatInv /\ HandleInv /\ LoopInv

\* Which position is in the loop, spelled out once for the provers.
LEMMA InLoop ==
  /\ "top" \in Looping /\ "clear" \in Looping /\ "wait" \in Looping
  /\ "pace" \in Looping /\ "grab" \in Looping
  /\ "close" \notin Looping /\ "open" \notin Looping
  /\ "formats" \notin Looping
  /\ "sizes" \notin Looping /\ "width" \notin Looping
  /\ "height" \notin Looping /\ "stream" \notin Looping
  /\ "index out of range" \notin Looping /\ "divide by zero" \notin Looping
  BY DEF Looping

LEMMA InPositions ==
  ASSUME NEW p \in {"top", "clear", "wait", "pace", "grab", "close",
                    "open", "formats", "sizes", "width", "height", "stream",
                    "index out of range", "divide by zero"}
  PROVE  p \in Positions
  BY DEF Positions, Looping, Panics, Opening

LEMMA InitIInv == Init => IInv
<1> SUFFICES ASSUME Init PROVE IInv
  OBVIOUS
<1>1. pc \in Positions
  BY InPositions DEF Init
<1>2. reinit \in BOOLEAN /\ fpsZero \in BOOLEAN /\ flowing \in BOOLEAN
  BY DEF Init
<1>3. TypeOK
  BY <1>1, <1>2, BoundsAssumption DEF Init, TypeOK
<1>4. ActiveExists /\ HandleInv
  BY DEF Init, ActiveExists, HandleInv
<1>5. FormatInv /\ LoopInv
  BY InLoop DEF Init, FormatInv, Pending, LoopInv
<1> QED BY <1>3, <1>4, <1>5 DEF IInv

LEMMA NextIInv == IInv /\ [Next]_vars => IInv'
<1> SUFFICES ASSUME IInv, [Next]_vars PROVE IInv'
  OBVIOUS
<1>t. TypeOK /\ ActiveExists /\ FormatInv /\ HandleInv /\ LoopInv
  BY DEF IInv
<1>f. fds \in Nat
  BY <1>t DEF TypeOK
<1> USE <1>t DEF devVars, resVars, adjVars, camVars, Fault, NoFault
<1>1. CASE CloseCam
  <2>1. pc' \in Positions /\ reinit' \in BOOLEAN
    BY <1>1, InPositions DEF CloseCam, NeedsClose, TypeOK
  <2>2. TypeOK'
    BY <1>1, <2>1, FormatsAssumption, BoundsAssumption
    DEF CloseCam, NeedsClose, TypeOK, HandleInv
  <2>3. FormatInv'
    BY <1>1, InLoop DEF CloseCam, NeedsClose, FormatInv, Pending
  <2>4. ActiveExists'
    BY <1>1 DEF CloseCam, NeedsClose, ActiveExists
  <2>5. HandleInv'
    BY <1>1, <1>f DEF CloseCam, NeedsClose, HandleInv
  <2>6. LoopInv'
    BY <1>1, InLoop DEF CloseCam, NeedsClose, LoopInv, HandleInv
  <2> QED BY <2>2, <2>3, <2>4, <2>5, <2>6 DEF IInv
<1>2. CASE OpenCam
  <2>1. pc' \in Positions /\ reinit' \in BOOLEAN
    BY <1>2, InPositions DEF OpenCam, TypeOK
  <2>2. TypeOK'
    BY <1>2, <2>1, FormatsAssumption, BoundsAssumption DEF OpenCam, TypeOK
  <2>3. FormatInv'
    BY <1>2, InLoop DEF OpenCam, FormatInv, Pending
  <2>4. ActiveExists'
    BY <1>2 DEF OpenCam, ActiveExists
  <2>5. HandleInv'
    BY <1>2, <1>f DEF OpenCam, HandleInv
  <2>6. LoopInv'
    BY <1>2, InLoop DEF OpenCam, LoopInv, HandleInv
  <2> QED BY <2>2, <2>3, <2>4, <2>5, <2>6 DEF IInv
<1>3. CASE TakeFormat
  <2>1. pc' \in Positions /\ reinit' \in BOOLEAN
    BY <1>3, InPositions DEF TakeFormat, TypeOK
  <2>2. TypeOK'
    BY <1>3, <2>1, FormatsAssumption, BoundsAssumption
    DEF TakeFormat, TypeOK
  <2>3. FormatInv'
    BY <1>3, InLoop DEF TakeFormat, FormatInv, Pending
  <2>4. ActiveExists' /\ HandleInv' /\ LoopInv'
    BY <1>3, <1>f, InLoop
    DEF TakeFormat, ActiveExists, HandleInv, LoopInv
  <2> QED BY <2>2, <2>3, <2>4 DEF IInv
<1>19. CASE ListSizes
  <2>0. Fitting \in Nat
    BY FormatsAssumption DEF Fitting, TypeOK
  <2>1. pc' \in Positions /\ reinit' \in BOOLEAN
    BY <1>19, InPositions DEF ListSizes, TypeOK
  <2>2. TypeOK'
    BY <1>19, <2>0, <2>1, FormatsAssumption, BoundsAssumption
    DEF ListSizes, TypeOK
  <2>3. FormatInv'
    BY <1>19, InLoop DEF ListSizes, FormatInv, Pending
  <2>4. ActiveExists'
    BY <1>19, <2>0 DEF ListSizes, TypeOK, ActiveExists
  <2>5. HandleInv' /\ LoopInv'
    BY <1>19, <1>f, InLoop DEF ListSizes, HandleInv, LoopInv
  <2> QED BY <2>2, <2>3, <2>4, <2>5 DEF IInv
<1>4. CASE ReadWidth
  <2>1. pc' \in Positions /\ reinit' \in BOOLEAN
    BY <1>4, InPositions DEF ReadWidth, TypeOK
  <2>2. TypeOK'
    BY <1>4, <2>1, FormatsAssumption, BoundsAssumption DEF ReadWidth, TypeOK
  <2>3. FormatInv'
    BY <1>4, InLoop DEF ReadWidth, FormatInv, Pending
  <2>4. ActiveExists' /\ HandleInv' /\ LoopInv'
    BY <1>4, InLoop, <1>f, FormatsAssumption
    DEF ReadWidth, TypeOK, ActiveExists, HandleInv, LoopInv
  <2> QED BY <2>2, <2>3, <2>4 DEF IInv
<1>5. CASE SetFormat
  <2>0. Taken \subseteq Formats
    BY DEF Taken, TypeOK
  <2>1. pc' \in Positions /\ reinit' \in BOOLEAN
    BY <1>5, InPositions DEF SetFormat, TypeOK
  <2>2. TypeOK'
    BY <1>5, <2>0, <2>1, FormatsAssumption, BoundsAssumption
    DEF SetFormat, TypeOK
  <2>3. FormatInv'
    <3>1. Pending' <=> Pending
      BY <1>5 DEF SetFormat, Pending
    <3>2. CASE pc' = "close"
      BY <1>5, <3>1, <3>2, InLoop DEF SetFormat, FormatInv
    <3>3. ASSUME NEW p \in Taken,
                 format' = [pix |-> p, width |-> width, height |-> activeRes]
          PROVE  FormatInv'
      <4>1. p # Unset /\ (~Pending => width = activeRes)
        BY <1>5, <2>0, FormatsAssumption DEF SetFormat, FormatInv
      <4>2. /\ format'.pix = p
            /\ format'.width = width /\ format'.height = activeRes
        BY <3>3
      <4>3. activeRes' = activeRes /\ pc' \in {"stream", "close"}
        BY <1>5 DEF SetFormat
      <4> QED BY <3>1, <4>1, <4>2, <4>3, InLoop DEF FormatInv
    <3> QED BY <1>5, <3>2, <3>3 DEF SetFormat
  <2>4. ActiveExists' /\ HandleInv' /\ LoopInv'
    BY <1>5, InLoop, <1>f, FormatsAssumption
    DEF SetFormat, TypeOK, ActiveExists, HandleInv, LoopInv
  <2> QED BY <2>2, <2>3, <2>4 DEF IInv
<1>6. CASE StartStreaming
  <2>1. pc' \in Positions /\ reinit' \in BOOLEAN
    BY <1>6, InPositions DEF StartStreaming, TypeOK
  <2>2. TypeOK'
    BY <1>6, <2>1, FormatsAssumption, BoundsAssumption
    DEF StartStreaming, TypeOK
  <2>3. FormatInv'
    BY <1>6, InLoop DEF StartStreaming, FormatInv, Pending
  <2>4. ActiveExists' /\ HandleInv' /\ LoopInv'
    BY <1>6, InLoop, <1>f, FormatsAssumption
    DEF StartStreaming, TypeOK, ActiveExists, HandleInv, LoopInv
  <2> QED BY <2>2, <2>3, <2>4 DEF IInv
<1>7. CASE Top
  <2>1. pc' \in Positions /\ reinit' \in BOOLEAN
    BY <1>7, InPositions DEF Top, TypeOK
  <2>2. TypeOK'
    BY <1>7, <2>1, FormatsAssumption, BoundsAssumption DEF Top, TypeOK
  <2>3. FormatInv'
    BY <1>7, InLoop DEF Top, FormatInv, Pending
  <2>4. ActiveExists' /\ HandleInv' /\ LoopInv'
    BY <1>7, InLoop, <1>f, FormatsAssumption
    DEF Top, TypeOK, ActiveExists, HandleInv, LoopInv
  <2> QED BY <2>2, <2>3, <2>4 DEF IInv
<1>8. CASE Clear
  <2>1. pc' \in Positions /\ reinit' \in BOOLEAN
    BY <1>8, InPositions DEF Clear, TypeOK
  <2>2. TypeOK'
    BY <1>8, <2>1, FormatsAssumption, BoundsAssumption DEF Clear, TypeOK
  <2>3. FormatInv'
    BY <1>8, InLoop DEF Clear, FormatInv, Pending
  <2>4. ActiveExists' /\ HandleInv' /\ LoopInv'
    BY <1>8, InLoop, <1>f, FormatsAssumption
    DEF Clear, TypeOK, ActiveExists, HandleInv, LoopInv
  <2> QED BY <2>2, <2>3, <2>4 DEF IInv
<1>9. CASE WaitForFrame
  <2>1. pc' \in Positions /\ reinit' \in BOOLEAN
    BY <1>9, InPositions DEF WaitForFrame, SeesError, Reopen, TypeOK
  <2>2. TypeOK'
    BY <1>9, <2>1, FormatsAssumption, BoundsAssumption
    DEF WaitForFrame, SeesError, Reopen, TypeOK
  <2>3. FormatInv'
    BY <1>9, InLoop DEF WaitForFrame, SeesError, Reopen, FormatInv, Pending
  <2>4. ActiveExists' /\ HandleInv' /\ LoopInv'
    BY <1>9, InLoop, <1>f, FormatsAssumption
    DEF WaitForFrame, SeesError, Reopen, TypeOK, ActiveExists, HandleInv,
        LoopInv
  <2> QED BY <2>2, <2>3, <2>4 DEF IInv
<1>10. CASE Pace
  <2>1. pc' \in Positions /\ reinit' \in BOOLEAN
    BY <1>10, InPositions DEF Pace, TypeOK
  <2>2. TypeOK'
    BY <1>10, <2>1, FormatsAssumption, BoundsAssumption DEF Pace, TypeOK
  <2>3. FormatInv'
    BY <1>10, InLoop DEF Pace, FormatInv, Pending
  <2>4. ActiveExists' /\ HandleInv' /\ LoopInv'
    BY <1>10, InLoop, <1>f, FormatsAssumption
    DEF Pace, TypeOK, ActiveExists, HandleInv, LoopInv
  <2> QED BY <2>2, <2>3, <2>4 DEF IInv
<1>11. CASE Grab
  <2>1. pc' \in Positions /\ reinit' \in BOOLEAN /\ flowing' \in BOOLEAN
    BY <1>11, InPositions DEF Grab, GrabFails, GrabPicture, SeesError, Reopen, TypeOK
  <2>2. TypeOK'
    BY <1>11, <2>1, FormatsAssumption, BoundsAssumption
    DEF Grab, GrabFails, GrabPicture, SeesError, Reopen, TypeOK
  <2>3. FormatInv'
    BY <1>11, InLoop DEF Grab, GrabFails, GrabPicture, SeesError, Reopen, FormatInv, Pending
  <2>4. ActiveExists' /\ HandleInv' /\ LoopInv'
    BY <1>11, InLoop, <1>f, FormatsAssumption
    DEF Grab, GrabFails, GrabPicture, SeesError, Reopen, TypeOK, ActiveExists, HandleInv, LoopInv
  <2> QED BY <2>2, <2>3, <2>4 DEF IInv
<1>12. CASE adj = "idle" /\ Lower
  <2>1. pc' \in Positions /\ reinit' \in BOOLEAN
    BY <1>12, InPositions DEF Lower, Adjust, Running, TypeOK
  <2>2. TypeOK'
    BY <1>12, <2>1, FormatsAssumption, BoundsAssumption
    DEF Lower, Adjust, Running, TypeOK
  <2>3. FormatInv'
    BY <1>12, InLoop DEF Lower, Adjust, Running, FormatInv, Pending
  <2>4. ActiveExists'
    BY <1>12, FormatsAssumption
    DEF Lower, Adjust, Running, TypeOK, ActiveExists
  <2>5. HandleInv' /\ LoopInv'
    BY <1>12, <1>f, InLoop DEF Lower, Adjust, Running, HandleInv, LoopInv
  <2> QED BY <2>2, <2>3, <2>4, <2>5 DEF IInv
<1>13. CASE adj = "idle" /\ Raise
  <2>1. pc' \in Positions /\ reinit' \in BOOLEAN
    BY <1>13, InPositions DEF Raise, Larger, Adjust, Running, TypeOK
  <2>2. TypeOK'
    BY <1>13, <2>1, FormatsAssumption, BoundsAssumption
    DEF Raise, Larger, Adjust, Running, TypeOK
  <2>3. FormatInv'
    BY <1>13, InLoop DEF Raise, Larger, Adjust, Running, FormatInv, Pending
  <2>4. ActiveExists'
    BY <1>13, FormatsAssumption
    DEF Raise, Larger, Adjust, Running, TypeOK, ActiveExists
  <2>5. HandleInv' /\ LoopInv'
    BY <1>13, <1>f, InLoop
    DEF Raise, Larger, Adjust, Running, HandleInv, LoopInv
  <2> QED BY <2>2, <2>3, <2>4, <2>5 DEF IInv
<1>14. CASE adj = "idle" /\ Slow
  <2>1. pc' \in Positions /\ reinit' \in BOOLEAN
    BY <1>14, InPositions DEF Slow, Adjust, Running, TypeOK
  <2>2. TypeOK'
    BY <1>14, <2>1, FormatsAssumption, BoundsAssumption
    DEF Slow, Adjust, Running, TypeOK
  <2>3. FormatInv'
    BY <1>14, InLoop DEF Slow, Adjust, Running, FormatInv, Pending
  <2>4. ActiveExists' /\ HandleInv' /\ LoopInv'
    BY <1>14, InLoop, <1>f, FormatsAssumption
    DEF Slow, Adjust, Running, TypeOK, ActiveExists, HandleInv, LoopInv
  <2> QED BY <2>2, <2>3, <2>4 DEF IInv
<1>15. CASE Clamp
  <2>1. pc' \in Positions /\ reinit' \in BOOLEAN
    BY <1>15, InPositions DEF Clamp, Running, TypeOK
  <2>2. TypeOK'
    BY <1>15, <2>1, FormatsAssumption, BoundsAssumption
    DEF Clamp, Running, TypeOK
  <2>3. FormatInv'
    BY <1>15, InLoop DEF Clamp, Running, FormatInv, Pending
  <2>4. ActiveExists' /\ HandleInv' /\ LoopInv'
    BY <1>15, InLoop, <1>f, FormatsAssumption
    DEF Clamp, Running, TypeOK, ActiveExists, HandleInv, LoopInv
  <2> QED BY <2>2, <2>3, <2>4 DEF IInv
<1>16. CASE Flag
  <2>1. pc' \in Positions /\ reinit' \in BOOLEAN
    BY <1>16, InPositions DEF Flag, Changed, Running, TypeOK
  <2>2. TypeOK'
    BY <1>16, <2>1, FormatsAssumption, BoundsAssumption
    DEF Flag, Changed, Running, TypeOK
  <2>3. FormatInv'
    BY <1>16, InLoop DEF Flag, Changed, Running, FormatInv, Pending
  <2>4. ActiveExists' /\ HandleInv' /\ LoopInv'
    BY <1>16, InLoop, <1>f, FormatsAssumption
    DEF Flag, Changed, Running, TypeOK, ActiveExists, HandleInv, LoopInv
  <2> QED BY <2>2, <2>3, <2>4 DEF IInv
<1>17. CASE Die
  <2>1. pc' \in Positions /\ reinit' \in BOOLEAN
    BY <1>17, InPositions DEF Die, Running, TypeOK
  <2>2. TypeOK'
    BY <1>17, <2>1, FormatsAssumption, BoundsAssumption
    DEF Die, Running, TypeOK
  <2>3. FormatInv'
    BY <1>17, InLoop DEF Die, Running, FormatInv, Pending
  <2>4. ActiveExists' /\ HandleInv' /\ LoopInv'
    BY <1>17, InLoop, <1>f, FormatsAssumption
    DEF Die, Running, TypeOK, ActiveExists, HandleInv, LoopInv
  <2> QED BY <2>2, <2>3, <2>4 DEF IInv
<1>18. CASE UNCHANGED vars
  BY <1>18 DEF vars, IInv, TypeOK, ActiveExists, FormatInv, Pending,
            HandleInv, LoopInv
<1> QED
  BY <1>1, <1>2, <1>3, <1>4, <1>5, <1>6, <1>7, <1>8, <1>9, <1>10, <1>11,
     <1>12, <1>13, <1>14, <1>15, <1>16, <1>17, <1>18, <1>19
  DEF Next, Capturing

\* The invariant has the properties in it.
LEMMA IInvImplies ==
  IInv => TypeOK /\ ActiveExists /\ FormatFollows /\ OneDevice
<1>1. IInv => TypeOK /\ ActiveExists
  BY DEF IInv
<1>2. IInv => FormatFollows
  BY DEF IInv, FormatInv, Pending, FormatFollows
<1>3. IInv => OneDevice
  BY DEF IInv, HandleInv, LoopInv, OneDevice, Looping
<1> QED BY <1>1, <1>2, <1>3

\* The type invariant holds of every reachable state.
THEOREM TypeCorrect == Spec => []TypeOK
  BY InitIInv, NextIInv, IInvImplies, PTL DEF Spec

\* cam.resolutions is never indexed out of its range by an adjustment.
THEOREM ActiveStays == Spec => []ActiveExists
  BY InitIInv, NextIInv, IInvImplies, PTL DEF Spec

\* No change of the resolution is lost on its way to the device, although the
\* camera goroutine takes no lock.
THEOREM NoLostReinit == Spec => []FormatFollows
  BY InitIInv, NextIInv, IInvImplies, PTL DEF Spec

\* The device is never opened twice, nor waited on before it streams.
THEOREM DeviceOnce == Spec => []OneDevice
  BY InitIInv, NextIInv, IInvImplies, PTL DEF Spec

-----------------------------------------------------------------------------
(* How far the two findings about the camera go.                           *)

\* Opening the camera panics for one reason only ...
Unlisted == pc = "index out of range" => resolutions = 0

\* ... since there is a list, if only an empty one, when it is indexed.
ListInv ==
  /\ Unlisted
  /\ pc \in {"width", "height", "stream"} => resolutions >= 0

\* After the listing there is a list.
LEMMA ListedIsListed ==
  ASSUME pix \in Formats \cup {Unset}, resolutions \in Nat \cup {-1}, ListSizes
  PROVE  resolutions' >= 0 /\ pc' \in {"close", "width"}
<1>1. Fitting \in Nat
  BY FormatsAssumption DEF Fitting
<1>2. pc' \in {"close", "width"}
  BY DEF ListSizes
<1>3. CASE resolutions = -1
  BY <1>1, <1>3 DEF ListSizes
<1>4. CASE resolutions # -1
  BY <1>4 DEF ListSizes, resVars
<1> QED BY <1>2, <1>3, <1>4

\* A list that has an active resolution is not indexed out of range.
LEMMA OutOfRangeOfNone ==
  ASSUME ActiveExists, resolutions >= 0, resolutions \in Nat \cup {-1},
         ReadWidth
  PROVE  /\ resolutions' >= 0
         /\ pc' = "index out of range" => resolutions' = 0
<1>1. resolutions' = resolutions
  BY DEF ReadWidth, resVars
<1>2. CASE resolutions > 0
  BY <1>1, <1>2 DEF ReadWidth, ActiveExists
<1>3. resolutions > 0 \/ resolutions = 0
  OBVIOUS
<1> QED BY <1>1, <1>2, <1>3

\* That reason is that the sizes were listed and none was found, be it that
\* none fits or that the device failed while it was asked.  Whatever else
\* fails, initCam keeps trying as its message says.
THEOREM TriesOn == Spec => []Unlisted
<1>1. Init => ListInv
  BY DEF Init, ListInv, Unlisted
<1>2. IInv /\ ListInv /\ [Next]_vars => ListInv'
  <2> SUFFICES ASSUME IInv, ListInv, [Next]_vars PROVE ListInv'
    OBVIOUS
  <2>0. /\ resolutions \in Nat \cup {-1} /\ activeRes \in Int
        /\ pix \in Formats \cup {Unset} /\ ActiveExists
    BY DEF IInv, TypeOK
  <2> USE DEF ListInv, Unlisted
  <2>1. CASE ListSizes
    BY <2>0, <2>1, ListedIsListed
  <2>2. CASE ReadWidth
    BY <2>0, <2>2, OutOfRangeOfNone DEF ReadWidth
  <2>3. CASE CloseCam \/ OpenCam \/ TakeFormat \/ SetFormat \/ StartStreaming
    BY <2>3
    DEF CloseCam, OpenCam, TakeFormat, SetFormat, StartStreaming, resVars
  <2>4. CASE Top \/ Clear \/ WaitForFrame \/ Pace \/ Grab
    BY <2>4
    DEF Top, Clear, WaitForFrame, Pace, Grab, GrabFails, GrabPicture, Reopen,
        resVars
  <2>5. CASE Lower \/ Raise \/ Slow \/ Clamp \/ Flag
    BY <2>5 DEF Lower, Raise, Slow, Adjust, Clamp, Flag, camVars, resVars, Running
  <2>6. CASE Die \/ UNCHANGED vars
    BY <2>6 DEF Die, vars, resVars
  <2> QED
    BY <2>1, <2>2, <2>3, <2>4, <2>5, <2>6 DEF Next, Capturing
<1>3. ListInv => Unlisted
  BY DEF ListInv
<1> QED BY InitIInv, NextIInv, <1>1, <1>2, <1>3, PTL DEF Spec

\* A camera with one pixel format keeps it through every reopening.
THEOREM OneFormatStays ==
  ASSUME NEW p, Formats = {p}
  PROVE  Spec => SameFormat
<1>1. IInv /\ [Next]_vars =>
        [format.pix # Unset => format'.pix = format.pix]_format
  <2> SUFFICES ASSUME IInv, [Next]_vars, format' # format, format.pix # Unset
               PROVE  format'.pix = format.pix
    OBVIOUS
  <2>1. format.pix = p
    BY DEF IInv, TypeOK
  <2>2. SetFormat
    <3>1. ~UNCHANGED vars /\ ~UNCHANGED camVars /\ ~UNCHANGED devVars
      BY DEF vars, camVars, devVars
    <3> QED
      BY <3>1
      DEF Next, Capturing, CloseCam, OpenCam, TakeFormat, ListSizes, ReadWidth,
          StartStreaming, Top, Clear, WaitForFrame, Pace, Grab, GrabFails,
          GrabPicture, Lower, Raise, Slow, Adjust, Clamp, Flag, Die
  <2>3. Taken \subseteq {p}
    BY DEF Taken, IInv, TypeOK
  <2>4. format'.pix = format.pix \/ format'.pix \in Taken
    BY <2>2 DEF SetFormat
  <2> QED BY <2>1, <2>3, <2>4
<1> QED BY InitIInv, NextIInv, <1>1, PTL DEF Spec, SameFormat
=============================================================================
