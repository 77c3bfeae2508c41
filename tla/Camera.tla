------------------------------- MODULE Camera -------------------------------
(***************************************************************************)
(* The camera of the server: the goroutine of Start opens the device       *)
(* (initCam, tryInitCam), waits for frames, paces them and passes them on, *)
(* and opens the device again when it fails or when the resolution is to   *)
(* change.  The resolution, the frame rate and the flag cam.reinit are     *)
(* changed by addBytes, in the goroutines of the connections; addBytes     *)
(* holds the mutex sem, the camera goroutine reads all three without it.   *)
(*                                                                         *)
(* Why addBytes adjusts is left open here, what it stores and in which     *)
(* order is not.  The webcam library and the device are external: a call   *)
(* may fail, a streaming device may die, and a dead one reports an error.  *)
(* A listing that fails has no error to return: it is short, or empty.     *)
(* Resolutions are the indexes of cam.resolutions, sorted by size.         *)
(***************************************************************************)
EXTENDS Integers

CONSTANTS
  Formats,      \* pixel formats the device offers
  Sizes,        \* Sizes[p]: how many sizes of format p pass the limits
  MaxFaults,    \* bound: how often a call or the device fails
  MaxMoves      \* bound: how often addBytes adjusts something

Unset == "unset"    \* no pixel format yet

ASSUME FormatsAssumption ==
  Formats # {} /\ Unset \notin Formats /\ Sizes \in [Formats -> Nat]
ASSUME BoundsAssumption == MaxFaults \in Nat /\ MaxMoves \in Nat

VARIABLES
  pc,           \* what the camera goroutine does next
  handle,       \* s.cam.cam: nil, or an open device in one of three states
  fds,          \* descriptors of the device that are open
  pix,          \* tryInitCam's local of that name: the pixel format it took
  resolutions,  \* len(s.cam.resolutions), -1 while that is nil
  activeRes,    \* s.cam.activeRes
  width,        \* the resolution whose width tryInitCam has read
  format,       \* what the device was set to: pixel format, width, height
  reinit,       \* s.cam.reinit
  fpsZero,      \* s.fps is 0, between two assignments of addBytes
  adj,          \* what an addBytes that holds the mutex does next
  oActiveRes,   \* addBytes' local of that name
  flowing,      \* a picture was passed on
  faults,       \* failures so far
  moves         \* adjustments so far

devVars == <<handle, fds, format>>
resVars == <<resolutions, activeRes>>
adjVars == <<fpsZero, adj, oActiveRes, moves>>
camVars == <<pc, devVars, pix, resolutions, width, flowing>>
vars == <<pc, handle, fds, pix, resolutions, activeRes, width, format, reinit,
          fpsZero, adj, oActiveRes, flowing, faults, moves>>

\* Positions in tryInitCam, in the loop of Start, and the two panics.
Opening == {"close", "open", "formats", "sizes", "width", "height", "stream"}
Looping == {"top", "clear", "wait", "pace", "grab"}
Panics  == {"index out of range", "divide by zero"}
Positions == Opening \cup Looping \cup Panics

TypeOK ==
  /\ pc \in Positions
  /\ handle \in {"nil", "open", "streaming", "dead"}
  /\ fds \in Nat
  /\ pix \in Formats \cup {Unset}
  /\ resolutions \in Nat \cup {-1}
  /\ activeRes \in Int
  /\ width \in Int
  /\ format \in [pix : Formats \cup {Unset}, width : Int, height : Int]
  /\ reinit \in BOOLEAN /\ fpsZero \in BOOLEAN /\ flowing \in BOOLEAN
  /\ adj \in {"idle", "clamp", "flag"}
  /\ oActiveRes \in Int
  /\ faults \in 0 .. MaxFaults /\ moves \in 0 .. MaxMoves

Init ==
  /\ pc = "top"
  /\ handle = "nil" /\ fds = 0
  /\ pix = Unset
  /\ resolutions = -1 /\ activeRes = 0
  /\ width = 0 /\ format = [pix |-> Unset, width |-> 0, height |-> 0]
  /\ reinit = TRUE
  /\ fpsZero = FALSE /\ adj = "idle" /\ oActiveRes = 0
  /\ flowing = FALSE
  /\ faults = 0 /\ moves = 0

\* An external call fails, or the device does.
Fault == faults < MaxFaults /\ faults' = faults + 1

NoFault == UNCHANGED faults

-----------------------------------------------------------------------------
(* initCam: tryInitCam again and again until it succeeds.                  *)

\* Mutant: the device is opened again without having been closed.
NeedsClose_Never == FALSE

NeedsClose == handle # "nil"

\* An old handle is closed first; if that fails so does the attempt.
CloseCam ==
  /\ pc = "close"
  /\ \/ ~NeedsClose /\ pc' = "open" /\ NoFault /\ UNCHANGED fds
     \/ NeedsClose /\ pc' = "open" /\ NoFault /\ fds' = fds - 1
     \/ NeedsClose /\ pc' = "close" /\ Fault /\ UNCHANGED fds
  /\ UNCHANGED <<handle, format, pix, resVars, width, reinit, adjVars>>
  /\ UNCHANGED flowing

\* webcam.Open sets the handle, to nil when it fails.
OpenCam ==
  /\ pc = "open"
  /\ \/ pc' = "formats" /\ handle' = "open" /\ fds' = fds + 1 /\ NoFault
     \/ pc' = "close" /\ handle' = "nil" /\ UNCHANGED fds /\ Fault
  /\ UNCHANGED <<format, pix, resVars, width, reinit, adjVars, flowing>>

\* GetSupportedFormats: "the first" key of a map is taken, or none of an empty
\* one, whose pixel format is 0.
TakeFormat ==
  /\ pc = "formats" /\ pc' = "sizes"
  /\ \/ pix' \in Formats /\ NoFault
     \/ pix' = Unset /\ Fault
  /\ UNCHANGED <<devVars, resVars, width, reinit, adjVars, flowing>>

\* How many sizes of pix there are to list.
Fitting == IF pix = Unset THEN 0 ELSE Sizes[pix]

\* GetSupportedFrameSizes: those that fit are listed once and never again, not
\* even when there were none.
ListSizes ==
  /\ pc = "sizes"
  /\ IF resolutions = -1
     THEN /\ \/ resolutions' = Fitting /\ NoFault
             \/ resolutions' \in 0 .. Fitting - 1 /\ Fault
          /\ activeRes' = resolutions' - 1
          /\ pc' = IF resolutions' = 0 THEN "close" ELSE "width"
     ELSE pc' = "width" /\ NoFault /\ UNCHANGED resVars
  /\ UNCHANGED <<devVars, pix, width, reinit, adjVars, flowing>>

\* resolutions[activeRes].width, no lock held.
ReadWidth ==
  /\ pc = "width"
  /\ IF activeRes \in 0 .. resolutions - 1
     THEN pc' = "height" /\ width' = activeRes
     ELSE pc' = "index out of range" /\ UNCHANGED width
  /\ UNCHANGED <<devVars, pix, resVars, reinit, adjVars, flowing, faults>>

\* A device that is asked for no format takes one of its own, or refuses.
Taken == IF pix = Unset THEN Formats ELSE {pix}

\* resolutions[activeRes].height, a second load, and SetImageFormat.
SetFormat ==
  /\ pc = "height"
  /\ \/ /\ pc' = "stream"
        /\ \E p \in Taken :
             format' = [pix |-> p, width |-> width, height |-> activeRes]
        /\ NoFault
     \/ pc' = "close" /\ Fault /\ UNCHANGED format
     \/ pc' = "close" /\ pix = Unset /\ NoFault /\ UNCHANGED format
  /\ UNCHANGED <<handle, fds, pix, resVars, width, reinit, adjVars, flowing>>

\* Frames flow from here on: Start waits for the first, and looks at the flag
\* only after that.
StartStreaming ==
  /\ pc = "stream"
  /\ \/ pc' = "wait" /\ handle' = "streaming" /\ NoFault
     \/ pc' = "close" /\ UNCHANGED handle /\ Fault
  /\ UNCHANGED <<fds, format, pix, resVars, width, reinit, adjVars, flowing>>

-----------------------------------------------------------------------------
(* The loop of Start.                                                      *)

\* if s.cam.reinit ...
Top ==
  /\ pc = "top"
  /\ pc' = IF reinit THEN "clear" ELSE "wait"
  /\ UNCHANGED <<devVars, pix, resVars, width, reinit, adjVars>>
  /\ UNCHANGED <<flowing, faults>>

\* ... { s.cam.reinit = false; s.initCam() }
Clear ==
  /\ pc = "clear"
  /\ reinit' = FALSE
  /\ pc' = "close"
  /\ UNCHANGED <<devVars, pix, resVars, width, adjVars, flowing, faults>>

\* Mutant: an error is taken for a timeout.
SeesError_Never == FALSE

\* A call on a device that is gone returns an error.
SeesError == handle # "streaming"

\* An error has the camera opened again.
Reopen == pc' = "top" /\ reinit' = TRUE

\* WaitForFrame(1): an error, or a frame, or a timeout.
WaitForFrame ==
  /\ pc = "wait"
  /\ \/ SeesError /\ Reopen
     \/ ~SeesError /\ pc' \in {"top", "pace"} /\ UNCHANGED reinit
  /\ UNCHANGED <<devVars, pix, resVars, width, adjVars, flowing, faults>>

\* time.Second / time.Duration(s.fps), and a frame that is too early is read
\* and thrown away.
Pace ==
  /\ pc = "pace"
  /\ \/ fpsZero /\ pc' = "divide by zero"
     \/ ~fpsZero /\ pc' \in {"top", "grab"}
  /\ UNCHANGED <<devVars, pix, resVars, width, reinit, adjVars>>
  /\ UNCHANGED <<flowing, faults>>

\* ReadFrame fails.
GrabFails ==
  /\ pc = "grab" /\ Reopen
  /\ (SeesError /\ NoFault) \/ Fault
  /\ UNCHANGED <<devVars, pix, resVars, width, adjVars, flowing>>

\* ReadFrame, and output <- the picture; the encoder takes it (FrameStream).
GrabPicture ==
  /\ pc = "grab" /\ ~SeesError
  /\ pc' = "top" /\ flowing' = TRUE
  /\ UNCHANGED <<devVars, pix, resVars, width, reinit, adjVars, faults>>

Grab == GrabFails \/ GrabPicture

Capturing ==
  \/ CloseCam \/ OpenCam \/ TakeFormat \/ ListSizes \/ ReadWidth
  \/ SetFormat \/ StartStreaming \/ Top \/ Clear \/ WaitForFrame \/ Pace \/ Grab

-----------------------------------------------------------------------------
(* addBytes.  It is called once pictures flow and, thanks to the mutex, one *)
(* call at a time: Next takes that for granted, and Server, which has the  *)
(* callers and the mutex, shows it.  And the device.                       *)

Running == pc \notin Panics

\* An adjustment begins.
Adjust ==
  /\ Running
  /\ adj' = "clamp"
  /\ moves < MaxMoves /\ moves' = moves + 1
  /\ oActiveRes' = activeRes
  /\ UNCHANGED <<camVars, reinit, faults>>

\* Too much at the lowest rate and quality: the next smaller resolution.
Lower ==
  /\ Adjust
  /\ activeRes > 0
  /\ activeRes' = activeRes - 1
  /\ UNCHANGED fpsZero

\* Mutant: off by one.
Larger_OffByOne == activeRes < resolutions

\* There is a larger resolution.
Larger == activeRes + 1 < resolutions

\* Too little at the highest rate and quality: the next larger resolution,
\* with the rate scaled down and rounded down.
Raise ==
  /\ Adjust
  /\ Larger
  /\ activeRes' = activeRes + 1
  /\ fpsZero' \in BOOLEAN

\* s.fps /= int(factor): 0 when the rate is smaller than the factor.
Slow ==
  /\ Adjust
  /\ fpsZero' \in BOOLEAN
  /\ UNCHANGED activeRes

\* The rate is brought back into its range.
Clamp ==
  /\ Running
  /\ adj = "clamp" /\ adj' = "flag"
  /\ fpsZero' = FALSE
  /\ UNCHANGED <<camVars, activeRes, reinit, oActiveRes, moves, faults>>

\* Mutant: a larger resolution is not noticed.
Changed_Lower == activeRes < oActiveRes

Changed == activeRes # oActiveRes

\* A changed resolution has the camera opened again.  The mutex is released.
Flag ==
  /\ Running
  /\ adj = "flag" /\ adj' = "idle"
  /\ reinit' = (reinit \/ Changed)
  /\ UNCHANGED <<camVars, activeRes, fpsZero, oActiveRes, moves, faults>>

\* The device is unplugged or breaks.
Die ==
  /\ Running
  /\ handle = "streaming"
  /\ handle' = "dead"
  /\ Fault
  /\ UNCHANGED <<pc, fds, pix, resVars, width, format, reinit, adjVars>>
  /\ UNCHANGED flowing

Next ==
  \/ Capturing
  \/ flowing /\ adj = "idle" /\ (Lower \/ Raise \/ Slow)
  \/ Clamp \/ Flag
  \/ Die

\* The goroutine runs, and so does whoever holds the mutex.
Spec ==
  /\ Init /\ [][Next]_vars
  /\ WF_vars(Capturing)
  /\ WF_vars(Clamp \/ Flag)

-----------------------------------------------------------------------------
(* Properties.                                                             *)

\* Once there are resolutions, the active one is one of them, whichever way
\* the adjustments went.
ActiveExists ==
  resolutions > 0 => activeRes \in 0 .. resolutions - 1

\* No change of resolution is lost between addBytes and the camera: with the
\* flag down and no adjustment under way, the camera in its loop runs at the
\* active resolution, width and height.
FormatFollows ==
  (pc \in Looping \ {"clear"} /\ ~reinit /\ adj = "idle") =>
    /\ format.pix # Unset
    /\ format.width = activeRes /\ format.height = activeRes

\* The device is open at most once, and never waited on before it streams.
OneDevice ==
  /\ fds <= 1
  /\ pc \in {"wait", "pace", "grab"} =>
       fds = 1 /\ handle \in {"streaming", "dead"}

\* A dead device is always opened again, if it can be.
Recovers == handle = "dead" ~> (handle = "streaming" \/ ~Running)

\* server.go:148: "Initiating cam failed: %s, will keep trying".
KeepsTrying == pc # "index out of range"

\* server.go:168: "get first one for now": the same one every time.
SameFormat == [][format.pix # Unset => format'.pix = format.pix]_format
============================================================================
