-------------------------------- MODULE View --------------------------------
(***************************************************************************)
(* The view: the loop over the events of the window (loop), the decoder    *)
(* goroutine initStage starts and destroyStage stops, and what both use:   *)
(* the picture, its bounds and the status text.  Touch has the touches and *)
(* ClearPass.                                                              *)
(*                                                                         *)
(* The loop paints when it receives a paint event it sent itself; the      *)
(* other events come in any order.  Left out: layout, GL, fonts, and the   *)
(* image of the text (GlText.Draw), which paint renders anew when the text *)
(* has changed.                                                            *)
(***************************************************************************)
EXTENDS Touch

CONSTANTS
  Sizes,        \* bounds of pictures
  Texts,        \* status texts
  MaxPaints     \* bound: paint events the window system has at most

None == "none"

ASSUME ViewAssumption ==
  MaxPaints \in Nat \ {0} /\ None \notin Sizes \cup Texts

VARIABLES
  visible,      \* the loop's glctx: there is a stage
  paints,       \* paint events sent and not yet received
  decoder,      \* what the decoder goroutine does
  bounds,       \* v.bounds
  origBounds,   \* the decoder's local
  frame,        \* v.frame: the bounds it was made with, None for nil, or
                \* "released": its memory is given back
  msg,          \* status.msg
  text          \* the text of status.writer, or None while that is nil

stageVars == <<visible, paints, decoder, bounds, origBounds, frame, msg, text>>
vars == <<touchVars, stageVars>>

TypeOK ==
  /\ TouchTypeOK
  /\ at \in {"idle", "store", "send", "paint", "arrow", "upload", "hide",
            "nil arrow"}
  /\ visible \in BOOLEAN /\ paints \in 0 .. MaxPaints
  /\ decoder \in {"off", "idle", "bounds", "image", "write"}
  /\ {bounds, origBounds} \subseteq Sizes \cup {None}
  /\ frame \in Sizes \cup {None, "released"}
  /\ {msg, text} \subseteq Texts \cup {None}

\* An empty text is no text.
Init ==
  /\ TouchInit
  /\ visible = FALSE /\ paints = 0 /\ decoder = "off"
  /\ bounds = None /\ origBounds = None /\ frame = None
  /\ msg = None /\ text = None

-----------------------------------------------------------------------------
(* The stage.                                                              *)

\* Mutants: a new stage has no text, or nothing to start painting.
ShowText_Empty == None
ShowPaints_None == paints

ShowText == msg
ShowPaints == paints + 1

\* initStage, for a window that becomes visible, and the first paint event.
Show ==
  /\ at = "idle" /\ ~visible /\ ShowPaints <= MaxPaints
  /\ visible' = TRUE /\ paints' = ShowPaints
  /\ text' = ShowText
  /\ decoder' = "idle" /\ origBounds' = None
  /\ UNCHANGED <<touchVars, bounds, frame, msg>>

Hide ==
  /\ at = "idle" /\ visible /\ at' = "hide"
  /\ UNCHANGED <<authVars, drawn, wiping, gestureVars, fingerVars, stageVars>>

\* stopDecoder is unbuffered: the decoder takes it in its select.
Stopped == decoder = "idle" /\ decoder' = "off"

\* destroyStage, from the decoder's answer on.
Destroy ==
  /\ at = "hide" /\ Stopped /\ at' = "idle"
  /\ visible' = FALSE /\ frame' = None /\ text' = None
  /\ UNCHANGED <<authVars, drawn, wiping, gestureVars, fingerVars, paints, bounds>>
  /\ UNCHANGED <<origBounds, msg>>

-----------------------------------------------------------------------------
(* The decoder goroutine.                                                  *)

\* Mutant: the decoder returns when a picture cannot be decoded.
Undecodable_Returns == "off"

Undecodable == "idle"

\* A picture comes, and may be broken.
Decode ==
  /\ decoder = "idle"
  /\ \/ decoder' = Undecodable /\ UNCHANGED bounds
     \/ decoder' = "bounds" /\ bounds' \in Sizes

\* Mutants: a picture of other bounds goes into the old image; giving the
\* old image back leaves nil.
Replace_First == frame = None
Released_Nil == None

Replace == origBounds # bounds \/ frame = None
Released == "released"

\* Release comes before NewImage, and the picture is drawn in any case.
DrawPicture ==
  \/ /\ decoder = "bounds" /\ Replace /\ decoder' = "image"
     /\ origBounds' = bounds
     /\ frame' = IF frame = None THEN None ELSE Released
  \/ /\ decoder = "image" /\ decoder' = "idle" /\ frame' = bounds
     /\ UNCHANGED origBounds
  \/ /\ decoder = "bounds" /\ ~Replace /\ decoder' = "idle"
     /\ UNCHANGED <<origBounds, frame>>

\* A status text, kept for the next stage ...
TakeText == decoder = "idle" /\ decoder' = "write" /\ msg' \in Texts

\* ... and given to the writer of this one.
WriteText == decoder = "write" /\ decoder' = "idle" /\ text' = msg

Decoder ==
  /\ \/ Decode /\ UNCHANGED <<origBounds, frame, msg, text>>
     \/ DrawPicture /\ UNCHANGED <<bounds, msg, text>>
     \/ TakeText /\ UNCHANGED <<bounds, origBounds, frame, text>>
     \/ WriteText /\ UNCHANGED <<bounds, origBounds, frame, msg>>
  /\ UNCHANGED <<touchVars, visible, paints>>

-----------------------------------------------------------------------------
(* paint.                                                                  *)

\* A paint event comes: without a stage it is dropped.
Paint ==
  /\ at = "idle" /\ paints > 0 /\ paints' = paints - 1
  /\ at' = IF visible THEN "paint" ELSE "idle"

\* The loop sends itself the next one.
Painted == at' = "idle" /\ paints' = paints + 1

\* While a password is asked for: its arrow, if there is one.
PaintPrompt ==
  /\ at = "paint" /\ phase = 0
  /\ IF fingersDown /\ n > 0 THEN at' = "arrow" /\ UNCHANGED paints
                             ELSE Painted

\* Later: the picture, if there is one.
PaintPicture ==
  /\ at = "paint" /\ phase = 1
  /\ IF frame # None THEN at' = "upload" /\ UNCHANGED paints ELSE Painted

\* n is loaded again, for the arrow itself: with a ClearPass in between it is
\* 0, which has none, and the bounds of nil are the end of the process.
PaintArrow ==
  /\ at = "arrow"
  /\ \/ n \in Arrows /\ Painted
     \/ n \notin Arrows /\ at' = "nil arrow" /\ UNCHANGED paints

\* v.frame is looked up again, and is uploaded and drawn.
Upload == at = "upload" /\ Painted

Paints ==
  /\ Paint \/ PaintPrompt \/ PaintPicture \/ PaintArrow \/ Upload
  /\ UNCHANGED <<authVars, drawn, wiping, gestureVars, fingerVars, visible>>
  /\ UNCHANGED <<decoder, bounds, origBounds, frame, msg, text>>

Alive == at # "nil arrow"

Next ==
  /\ Alive
  /\ \/ TouchNext /\ UNCHANGED stageVars
     \/ Show \/ Hide \/ Destroy \/ Decoder \/ Paints

\* The decoder runs, and its select is fair to stopDecoder.
Spec ==
  /\ Init /\ [][Next]_vars
  /\ WF_vars(Alive /\ Decoder /\ decoder # "idle") /\ SF_vars(Destroy)

-----------------------------------------------------------------------------
(* Properties.                                                             *)

\* The decoder runs exactly while there is a stage, painting happens on one,
\* and the picture that was there when paint looked is not gone (nil) when it
\* is uploaded, though the decoder replaces it whenever it wants.
OnStage ==
  /\ decoder # "off" <=> visible
  /\ at \in {"paint", "arrow", "upload", "hide"} => visible
  /\ at = "upload" => frame # None

\* Whenever the decoder is done with a picture, the image has its bounds:
\* through changes of resolution, hidden windows and broken pictures, and
\* though bounds outlives the stage, frame does not, and origBounds starts
\* anew.
FrameFits == decoder = "idle" /\ frame # None => frame = bounds

\* The last status text is on every stage, the first and any later one.
TextKept == visible /\ decoder # "write" => text = msg

\* A visible view never stops painting: there is a paint event to come.
Painting == visible /\ at \in {"idle", "store", "send"} => paints > 0

\* A window that is hidden gets taken down.
HideEnds == at = "hide" ~> at # "hide"
=============================================================================
