------------------------------- MODULE Server -------------------------------
(***************************************************************************)
(* The server as a whole: the connections of Admission, the pictures of    *)
(* FrameStream and the camera of Camera, where they meet.                  *)
(*                                                                         *)
(*  - A connection of Admission enters the loop of FrameStream when it has *)
(*    joined, and leaves both together.                                    *)
(*  - The picture Camera grabs is the one FrameStream captures, and the    *)
(*    camera goroutine waits while the channel `output` is full.           *)
(*  - addBytes, which adjusts Camera, is called by a connection that has   *)
(*    sent a picture.  It holds the mutex sem, and gives it back on two    *)
(*    paths; addPeer and addClient take it, too, for one step each.        *)
(*  - A panic anywhere is the end of the process.                          *)
(*                                                                         *)
(* The components are used as they are; what they leave to one another is  *)
(* put together here.  Camera takes it for granted that adjustments come   *)
(* one at a time and after the first picture; here nothing but the mutex   *)
(* and the way a picture takes sees to that, and it is shown.              *)
(***************************************************************************)
EXTENDS Admission

CONSTANTS
  MaxFrames, MaxCount,                      \* as in FrameStream
  Formats, Sizes, MaxFaults, MaxMoves       \* as in Camera

ASSUME StreamAssumption ==
  MaxFrames \in Nat /\ MaxCount \in Nat \ {0}
ASSUME CameraAssumption ==
  /\ Formats # {} /\ "unset" \notin Formats /\ Sizes \in [Formats -> Nat]
  /\ MaxFaults \in Nat /\ MaxMoves \in Nat

VARIABLES
  \* FrameStream, whose pc is called loop here
  captured, output, enc, buf, data, unstored, frameCount,
  loop, frame, got, unloaded, repeats,
  \* Camera, whose pc is called cam here
  cam, handle, fds, pix, resolutions, activeRes, width, format, reinit,
  fpsZero, adj, oActiveRes, flowing, faults, moves,
  \* where they meet
  sem,          \* who holds the mutex s.sem over a step, or Nobody
  bytes         \* bytes[c]: a picture was sent and is "due" to be accounted for,
                \* or c is in addBytes ("in"), or adjusts there ("adjust"), or
                \* "none" of these

Nobody == "nobody"

ASSUME NobodyAssumption == Nobody \notin Conns

Stream == INSTANCE FrameStream WITH pc <- loop
Cam    == INSTANCE Camera WITH pc <- cam

streamVars == <<captured, output, enc, buf, data, unstored, frameCount,
                loop, frame, got, unloaded, repeats>>
camVars    == <<cam, handle, fds, pix, resolutions, activeRes, width, format,
                reinit, fpsZero, adj, oActiveRes, flowing, faults, moves>>
serverVars == <<vars, streamVars, camVars, sem, bytes>>

ServerInit ==
  /\ Init /\ Stream!Init /\ Cam!Init
  /\ sem = Nobody /\ bytes = [c \in Conns |-> "none"]

Account(c, state) == bytes' = [bytes EXCEPT ![c] = state]

\* Mutant: addBytes does not wait for the mutex.
Unlocked_Always == TRUE

\* s.sem.Lock() returns.
Unlocked == sem = Nobody

-----------------------------------------------------------------------------
(* The connections.                                                        *)

\* What only Admission sees.  addPeer and addClient take the mutex.
Visit(c) ==
  /\ \/ Accept(c) \/ TakeSlot(c) \/ Verify(c) \/ Fail(c) \/ Free(c) \/ Expire(c)
     \/ \E right \in BOOLEAN : Answer(c, right)
     \/ Unlocked /\ (Enter(c) \/ Leave(c) \/ Unpeer(c))
     \/ pc[c] = "hash" /\ Broken(c)
  /\ UNCHANGED <<streamVars, camVars, sem, bytes>>

\* addClient, and with its first deadline set a connection is in the loop ...
Begin(c) ==
  /\ Unlocked /\ Join(c)
  /\ pc'[c] = "read" /\ Stream!Join(c)
  /\ UNCHANGED <<camVars, sem, bytes>>

\* ... which it never enters when that fails.
Miss(c) ==
  /\ Unlocked /\ Join(c)
  /\ pc'[c] = "leave"
  /\ UNCHANGED <<streamVars, camVars, sem, bytes>>

\* Mutant: the answer "nothing new" is accounted for, too.
Due_Always(c) == "due"

\* Once an answer is composed there is a picture to account for, or, when it
\* is "nothing new", there is not.
Due(c) == IF loop[c] = "load" THEN "due" ELSE "none"

Answered(c) ==
  IF loop'[c] = "read" THEN Account(c, Due(c)) ELSE UNCHANGED bytes

\* A request is read, and answered at once when there is nothing new.
Ask(c) ==
  /\ Request(c) /\ Stream!Request(c) /\ Answered(c)
  /\ UNCHANGED <<camVars, sem>>

\* The picture is loaded and encrypted into the buffer of the countWriter.
Load(c) ==
  /\ up /\ pc[c] = "reply"
  /\ Stream!Mark(c) \/ \E w \in Stream!Words : Stream!LoadWord(c, w)
  /\ Answered(c)
  /\ UNCHANGED <<vars, camVars, sem>>

\* w.Flush: the answer is written.
Flush(c) ==
  /\ Wrote(c) /\ loop[c] = "read"
  /\ UNCHANGED <<streamVars, camVars, sem, bytes>>

\* With the answer written, and accounted for, the loop goes round ...
Again(c) ==
  /\ Round(c) /\ pc'[c] = "read"
  /\ bytes[c] = "none"
  /\ UNCHANGED <<streamVars, camVars, sem, bytes>>

\* ... or it ends, because something failed before addBytes or after it.
End(c) ==
  /\ \/ Round(c) /\ pc'[c] = "leave" /\ bytes[c] = "none"
     \/ pc[c] # "hash" /\ Broken(c)
  /\ Stream!Leave(c) /\ Account(c, "none")
  /\ UNCHANGED <<camVars, sem>>

-----------------------------------------------------------------------------
(* addBytes.                                                               *)

\* It takes the mutex ...
Lock(c) ==
  /\ up /\ pc[c] = "round" /\ bytes[c] = "due"
  /\ Unlocked /\ sem' = c
  /\ Account(c, "in")
  /\ UNCHANGED <<vars, streamVars, camVars>>

\* s.sem.Unlock(), and the return.
Unlock(c) == sem' = Nobody /\ Account(c, "none")

\* Mutant: the early return keeps the mutex.
Rest_Locked(c) ==
  /\ up /\ bytes[c] = "in"
  /\ Account(c, "none")
  /\ UNCHANGED <<vars, streamVars, camVars, sem>>

\* ... and it is too early to adjust, or there is nothing to adjust ...
Rest(c) ==
  /\ up /\ bytes[c] = "in"
  /\ Unlock(c)
  /\ UNCHANGED <<vars, streamVars, camVars>>

\* ... or an adjustment begins.
Adjust(c) ==
  /\ up /\ bytes[c] = "in"
  /\ Cam!Lower \/ Cam!Raise \/ Cam!Slow
  /\ Account(c, "adjust")
  /\ UNCHANGED <<vars, streamVars, sem>>

Clamp(c) ==
  /\ up /\ bytes[c] = "adjust" /\ Cam!Clamp
  /\ UNCHANGED <<vars, streamVars, sem, bytes>>

\* The flag is raised, or not, and the mutex released.
Flag(c) ==
  /\ up /\ bytes[c] = "adjust" /\ Cam!Flag
  /\ Unlock(c)
  /\ UNCHANGED <<vars, streamVars>>

AddBytes(c) == Rest(c) \/ Adjust(c) \/ Clamp(c) \/ Flag(c)

-----------------------------------------------------------------------------
(* The camera and the encoder.                                             *)

\* The picture is sent to the encoder, once there is room in the channel.
Film ==
  /\ up /\ Cam!GrabPicture /\ Stream!Capture
  /\ UNCHANGED <<vars, sem, bytes>>

\* Everything else the camera goroutine and the device do.
Operate ==
  /\ up
  /\ \/ Cam!CloseCam \/ Cam!OpenCam \/ Cam!TakeFormat \/ Cam!ListSizes
     \/ Cam!ReadWidth \/ Cam!SetFormat \/ Cam!StartStreaming \/ Cam!Top
     \/ Cam!Clear \/ Cam!WaitForFrame \/ Cam!Pace \/ Cam!GrabFails \/ Cam!Die
  /\ UNCHANGED <<vars, streamVars, sem, bytes>>

Encode == up /\ Stream!Encoder /\ UNCHANGED <<vars, camVars, sem, bytes>>

Crash == AcceptFails /\ UNCHANGED <<streamVars, camVars, sem, bytes>>

Connection(c) ==
  \/ Visit(c) \/ Begin(c) \/ Miss(c) \/ Ask(c) \/ Load(c) \/ Flush(c)
  \/ Again(c) \/ End(c) \/ Lock(c) \/ AddBytes(c)

ServerNext ==
  /\ Cam!Running
  /\ \/ Film \/ Operate \/ Encode \/ Crash
     \/ \E c \in Conns : Connection(c)

\* A goroutine that is in addBytes runs.  Nothing is asked of the others here.
ServerSpec ==
  /\ ServerInit /\ [][ServerNext]_serverVars
  /\ \A c \in Conns : WF_serverVars(Cam!Running /\ AddBytes(c))

-----------------------------------------------------------------------------
(* Properties.                                                             *)

\* Only a connection whose remote has proved the password, and that is being
\* counted as a client, has been handed a picture, or a part of one.
MembersSee ==
  \A c \in Conns :
    got[c] # Stream!Nil =>
      proved[c] /\ pc[c] \in {"read", "reply", "round"} /\ clients > 0

\* addBytes is safe where it is called: it divides by the number of clients
\* (line 248), which is not 0, and indexes resolutions with activeRes (lines
\* 278, 279 and 336), which is there by then and in range.
AddBytesSafe ==
  \A c \in Conns :
    bytes[c] # "none" => clients > 0 /\ activeRes \in 0 .. resolutions - 1

\* What Camera takes for granted is so: addBytes adjusts nothing before there
\* is a picture, and nobody begins to adjust while another is at it.
AsCameraAssumes == Cam!Init /\ [][Cam!Next]_camVars

\* The mutex is free again and again while the process lives, on both paths
\* through addBytes: whoever waits for it, to adjust, to come or to go, has its
\* turn (Go's mutex serves in order those who have waited for long).
GivenBack == []<>(sem = Nobody \/ ~up \/ ~Cam!Running)
=============================================================================
