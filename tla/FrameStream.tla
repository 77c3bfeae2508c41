---------------------------- MODULE FrameStream ----------------------------
(***************************************************************************)
(* The way of a picture through the server: the capture goroutine puts it  *)
(* on the channel `output` (server.go, Start), the encoder goroutine of    *)
(* Listen transcodes it and publishes it in the fields net.data and        *)
(* frameCount, and one goroutine per connection (conn) answers every       *)
(* request with the published picture or with "nothing new".               *)
(*                                                                         *)
(* Publisher and connections share net.data and frameCount with no lock.   *)
(* Every load and store of theirs is a step; a slice header is two words   *)
(* (where the bytes are, how many) that are stored, and loaded, one at a   *)
(* time and in either order, so a torn header is a state of this model.    *)
(* Loads and stores of one goroutine are taken to happen in program order  *)
(* (amd64); a 64-bit load is never torn.                                   *)
(*                                                                         *)
(* Pictures are numbered 1, 2, ... in the order of capture; 0 is "none".   *)
(* Admission models how a connection gets to the streaming loop.           *)
(***************************************************************************)
EXTENDS Naturals

CONSTANTS
  Conns,        \* the connections that may stream
  MaxFrames,    \* bound: pictures captured in a behaviour
  MaxCount      \* frameCount restarts from 0 above this (1e16 in the code)

ASSUME FramesAssumption == MaxFrames \in Nat
ASSUME CountAssumption == MaxCount \in Nat \ {0}

VARIABLES
  captured,     \* number of the last picture put on the channel
  output,       \* the channel's one slot: a picture, or 0 when it is empty
  enc,          \* what the encoder goroutine does next
  buf,          \* the picture the encoder holds
  data,         \* s.net.data: the picture each word of the header belongs to
  unstored,     \* words of data the publication under way has not stored yet
  frameCount,   \* s.frameCount
  pc,           \* pc[c]: what connection c's goroutine does next
  frame,        \* frame[c]: conn's local of that name
  got,          \* got[c]: the header c last loaded (and sent on)
  unloaded,     \* words of data that c has yet to load for this request
  repeats       \* history: how often in a row c got the same picture again

encVars  == <<captured, output, enc, buf, data, unstored, frameCount>>
connVars == <<pc, frame, got, unloaded, repeats>>
vars     == <<captured, output, enc, buf, data, unstored, frameCount,
              pc, frame, got, unloaded, repeats>>

Words  == {"ptr", "len"}
Nil    == [w \in Words |-> 0]
Header == [Words -> 0 .. MaxFrames]

TypeOK ==
  /\ captured \in 0 .. MaxFrames /\ output \in 0 .. MaxFrames
  /\ enc \in {"recv", "transcode", "store", "bump", "wrap"}
  /\ buf \in 0 .. MaxFrames
  /\ data \in Header
  /\ unstored \in SUBSET Words
  /\ frameCount \in 0 .. MaxCount + 1
  /\ enc # "wrap" => frameCount <= MaxCount
  /\ pc \in [Conns -> {"gone", "read", "mark", "load"}]
  /\ frame \in [Conns -> 0 .. MaxCount + 1]
  /\ got \in [Conns -> Header]
  /\ unloaded \in [Conns -> SUBSET Words]
  /\ repeats \in [Conns -> Nat]

Init ==
  /\ captured = 0 /\ output = 0
  /\ enc = "recv" /\ buf = 0
  /\ data = Nil /\ unstored = {} /\ frameCount = 0
  /\ pc = [c \in Conns |-> "gone"]
  /\ frame = [c \in Conns |-> 0]
  /\ got = [c \in Conns |-> Nil]
  /\ unloaded = [c \in Conns |-> {}]
  /\ repeats = [c \in Conns |-> 0]

-----------------------------------------------------------------------------
(* The capture goroutine and the encoder goroutine.                        *)

\* Start: a picture read from the camera is sent on the channel, which
\* blocks while its one slot is taken.
Capture ==
  /\ captured < MaxFrames
  /\ output = 0
  /\ captured' = captured + 1
  /\ output' = captured + 1
  /\ UNCHANGED <<enc, buf, data, unstored, frameCount, connVars>>

Receive ==
  /\ enc = "recv" /\ output # 0
  /\ enc' = "transcode"
  /\ buf' = output /\ output' = 0
  /\ UNCHANGED <<captured, data, unstored, frameCount, connVars>>

\* A picture passes as it is (quality 100) or re-encoded; one that cannot be
\* decoded or encoded is dropped.
Transcode ==
  /\ enc = "transcode"
  /\ \/ enc' = "store" /\ unstored' = Words
     \/ enc' = "recv" /\ UNCHANGED unstored
  /\ UNCHANGED <<captured, output, buf, data, frameCount, connVars>>

\* Mutant: an encoding that fails goes on with the buffer it has reset; every
\* second one fails.
Bytes_AfterReset == IF buf % 2 = 0 THEN 0 ELSE buf

\* d.Bytes(): the picture as it was received or encoded.
Bytes == buf

\* s.net.data = d.Bytes(), one word of the slice header.
StoreWord(w) ==
  /\ enc = "store"
  /\ w \in unstored
  /\ data' = [data EXCEPT ![w] = Bytes]
  /\ unstored' = unstored \ {w}
  /\ enc' = IF unstored' = {} THEN "bump" ELSE "store"
  /\ UNCHANGED <<captured, output, buf, frameCount, connVars>>

\* s.frameCount++: this announces what data holds by now.
Bump ==
  /\ enc = "bump"
  /\ enc' = "wrap"
  /\ frameCount' = frameCount + 1
  /\ UNCHANGED <<captured, output, buf, data, unstored, connVars>>

\* Mutant: the counter is never brought back to 0.
Wrapped_Never == frameCount

Wrapped == IF frameCount > MaxCount THEN 0 ELSE frameCount

Wrap ==
  /\ enc = "wrap"
  /\ enc' = "recv"
  /\ frameCount' = Wrapped
  /\ UNCHANGED <<captured, output, buf, data, unstored, connVars>>

Encoder ==
  Receive \/ Transcode \/ (\E w \in Words : StoreWord(w)) \/ Bump \/ Wrap

-----------------------------------------------------------------------------
(* The goroutine of connection c, from the top of conn's loop.             *)

Go(c, place) == pc' = [pc EXCEPT ![c] = place]

\* A connection enters the loop with `var frame uint64 = 0`.
Join(c) ==
  /\ pc[c] = "gone"
  /\ Go(c, "read")
  /\ UNCHANGED <<encVars, frame, got, unloaded, repeats>>

\* The viewer asks for the next picture.  If there is nothing new it is told
\* so and has to ask again.
Request(c) ==
  /\ pc[c] = "read"
  /\ Go(c, IF frame[c] = frameCount THEN "read" ELSE "mark")
  /\ UNCHANGED <<encVars, frame, got, unloaded, repeats>>

\* Mutants: the connection forgets what it was sent; it notes the number of
\* the picture to come.
Noted_Never(c) == frame[c]
Noted_Ahead(c) == frameCount + 1

\* What frame is set to: a second load of the counter.
Noted(c) == frameCount

Mark(c) ==
  /\ pc[c] = "mark"
  /\ Go(c, "load")
  /\ frame' = [frame EXCEPT ![c] = Noted(c)]
  /\ unloaded' = [unloaded EXCEPT ![c] = Words]
  /\ UNCHANGED <<encVars, got, repeats>>

\* bytes.NewBuffer(s.net.data), one word of the slice header.  With the last
\* one the picture is encrypted, flushed and accounted for.
LoadWord(c, w) ==
  /\ pc[c] = "load"
  /\ w \in unloaded[c]
  /\ got' = [got EXCEPT ![c] = [@ EXCEPT ![w] = data[w]]]
  /\ unloaded' = [unloaded EXCEPT ![c] = @ \ {w}]
  /\ Go(c, IF unloaded'[c] = {} THEN "read" ELSE "load")
  /\ repeats' = [repeats EXCEPT ![c] =
                   IF w # "ptr" THEN @
                   ELSE IF data[w] = got[c][w] THEN @ + 1 ELSE 0]
  /\ UNCHANGED <<encVars, frame>>

\* A read, an encryption or a write fails and conn returns.  Its locals end
\* with it.
Leave(c) ==
  /\ pc[c] = "read"
  /\ Go(c, "gone")
  /\ frame' = [frame EXCEPT ![c] = 0]
  /\ got' = [got EXCEPT ![c] = Nil]
  /\ repeats' = [repeats EXCEPT ![c] = 0]
  /\ UNCHANGED <<encVars, unloaded>>

Serving(c) == Request(c) \/ Mark(c) \/ \E w \in Words : LoadWord(c, w)

Next ==
  \/ Capture
  \/ Encoder
  \/ \E c \in Conns : Join(c) \/ Serving(c) \/ Leave(c)

Spec == Init /\ [][Next]_vars

\* Goroutines run, and a viewer that stays keeps asking, as the loop of
\* client.Connect does.  Capturing, joining and leaving are free.
FairSpec ==
  Spec /\ WF_vars(Encoder) /\ \A c \in Conns : WF_vars(Serving(c))

-----------------------------------------------------------------------------
(* Properties.                                                             *)

\* No word of data is ahead of what frameCount announces.
Quiet == enc # "bump" /\ (enc = "store" => unstored = Words)

\* The counter has not restarted (with 1e16, not in any server's lifetime).
FirstRound == captured <= MaxCount

\* A connection that would be answered "nothing new" holds the published
\* picture, whole: no interleaving of publisher and connection loses a
\* picture, and a torn one is always followed by another.
CaughtUp ==
  FirstRound /\ Quiet =>
    \A c \in Conns :
      (pc[c] = "read" /\ frame[c] = frameCount) => got[c] = data

\* One connection is sent the same picture at most three times in a row: by a
\* request that noted an older number and loaded late, by one that loaded
\* before the announcement, and by one after it.
FewRepeats ==
  FirstRound => \A c \in Conns : repeats[c] <= 2

\* The abstract specification, with the word `ptr` standing for the picture.
Abstract == INSTANCE LatestFrame WITH
  Viewers <- Conns,
  latest  <- data["ptr"],
  seen    <- [c \in Conns |-> got[c]["ptr"]]

\* The server implements LatestFrame: a connection is only handed the picture
\* that is published when it loads it, and never an older one later.
ImplementsLatestFrame == Abstract!Spec

\* A viewer that stays is brought up to date, however often: one that is
\* behind is handed the picture that is the newest by then.
\* (A connection that was sent nothing yet when the counter restarts takes
\* the 0 it finds for its own 0 and waits for the picture after.)
KeepsUp ==
  \A c \in Conns :
    (pc[c] # "gone" /\ got[c]["ptr"] # data["ptr"])
      ~> (got[c]["ptr"] = data["ptr"] \/ pc[c] = "gone" \/ ~FirstRound)
============================================================================
