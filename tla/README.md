# Verification of inbetween-go-homecam

A webcam server (`server`, `cmd/server`) reads pictures from a video device and
streams them, encrypted, to a few viewers (`client`, `view`, `cmd/client`) that
have proved to know a password. This directory holds TLA+ models of server,
client and view, the TLC configurations that check them on small instances, and
proofs, checked by TLAPS, of what matters most for instances of any size.

    tlc -workers 2 -config MCFrameStream.cfg MCFrameStream     # a run
    tlapm FrameStreamProofs.tla                                 # the proofs

`PROJECT.json` lists the runs, the mutants that show that each property can
fail, the source lines of every definition, the hazards and the theorems.

## The system

### Components, state and operations

| component | state | operations | modelled |
|---|---|---|---|
| capture goroutine (`Start`, `initCam`, `tryInitCam`) | `cam.cam`, `cam.resolutions`, `cam.activeRes`, `cam.reinit` | open, choose format and size, stream, wait, pace, read, reopen | `Camera` |
| encoder goroutine (in `Listen`) | channel `output`, `net.data`, `frameCount` | receive, transcode, publish | `FrameStream` |
| connection goroutines (`conn`) | `net.peers`, `net.clients`, `scryptRatelimit`, locals `frame`, `b` | admit, handshake, serve a request, leave | `Admission`, `FrameStream` |
| quality control (`addBytes`) | `net.bytes`, `net.since`, `fps`, `jpegOpts.Quality`, `cam.activeRes`, `lastAdjustment` | account for bytes sent, adjust rate, quality or resolution | how much and which way: `Quality`; how it is stored: `Camera` |
| handshake (`protocol`) | none | salt, hash, verdict | server's half: `Admission`; both: `Session` |
| client loop (`client.Connect`, goroutines of `cmd/client`) | password, connection, channels `info`, `passChan`, `pass2Chan`, `statusChan`, `tickIn`, `tickOut` | dial, handshake, request, decrypt, report, reconnect, forward passwords and pictures, turn reports into texts | `Session`, promise: `Dialog` |
| view (`view`) | stage, decoder goroutine, `frame`, `bounds`, status text, password and touch state | show, hide, paint, decode, touch, clear the password | `Touch`, `View`; its channels: `Session` |
| encryption (`crypto`) and `countWriter` | key, salt, chunk, buffer | pad, chunk, encrypt, flush, decrypt, keep the key | `Cipher` |
| configuration (`config`, `cmd/server`, `client -p`) | the JSON file | create an example, load, convert the touch password | `Config` |
| `bound`, `cmd/bindata`, `vars`, platform glue of `view` | none | | no behaviour of their own |
| `cmd/direct` | | | does not build: it calls `server.New` and `view.New` with arguments they do not take |

### How they interact

    device -> capture --output(1)--> encoder --net.data, frameCount--> conn --TCP--> Connect --> view
                 ^                                                       |              ^        |
                 |  cam.reinit, cam.activeRes, fps                       v              |        |
                 +------------------------------------------------- addBytes       password <----+

* Capture hands pictures to the encoder over a channel of one slot.
* The encoder and the connections share `net.data` and `frameCount` with no lock.
* `addBytes`, `addClient` and `addPeer` hold the mutex `sem`; the capture
  goroutine reads `cam.reinit`, `cam.activeRes` and `fps` without it.
* `Server` joins `Admission`, `FrameStream` and `Camera` where these meet.
* A channel of one slot makes the handshakes, and the memory scrypt needs, serial.
* A connection is dropped by its deadline, which every round renews.

### What is hard, and what makes it correct

* *The unlocked publication*: five steps of the encoder (two words of the slice
  header, counter, restart) against four of each connection (compare, note, two
  words). Correct: no picture is lost, none older than one already seen arrives,
  few are sent twice, and everyone who stays is served.
* *The early returns of `conn`*: counters and slot are given back by hand on some
  paths and by `defer` on others. Correct: they stand for exactly who holds them;
  the limits hold; nobody keeps the slot, or a place, for good; only members
  are served.
* *The unlocked flag*: `addBytes` changes the resolution and then raises a flag;
  the capture goroutine tests, lowers and acts, reading the resolution in two
  loads. Correct: no change is lost, the index stays valid, the device is opened
  once and reopened after any failure.
* *The client and its user*: seven goroutines with channels of no or one slot between
  them, a window that comes and goes, and connections that fail. Correct: a password
  stays in use until the server refuses it, a refused one is asked for again, the text
  on the screen ends up right, and pictures come if they can.
* *The view*: `ClearPass` writes the password's state beside the loop, and the decoder replaces
  the picture beside `paint`, both without a lock. Correct: no old stroke counts for a new
  password; image, text and painting survive windows that are hidden and shown.
* *Arithmetic and conversions*: integer division in `addBytes`, padding at chunk boundaries,
  arrows and bytes of the touch password. Correct: adjustments go the right way and
  reach the ends; `decrypt` inverts `encrypt`; the server runs with what was swiped.

`PROJECT.json` lists these hazards one by one, with their lines.

## The models

Data is abstracted to what the properties tell apart: a picture is its number, a
resolution its index, a password right or wrong. All control is kept.

### LatestFrame and FrameStream

`LatestFrame` is the promise: a newest frame that only gets newer, and viewers that are
handed the newest frame of the moment. `FrameStream` is the code. The encoder's position
`enc` runs through `Receive`, `Transcode` (which may drop the picture), `StoreWord` twice (the
pointer and the length of `net.data`, in either order), `Bump` and `Wrap` (`frameCount++` and
its restart, two stores). A connection goes through `Request` (`frame == s.frameCount`), `Mark`
(`frame = s.frameCount`, a second load) and `LoadWord` twice, and may `Leave` whenever it waits
for a request. The order of loads and stores within a goroutine is that of the program,
which is what amd64 provides; Go's memory model promises less, and a build that
reordered them is outside this model. The capacity word of the slice header is left out:
nothing on this path reads it.

Properties:

* `CaughtUp`: whoever would be told "nothing new" holds the published picture,
  both words of it. A torn picture can be sent (the model has it); it is never the
  last thing a connection is left with.
* `FewRepeats`: at most three times the same picture in a row.
* `ImplementsLatestFrame`: refinement, with the pointer standing for the picture.
* `KeepsUp`: a viewer that stays and is behind is handed the picture that is the newest by then.

All but the refinement and the types are about the time before `frameCount` restarts
(`FirstRound`; the limit is 1e16, so in practice always). At the restart a connection that
has not been sent anything yet takes the counter's 0 for its own and waits for the
next picture, and one that marks the value between increment and restart is sent a
picture again.

### Permits and Admission

`Permits` is the promise of a counting lock. `Admission` is a connection's life: `Accept`, `Enter`
(`addPeer(1)` and the deadline), `TakeSlot`, `Answer`, `Verify`, `Fail` or `Free`, `Join`
(`addClient(1)`), `Request`, `Wrote` and `Round` in turn, then `Leave` and `Unpeer` (the deferred calls). A step
under `sem` is one action. The remote is free to answer rightly, wrongly, late or
never, to stop asking or reading, and to disappear; `Broken` (a read or write that fails) and `Expire` are what
the server sees of it. An answer takes as long as the remote lets it (`reply`), until the deadline. `AcceptFails` is
the error path of `Listen`: it calls `Close` on a nil connection and the process panics (`up`),
after which nothing happens. That is why the run does not check for deadlock.

Properties: `CountsRight` (counters and slot against the places in `conn`), `OnlyMembers` (proof
before service, and a positive number of clients whenever `addBytes` divides by it),
`PeersLimited` and `OneHandshake` (`Permits`, refined twice), `TurnComes`, `SilentDropped`.

The deadline is armed before the wait for the slot (`server.go:374` and `382`). `TurnComes`
says the slot is reached; it does not say that the deadline has not passed by then,
and the model has behaviours where it has.

### Camera

The capture goroutine (`pc`: the steps of `tryInitCam`, then the loop of `Start`) against one
`addBytes` at a time (`adj`), which changes the resolution or the rate, clamps and
raises the flag, in that order and visibly so to the other side. After `StartStreaming` the goroutine waits for a
frame (`wait`) before it comes to the test of the flag again, as the code does. `handle` and `fds` are
the value of `cam.cam` and the descriptors really open; they differ between a close
and the next open. The device (external) may fail at any call and die while streaming.
The two calls that list formats and sizes report no errors: when they fail (`TakeFormat`, `ListSizes`) the list is
short or empty, and `resolutions` stays what it became, for good.

`Adjust` leaves open *why* something is adjusted, so every sequence of adjustments is
possible; the conditions on throughput are those of `Quality`.

Properties: `ActiveExists`, `FormatFollows` (with the flag down and no adjustment under way, the
device runs at the active resolution, width and height), `OneDevice`, `Recovers`.

`Next` lets `addBytes` begin to adjust only once a picture has been read (`flowing`), and when no adjustment is
under way (`adj = "idle"`). In the code that is a matter of who calls it and of the mutex; `Server` has
the callers and the mutex, where `Adjust` itself asks for neither, and shows both.

The model has the panic "divide by zero" of `Pace`: `addBytes` may set `fps` to 0 for the few
instructions between `server.go:294` (or `287`) and the clamp, and `server.go:504` divides by it
without the lock. The properties hold up to there, and the run does not check for
deadlock because of it.

### Server

The three components above as one process, built from their own actions: `Server` extends `Admission` and
takes instances of `FrameStream` (its `pc` is called `loop`) and `Camera` (`cam`). A connection enters the loop of
`FrameStream` in the same step in which it joins (`Begin`) and leaves both together (`End`); a request is read and
compared in one (`Ask`); the picture the camera reads is the one that is captured, if there is room in the
channel (`Film`); a panic of either kind ends everything. What is new is `addBytes` and the
mutex: `sem` is who holds it, and `bytes[c]` whether a connection has a picture due to be accounted for, or is inside.
`Lock` waits for the mutex; `Rest` is the call that adjusts nothing and returns early, with an `Unlock` of its own;
`Adjust`, `Clamp` and `Flag`, which ends with the other `Unlock`, are the call that does. `Enter`, `Join`, `Leave` and
`Unpeer` take the mutex for one step, and wait for it (`Unlocked`).

* `MembersSee`: whoever has been handed part of a picture has proved the password and is counted.
* `AddBytesSafe`: where `addBytes` is called there is a client to divide by and a resolution to look up.
* `AsCameraAssumes`: the server's steps are steps of `Camera`; so nothing is adjusted before there is a picture, and,
  thanks to the mutex alone, nobody begins to adjust while another connection is at it.
* `GivenBack`: the mutex is free again and again, whichever way `addBytes` is left.

### Quality

One step is one `addBytes` that gets past its intervals, in one of the five cases of its `switch`
(`Lower`, `Raise`, `Slow`, `Quicken`, `Keep`), with the integer divisions of the code and the clamps
after them. The factor (throughput by what is desired) is an input, in hundredths, clamped
to 1 to 2000 as in the code; `settled` stands for the 30 seconds after a change of resolution.

* `RightWay`: too much throughput raises nothing, and room lowers nothing but rate and
  quality for a higher resolution.
* `MovesOn`: at a factor of 2 or more each adjustment lowers something, and at one half or less each raises
  something, until the end is reached; no rounding makes it stall.
* `Adapts`: a factor that stays at 2 or more ends at the lowest settings, one that stays at one
  half or less at the highest. It is *not* true from 1.05 on: `int(factor)` is 1 up to 2, and with
  the rate in its upper half the quality is not touched either, so such an overload lasts.

The code computes with `float64` where the model divides exactly.

### Dialog and Session

`Session` joins all that a password passes through: the view (`Swipe`, `Show`, `Hide`, and `ClearPass` in two
steps, `Wake` and `Reset`), the goroutine between the two password channels (`held`), `Connect` (`pc`), the
handshake and the requests, and the server's half of the connection (`srv`). One message at
most is under way (`wire`), which `TakingTurns` justifies. The reports of `Connect` go through the slot
`info` to the status goroutine (`Tell`), which leaves out repetitions; its texts and the ones of
`ClearPass` go through `status` to the decoder, which only runs while the window is visible. The
environment may fail a dial or a connection (`Drop`), let the deadline pass while the client is
stuck on a hidden window (`Expire`), hide the window, and swipe any password.

`Dialog` is the promise: a password is chosen when there is none and given up only if it is not
the right one. `AskedOnce` is the refinement, with the chosen password being the one held or
used while the view does not ask.

* `NoneWaiting`: while a password is asked for, `Connect` waits for one and none is on its way.
* `TakingTurns`: both ends agree on where they are, on every path through failures.
* `StatusRight`: when all is quiet the text on the screen is about the present.
* `FewSenders`: at most three goroutines wait behind the text in the channel, however long the window
  is hidden. It takes a `ClearPass` overtaken by the next refusal to get there.
* `AskedOnce`, `AsksAgain`, `Watches`: a refused password, and no other, is asked for again; and
  whoever has the right one gets to pictures once failures end and the window stays.

Between the two steps of `ClearPass` a touch may send the refused password once more (the strokes
are still there, `view.go:428` and `429`); the model has this, and the properties hold with it.

### Touch and View

`Touch` has the two meanings of a touch, `handlePassword` (strokes, in eight directions computed as the
code does from the quotient of the distances) and `handleTouch` (drag and pinch), and `ClearPass` in the order
of its assignments beside them. `at` is where the loop is: storing what `handlePassword` returned, sending
a password, painting. `View` adds the stage: `Show` (`initStage`), `Hide` and `Destroy`, where the loop waits for the
decoder to take `stopDecoder`; the decoder's steps through a picture (`Decode`, `DrawPicture`) and a text
(`TakeText`, `WriteText`); and `paint`, which looks at the picture or the arrow twice.

* `StartsAfresh`: with a password asked for and nobody in the middle of something, a stroke is missing.
* `GestureRight`: a drag is of the first finger alone, a pinch of both, as the fingers are on the screen (`down`).
  The exception is a finger whose last begin or end fell into the other phase (`missed`): `handlePassword` does not
  tell `handleTouch` of it (`view.go:458` to `465`), so a finger that has gone may still count, and one finger pinch,
  until it comes or goes again.
* `OnStage`: the decoder runs exactly on a stage, and what paint looked up is not nil when it draws.
* `FrameFits`: the image has the bounds of the last picture decoded.
* `TextKept`, `Painting`, `HideEnds`: the last text is on every stage, a visible view goes on painting,
  a hidden one is taken down.

About two states of the model no document of the repository says anything: an image that was
released may be uploaded (`frame = "released"` while `at = "upload"`), and the arrow may be looked up with
`n = 0` after a `ClearPass` (`view.go:216`): there is none, and the process panics (`PaintArrow`, `"nil arrow"`). The
properties hold up to there, and the run does not check for deadlock because of it.

### Cipher

Lengths only: a picture is encrypted chunk by chunk into the `countWriter`, sent with its length,
and decrypted chunk by chunk with one chunk held back. Since every byte of a padding is its
length, lengths decide what is cut off. A key is the number of the connection it was made for.

* `GivesBack`: `decrypt` returns what `encrypt` was given. There is an exception, stated in the property:
  a ciphertext that is a whole number of chunks ends with an empty read, so its padding has been written.
* `WholeBlocks`: `CryptBlocks` never gets part of a block, which would panic.
* `RightKey`: the key kept by the decrypter is the connection's; the three bytes of "nothing new" and
  pictures are never confused.

### Config

Several servers start (`Load`, then `Ensure` and `Encode` if there is no file), die and start again, while the
user writes to the file what `client -p` printed, a list of numbers (which the server turns
down) or arrows, puts a new file in its place, or removes it, at any time. `held` says which servers have the very file
that is in place open to write. Only the touch password is kept of the file, with each conversion of the code.

* `OwnFileOnly`: a file that is there is changed by no server but the one that created it, and by that one
  only once, with the example. What is written by hand to a file just created, between `config.go:156` and `165`,
  is lost: the model has this, and nothing in the repository promises otherwise.
* `RunsAsSwiped`: a running server lets in exactly the strokes that were swiped.

## Runs

| run | instance | shows | states |
|---|---|---|---|
| `stream` | 2 connections, 4 pictures, restart above 3 | `TypeOK`, `CaughtUp`, `FewRepeats`, `ImplementsLatestFrame`, `KeepsUp` | 423,000 |
| `admission` | 3 connections, 2 peers | `CountsRight`, `PeersLimited`, `OneHandshake`, `TurnComes`, `SilentDropped` | 9,100 |
| `server` | 2 connections, 1 picture captured, 2 resolutions, 2 adjustments | its four properties | 1,254,000 |
| `camera` | 2 formats of 3 sizes, 2 faults, 3 adjustments | its four properties | 76,000 |
| `session` | 2 passwords, one right, 2 failures | its seven properties | 18,000 |
| `view` | 2 fingers, passwords of 2 strokes, 2 sizes, 2 texts, 2 paint events | its seven properties | 1,292,000 |
| `cipher` | every length from 0 to 1616, 2 connections | its three properties | 31,000 |
| `config` | 2 servers, 2 passwords, 2 edits or removals | `RunsAsSwiped`, `OwnFileOnly` | 1,000 |
| `quality` | limits of the example configuration, 3 resolutions, 11 factors | `RightWay`, `MovesOn`, `Adapts` | 31,000 |
| `camera_no_sizes` | a format without a fitting size | violates `KeepsTrying` | |
| `camera_formats` | 2 formats, 1 fault, 1 adjustment | violates `SameFormat` | |
| `config_example` | 2 servers, no edit needed | violates `ExampleLoads` | |

Every module has a type invariant (`TypeOK`), and one theorem per component proves it; a run checks only that
of the stream, where it is about the counter's restart. `OnlyMembers` is proved as well, and `MembersSee` and
`AddBytesSafe` say in the server what it says of the admission.

Why the bounds are enough. Connections of the stream only meet the publisher, never each
other, so two are one more than needed; a request can be overtaken while it compares, while it notes and while it
loads, which takes three pictures, and the fourth restarts the counter. With three connections and two permits one is refused while two compete for
the slot and a third may come in their place; starvation needs a competitor that
returns, which connections do. In the server, two connections are enough for one
to hold the mutex while another adjusts, comes or goes, and for one to load the picture while it is published; with two
adjustments each may have its own. That the device fails meanwhile is left to `camera`. With three resolutions there is a middle, and three
adjustments overlap one opening of the camera before, between and after its two loads.
Two failures of a session let one connection fail while streaming and the next one while
it is made; with one right and one wrong password every verdict can follow every other. Passwords of
two strokes have a first and a last one, and two fingers come and go in either order and in both phases; one
direction is enough, since a stroke of a new touch always counts (all directions: `DirectionRange`, proved). Two paint events are what a window hidden and shown at once leaves.
1616 bytes pass the boundaries of blocks and of two chunks on both sides. With two servers and two
edits each step of one meets each of the other, and an edit an edit. The eleven factors lie on and
beside each threshold of `addBytes`, and at its ends.
The safety properties are also proved, without any of these bounds.

No run uses symmetry: most check liveness, for which TLC cannot.

### Fairness

* `FrameStream!FairSpec`: goroutines run (weak fairness of the encoder and of each connection),
  and a viewer that stays keeps asking, as the inner loop of `client.Connect` does.
  Capturing, joining and leaving are not forced.
* `Admission!Spec`: goroutines run; the Go runtime serves the senders blocked on a channel in
  order, so one that can take the slot again and again does (strong fairness of
  `TakeSlot`); time passes, and a read or write whose deadline has passed fails. The remote
  owes nothing.
* `Camera!Spec`: the capture goroutine runs (`WaitForFrame` returns after at most a second), and
  so does whoever holds the mutex. Faults are bounded, hence finite: a device that
  fails forever is not expected to recover.

* `Session!Spec`: goroutines run; the window becomes visible again and again, and the `select` of the
  decoder is fair to both its channels (Go chooses at random), hence strong fairness of `ShowStatus`
  and `ShowPicture`; the server answers, and there is a new picture again and again
  (`KeepsUp`). Failures are bounded; the user owes nothing.
* `View!Spec`: the decoder runs, and its `select` takes `stopDecoder` some day.
* `Quality!Spec`: pictures are asked for, and 30 seconds pass.
* `Server!ServerSpec`: a goroutine inside `addBytes` runs; nothing else is needed for the mutex to be given back.

`Config` and `Cipher` claim no liveness. Two kinds of passing run do not check for deadlock: `stream`,
which stops when its bounded number of pictures is used up, and `admission`, `camera`, `server` and `view`, which
stop after the panics described above. The other passing runs check for it.

## Proofs

Each `*Proofs` module proves, for any value of the constants, the safety properties its
component's runs check: all 31 of them, among them four refinements of abstract specifications.
The shape is the same everywhere: an inductive invariant, a conjunction of
named parts that implies the properties; that it holds initially; that every step keeps it, one
proof step per action; and the theorems, which combine them.

* `FrameStreamProofs`. `CaughtUp` is not inductive. `PublisherInv` says what `data` and `buf` are at each
  place of the encoder, `CounterInv` how `frameCount` and the pictures published relate, and
  `ViewerInv` what a connection that has noted the current number has loaded or is bound
  to load. `RepeatsInv` counts the repeats a connection has left (`Spare`). The refinement
  `Implements` maps `StoreWord("ptr")` to `Publish`, `LoadWord(c, "ptr")` to `Serve`, `Leave` to `Forget`;
  `NeverBack` draws from it what a viewer would call the promise, using nothing but `LatestFrame`.
* `ServerProofs`, the admission. `CountsRight` is inductive with the types; one lemma (`GoCountsRight`) says how a
  move of one connection changes the sizes of the three sets, so that each action only has to
  name its places. `PeersLimited` and `OneHandshake` follow from the counters, `OnlyMembers` from
  `MembersInv`, which carries the comparison's outcome through the code after it.
* `ServerProofs`, the server. A step of the server is one of each component, or leaves its variables alone
  (`StepAdmits`, `StepStreams`, `StepFilms`), so the components' invariants hold in it. What they take from one
  another is `ServerInv`: `ConnInv` ties `pc`, `loop` and `bytes` of a connection together, `FlowInv` says that
  whoever has a picture got it from a camera that has read one, `LockInv` that who is in `addBytes` holds the mutex,
  and that an adjustment is under way exactly when one of these is adjusting, and `SizesInv` that a camera that reads pictures
  has resolutions. `StepFilms` draws from `FlowInv` and `LockInv` what `Camera` assumes, `flowing` and `adj = "idle"`
  where an adjustment begins. Finally
  `FrameStreamProofs` and `CameraProofs` are instantiated with the server's variables, and their
  results restated about the server (`ServerLosesNothing`, `ServerKeepsCamera`): no picture is lost and no change of
  resolution is, with every connection, handshake and adjustment at work at once.
* `CameraProofs`. `FormatInv` says what holds while `FormatFollows` does not apply: with no change
  announced or about to be (`Pending`), whatever `tryInitCam` has read so far is current.
  `HandleInv` and `LoopInv` say when handle, descriptor and position agree. `TriesOn` and `OneFormatStays` bound
  two of the findings below: whatever fails and is adjusted, opening panics only after a listing that found no size
  between the limits (or that failed), and a camera with a single format keeps it.

* `SessionProofs`. Four invariants build on each other. `WireInv` ties `srv`, `wire` and `pc` together: which message can be
  under way at which place of both ends, and whose password it is about. `DialogInv` follows a
  refusal from the verdict through `info` and the sleeping `ClearPass` back to the view: in all these places
  the password is known to be wrong, and nothing else is on its way. `ImplementsDialog` maps `Swipe` to
  `Choose`, `Wake` to `Reject` and everything else to a stutter. `TextInv` follows the last text written, in the
  channel or on the screen. `FewSenders` is far from inductive: `SenderInv` bounds the texts of `ClearPass` behind
  the last report, those written and those to come, by one, or by two after a refusal, which with the wait of
  the status goroutine bounds them all. `RightStays` draws from `Dialog` that the right password is kept.
* `ViewProofs`. Four invariants that share only `at`. `StartsAfresh` is not inductive: `AuthInv` adds that old strokes
  are possible until `ClearPass` comes to them or while the loop is about to store some. `GestureRight` combines
  `GestureInv`, about what `handleTouch` has recorded, with `FingersInv`: that is what is on the screen, but for `missed`. `FrameFits` needs
  `origBounds` at every place of the decoder (`StageInv`). That strokes are arrows rests on
  `DirectionRange`, about any integer distances.
* `CipherProofs`. `Ind` relates what is left, padded, buffered and sent; what is not decrypted yet is the
  ciphertext less whole chunks.
* `ConfigProofs`. `FileInv` says what the file may hold together with the password behind it, and that at most one
  server has it open, which is about to encode; `ArrowsRead` that
  `String` and `RawTouchPassword` are inverse on every sequence of strokes.
* `QualityProofs`. Bounds of quotients from bounds of dividends, then one lemma (`OneStep`) with a case per
  case of the code. `AlwaysMovesOn` is what makes `Adapts` true for all limits and factors: with `InLimits`, a
  bounded quantity moves at every adjustment. (That it therefore arrives needs fairness, and stays with TLC.)

Assumptions: the set of connections is finite (`Admission`); the bounds are natural
numbers; there is a pixel format, each with some number of sizes (`Camera`; `OneFormatStays` asks for one format); the right password is a
password (`Session`); a touch password has a stroke (`View`); the limits of quality are positive and in
order, and so are the resolutions' sizes (`Quality`): the code does not check its configuration.

No proof assumes more. Only model-checked: liveness (`KeepsUp`, `TurnComes`, `SilentDropped`, `Recovers`, `GivenBack`, `Watches`, `AsksAgain`,
`HideEnds`, `Adapts`), which the prover does not handle, and the three violations.

## Where the code and its words differ

* `server.go:148` prints "will keep trying", but when no size lies between the configured
  limits the second attempt panics: the first one left `cam.resolutions` empty, not nil, and
  `activeRes` at -1, so line 176 skips the listing and line 210 indexes with -1
  (`camera_no_sizes`). A listing that fails (lines 167 and 177) is taken for an empty one, and ends in the same way.
* `server.go:168` says "get first one for now", but a range over a map starts anywhere: a reopened
  camera may change its pixel format, and run with resolutions that were listed for
  the other one (`camera_formats`).
* `cmd/server/server.go:28` prints "Created example config file in", but the next start turns that file
  down: `EnsureConfig` puts a `[]byte` into an `interface{}` (`config.go:135`), JSON makes a base64 string of it,
  and `RawTouchPassword` finds no arrows in it (`config_example`).

## Not modelled

* *The rendering of the view*: offsets, zoom, colours, OpenGL calls and fonts; geometry without control.
  With it goes `GlText.Draw`, whose flag can lose a text that is written while the last one is
  rendered (`text.go:158`): no property of the repository's words is about it, and `TextKept` speaks of the
  text the writer has.
* *Platform glue* (`desktop.go`, `mobile.go`, `reader.go`): adapters without state of their own.
* *The ciphers*: AES, CBC, scrypt and SHA-512 are taken to do what they promise; a hash stands for the
  password it was made from.
* *Settings other than the touch password*: passed on as they are. `EnsureConfig` sets no `MaxPeers`, so the
  example would admit nobody even if it loaded.
* *The direct viewer* (`cmd/direct`): calls `server.New` and `view.New` with arguments they do not take; it does
  not build, so there is no behaviour to model.
* *Generated assets and constants* (`bound`, `cmd/bindata`, `vars`): data.
* *Time*: intervals and sleeps are left out where they only space things; deadlines, the 30 seconds of
  `addBytes` and the 200 ms of a second tap are events that may happen.
* *Memory models weaker than program order*: see FrameStream. `View` and `Camera` read unlocked fields in
  program order as well.

## How it was built, and what could follow

The order was that of importance: the stream, admission and camera of the server, then `Quality`, `Session`,
`View`, `Cipher` and `Config`, each with its instance, mutants and proofs, and then `Server`, which joins the
first three. Left to do: the rendering of texts as a component of its own, and the composition of `Session` with several
clients of one `Server`, which today meet only in their assumptions (a `Server` that serves whoever
proved the password is the server of `Session`; the `frame` of `Session` is a request of `FrameStream`).
