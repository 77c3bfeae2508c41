------------------------------ MODULE Session ------------------------------
(***************************************************************************)
(* The client (client.Connect and the goroutines of cmd/client) against    *)
(* the server's half of a connection.  A password swiped into the view     *)
(* goes through two unbuffered channels to Connect; Connect dials, proves  *)
(* the password and asks for pictures; it reports on the channel info to   *)
(* a goroutine that turns reports into status texts and, when the password *)
(* was refused, starts one that clears it a second later (ClearPass).      *)
(* Texts and pictures end in the decoder goroutine of the view, which runs *)
(* only while the window is visible: while it is not, all of them block.   *)
(*                                                                         *)
(* Client and server take turns, so that one message is under way at most  *)
(* (TakingTurns); `wire` holds it.  Admission has the server's side with   *)
(* any number of connections, View the view's side step by step.           *)
(***************************************************************************)
EXTENDS Naturals, Sequences

CONSTANTS
  Passwords,    \* what can be swiped
  Right,        \* the server's password
  MaxFaults     \* bound: how often a dial or a connection fails

None == "none"

ASSUME PasswordsAssumption == Right \in Passwords /\ None \notin Passwords
ASSUME FaultsAssumption == MaxFaults \in Nat

VARIABLES
  phase,        \* v.auth.phase: 0 while a password is asked for
  typed,        \* the whole password v.auth.pass holds, or None
  held,         \* what the goroutine between the two channels holds, or None
  asleep,       \* a ClearPass is going to run
  resetting,    \* a ClearPass has set the phase, and not yet the rest
  visible,      \* the view has a stage, and with it a decoder
  pc,           \* what Connect does next
  pass,         \* Connect's local of that name
  info,         \* the channel's one slot, or None
  last,         \* the status goroutine's local of that name
  status,       \* the status channel: one slot, then its blocked senders
  shown,        \* the text the view has
  tick,         \* the goroutine between tickOut and tickIn holds a picture
  srv,          \* what the server's goroutine for this connection does
  wire,         \* the message under way, or None
  claim,        \* the password the client's last hash was made from
  faults        \* failures so far

viewVars == <<phase, typed, held, asleep, resetting, visible>>
textVars == <<last, status, shown>>
netVars  == <<srv, wire, claim, faults>>
vars == <<phase, typed, held, asleep, resetting, visible, pc, pass, info, last,
          status, shown, tick, srv, wire, claim, faults>>

Reports == {"connecting", "connected", "reconnecting", "error", "denied"}
Texts   == Reports \cup {"swipe"}
Asking  == {"pass", "denied"}
Dialing == {"connecting", "dial", "salt", "status", "error", "close"}
Joined  == {"connected", "ping", "reply", "deliver"}

TypeOK ==
  /\ phase \in {0, 1}
  /\ {typed, held, pass, claim} \subseteq Passwords \cup {None}
  /\ asleep \in BOOLEAN /\ resetting \in BOOLEAN /\ visible \in BOOLEAN
  /\ tick \in BOOLEAN
  /\ pc \in Asking \cup Dialing \cup Joined
  /\ pc # "pass" => pass \in Passwords
  /\ info \in Reports \cup {None} /\ last \in Texts \cup {None}
  /\ status \in Seq(Texts) /\ shown \in Texts \cup {None}
  /\ srv \in {"gone", "hello", "hash", "serve"}
  /\ wire \in {None, "salt", "hash", "ok", "nok", "ping", "frame", "nothing"}
  /\ faults \in 0 .. MaxFaults

\* The loop of the view has called ClearPass once, before its first event.
Init ==
  /\ phase = 0 /\ typed = None /\ held = None
  /\ asleep = FALSE /\ resetting = FALSE /\ visible = FALSE
  /\ pc = "pass" /\ pass = None
  /\ info = None /\ last = None /\ status = <<"swipe">> /\ shown = None
  /\ tick = FALSE
  /\ srv = "gone" /\ wire = None /\ claim = None
  /\ faults = 0

Fault == faults < MaxFaults /\ faults' = faults + 1

-----------------------------------------------------------------------------
(* The password, from the view to Connect, and the view's window.          *)

\* The last touch of a password.  Between the two steps of a ClearPass the
\* old password is still there, and any touch sends it again; a fresh one
\* takes a user longer than those few statements.
Swipe(p) ==
  /\ visible /\ phase = 0 /\ held = None
  /\ typed = p \/ (typed = None /\ ~resetting)
  /\ typed' = p /\ held' = p /\ phase' = 1
  /\ UNCHANGED <<asleep, resetting, visible, pc, pass, info, textVars, tick>>
  /\ UNCHANGED netVars

Offered == held # None

\* pass = <-c.pass
Take ==
  /\ pc = "pass" /\ Offered
  /\ pass' = held /\ held' = None
  /\ pc' = "connecting"
  /\ UNCHANGED <<phase, typed, asleep, resetting, visible, info, textVars>>
  /\ UNCHANGED <<tick, netVars>>

\* ClearPass, a second later: v.auth.phase = 0 ...
Wake ==
  /\ asleep /\ ~resetting
  /\ asleep' = FALSE /\ resetting' = TRUE
  /\ phase' = 0
  /\ UNCHANGED <<typed, held, visible, pc, pass, info, textVars, tick>>
  /\ UNCHANGED netVars

\* ... then the rest of the password's state, and the prompt.
Reset ==
  /\ resetting /\ resetting' = FALSE
  /\ typed' = None
  /\ status' = Append(status, "swipe")
  /\ UNCHANGED <<phase, held, asleep, visible, pc, pass, info, last, shown>>
  /\ UNCHANGED <<tick, netVars>>

\* The stage crosses into visibility, or out of it.
Show == ~visible /\ visible' = TRUE
  /\ UNCHANGED <<phase, typed, held, asleep, resetting, pc, pass, info>>
  /\ UNCHANGED <<textVars, tick, netVars>>
Hide == visible /\ visible' = FALSE
  /\ UNCHANGED <<phase, typed, held, asleep, resetting, pc, pass, info>>
  /\ UNCHANGED <<textVars, tick, netVars>>

-----------------------------------------------------------------------------
(* The status goroutine of cmd/client, and the decoder's two cases.        *)

\* Mutants: any trouble, or none, has the password cleared.
Refused_Any == info \in {"denied", "error"}
Refused_Never == FALSE

Refused == info = "denied"

\* Mutant: the text for InfoConnected is missing, str is what it was.
Text_Missing == IF info = "connected" THEN last ELSE info

Text == info

\* Mutant: each text is sent by a goroutine of its own.
Sent_Always == TRUE

\* The text the goroutine sent last is in the slot of the channel, or through.
Sent == \A i \in 2 .. Len(status) : status[i] = "swipe"

\* A report becomes a text, unless the last one was the same.
Tell ==
  /\ info # None /\ info' = None
  /\ Sent
  /\ asleep' = (asleep \/ Refused)
  /\ last' = Text
  /\ status' = IF Text # last THEN Append(status, Text) ELSE status
  /\ UNCHANGED <<phase, typed, held, resetting, visible, pc, pass, shown>>
  /\ UNCHANGED <<tick, netVars>>

ShowStatus ==
  /\ visible /\ status # <<>>
  /\ shown' = Head(status) /\ status' = Tail(status)
  /\ UNCHANGED <<viewVars, pc, pass, info, last, tick, netVars>>

ShowPicture ==
  /\ visible /\ tick /\ tick' = FALSE
  /\ UNCHANGED <<viewVars, pc, pass, info, textVars, netVars>>

-----------------------------------------------------------------------------
(* Connect.                                                                *)

\* c.info <- report, which blocks while the slot is taken.
Say(report) == info = None /\ info' = report

Dial ==
  \/ /\ pc = "connecting" /\ Say("connecting") /\ pc' = "dial"
     /\ UNCHANGED netVars
  \/ /\ pc = "dial" /\ pc' = "salt" /\ UNCHANGED info
     /\ srv' = "hello" /\ wire' = None
     /\ UNCHANGED <<claim, faults>>
  \/ /\ pc = "dial" /\ pc' = "connecting" /\ UNCHANGED info
     /\ Fault /\ UNCHANGED <<srv, wire, claim>>

\* HandshakeClient: the salt is answered with a hash, the hash by a verdict.
Handshake ==
  \/ /\ pc = "salt" /\ wire = "salt"
     /\ pc' = "status" /\ wire' = "hash" /\ claim' = pass
  \/ /\ pc = "status" /\ wire \in {"ok", "nok"}
     /\ pc' = IF wire = "ok" THEN "connected" ELSE "denied"
     /\ wire' = None /\ UNCHANGED claim

\* The reports of a verdict.  A refused password is given up.
Verdict ==
  \/ pc = "connected" /\ Say("connected") /\ pc' = "ping"
  \/ pc = "denied" /\ Say("denied") /\ pc' = "pass"

\* One byte asks for a picture; three bytes say there is no new one.
Stream ==
  \/ pc = "ping" /\ pc' = "reply" /\ wire' = "ping"
  \/ pc = "reply" /\ wire = "frame" /\ pc' = "deliver" /\ wire' = None
  \/ pc = "reply" /\ wire = "nothing" /\ pc' = "ping" /\ wire' = None

Deliver == pc = "deliver" /\ ~tick /\ tick' = TRUE /\ pc' = "ping"

\* Mutants: whatever ends a connection is taken for a refusal; it has the
\* client wait for another password.
Ending_Denied == {"denied"}
Ending_Pass == {"pass"}

\* connErr reports an error unless it is io.EOF.
Ending == {"error", "close"}

\* A read, a write or a decryption fails.
Broken ==
  /\ pc \in {"salt", "status", "ping", "reply"}
  /\ srv = "gone" /\ wire \notin {"salt", "ok", "nok", "frame", "nothing"}
  /\ pc' \in Ending

Again ==
  \/ pc = "error" /\ Say("error") /\ pc' = "close"
  \/ pc = "close" /\ Say("reconnecting") /\ pc' = "connecting"

Connect ==
  \/ Take
  \/ /\ UNCHANGED <<viewVars, pass, textVars>>
     /\ \/ Dial /\ UNCHANGED tick
        \/ (Handshake \/ Stream) /\ UNCHANGED <<info, tick, srv, faults>>
           /\ (Stream => UNCHANGED claim)
        \/ (Verdict \/ Again) /\ UNCHANGED <<tick, netVars>>
        \/ Broken /\ UNCHANGED <<info, tick, netVars>>
        \/ Deliver /\ UNCHANGED <<info, netVars>>

-----------------------------------------------------------------------------
(* The server's half of the connection, and what may befall it.            *)

Hello == srv = "hello" /\ srv' = "hash" /\ wire' = "salt"

\* Mutant: the comparison of the hashes is ignored.
Equal_Ignored == TRUE

Equal == claim = Right

Verify ==
  /\ srv = "hash" /\ wire = "hash"
  /\ IF Equal THEN wire' = "ok" /\ srv' = "serve"
              ELSE wire' = "nok" /\ srv' = "gone"

Serve(answer) == srv = "serve" /\ wire = "ping" /\ wire' = answer
                 /\ UNCHANGED srv

\* The deadline passes while the client is stuck on a hidden window, with a
\* picture or with the report that it is connected.
Expire ==
  /\ srv = "serve" /\ ~visible
  /\ (pc = "deliver" /\ tick) \/ (pc = "connected" /\ info # None)
  /\ srv' = "gone" /\ UNCHANGED wire

\* There are too many peers, the network fails, the server stops.  What was
\* under way may get lost.
Drop == srv # "gone" /\ srv' = "gone" /\ wire' \in {wire, None}

Answers == \E answer \in {"frame", "nothing"} : Serve(answer)

Server ==
  /\ \/ (Hello \/ Verify \/ Answers \/ Expire) /\ UNCHANGED faults
     \/ Drop /\ Fault
  /\ UNCHANGED <<viewVars, pc, pass, info, textVars, tick, claim>>

Next ==
  \/ \E p \in Passwords : Swipe(p)
  \/ Wake \/ Reset \/ Show \/ Hide
  \/ Tell \/ ShowStatus \/ ShowPicture
  \/ Connect \/ Server

(***************************************************************************)
(* Goroutines run.  The window becomes visible again and again, and the    *)
(* decoder's select is fair to both its channels.  There is a new picture  *)
(* again and again (FrameStream).  The user owes nothing.                  *)
(***************************************************************************)
Spec ==
  /\ Init /\ [][Next]_vars
  /\ WF_vars(Wake) /\ WF_vars(Reset) /\ WF_vars(Show) /\ WF_vars(Tell)
  /\ SF_vars(ShowStatus) /\ SF_vars(ShowPicture)
  /\ WF_vars(Connect)
  /\ WF_vars(Server /\ ~Drop) /\ SF_vars(Server /\ Serve("frame"))

-----------------------------------------------------------------------------
(* Properties.                                                             *)

\* A password can only be swiped when Connect waits for one and none is on
\* its way: the loop of the view, which also paints, never blocks on it.
NoneWaiting == phase = 0 => pc = "pass" /\ held = None

\* Client and server agree on where they are: nobody sends over a message,
\* the server serves only who proved the password it has, and a client that
\* streams was let in with the password it uses.
TakingTurns ==
  /\ (srv = "hello" \/ (pc = "ping" /\ srv # "gone")) => wire = None
  /\ wire = "salt" => pc = "salt"
  /\ srv = "serve" => claim = Right /\ pc \in {"status"} \cup Joined
  /\ pc \in Joined => pass = Right /\ claim = pass

\* When all is quiet, the text on the screen is about the present, although
\* two goroutines write it and one of them leaves repetitions out.
StatusRight ==
  (info = None /\ status = <<>> /\ ~asleep /\ ~resetting) =>
    /\ phase = 0 => shown = "swipe"
    /\ pc \in Joined \ {"connected"} => shown = "connected"

\* However long the window stays hidden and whatever is swiped in between, at
\* most three goroutines wait to write a text behind the one in the slot: the
\* one for reports, and two that clear a password.
FewSenders == Len(status) <= 4

\* The user is asked again only after a refusal, and never for the password
\* that is right: not by a full server, a lost connection or a hidden window.
UserDialog == INSTANCE Dialog WITH
  chosen <- IF phase = 0 THEN None ELSE IF held # None THEN held ELSE pass
AskedOnce == UserDialog!Spec

\* A client with the right password gets to a picture, if failures end and
\* the window is some day left open.
Watches ==
  <>[]visible => ((pc = "connecting" /\ pass = Right) ~> pc = "deliver")

\* A refused password is asked for again.
AsksAgain == pc = "denied" ~> phase = 0
=============================================================================
