---------------------------- MODULE SessionProofs ----------------------------
(***************************************************************************)
(* Proofs about Session, for all passwords and any number of failures.     *)
(* Four invariants build on each other: WireInv says where client and      *)
(* server are, DialogInv where a password is on its way from the view to   *)
(* the server and its refusal on its way back, TextInv which text was      *)
(* written last, and SenderInv how many are waiting to be shown.           *)
(***************************************************************************)
EXTENDS Session, SequenceTheorems, TLAPS

-----------------------------------------------------------------------------
(* Where client and server are.                                            *)

WireInv ==
  /\ srv \in {"gone", "hello", "hash", "serve"}
  /\ wire \in {None, "salt", "hash", "ok", "nok", "ping", "frame", "nothing"}
  /\ pc \in Asking \cup Dialing \cup Joined
  /\ srv = "hello" => pc = "salt" /\ wire = None
  /\ srv = "hash" => \/ pc = "salt" /\ wire = "salt"
                     \/ pc = "status" /\ wire = "hash"
  /\ srv = "serve" => claim = Right /\
       \/ pc = "status" /\ wire = "ok"
       \/ pc \in {"connected", "ping", "deliver"} /\ wire = None
       \/ pc = "reply" /\ wire \in {"ping", "frame", "nothing"}
  /\ wire = "salt" => pc = "salt"
  /\ wire = "ok" => pc = "status" /\ claim = Right
  /\ wire = "nok" => pc = "status" /\ claim # Right
  /\ wire \in {"frame", "nothing"} => pc = "reply"
  /\ pc = "status" => claim = pass
  /\ pc \in Joined => pass = Right /\ claim = Right
  /\ pc = "denied" => pass # Right

LEMMA WireInitially == Init => WireInv
BY DEF Init, WireInv, None, Asking, Dialing, Joined

LEMMA WireStep ==
  ASSUME WireInv, [Next]_vars
  PROVE  WireInv'
<1> USE DEF WireInv, None, Asking, Dialing, Joined
\* Most of what view and goroutines do is not about the wire.
<1>1. ASSUME UNCHANGED <<netVars, pc, pass>>
      PROVE  WireInv'
  BY <1>1 DEF netVars
<1>2. CASE \E p \in Passwords : Swipe(p)
  BY <1>1, <1>2 DEF Swipe
<1>3. CASE Wake \/ Reset \/ Show \/ Hide
  BY <1>1, <1>3 DEF Wake, Reset, Show, Hide
<1>4. CASE Tell \/ ShowStatus \/ ShowPicture
  BY <1>1, <1>4 DEF Tell, ShowStatus, ShowPicture
<1>5. CASE Connect
  <2>1. CASE Take
    BY <2>1 DEF Take, netVars
  <2>2. CASE Dial /\ UNCHANGED pass
    BY <2>2 DEF Dial, netVars
  <2>3. CASE Handshake /\ UNCHANGED <<pass, srv>>
    BY <2>3 DEF Handshake
  <2>4. CASE Stream /\ UNCHANGED <<pass, srv, claim>>
    BY <2>4 DEF Stream
  <2>5. CASE (Verdict \/ Again) /\ UNCHANGED <<pass, netVars>>
    BY <2>5 DEF Verdict, Again, netVars
  <2>6. CASE Broken /\ UNCHANGED <<pass, netVars>>
    BY <2>6 DEF Broken, Ending, netVars
  <2>7. CASE Deliver /\ UNCHANGED <<pass, netVars>>
    BY <2>7 DEF Deliver, netVars
  <2> QED BY <1>5, <2>1, <2>2, <2>3, <2>4, <2>5, <2>6, <2>7 DEF Connect
<1>6. CASE Server
  <2>0. UNCHANGED <<pc, pass, claim>>
    BY <1>6 DEF Server
  <2>1. CASE Hello
    BY <2>0, <2>1 DEF Hello
  <2>2. CASE Verify
    BY <2>0, <2>2 DEF Verify, Equal
  <2>3. CASE Answers
    BY <2>0, <2>3 DEF Answers, Serve
  <2>4. CASE Expire
    BY <2>0, <2>4 DEF Expire
  <2>5. CASE Drop
    BY <2>0, <2>5 DEF Drop
  <2> QED BY <1>6, <2>1, <2>2, <2>3, <2>4, <2>5 DEF Server
<1>7. CASE UNCHANGED vars
  BY <1>1, <1>7 DEF vars, netVars
<1> QED BY <1>2, <1>3, <1>4, <1>5, <1>6, <1>7 DEF Next

LEMMA AlwaysWireInv == Spec => []WireInv
BY WireInitially, WireStep, PTL DEF Spec

\* Client and server agree on where they are, and a client that streams was
\* let in with the right password.
THEOREM AlwaysTakingTurns == Spec => []TakingTurns
<1>1. WireInv => TakingTurns
  BY DEF WireInv, TakingTurns, Joined, None
<1> QED BY <1>1, AlwaysWireInv, PTL

-----------------------------------------------------------------------------
(* The way of a password, and of its refusal.                              *)

Swiped == IF held # None THEN held ELSE pass

DialogInv ==
  /\ phase \in {0, 1}
  /\ {typed, held, pass} \subseteq Passwords \cup {None}
  /\ info \in Reports \cup {None}
  /\ pc # "pass" => pass \in Passwords
  /\ phase = 0 => pc = "pass" /\ held = None /\ info = None /\ ~asleep
  /\ asleep => phase = 1 /\ pc = "pass" /\ held = None /\ info = None
  /\ info = "denied" => phase = 1 /\ pc = "pass" /\ held = None /\ ~asleep
  /\ pc # "pass" => held = None /\ phase = 1
  /\ pc = "pass" => info \in {None, "denied"}
  /\ info = "denied" \/ asleep => pass \in Passwords /\ pass # Right
  /\ phase = 1 => typed \in {None, Swiped}
  /\ resetting => typed # Right /\ held # Right /\ pass # Right

LEMMA DialogInitially == Init => DialogInv
<1> SUFFICES ASSUME Init PROVE DialogInv
  OBVIOUS
<1>1. phase = 0 /\ held = None /\ typed = None /\ pass = None /\ info = None
      /\ pc = "pass" /\ ~asleep /\ ~resetting
  BY DEF Init
<1>2. None # "denied"
  BY DEF None
<1> QED BY <1>1, <1>2, Zenon DEF DialogInv

LEMMA DialogStep ==
  ASSUME WireInv, DialogInv, [Next]_vars
  PROVE  DialogInv'
<1> USE DEF DialogInv, Reports, Swiped
<1>0. None \notin Passwords /\ Right \in Passwords /\ Right # None
  BY PasswordsAssumption
<1>1. CASE \E p \in Passwords : Swipe(p)
  BY <1>0, <1>1 DEF Swipe
<1>2. CASE Wake
  BY <1>0, <1>2 DEF Wake
<1>3. CASE Reset
  BY <1>0, <1>3 DEF Reset
<1>4. CASE Show \/ Hide
  BY <1>4 DEF Show, Hide
<1>5. CASE Tell
  BY <1>5 DEF Tell, Refused, None
<1>6. CASE ShowStatus \/ ShowPicture
  BY <1>6 DEF ShowStatus, ShowPicture, viewVars
<1>7. CASE Connect
  <2>1. CASE Take
    BY <1>0, <2>1 DEF Take, Offered
  <2>a. ASSUME UNCHANGED viewVars, pass' = pass, pc # "pass", pc' # "pass",
               info' \in {info} \cup (Reports \ {"denied"})
        PROVE  DialogInv'
    BY <2>a DEF viewVars
  <2>2. CASE Dial /\ UNCHANGED <<viewVars, pass>>
    BY <2>2, <2>a DEF Dial, Say
  <2>3. CASE (Handshake \/ Stream) /\ UNCHANGED <<viewVars, pass, info>>
    BY <2>3, <2>a DEF Handshake, Stream
  <2>4. CASE Verdict /\ UNCHANGED <<viewVars, pass>>
    BY <1>0, <2>4 DEF Verdict, Say, viewVars, WireInv
  <2>5. CASE Again /\ UNCHANGED <<viewVars, pass>>
    BY <2>5, <2>a DEF Again, Say
  <2>6. CASE Broken /\ UNCHANGED <<viewVars, pass, info>>
    BY <2>6, <2>a DEF Broken, Ending
  <2>7. CASE Deliver /\ UNCHANGED <<viewVars, pass, info>>
    BY <2>7, <2>a DEF Deliver
  <2> QED BY <1>7, <2>1, <2>2, <2>3, <2>4, <2>5, <2>6, <2>7 DEF Connect
<1>8. CASE Server
  BY <1>8 DEF Server, viewVars
<1>9. CASE UNCHANGED vars
  BY <1>9 DEF vars
<1> QED BY <1>1, <1>2, <1>3, <1>4, <1>5, <1>6, <1>7, <1>8, <1>9 DEF Next

LEMMA AlwaysDialogInv == Spec => []DialogInv
BY AlwaysWireInv, DialogInitially, DialogStep, PTL DEF Spec

\* The loop of the view never sends a password that nobody takes.
THEOREM AlwaysNoneWaiting == Spec => []NoneWaiting
<1>1. DialogInv => NoneWaiting
  BY DEF DialogInv, NoneWaiting
<1> QED BY <1>1, AlwaysDialogInv, PTL

\* Every step of the session is one of the dialog with the user, or none.
LEMMA DialogImplemented ==
  ASSUME DialogInv, DialogInv', [Next]_vars
  PROVE  UserDialog!Next \/
         UNCHANGED (IF phase = 0 THEN None ELSE IF held # None THEN held ELSE pass)
<1> DEFINE chosen == IF phase = 0 THEN None
                     ELSE IF held # None THEN held ELSE pass
<1> USE DEF DialogInv
<1>0. None \notin Passwords
  BY PasswordsAssumption
<1>1. CASE \E p \in Passwords : Swipe(p)
  <2>1. PICK p \in Passwords : Swipe(p)
    BY <1>1
  <2>2. chosen = None /\ chosen' = p
    BY <1>0, <2>1 DEF Swipe
  <2> QED BY <2>2 DEF UserDialog!Next, UserDialog!Choose
<1>2. CASE Wake
  <2>1. chosen = pass /\ pass \notin {None, Right} /\ chosen' = None
    BY <1>0, <1>2 DEF Wake
  <2> QED BY <2>1 DEF UserDialog!Next, UserDialog!Reject
<1>3. CASE UNCHANGED <<phase, held, pass>>
  BY <1>3
<1>4. CASE Take
  <2>1. chosen' = chosen
    BY <1>4 DEF Take, Offered
  <2> QED BY <2>1
<1>5. CASE Connect /\ ~Take
  BY <1>3, <1>5 DEF Connect, viewVars
<1>6. CASE Reset \/ Show \/ Hide \/ Tell \/ ShowStatus \/ ShowPicture \/ Server
  BY <1>3, <1>6
  DEF Reset, Show, Hide, Tell, ShowStatus, ShowPicture, Server, viewVars
<1>7. CASE UNCHANGED vars
  BY <1>3, <1>7 DEF vars
<1> QED BY <1>1, <1>2, <1>4, <1>5, <1>6, <1>7 DEF Next

\* The user is asked again only after a refusal, and the right password is
\* never asked for twice: the session implements the dialog.
THEOREM ImplementsDialog == Spec => AskedOnce
<1>1. Init => UserDialog!Init
  BY DEF Init, UserDialog!Init
<1>2. DialogInv /\ DialogInv' /\ [Next]_vars =>
        [UserDialog!Next]_(IF phase = 0 THEN None
                           ELSE IF held # None THEN held ELSE pass)
  BY DialogImplemented
<1> QED BY <1>1, <1>2, AlwaysDialogInv, PTL
        DEF Spec, AskedOnce, UserDialog!Spec

\* The password in use, as the dialog sees it.
Chosen == IF phase = 0 THEN None ELSE IF held # None THEN held ELSE pass

\* What Dialog promises is that the right password, once it is in use, stays,
\* whatever happens to connections and windows.
THEOREM RightStays == Spec => [][Chosen = Right => Chosen' = Right]_vars
<1>1. DialogInv /\ DialogInv' /\ [Next]_vars =>
        (Chosen = Right => Chosen' = Right)
  <2> SUFFICES ASSUME DialogInv, DialogInv', [Next]_vars, Chosen = Right
               PROVE  Chosen' = Right
    OBVIOUS
  <2>1. Right # None
    BY PasswordsAssumption
  <2>2. [UserDialog!Next]_(IF phase = 0 THEN None
                           ELSE IF held # None THEN held ELSE pass)
    BY DialogImplemented
  <2> QED
    BY <2>1, <2>2 DEF Chosen, UserDialog!Next, UserDialog!Reject,
                      UserDialog!Choose
<1> QED BY <1>1, AlwaysDialogInv, PTL DEF Spec

-----------------------------------------------------------------------------
(* Which text was written last.                                            *)

\* A text that is appended is the last.
LEMMA Written ==
  ASSUME NEW s \in Seq(Texts), NEW t \in Texts
  PROVE  /\ Append(s, t) \in Seq(Texts) /\ Append(s, t) # <<>>
         /\ Append(s, t)[Len(Append(s, t))] = t
OBVIOUS

\* The last text stays the last when the first is taken.
LEMMA Taken ==
  ASSUME NEW s \in Seq(Texts), s # <<>>
  PROVE  /\ Head(s) \in Texts /\ Tail(s) \in Seq(Texts)
         /\ Tail(s) = <<>> => Head(s) = s[Len(s)]
         /\ Tail(s) # <<>> => Tail(s)[Len(Tail(s))] = s[Len(s)]
<1>1. /\ Head(s) \in Texts /\ Tail(s) \in Seq(Texts)
      /\ Len(Tail(s)) = Len(s) - 1 /\ Len(s) \in Nat
      /\ \A i \in 1 .. Len(Tail(s)) : Tail(s)[i] = s[i + 1]
  BY HeadTailProperties
<1>2. ASSUME Tail(s) = <<>>
      PROVE  Head(s) = s[Len(s)]
  <2>1. Len(s) = 1
    <3>1. Len(<<>>) = 0
      BY EmptySeq
    <3>2. Len(Tail(s)) = 0
      BY <1>2, <3>1, Zenon
    <3> QED BY <1>1, <3>2
  <2>2. Head(s) = s[1]
    OBVIOUS
  <2> QED BY <2>1, <2>2
<1>3. ASSUME Tail(s) # <<>>
      PROVE  Tail(s)[Len(Tail(s))] = s[Len(s)]
  <2>1. Len(Tail(s)) \in 1 .. Len(Tail(s))
    BY <1>1, <1>3, EmptySeq
  <2> QED BY <1>1, <2>1
<1> QED BY <1>1, <1>2, <1>3

Latest == IF status = <<>> THEN shown ELSE status[Len(status)]

TextInv ==
  /\ status \in Seq(Texts)
  /\ (phase = 0 /\ ~resetting) => Latest = "swipe"
  /\ pc \in {"dial", "salt", "status", "connected", "denied"} =>
       info = "connecting" \/ (info = None /\ last = "connecting")
  /\ pc \in {"ping", "reply", "deliver"} =>
       \/ info = "connected" /\ last # "connected"
       \/ info = None /\ Latest = "connected"

LEMMA TextInitially == Init => TextInv
BY Written DEF Init, TextInv, Latest, Texts

LEMMA TextStep ==
  ASSUME WireInv, DialogInv, TextInv, [Next]_vars
  PROVE  TextInv'
<1> USE DEF TextInv
<1>1. CASE \E p \in Passwords : Swipe(p)
  BY <1>1 DEF Swipe, textVars, Latest, DialogInv
<1>2. CASE Wake
  BY <1>2 DEF Wake, textVars, Latest, DialogInv
<1>3. CASE Reset
  <2>1. "swipe" \in Texts
    BY DEF Texts
  <2>2. status' \in Seq(Texts) /\ Latest' = "swipe"
    BY <1>3, <2>1, Written DEF Reset, Latest
  <2>3. pc \notin {"ping", "reply", "deliver"}
    BY <1>3 DEF Reset, DialogInv, WireInv, Joined
  <2> QED BY <1>3, <2>2, <2>3 DEF Reset
<1>4. CASE Show \/ Hide \/ ShowPicture \/ Server
  BY <1>4 DEF Show, Hide, ShowPicture, Server, textVars, viewVars, Latest
<1>5. CASE Tell
  <2>1. Text \in Texts
    BY <1>5 DEF Tell, Text, Texts, DialogInv
  <2>2. status' \in Seq(Texts) /\ (Text # last => Latest' = Text)
    BY <1>5, <2>1, Written DEF Tell, Latest
  <2>3. phase # 0 /\ phase' = phase /\ pc' = pc /\ info' = None
    BY <1>5 DEF Tell, DialogInv
  <2>4. last' = info /\ Text = info /\ info # None
    BY <1>5 DEF Tell, Text
  <2> QED BY <2>2, <2>3, <2>4 DEF None
<1>6. CASE ShowStatus
  <2>1. status' \in Seq(Texts) /\ Latest' = Latest
    BY <1>6, Taken DEF ShowStatus, Latest
  <2> QED BY <1>6, <2>1 DEF ShowStatus, viewVars
<1>7. CASE Connect
  <2>0. status' = status /\ shown' = shown /\ last' = last /\ Latest' = Latest
        /\ phase' = phase /\ resetting' = resetting
    BY <1>7 DEF Connect, Take, textVars, viewVars, Latest
  <2>1. CASE Take
    BY <2>0, <2>1 DEF Take
  <2>2. CASE Dial
    BY <2>0, <2>2 DEF Dial, Say
  <2>3. CASE (Handshake \/ Stream) /\ UNCHANGED info
    BY <2>0, <2>3 DEF Handshake, Stream
  <2>4. CASE Verdict \/ Again
    BY <2>0, <2>4 DEF Verdict, Again, Say, None
  <2>5. CASE (Broken \/ Deliver) /\ UNCHANGED info
    BY <2>0, <2>5 DEF Broken, Ending, Deliver
  <2> QED BY <1>7, <2>1, <2>2, <2>3, <2>4, <2>5 DEF Connect
<1>8. CASE UNCHANGED vars
  BY <1>8 DEF vars, Latest
<1> QED BY <1>1, <1>2, <1>3, <1>4, <1>5, <1>6, <1>7, <1>8 DEF Next

LEMMA AlwaysTextInv == Spec => []TextInv
BY AlwaysWireInv, AlwaysDialogInv, TextInitially, TextStep, PTL DEF Spec

\* Once all is quiet, the text on the screen is about the present.
THEOREM AlwaysStatusRight == Spec => []StatusRight
<1>1. DialogInv /\ TextInv => StatusRight
  BY DEF DialogInv, TextInv, StatusRight, Latest, Joined, None
<1> QED BY <1>1, AlwaysDialogInv, AlwaysTextInv, PTL

-----------------------------------------------------------------------------
(* How many texts wait to be shown.  A swipe text is the end of a refused   *)
(* password, so few can follow the last report: this many.                  *)

\* At most the n last of the texts in s are those of ClearPass.
EndsWithin(s, n) ==
  Len(s) > n => \E i \in Len(s) - n .. Len(s) : s[i] # "swipe"

\* A report ends the texts of ClearPass before it ...
LEMMA ReportWritten ==
  ASSUME NEW s \in Seq(Texts), NEW t \in Texts, t # "swipe", NEW n \in Nat
  PROVE  EndsWithin(Append(s, t), n)
<1>1. Len(Append(s, t)) = Len(s) + 1 /\ Append(s, t)[Len(s) + 1] = t
  OBVIOUS
<1>2. Len(s) + 1 \in (Len(s) + 1) - n .. Len(s) + 1
  BY LenProperties
<1> QED BY <1>1, <1>2 DEF EndsWithin

\* ... one more of them is one more ...
LEMMA SwipeWritten ==
  ASSUME NEW s \in Seq(Texts), NEW t \in Texts, NEW n \in Nat, EndsWithin(s, n)
  PROVE  EndsWithin(Append(s, t), n + 1)
<1> DEFINE a == Append(s, t)
<1>1. Len(a) = Len(s) + 1 /\ Len(s) \in Nat /\ \A i \in 1 .. Len(s) : a[i] = s[i]
  OBVIOUS
<1>2. SUFFICES ASSUME Len(a) > n + 1
               PROVE  \E i \in Len(a) - (n + 1) .. Len(a) : a[i] # "swipe"
  BY DEF EndsWithin
<1>3. PICK i \in Len(s) - n .. Len(s) : s[i] # "swipe"
  BY <1>1, <1>2 DEF EndsWithin
<1>4. i \in 1 .. Len(s) /\ i \in Len(a) - (n + 1) .. Len(a)
  BY <1>1, <1>2
<1> QED BY <1>1, <1>3, <1>4

\* ... and taking the first text leaves the last ones.
LEMMA EndKept ==
  ASSUME NEW s \in Seq(Texts), s # <<>>, NEW n \in Nat, EndsWithin(s, n)
  PROVE  EndsWithin(Tail(s), n)
<1>1. /\ Len(Tail(s)) = Len(s) - 1 /\ Len(s) \in Nat
      /\ \A i \in 1 .. Len(Tail(s)) : Tail(s)[i] = s[i + 1]
  BY HeadTailProperties
<1>2. SUFFICES ASSUME Len(Tail(s)) > n
               PROVE  \E i \in Len(Tail(s)) - n .. Len(Tail(s)) :
                        Tail(s)[i] # "swipe"
  BY DEF EndsWithin
<1>3. PICK i \in Len(s) - n .. Len(s) : s[i] # "swipe"
  BY <1>1, <1>2 DEF EndsWithin
<1>4. /\ i - 1 \in 1 .. Len(Tail(s)) /\ i - 1 \in Len(Tail(s)) - n .. Len(Tail(s))
      /\ (i - 1) + 1 = i
  BY <1>1, <1>2
<1> QED BY <1>1, <1>3, <1>4

\* While no report waits behind the slot, few texts do.
LEMMA SentIsShort ==
  ASSUME NEW s \in Seq(Texts), NEW n \in Nat, EndsWithin(s, n),
         \A i \in 2 .. Len(s) : s[i] = "swipe"
  PROVE  Len(s) <= n + 1
<1>1. SUFFICES ASSUME Len(s) > n + 1 PROVE FALSE
  BY LenProperties
<1>2. PICK i \in Len(s) - n .. Len(s) : s[i] # "swipe"
  BY <1>1, LenProperties DEF EndsWithin
<1> QED BY <1>1, <1>2, LenProperties

\* The last report was not a refusal.
Settled == last \notin {None, "denied"}

\* The texts of ClearPass that are bound to be written without another report.
Coming == (IF asleep THEN 1 ELSE 0) + (IF resetting THEN 1 ELSE 0)

\* How many of them may follow the last report, written or to come.
Room == IF Settled THEN 1 ELSE 2

SenderInv ==
  /\ asleep \in BOOLEAN /\ resetting \in BOOLEAN
  /\ Coming <= Room /\ EndsWithin(status, Room - Coming)
  /\ Len(status) + Coming <= 4
  /\ Settled => ~asleep
  /\ info = "denied" => Settled

LEMMA SenderInitially == Init => SenderInv
<1> SUFFICES ASSUME Init PROVE SenderInv
  OBVIOUS
<1>1. /\ status = <<"swipe">> /\ asleep = FALSE /\ resetting = FALSE
      /\ last = None /\ info = None /\ None # "denied"
  BY DEF Init, None
<1>2. Coming = 0 /\ Room = 2 /\ Len(status) = 1 /\ ~Settled
  BY <1>1 DEF Coming, Room, Settled
<1>3. EndsWithin(status, Room - Coming)
  BY <1>2 DEF EndsWithin
<1>4. Coming <= Room /\ Len(status) + Coming <= 4
  BY <1>2
<1>5. asleep \in BOOLEAN /\ resetting \in BOOLEAN /\ info # "denied"
  BY <1>1
<1> QED BY <1>2, <1>3, <1>4, <1>5, Zenon DEF SenderInv

\* Steps that leave the texts, and what is bound to become one, alone.
LEMMA SenderQuiet ==
  ASSUME SenderInv, UNCHANGED <<status, last>>, Coming' = Coming,
         asleep' \in BOOLEAN, resetting' \in BOOLEAN, asleep' => asleep,
         info' = "denied" => info = "denied" \/ Settled
  PROVE  SenderInv'
<1>1. Settled' = Settled /\ Room' = Room
  BY DEF Settled, Room
<1>2. EndsWithin(status, Room - Coming)' = EndsWithin(status, Room - Coming)
  BY <1>1
<1> QED BY <1>1, <1>2 DEF SenderInv

LEMMA SenderStep ==
  ASSUME DialogInv, TextInv, SenderInv, [Next]_vars
  PROVE  SenderInv'
<1>0. status \in Seq(Texts) /\ Len(status) \in Nat
  BY LenProperties DEF TextInv
<1>1. CASE UNCHANGED <<status, last, asleep, resetting, info>>
  BY <1>1, SenderQuiet DEF SenderInv, Coming
<1>2. CASE Wake
  <2>1. /\ UNCHANGED <<status, last, info>> /\ asleep' = FALSE
        /\ resetting' = TRUE /\ asleep /\ ~resetting
    BY <1>2 DEF Wake, textVars
  <2>2. Coming' = Coming
    BY <2>1 DEF Coming
  <2> QED BY <2>1, <2>2, SenderQuiet
<1>3. CASE Reset
  <2>1. /\ Coming' = Coming - 1 /\ Coming \in Nat /\ Coming > 0
        /\ Room' = Room /\ Settled' = Settled /\ Room \in Nat
    BY <1>3 DEF Reset, Coming, Room, Settled, SenderInv
  <2>2. status' = Append(status, "swipe") /\ "swipe" \in Texts
        /\ Len(status') = Len(status) + 1
    BY <1>0, <1>3 DEF Reset, Texts
  <2>3. EndsWithin(status', (Room - Coming) + 1)
    BY <1>0, <2>1, <2>2, SwipeWritten DEF SenderInv
  <2>4. (Room - Coming) + 1 = Room' - Coming'
    BY <2>1
  <2>5. EndsWithin(status', Room' - Coming')
    BY <2>3, <2>4
  <2>6. Len(status') + Coming' <= 4 /\ Coming' <= Room'
    BY <1>0, <2>1, <2>2 DEF SenderInv
  <2>7. asleep' = asleep /\ resetting' = FALSE /\ info' = info
    BY <1>3 DEF Reset
  <2> QED BY <2>1, <2>5, <2>6, <2>7 DEF SenderInv
<1>4. CASE ShowStatus
  <2>1. status' = Tail(status) /\ status # <<>>
        /\ UNCHANGED <<last, asleep, resetting, info>>
    BY <1>4 DEF ShowStatus, viewVars
  <2>2. Room' = Room /\ Coming' = Coming /\ Settled' = Settled
        /\ Room - Coming \in Nat
    BY <2>1 DEF Room, Coming, Settled, SenderInv
  <2>3. EndsWithin(status', Room' - Coming')
    BY <1>0, <2>1, <2>2, EndKept DEF SenderInv
  <2>4. Len(status') = Len(status) - 1
    BY <1>0, <2>1, HeadTailProperties
  <2>5. Len(status') + Coming' <= 4
    BY <1>0, <2>2, <2>4 DEF SenderInv, Coming
  <2> QED BY <2>1, <2>2, <2>3, <2>5 DEF SenderInv
<1>5. CASE Tell
  \* A report comes while no ClearPass sleeps, and few texts wait.
  <2>1. /\ info \in Reports /\ info # "swipe" /\ info \in Texts /\ info # None
        /\ last' = info /\ info' = None /\ resetting' = resetting /\ ~asleep
    BY <1>5 DEF Tell, Text, DialogInv, Reports, Texts
  <2>2. Room - Coming \in Nat /\ Coming \in {0, 1} /\ Room \in {1, 2}
    BY <2>1 DEF Room, Coming, SenderInv
  <2>3. Len(status) <= (Room - Coming) + 1
    BY <1>0, <1>5, <2>2, SentIsShort DEF Tell, Sent, SenderInv
  <2>4. info' # "denied"
    BY <2>1 DEF None
  <2>5. ASSUME info = last
        PROVE  SenderInv'
    <3>1. info # "denied"
      BY <2>5 DEF SenderInv, Settled
    <3>2. UNCHANGED <<status, last, resetting>>
      BY <1>5, <2>1, <2>5 DEF Tell, Text
    <3>3. asleep' = asleep
      <4>1. asleep' = (asleep \/ FALSE)
        BY <1>5, <3>1 DEF Tell, Refused
      <4> QED BY <4>1 DEF SenderInv
    <3> QED BY <2>4, <3>2, <3>3, SenderQuiet DEF SenderInv, Coming
  <2>6. ASSUME info # last
        PROVE  SenderInv'
    <3>1. status' = Append(status, info) /\ Len(status') = Len(status) + 1
      BY <1>0, <1>5, <2>6 DEF Tell, Text
    <3>2. CASE info = "denied"
      <4>1. Settled /\ Room = 1 /\ asleep' = TRUE /\ ~Settled' /\ Room' = 2
        BY <1>5, <2>1, <3>2 DEF Tell, Refused, Settled, Room, SenderInv
      <4>2. Coming' = Coming + 1
        BY <2>1, <4>1 DEF Coming
      <4>3. Coming' <= Room' /\ Room' - Coming' \in Nat
        BY <2>2, <4>1, <4>2
      <4>4. EndsWithin(status', Room' - Coming')
        BY <1>0, <2>1, <3>1, <4>3, ReportWritten
      <4>5. Len(status') + Coming' <= 4
        BY <1>0, <2>2, <2>3, <3>1, <4>1, <4>2
      <4> QED BY <2>1, <2>4, <4>1, <4>3, <4>4, <4>5 DEF SenderInv
    <3>3. CASE info # "denied"
      <4>0. asleep' = (asleep \/ FALSE)
        BY <1>5, <3>3 DEF Tell, Refused
      <4>1. asleep' = asleep /\ Settled' /\ Room' = 1
        BY <2>1, <3>3, <4>0 DEF Settled, Room, SenderInv
      <4>2. Coming' = Coming
        BY <2>1, <4>1 DEF Coming
      <4>3. Coming' <= Room' /\ Room' - Coming' \in Nat
        BY <2>2, <4>1, <4>2
      <4>4. EndsWithin(status', Room' - Coming')
        BY <1>0, <2>1, <3>1, <4>3, ReportWritten
      <4>5. Len(status') + Coming' <= 4
        BY <1>0, <2>2, <2>3, <3>1, <4>2
      <4> QED BY <2>1, <2>4, <4>1, <4>3, <4>4, <4>5 DEF SenderInv
    <3> QED BY <3>2, <3>3
  <2> QED BY <2>5, <2>6
<1>6. CASE Connect
  <2>1. UNCHANGED <<status, last, asleep, resetting>>
    BY <1>6 DEF Connect, Take, viewVars, textVars
  \* Before Connect reports a refusal, it reported that it connects.
  <2>2. info' = "denied" => info = "denied" \/ last = "connecting"
    BY <1>6 DEF Connect, Take, Dial, Verdict, Again, Say, TextInv, None
  <2>3. last = "connecting" => Settled
    BY DEF Settled, None
  <2> QED BY <2>1, <2>2, <2>3, SenderQuiet DEF SenderInv, Coming
<1>7. CASE \/ \E p \in Passwords : Swipe(p)
           \/ Show \/ Hide \/ ShowPicture \/ Server
  BY <1>1, <1>7 DEF Swipe, Show, Hide, ShowPicture, Server, textVars, viewVars
<1>8. CASE UNCHANGED vars
  BY <1>1, <1>8 DEF vars
<1> QED BY <1>2, <1>3, <1>4, <1>5, <1>6, <1>7, <1>8 DEF Next

\* For any number of passwords and failures, and however long the window is
\* hidden, at most three goroutines wait behind the text in the channel.
THEOREM SendersBounded == Spec => []FewSenders
<1>1. TextInv /\ SenderInv => FewSenders
  BY LenProperties DEF TextInv, SenderInv, FewSenders, Coming
<1> QED BY <1>1, AlwaysDialogInv, AlwaysTextInv, SenderInitially, SenderStep,
           PTL DEF Spec

-----------------------------------------------------------------------------
(* Types.                                                                  *)

\* What the other invariants leave out.
RestInv ==
  /\ asleep \in BOOLEAN /\ resetting \in BOOLEAN
  /\ visible \in BOOLEAN /\ tick \in BOOLEAN

PlainInv ==
  /\ claim \in Passwords \cup {None}
  /\ last \in Texts \cup {None} /\ shown \in Texts \cup {None}
  /\ faults \in 0 .. MaxFaults

LEMMA RestInitially == Init => RestInv /\ PlainInv
<1>1. Init => RestInv
  BY DEF Init, RestInv
<1>2. Init => PlainInv
  BY FaultsAssumption DEF Init, PlainInv
<1> QED BY <1>1, <1>2

LEMMA RestStep ==
  ASSUME RestInv, [Next]_vars
  PROVE  RestInv'
<1> USE DEF RestInv
<1>1. CASE \E p \in Passwords : Swipe(p)
  BY <1>1 DEF Swipe
<1>2. CASE Wake \/ Reset \/ Show \/ Hide
  BY <1>2 DEF Wake, Reset, Show, Hide
<1>3. CASE Tell \/ ShowStatus \/ ShowPicture
  BY <1>3 DEF Tell, Refused, ShowStatus, ShowPicture, viewVars
<1>4. CASE Connect
  BY <1>4 DEF Connect, Take, Deliver, viewVars
<1>5. CASE Server
  BY <1>5 DEF Server, viewVars
<1>6. CASE UNCHANGED vars
  BY <1>6 DEF vars
<1> QED BY <1>1, <1>2, <1>3, <1>4, <1>5, <1>6 DEF Next

LEMMA PlainStep ==
  ASSUME WireInv, DialogInv, TextInv, PlainInv, [Next]_vars
  PROVE  PlainInv'
<1>0. faults \in Nat /\ MaxFaults \in Nat
  BY FaultsAssumption DEF PlainInv
<1>1. CASE (\E p \in Passwords : Swipe(p)) \/ Wake \/ Reset \/ Show \/ Hide
           \/ ShowPicture
  <2>1. UNCHANGED <<claim, last, shown, faults>>
    BY <1>1 DEF Swipe, Wake, Reset, Show, Hide, ShowPicture, textVars, netVars
  <2> QED BY <2>1 DEF PlainInv
<1>2. CASE Tell
  <2>1. info \in Texts /\ last' = info /\ UNCHANGED <<claim, shown, faults>>
    BY <1>2 DEF Tell, Text, Texts, DialogInv, netVars
  <2> QED BY <2>1 DEF PlainInv
<1>3. CASE ShowStatus
  <2>1. shown' = Head(status) /\ Head(status) \in Texts
    BY <1>3, Taken DEF ShowStatus, TextInv
  <2>2. UNCHANGED <<claim, last, faults>>
    BY <1>3 DEF ShowStatus, netVars
  <2> QED BY <2>1, <2>2 DEF PlainInv
<1>4. CASE Connect
  <2>1. last' = last /\ shown' = shown
    BY <1>4 DEF Connect, Take, textVars
  <2>2. claim' = claim \/ (pc = "salt" /\ claim' = pass)
    BY <1>4 DEF Connect, Take, Dial, Handshake, netVars
  <2>3. faults' = faults \/ (faults < MaxFaults /\ faults' = faults + 1)
    BY <1>4 DEF Connect, Take, Dial, Fault, netVars
  <2>4. claim' \in Passwords \cup {None}
    BY <2>2 DEF PlainInv, DialogInv
  <2>5. PICK k \in 0 .. MaxFaults : faults' = k
    BY <1>0, <2>3 DEF PlainInv
  <2> QED BY <2>1, <2>4, <2>5 DEF PlainInv
<1>5. CASE Server
  <2>1. UNCHANGED <<claim, last, shown>>
    BY <1>5 DEF Server, textVars
  <2>2. faults' = faults \/ (faults < MaxFaults /\ faults' = faults + 1)
    BY <1>5 DEF Server, Fault
  <2>3. PICK k \in 0 .. MaxFaults : faults' = k
    BY <1>0, <2>2 DEF PlainInv
  <2> QED BY <2>1, <2>3 DEF PlainInv
<1>6. CASE UNCHANGED vars
  BY <1>6 DEF vars, PlainInv
<1> QED BY <1>1, <1>2, <1>3, <1>4, <1>5, <1>6 DEF Next

\* Every variable of the session has its type.
THEOREM TypeCorrect == Spec => []TypeOK
<1>1. WireInv /\ DialogInv /\ TextInv /\ RestInv /\ PlainInv => TypeOK
  BY DEF WireInv, DialogInv, TextInv, RestInv, PlainInv, TypeOK
<1> QED BY <1>1, AlwaysWireInv, AlwaysDialogInv, AlwaysTextInv, RestInitially,
           RestStep, PlainStep, PTL DEF Spec
=============================================================================
