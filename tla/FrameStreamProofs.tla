------------------------- MODULE FrameStreamProofs -------------------------
(***************************************************************************)
(* Proofs about FrameStream, for any set of connections, any number of     *)
(* pictures and any value at which the counter restarts.                   *)
(*                                                                         *)
(* None of the properties is inductive as it stands.  The invariant below  *)
(* adds what the interleavings leave true at every step: what the encoder  *)
(* holds against what is published (PublisherInv), how the counter relates *)
(* to the pictures (CounterInv), and, word by word, what a connection that *)
(* is part of the way through a load has in hand (ViewerInv).              *)
(***************************************************************************)
EXTENDS FrameStream, TLAPS

\* The picture in the encoder is newer than the published one until it is
\* stored; a word is of that picture exactly when it is stored.
PublisherInv ==
  /\ output <= captured /\ buf <= captured
  /\ output # 0 => buf < output
  /\ enc # "store" => unstored = {} /\ data["ptr"] = data["len"]
  /\ enc \in {"recv", "wrap"} => data["ptr"] <= buf
  /\ enc = "transcode" => data["ptr"] < buf
  /\ enc = "store" =>
       /\ unstored # {}
       /\ \A w \in Words :
            IF w \in unstored THEN data[w] < buf ELSE data[w] = buf
       /\ unstored = Words => data["ptr"] = data["len"]
  /\ enc = "bump" => data["ptr"] = buf /\ buf # 0

\* The counter lags behind the pictures and restarts only past MaxCount.
CounterInv ==
  /\ frameCount <= buf
  /\ enc \in {"transcode", "store", "bump"} => frameCount < buf
  /\ enc # "wrap" => frameCount <= MaxCount
  /\ frameCount # 0 => data["ptr"] # 0
  /\ FirstRound /\ Quiet /\ frameCount = 0 => data = Nil

\* What a connection holds, and that it never loads an unset picture.
ViewerInv ==
  \A c \in Conns :
    /\ pc[c] # "load" => unloaded[c] = {}
    /\ pc[c] = "load" => unloaded[c] # {}
    /\ pc[c] \in {"mark", "load"} \/ frame[c] # 0 => data["ptr"] # 0
    /\ pc[c] = "gone" => frame[c] = 0 /\ got[c] = Nil
    /\ FirstRound => frame[c] <= frameCount
    /\ FirstRound /\ Quiet /\ frame[c] = frameCount =>
         \A w \in Words \ unloaded[c] : got[c][w] = data[w]

IInv == TypeOK /\ PublisherInv /\ CounterInv /\ ViewerInv

\* The picture behind the word ptr is stored but not announced yet.
Ahead == enc = "bump" \/ (enc = "store" /\ "ptr" \notin unstored)

\* How many repetitions of the published picture may lie behind c.
Spare(c) ==
  IF Ahead
  THEN IF frame[c] = frameCount THEN 1 ELSE 0
  ELSE IF frame[c] = frameCount THEN 2
       ELSE IF frame[c] + 1 = frameCount THEN 1 ELSE 0

\* Repetitions are paid for: a connection that is about to load the picture
\* it already has must have one left.
RepeatsInv ==
  FirstRound => \A c \in Conns :
    /\ repeats[c] <= 2
    /\ got[c]["ptr"] <= data["ptr"]
    /\ pc[c] = "mark" => frame[c] < frameCount
    /\ got[c]["ptr"] = data["ptr"] =>
         IF "ptr" \in unloaded[c] THEN repeats[c] < Spare(c)
                                 ELSE repeats[c] <= Spare(c)

LEMMA WordsTwo == Words = {"ptr", "len"} /\ "ptr" \in Words /\ "len" \in Words
  BY DEF Words

LEMMA InitIInv == Init => IInv
  BY FramesAssumption, CountAssumption
  DEF Init, IInv, TypeOK, PublisherInv, CounterInv, ViewerInv, Header, Words,
      Nil, FirstRound, Quiet

\* Every step of the program preserves the invariant.
LEMMA NextIInv == IInv /\ [Next]_vars => IInv'
<1> SUFFICES ASSUME IInv, [Next]_vars PROVE IInv'
  OBVIOUS
<1> USE FramesAssumption, CountAssumption, WordsTwo
<1> USE DEF IInv, TypeOK, PublisherInv, CounterInv, ViewerInv, Header, Nil,
            FirstRound, Quiet
<1>1. CASE Capture
  BY <1>1 DEF Capture, connVars
<1>2. CASE Receive
  BY <1>2 DEF Receive, connVars
<1>3. CASE Transcode
  <2>1. TypeOK'
    BY <1>3 DEF Transcode, connVars
  <2>2. PublisherInv'
    <3>1. \A w \in Words : data[w] < buf
      BY <1>3 DEF Transcode, Words
    <3>2. CASE enc' = "store" /\ unstored' = Words
      BY <3>1, <3>2, <1>3 DEF Transcode, connVars
    <3>3. CASE enc' = "recv" /\ UNCHANGED unstored
      BY <3>3, <1>3 DEF Transcode, connVars
    <3> QED BY <3>2, <3>3, <1>3 DEF Transcode
  <2>3. CounterInv'
    BY <1>3 DEF Transcode, connVars
  <2>4. ViewerInv'
    BY <1>3 DEF Transcode, connVars
  <2> QED BY <2>1, <2>2, <2>3, <2>4
<1>4. ASSUME NEW w \in Words, StoreWord(w) PROVE IInv'
  <2>1. TypeOK'
    BY <1>4 DEF StoreWord, Bytes, connVars
  <2>2. PublisherInv'
    BY <1>4 DEF StoreWord, Bytes, connVars
  <2>3. CounterInv'
    BY <1>4 DEF StoreWord, Bytes, connVars
  <2>4. ViewerInv'
    BY <1>4 DEF StoreWord, Bytes, connVars
  <2> QED BY <2>1, <2>2, <2>3, <2>4
<1>5. CASE Bump
  BY <1>5 DEF Bump, connVars
<1>6. CASE Wrap
  BY <1>6 DEF Wrap, Wrapped, connVars
<1>7. ASSUME NEW c \in Conns, Join(c) PROVE IInv'
  BY <1>7 DEF Join, Go, encVars
<1>8. ASSUME NEW c \in Conns, Request(c) PROVE IInv'
  <2>1. TypeOK' /\ PublisherInv' /\ CounterInv'
    BY <1>8 DEF Request, Go, encVars
  <2>2. pc'[c] = "mark" => frameCount # 0 \/ frame[c] # 0
    BY <1>8 DEF Request, Go
  <2>3. ViewerInv'
    BY <1>8, <2>2 DEF Request, Go, encVars
  <2> QED BY <2>1, <2>3
<1>9. ASSUME NEW c \in Conns, Mark(c) PROVE IInv'
  BY <1>9 DEF Mark, Noted, Go, encVars
<1>10. ASSUME NEW c \in Conns, NEW w \in Words, LoadWord(c, w) PROVE IInv'
  <2>1. TypeOK'
    BY <1>10 DEF LoadWord, Go, encVars
  <2>2. PublisherInv' /\ CounterInv'
    BY <1>10 DEF LoadWord, encVars
  <2>3. ViewerInv'
    BY <1>10 DEF LoadWord, Go, encVars
  <2> QED BY <2>1, <2>2, <2>3
<1>11. ASSUME NEW c \in Conns, Leave(c) PROVE IInv'
  BY <1>11 DEF Leave, Go, encVars
<1>12. CASE UNCHANGED vars
  BY <1>12 DEF vars
<1> QED
  BY <1>1, <1>2, <1>3, <1>4, <1>5, <1>6, <1>7, <1>8, <1>9, <1>10, <1>11, <1>12
  DEF Next, Encoder, Serving

\* The type invariant holds of every reachable state.
THEOREM TypeCorrect == Spec => []TypeOK
<1>1. IInv => TypeOK
  BY DEF IInv
<1> QED BY InitIInv, NextIInv, <1>1, PTL DEF Spec

\* No interleaving of publisher and connections loses a picture: whoever is
\* about to be told "nothing new" holds the published picture, whole.
THEOREM NothingLost == Spec => []CaughtUp
<1>1. IInv => CaughtUp
  <2> SUFFICES ASSUME IInv, FirstRound, Quiet, NEW c \in Conns,
                      pc[c] = "read", frame[c] = frameCount
               PROVE  got[c] = data
    BY DEF CaughtUp
  <2>1. \A w \in Words : got[c][w] = data[w]
    BY DEF IInv, ViewerInv
  <2>2. data \in Header /\ got[c] \in Header
    BY DEF IInv, TypeOK
  <2> QED BY <2>1, <2>2 DEF Header
<1> QED BY InitIInv, NextIInv, <1>1, PTL DEF Spec

-----------------------------------------------------------------------------
(* The server implements LatestFrame.                                      *)

LEMMA InitImplements == Init => Abstract!Init
  BY WordsTwo DEF Init, Abstract!Init, Nil

\* Storing the word ptr publishes, loading it serves, leaving forgets; all
\* other steps leave the abstract state alone.
LEMMA StepImplements == IInv /\ [Next]_vars => [Abstract!Next]_(Abstract!vars)
<1> SUFFICES ASSUME IInv, [Next]_vars PROVE [Abstract!Next]_(Abstract!vars)
  OBVIOUS
<1> DEFINE seen == [c \in Conns |-> got[c]["ptr"]]
<1>t. TypeOK /\ PublisherInv /\ ViewerInv
  BY DEF IInv
<1>1. ASSUME NEW w \in Words, StoreWord(w)
      PROVE  Abstract!Publish \/ UNCHANGED Abstract!vars
  <2>1. data[w] < buf /\ UNCHANGED got
    BY <1>1, <1>t DEF StoreWord, PublisherInv, connVars
  <2>2. data' = [data EXCEPT ![w] = buf] /\ data \in Header /\ buf \in Nat
    BY <1>1, <1>t DEF StoreWord, Bytes, TypeOK
  <2>3. CASE w = "ptr"
    <3>1. data'["ptr"] = buf
      BY <2>2, <2>3, WordsTwo DEF Header
    <3> QED BY <2>1, <2>2, <2>3, <3>1 DEF Abstract!Publish
  <2>4. CASE w # "ptr"
    <3>1. data'["ptr"] = data["ptr"]
      BY <2>2, <2>4, WordsTwo DEF Header
    <3> QED BY <2>1, <3>1 DEF Abstract!vars
  <2> QED BY <2>3, <2>4
<1>2. ASSUME NEW c \in Conns, NEW w \in Words, LoadWord(c, w)
      PROVE  Abstract!Serve(c) \/ UNCHANGED Abstract!vars
  <2>1. UNCHANGED data /\ data["ptr"] # 0
    BY <1>2, <1>t DEF LoadWord, encVars, ViewerInv
  <2>2. got' = [got EXCEPT ![c] = [@ EXCEPT ![w] = data[w]]]
        /\ got \in [Conns -> Header]
    BY <1>2, <1>t DEF LoadWord, TypeOK
  <2>3. CASE w = "ptr"
    <3>1. seen' = [seen EXCEPT ![c] = data["ptr"]]
      BY <2>2, <2>3, WordsTwo DEF Header
    <3> QED BY <2>1, <3>1 DEF Abstract!Serve
  <2>4. CASE w # "ptr"
    <3>1. seen' = seen
      BY <2>2, <2>4, WordsTwo DEF Header
    <3> QED BY <2>1, <3>1 DEF Abstract!vars
  <2> QED BY <2>3, <2>4
<1>3. ASSUME NEW c \in Conns, Leave(c) PROVE Abstract!Forget(c)
  <2>1. UNCHANGED data /\ got' = [got EXCEPT ![c] = Nil]
        /\ got \in [Conns -> Header]
    BY <1>3, <1>t DEF Leave, encVars, TypeOK
  <2>2. seen' = [seen EXCEPT ![c] = 0]
    BY <2>1, WordsTwo DEF Nil
  <2> QED BY <2>1, <2>2 DEF Abstract!Forget
<1>4. ASSUME UNCHANGED <<data, got>> PROVE UNCHANGED Abstract!vars
  BY <1>4 DEF Abstract!vars
<1>5. CASE Capture \/ Receive \/ Transcode \/ Bump \/ Wrap
  BY <1>5, <1>4 DEF Capture, Receive, Transcode, Bump, Wrap, connVars
<1>6. ASSUME NEW c \in Conns,
             Join(c) \/ Request(c) \/ Mark(c)
      PROVE  UNCHANGED Abstract!vars
  BY <1>6, <1>4 DEF Join, Request, Mark, encVars
<1>7. CASE UNCHANGED vars
  BY <1>7, <1>4 DEF vars
<1> QED
  BY <1>1, <1>2, <1>3, <1>5, <1>6, <1>7
  DEF Next, Encoder, Serving, Abstract!Next

\* What one connection is handed is the latest picture at that moment and
\* never goes back in time.
THEOREM Implements == Spec => ImplementsLatestFrame
  BY InitIInv, NextIInv, InitImplements, StepImplements, PTL
  DEF Spec, ImplementsLatestFrame, Abstract!Spec

\* What LatestFrame promises is that a connection is handed a picture as new
\* as its last one, or starts again from nothing.
Ptr(c)  == got[c]["ptr"]
Newest  == /\ data["ptr"] \in Nat
           /\ \A c \in Conns : Ptr(c) \in Nat /\ Ptr(c) <= data["ptr"]
Forward == \A c \in Conns : Ptr(c)' >= Ptr(c) \/ Ptr(c)' = 0

\* So no connection of the server ever goes back in time.
THEOREM NeverBack == Spec => [][Forward]_vars
<1> USE DEF Ptr, Newest, Forward
<1>1. Abstract!Init => Newest
  <2> SUFFICES ASSUME Abstract!Init PROVE Newest
    OBVIOUS
  <2>1. \A c \in Conns : [d \in Conns |-> Ptr(d)][c] = 0
    BY DEF Abstract!Init
  <2> QED BY <2>1 DEF Abstract!Init
<1>2. Newest /\ [Abstract!Next]_(Abstract!vars) => Newest' /\ Forward
  <2> SUFFICES ASSUME Newest, [Abstract!Next]_(Abstract!vars)
               PROVE  Newest' /\ Forward
    OBVIOUS
  <2>1. CASE Abstract!Publish \/ UNCHANGED Abstract!vars
    <3>1. \A c \in Conns : [d \in Conns |-> Ptr(d)'][c] = [d \in Conns |-> Ptr(d)][c]
      BY <2>1 DEF Abstract!Publish, Abstract!vars
    <3>2. \A c \in Conns : Ptr(c)' = Ptr(c)
      BY <3>1
    <3>3. data["ptr"]' \in Nat /\ data["ptr"]' >= data["ptr"]
      BY <2>1 DEF Abstract!Publish, Abstract!vars
    <3> QED BY <3>2, <3>3
  <2>2. ASSUME NEW c \in Conns, Abstract!Serve(c) \/ Abstract!Forget(c)
        PROVE  Newest' /\ Forward
    <3>1. PICK n \in {0, data["ptr"]} :
            /\ [d \in Conns |-> Ptr(d)'] = [[d \in Conns |-> Ptr(d)] EXCEPT ![c] = n]
            /\ data["ptr"]' = data["ptr"]
      BY <2>2 DEF Abstract!Serve, Abstract!Forget
    <3>2. \A d \in Conns : [e \in Conns |-> Ptr(e)'][d] =
                           [[e \in Conns |-> Ptr(e)] EXCEPT ![c] = n][d]
      BY <3>1
    <3>3. \A d \in Conns : Ptr(d)' = IF d = c THEN n ELSE Ptr(d)
      BY <3>2
    <3> QED BY <3>1, <3>3
  <2> QED BY <2>1, <2>2 DEF Abstract!Next
<1> HIDE DEF Ptr, Newest, Forward
<1> QED
  BY InitIInv, NextIInv, InitImplements, StepImplements, <1>1, <1>2, PTL
  DEF Spec

-----------------------------------------------------------------------------
(* The same picture at most three times in a row.                          *)

LEMMA InitRepeats == Init => RepeatsInv
<1> SUFFICES ASSUME Init, NEW c \in Conns
             PROVE  /\ repeats[c] <= 2
                    /\ got[c]["ptr"] <= data["ptr"]
                    /\ pc[c] # "mark"
                    /\ "ptr" \notin unloaded[c] /\ repeats[c] <= Spare(c)
  BY DEF RepeatsInv
<1>1. Spare(c) = 2
  BY DEF Init, Spare, Ahead
<1> QED BY <1>1, WordsTwo DEF Init, Nil

LEMMA NextRepeats == IInv /\ RepeatsInv /\ [Next]_vars => RepeatsInv'
<1> SUFFICES ASSUME IInv, RepeatsInv, [Next]_vars, FirstRound',
                    NEW c \in Conns
             PROVE  /\ repeats'[c] <= 2
                    /\ got'[c]["ptr"] <= data'["ptr"]
                    /\ pc'[c] = "mark" => frame'[c] < frameCount'
                    /\ got'[c]["ptr"] = data'["ptr"] =>
                         IF "ptr" \in unloaded'[c] THEN repeats'[c] < Spare(c)'
                                                  ELSE repeats'[c] <= Spare(c)'
  BY DEF RepeatsInv
<1> DEFINE Goal ==
             /\ repeats'[c] <= 2
             /\ got'[c]["ptr"] <= data'["ptr"]
             /\ pc'[c] = "mark" => frame'[c] < frameCount'
             /\ got'[c]["ptr"] = data'["ptr"] =>
                  IF "ptr" \in unloaded'[c] THEN repeats'[c] < Spare(c)'
                                           ELSE repeats'[c] <= Spare(c)'
<1>a. FirstRound => frame[c] <= frameCount
  BY DEF IInv, ViewerInv
<1>b. frame[c] \in Nat /\ frameCount \in Nat
  BY CountAssumption DEF IInv, TypeOK
<1> USE WordsTwo, CountAssumption, FramesAssumption
    DEF IInv, TypeOK, FirstRound, RepeatsInv, Spare, Ahead, Header, Nil,
        PublisherInv, CounterInv, ViewerInv
<1>1. CASE Capture
  BY <1>1 DEF Capture, connVars
<1>2. CASE Receive
  BY <1>2 DEF Receive, connVars
<1>3. CASE Transcode
  BY <1>3 DEF Transcode, connVars
<1>4. ASSUME NEW w \in Words, StoreWord(w) PROVE Goal
  BY <1>4 DEF StoreWord, Bytes, connVars
<1>5. CASE Bump
  BY <1>5 DEF Bump, connVars
<1>6. CASE Wrap
  BY <1>6 DEF Wrap, Wrapped, connVars
<1>7. ASSUME NEW d \in Conns, Join(d) PROVE Goal
  BY <1>7 DEF Join, Go, encVars
<1>8. ASSUME NEW d \in Conns, Request(d) PROVE Goal
  <2>1. UNCHANGED <<data, frameCount, frame, got, repeats, unloaded, enc,
                    unstored>>
    BY <1>8 DEF Request, encVars
  <2>2. ASSUME d = c, pc'[c] = "mark" PROVE frame[c] < frameCount
    <3> HIDE DEF IInv, RepeatsInv
    <3>1. FirstRound
      BY <1>8 DEF Request, encVars
    <3>2. frame[c] # frameCount
      BY <1>8, <2>2 DEF Request, Go, IInv, TypeOK
    <3> QED BY <3>1, <3>2, <1>a, <1>b
  <2>3. pc'[c] = "mark" => frame[c] < frameCount
    BY <1>8, <2>2 DEF Request, Go, encVars
  <2> QED BY <2>1, <2>3, <1>8 DEF Request, encVars
<1>9. ASSUME NEW d \in Conns, Mark(d) PROVE Goal
  BY <1>9 DEF Mark, Noted, Go, encVars
<1>10. ASSUME NEW d \in Conns, NEW w \in Words, LoadWord(d, w) PROVE Goal
  <2>1. CASE d # c
    BY <1>10, <2>1 DEF LoadWord, Go, encVars
  <2>2. CASE d = c /\ w # "ptr"
    BY <1>10, <2>2 DEF LoadWord, Go, encVars
  <2>3. CASE d = c /\ w = "ptr"
    <3>1. /\ got'[c]["ptr"] = data["ptr"] /\ "ptr" \notin unloaded'[c]
          /\ pc'[c] # "mark" /\ UNCHANGED data
      BY <1>10, <2>3 DEF LoadWord, Go, encVars
    <3>2. Spare(c)' = Spare(c) /\ Spare(c) \in 0 .. 2
      BY <1>10, <2>3 DEF LoadWord, Go, encVars
    <3>3. repeats'[c] <= Spare(c)
      BY <1>10, <2>3, <3>2 DEF LoadWord, Go, encVars
    <3> QED BY <3>1, <3>2, <3>3, <1>10, <2>3 DEF LoadWord, Go, encVars
  <2> QED BY <2>1, <2>2, <2>3
<1>11. ASSUME NEW d \in Conns, Leave(d) PROVE Goal
  BY <1>11 DEF Leave, Go, encVars
<1>12. CASE UNCHANGED vars
  BY <1>12 DEF vars
<1> QED
  BY <1>1, <1>2, <1>3, <1>4, <1>5, <1>6, <1>7, <1>8, <1>9, <1>10, <1>11, <1>12
  DEF Next, Encoder, Serving

\* No picture is sent to one connection more than three times in a row.
THEOREM RepeatsBounded == Spec => []FewRepeats
<1>1. RepeatsInv => FewRepeats
  BY DEF RepeatsInv, FewRepeats
<1> QED BY InitIInv, NextIInv, InitRepeats, NextRepeats, <1>1, PTL DEF Spec
============================================================================
