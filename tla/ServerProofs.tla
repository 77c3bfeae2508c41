---------------------------- MODULE ServerProofs ----------------------------
(***************************************************************************)
(* Proofs about Admission and about Server, which is built upon it, for    *)
(* any finite set of connections, any peer limit, any numbers of pictures, *)
(* faults and adjustments and any camera.                                  *)
(*                                                                         *)
(* Admission: the counters are inductive together with the places they     *)
(* count, the limit follows from the counters, and what an answer proved   *)
(* has to be carried from the comparison of the hashes to the loop         *)
(* (MembersInv).                                                           *)
(*                                                                         *)
(* Server: each component is implemented by it, step by step, so that what *)
(* is proved about a component holds in the server.  What the components   *)
(* take from one another needs an invariant that spans them (ServerInv).   *)
(***************************************************************************)
EXTENDS Server, FiniteSetTheorems, TLAPS

\* Between the comparison and the end of the connection the proof stands.
MembersInv ==
  \A c \in In({"free", "join"} \cup Joined) : proved[c]

IInv == TypeOK /\ CountsRight /\ MembersInv

-----------------------------------------------------------------------------
(* What a move of one connection does to the set of those in some places.  *)

LEMMA InFinite == ASSUME NEW S PROVE IsFiniteSet(In(S))
  BY ConnsAssumption, FS_Subset DEF In

LEMMA GoIn ==
  ASSUME NEW S, NEW c \in Conns, NEW from, NEW to,
         pc \in [Conns -> Positions],
         Goes(c, from, to), to \in S, from \notin S
  PROVE  /\ In(S)' = In(S) \cup {c}
         /\ c \notin In(S)
         /\ Cardinality(In(S)') = Cardinality(In(S)) + 1
<1>1. In(S)' = In(S) \cup {c} /\ c \notin In(S)
  BY DEF In, Goes
<1> QED BY <1>1, InFinite, FS_AddElement

LEMMA GoOut ==
  ASSUME NEW S, NEW c \in Conns, NEW from, NEW to,
         pc \in [Conns -> Positions],
         Goes(c, from, to), to \notin S, from \in S
  PROVE  /\ In(S)' = In(S) \ {c}
         /\ c \in In(S)
         /\ Cardinality(In(S)') = Cardinality(In(S)) - 1
<1>1. In(S)' = In(S) \ {c} /\ c \in In(S)
  BY DEF In, Goes
<1> QED BY <1>1, InFinite, FS_RemoveElement

LEMMA GoWithin ==
  ASSUME NEW S, NEW c \in Conns, NEW from, NEW to,
         pc \in [Conns -> Positions],
         Goes(c, from, to), to \in S <=> from \in S
  PROVE  In(S)' = In(S)
  BY DEF In, Goes

LEMMA CountNat == ASSUME NEW S PROVE Cardinality(In(S)) \in Nat
  BY InFinite, FS_CardinalityType

LEMMA CountPositive ==
  ASSUME NEW S, NEW c \in In(S) PROVE Cardinality(In(S)) > 0
  BY InFinite, CountNat, FS_EmptySet

-----------------------------------------------------------------------------
(* The inductive invariant.                                                *)

LEMMA InitIInv == Init => IInv
<1> SUFFICES ASSUME Init PROVE IInv
  OBVIOUS
<1>1. In(Admitted) = {} /\ In(Joined) = {} /\ In(Handshaking) = {}
  BY DEF Init, In, Admitted, Joined, Handshaking
<1>2. CountsRight
  BY <1>1, FS_EmptySet DEF Init, CountsRight
<1>3. TypeOK /\ MembersInv
  BY MaxPeersAssumption
  DEF Init, TypeOK, MembersInv, In, Joined, Positions
<1> QED BY <1>2, <1>3 DEF IInv

\* How a move from one to to another changes the number of those in S.
Change(S, from, to) ==
  IF to \in S /\ from \notin S THEN 1
  ELSE IF to \notin S /\ from \in S THEN -1 ELSE 0

LEMMA GoCount ==
  ASSUME NEW S, NEW c \in Conns, NEW from, NEW to,
         pc \in [Conns -> Positions],
         Goes(c, from, to)
  PROVE  /\ Cardinality(In(S)') = Cardinality(In(S)) + Change(S, from, to)
         /\ Cardinality(In(S)') \in Nat
<1>1. CASE to \in S /\ from \notin S
  BY <1>1, GoIn, CountNat DEF Change
<1>2. CASE to \notin S /\ from \in S
  <2>1. Cardinality(In(S)) > 0
    BY <1>2, GoOut, CountPositive
  <2> QED BY <1>2, <2>1, GoOut, CountNat DEF Change
<1>3. CASE to \in S <=> from \in S
  BY <1>3, GoWithin, CountNat DEF Change
<1> QED BY <1>1, <1>2, <1>3

\* A step that moves c and adjusts the counters accordingly keeps them right.
LEMMA GoCountsRight ==
  ASSUME NEW c \in Conns, NEW from, NEW to \in Positions,
         pc \in [Conns -> Positions], CountsRight, Goes(c, from, to),
         peers' = peers + Change(Admitted, from, to),
         clients' = clients + Change(Joined, from, to),
         slot' = slot + Change(Handshaking, from, to)
  PROVE  /\ CountsRight'
         /\ peers' \in Nat /\ clients' \in Nat /\ slot' \in Nat
         /\ pc' \in [Conns -> Positions]
<1>1. pc' \in [Conns -> Positions]
  BY DEF Goes
<1>2. /\ Cardinality(In(Admitted)') = peers'
      /\ Cardinality(In(Admitted)') \in Nat
  BY GoCount DEF CountsRight
<1>3. /\ Cardinality(In(Joined)') = clients'
      /\ Cardinality(In(Joined)') \in Nat
  BY GoCount DEF CountsRight
<1>4. /\ Cardinality(In(Handshaking)') = slot'
      /\ Cardinality(In(Handshaking)') \in Nat
  BY GoCount DEF CountsRight
<1> QED BY <1>1, <1>2, <1>3, <1>4 DEF CountsRight

LEMMA NextIInv == IInv /\ [Next]_vars => IInv'
<1> SUFFICES ASSUME IInv, [Next]_vars PROVE IInv'
  OBVIOUS
<1>t. TypeOK /\ CountsRight /\ MembersInv
  BY DEF IInv
<1>p. pc \in [Conns -> Positions]
  BY <1>t DEF TypeOK
<1> USE <1>t, <1>p
    DEF TypeOK, shared, Change, Positions, Admitted, Joined, Handshaking
<1>1. CASE AcceptFails
  BY <1>1 DEF AcceptFails, CountsRight, MembersInv, In, IInv
<1>2. ASSUME NEW c \in Conns, Accept(c) PROVE IInv'
  <2>1. CountsRight' /\ TypeOK'
    BY <1>2, GoCountsRight DEF Accept
  <2>2. MembersInv'
    BY <1>2 DEF Accept, Goes, MembersInv, In
  <2> QED BY <2>1, <2>2 DEF IInv
<1>3. ASSUME NEW c \in Conns, Enter(c) PROVE IInv'
  <2>1. CountsRight' /\ TypeOK'
    BY <1>3, GoCountsRight DEF Enter, Full, SetDeadline
  <2>2. MembersInv'
    BY <1>3 DEF Enter, Goes, Full, SetDeadline, MembersInv, In
  <2> QED BY <2>1, <2>2 DEF IInv
<1>4. ASSUME NEW c \in Conns, TakeSlot(c) PROVE IInv'
  <2>1. CountsRight' /\ TypeOK'
    BY <1>4, GoCountsRight DEF TakeSlot, SlotFree
  <2>2. MembersInv'
    BY <1>4 DEF TakeSlot, Goes, SlotFree, MembersInv, In
  <2> QED BY <2>1, <2>2 DEF IInv
<1>5. ASSUME NEW c \in Conns, Verify(c) PROVE IInv'
  <2>1. CountsRight' /\ TypeOK'
    BY <1>5, GoCountsRight DEF Verify, HashesEqual
  <2>2. MembersInv'
    BY <1>5 DEF Verify, Goes, HashesEqual, MembersInv, In
  <2> QED BY <2>1, <2>2 DEF IInv
<1>6. ASSUME NEW c \in Conns, Fail(c) PROVE IInv'
  <2>1. CountsRight' /\ TypeOK'
    BY <1>6, GoCountsRight DEF Fail
  <2>2. MembersInv'
    BY <1>6 DEF Fail, Goes, MembersInv, In
  <2> QED BY <2>1, <2>2 DEF IInv
<1>7. ASSUME NEW c \in Conns, Free(c) PROVE IInv'
  <2>1. CountsRight' /\ TypeOK'
    BY <1>7, GoCountsRight DEF Free
  <2>2. MembersInv'
    BY <1>7 DEF Free, Goes, MembersInv, In
  <2> QED BY <2>1, <2>2 DEF IInv
<1>8. ASSUME NEW c \in Conns, Join(c) PROVE IInv'
  <2>1. CountsRight' /\ TypeOK'
    BY <1>8, GoCountsRight DEF Join, SetDeadline
  <2>2. MembersInv'
    BY <1>8 DEF Join, Goes, SetDeadline, MembersInv, In
  <2> QED BY <2>1, <2>2 DEF IInv
<1>9. ASSUME NEW c \in Conns, Request(c) PROVE IInv'
  <2>1. CountsRight' /\ TypeOK'
    BY <1>9, GoCountsRight DEF Request
  <2>2. MembersInv'
    BY <1>9 DEF Request, Goes, MembersInv, In
  <2> QED BY <2>1, <2>2 DEF IInv
<1>10. ASSUME NEW c \in Conns, Wrote(c) \/ Round(c) PROVE IInv'
  <2>1. CountsRight' /\ TypeOK'
    BY <1>10, GoCountsRight DEF Wrote, Round, SetDeadline
  <2>2. MembersInv'
    BY <1>10 DEF Wrote, Round, Goes, SetDeadline, MembersInv, In
  <2> QED BY <2>1, <2>2 DEF IInv
<1>11. ASSUME NEW c \in Conns, Broken(c) PROVE IInv'
  <2>1. CountsRight' /\ TypeOK'
    BY <1>11, GoCountsRight DEF Broken
  <2>2. MembersInv'
    BY <1>11 DEF Broken, Goes, MembersInv, In
  <2> QED BY <2>1, <2>2 DEF IInv
<1>12. ASSUME NEW c \in Conns, Leave(c) PROVE IInv'
  <2>1. CountsRight' /\ TypeOK'
    BY <1>12, GoCountsRight DEF Leave
  <2>2. MembersInv'
    BY <1>12 DEF Leave, Goes, MembersInv, In
  <2> QED BY <2>1, <2>2 DEF IInv
<1>13. ASSUME NEW c \in Conns, Unpeer(c) PROVE IInv'
  <2>1. CountsRight' /\ TypeOK'
    BY <1>13, GoCountsRight DEF Unpeer
  <2>2. MembersInv'
    BY <1>13 DEF Unpeer, Goes, MembersInv, In
  <2> QED BY <2>1, <2>2 DEF IInv
<1>14. ASSUME NEW c \in Conns, NEW right \in BOOLEAN, Answer(c, right)
      PROVE  IInv'
  <2>1. CountsRight' /\ TypeOK'
    BY <1>14, GoCountsRight DEF Answer
  <2>2. MembersInv'
    BY <1>14 DEF Answer, Goes, MembersInv, In
  <2> QED BY <2>1, <2>2 DEF IInv
<1>15. ASSUME NEW c \in Conns, Expire(c) PROVE IInv'
  BY <1>15 DEF Expire, CountsRight, MembersInv, In, IInv
<1>16. CASE UNCHANGED vars
  BY <1>16 DEF vars, CountsRight, MembersInv, In, IInv
<1> QED
  BY <1>1, <1>2, <1>3, <1>4, <1>5, <1>6, <1>7, <1>8, <1>9, <1>10, <1>11,
     <1>12, <1>13, <1>14, <1>15, <1>16 DEF Next, Step

\* The type invariant holds of every reachable state.
THEOREM TypeCorrect == Spec => []TypeOK
<1>1. IInv => TypeOK
  BY DEF IInv
<1> QED BY InitIInv, NextIInv, <1>1, PTL DEF Spec

\* peers, clients and slot are exactly the connections they stand for.
THEOREM CountersRight == Spec => []CountsRight
<1>1. IInv => CountsRight
  BY DEF IInv
<1> QED BY InitIInv, NextIInv, <1>1, PTL DEF Spec

\* In the loop of conn a connection is one of at least one clients.
LEMMA LoopHasClients ==
  ASSUME IInv, NEW c \in Conns, pc[c] \in {"read", "reply", "round"}
  PROVE  proved[c] /\ clients > 0
<1>1. c \in In(Joined) /\ c \in In({"free", "join"} \cup Joined)
  BY DEF In, Joined
<1> QED BY <1>1, CountPositive DEF IInv, MembersInv, CountsRight

LEMMA MembersFollow == IInv => OnlyMembers
  BY LoopHasClients DEF IInv, MembersInv, OnlyMembers, In

\* No connection is streamed to that did not prove to know the password, and
\* addBytes never divides the throughput among no clients.
THEOREM MembersOnly == Spec => []OnlyMembers
  BY InitIInv, NextIInv, MembersFollow, PTL DEF Spec

-----------------------------------------------------------------------------
(* The peer counter and the channel implement Permits.                     *)

LEMMA InitPermits == Init => PeerPermits!Init /\ SlotPermits!Init
  BY DEF Init, In, Admitted, Joined, Handshaking, PeerPermits!Init,
         SlotPermits!Init

\* A step of the program takes c in, lets c out, or leaves the set alone.
LEMMA StepMoves ==
  ASSUME IInv, [Next]_vars
  PROVE  \/ UNCHANGED pc
         \/ \E c \in Conns, from, to \in Positions :
              /\ Goes(c, from, to)
              /\ to \in Admitted /\ from \notin Admitted =>
                   peers < MaxPeers
              /\ to \in Handshaking /\ from \notin Handshaking =>
                   slot = 0
<1> USE DEF Positions, Admitted, Joined, Handshaking
<1>1. CASE AcceptFails \/ UNCHANGED vars
  BY <1>1 DEF AcceptFails, vars
<1>2. ASSUME NEW c \in Conns, Enter(c)
      PROVE  \E from, to \in Positions :
               /\ Goes(c, from, to)
               /\ to \in Admitted => peers < MaxPeers
               /\ to \notin Handshaking
  <2>1. peers \in Nat
    BY DEF IInv, TypeOK
  <2> QED BY <1>2, <2>1, MaxPeersAssumption DEF Enter, Full
<1>3. ASSUME NEW c \in Conns, Step(c), ~Enter(c)
      PROVE  \E from, to \in Positions :
               /\ Goes(c, from, to)
               /\ to \in Admitted => from \in Admitted
               /\ to \in Handshaking => from \in Handshaking
  BY <1>3 DEF Step, Verify, Fail, Free, Join, Round, Leave, Unpeer
<1>4. ASSUME NEW c \in Conns,
             \/ Accept(c) \/ TakeSlot(c) \/ Request(c) \/ Wrote(c)
             \/ Broken(c) \/ \E right \in BOOLEAN : Answer(c, right)
      PROVE  \E from, to \in Positions :
               /\ Goes(c, from, to)
               /\ to \in Admitted => from \in Admitted
               /\ to \in Handshaking /\ from \notin Handshaking =>
                    slot = 0
  BY <1>4 DEF Accept, TakeSlot, SlotFree, Request, Wrote, Broken, Answer
<1>5. ASSUME NEW c \in Conns, Expire(c) PROVE UNCHANGED pc
  BY <1>5 DEF Expire
<1> QED BY <1>1, <1>2, <1>3, <1>4, <1>5 DEF Next

LEMMA StepPeers == IInv /\ [Next]_vars => [PeerPermits!Next]_(In(Admitted))
<1> SUFFICES ASSUME IInv, [Next]_vars
             PROVE  [PeerPermits!Next]_(In(Admitted))
  OBVIOUS
<1>p. pc \in [Conns -> Positions] /\ peers \in Nat
      /\ peers = Cardinality(In(Admitted))
  BY DEF IInv, TypeOK, CountsRight
<1>1. CASE UNCHANGED pc
  BY <1>1 DEF In
<1>2. ASSUME NEW c \in Conns, NEW from \in Positions, NEW to \in Positions,
             Goes(c, from, to),
             to \in Admitted /\ from \notin Admitted => peers < MaxPeers
      PROVE  PeerPermits!Next \/ UNCHANGED In(Admitted)
  <2>1. CASE to \in Admitted /\ from \notin Admitted
    <3>1. PeerPermits!Take(c)
      <4>1. PeerPermits!Cardinality(In(Admitted)) = Cardinality(In(Admitted))
        BY Zenon DEF PeerPermits!Cardinality, Cardinality
      <4> QED
        BY <1>2, <1>p, <2>1, <4>1, GoIn, MaxPeersAssumption
        DEF PeerPermits!Take
    <3> QED BY <3>1 DEF PeerPermits!Next
  <2>2. CASE to \notin Admitted /\ from \in Admitted
    <3>1. PeerPermits!GiveBack(c)
      BY <1>2, <1>p, <2>2, GoOut DEF PeerPermits!GiveBack
    <3> QED BY <3>1 DEF PeerPermits!Next
  <2>3. CASE to \in Admitted <=> from \in Admitted
    BY <1>2, <1>p, <2>3, GoWithin
  <2> QED BY <2>1, <2>2, <2>3
<1> QED BY <1>1, <1>2, StepMoves

\* At most MaxPeers connections are past addPeer(1) and not past addPeer(-1).
THEOREM PeersWithinLimit == Spec => PeersLimited
  BY InitIInv, NextIInv, InitPermits, StepPeers, PTL
  DEF Spec, PeersLimited, PeerPermits!Spec

LEMMA StepSlot == IInv /\ [Next]_vars => [SlotPermits!Next]_(In(Handshaking))
<1> SUFFICES ASSUME IInv, [Next]_vars
             PROVE  [SlotPermits!Next]_(In(Handshaking))
  OBVIOUS
<1>p. pc \in [Conns -> Positions] /\ slot = Cardinality(In(Handshaking))
  BY DEF IInv, TypeOK, CountsRight
<1>1. CASE UNCHANGED pc
  BY <1>1 DEF In
<1>2. ASSUME NEW c \in Conns, NEW from \in Positions, NEW to \in Positions,
             Goes(c, from, to),
             to \in Handshaking /\ from \notin Handshaking => slot = 0
      PROVE  SlotPermits!Next \/ UNCHANGED In(Handshaking)
  <2>1. CASE to \in Handshaking /\ from \notin Handshaking
    <3>1. SlotPermits!Take(c)
      <4>1. SlotPermits!Cardinality(In(Handshaking))
              = Cardinality(In(Handshaking))
        BY Zenon DEF SlotPermits!Cardinality, Cardinality
      <4>2. Cardinality(In(Handshaking)) < 1
        BY <1>2, <1>p, <2>1
      <4> QED
        BY <1>2, <1>p, <2>1, <4>1, <4>2, GoIn DEF SlotPermits!Take
    <3> QED BY <3>1 DEF SlotPermits!Next
  <2>2. CASE to \notin Handshaking /\ from \in Handshaking
    <3>1. SlotPermits!GiveBack(c)
      BY <1>2, <1>p, <2>2, GoOut DEF SlotPermits!GiveBack
    <3> QED BY <3>1 DEF SlotPermits!Next
  <2>3. CASE to \in Handshaking <=> from \in Handshaking
    BY <1>2, <1>p, <2>3, GoWithin
  <2> QED BY <2>1, <2>2, <2>3
<1> QED BY <1>1, <1>2, StepMoves

\* One handshake at a time: the channel is a lock.
THEOREM HandshakesSerial == Spec => OneHandshake
  BY InitIInv, NextIInv, InitPermits, StepSlot, PTL
  DEF Spec, OneHandshake, SlotPermits!Spec

-----------------------------------------------------------------------------
(* The server as a whole.                                                  *)

\* A connection is in the loop of FrameStream exactly while it is in that of
\* Admission, and calls addBytes at the end of an answer.
ConnInv ==
  /\ DOMAIN frame = Conns /\ DOMAIN got = Conns
  /\ loop \in [Conns -> {"gone", "read", "mark", "load"}]
  /\ bytes \in [Conns -> {"none", "due", "in", "adjust"}]
  /\ \A c \in Conns :
       /\ loop[c] # "gone" <=> pc[c] \in {"read", "reply", "round"}
       /\ loop[c] \in {"mark", "load"} => pc[c] = "reply"
       /\ loop[c] = "gone" => frame[c] = 0 /\ got[c] = Stream!Nil
       /\ bytes[c] # "none" => loop[c] = "read" /\ pc[c] \in {"reply", "round"}
       /\ bytes[c] \in {"in", "adjust"} => pc[c] = "round"

\* Before there is a picture nothing is announced, sent or accounted for.
FlowInv ==
  ~flowing =>
    /\ output = 0 /\ enc = "recv" /\ frameCount = 0
    /\ \A c \in Conns :
         frame[c] = 0 /\ loop[c] \in {"gone", "read"} /\ bytes[c] = "none"

\* Whoever is in addBytes has the mutex, and whoever has it is in addBytes;
\* an adjustment is under way while somebody there adjusts.
LockInv ==
  /\ \A c \in Conns : bytes[c] \in {"in", "adjust"} <=> sem = c
  /\ adj # "idle" <=> \E c \in Conns : bytes[c] = "adjust"

\* The camera gets nowhere before there are resolutions.
SizesInv ==
  /\ pix \in Formats \cup {Cam!Unset}
  /\ resolutions \in Int /\ activeRes \in Int
  /\ resolutions > 0 => activeRes \in 0 .. resolutions - 1
  /\ resolutions <= 0 =>
       /\ ~flowing
       /\ cam \notin {"height", "stream", "wait", "pace", "grab"}
       /\ cam = "top" => reinit

ServerInv == IInv /\ ConnInv /\ FlowInv /\ LockInv /\ SizesInv

LEMMA InitServerInv == ServerInit => ServerInv
<1> SUFFICES ASSUME ServerInit PROVE ServerInv
  OBVIOUS
<1> USE DEF ServerInit
<1>1. IInv
  BY InitIInv
<1>2. ConnInv /\ FlowInv
  BY DEF Init, Stream!Init, ConnInv, FlowInv
<1>3. LockInv /\ SizesInv
  BY NobodyAssumption DEF Cam!Init, LockInv, SizesInv
<1> QED BY <1>1, <1>2, <1>3 DEF ServerInv

\* Every step of the server is one of Admission, or leaves its part alone.
LEMMA StepAdmits == ServerNext => [Next]_vars
<1> SUFFICES ASSUME ServerNext PROVE [Next]_vars
  OBVIOUS
<1>1. ASSUME NEW c \in Conns, Visit(c) PROVE Next
  BY <1>1 DEF Visit, Next, Step
<1>2. ASSUME NEW c \in Conns, Begin(c) \/ Miss(c) PROVE Next
  BY <1>2 DEF Begin, Miss, Next, Step
<1>3. ASSUME NEW c \in Conns, Ask(c) \/ Flush(c) \/ Again(c) \/ End(c)
      PROVE  Next
  BY <1>3 DEF Ask, Flush, Again, End, Next, Step
<1>4. ASSUME NEW c \in Conns, Load(c) \/ Lock(c) \/ AddBytes(c)
      PROVE  UNCHANGED vars
  BY <1>4 DEF Load, Lock, AddBytes, Rest, Adjust, Clamp, Flag
<1>5. Film \/ Operate \/ Encode => UNCHANGED vars
  BY DEF Film, Operate, Encode
<1>6. Crash => Next
  BY DEF Crash, Next
<1> QED BY <1>1, <1>2, <1>3, <1>4, <1>5, <1>6 DEF ServerNext, Connection

\* So it is for FrameStream.
LEMMA StepStreams == ServerNext => [Stream!Next]_streamVars
<1> SUFFICES ASSUME ServerNext PROVE [Stream!Next]_streamVars
  OBVIOUS
<1>1. ASSUME NEW c \in Conns,
             \/ Visit(c) \/ Miss(c) \/ Flush(c) \/ Again(c) \/ Lock(c)
             \/ AddBytes(c)
      PROVE  UNCHANGED streamVars
  BY <1>1
  DEF Visit, Miss, Flush, Again, Lock, AddBytes, Rest, Adjust, Clamp, Flag
<1>2. ASSUME NEW c \in Conns, Begin(c) \/ Ask(c) \/ Load(c) \/ End(c)
      PROVE  Stream!Next
  BY <1>2 DEF Begin, Ask, Load, End, Stream!Next, Stream!Serving
<1>3. Film \/ Encode => Stream!Next
  BY DEF Film, Encode, Stream!Next
<1>4. Operate \/ Crash => UNCHANGED streamVars
  BY DEF Operate, Crash
<1> QED BY <1>1, <1>2, <1>3, <1>4 DEF ServerNext, Connection

\* And for Camera, which relies on the server to adjust only what flows, and
\* one at a time: the one that has the mutex is not adjusting yet, and nobody
\* else is.
LEMMA StepFilms == FlowInv /\ LockInv /\ ServerNext => [Cam!Next]_camVars
<1> SUFFICES ASSUME FlowInv, LockInv, ServerNext PROVE [Cam!Next]_camVars
  OBVIOUS
<1>1. ASSUME NEW c \in Conns,
             \/ Visit(c) \/ Begin(c) \/ Miss(c) \/ Ask(c) \/ Load(c)
             \/ Flush(c) \/ Again(c) \/ End(c) \/ Lock(c) \/ Rest(c)
      PROVE  UNCHANGED camVars
  BY <1>1 DEF Visit, Begin, Miss, Ask, Load, Flush, Again, End, Lock, Rest
<1>2. ASSUME NEW c \in Conns, Adjust(c) PROVE Cam!Next
  <2>1. flowing
    BY <1>2 DEF Adjust, FlowInv
  <2>2. adj = "idle"
    <3>1. bytes[c] = "in" /\ sem = c
      BY <1>2 DEF Adjust, LockInv
    <3>2. \A d \in Conns : bytes[d] # "adjust"
      BY <3>1 DEF LockInv
    <3> QED BY <3>2 DEF LockInv
  <2> QED BY <1>2, <2>1, <2>2 DEF Adjust, Cam!Next
<1>3. ASSUME NEW c \in Conns, Clamp(c) \/ Flag(c) PROVE Cam!Next
  BY <1>3 DEF Clamp, Flag, Cam!Next
<1>4. Film \/ Operate => Cam!Next
  BY DEF Film, Operate, Cam!Next, Cam!Capturing, Cam!Grab
<1>5. Encode \/ Crash => UNCHANGED camVars
  BY DEF Encode, Crash
<1> QED
  BY <1>1, <1>2, <1>3, <1>4, <1>5 DEF ServerNext, Connection, AddBytes

LEMMA LastIsIn ==
  ASSUME NEW r \in Int PROVE r - 1 \in Int /\ (r > 0 => r - 1 \in 0 .. r - 1)
  OBVIOUS

\* The camera's part: SizesInv is a matter of Camera alone.
LEMMA StepSizes == SizesInv /\ [Cam!Next]_camVars => SizesInv'
<1> SUFFICES ASSUME SizesInv, [Cam!Next]_camVars PROVE SizesInv'
  OBVIOUS
<1>0. ASSUME UNCHANGED <<pix, resolutions, activeRes>>,
             resolutions <= 0 =>
               /\ flowing' = flowing
               /\ cam' \notin {"height", "stream", "wait", "pace", "grab"}
               /\ cam' = "top" => reinit'
      PROVE  SizesInv'
  BY <1>0 DEF SizesInv
<1>1. CASE Cam!CloseCam \/ Cam!OpenCam
  BY <1>0, <1>1 DEF Cam!CloseCam, Cam!OpenCam, Cam!resVars
<1>2. CASE Cam!TakeFormat
  <2>1. pix' \in Formats \cup {Cam!Unset}
    BY <1>2 DEF Cam!TakeFormat
  <2>2. UNCHANGED <<resolutions, activeRes, flowing>> /\ cam' = "sizes"
    BY <1>2 DEF Cam!TakeFormat, Cam!resVars
  <2> QED BY <2>1, <2>2 DEF SizesInv
<1>3. CASE Cam!ListSizes
  <2>1. UNCHANGED <<pix, flowing>> /\ cam' \in {"close", "width"}
    BY <1>3 DEF Cam!ListSizes
  <2>2. CASE resolutions = -1
    <3>1. Cam!Fitting \in Int
      BY CameraAssumption DEF Cam!Fitting, SizesInv
    <3>2. resolutions' \in Int
      BY <1>3, <2>2, <3>1 DEF Cam!ListSizes
    <3>3. activeRes' = resolutions' - 1
      BY <1>3, <2>2 DEF Cam!ListSizes
    <3>4. ~flowing
      BY <2>2 DEF SizesInv
    <3>5. /\ activeRes' \in Int
          /\ resolutions' > 0 => activeRes' \in 0 .. resolutions' - 1
      BY <3>2, <3>3, LastIsIn
    <3>6. /\ pix' \in Formats \cup {Cam!Unset} /\ ~flowing'
          /\ cam' \notin {"height", "stream", "wait", "pace", "grab", "top"}
      BY <2>1, <3>4 DEF SizesInv
    <3> QED BY <3>2, <3>5, <3>6 DEF SizesInv
  <2>3. CASE resolutions # -1
    <3>1. UNCHANGED <<resolutions, activeRes>>
      BY <1>3, <2>3 DEF Cam!ListSizes, Cam!resVars
    <3> QED BY <1>0, <2>1, <3>1
  <2> QED BY <2>2, <2>3
<1>4. CASE Cam!ReadWidth \/ Cam!SetFormat \/ Cam!StartStreaming
  <2>1. UNCHANGED <<pix, resolutions, activeRes, flowing>>
    BY <1>4
    DEF Cam!ReadWidth, Cam!SetFormat, Cam!StartStreaming, Cam!resVars
  <2>2. ASSUME resolutions <= 0 PROVE cam' = "index out of range"
    <3>1. ~(activeRes \in 0 .. resolutions - 1) /\ cam # "height"
          /\ cam # "stream"
      BY <2>2 DEF SizesInv
    <3> QED
      BY <1>4, <3>1 DEF Cam!ReadWidth, Cam!SetFormat, Cam!StartStreaming
  <2> QED BY <1>0, <2>1, <2>2
<1>5. CASE Cam!Top \/ Cam!Clear \/ Cam!WaitForFrame \/ Cam!Pace
  <2>1. UNCHANGED <<pix, resolutions, activeRes, flowing>>
    BY <1>5
    DEF Cam!Top, Cam!Clear, Cam!WaitForFrame, Cam!Pace, Cam!resVars
  <2>2. resolutions <= 0 => cam' \in {"clear", "close"}
    BY <1>5 DEF Cam!Top, Cam!Clear, Cam!WaitForFrame, Cam!Pace, SizesInv
  <2> QED BY <1>0, <2>1, <2>2
<1>6. CASE Cam!Grab \/ Cam!Die
  <2>1. UNCHANGED <<pix, resolutions, activeRes>>
    BY <1>6
    DEF Cam!Grab, Cam!GrabFails, Cam!GrabPicture, Cam!Die, Cam!resVars
  <2>2. cam # "grab" => UNCHANGED <<cam, reinit, flowing>>
    BY <1>6 DEF Cam!Grab, Cam!GrabFails, Cam!GrabPicture, Cam!Die
  <2> QED BY <1>0, <2>1, <2>2 DEF SizesInv
<1>7. CASE flowing /\ adj = "idle" /\ (Cam!Lower \/ Cam!Raise \/ Cam!Slow)
  <2>1. UNCHANGED <<pix, resolutions>>
    BY <1>7
    DEF Cam!Lower, Cam!Raise, Cam!Slow, Cam!Adjust, Cam!camVars
  <2>2. resolutions > 0 /\ activeRes \in 0 .. resolutions - 1
    BY <1>7 DEF SizesInv
  <2>3. activeRes' \in 0 .. resolutions - 1
    BY <1>7, <2>2 DEF Cam!Lower, Cam!Raise, Cam!Larger, Cam!Slow, SizesInv
  <2> QED BY <2>1, <2>2, <2>3 DEF SizesInv
<1>8. CASE Cam!Clamp \/ Cam!Flag
  <2>1. UNCHANGED <<pix, resolutions, activeRes, cam, flowing>>
    BY <1>8 DEF Cam!Clamp, Cam!Flag, Cam!camVars
  <2>2. reinit => reinit'
    BY <1>8 DEF Cam!Clamp, Cam!Flag, Cam!camVars
  <2> QED BY <1>0, <2>1, <2>2 DEF SizesInv
<1>9. CASE UNCHANGED camVars
  BY <1>0, <1>9 DEF camVars, SizesInv
<1> QED
  BY <1>1, <1>2, <1>3, <1>4, <1>5, <1>6, <1>7, <1>8, <1>9
  DEF Cam!Next, Cam!Capturing

\* The connections' part.
LEMMA StepConn ==
  ASSUME IInv, ConnInv, ServerNext PROVE ConnInv'
<1>p. pc \in [Conns -> Positions]
  BY DEF IInv, TypeOK
<1> USE <1>p DEF ConnInv
<1>1. ASSUME NEW c \in Conns, Visit(c) PROVE ConnInv'
  <2>1. \A d \in Conns :
          pc'[d] \in {"read", "reply", "round"}
            <=> pc[d] \in {"read", "reply", "round"}
    BY <1>1
    DEF Visit, Accept, TakeSlot, Verify, Fail, Free, Expire, Answer, Enter,
        Leave, Unpeer, Broken, Goes
  <2>2. \A d \in Conns :
          pc[d] \in {"read", "reply", "round"} => pc'[d] = pc[d]
    BY <1>1
    DEF Visit, Accept, TakeSlot, Verify, Fail, Free, Expire, Answer, Enter,
        Leave, Unpeer, Broken, Goes
  <2> QED BY <1>1, <2>1, <2>2 DEF Visit, streamVars
<1>2. ASSUME NEW c \in Conns, Begin(c) \/ Miss(c) PROVE ConnInv'
  BY <1>2
  DEF Begin, Miss, Join, Goes, streamVars, Stream!Join, Stream!Go,
      Stream!encVars
<1>3. ASSUME NEW c \in Conns, Ask(c) PROVE ConnInv'
  BY <1>3
  DEF Ask, Request, Goes, Answered, Account, Due, Stream!Request, Stream!Go,
      Stream!encVars
<1>4. ASSUME NEW c \in Conns, Load(c) PROVE ConnInv'
  BY <1>4
  DEF Load, vars, Answered, Account, Due, Stream!Mark, Stream!LoadWord,
      Stream!Go, Stream!encVars
<1>5. ASSUME NEW c \in Conns, Flush(c) \/ Again(c) PROVE ConnInv'
  BY <1>5 DEF Flush, Again, Wrote, Round, Goes, streamVars
<1>6. ASSUME NEW c \in Conns, End(c) PROVE ConnInv'
  BY <1>6
  DEF End, Round, Broken, Goes, Account, Stream!Leave, Stream!Go,
      Stream!encVars
<1>7. ASSUME NEW c \in Conns, Lock(c) \/ AddBytes(c) PROVE ConnInv'
  BY <1>7
  DEF Lock, AddBytes, Rest, Adjust, Clamp, Flag, Unlock, Account, vars,
      streamVars
<1>8. CASE Film \/ Operate \/ Encode \/ Crash
  BY <1>8
  DEF Film, Operate, Encode, Crash, AcceptFails, vars, streamVars,
      Stream!Capture, Stream!Encoder, Stream!Receive, Stream!Transcode,
      Stream!StoreWord, Stream!Bump, Stream!Wrap, Stream!connVars
<1> QED
  BY <1>1, <1>2, <1>3, <1>4, <1>5, <1>6, <1>7, <1>8 DEF ServerNext, Connection

LEMMA StepFlow ==
  ASSUME ConnInv, FlowInv, ServerNext PROVE FlowInv'
<1> USE DEF ConnInv, FlowInv
<1>1. ASSUME NEW c \in Conns,
             \/ Visit(c) \/ Miss(c) \/ Flush(c) \/ Again(c) \/ Lock(c) \/ Rest(c)
      PROVE  FlowInv'
  BY <1>1
  DEF Visit, Miss, Flush, Again, Lock, Rest, Unlock, Account, streamVars,
      camVars
<1>2. ASSUME NEW c \in Conns, Begin(c) PROVE FlowInv'
  BY <1>2 DEF Begin, camVars, Stream!Join, Stream!Go, Stream!encVars
<1>3. ASSUME NEW c \in Conns, Ask(c) PROVE FlowInv'
  BY <1>3
  DEF Ask, Answered, Account, Due, camVars, Stream!Request, Stream!Go,
      Stream!encVars
<1>4. ASSUME NEW c \in Conns, Load(c) PROVE FlowInv'
  BY <1>4
  DEF Load, camVars, Stream!Mark, Stream!LoadWord, Stream!Go, Stream!encVars
<1>5. ASSUME NEW c \in Conns, End(c) PROVE FlowInv'
  BY <1>5
  DEF End, Account, camVars, Stream!Leave, Stream!Go, Stream!encVars
<1>6. ASSUME NEW c \in Conns, Adjust(c) \/ Clamp(c) \/ Flag(c) PROVE FlowInv'
  <2>1. flowing /\ flowing' = flowing
    BY <1>6
    DEF Adjust, Clamp, Flag, Cam!Lower, Cam!Raise, Cam!Slow, Cam!Adjust,
        Cam!Clamp, Cam!Flag, Cam!camVars
  <2> QED BY <2>1
<1>7. CASE Film
  BY <1>7 DEF Film, Cam!GrabPicture
<1>8. CASE Operate
  <2>1. flowing' = flowing
    BY <1>8
    DEF Operate, Cam!CloseCam, Cam!OpenCam, Cam!TakeFormat, Cam!ListSizes,
        Cam!ReadWidth, Cam!SetFormat, Cam!StartStreaming, Cam!Top, Cam!Clear,
        Cam!WaitForFrame, Cam!Pace, Cam!GrabFails, Cam!Die
  <2> QED BY <1>8, <2>1 DEF Operate, streamVars
<1>9. CASE Encode
  BY <1>9
  DEF Encode, camVars, Stream!Encoder, Stream!Receive, Stream!Transcode,
      Stream!StoreWord, Stream!Bump, Stream!Wrap, Stream!connVars
<1>10. CASE Crash
  BY <1>10 DEF Crash, streamVars, camVars
<1> QED
  BY <1>1, <1>2, <1>3, <1>4, <1>5, <1>6, <1>7, <1>8, <1>9, <1>10
  DEF ServerNext, Connection, AddBytes

LEMMA StepLock ==
  ASSUME ConnInv, LockInv, ServerNext PROVE LockInv'
<1> USE NobodyAssumption DEF ConnInv, LockInv
<1>1. ASSUME NEW c \in Conns,
             Visit(c) \/ Begin(c) \/ Miss(c) \/ Flush(c) \/ Again(c)
      PROVE  LockInv'
  BY <1>1 DEF Visit, Begin, Miss, Flush, Again, camVars
<1>2. ASSUME NEW c \in Conns, Ask(c) \/ Load(c) \/ End(c) PROVE LockInv'
  <2>1. UNCHANGED bytes \/ bytes' = [bytes EXCEPT ![c] = bytes'[c]]
    BY <1>2 DEF Ask, Load, End, Answered, Account
  <2>2. bytes[c] \notin {"in", "adjust"} /\ bytes'[c] \notin {"in", "adjust"}
    BY <1>2
    DEF Ask, Load, End, Request, Round, Broken, Goes, Answered, Account, Due,
        Stream!Mark, Stream!LoadWord
  <2>3. \A d \in Conns : d # c => bytes'[d] = bytes[d]
    BY <2>1
  <2>4. UNCHANGED <<sem, adj>>
    BY <1>2 DEF Ask, Load, End, camVars
  <2> QED BY <2>2, <2>3, <2>4
<1>3. ASSUME NEW c \in Conns, Lock(c) PROVE LockInv'
  BY <1>3 DEF Lock, Unlocked, Account, camVars
<1>4. ASSUME NEW c \in Conns, Rest(c) PROVE LockInv'
  BY <1>4 DEF Rest, Unlock, Account, camVars
<1>5. ASSUME NEW c \in Conns, Adjust(c) PROVE LockInv'
  BY <1>5 DEF Adjust, Account, Cam!Lower, Cam!Raise, Cam!Slow, Cam!Adjust
<1>6. ASSUME NEW c \in Conns, Clamp(c) PROVE LockInv'
  BY <1>6 DEF Clamp, Cam!Clamp
<1>7. ASSUME NEW c \in Conns, Flag(c) PROVE LockInv'
  <2>1. \A d \in Conns : bytes[d] = "adjust" => d = c
    BY <1>7 DEF Flag
  <2>2. \A d \in Conns : bytes'[d] \notin {"in", "adjust"}
    BY <1>7 DEF Flag, Unlock, Account
  <2> QED BY <1>7, <2>2 DEF Flag, Unlock, Cam!Flag
<1>8. CASE Film \/ Encode \/ Crash
  BY <1>8
  DEF Film, Encode, Crash, camVars, Cam!GrabPicture, Cam!adjVars
<1>9. CASE Operate
  BY <1>9
  DEF Operate, Cam!CloseCam, Cam!OpenCam, Cam!TakeFormat, Cam!ListSizes,
      Cam!ReadWidth, Cam!SetFormat, Cam!StartStreaming, Cam!Top, Cam!Clear,
      Cam!WaitForFrame, Cam!Pace, Cam!GrabFails, Cam!Die, Cam!adjVars
<1> QED
  BY <1>1, <1>2, <1>3, <1>4, <1>5, <1>6, <1>7, <1>8, <1>9
  DEF ServerNext, Connection, AddBytes

LEMMA NextServerInv == ServerInv /\ [ServerNext]_serverVars => ServerInv'
<1> SUFFICES ASSUME ServerInv, [ServerNext]_serverVars PROVE ServerInv'
  OBVIOUS
<1> USE DEF ServerInv
<1>1. CASE ServerNext
  <2>1. IInv'
    BY <1>1, StepAdmits, NextIInv
  <2>2. SizesInv'
    BY <1>1, StepFilms, StepSizes
  <2> QED BY <1>1, <2>1, <2>2, StepConn, StepFlow, StepLock
<1>2. CASE UNCHANGED serverVars
  <2>1. UNCHANGED vars /\ UNCHANGED camVars /\ UNCHANGED streamVars
        /\ UNCHANGED <<sem, bytes>>
    BY <1>2 DEF serverVars
  <2>2. IInv' /\ SizesInv'
    BY <2>1, NextIInv, StepSizes
  <2>3. ConnInv' /\ FlowInv' /\ LockInv'
    BY <2>1
    DEF vars, camVars, streamVars, ConnInv, FlowInv, LockInv
  <2> QED BY <2>2, <2>3
<1> QED BY <1>1, <1>2

\* Only those who proved the password are handed pictures.
THEOREM PicturesForMembers == ServerSpec => []MembersSee
<1>1. ServerInv => MembersSee
  BY LoopHasClients DEF ServerInv, ConnInv, MembersSee
<1> QED BY InitServerInv, NextServerInv, <1>1, PTL DEF ServerSpec

\* addBytes has clients to divide by and a resolution to look up.
THEOREM AddBytesAlwaysSafe == ServerSpec => []AddBytesSafe
<1>1. ServerInv => AddBytesSafe
  <2> SUFFICES ASSUME ServerInv, NEW c \in Conns, bytes[c] # "none"
               PROVE  clients > 0 /\ activeRes \in 0 .. resolutions - 1
    BY DEF AddBytesSafe
  <2>1. clients > 0
    BY LoopHasClients DEF ServerInv, ConnInv
  <2>2. flowing
    BY DEF ServerInv, FlowInv
  <2> QED BY <2>1, <2>2 DEF ServerInv, SizesInv
<1> QED BY InitServerInv, NextServerInv, <1>1, PTL DEF ServerSpec

\* In the server Camera behaves as its specification says.  What its Next
\* assumes is met: adjustments come after the first picture, and one at a time,
\* for any number of connections, since none is between taking the mutex and
\* giving it back while another is.
THEOREM CameraAsAssumed == ServerSpec => AsCameraAssumes
<1>1. ServerInit => Cam!Init
  BY DEF ServerInit
<1>2. ServerInv /\ [ServerNext]_serverVars => [Cam!Next]_camVars
  BY StepFilms DEF ServerInv, serverVars
<1> QED
  BY InitServerInv, NextServerInv, <1>1, <1>2, PTL
  DEF ServerSpec, AsCameraAssumes

\* The pictures take the way FrameStream describes, so that all it promises
\* holds in the server.
THEOREM ServerStreams == ServerSpec => Stream!Spec
<1>1. ServerInit => Stream!Init
  BY DEF ServerInit
<1>2. [ServerNext]_serverVars => [Stream!Next]_(Stream!vars)
  BY StepStreams DEF serverVars, streamVars, Stream!vars
<1> QED BY <1>1, <1>2, PTL DEF ServerSpec, Stream!Spec

\* The connections are admitted as Admission describes: the server counts
\* right, serves members only, and keeps to its two limits.
THEOREM ServerAdmits ==
  ServerSpec => /\ [](CountsRight /\ OnlyMembers)
                /\ PeersLimited /\ OneHandshake
<1>1. ServerInit => Init
  BY DEF ServerInit
<1>2. [ServerNext]_serverVars => [Next]_vars
  BY StepAdmits DEF serverVars
<1>3. IInv => CountsRight
  BY DEF IInv
<1> QED
  BY InitIInv, NextIInv, <1>1, <1>2, <1>3, MembersFollow, InitPermits,
     StepPeers, StepSlot, PTL
  DEF ServerSpec, PeersLimited, OneHandshake, PeerPermits!Spec,
      SlotPermits!Spec

-----------------------------------------------------------------------------
(* What is proved of the components holds of the server: it makes their    *)
(* steps, so that their invariants are kept in it.                         *)

StreamIn == INSTANCE FrameStreamProofs WITH pc <- loop
CamIn    == INSTANCE CameraProofs WITH pc <- cam

\* Both instances of FrameStream say the same.
LEMMA SameStream == Stream!Spec => StreamIn!Spec
<1>1. Stream!Init => StreamIn!Init
  BY DEF Stream!Init, StreamIn!Init, Stream!Nil, StreamIn!Nil, Stream!Words,
         StreamIn!Words
<1>2. [Stream!Next]_(Stream!vars) => [StreamIn!Next]_(StreamIn!vars)
  BY Zenon DEF
      Stream!vars, Stream!encVars, Stream!connVars, Stream!Words,
      Stream!Nil, Stream!Next, Stream!Capture, Stream!Encoder,
      Stream!Receive, Stream!Transcode, Stream!StoreWord, Stream!Bytes,
      Stream!Bump, Stream!Wrapped, Stream!Wrap, Stream!Go, Stream!Join,
      Stream!Serving, Stream!Request, Stream!Noted, Stream!Mark,
      Stream!LoadWord, Stream!Leave, StreamIn!vars, StreamIn!encVars,
      StreamIn!connVars, StreamIn!Words, StreamIn!Nil, StreamIn!Next,
      StreamIn!Capture, StreamIn!Encoder, StreamIn!Receive,
      StreamIn!Transcode, StreamIn!StoreWord, StreamIn!Bytes, StreamIn!Bump,
      StreamIn!Wrapped, StreamIn!Wrap, StreamIn!Go, StreamIn!Join,
      StreamIn!Serving, StreamIn!Request, StreamIn!Noted, StreamIn!Mark,
      StreamIn!LoadWord, StreamIn!Leave
<1> QED BY <1>1, <1>2, PTL DEF Stream!Spec, StreamIn!Spec

\* And both of Camera.
LEMMA SameCamera ==
  /\ Cam!Init => CamIn!Init
  /\ [Cam!Next]_camVars => [CamIn!Next]_(CamIn!vars)
<1>1. Cam!Init => CamIn!Init
  BY DEF Cam!Init, CamIn!Init, Cam!Unset, CamIn!Unset
<1>2. [Cam!Next]_camVars => [CamIn!Next]_(CamIn!vars)
  BY Zenon DEF camVars,
      Cam!vars, Cam!devVars, Cam!resVars, Cam!adjVars, Cam!camVars,
      Cam!Unset, Cam!Panics, Cam!Next, Cam!Capturing, Cam!Fault,
      Cam!NoFault, Cam!NeedsClose, Cam!CloseCam, Cam!OpenCam,
      Cam!TakeFormat, Cam!Fitting, Cam!ListSizes, Cam!Taken,
      Cam!ReadWidth, Cam!SetFormat, Cam!StartStreaming,
      Cam!Top, Cam!Clear, Cam!SeesError, Cam!Reopen, Cam!WaitForFrame,
      Cam!Pace, Cam!Grab, Cam!GrabFails, Cam!GrabPicture, Cam!Running,
      Cam!Adjust, Cam!Lower, Cam!Larger, Cam!Raise, Cam!Slow, Cam!Clamp,
      Cam!Changed, Cam!Flag, Cam!Die, CamIn!vars, CamIn!devVars,
      CamIn!resVars, CamIn!adjVars, CamIn!camVars, CamIn!Unset,
      CamIn!Panics, CamIn!Next, CamIn!Capturing, CamIn!Fault, CamIn!NoFault,
      CamIn!NeedsClose, CamIn!CloseCam, CamIn!OpenCam, CamIn!TakeFormat,
      CamIn!Fitting, CamIn!ListSizes, CamIn!Taken,
      CamIn!ReadWidth, CamIn!SetFormat, CamIn!StartStreaming, CamIn!Top,
      CamIn!Clear, CamIn!SeesError, CamIn!Reopen, CamIn!WaitForFrame,
      CamIn!Pace, CamIn!Grab, CamIn!GrabFails, CamIn!GrabPicture,
      CamIn!Running, CamIn!Adjust, CamIn!Lower, CamIn!Larger, CamIn!Raise,
      CamIn!Slow, CamIn!Clamp, CamIn!Changed, CamIn!Flag, CamIn!Die
<1> QED BY <1>1, <1>2

\* In the server, whatever its connections, camera and limits do, no picture
\* is lost to a connection, few are repeated, and none older than the last
\* one is ever sent.
THEOREM ServerLosesNothing ==
  ServerSpec => /\ [](StreamIn!CaughtUp /\ StreamIn!FewRepeats)
                /\ StreamIn!ImplementsLatestFrame
<1>1. MaxFrames \in Nat /\ MaxCount \in Nat \ {0}
  BY StreamAssumption
<1> QED
  BY <1>1, ServerStreams, SameStream, StreamIn!NothingLost,
     StreamIn!RepeatsBounded, StreamIn!Implements, PTL

\* In the server, whenever and by whomever addBytes is called, no change of
\* resolution is lost, and the device is opened once, at a size it has.
THEOREM ServerKeepsCamera ==
  ServerSpec => [](CamIn!ActiveExists /\ CamIn!FormatFollows /\ CamIn!OneDevice)
<1>1. /\ MaxFaults \in Nat /\ MaxMoves \in Nat
      /\ Formats # {} /\ CamIn!Unset \notin Formats /\ Sizes \in [Formats -> Nat]
  BY CameraAssumption DEF CamIn!Unset
<1>2. CamIn!Init => CamIn!IInv
  BY <1>1, CamIn!InitIInv
<1>3. CamIn!IInv /\ [CamIn!Next]_(CamIn!vars) => CamIn!IInv'
  BY <1>1, CamIn!NextIInv
<1>4. CamIn!IInv =>
        CamIn!ActiveExists /\ CamIn!FormatFollows /\ CamIn!OneDevice
  BY <1>1, CamIn!IInvImplies
<1> QED
  BY <1>2, <1>3, <1>4, CameraAsAssumed, SameCamera, PTL DEF AsCameraAssumes
=============================================================================
