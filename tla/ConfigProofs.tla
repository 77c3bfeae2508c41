---------------------------- MODULE ConfigProofs ----------------------------
(***************************************************************************)
(* Proofs about Config, for any number of servers and all passwords.       *)
(***************************************************************************)
EXTENDS Config, SequenceTheorems, TLAPS

Names == {"up", "down", "right", "left", "upLeft", "upRight", "downLeft",
          "downRight"}

LEMMA MapNames == DOMAIN TouchMap = Names /\ "base64" \notin Names
BY DEF TouchMap, Names

\* Every stroke has an arrow.
LEMMA StrokeNamed ==
  ASSUME NEW s \in Strokes
  PROVE  \E a \in DOMAIN TouchMap : TouchMap[a] = s
<1>1. /\ TouchMap["up"] = 8 /\ TouchMap["down"] = 4
      /\ TouchMap["right"] = 2 /\ TouchMap["left"] = 1
      /\ TouchMap["upLeft"] = 9 /\ TouchMap["upRight"] = 10
      /\ TouchMap["downLeft"] = 5 /\ TouchMap["downRight"] = 6
  BY DEF TouchMap
<1> QED BY <1>1, MapNames DEF Strokes, Names

\* What String prints is what RawTouchPassword reads.
LEMMA ArrowsRead ==
  ASSUME NEW t \in Passwords
  PROVE  Raw(Arrows(t)) = {t}
<1>1. t \in [1 .. Len(t) -> Strokes] /\ DOMAIN t = 1 .. Len(t)
  BY PasswordsAssumption, LenProperties
<1> DEFINE s == String(t)
<1>2. DOMAIN s = DOMAIN t
  BY DEF String
<1>3. ASSUME NEW i \in DOMAIN t
      PROVE  s[i] \in DOMAIN TouchMap /\ TouchMap[s[i]] = t[i]
  <2>1. \E a \in DOMAIN TouchMap : TouchMap[a] = t[i]
    BY <1>1, StrokeNamed
  <2>2. s[i] = CHOOSE a \in DOMAIN TouchMap : TouchMap[a] = t[i]
    BY <2>1 DEF String
  <2> QED BY <2>1, <2>2
<1>4. [i \in DOMAIN s |-> TouchMap[s[i]]] = t
  BY <1>1, <1>2, <1>3
<1>5. Arrows(t).form = "string" /\ Arrows(t).value = s
  BY DEF Arrows
<1> QED
  <2> HIDE DEF s
  <2> QED BY <1>2, <1>3, <1>4, <1>5 DEF Raw

\* The example, an empty file and a list hold no password.
LEMMA OthersRefused ==
  /\ Raw(Absent) = {} /\ Raw(Empty) = {} /\ Raw(Example) = {}
  /\ \A t \in Passwords : Raw(List(t)) = {}
<1>1. Raw(Absent) = {} /\ Raw(Empty) = {} /\ \A t \in Passwords : Raw(List(t)) = {}
  BY DEF Raw, Absent, Empty, List
<1>2. Raw(Example) = {}
  <2>1. /\ Example.form = "string" /\ Example.value = <<"base64">>
        /\ 1 \in DOMAIN <<"base64">> /\ <<"base64">>[1] = "base64"
    BY DEF Example
  <2> QED BY <2>1, MapNames DEF Raw
<1> QED BY <1>1, <1>2

-----------------------------------------------------------------------------
(* The file: only one that the user wrote has a password behind it.        *)

Consistent(f, s) ==
  \/ f \in {Absent, Empty, Example} /\ s = {}
  \/ \E t \in Passwords : f \in {List(t), Arrows(t)} /\ s = {t}

FileInv ==
  /\ pc \in [Procs -> {"start", "ensure", "encode", "running", "failed", "stopped"}]
  /\ Consistent(file, swiped)
  /\ edits \in Nat
  /\ held \subseteq {p \in Procs : pc[p] = "encode"}
  /\ \A p, q \in held : p = q
  /\ file = Absent => held = {}

LEMMA FileInitially == Init => FileInv
BY DEF Init, FileInv, Consistent

LEMMA Written ==
  ASSUME NEW t \in Passwords
  PROVE  List(t) # Absent /\ Arrows(t) # Absent
BY DEF List, Arrows, Absent

LEMMA FileStep ==
  ASSUME FileInv, [Next]_vars
  PROVE  FileInv'
<1> USE DEF FileInv, Go
<1>1. ASSUME NEW p \in Procs, Load(p)
      PROVE  FileInv'
  BY <1>1 DEF Load, fileVars
<1>2. ASSUME NEW p \in Procs, Ensure(p)
      PROVE  FileInv'
  <2>1. CASE Exists
    BY <1>2, <2>1 DEF Ensure, fileVars
  <2>2. CASE ~Exists
    <3>1. held = {} /\ Empty # Absent
      BY <2>2 DEF Exists, Empty, Absent
    <3> QED BY <1>2, <2>2, <3>1 DEF Ensure, Consistent
  <2> QED BY <2>1, <2>2
<1>3. ASSUME NEW p \in Procs, Encode(p)
      PROVE  FileInv'
  <2>1. CASE p \in held
    <3>1. Example # Absent
      BY DEF Example, Absent
    <3> QED BY <1>3, <2>1, <3>1 DEF Encode, Consistent
  <2>2. CASE p \notin held
    BY <1>3, <2>2 DEF Encode, fileVars
  <2> QED BY <2>1, <2>2
<1>4. ASSUME NEW p \in Procs, Restart(p)
      PROVE  FileInv'
  BY <1>4 DEF Restart
<1>5. ASSUME NEW t \in Passwords, Edit(t)
      PROVE  FileInv'
  BY <1>5, Written DEF Edit, ByHand, Consistent
<1>6. CASE Remove
  BY <1>6 DEF Remove, ByHand, Consistent
<1>7. CASE UNCHANGED vars
  BY <1>7 DEF vars, fileVars
<1> QED BY <1>1, <1>2, <1>3, <1>4, <1>5, <1>6, <1>7 DEF Next

\* Of any number of servers, only the one that created the file that is there
\* changes it, and only by writing the example.
THEOREM OnlyCreatorWrites == Spec => OwnFileOnly
<1> DEFINE Own == edits' = edits /\ file' # file =>
                    \/ file = Absent
                    \/ \E p \in Procs : held = {p} /\ pc[p] = "encode" /\ file' = Example
<1>1. FileInv /\ [Next]_vars => [Own]_vars
  <2> SUFFICES ASSUME FileInv, [Next]_vars, edits' = edits, file' # file
               PROVE  Own
    OBVIOUS
  <2>1. ASSUME NEW p \in Procs, Load(p) \/ Restart(p)
        PROVE  FALSE
    BY <2>1 DEF Load, Restart, fileVars
  <2>2. ASSUME NEW p \in Procs, Ensure(p)
        PROVE  file = Absent
    BY <2>2 DEF Ensure, Exists, fileVars
  <2>3. ASSUME NEW p \in Procs, Encode(p)
        PROVE  held = {p} /\ pc[p] = "encode" /\ file' = Example
    BY <2>3 DEF Encode, FileInv, fileVars
  <2>4. ASSUME Remove \/ \E t \in Passwords : Edit(t)
        PROVE  FALSE
    BY <2>4 DEF Remove, Edit, ByHand, FileInv
  <2> QED BY <2>1, <2>2, <2>3, <2>4 DEF Next, vars, fileVars
<1> QED BY <1>1, FileInitially, FileStep, PTL DEF Spec, OwnFileOnly

-----------------------------------------------------------------------------
(* The servers.                                                            *)

RunInv ==
  /\ DOMAIN pass = Procs /\ DOMAIN read = Procs
  /\ RunsAsSwiped

LEMMA RunInitially == Init => RunInv
BY DEF Init, RunInv, RunsAsSwiped

\* The file decides: a password, and that the user's, or none.
LEMMA Decided ==
  ASSUME Consistent(file, swiped)
  PROVE  /\ Raw(file) # {} => Raw(file) = swiped
         /\ (Raw(file) = {} /\ file # Absent) =>
              file.form # "string" \/ file = Example
<1>1. CASE file \in {Absent, Empty, Example} /\ swiped = {}
  BY <1>1, OthersRefused DEF Absent, Empty
<1>2. ASSUME NEW t \in Passwords, file = List(t), swiped = {t}
      PROVE  Raw(file) = {} /\ file.form # "string"
  BY <1>2, OthersRefused DEF List
<1>3. ASSUME NEW t \in Passwords, file = Arrows(t), swiped = {t}
      PROVE  Raw(file) = {t}
  BY <1>3, ArrowsRead
<1> QED BY <1>1, <1>2, <1>3 DEF Consistent

LEMMA RunStep ==
  ASSUME FileInv, RunInv, [Next]_vars
  PROVE  RunInv'
<1> USE DEF RunInv, RunsAsSwiped, Go
<1>0. DOMAIN pc = Procs
  BY DEF FileInv
<1>1. ASSUME NEW p \in Procs, Load(p)
      PROVE  RunInv'
  <2>1. /\ Raw(file) # {} => Raw(file) = swiped
        /\ (Raw(file) = {} /\ file # Absent) =>
             file.form # "string" \/ file = Example
    BY Decided DEF FileInv
  <2> QED BY <1>0, <1>1, <2>1, OthersRefused DEF Load, fileVars
<1>2. ASSUME NEW p \in Procs, Ensure(p) \/ Encode(p)
      PROVE  RunInv'
  BY <1>0, <1>2 DEF Ensure, Encode
<1>3. ASSUME NEW p \in Procs, Restart(p)
      PROVE  RunInv'
  BY <1>0, <1>3 DEF Restart
<1>4. ASSUME NEW t \in Passwords, Edit(t)
      PROVE  RunInv'
  BY <1>4 DEF Edit, ByHand
<1>5. CASE Remove
  BY <1>5 DEF Remove, ByHand
<1>6. CASE UNCHANGED vars
  BY <1>6 DEF vars
<1> QED BY <1>1, <1>2, <1>3, <1>4, <1>5, <1>6 DEF Next

\* A server that runs lets in the password that was swiped and written.
THEOREM AlwaysRunsAsSwiped == Spec => []RunsAsSwiped
<1>1. RunInv => RunsAsSwiped
  BY DEF RunInv
<1> QED BY <1>1, FileInitially, FileStep, RunInitially, RunStep, PTL DEF Spec
=============================================================================
