------------------------------- MODULE Config -------------------------------
(***************************************************************************)
(* The configuration file: servers that start (main of cmd/server) load it *)
(* or, if there is none, create an example (EnsureConfig); the user edits  *)
(* it, at any time, with a touch password that `client -p` printed after   *)
(* it was swiped, as a list of numbers or as a string of arrows.  A server *)
(* writes the example to the file it has created and still has open, which *)
(* may by then hold what the user wrote, or no longer be in its place.     *)
(*                                                                         *)
(* Of the file only TouchPassword is kept, in the form JSON gives it: the  *)
(* string or the list it is.  A string is a sequence of characters, the    *)
(* arrows by their names.  Decoded into an interface{}, a list is no       *)
(* []byte, and a []byte was encoded as a string in base64.                 *)
(***************************************************************************)
EXTENDS Naturals, Sequences

CONSTANTS
  Procs,        \* servers that may be started, at the same time too
  Passwords,    \* what may be swiped: sequences of strokes
  MaxEdits      \* bound: how often the user edits the file

Strokes == {1, 2, 4, 8, 5, 6, 9, 10}

ASSUME PasswordsAssumption == Passwords \subseteq Seq(Strokes)
ASSUME EditsAssumption == MaxEdits \in Nat

\* Mutant: two arrows stand for the same stroke.
TouchMap_Typo ==
  [up |-> 8, down |-> 4, right |-> 2, left |-> 1,
   upLeft |-> 9, upRight |-> 10, downLeft |-> 5, downRight |-> 5]

TouchMap ==
  [up |-> 8, down |-> 4, right |-> 2, left |-> 1,
   upLeft |-> 9, upRight |-> 10, downLeft |-> 5, downRight |-> 6]

\* TouchPassword.String: the map read backwards; a stroke that is not in it
\* gives the character 0.
String(t) ==
  [i \in DOMAIN t |->
     IF \E a \in DOMAIN TouchMap : TouchMap[a] = t[i]
     THEN CHOOSE a \in DOMAIN TouchMap : TouchMap[a] = t[i] ELSE "NUL"]

Absent  == [form |-> "absent", value |-> <<>>]
Empty   == [form |-> "empty", value |-> <<>>]
Example == [form |-> "string", value |-> <<"base64">>]
List(t)   == [form |-> "list", value |-> t]
Arrows(t) == [form |-> "string", value |-> String(t)]

\* RawTouchPassword of what was decoded: one password, or none (nil).
Raw(file) ==
  IF file.form = "string" /\ \A i \in DOMAIN file.value :
                                file.value[i] \in DOMAIN TouchMap
  THEN {[i \in DOMAIN file.value |-> TouchMap[file.value[i]]]}
  ELSE {}

VARIABLES
  file,         \* what the file holds
  swiped,       \* history: the password behind what the user wrote, if any
  held,         \* the servers that have this very file open to write to it
  edits,        \* edits so far
  pc,           \* pc[p]: where server p is
  pass,         \* pass[p]: the touch password p runs with, if any
  read          \* history: what p loaded, and the password behind it

fileVars == <<file, swiped, held>>
vars == <<file, swiped, held, edits, pc, pass, read>>

Init ==
  /\ file = Absent /\ swiped = {} /\ held = {} /\ edits = 0
  /\ pc = [p \in Procs |-> "start"]
  /\ pass = [p \in Procs |-> {}]
  /\ read = [p \in Procs |-> [file |-> Absent, swiped |-> {}]]

Go(p, place) == pc' = [pc EXCEPT ![p] = place]

-----------------------------------------------------------------------------
(* The server.                                                             *)

\* LoadConfig: no file, or one that will not do, or a password.  An empty
\* file cannot be decoded.
Load(p) ==
  /\ pc[p] = "start"
  /\ read' = [read EXCEPT ![p] = [file |-> file, swiped |-> swiped]]
  /\ pass' = [pass EXCEPT ![p] = Raw(file)]
  /\ Go(p, IF file = Absent THEN "ensure"
           ELSE IF Raw(file) = {} THEN "failed" ELSE "running")
  /\ UNCHANGED <<fileVars, edits>>

\* Mutant: the file is opened without O_EXCL, and cut to nothing.
Exists_Ignored == FALSE

Exists == file # Absent

\* EnsureConfig, O_CREATE and O_EXCL: only one server creates the file, which
\* is empty then.
Ensure(p) ==
  /\ pc[p] = "ensure"
  /\ IF Exists
     THEN Go(p, "stopped") /\ UNCHANGED fileVars
     ELSE Go(p, "encode") /\ file' = Empty /\ swiped' = {} /\ held' = held \cup {p}
  /\ UNCHANGED <<edits, pass, read>>

\* The example is written to the file this server opened, whatever that holds
\* (a longer text is not cut, but decoding ends with the example), and the
\* server says so and stops.
Encode(p) ==
  /\ pc[p] = "encode" /\ Go(p, "stopped")
  /\ IF p \in held
     THEN file' = Example /\ swiped' = {} /\ held' = held \ {p}
     ELSE UNCHANGED fileVars
  /\ UNCHANGED <<edits, pass, read>>

\* A server is killed, or stopped by itself, and is started again.
Restart(p) ==
  /\ Go(p, "start")
  /\ pass' = [pass EXCEPT ![p] = {}]
  /\ read' = [read EXCEPT ![p] = [file |-> Absent, swiped |-> {}]]
  /\ held' = held \ {p}
  /\ UNCHANGED <<file, swiped, edits>>

-----------------------------------------------------------------------------
(* The user and `client -p`.                                               *)

ByHand == edits < MaxEdits /\ edits' = edits + 1 /\ UNCHANGED <<pc, pass, read>>

\* The password is written in one of the forms printed: to the file there is,
\* or to a new one that takes its place.
Edit(t) ==
  /\ ByHand
  /\ file' \in {List(t), Arrows(t)} /\ swiped' = {t}
  /\ held' \in {held, {}}

\* The file is removed.
Remove == ByHand /\ file' = Absent /\ swiped' = {} /\ held' = {}

Next ==
  \/ \E p \in Procs : Load(p) \/ Ensure(p) \/ Encode(p) \/ Restart(p)
  \/ Remove \/ \E t \in Passwords : Edit(t)

Spec == Init /\ [][Next]_vars

-----------------------------------------------------------------------------
(* Properties.                                                             *)

\* A file that is there is changed by no server, but for the one that created
\* this very file, and by that one only with the example it was created for:
\* not by one that saw no file a while ago, nor by one whose file was removed
\* or replaced.  (What is written by hand to a file just created is lost.)
OwnFileOnly ==
  [][edits' = edits /\ file' # file =>
       \/ file = Absent
       \/ \E p \in Procs : held = {p} /\ pc[p] = "encode" /\ file' = Example]_vars

\* A server that runs lets in the password that was swiped, printed as arrows
\* and written to the file; and no such file is turned down.
RunsAsSwiped ==
  \A p \in Procs :
    /\ pc[p] = "running" => pass[p] = read[p].swiped
    /\ pc[p] = "failed" => read[p].file.form # "string"
                           \/ read[p].file = Example

\* cmd/server/server.go:28: "Created example config file in %s".
ExampleLoads == \A p \in Procs : pc[p] = "failed" => read[p].file # Example
=============================================================================
