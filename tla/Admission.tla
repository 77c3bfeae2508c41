----------------------------- MODULE Admission -----------------------------
(***************************************************************************)
(* The life of a connection in the server: Listen accepts it and starts a  *)
(* goroutine, conn counts it as a peer, waits for the one handshake slot   *)
(* (the channel scryptRatelimit), has the remote prove that it knows the   *)
(* password, counts it as a client and serves it until something fails.    *)
(*                                                                         *)
(* The goroutines share the counters net.peers and net.clients (under the  *)
(* mutex sem, so that addPeer and addClient are one step each) and the     *)
(* slot.  What a served connection is sent is FrameStream's subject.       *)
(*                                                                         *)
(* The remote is free: it may answer rightly, wrongly, late or never, and  *)
(* it may go away, so a read or a write may fail at any time.  It must     *)
(* fail once the deadline of the connection has passed.                    *)
(***************************************************************************)
EXTENDS Integers, FiniteSets

CONSTANTS
  Conns,        \* connections there can be at a time
  MaxPeers      \* s.net.maxPeers, from the configuration

ASSUME ConnsAssumption == IsFiniteSet(Conns)
ASSUME MaxPeersAssumption == MaxPeers \in Nat

VARIABLES
  up,           \* the process has not died
  peers,        \* s.net.peers
  clients,      \* s.net.clients
  slot,         \* number of elements in the channel scryptRatelimit
  pc,           \* pc[c]: what c's goroutine does next, "none": no connection
  deadline,     \* deadline[c]: what SetDeadline left behind
  proved        \* proved[c]: the remote answered with the right hash

shared == <<peers, clients, slot>>
vars == <<up, peers, clients, slot, pc, deadline, proved>>

\* Positions in conn: what is counted, held or passed at each of them.
Handshaking == {"hash", "verify", "fail", "free"}
Joined      == {"read", "reply", "round", "leave"}
Admitted    == {"wait", "join", "unpeer"} \cup Handshaking \cup Joined
Positions   == {"none", "enter"} \cup Admitted

In(places) == {c \in Conns : pc[c] \in places}

TypeOK ==
  /\ up \in BOOLEAN
  /\ peers \in Nat /\ clients \in Nat /\ slot \in 0 .. 1
  /\ pc \in [Conns -> Positions]
  /\ deadline \in [Conns -> {"off", "armed", "passed"}]
  /\ proved \in [Conns -> BOOLEAN]

Init ==
  /\ up = TRUE
  /\ peers = 0 /\ clients = 0 /\ slot = 0
  /\ pc = [c \in Conns |-> "none"]
  /\ deadline = [c \in Conns |-> "off"]
  /\ proved = [c \in Conns |-> FALSE]

\* c's goroutine, at one place in conn, goes on to another.
Goes(c, from, to) == up /\ pc[c] = from /\ pc' = [pc EXCEPT ![c] = to]

\* Mutant: no deadline is ever set.
SetDeadline_Never(c) == UNCHANGED deadline

\* c.SetDeadline, five seconds from here.
SetDeadline(c) == deadline' = [deadline EXCEPT ![c] = "armed"]

-----------------------------------------------------------------------------
(* Listen.                                                                 *)

Accept(c) ==
  /\ Goes(c, "none", "enter")
  /\ UNCHANGED <<up, shared, deadline, proved>>

\* Accept fails: the error path calls Close on the connection it did not get,
\* a nil interface, and the panic takes the process with it.
AcceptFails ==
  /\ up /\ up' = FALSE
  /\ UNCHANGED <<shared, pc, deadline, proved>>

-----------------------------------------------------------------------------
(* conn, up to its loop.                                                   *)

\* Mutant: the limit is tested before the new peer is added in.
Full_OffByOne == peers > MaxPeers

Full == peers + 1 > MaxPeers

\* addPeer(1) refuses the connection, or counts it in; then the deadline for
\* the handshake is set.  It covers the wait for the slot.
Enter(c) ==
  /\ \/ Full /\ Goes(c, "enter", "none") /\ UNCHANGED <<peers, deadline>>
     \/ /\ ~Full /\ peers' = peers + 1
        /\ \/ Goes(c, "enter", "wait") /\ SetDeadline(c)
           \/ Goes(c, "enter", "unpeer") /\ UNCHANGED deadline
  /\ UNCHANGED <<up, clients, slot, proved>>

\* Mutant: the channel never blocks.
SlotFree_Always == TRUE

SlotFree == slot = 0

\* The send on scryptRatelimit blocks while another handshake is under way.
\* HandshakeServer then sends the salt and waits for the hash.
TakeSlot(c) ==
  /\ Goes(c, "wait", "hash")
  /\ SlotFree
  /\ slot' = slot + 1
  /\ UNCHANGED <<up, peers, clients, deadline, proved>>

\* The remote's hash arrives; right says whether it is the password's.
Answer(c, right) ==
  /\ deadline[c] # "passed"
  /\ Goes(c, "hash", "verify")
  /\ proved' = [proved EXCEPT ![c] = right]
  /\ UNCHANGED <<up, shared, deadline>>

\* Mutant: a wrong answer is told so, and let in all the same.
HashesEqual_Ignored(c) == TRUE

HashesEqual(c) == proved[c]

\* The hashes are compared, the verdict is written and the key is derived.
\* The error of that write is ignored: to be gone is not to fail here.
Verify(c) ==
  /\ \/ HashesEqual(c) /\ Goes(c, "verify", "free")
     \/ Goes(c, "verify", "fail")
  /\ UNCHANGED <<up, shared, deadline, proved>>

\* Mutant: the early return of a failed handshake keeps the slot.
Fail_KeepsSlot(c) ==
  /\ Goes(c, "fail", "unpeer")
  /\ UNCHANGED <<up, shared, deadline, proved>>

\* A failed handshake gives the slot back and returns ...
Fail(c) ==
  /\ Goes(c, "fail", "unpeer")
  /\ slot' = slot - 1
  /\ UNCHANGED <<up, peers, clients, deadline, proved>>

\* ... and so does a successful one, which goes on.
Free(c) ==
  /\ Goes(c, "free", "join")
  /\ slot' = slot - 1
  /\ UNCHANGED <<up, peers, clients, deadline, proved>>

\* addClient(1), and the deadline for the first request, if it can be set.
Join(c) ==
  /\ clients' = clients + 1
  /\ \/ Goes(c, "join", "read") /\ SetDeadline(c)
     \/ Goes(c, "join", "leave") /\ UNCHANGED deadline
  /\ UNCHANGED <<up, peers, slot, proved>>

-----------------------------------------------------------------------------
(* The loop of conn.                                                       *)

\* c.Read returns a request.
Request(c) ==
  /\ deadline[c] # "passed"
  /\ Goes(c, "read", "reply")
  /\ UNCHANGED <<up, shared, deadline, proved>>

\* The answer is written, which takes as long as the remote wants ...
Wrote(c) ==
  /\ deadline[c] # "passed"
  /\ Goes(c, "reply", "round")
  /\ UNCHANGED <<up, shared, deadline, proved>>

\* ... and unless it was "nothing new", addBytes shares the throughput among
\* s.net.clients.  Then the deadline is set again, if it can be.
Round(c) ==
  /\ \/ Goes(c, "round", "read") /\ SetDeadline(c)
     \/ Goes(c, "round", "leave") /\ UNCHANGED deadline
  /\ UNCHANGED <<up, shared, proved>>

-----------------------------------------------------------------------------
(* The ends of a connection.                                               *)

\* A read or a write fails: the remote went away, or the deadline passed.  (So
\* may an encryption.)
Broken(c) ==
  /\ \/ Goes(c, "hash", "fail")
     \/ Goes(c, "read", "leave") \/ Goes(c, "reply", "leave")
  /\ UNCHANGED <<up, shared, deadline, proved>>

\* The deferred addClient(-1).
Leave(c) ==
  /\ Goes(c, "leave", "unpeer")
  /\ clients' = clients - 1
  /\ UNCHANGED <<up, peers, slot, deadline, proved>>

\* The deferred addPeer(-1) and c.Close().
Unpeer(c) ==
  /\ Goes(c, "unpeer", "none")
  /\ peers' = peers - 1
  /\ deadline' = [deadline EXCEPT ![c] = "off"]
  /\ proved' = [proved EXCEPT ![c] = FALSE]
  /\ UNCHANGED <<up, clients, slot>>

\* Time passes.
Expire(c) ==
  /\ up
  /\ deadline[c] = "armed"
  /\ deadline' = [deadline EXCEPT ![c] = "passed"]
  /\ UNCHANGED <<up, shared, pc, proved>>

\* What c's goroutine does by itself.
Step(c) ==
  \/ Enter(c) \/ Verify(c) \/ Fail(c) \/ Free(c) \/ Join(c) \/ Round(c)
  \/ Leave(c) \/ Unpeer(c)

Next ==
  \/ AcceptFails
  \/ \E c \in Conns :
       \/ Accept(c) \/ Step(c) \/ TakeSlot(c) \/ Request(c) \/ Wrote(c)
       \/ Broken(c) \/ Expire(c)
       \/ \E right \in BOOLEAN : Answer(c, right)

(***************************************************************************)
(* Goroutines run; those blocked on the channel are served in turn, so one *)
(* that can take the slot again and again takes it; a deadline passes, and *)
(* the read or write under way then fails.  Nothing is asked of the remote. *)
(***************************************************************************)
Spec ==
  /\ Init /\ [][Next]_vars
  /\ \A c \in Conns :
       /\ WF_vars(Step(c))
       /\ SF_vars(TakeSlot(c))
       /\ WF_vars(pc[c] \in {"hash", "read", "reply"} /\ Expire(c))
       /\ WF_vars(deadline[c] = "passed" /\ Broken(c))

-----------------------------------------------------------------------------
(* Properties.                                                             *)

\* On every path through conn, early returns included, the two counters and
\* the slot stand for exactly the connections between taking and giving back.
CountsRight ==
  /\ peers = Cardinality(In(Admitted))
  /\ clients = Cardinality(In(Joined))
  /\ slot = Cardinality(In(Handshaking))

\* Only a connection that proved to know the password is counted as a client
\* and streamed to, and its bytes are shared among at least one client.
OnlyMembers ==
  \A c \in In({"free", "join"} \cup Joined) :
    proved[c] /\ (pc[c] \in {"reply", "round"} => clients > 0)

\* addPeer admits at most maxPeers connections at a time, and each once.
PeerPermits == INSTANCE Permits WITH
  Users <- Conns, Max <- MaxPeers, holders <- In(Admitted)
PeersLimited == PeerPermits!Spec

\* At most one handshake (and its two scrypt computations) runs at a time.
SlotPermits == INSTANCE Permits WITH
  Users <- Conns, Max <- 1, holders <- In(Handshaking)
OneHandshake == SlotPermits!Spec

\* Whoever queues for a handshake gets its turn, whatever the others do.
TurnComes == \A c \in Conns : pc[c] = "wait" ~> (pc[c] = "hash" \/ ~up)

\* A remote that no longer answers, asks or reads is dropped and counted out.
SilentDropped ==
  \A c \in Conns :
    /\ pc[c] = "hash"  ~> (pc[c] \in {"verify", "none"} \/ ~up)
    /\ pc[c] = "read"  ~> (pc[c] \in {"reply", "none"} \/ ~up)
    /\ pc[c] = "reply" ~> (pc[c] \in {"round", "none"} \/ ~up)
============================================================================
