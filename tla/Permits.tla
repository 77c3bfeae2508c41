------------------------------ MODULE Permits ------------------------------
(***************************************************************************)
(* What a counter or a channel used as a counting lock promises: of the    *)
(* users at most Max hold a permit at a time, a permit is taken only while *)
(* one is free, and only by a user that has none.  Admission implements    *)
(* this twice, with the peer limit and with the handshake slot.            *)
(***************************************************************************)
EXTENDS Integers, FiniteSets

CONSTANTS
  Users,        \* who may want a permit
  Max           \* how many permits there are

VARIABLE holders    \* who holds one now

Init == holders = {}

Take(u) ==
  /\ u \notin holders
  /\ Cardinality(holders) < Max
  /\ holders' = holders \cup {u}

GiveBack(u) ==
  /\ u \in holders
  /\ holders' = holders \ {u}

Next == \E u \in Users : Take(u) \/ GiveBack(u)

Spec == Init /\ [][Next]_holders
============================================================================
