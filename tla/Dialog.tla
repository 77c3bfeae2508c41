------------------------------- MODULE Dialog -------------------------------
(***************************************************************************)
(* What the client promises its user about passwords: one is chosen when   *)
(* there is none, it stays in use for as long as the server does not call  *)
(* it wrong, and the right one is never asked for again, whatever happens  *)
(* to connections and windows.  Session implements this.                   *)
(***************************************************************************)
CONSTANTS Passwords, Right, None

VARIABLE chosen     \* the password in use, or None while the user is asked

Init == chosen = None

Choose(p) == chosen = None /\ chosen' = p

Reject == chosen \notin {None, Right} /\ chosen' = None

Next == Reject \/ \E p \in Passwords : Choose(p)

Spec == Init /\ [][Next]_chosen
=============================================================================
