------------------------------- MODULE MCView -------------------------------
(* View on a small instance: every touch that moves makes one stroke. *)
EXTENDS View
Upward == {<<1, -3>>}
=============================================================================
