------------------------------ MODULE MCServer ------------------------------
(* Server on a small instance: a camera of two sizes. *)
EXTENDS Server
TwoSizes == [p \in Formats |-> 2]
=============================================================================
