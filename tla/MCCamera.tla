------------------------------ MODULE MCCamera ------------------------------
(* Camera on small instances: how many sizes each pixel format has.        *)
EXTENDS Camera

\* Every format has the same three sizes ...
ThreeSizes == [p \in Formats |-> 3]

\* ... or none that lies between the configured limits.
NoSizes == [p \in Formats |-> 0]
============================================================================
