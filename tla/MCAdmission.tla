---------------------------- MODULE MCAdmission ----------------------------
(* Admission on a small instance.  The connections are model values of the *)
(* configuration; liveness is checked, so they are not made symmetric.     *)
EXTENDS Admission
============================================================================
