----------------------------- MODULE MCSession -----------------------------
(* Session on a small instance: passwords are model values of the cfg.     *)
EXTENDS Session
=============================================================================
