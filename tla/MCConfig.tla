------------------------------ MODULE MCConfig ------------------------------
(* Config on a small instance: one password with every stroke, and a short *)
(* one.                                                                    *)
EXTENDS Config
MCPasswords == {<<8, 4, 2, 1, 9, 10, 5, 6>>, <<8, 4>>}
=============================================================================
