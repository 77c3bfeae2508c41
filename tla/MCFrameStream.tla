--------------------------- MODULE MCFrameStream ---------------------------
(* FrameStream on a small instance: the connections are model values of    *)
(* the cfg.                                                                *)
EXTENDS FrameStream
============================================================================
