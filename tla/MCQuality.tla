----------------------------- MODULE MCQuality -----------------------------
(* Quality with a range of rates and qualities as in the example           *)
(* configuration, and three resolutions (their pixels in tens of thousands) *)
EXTENDS Quality
MCPixels == [r \in 0 .. 2 |-> <<15, 31, 79>>[r + 1]]
=============================================================================
