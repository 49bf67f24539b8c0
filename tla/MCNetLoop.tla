------------------------------ MODULE MCNetLoop ------------------------------
(* NetLoop for TLC: the two MACs of the AR9331 and the time-outs of net.c. *)
EXTENDS NetLoop, TLC
=============================================================================
