------------------------------ MODULE MCLoady -------------------------------
(* Instances of Loady for TLC. *)
EXTENDS Loady
=============================================================================
