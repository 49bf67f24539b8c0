------------------------------ MODULE MCAg7240 ------------------------------
(* Instances of Ag7240 for TLC. *)
EXTENDS Ag7240
=============================================================================
