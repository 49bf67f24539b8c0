------------------------------- MODULE MCTftp -------------------------------
(* Small instances of Tftp.  The ports of either end only have to differ. *)
EXTENDS Tftp, TLC

Symmetry == Permutations(Ports) \cup Permutations(Tids)
=============================================================================
