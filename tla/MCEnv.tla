-------------------------------- MODULE MCEnv --------------------------------
(* EnvFlash for TLC: a name of each kind, a short and a long value, and room *)
(* for some but not all of the long ones.                                    *)
EXTENDS EnvFlash, TLC

CONSTANTS ethaddr, stdout, short, long

MCNames == {ethaddr, loadaddr, bootfile, stdout}
MCSize == (short :> 1) @@ (long :> 2)
MCDefault == [n \in {stdout} |-> short]
=============================================================================
