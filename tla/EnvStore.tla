------------------------------ MODULE EnvStore ------------------------------
(***************************************************************************)
(* What the environment of the boot loader promises, without flash, CRC or *)
(* sizes: a set of variables that commands change, and a kept copy of them *)
(* that the next boot starts from.  While a save is running the kept copy  *)
(* is the default environment; a power loss then leaves it so.             *)
(***************************************************************************)
CONSTANTS
  Names, Values,
  DefaultEnv    \* the environment compiled into the boot loader

\* An environment: the names that are set, with their values.
Envs == UNION {[S -> Values] : S \in SUBSET Names}

Without(e, n) == [m \in DOMAIN e \ {n} |-> e[m]]

With(e, n, v) == [m \in DOMAIN e \cup {n} |-> IF m = n THEN v ELSE e[m]]

VARIABLES
  phase,    \* "off", "up", "saving"
  env,      \* the variables commands see
  sound,    \* would saving env keep it?
  kept      \* the environment of the next boot

vars == <<phase, env, sound, kept>>

Init == phase = "off" /\ env = DefaultEnv /\ sound = TRUE /\ kept \in Envs

Boot ==
  /\ phase = "off" /\ phase' = "up"
  /\ env' = kept /\ sound' = TRUE
  /\ UNCHANGED kept

Set(n, v) ==
  /\ phase = "up"
  /\ env' = With(env, n, v) /\ sound' = TRUE
  /\ UNCHANGED <<phase, kept>>

Delete(n) ==
  /\ phase = "up"
  /\ env' = Without(env, n) /\ sound' = TRUE
  /\ UNCHANGED <<phase, kept>>

\* A variable that no longer fits is lost, and with it the next save.
Spoil(n) ==
  /\ phase = "up" /\ n \in DOMAIN env
  /\ env' = Without(env, n) /\ sound' = FALSE
  /\ UNCHANGED <<phase, kept>>

BeginSave ==
  /\ phase = "up" /\ phase' = "saving"
  /\ kept' = DefaultEnv
  /\ UNCHANGED <<env, sound>>

EndSave ==
  /\ phase = "saving" /\ phase' = "up"
  /\ kept' = IF sound THEN env ELSE DefaultEnv
  /\ UNCHANGED <<env, sound>>

PowerLoss ==
  /\ phase # "off" /\ phase' = "off"
  /\ UNCHANGED <<env, sound, kept>>

Next ==
  \/ Boot \/ BeginSave \/ EndSave \/ PowerLoss
  \/ \E n \in Names : Delete(n) \/ Spoil(n) \/ \E v \in Values : Set(n, v)

Spec == Init /\ [][Next]_vars

=============================================================================
