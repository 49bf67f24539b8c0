------------------------------ MODULE EnvFlash ------------------------------
(***************************************************************************)
(* The environment of the boards: the copy in RAM that common/cmd_nvedit.c *)
(* edits, its CRC, and the one flash area common/env_flash.c erases and    *)
(* rewrites, with no second copy.  Power may fail between any two steps.   *)
(*                                                                         *)
(* A CRC is modelled by the environment it was computed from: it is right  *)
(* for that one and wrong for any other.  Of a value only its size and     *)
(* whether it names a console device are told apart; the console device    *)
(* and the baud rate that a setenv switches to are left out.  The boards'  *)
(* own callers of setenv (NetLoop, netboot_update_env) are commands too.   *)
(*                                                                         *)
(* Some values are kept outside the environment too, where the commands    *)
(* look for them.  _do_setenv writes these copies, and so do commands that *)
(* do not change the environment: the arguments of tftpboot, nfs and dhcp, *)
(* the start address of a serial download, the file name of a BOOTP reply. *)
(***************************************************************************)
EXTENDS Integers, FiniteSets

CONSTANTS
  Names, Values, DefaultEnv,
  Size,         \* per value: the bytes of an entry name=value
  ENV_SIZE,     \* bytes in the data area
  WriteOnce,    \* names that cannot be changed once set: ethaddr, serial#
  Console,      \* stdin, stdout, stderr
  Drivers,      \* the values that name a console device
  Copied,       \* ethaddr, ipaddr, loadaddr, bootfile: kept outside it too
  loadaddr,     \* the name whose copy is load_addr
  bootfile,     \* the name whose copy is BootFile
  Macs,         \* ethaddr, eth1addr: the addresses of the devices
  Factory,      \* the address of a device that is stored in its flash sector
  NotSet,       \* no value
  Torn          \* a flash area that is erased, or partly erased or written

Envs == UNION {[S -> Values] : S \in SUBSET Names}

Without(e, n) == [m \in DOMAIN e \ {n} |-> e[m]]

With(e, n, v) == [m \in DOMAIN e \cup {n} |-> IF m = n THEN v ELSE e[m]]

Stores == [data : Envs, crc : Envs]     \* env_t

\* The bytes of the entries, each by its variable and its place in the entry.
Bytes(e) == UNION {{n} \X (1 .. Size[e[n]]) : n \in DOMAIN e}

Used(e) == Cardinality(Bytes(e))

ASSUME EnvAssumption ==
  /\ IsFiniteSet(Names)
  /\ WriteOnce \subseteq Names /\ Console \subseteq Names /\ Copied \subseteq Names
  /\ Macs \subseteq Names
  /\ loadaddr \in Copied /\ bootfile \in Copied \ {loadaddr}
  /\ Drivers \subseteq Values
  /\ Size \in [Values -> Nat \ {0}] /\ ENV_SIZE \in Nat
  /\ DefaultEnv \in Envs /\ Used(DefaultEnv) < ENV_SIZE
  /\ Torn \notin Stores /\ NotSet \notin Stores \cup Values

VARIABLES
  pc,         \* "off", "up" (at the prompt), "erase" and "write" (in saveenv)
  ram,        \* env_ptr: data and crc
  flash,      \* flash_addr: the same, or Torn
  copies,     \* bd->bi_enetaddr, bd->bi_ip_addr, load_addr, BootFile
  given,      \* history: the copies a command has written for itself since
              \* they were last taken from the environment
  enetaddr,   \* per name in Macs: the address its device uses
  lastSaved,  \* history: the ram of the last saveenv that completed, or NotSet
  cut         \* history: has power failed in a saveenv since?

vars == <<pc, ram, flash, copies, given, enetaddr, lastSaved, cut>>

-----------------------------------------------------------------------------
Sealed(e) == [data |-> e, crc |-> e]        \* env_crc_update

Valid(f) == f # Torn /\ f.crc = f.data

\* What env_init and env_relocate make of the flash area.
Stored == IF Valid(flash) THEN flash.data ELSE DefaultEnv

\* Mutant of Fits: the final '\0' is forgotten.
FitsExactly(e, v) == Size[v] <= ENV_SIZE - Used(e)

\* The size check of _do_setenv: the entry and the final '\0' fit.
Fits(e, v) == Size[v] + 1 <= ENV_SIZE - Used(e)

\* A variable that is set and may not be replaced, or not by this.
Protected(n, replacement) ==
  /\ n \in DOMAIN ram.data
  /\ n \in WriteOnce \/ (n \in Console /\ replacement \notin Drivers)

\* The copies board_init_r makes, and the one _do_setenv makes at its end.
CopiesOf(e) == [n \in Copied |-> IF n \in DOMAIN e THEN e[n] ELSE NotSet]

CopyOut(n, v) ==
  /\ copies' = IF n \in Copied THEN [copies EXCEPT ![n] = v] ELSE copies
  /\ given' = given \ {n}

\* eth_set_enetaddr, called by _do_setenv once the old entry is gone.
EthSetEnetaddr(n, v) ==
  enetaddr' = IF n \in Macs THEN [enetaddr EXCEPT ![n] = v] ELSE enetaddr

-----------------------------------------------------------------------------
\* Mutant of Boot: the CRC is not looked at.
BootUnchecked ==
  /\ pc = "off" /\ pc' = "up"
  /\ ram' = flash
  /\ copies' = CopiesOf(Stored) /\ given' = {}
  /\ enetaddr' = [n \in Macs |-> Factory]
  /\ UNCHANGED <<flash, lastSaved, cut>>

(* env_init, env_relocate and board_init_r's reading of the environment.    *)
(* ag7240_enet_initialize takes the addresses from flash, and on these      *)
(* boards eth_initialize does not replace them.                             *)
Boot ==
  /\ pc = "off" /\ pc' = "up"
  /\ ram' = IF Valid(flash) THEN flash ELSE Sealed(DefaultEnv)
  /\ copies' = CopiesOf(Stored) /\ given' = {}
  /\ enetaddr' = [n \in Macs |-> Factory]
  /\ UNCHANGED <<flash, lastSaved, cut>>

\* Mutants of SetEnv: no copy is made, and the CRC is not updated.
SetEnvNoCopy(n, v) ==
  /\ pc = "up" /\ ~Protected(n, v)
  /\ Fits(Without(ram.data, n), v)
  /\ ram' = Sealed(With(ram.data, n, v))
  /\ EthSetEnetaddr(n, v)
  /\ given' = given \ {n}
  /\ UNCHANGED <<pc, flash, copies, lastSaved, cut>>

SetEnvNoCrc(n, v) ==
  /\ pc = "up" /\ ~Protected(n, v)
  /\ Fits(Without(ram.data, n), v)
  /\ ram' = [ram EXCEPT !.data = With(@, n, v)]
  /\ CopyOut(n, v)
  /\ EthSetEnetaddr(n, v)
  /\ UNCHANGED <<pc, flash, lastSaved, cut>>

SetEnv(n, v) ==
  /\ pc = "up" /\ ~Protected(n, v)
  /\ Fits(Without(ram.data, n), v)
  /\ ram' = Sealed(With(ram.data, n, v))
  /\ CopyOut(n, v)
  /\ EthSetEnetaddr(n, v)
  /\ UNCHANGED <<pc, flash, lastSaved, cut>>

\* "environment overflow": the old entry is gone, the CRC is not updated, and
\* the device has the address the environment does not hold.
Overflow(n, v) ==
  /\ pc = "up" /\ ~Protected(n, v)
  /\ ~Fits(Without(ram.data, n), v)
  /\ ram' = [ram EXCEPT !.data = Without(@, n)]
  /\ EthSetEnetaddr(n, v)
  /\ UNCHANGED <<pc, flash, lastSaved, cut>>

SetEnvOverflow(n, v) == Overflow(n, v) /\ UNCHANGED <<copies, given>>

\* Deleting leaves the copies alone.
DelEnv(n) ==
  /\ pc = "up" /\ ~Protected(n, NotSet)
  /\ ram' = Sealed(Without(ram.data, n))
  /\ EthSetEnetaddr(n, NotSet)
  /\ UNCHANGED <<pc, flash, copies, given, lastSaved, cut>>

-----------------------------------------------------------------------------
(* The commands that write the copies.  An argument that is not given is   *)
(* NotSet.                                                                 *)

\* netboot_common, before it enters NetLoop: load_addr is pre-set from the
\* environment, BootFile is not.
NetbootCommon(addr, file) ==
  LET preset == loadaddr \in DOMAIN ram.data
  IN  /\ pc = "up"
      /\ copies' = [copies EXCEPT
                      ![loadaddr] = CASE addr # NotSet -> addr
                                      [] addr = NotSet /\ preset -> ram.data[loadaddr]
                                      [] OTHER -> @,
                      ![bootfile] = IF file # NotSet THEN file ELSE @]
      /\ given' = (IF preset THEN given \ {loadaddr} ELSE given)
                    \cup (IF addr # NotSet THEN {loadaddr} ELSE {})
                    \cup (IF file # NotSet THEN {bootfile} ELSE {})
      /\ UNCHANGED <<pc, ram, flash, enetaddr, lastSaved, cut>>

\* do_load_serial and do_load_serial_bin: the start address of the records,
\* or 0 after a kermit download that was aborted.
LoadSerial(addr) ==
  /\ pc = "up"
  /\ copies' = [copies EXCEPT ![loadaddr] = addr]
  /\ given' = given \cup {loadaddr}
  /\ UNCHANGED <<pc, ram, flash, enetaddr, lastSaved, cut>>

\* BootpCopyNetParams, in a running dhcp: BootFile is the file of the reply,
\* if it names one, and then becomes a value of the environment, if it fits.
BootpCopyNetParams(file) ==
  LET BootFile == IF file # NotSet THEN file ELSE copies[bootfile]
  IN  /\ BootFile # NotSet
      /\ \/ SetEnv(bootfile, BootFile)
         \/ /\ Overflow(bootfile, BootFile)
            /\ copies' = [copies EXCEPT ![bootfile] = BootFile]
            /\ given' = given \cup {bootfile}

-----------------------------------------------------------------------------

\* saveenv, up to the erase, the erase, and the write.
SaveEnv ==
  /\ pc = "up" /\ pc' = "erase"
  /\ UNCHANGED <<ram, flash, copies, given, enetaddr, lastSaved, cut>>

FlashErase ==
  /\ pc = "erase" /\ pc' = "write"
  /\ flash' = Torn
  /\ UNCHANGED <<ram, copies, given, enetaddr, lastSaved, cut>>

\* Mutant of FlashWrite: the write fails and is reported as done.
FlashWriteFails ==
  /\ pc = "write" /\ pc' = "up"
  /\ UNCHANGED flash
  /\ lastSaved' = ram /\ cut' = FALSE
  /\ UNCHANGED <<ram, copies, given, enetaddr>>

FlashWrite ==
  /\ pc = "write" /\ pc' = "up"
  /\ flash' = ram
  /\ lastSaved' = ram /\ cut' = FALSE
  /\ UNCHANGED <<ram, copies, given, enetaddr>>

\* Power fails, or the board is reset.
PowerLoss ==
  /\ pc # "off" /\ pc' = "off"
  /\ cut' = (cut \/ pc = "write")
  /\ UNCHANGED <<ram, flash, copies, given, enetaddr, lastSaved>>

Init ==
  /\ pc = "off" /\ ram = Sealed(DefaultEnv)
  /\ flash \in {Torn} \cup {Sealed(e) : e \in {f \in Envs : Used(f) < ENV_SIZE}}
  /\ copies = [n \in Copied |-> NotSet] /\ given = {}
  /\ enetaddr = [n \in Macs |-> Factory]
  /\ lastSaved = NotSet /\ cut = FALSE

Next ==
  \/ Boot \/ SaveEnv \/ FlashErase \/ FlashWrite \/ PowerLoss
  \/ \E n \in Names :
       DelEnv(n) \/ \E v \in Values : SetEnv(n, v) \/ SetEnvOverflow(n, v)
  \/ \E addr, file \in Values \cup {NotSet} : NetbootCommon(addr, file)
  \/ \E addr \in Values : LoadSerial(addr)
  \/ \E file \in Values \cup {NotSet} : BootpCopyNetParams(file)

Spec == Init /\ [][Next]_vars

-----------------------------------------------------------------------------
(* Properties. *)
\* The type of every variable.
TypeOK ==
  /\ pc \in {"off", "up", "erase", "write"}
  /\ ram \in Stores
  /\ flash \in Stores \cup {Torn}
  /\ copies \in [Copied -> Values \cup {NotSet}]
  /\ given \subseteq Copied
  /\ enetaddr \in [Macs -> Values \cup {NotSet, Factory}]
  /\ lastSaved \in Stores \cup {NotSet}
  /\ cut \in BOOLEAN

\* The environment a completed saveenv was given is the one of the next boot,
\* for as long as no power loss cuts a later saveenv short: through edits,
\* resets and the first half of another saveenv.
SaveenvSaves ==
  (lastSaved # NotSet /\ ~cut /\ pc # "write") => Stored = lastSaved.data

\* The same for an environment whose last setenv did not overflow.
SavedSurvives ==
  (lastSaved # NotSet /\ lastSaved.crc = lastSaved.data /\ ~cut /\ pc # "write")
     => Stored = lastSaved.data

\* A copy differs from a value the environment shows only where a command was
\* told another one since that variable was last set: setenv, a boot and a
\* network command without an address bring load_addr back to the environment,
\* setenv and a boot bring back BootFile, and the addresses never differ.
CopiesFresh ==
  pc # "off" => \A n \in Copied \cap DOMAIN ram.data :
                   copies[n] = ram.data[n] \/ n \in given \cap {loadaddr, bootfile}

\* The size check: entries and the final '\0' never fill more than data.
NoOverrun == pc # "off" => Used(ram.data) + 1 <= ENV_SIZE

phase ==
  CASE pc = "off" -> "off" [] pc = "write" -> "saving" [] OTHER -> "up"

Store == INSTANCE EnvStore WITH
           env <- ram.data, sound <- (ram.crc = ram.data), kept <- Stored

\* The board implements the abstract store: a boot starts from the environment
\* last saved, or from the default one if a saveenv was cut short or followed
\* an overflow, and nothing else changes what is kept.
ImplementsStore == Store!Spec

=============================================================================
