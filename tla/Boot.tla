-------------------------------- MODULE Boot --------------------------------
(***************************************************************************)
(* From reset to the kernel: main_loop and abortboot (common/main.c), the  *)
(* factory mode (common/factory.c), boot and recovery from USB             *)
(* (common/usb_boot.c) and the flash commands, with power lost at any      *)
(* moment.  The flash holds the boot loader with its environment, the      *)
(* firmware, of which the kernel is the first part, and the calibration.   *)
(***************************************************************************)
EXTENDS SpiFlash, Sequences, SequencesExt

CONSTANTS
  FwStart,       \* CFG_USB_RECOVERY_FW_START_IN_FLASH
  MaxRecovery,   \* CFG_MAX_USB_RECOVERY_FILE_SIZE
  KernelLen,     \* length of the kernel in a firmware image
  CalSector,     \* CAL_SECTOR
  Keys,          \* the strings bootdelaykey, .. bootstopkey2 (sequences)
  Chars,         \* what may be typed
  BootDelays,    \* values of bootdelay, in slots of 10 ms
  UsbBoot,       \* values of usbboot: "unset", "force", "gpio", "never", "other"
  Sticks,        \* USB sticks: sequences of partitions, each [rec, boot]: length
                 \* of the recovery file or 0, whether the boot file is good
  MaxLosses,     \* bound: how often power is lost
  MaxCmds,       \* bound: flash commands at the prompt
  CmdAddrs,      \* `erase addr +len' and `cp.b data addr len' given there
  CmdLens

ASSUME BootAssumption ==
  /\ FwStart \in Nat \ {0} /\ FwStart % SECTOR = 0
  /\ CalSector = Sectors - 1
  /\ MaxRecovery \in Nat \ {0} /\ FwStart + MaxRecovery <= CalSector * SECTOR
  /\ Keys \subseteq Seq(Chars)
  /\ \E k \in Keys : Len(k) > 0 /\ \A l \in Keys : Len(l) <= Len(k)
  /\ Sticks \subseteq Seq([rec : Nat, boot : BOOLEAN])
  /\ MaxLosses \in Nat /\ MaxCmds \in Nat
  /\ CmdAddrs \subseteq Nat \ (0 .. FwStart - 1) /\ CmdLens \subseteq Nat

VARIABLES
  stage,         \* what main_loop is at
  slots,         \* of the boot delay, still to come
  presskey,      \* the characters kept
  typed,         \* all the characters (history)
  seen,          \* how many of them had come at the last comparison (history)
  abort,
  bootdelay, production, usbboot,    \* of the saved environment
  button,        \* whether the button is held
  stick,
  part,          \* the partition the scan is at
  after,         \* what follows the scan: "scan" again, "bootcmd", "prompt"
  file,          \* length of the recovery file read
  flashed,       \* "Flashing sucsessful." is the last that was shown (history)
  losses, cmds

keyVars  == <<slots, presskey, typed, seen, abort>>
envVars  == <<bootdelay, production, usbboot, button>>
scanVars == <<part, after, file>>
vars     == <<flashVars, stage, keyVars, envVars, stick, scanVars, flashed, losses, cmds>>

NoStick == <<>>
Kept    == {i \in Bytes : i < FwStart \/ Sector(i) = CalSector}

\* The RAM after a reset; main_loop reads bootdelay and bootcmd.
Restarted ==
  /\ stage' = IF bootdelay < 0 THEN "prompt" ELSE "abortboot"
  /\ slots' = bootdelay /\ presskey' = <<>> /\ abort' = FALSE
  /\ typed' = <<>> /\ seen' = 0
  /\ part' = 1 /\ after' = "bootcmd"

Init ==
  /\ flash = [i \in Bytes |-> IF i \in Kept THEN <<"kept", i>> ELSE <<"old", i - FwStart>>]
  /\ wip = Idle /\ drv = Idle
  /\ bootdelay \in BootDelays /\ production \in BOOLEAN
  /\ usbboot \in UsbBoot /\ button \in BOOLEAN /\ stick \in Sticks
  /\ stage = "off" /\ slots = 0 /\ presskey = <<>> /\ typed = <<>> /\ seen = 0
  /\ abort = FALSE /\ part = 1 /\ after = "bootcmd" /\ file = 0
  /\ flashed = FALSE /\ losses = 0 /\ cmds = 0

PowerOn ==
  /\ stage = "off"
  /\ Restarted
  /\ UNCHANGED <<flashVars, envVars, stick, file, flashed, losses, cmds>>

PowerLoss ==
  /\ stage # "off" /\ losses < MaxLosses
  /\ stage' = "off" /\ losses' = losses + 1
  /\ FlashPowerLoss
  /\ UNCHANGED <<keyVars, envVars, stick, scanVars, flashed, cmds>>

\* From the stage st to nx, with nothing else changed.
Goes(st, nx) ==
  /\ stage = st /\ stage' = nx
  /\ UNCHANGED <<flashVars, keyVars, envVars, stick, scanVars, flashed, losses, cmds>>

-----------------------------------------------------------------------------
(* abortboot: in each slot the keys are compared with the end of what has  *)
(* been kept, then a character, if there is one, is read.  Bound: the user *)
(* types only before power is first lost.                                  *)
presskey_max == CHOOSE n \in {Len(k) : k \in Keys} : \A k \in Keys : Len(k) <= n

\* Mutants of Pushed: there is no limit; the first characters are kept.
PushedNoLimit(c) == Append(presskey, c)
PushedNoShift(c) == IF Len(presskey) < presskey_max THEN Append(presskey, c) ELSE presskey

\* presskey is shifted when it is full.
Pushed(c) == Append(IF Len(presskey) < presskey_max THEN presskey ELSE Tail(presskey), c)

\* A key of length 0 is not compared.
GotKey(str) == \E k \in Keys : Len(k) > 0 /\ IsSuffix(k, str)

AbortbootSlot ==
  /\ stage = "abortboot" /\ ~abort /\ slots > 0
  /\ slots' = slots - 1
  /\ abort' = GotKey(presskey) /\ seen' = Len(typed)
  /\ \/ UNCHANGED <<presskey, typed>>
     \/ losses = 0 /\ \E c \in Chars : presskey' = Pushed(c) /\ typed' = Append(typed, c)
  /\ UNCHANGED <<flashVars, stage, envVars, stick, scanVars, flashed, losses, cmds>>

AbortbootReturns ==
  /\ stage = "abortboot" /\ (abort \/ slots = 0)
  /\ stage' = IF abort THEN "prompt" ELSE "factory"
  /\ presskey' = <<>> /\ typed' = <<>> /\ seen' = 0 /\ abort' = FALSE /\ slots' = 0
  /\ UNCHANGED <<flashVars, envVars, stick, scanVars, flashed, losses, cmds>>

-----------------------------------------------------------------------------
\* carambola_factory_mode: the image from the server is started, or the board
\* is reset; it never comes back.
FactoryMode ==
  \/ production /\ Goes("factory", "kernel_net")
  \/ /\ production /\ stage = "factory" /\ Restarted
     /\ UNCHANGED <<flashVars, envVars, stick, file, flashed, losses, cmds>>
  \/ ~production /\ Goes("factory", "usb")

\* Mutant of DoUsbBoot: "force" without the button does nothing.
DoUsbBootNoForce ==
  /\ stage = "usb"
  /\ stage' = IF usbboot # "never" /\ button THEN "scan" ELSE "bootcmd"
  /\ part' = 1 /\ after' = "bootcmd"
  /\ UNCHANGED <<flashVars, keyVars, envVars, stick, file, flashed, losses, cmds>>

\* do_usb_boot.  With "force" the scan is made, and made again with the button.
DoUsbBoot ==
  LET gpio == usbboot \in {"force", "gpio", "unset"}
  IN  /\ stage = "usb"
      /\ stage' = IF usbboot = "force" \/ (gpio /\ button) THEN "scan" ELSE "bootcmd"
      /\ part' = 1 /\ after' = IF usbboot = "force" /\ button THEN "scan" ELSE "bootcmd"
      /\ UNCHANGED <<flashVars, keyVars, envVars, stick, file, flashed, losses, cmds>>

\* usbboot_scan at a partition: recovery first, then boot.
ScanRecovery ==
  /\ stage = "scan" /\ part <= Len(stick) /\ stick[part].rec > 0
  /\ file' = IF stick[part].rec > MaxRecovery THEN MaxRecovery ELSE stick[part].rec
  /\ stage' = "erase" /\ flashed' = FALSE
  /\ FlashErase(FwStart, file')
  /\ UNCHANGED <<keyVars, envVars, stick, part, after, losses, cmds>>

ScanBoot ==
  /\ part <= Len(stick) /\ stick[part].rec = 0 /\ stick[part].boot
  /\ Goes("scan", "kernel_usb")

ScanNext ==
  /\ stage = "scan" /\ part <= Len(stick) /\ stick[part].rec = 0 /\ ~stick[part].boot
  /\ part' = part + 1
  /\ UNCHANGED <<flashVars, stage, keyVars, envVars, stick, after, file, flashed, losses, cmds>>

ScanEnds ==
  /\ stage = "scan" /\ part > Len(stick)
  /\ stage' = after
  /\ part' = 1 /\ after' = "bootcmd"
  /\ UNCHANGED <<flashVars, keyVars, envVars, stick, file, flashed, losses, cmds>>

\* The driver's loops, in whichever command they run.
DriverSteps ==
  /\ SpiSectorErase \/ SpiWritePage \/ SpiPoll
  /\ UNCHANGED <<stage, keyVars, envVars, stick, scanVars, flashed, losses, cmds>>

ChipSteps ==
  /\ ChipFinishes
  /\ UNCHANGED <<stage, keyVars, envVars, stick, scanVars, flashed, losses, cmds>>

\* `erase ...; cp.b ...' of usbboot_recovery: the copy follows the erase.
RecoveryCopies ==
  /\ stage = "erase" /\ DriverOver
  /\ stage' = "write"
  /\ FlashWrite("new", FwStart, file)
  /\ UNCHANGED <<keyVars, envVars, stick, scanVars, flashed, losses, cmds>>

\* "Flashing sucsessful.", and the reset.
RecoveryEnds ==
  /\ stage = "write" /\ DriverOver
  /\ drv' = Idle /\ flashed' = TRUE
  /\ Restarted
  /\ UNCHANGED <<flash, wip, envVars, stick, file, losses, cmds>>

\* run_command(bootcmd): bootm starts the kernel if it is whole.
KernelWhole ==
  \E v \in {"old", "new"} : \A i \in 0 .. KernelLen - 1 : flash[FwStart + i] = <<v, i>>

Bootcmd ==
  \/ KernelWhole /\ Goes("bootcmd", "kernel_flash")
  \/ ~KernelWhole /\ Goes("bootcmd", "prompt")

-----------------------------------------------------------------------------
(* The user: at the prompt, and with the stick. *)
PromptErase ==
  /\ stage = "prompt" /\ losses = 0 /\ cmds < MaxCmds /\ cmds' = cmds + 1
  /\ \E a \in CmdAddrs, n \in CmdLens : a + n <= FwStart + MaxRecovery
       /\ do_flerase(a, n) # {} /\ FlashErase(a, n)
  /\ UNCHANGED <<stage, keyVars, envVars, stick, scanVars, flashed, losses>>

PromptCopy ==
  /\ stage = "prompt" /\ losses = 0 /\ cmds < MaxCmds /\ cmds' = cmds + 1
  /\ \E a \in CmdAddrs, n \in CmdLens : a + n <= FwStart + MaxRecovery
       /\ drv = Idle /\ FlashWrite("cmd", a, n)
  /\ UNCHANGED <<stage, keyVars, envVars, stick, scanVars, flashed, losses>>

PromptReturns ==
  /\ stage = "prompt" /\ DriverOver
  /\ drv' = Idle
  /\ UNCHANGED <<flash, wip, stage, keyVars, envVars, stick, scanVars, flashed, losses, cmds>>

\* The command usb_boot_file; and reset.
PromptUsb ==
  /\ stage = "prompt" /\ drv = Idle
  /\ stage' = "scan" /\ part' = 1 /\ after' = "prompt"
  /\ UNCHANGED <<flashVars, keyVars, envVars, stick, file, flashed, losses, cmds>>

PromptReset ==
  /\ stage = "prompt" /\ drv = Idle /\ losses < MaxLosses /\ losses' = losses + 1
  /\ Restarted
  /\ UNCHANGED <<flashVars, envVars, stick, file, flashed, cmds>>

RemoveStick ==
  /\ flashed /\ stick # NoStick
  /\ stick' = NoStick /\ part' = 1
  /\ UNCHANGED <<flashVars, stage, keyVars, envVars, after, file, flashed, losses, cmds>>

Board ==
  \/ PowerOn \/ AbortbootSlot \/ AbortbootReturns \/ FactoryMode \/ DoUsbBoot
  \/ ScanRecovery \/ ScanBoot \/ ScanNext \/ ScanEnds
  \/ DriverSteps \/ RecoveryCopies \/ RecoveryEnds \/ Bootcmd

User == PromptErase \/ PromptCopy \/ PromptReturns \/ PromptUsb \/ PromptReset

Next == Board \/ ChipSteps \/ PowerLoss \/ User \/ RemoveStick

Spec == Init /\ [][Next]_vars

\* The processor and the chip run and power comes back.  The user does what the
\* message asks for, "Remove USB storage with recovery image.", in the end before
\* the reset that follows it has led into the next recovery: hence strong.
FairSpec ==
  Spec /\ WF_vars(Board) /\ WF_vars(ChipSteps) /\ SF_vars(RemoveStick)

-----------------------------------------------------------------------------
(* Properties. *)

\* The type of what the stages change; abortboot keeps no more characters than
\* presskey has room for.
TypeOK ==
  /\ flash \in [Bytes -> {"kept", "old", "new", "cmd", "ff", "junk"} \X Bytes]
  /\ stage \in {"off", "abortboot", "factory", "usb", "scan", "erase", "write", "bootcmd",
                "prompt", "kernel_net", "kernel_usb", "kernel_flash"}
  /\ Len(presskey) \in 0 .. presskey_max
  /\ part \in 1 .. Len(stick) + 1 /\ after \in {"scan", "bootcmd", "prompt"} /\ file \in 0 .. MaxRecovery
  /\ losses \in 0 .. MaxLosses /\ cmds \in 0 .. MaxCmds

\* usbboot_recovery and `erase' within the firmware, whatever the length, whenever
\* power is lost: the boot loader, the environment and the calibration stay.
Spared == \A i \in Kept : flash[i] = <<"kept", i>>

\* abortboot stops the boot when, and only when, one of the keys has been typed,
\* whatever came before it, by the comparison that follows.
StopHeard ==
  stage = "abortboot" => (abort <=> \E n \in 0 .. seen : GotKey(SubSeq(typed, 1, n)))

\* A recovery that the boot itself starts is carried through, however often power
\* is lost in it, as long as the stick stays until the message: the board comes
\* to run the kernel of the whole new firmware.  It may stop at the prompt only
\* where it was told to, by a key or a negative bootdelay, or where the file is no
\* kernel; not because bootm has found the firmware in pieces.
UsbTried == ~production /\ (usbboot = "force" \/ (usbboot \in {"gpio", "unset"} /\ button))
FwWhole  == \A i \in 0 .. file - 1 : flash[FwStart + i] = <<"new", i>>
Recovers ==
  (stage = "erase" /\ UsbTried) ~>
    ((stage = "kernel_flash" /\ FwWhole) \/ abort \/ bootdelay < 0 \/ file < KernelLen)
=============================================================================
