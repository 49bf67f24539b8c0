------------------------------ MODULE SpiFlash ------------------------------
(***************************************************************************)
(* The flash commands (common/cmd_flash.c, common/flash.c), the SPI flash  *)
(* driver below them (board/ar7240/common/ar7240_flash.c) and the chip     *)
(* (external).  Addresses are offsets from CFG_FLASH_BASE.                 *)
(***************************************************************************)
EXTENDS Integers

CONSTANTS
  PAGE,        \* AR7240_SPI_PAGE_SIZE
  SECTOR,      \* CFG_FLASH_SECTOR_SIZE
  Sectors      \* sector_count

ASSUME SpiAssumption ==
  /\ PAGE \in Nat \ {0} /\ SECTOR \in Nat \ {0, 1} /\ Sectors \in Nat \ {0}
  /\ SECTOR % PAGE = 0

VARIABLES
  flash,       \* the bytes
  wip,         \* what the chip is at: [op, addr, data], or Idle
  drv          \* the driver call that runs: [op, ...], or Idle

flashVars == <<flash, wip, drv>>

Size     == SECTOR * Sectors
Bytes    == 0 .. Size - 1
Idle     == [op |-> "idle"]
Erased   == <<"ff", 0>>
Junk     == <<"junk", 0>>

\* A byte of the data src is <<src, its number>>.  Programming clears bits: over
\* an erased byte it leaves the new one, over another something else.
And(old, new) == IF old = Erased \/ old = new THEN new ELSE Junk

-----------------------------------------------------------------------------
(* The commands: which sectors `erase addr +len' erases.                   *)
Sector(a)    == a \div SECTOR
SectorEnd(s) == s * SECTOR + SECTOR - 1

\* Mutant of addr_spec: the end is the address behind the range.
addr_specBehind(addr, len) ==
  IF addr + len \in Bytes THEN SectorEnd(Sector(addr + len)) ELSE -1

\* The end address, rounded up to that of its sector; -1: not in flash.
addr_spec(addr, len) ==
  IF addr + len - 1 \in Bytes THEN SectorEnd(Sector(addr + len - 1)) ELSE -1

\* flash_fill_sect_ranges for the one bank: the start must begin a sector.
flash_fill_sect_ranges(first, last) ==
  {s \in 0 .. Sectors - 1 : first % SECTOR = 0 /\ s \in Sector(first) .. Sector(last)}

\* do_flerase: the sectors, none on an error.
do_flerase(addr, len) ==
  LET last == addr_spec(addr, len)
  IN  IF last = -1 \/ addr >= last THEN {} ELSE flash_fill_sect_ranges(addr, last)

-----------------------------------------------------------------------------
(* The driver. *)
FlashErase(addr, len) ==
  /\ drv = Idle
  /\ drv' = [op |-> "erase", addr |-> addr, len |-> len, left |-> do_flerase(addr, len),
             polling |-> FALSE, before |-> flash]
  /\ UNCHANGED <<flash, wip>>

\* flash_write, of len bytes from src: both ends must be in flash.
FlashWrite(src, addr, len) ==
  /\ len > 0 /\ addr \in Bytes /\ addr + len - 1 \in Bytes
  /\ drv' = [op |-> "write", addr |-> addr, len |-> len, src |-> src, total |-> 0,
             polling |-> FALSE, before |-> flash]
  /\ UNCHANGED <<flash, wip>>

\* write_buff computes the room in the page from the start of the whole write.
bytes_this_page(addr) == PAGE - (addr % PAGE)

len_this_lp ==
  LET rest == drv.len - drv.total
  IN  IF rest > bytes_this_page(drv.addr) THEN bytes_this_page(drv.addr) ELSE rest

\* The chip takes a command only when it is not busy.
Issue(cmd) == wip' = IF wip = Idle THEN cmd ELSE wip

First(S) == CHOOSE s \in S : \A t \in S : s <= t

\* ar7240_spi_sector_erase, up to the poll.
SpiSectorErase ==
  /\ drv.op = "erase" /\ ~drv.polling /\ drv.left # {}
  /\ Issue([op |-> "erase", addr |-> First(drv.left) * SECTOR])
  /\ drv' = [drv EXCEPT !.polling = TRUE]
  /\ UNCHANGED flash

\* ar7240_spi_write_page, up to the poll.
SpiWritePage ==
  /\ drv.op = "write" /\ ~drv.polling /\ drv.total < drv.len
  /\ Issue([op |-> "program", addr |-> drv.addr + drv.total,
            data |-> [k \in 0 .. len_this_lp - 1 |-> <<drv.src, drv.total + k>>]])
  /\ drv' = [drv EXCEPT !.polling = TRUE]
  /\ UNCHANGED flash

\* Mutant of SpiPoll: the status is not looked at.
SpiPollOnce ==
  /\ drv # Idle /\ drv.polling
  /\ drv' = IF drv.op = "erase"
            THEN [drv EXCEPT !.polling = FALSE, !.left = @ \ {First(@)}]
            ELSE [drv EXCEPT !.polling = FALSE, !.total = @ + len_this_lp]
  /\ UNCHANGED <<flash, wip>>

\* ar7240_spi_poll until the chip is no longer busy; the loop goes on.
SpiPoll ==
  /\ drv # Idle /\ drv.polling /\ wip = Idle
  /\ drv' = IF drv.op = "erase"
            THEN [drv EXCEPT !.polling = FALSE, !.left = @ \ {First(@)}]
            ELSE [drv EXCEPT !.polling = FALSE, !.total = @ + len_this_lp]
  /\ UNCHANGED <<flash, wip>>

\* The loop is over; the call returns with ar7240_spi_done.
DriverOver ==
  /\ drv # Idle /\ ~drv.polling
  /\ IF drv.op = "erase" THEN drv.left = {} ELSE drv.total >= drv.len

-----------------------------------------------------------------------------
(* The chip (external). *)

\* A program command that runs past the end of its page wraps to its start.
Programmed ==
  LET base == wip.addr - (wip.addr % PAGE)
      at(k) == base + (((wip.addr % PAGE) + k) % PAGE)
  IN  [i \in Bytes |-> IF \E k \in DOMAIN wip.data : at(k) = i
                       THEN And(flash[i], wip.data[CHOOSE k \in DOMAIN wip.data : at(k) = i])
                       ELSE flash[i]]

Finished ==
  IF wip.op = "erase"
  THEN [i \in Bytes |-> IF Sector(i) = Sector(wip.addr) THEN Erased ELSE flash[i]]
  ELSE Programmed

ChipFinishes ==
  /\ wip # Idle
  /\ flash' = Finished
  /\ wip' = Idle
  /\ UNCHANGED drv

\* Power is lost: the bytes that the chip is at are as before, as after or junk.
FlashPowerLoss ==
  /\ \/ UNCHANGED flash
     \/ wip # Idle /\ flash' = Finished
     \/ wip # Idle /\ flash' = [i \in Bytes |-> IF Finished[i] # flash[i] THEN Junk ELSE flash[i]]
  /\ wip' = Idle /\ drv' = Idle

-----------------------------------------------------------------------------
(* Properties. *)

\* flash_erase, write_buff: when the call is over, the sectors of the range are
\* erased, or every byte of the range is programmed with its data, and nothing
\* else has changed.  A write must begin a page or stay in one: any other is cut
\* up at the wrong places, and its pieces wrap inside their pages.
PageWise == drv.op = "erase" \/ drv.addr % PAGE = 0 \/ (drv.addr % PAGE) + drv.len <= PAGE

DoneAsAsked ==
  DriverOver /\ PageWise =>
    flash = [i \in Bytes |->
      IF drv.op = "erase"
      THEN IF i \in (Sector(drv.addr) * SECTOR) .. SectorEnd(Sector(drv.addr + drv.len - 1))
           THEN Erased ELSE drv.before[i]
      ELSE IF i \in drv.addr .. drv.addr + drv.len - 1
           THEN And(drv.before[i], <<drv.src, i - drv.addr>>) ELSE drv.before[i]]
=============================================================================
