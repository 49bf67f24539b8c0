# Caraboot in TLA+

Caraboot is 8devices' fork of U-Boot 1.1.4 for the Carambola2 (AR9331) and Lima
boards.  These modules model the parts of it that carry state over many steps
and meet the outside world: the TFTP, DHCP and NFS clients, the polling loop that
runs them over a ring of ethernet devices, the driver's receive ring, the
environment in flash, the boot from reset to the kernel with its recovery from
USB, the SPI flash below it, and the download over the serial line.  Small
instances are checked with TLC; the central properties are proved with TLAPS for
all values of the constants.

All paths below are relative to `src/u-boot/`.

## The system

| component | state | operations | what makes it correct |
|---|---|---|---|
| TFTP client, `net/tftp.c` | `TftpState`, ports, block number, last block, wrap offset, time-out count | start, one handler per packet type, time-out | what it calls a success is the file, in place and complete; a tolerable number of losses does not stop it |
| network loop, `net/net.c` | `NetState`, handlers, one timer, ARP wait, `NetRestarted` | command start, `eth_rx`, Ctrl-C, ARP and protocol time-outs, `NetStartAgain` | every command returns; `netretry` is obeyed |
| device ring, `net/eth.c` | current device, `first_failed`, `NetRestartWrap` | init, halt, try another | each device is tried as often as asked; only the current one receives |
| driver, `cpu/mips/ar7240/ag7240.c` | descriptor ring per device, shared buffers behind the cache, receiver switch | recv, clean_rx, halt | accepted frames are handed over once and in order; a receiver that ran out of descriptors goes on |
| environment, `common/cmd_nvedit.c`, `env_flash.c`, `env_common.c` | RAM copy with CRC, flash area, copies of some variables | setenv, delete, saveenv, boot; commands that write the copies | what was saved is what the next boot finds; a copy is stale only where a command made it so |
| DHCP, `net/bootp.c` | state, transaction number, tries, address | request, handler per state, time-out | the address bound is one a server gave this board; a lost or refused message does not stop it |
| NFS, `net/nfs.c` | state, call number, path, offset, symbolic link | start, one handler for every reply, time-out | what it calls a success is the file the name leads to; it ends |
| SPI flash, `board/ar7240/common/ar7240_flash.c`, `common/cmd_flash.c`, `common/flash.c` | the chip: bytes, busy, write enable | erase sectors, write pages, poll | exactly the range asked for is erased and written |
| boot flow, `common/main.c`, `factory.c`, `usb_boot.c` | keys typed, boot delay, button, stick and partition, recovery | abort, factory mode, USB boot, recovery, commands, reset | the stop keys are heard; nothing but the firmware is touched; a recovery is carried through |
| serial download, `common/xyzModem.c`, `cmd_load.c` | next block, buffer, retries, length | open, header, read, cancel | what is stored are the first bytes of the file that it is to keep, in order; it ends |
| bootm, kermit, hush, USB, FAT, start-up code | | | not modelled (see the end) |

There are no threads and no interrupts that change this state.  The
concurrency is with the network, the DMA engine, the flash chip, the serial
line, the clock and the power supply: `NetLoop` polls,
`eth_rx` calls the handler of the current protocol for every frame in the ring of
the device, handlers send, restart or finish by setting `NetState`, and the loop
looks at `NetState` only at the end of an iteration.  Handlers, time-out
functions and `NetStartAgain` change the device ring under the feet of the
driver that called them.  The environment is read and written by all of them.
What is hard to test is therefore: losses, repetitions and late packets; several
events in one iteration; time-outs that run at the same time; failures in the
middle of a command and what the next command finds; power loss in `saveenv` or
in a recovery; and the boundaries of counters, pages and sectors.  `PROJECT.json` lists these places line by line
with the properties aimed at them.

## The modules

### Tftp

State and actions are those of `tftp.c`, with the same names.  `TftpHandler` is
a disjunction of one action per packet type; `HandleBlock` is the whole path of a
new DATA packet (wrap offset, `store_block`, timer, acknowledgement, end of
transfer).  `NetStartAgain` is seen by its caller only: another attempt, or
failure.  A frame handled after `NetState` has changed is one that had arrived by
then (`batch`): `eth_rx` hands these over before the loop looks at `NetState`.  The
time-out may still run after them.

The server and the network are external: a lock-step server that repeats its
current block on its own timer or on a repeated acknowledgement, that may open a
session for every copy of a request, with or without OACK, and a set of packets in
flight.  With `CanDuplicate` a packet stays in that set when it is handled, so it
can be handled any number of times, at any later time or never.

Data: a block is its number in the file; memory counts blocks; block numbers are
taken modulo `SeqSize` and memory offsets modulo `MemBlocks`, the 16 and 32 bits
of the code.

### NetLoop

One command is `NetLoop`, then `Start` (the label `restart`), then iterations of
`EndRx`, `ArpTimeoutCheck`, `TimerCheck`, `Switch`, with frames (`Receive`) and
Ctrl-C (`Abort`) in between.  `NetStartAgain` and the operations of `eth.c` are
functions on the record `eth`.  `RxTail` is the end of `ag7240_recv`, which looks at
the receiver of the device it was *called* for (`polled`).  The protocols are
tftpboot and ping; a frame is reduced to what the loop sees of it: an ARP reply,
progress, success or an error.  Time is counted in seconds left; `Tick` is
possible only when nothing is due, i.e. an iteration is short compared with a
second.  `wrapped` is history: `NetRestartWrap` as the command's own `eth_init` left it.
An iteration in which nothing happens changes nothing and is left out
(`SomethingToDo`).

Tftp and NetLoop meet at `NetStartAgain`, the timer and the iteration: Tftp allows
what NetLoop can do there (several `NetStartAgain`, a time-out in the same
iteration, success after a failure), and NetLoop keeps of Tftp what ends or
prolongs a command.

### EnvFlash and EnvStore

`EnvFlash` has the RAM copy with its CRC, the flash area, the copies outside the
environment, and the devices' addresses.  `saveenv` is three steps (start, erase,
write) and `PowerLoss` may come between any two.  A CRC is modelled by the data it
was computed from.  An erased or half-written area is `Torn`: its CRC is wrong
(the chance of a matching one is ignored).  Of text only the size is kept: an entry
occupies `Size` of its value bytes, `Bytes` is what the environment occupies.

The copies have writers that do not touch the environment, each an action:
`NetbootCommon` (`cmd_net.c:161`: `load_addr` is pre-set from `loadaddr`, then both
`load_addr` and `BootFile` are taken from the arguments), `LoadSerial` (the start address
of a `loads` or `loadb`) and `BootpCopyNetParams` (`bootp.c:128`: `BootFile` from the reply,
and from there into the environment, if it fits).  `given` is history: the copies that
were written so since a `setenv`, a boot or a pre-set last took them from the environment.
`CopiesFresh` says that only these can differ, and only `load_addr` and `BootFile`.

`EnvStore` is what a user may expect: variables, and a kept copy that is the
default environment while a save is running.  `EnvFlash` implements it
(`ImplementsStore`) with `kept` mapped to what `env_init` would make of the flash
area, and `sound` to "the CRC is right".  That `EnvStore` needs a step `Spoil` is
finding 2 below.

### Ag7240 and RxQueue

Per device a ring of descriptors with an owner, the driver's `next_rx` and the
engine's position; buffers that all devices share, each as memory and as the CPU
sees it through the cache.  `ag7240_recv` is one step per access that the engine
can come between: the test of the descriptor, the frame handed to `NetReceive`
(which may build its answer in the buffer), cache flush, hand-back, and the restart
of a receiver that has switched itself off (`RestartRx`).  `Open` is `ag7240_halt` of
the current device and `ag7240_clean_rx` of the next.  The engine (external) fills the next
descriptor it owns and stops at one it does not own.  `RxQueue` is what the rest of
the network code relies on: a queue of at most `NO_OF_RX_FIFOS` frames.  `Ag7240`
implements it without restarts inside a handler (`Spec`); `RestartSpec` has them.

### NetBase, Dhcp, Nfs and NetBoot

`NetBase` is the part of the loop that the protocols share: `NetState`, the one
packet handler, the one timer, and the count of the network's faults.  `Dhcp` has `BootpRequest`,
`DhcpHandler` in its states, `BootpTimeout` and the servers; `Nfs` has `NfsStart`,
`NfsHandler` with every reply it parses, `NfsTimeout` and the server.  `NetBoot`
composes them: `dhcp` with autoload `no` or `NFS` (where `DhcpHandler` starts NFS in
the handler), and `nfs`.  Frames that are left and the timer may still run after
`NetState` has been set, until the loop looks at it (`NetLoopReturns`).

Data: DHCP options are reduced to the message type, address and server; a file name
is a short sequence of characters, because `nfs_readlink_reply` edits the path in
place; a file handle is the name it was given for.

### SpiFlash and Boot

`SpiFlash` has the operators that say which sectors `erase addr +len` erases
(`addr_spec`, `flash_fill_sect_ranges`) and which pages `write_buff` programs, and the
steps of `flash_erase` and `write_buff` with their polls.  The chip (external)
is busy for a while after a command, ignores what comes meanwhile, clears bits
only, and wraps inside a page.  `Boot` is everything from reset on: `abortboot` with its
window of keys, factory mode, `do_usb_boot` over the partitions of a stick,
`usbboot_recovery` (erase, write, with the result ignored), `bootcmd`, the prompt with
`erase`, `cp.b` and `usb_boot_file`, and power loss between any two steps of the
chip.

### Loady

`load_serial_ymodem` with `xyzModem_stream_open`, `xyzModem_get_hdr` and
`xyzModem_stream_read`, one step per header.  The sender (external) is a Y-modem
sender with 128-byte blocks; the line spoils blocks and answers; the sender may be late, so
that the board's request and its block cross; it may be cancelled or never
started.  Block numbers are taken modulo `SeqSize`, 256 in the code.  The empty header
at the end of a session is a block with number 0, as on the line.  `Cut` says how much
of a block counts.  With an announced length that is all of the file.  Without, the code
(`xyzModem.c:567-573`) removes the trailing ^Z of *every* block that ends in three,
padding or not, in the middle of the file or at its end; so the model has the positions of the
file's own ^Z (`Eofs`, any set), and `Wanted` are the bytes that are left.  A shortened
block puts the end of `ymodemBuf` inside a later block, whose rest stays in `xyz.pkt`
for the next call: it is the part of `buf` behind the first `BUFFER` bytes.  `InSequence`
and `Loads` are about `Wanted`: nothing else is stored, in no other order, and in the end all
of it.  What `xyzModem_flush` throws away after a time-out is not modelled there; it
is a loss by `Noise`.

## The runs

| run | result | shows |
|---|---|---|
| `Tftp_chaos` | pass, 487 000 states | unbounded duplication and reordering, errors, two attempts, two sessions: `CompleteOnSuccess`, the inductive invariant `TransferInv`, and `OneServer` |
| `Tftp_long` | pass, 207 000 states | a file of more than two sequence spaces, two losses, errors, restarts: `RightPlace`, `CompleteOnSuccess`, and `Downloads`: success unless the server refuses |
| `Tftp_wrap` | violation | finding 1 |
| `NetLoop_all` | pass, 271 000 states | two devices, all links and addresses, two commands, all `netretry`, three frames: `SilentNet`, `OneAttempt`, `AttemptsBounded`, `Returns` |
| `Ag7240_ring` | pass, 32 000 states | two devices, seven frames through three descriptors: `InOrder`, refinement of `RxQueue`, `Resumes` (a receiver that stopped is restarted), `Received` (a frame accepted is handed over or its command ends) |
| `Ag7240_restart` | violation | finding 3 |
| `NetBoot_all` | pass, 107 000 states | dhcp with two servers, nfs through links, one fault of any kind anywhere: `BoundToLease`, `NfsComplete`, `Ends`, `Binds` |
| `Env_flash` | pass, 509 000 states | four names, edits, network and serial commands, BOOTP replies, saves, power loss: `SavedSurvives`, `CopiesFresh`, `NoOverrun`, refinement of `EnvStore` |
| `Env_overflow` | violation | finding 2 |
| `Boot_all` | pass, 147 000 states | every setting, three sticks, keys, commands, power lost twice: `DoneAsAsked`, `Spared`, `StopHeard`, `Recovers` |
| `Loady_all` | pass, 281 000 states | a file with ^Z in it, with and without a length, two faults of the line, one late answer, cancel: `InSequence`, `Loads`, `Returns` |
| `Loady_cancel` | violation | finding 4 |

Bounds.  *Tftp*: three blocks are a first, a middle and a short last one; two
client ports are a restart with packets of the attempt before; two server ports are
a second session for a repeated request.  `SeqSize` 4 makes the number of `Tftp_long`'s
nine blocks wrap twice.  It leaves out the loss of an acknowledgement
of block number 0 (`LosesWrapAck`), which is finding 1.  `TIMEOUT_COUNT` is 1 or 2
instead of 10; its value only says how often.  `Ports` bounds the attempts: where the
code would try again with a port that is not there, the model returns a failure (as
after Ctrl-C).  *NetLoop*: two devices are what the AR9331 has; the times
and `ARP_TIMEOUT_COUNT` are those of the code, `TIMEOUT_COUNT` is 1 for 10; three frames
suffice for an ARP reply and two errors; two commands for what one leaves to the
next.  `Many` caps the number of attempts counted.  *Ag7240*: three descriptors
(the code has more) are one being handled, one filled and one free; seven
frames go round twice.  *NetBoot*: `MaxFaults` 1 places one loss, repetition,
refusal or early time-out anywhere; two servers are an offer that is not taken; the
links are a relative, an absolute and a chain; a session is one `dhcp` or up to two
`nfs` commands.  The names of relative links are no longer than their targets (see
below).  A timer that runs out in the very iteration of a DHCP success is left out.
*Boot*: four sectors of two pages are the loader with its environment, two of
firmware and the calibration; recovery files of less than a sector, of one
that is too long, and none; the user types only before the first power loss; two losses
are one in a recovery and one in the recovery after it; commands have addresses inside and
at the start of a sector.  *Loady*: four blocks with a number that wraps at three, a
chunk of two blocks, a last block that is padding for the most part, a first one that
ends in one ^Z, which stays, and a second that ends in two, as many as are taken for padding
(`PadMin` 2 for 3), so that the third is cut in two by the end of the buffer;
`MAX_RETRIES` 8 for 20 leaves room for the faults.  *Env*: one name of each kind
(write-once and copied, `loadaddr`, `bootfile`, console), a short and a long value, and room for some of the
long ones.

Fairness.  `Tftp`: the loop polls for ever and never blocks, so a packet that
stays in flight is received, and a finished iteration ends (weak fairness); the
server answers (assumed).  The time-out is strongly fair: a repeated block does not
set the timer again (`tftp.c:261`), so it runs out even if such blocks keep
coming.  In `Tftp_long` packets are faster than time-outs (`Patient`).  `NetLoop`: the
loop runs and time passes.  No fairness is assumed of frames, so `Returns` holds for a
silent network too.  `Ag7240`: the loop calls `eth_rx` again and again, and
`ag7240_recv` goes on; nothing is assumed of the engine.  `NetBoot`: the loop runs, so
frames are handled, the timer expires and the command returns; servers that have not
stopped answer.  `Boot`: the board runs and the chip finishes; the user takes the stick
out at some point if the board asks for it again and again (strong, only used
by `Recovers`, which accepts the prompt as an outcome only after a stop key or with a
negative `bootdelay`, or when the file is no kernel).  `Loady`: the board runs, and a sender that was started goes on.

## Findings

1. `tftp.c:227`: a repeated block number 0 bumps the wrap offset again; everything
   after it is stored 32 MB too far (`Tftp_wrap`).
2. `cmd_nvedit.c:308`: after an overflow the CRC is stale; the next `saveenv` writes
   an environment that the next boot rejects (`Env_overflow`).
3. `ag7240.c:110`: a handler that restarts the command on the same device sets
   `next_rx` to 0 inside `ag7240_recv`, which then increments it; frames are
   handed over late and out of order from then on (`Ag7240_restart`).
4. `xyzModem.c:620`: a transfer that ends inside a chunk leaves `xyz.len = -1`, and
   the next call copies that many bytes (`Loady_cancel`).

Other behaviour that TLC showed while the properties were being found, for which no
run is kept; where a property is stated with a condition, this is why:

- `net.c:259`: without `netretry`, a ping to a host that does not answer ARP never
  returns: the ARP time-out restarts it before `PingTimeout`.  Factory mode
  (`common/factory.c:37`) pings before it sets `netretry`.  `Returns` is stated for
  `no` and `once`.
- `ag7240.c:114`: `ag7240_recv` switches on the receiver of a device that a handler
  has just halted and left, and `net.c:654`: two `NetStartAgain` in one iteration
  both count as the first, so with `netretry=once` a device is tried twice or never.
  `SilentNet` is stated for commands without frames.
- `eth.c:419`: `NetLoop`'s own `eth_init` walks the ring past devices without a link and
  sets `NetRestartWrap` when it passes the `first_failed` that an *earlier* command left.
  Only `NetStartAgain` clears the mark (`net.c:656`), so it also outlives a command that
  was aborted or refused.  A tftpboot with `netretry=once` that begins with it set fails
  after its first device, where README:2540 says "fail when all the available network
  interfaces are tried once without success".  This takes three commands and a cable
  that is moved, or three devices and two commands: more than `NetLoop_all` has.  It came
  out of the proof of `SilentNet`, which failed on the earlier, unconditional statement;
  the statement now excepts commands that begin so (`wrapped`).
- `net.c:655`: with `netretry=once` a command that fails in `NetStartAgain` leaves the next
  device switched on; `net.c:557`: on a device without an address the loop runs with the
  handler and timer of the command before, and an aborted ping's can end a tftpboot.  `SilentNet`
  excepts that way out and asks for addresses.
- `cmd_net.c:161`: `load_addr` is pre-set for every network command, `BootFile` is not: a file
  name given to one `tftpboot` is used by a later one without arguments although `bootfile` shows
  another.  `CopiesFresh` allows for it (`given`).
- `cmd_nvedit.c:230`: deleting `baudrate` reads `argv[2]`, which is NULL then.
- `eth.c:267`: on these boards `ethaddr` in the environment does not override the
  device's address at boot, against the README of U-Boot.
- `ar7240_flash.c:176`: `write_buff` cuts data that starts inside a page and does not
  fit into it at the wrong places.  Recovery and `saveenv` start at a page;
  `DoneAsAsked` is stated for such writes (`PageWise`).
- `nfs.c:533`: after a relative link the terminator is one character too far.  If the
  link's name is longer than its target, what is left of it is looked up too.
- `xyzModem.c:588`: with both a spoilt block and a late sender, the acknowledgement
  of a repeated block can be taken for that of the spoilt one; the transfer then fails
  after its retries, and a truncated file can be accepted if that was the last block.
  `Loads` leaves out sessions with both.
- `xyzModem.c:555`: the empty header is told from data by its number alone, which is 0.  If
  a late answer and a lost EOT bring the sender there while the board is still reading, and
  the number that is due is 0 (with one late answer: the file has one block less than a multiple
  of 256), the header is stored as data.  The proof of `InSequence` found this; with three block
  numbers and one late answer TLC shows it for a file of two blocks.
- `xyzModem.c:592`: when the last retry is used up by a block that has come again, the loop
  falls out of its `while` without an error, and the block is stored a second time.
  This takes half as many faults as there are retries (`MAX_RETRIES` 6 and three faults
  show it), which is why `InSequence` is proved for fewer.
- `xyzModem.c:567`: without an announced length, data of the file that looks like padding
  at the end of any block is lost.  The comment at line 565 says that the code "tries to
  detect and remove" padding, so this is a limit of the method, not a disagreement.
- `cmd_load.c:1029`: a cancelled or failed `loady` sets `filesize` like a complete one.

## The proofs

Eight modules hold them: `TftpProofs`, `TftpLongProofs`, `EnvProofs`, `Ag7240Proofs`, `NetBootProofs`,
`BootProofs`, `NetLoopProofs` and `LoadyProofs`.  No constant has a fixed value there.  The assumptions
are the named `ASSUME`s of the modules proved about, which TLC evaluates in every run;
they say that sizes, counts and bounds are natural numbers (pages, sectors and
the like not 0), that the environment has finitely many names, that the NFS
server's links and `Goal` are what they stand for and there is a longest file, that the
firmware lies between the loader and the calibration and commands are given addresses
behind the loader, and that there is a longest stop key.  Where a theorem needs more,
it is in its statement: `NoWrap`, `OneAtATime`, `LinksFit`, `ArpGivesUpFirst`, `ArpAsksAgain`,
`FewFaults`, `NumbersTell`, `FinApart`.  The constants of the runs satisfy all of these
but `NoWrap`, which `Tftp_chaos` satisfies and `Tftp_long` does not, and `OneAtATime`,
where it is the other way round.

*Type correctness* (`TftpType`, `EnvType`).  For Tftp this needs `GaveUp`: when the
time-out count exceeds its limit, no time-out can come before the restart.

*The download* (`TftpTransfer`, `TftpComplete`), for a file with fewer blocks than there are sequence numbers (`NoWrap`; longer files are next).  `CompleteOnSuccess` is not
inductive: the handler stores a short block without asking for those before it.
The reason it is right lies with the server, so the invariant has to follow the
packets: every packet belongs to a session of a client port in use
(`PacketOrigin`, `ClientInSession`); while the attempt goes on, nothing is
acknowledged before it and everything before it is in memory, hence the server is at most
one block ahead (`AckedIsStored`); for the frames that are left after `NetState`
has changed this was frozen at that moment (`BatchIsBehind`), because from then on a
block that was not stored can be acknowledged; sizes and numbers follow
(`SizeIsRight`, `NumbersAreBlocks`).  `RightPlace` follows from the same invariant.
`TransferInv` is their conjunction; one lemma per action
shows that it is preserved.  Client ports of attempts differ in the model; the
code draws them from the clock.

*Files whose block numbers wrap* (`TftpInStep`, `TftpLongComplete`, `TftpLongRightPlace`), of any
length that fits the address space, with losses, refusals, restarts and second sessions, under
`OneAtATime`: packets are faster than the timeouts, the network repeats none, and it
does not lose the acknowledgement of a block whose number has wrapped to 0.  Without the
last this is false (finding 1), and with duplicates a number says nothing of
the wrap it belongs to.  The argument above fails here because a number no longer names a
block.  `LongInv` says instead that client and server are in step: at most one packet of the
attempt is in flight (`Alone`), and there is a block j, the last one stored, such that the
client's number and wrap offset are those of j (`ClientAt`), the server is at j or j + 1
(`ServerAt`) and the packet in flight is about the block its sender is at (`PacketsAt`).  A
DATA packet handed over is then j or j + 1, whose numbers differ; j + 1 is stored at its
place (`WrappedNext`, `WrappedPlace`: the remainders, at the end of the address space too);
and j is not seen again when its number is 0, which would bump the offset a second time,
because its acknowledgement, still under way, would be a second packet.  TLC checked
`LongInv` on the instance of `Tftp_long` first.

*One server* (`TftpOneServer`), for any file, as an action property.

*The environment* (`EnvSavedSurvives`, `EnvCopiesFresh`, `EnvRefinement`).  `EnvCopiesFresh`
has every writer of the copies; it is inductive with the types, and the point of it is that an
overflow, which leaves the copy alone, also takes the variable out of the environment.  The first
needs that the flash area *is* the store last saved (`SavedInv`), the refinement that
since its CRC was computed the environment can only have lost variables
(`CrcInv`), so an overflow that deletes one makes the CRC wrong and is a
`Spoil`, and one that deletes none is a stutter.

*The receive ring* (`RingTypeCorrect`, `FramesInOrder`, `CurrentOnly`,
`RingIsQueue`), for any number of devices, descriptors and frames, without a restart
inside a handler (finding 3 is one with).  `InOrder` is not inductive: it says
nothing of the frames that wait.  `RingInv` adds that the descriptors not owned by the
engine are the ones from `next_rx` up to the engine's position and hold the accepted
frames not yet handed over, in order (`RingPlaces`), that no line of the cache covers a
buffer but the one in hand, and that a receiver which is off when the ring is left is
at the descriptor the driver will look at next (`InHand`), and that only the current
device receives (`OneReceiver`).  The refinement
maps the waiting frames to the queue; steps that only look, flush or restart the
receiver are stutters.

*The size of the environment* (`EnvNoOverrun`).  `RoomInv` says of RAM and of a flash
area that is not torn that they have room for the final zero.  The sizes add up
because deleting a variable removes its bytes and setting one adds exactly its own
(`UsedWithout`, `UsedWith`); counting a set of bytes, and not summing a function, makes
this a matter of the cardinality of disjoint sets, where no induction is needed.

*DHCP* (`NetBootBoundToLease`), for any number of servers and faults.  What is bound is what
an ACK in flight says, and ACKs for other boards are in flight too.  `LeasesGranted`
therefore follows the packets: the requests of this board have numbers other than 0,
and an ACK with such a number carries an address that its server has leased to the board.

*NFS* (`NetBootNfsComplete`).  The handler believes any reply with the number of the last
call.  `NfsInv` says that no number in flight is newer than `rpc_id`, that a call or
reply with that number is about the present state, path, handle and offset (`PacketsFit`),
and that in READ the memory is the file up to `nfs_offset` (`Progress`).  `PathInv` says that
the path in the buffer, as a terminated string, is a name that leads to the goal.  This is
where `nfs.c:533` matters: with the terminator one character late the path keeps a
character of what was there before, and the invariant survives only if the target is as
long as the link's name, or as long as any name (`LinksFit`).  `NetBootTypeCorrect` is
proved with the first two invariants and without `LinksFit`.

*Flash and boot* (`BootSpared`, `BootDoneAsAsked`, `BootStopHeard`, `BootTypeCorrect`), for
every page and sector size, layout, recovery file, stick and key.  `FlashInv` says
what the chip is at and how far the driver's call has come: what is done is
erased or programmed, the rest is as it was before the call, the chip is at the first piece
not yet done or has finished it, and the whole range lies in the firmware.  For this the
sectors of an `erase` are shown to end before the calibration although they are rounded up,
and the pages of a write that starts at a page to be whole pages up to the last.
`KeyInv` says that `presskey` is the end of what was typed and at most one character is
still to be compared.

*The network loop*, for any number of devices, frames and commands.
`NetLoopOneAttempt` needs that with `netretry=no` nothing is left after the attempt that
could start another: not `restart`, and not the timer of an earlier command that was
waiting to start again (`OneInv`).  `NetLoopSilentReceivers`
follows the receivers (`PolledInv`, `HaltInv`): without a frame only the current device is
on, and on the way out it is halted, except by the failure after `NetStartAgain` has
moved.  `NetLoopSilentNet` adds that a failed tftpboot with `netretry=once` has tried every
device with a link once.  `WaitInv` says which timer and which ARP wait can be
running together, so that, ARP giving up before `TftpTimeout` (`ArpGivesUpFirst`,
2 * 2 s against 5 s in the code), one iteration has at most one `NetStartAgain`;
`RingInv` says that the devices tried are those with a link from `first_failed` up to the
current one, round the ring.  That `eth_init` stops at the nearest of these is
a least element of a set of distances, obtained from the library's well-founded
order of the naturals (`MinIs`).

`NetLoopAttemptsBounded` is about commands that do get frames, where an iteration can have
several `NetStartAgain`.  `Round(l)` says that the ring is being gone round for the
(l+1)-th time: no device has been tried more than l+1 times, and those ahead of the current
one, seen from `first_failed`, at most l times.  The first `NetStartAgain` of an
iteration stays in the round, as it goes to a device further on or wraps and fails;
another one begins a new round, and `Paid(l)` says that a frame has been received for it.
For this `Times` follows the timers as `WaitInv` does without frames: ARP and the timer
are never both due, and neither is due when a restart begins.  The latter needs that ARP asks
more than once (`ArpAsksAgain`, 2 in the code): `ArpTimeoutCheck` leaves the wait pending, and with a
single try it would give up again in every iteration.

*The serial download* (`LoadyInvariant`, `LoadyTypeCorrect`, `LoadyInSequence`), for files,
blocks, buffers and block numbers of any size, with or without an announced length,
a sender that is cancelled or never started, and both check modes.
`InSequence` says nothing of what is on the line, so it is far from inductive.  The invariant has
these parts.  `LineInv`: what is in the queues was sent by this sender, and each spoilt or stray
item is one of `noise`.  `CrcInv`: both sides use the same check once the transfer is open.  `CountInv`: at most 1 + `cross` requests, acknowledgements and
blocks are under way in all, and with B the blocks stored so far the sender is at least at B
and, its acknowledgements under way included, at most `cross` further than B + 1; no block before B is on the line, and the same bound holds for
what is behind any block on it.  `RetryInv`: each retry that has been used
belongs to a fault or a late answer, two at most to each, so the retries are not used up by a
block that has come again.  `DataInv`: what is stored and in the buffer are
the elements of `Wanted` in the first B blocks, each once and in order (`FirstOf`); that `Cut` keeps
just these of the next block is `CutIs`, a least element again.  When the board then compares the number of a block
with the one that is due, the block and the due one are closer together than the space of numbers,
and equal numbers are equal blocks.  The hypotheses are `FewFaults` (more retries than twice
the faults and late answers of a session; the code has 20 retries, and counts them anew for
every block, so this is more than is needed for a long file), `NumbersTell` (fewer late answers than
block numbers but one, 255 in the code) and `FinApart` (see the empty header above; it also
leaves out that the empty header is taken for the block before, which costs a retry and no data).

Every invariant, action property and refinement that a run checks is thus also proved, with
the hypotheses named.  Only model-checked: liveness (`Downloads`, `Returns`, `Resumes`,
`Received`, `Ends`, `Binds`, `Recovers`, `Loads`), which the prover does not handle
under fairness.

## Plan

What is left, in this order:

1. Kermit (`loadb`), which has windows of one packet like Y-modem, and the write of
   S-records to flash.
2. Three devices in `NetLoop_all` (the theorems hold for any number; three have been
   checked with fewer frames).

## Not modelled

`bootm` (sequential checks, then a jump; Boot keeps that a whole kernel starts), kermit
and S-records, the command line and hush (text), USB and file systems (third-party;
Boot keeps which partition has which file), start-up assembly, RARP and SNTP, the
transmitter of the AG7240 (it waits for its one descriptor) and its PHY set-up.  Of the
tree's 240 000 lines most are drivers, commands and register headers of boards that
are not built for Carambola2 or Lima, and libraries; the modelled components are
most of what the 8devices images execute with state of its own, and a model
of the rest would describe code that never runs on these boards.

Left out inside the modelled parts: packet formats and checksums, VLAN, CDP, IP
fragments, netconsole, redundant environments, console switching and baud rate in
`setenv`, sector lists and protection in the flash commands.
