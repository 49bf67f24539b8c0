------------------------------- MODULE NetLoop -------------------------------
(***************************************************************************)
(* The polling loop of net/net.c over the ring of ethernet devices of      *)
(* net/eth.c: one network command after another, each restarted, moved to  *)
(* another device, delayed or given up by NetStartAgain, with the ARP wait *)
(* and the one timer of the protocol.  One iteration of the loop is        *)
(* eth_rx, ArpTimeoutCheck, the timer, the switch on NetState (pc).        *)
(*                                                                         *)
(* The protocols are tftpboot and ping.  What TftpHandler does with a      *)
(* packet (module Tftp) is reduced here to what the loop sees of it.       *)
(* Time is counted in seconds: a counter holds what is left, and Tick      *)
(* passes a second when nothing is due, so the loop is fast compared to    *)
(* the timers.                                                             *)
(***************************************************************************)
EXTENDS Integers, FiniteSetsExt

CONSTANTS
  NDev,               \* ethernet devices, registered as 0 .. NDev - 1
  ARP_TIMEOUT, ARP_TIMEOUT_COUNT,
  TIMEOUT, TIMEOUT_COUNT,    \* of tftp.c
  PING_TIMEOUT, RESTART_DELAY,
  Protocols,          \* the commands the user may give
  Retries,            \* the values netretry may have: "unset", "no", "once"
  LinksMove,          \* may cables be moved between two commands?
  MaxRx,              \* bound: frames received in a behaviour (0: a silent net)
  MaxCommands         \* bound: number of commands

Devices == 0 .. (NDev - 1)

ASSUME NetLoopAssumption ==
  /\ NDev \in Nat \ {0}
  /\ {ARP_TIMEOUT, ARP_TIMEOUT_COUNT, TIMEOUT, PING_TIMEOUT, RESTART_DELAY}
       \subseteq Nat \ {0}
  /\ {TIMEOUT_COUNT, MaxRx, MaxCommands} \subseteq Nat
  /\ Protocols \subseteq {"TFTP", "PING"}
  /\ Retries \subseteq {"unset", "no", "once"}
  /\ LinksMove \in BOOLEAN

VARIABLES
  pc,             \* "idle", "restart" (the label), "rx", "arp", "timer", "switch"
  protocol,
  netretry,
  NetState,       \* NETLOOP_CONTINUE, _RESTART, _SUCCESS, _FAIL
  NetRestarted,
  NetDevExists,
  eth,            \* eth_current, first_failed, NetRestartWrap, the devices whose
                  \* receiver is on, the devices with an ethernet address
  polled,         \* the device whose ring eth_rx is emptying
  link,           \* the devices with a link
  packetHandler,  \* "none", "proto", "startAgain"
  timeHandler,    \* "none", "TFTP", "PING", "startAgain"
  timeLeft,
  TftpTimeoutCount,
  arp,            \* the ARP wait: pending, NetArpWaitTry, seconds left
  serverEther,    \* is NetServerEther known?
  asked,          \* has a request of this attempt left the board?
  result,         \* of the last command: "none", "success", "fail", "abort",
                  \* "refused"
  tries,          \* per device: attempts made on it by this command, up to Many
  wrapped,        \* was NetRestartWrap set when the command's first attempt began?
  rxs, commands   \* counted against the bounds

loopVars == <<NetState, eth, packetHandler, timeHandler, timeLeft>>
arpVars  == <<arp, serverEther, asked>>
cmdVars  == <<protocol, netretry, NetRestarted, NetDevExists, result, tries,
              wrapped, commands>>
vars == <<pc, polled, loopVars, arpVars, cmdVars, TftpTimeoutCount, link, rxs>>

-----------------------------------------------------------------------------
(* net/eth.c.  The devices form a ring in the order they were registered. *)
Succ(d, k) == (d + k) % NDev

EthHalt(e) == [e EXCEPT !.active = @ \ {e.cur}]

\* Mutant of TryAnother: the test is made before the move.
TryAnotherTestFirst(e, first_restart) ==
  LET failed == IF first_restart THEN e.cur ELSE e.failed
  IN  [e EXCEPT !.cur = Succ(e.cur, 1), !.failed = failed,
                !.wrap = @ \/ e.cur = failed]

TryAnother(e, first_restart) ==
  LET failed == IF first_restart THEN e.cur ELSE e.failed
  IN  [e EXCEPT !.cur = Succ(e.cur, 1), !.failed = failed,
                !.wrap = @ \/ Succ(e.cur, 1) = failed]

\* eth_init: the devices are tried round the ring, from the current one, until
\* one has a link (ag7240_clean_rx) or all have been tried.
EthInit(e) ==
  LET up    == {k \in 0 .. (NDev - 1) : Succ(e.cur, k) \in link}
      steps == IF up = {} THEN NDev ELSE Min(up)
      dev   == Succ(e.cur, steps)
  IN  [e EXCEPT !.cur = dev,
                !.wrap = @ \/ \E k \in 1 .. steps : Succ(e.cur, k) = e.failed,
                !.active = IF up = {} THEN @ ELSE @ \cup {dev}]

NoDevice == -1    \* the NULL of first_failed

Many == MaxRx + 2 \* bound: attempts beyond this number are not counted

-----------------------------------------------------------------------------
\* The two outcomes of a restart that wrapped: wait, or fail when last.
Retry(th, last) ==
  LET e == EthInit(TryAnother(EthHalt(eth), ~NetRestarted))
  IN  /\ eth' = [e EXCEPT !.wrap = FALSE]
      /\ IF e.wrap /\ ~last
         THEN /\ timeHandler' = "startAgain"
              /\ timeLeft' = RESTART_DELAY
              /\ packetHandler' = "startAgain"
              /\ UNCHANGED NetState
         ELSE /\ NetState' = IF e.wrap THEN "fail" ELSE "restart"
              /\ timeHandler' = th
              /\ UNCHANGED <<packetHandler, timeLeft>>

GiveUp(th) ==
  /\ eth' = EthHalt(eth)
  /\ NetState' = "fail"
  /\ timeHandler' = th
  /\ UNCHANGED <<packetHandler, timeLeft>>

\* Mutants of NetStartAgain: netretry = no, and = once, not looked at.
NetStartAgainIgnoreNo(th) == Retry(th, ~NetDevExists \/ netretry = "once")

NetStartAgainIgnoreOnce(th) ==
  \/ netretry = "no" /\ GiveUp(th)
  \/ netretry # "no" /\ Retry(th, ~NetDevExists)

(* NetStartAgain, called with the timer in state th. *)
NetStartAgain(th) ==
  \/ netretry = "no" /\ GiveUp(th)
  \/ netretry # "no" /\ Retry(th, ~NetDevExists \/ netretry = "once")

\* ArpRequest for a packet that has to wait for it (NetSendUDPPacket, PingSend).
ArpStart == arp' = [pending |-> TRUE, try |-> 1, left |-> ARP_TIMEOUT]

\* TftpSend: the packet leaves at once, or after an ARP exchange.
TftpSend(known) ==
  IF known THEN asked' = TRUE /\ UNCHANGED arp ELSE ArpStart /\ UNCHANGED asked

-----------------------------------------------------------------------------
(* The protocols' starts and timeout handlers. *)
TftpStart ==
  /\ timeHandler' = "TFTP" /\ timeLeft' = TIMEOUT /\ packetHandler' = "proto"
  /\ TftpTimeoutCount' = 0
  /\ serverEther' = FALSE /\ asked' = FALSE
  /\ ArpStart

PingStart ==
  /\ timeHandler' = "PING" /\ timeLeft' = PING_TIMEOUT /\ packetHandler' = "proto"
  /\ asked' = FALSE
  /\ ArpStart
  /\ UNCHANGED <<TftpTimeoutCount, serverEther>>

TftpTimeout ==
  /\ TftpTimeoutCount' = TftpTimeoutCount + 1
  /\ IF TftpTimeoutCount + 1 > TIMEOUT_COUNT
     THEN NetStartAgain("none") /\ UNCHANGED <<arp, asked>>
     ELSE /\ timeHandler' = "TFTP" /\ timeLeft' = TIMEOUT
          /\ TftpSend(serverEther)
          /\ UNCHANGED <<NetState, eth, packetHandler>>
  /\ UNCHANGED serverEther

PingTimeout ==
  /\ eth' = EthHalt(eth)
  /\ NetState' = "fail"
  /\ timeHandler' = "none"
  /\ UNCHANGED <<packetHandler, timeLeft, TftpTimeoutCount, arpVars>>

StartAgainTimeout ==
  /\ NetState' = "restart"
  /\ timeHandler' = "none"
  /\ UNCHANGED <<eth, packetHandler, timeLeft, TftpTimeoutCount, arpVars>>

-----------------------------------------------------------------------------
(* A command: NetLoop up to the label restart.  The environment's ethact   *)
(* is set to eth0 first, whatever device the last command used.  The timer *)
(* and the packet handler of the last command are still there.             *)
NetLoop(p, r) ==
  /\ pc = "idle" /\ commands < MaxCommands
  /\ protocol' = p /\ netretry' = r
  /\ NetRestarted' = FALSE /\ NetDevExists' = FALSE
  /\ arp' = [arp EXCEPT !.pending = FALSE]
  /\ eth' = EthInit([EthHalt(eth) EXCEPT !.cur = 0]) /\ wrapped' = eth'.wrap
  /\ result' = "none" /\ tries' = [d \in Devices |-> 0]
  /\ asked' = FALSE
  /\ commands' = commands + 1
  /\ pc' = "restart" /\ NetState' = "continue"
  /\ UNCHANGED <<polled, packetHandler, timeHandler, timeLeft,
                 TftpTimeoutCount, serverEther, link, rxs>>

\* From restart to the loop: net_check_prereq, then the protocol's start.
Start ==
  /\ pc = "restart" /\ eth.cur \in eth.addr
  /\ NetDevExists' = TRUE
  /\ tries' = [tries EXCEPT ![eth.cur] = Min({@ + 1, Many})]
  /\ IF protocol = "TFTP" THEN TftpStart ELSE PingStart
  /\ pc' = "rx" /\ polled' = eth.cur
  /\ UNCHANGED <<NetState, eth, protocol, netretry, NetRestarted, result,
                 wrapped, commands, link, rxs>>

\* `ethaddr' not set: net_check_prereq calls NetStartAgain itself.
StartNoAddress ==
  /\ pc = "restart" /\ eth.cur \notin eth.addr
  /\ NetStartAgain(timeHandler)
  /\ pc' = "rx" /\ polled' = eth'.cur
  /\ UNCHANGED <<arpVars, cmdVars, TftpTimeoutCount, link, rxs>>

\* `serverip' or `ipaddr' not set.
Refuse ==
  /\ pc = "restart" /\ ~NetRestarted
  /\ eth' = EthHalt(eth)
  /\ pc' = "idle" /\ result' = "refused"
  /\ UNCHANGED <<polled, NetState, packetHandler, timeHandler, timeLeft, arpVars,
                 protocol, netretry, NetRestarted, NetDevExists, tries, wrapped,
                 commands, TftpTimeoutCount, link, rxs>>

-----------------------------------------------------------------------------
(* eth_rx handles every frame in the ring of the device that was current   *)
(* when it was called, also after a frame has changed NetState or the      *)
(* current device.                                                         *)
Frame == pc = "rx" /\ polled \in link /\ rxs < MaxRx /\ rxs' = rxs + 1

\* Leaving ag7240_recv: a device whose receiver is off is switched on.
RxTail(e) == [e EXCEPT !.active = @ \cup {polled}]

RxArpReply ==
  /\ Frame /\ arp.pending
  /\ arp' = [arp EXCEPT !.pending = FALSE]
  /\ serverEther' = (serverEther \/ protocol = "TFTP")
  /\ asked' = TRUE
  /\ UNCHANGED <<pc, polled, loopVars, cmdVars, TftpTimeoutCount, link>>

\* The handler keeps the transfer going, finishes it, or starts again.
RxProgress ==
  /\ Frame /\ asked /\ packetHandler = "proto" /\ protocol = "TFTP"
  /\ timeHandler' = "TFTP" /\ timeLeft' = TIMEOUT
  /\ TftpSend(serverEther)
  /\ UNCHANGED <<pc, polled, NetState, eth, packetHandler, serverEther, cmdVars,
                 TftpTimeoutCount, link>>

RxSuccess ==
  /\ Frame /\ asked /\ packetHandler = "proto"
  /\ NetState' = "success"
  /\ UNCHANGED <<pc, polled, eth, packetHandler, timeHandler, timeLeft, arpVars,
                 cmdVars, TftpTimeoutCount, link>>

RxError ==
  /\ Frame /\ asked /\ packetHandler = "proto" /\ protocol = "TFTP"
  /\ NetStartAgain(timeHandler)
  /\ UNCHANGED <<pc, polled, arpVars, cmdVars, TftpTimeoutCount, link>>

-----------------------------------------------------------------------------
(* The rest of an iteration. *)
ArpDue  == arp.pending /\ arp.left = 0
TimeDue == timeHandler # "none" /\ timeLeft = 0

\* An iteration with nothing to do changes nothing.
SomethingToDo ==
  \/ ArpDue \/ TimeDue \/ NetState # "continue"
  \/ polled # eth.cur \/ polled \notin eth.active

\* eth_rx is done.
EndRx ==
  /\ pc = "rx" /\ SomethingToDo
  /\ eth' = RxTail(eth)
  /\ pc' = "arp"
  /\ UNCHANGED <<polled, NetState, packetHandler, timeHandler, timeLeft, arpVars,
                 cmdVars, TftpTimeoutCount, link, rxs>>

\* Ctrl-C.
Abort ==
  /\ pc = "rx"
  /\ eth' = EthHalt(RxTail(eth))
  /\ result' = "abort" /\ pc' = "idle"
  /\ UNCHANGED <<polled, NetState, packetHandler, timeHandler, timeLeft, arpVars,
                 protocol, netretry, NetRestarted, NetDevExists, tries, wrapped,
                 commands, TftpTimeoutCount, link, rxs>>

\* Mutant of ArpTimeoutCheck: NetArpWaitTry is not cleared.
ArpTimeoutCheckNoReset ==
  /\ pc = "arp" /\ pc' = "timer"
  /\ \/ ~ArpDue /\ UNCHANGED <<loopVars, arp>>
     \/ /\ ArpDue /\ arp.try + 1 < ARP_TIMEOUT_COUNT
        /\ arp' = [arp EXCEPT !.try = @ + 1, !.left = ARP_TIMEOUT]
        /\ UNCHANGED loopVars
     \/ /\ ArpDue /\ arp.try + 1 >= ARP_TIMEOUT_COUNT
        /\ arp' = [arp EXCEPT !.try = @ + 1]
        /\ NetStartAgain(timeHandler)
  /\ UNCHANGED <<polled, serverEther, asked, cmdVars, TftpTimeoutCount, link, rxs>>

\* When the count is exceeded neither the wait nor its timer is cleared.
ArpTimeoutCheck ==
  /\ pc = "arp" /\ pc' = "timer"
  /\ \/ ~ArpDue /\ UNCHANGED <<loopVars, arp>>
     \/ /\ ArpDue /\ arp.try + 1 < ARP_TIMEOUT_COUNT
        /\ arp' = [arp EXCEPT !.try = @ + 1, !.left = ARP_TIMEOUT]
        /\ UNCHANGED loopVars
     \/ /\ ArpDue /\ arp.try + 1 >= ARP_TIMEOUT_COUNT
        /\ arp' = [arp EXCEPT !.try = 0]
        /\ NetStartAgain(timeHandler)
  /\ UNCHANGED <<polled, serverEther, asked, cmdVars, TftpTimeoutCount, link, rxs>>

TimerCheck ==
  /\ pc = "timer" /\ pc' = "switch"
  /\ \/ ~TimeDue /\ UNCHANGED <<loopVars, arpVars, TftpTimeoutCount>>
     \/ TimeDue /\ timeHandler = "TFTP" /\ TftpTimeout
     \/ TimeDue /\ timeHandler = "PING" /\ PingTimeout
     \/ TimeDue /\ timeHandler = "startAgain" /\ StartAgainTimeout
  /\ UNCHANGED <<polled, cmdVars, link, rxs>>

\* The switch on NetState: NETLOOP_SUCCESS halts the device, NETLOOP_FAIL
\* does not.
Switch ==
  /\ pc = "switch"
  /\ \/ /\ NetState = "continue" /\ pc' = "rx" /\ polled' = eth.cur
        /\ UNCHANGED <<NetState, NetRestarted, eth, result>>
     \/ /\ NetState = "restart" /\ pc' = "restart" /\ NetRestarted' = TRUE
        /\ NetState' = "continue"
        /\ UNCHANGED <<polled, eth, result>>
     \/ /\ NetState = "success" /\ pc' = "idle" /\ result' = "success"
        /\ eth' = EthHalt(eth)
        /\ UNCHANGED <<polled, NetState, NetRestarted>>
     \/ /\ NetState = "fail" /\ pc' = "idle" /\ result' = "fail"
        /\ UNCHANGED <<polled, NetState, NetRestarted, eth>>
  /\ UNCHANGED <<packetHandler, timeHandler, timeLeft, arpVars, protocol,
                 netretry, NetDevExists, tries, wrapped, commands, TftpTimeoutCount,
                 link, rxs>>

\* A second passes (external).
Tick ==
  /\ pc = "rx" /\ ~SomethingToDo
  /\ timeLeft' = IF timeLeft = 0 THEN 0 ELSE timeLeft - 1
  /\ arp' = [arp EXCEPT !.left = IF @ = 0 THEN 0 ELSE @ - 1]
  /\ UNCHANGED <<pc, polled, NetState, eth, packetHandler, timeHandler,
                 serverEther, asked, cmdVars, TftpTimeoutCount, link, rxs>>

\* Between two commands cables may be moved, and the timer runs out (external).
BetweenCommands ==
  /\ pc = "idle" /\ commands < MaxCommands
  /\ link' \in IF LinksMove THEN SUBSET Devices ELSE {link}
  /\ timeLeft' = 0
  /\ UNCHANGED <<pc, polled, NetState, eth, packetHandler, timeHandler, arpVars,
                 cmdVars, TftpTimeoutCount, rxs>>

-----------------------------------------------------------------------------
Init ==
  /\ pc = "idle" /\ protocol \in Protocols /\ netretry \in Retries
  /\ NetState = "continue" /\ NetRestarted = FALSE /\ NetDevExists = FALSE
  /\ eth \in [cur : {0}, failed : {NoDevice}, wrap : {FALSE}, active : {{}},
             addr : SUBSET Devices]
  /\ polled = 0 /\ link \in SUBSET Devices
  /\ packetHandler = "none" /\ timeHandler = "none" /\ timeLeft = 0
  /\ TftpTimeoutCount = 0
  /\ arp = [pending |-> FALSE, try |-> 0, left |-> 0]
  /\ serverEther = FALSE /\ asked = FALSE
  /\ result = "none" /\ tries = [d \in Devices |-> 0] /\ wrapped = FALSE
  /\ rxs = 0 /\ commands = 0

Receive == RxArpReply \/ RxProgress \/ RxSuccess \/ RxError

Loop == Start \/ StartNoAddress \/ Refuse \/ EndRx \/ ArpTimeoutCheck \/ TimerCheck \/ Switch

Command == \E p \in Protocols, r \in Retries : NetLoop(p, r)

Done == pc = "idle" /\ commands = MaxCommands /\ UNCHANGED vars

Next == Command \/ Loop \/ Receive \/ Tick \/ Abort \/ BetweenCommands \/ Done

Spec == Init /\ [][Next]_vars

(* The loop polls for ever, and time passes. *)
FairSpec == Spec /\ WF_vars(Loop) /\ WF_vars(Tick)

-----------------------------------------------------------------------------
(* Properties. *)

\* The type of every variable.
TypeOK ==
  /\ pc \in {"idle", "restart", "rx", "arp", "timer", "switch"}
  /\ protocol \in Protocols /\ netretry \in Retries
  /\ NetState \in {"continue", "restart", "success", "fail"}
  /\ {NetRestarted, NetDevExists, serverEther, asked, wrapped} \subseteq BOOLEAN
  /\ eth \in [cur : Devices, failed : Devices \cup {NoDevice}, wrap : BOOLEAN,
              active : SUBSET Devices, addr : SUBSET Devices]
  /\ polled \in Devices /\ link \subseteq Devices
  /\ packetHandler \in {"none", "proto", "startAgain"}
  /\ timeHandler \in {"none", "TFTP", "PING", "startAgain"}
  /\ timeLeft \in Nat
  /\ TftpTimeoutCount \in Nat
  /\ arp \in [pending : BOOLEAN, try : 0 .. ARP_TIMEOUT_COUNT, left : 0 .. ARP_TIMEOUT]
  /\ result \in {"none", "success", "fail", "abort", "refused"}
  /\ tries \in [Devices -> 0 .. Many]
  /\ rxs \in 0 .. MaxRx /\ commands \in 0 .. MaxCommands

\* However a command moves round the ring of eth.c, only the current device
\* receives: eth_rx polls no other, eth_halt stops no other, and all devices
\* receive into the same NetRxPackets.
OnlyCurrentActive == eth.active \subseteq {eth.cur}

\* NetStartAgain with netretry = once: a failed tftpboot has been tried on no
\* device twice, and on every usable device, unless NetRestartWrap was set when
\* it began.  (Only NetStartAgain clears it: eth_init sets it while it passes
\* the first_failed of an earlier command, and it outlives an aborted one.)
TriedAsAsked ==
  (pc = "switch" /\ NetState = "fail" /\ protocol = "TFTP" /\ netretry = "once") =>
    /\ \A d \in Devices : tries[d] <= 1
    /\ wrapped \/ \A d \in link \cap eth.addr : tries[d] = 1

\* A command that ends leaves no device receiving into memory, but for one
\* that failed after eth_init in NetStartAgain.
HaltedOnReturn ==
  (pc = "idle" /\ (netretry = "no" \/ result # "fail")) => eth.active = {}

\* As long as no frame has been received and every device has an address,
\* NetLoop and NetStartAgain move from device to device as they should.  (On a
\* device without one, a command enters the loop with the handlers of the
\* command before it: an aborted ping's PingTimeout can end a tftpboot.)
SilentNet ==
  (rxs = 0 /\ eth.addr = Devices) =>
    OnlyCurrentActive /\ TriedAsAsked /\ HaltedOnReturn

\* With netretry = no a command makes one attempt in all, whatever frames, ARP
\* and timer do in one iteration of NetLoop, and also when it enters the loop
\* with the timer of a command that was waiting to start again.
OneAttempt ==
  netretry = "no" =>
    \A d \in Devices : tries[d] <= 1 /\ \A f \in Devices \ {d} : tries[d] + tries[f] <= 1

\* With netretry = once a device is tried again only where a frame started
\* again in the iteration of a time-out.
AttemptsBounded == netretry = "once" => \A d \in Devices : tries[d] <= 1 + rxs

\* With netretry = no or once every command comes back from NetLoop, whatever
\* the server does.  (With netretry unset a ping to a silent host never does:
\* the ARP time-out restarts it before PingTimeout is due.)
Returns == (pc = "restart" /\ netretry # "unset") ~> (pc = "idle")

=============================================================================
