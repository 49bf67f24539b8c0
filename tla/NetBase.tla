------------------------------- MODULE NetBase -------------------------------
(***************************************************************************)
(* What the protocols of net/ share: the state of the loop, the one timer  *)
(* with its handler, and the network's misbehaviour, which is counted.     *)
(***************************************************************************)
EXTENDS Integers, FiniteSets

CONSTANT MaxFaults    \* bound: what the network and the servers may do wrong

ASSUME NetBaseAssumption == MaxFaults \in Nat

VARIABLES
  NetState,       \* NETLOOP_CONTINUE, _SUCCESS, _FAIL; "idle": returned
  protocol,       \* of the command: "none" before the first, "DHCP", "NFS"
  timeHandler,    \* "none", "BootpTimeout", "NfsTimeout", "startAgainTimeout"
  packetHandler,  \* "none", "DhcpHandler", "NfsHandler", "startAgainHandler"
  NetOurIP,
  faults

NetSetTimeout(h) == timeHandler' = h
NetSetHandler(h) == packetHandler' = h

\* A step that leaves the loop as it is.
LoopUnchanged == UNCHANGED <<NetState, timeHandler, packetHandler>>

Fault == faults < MaxFaults /\ faults' = faults + 1
=============================================================================
