------------------------------ MODULE NetBoot -------------------------------
(***************************************************************************)
(* Commands over the network: `dhcp' with autoload set to "no" or to "NFS",*)
(* and `nfs'.  NetLoop (net/net.c) runs one handler or one time-out at a   *)
(* time; the servers and the network take their steps in between.          *)
(***************************************************************************)
EXTENDS Dhcp, Nfs

CONSTANTS
  MaxCommands,    \* bound: commands given
  BootFiles       \* the names the user gives

ASSUME NetBootAssumption == MaxCommands \in Nat /\ BootFiles \subseteq Names

VARIABLE commands

vars == <<NetState, protocol, timeHandler, packetHandler, NetOurIP, faults,
          dhcpVars, nfsVars, commands>>

serverVars == <<netretry, lease, silent>>
noCommand  == <<protocol, commands>>

Init ==
  /\ NetState = "idle" /\ protocol = "none"
  /\ timeHandler = "none" /\ packetHandler = "none"
  /\ NetOurIP = None /\ faults = 0 /\ commands = 0
  /\ DhcpInit /\ NfsInit

-----------------------------------------------------------------------------
\* What NetLoop does for both: NetBootFileXferSize = 0.
Command(p) ==
  /\ NetState = "idle" /\ commands < MaxCommands
  /\ commands' = commands + 1
  /\ protocol' = p
  /\ NetBootFileXferSize' = 0

\* Bound: a session is one `dhcp', or some `nfs'.
CommandDhcp ==
  /\ commands = 0
  /\ Command("DHCP")
  /\ netretry' \in Retries
  /\ DhcpStart
  /\ asked' = <<>>
  /\ UNCHANGED <<NfsState, nfs_offset, NfsDownloadState, fs_mounted, ports, nfs_path_buff,
                 filefh, mem, rpc_id, rpc, faults, lease, silent>>

CommandNfs ==
  /\ protocol # "DHCP"
  /\ Command("NFS")
  /\ NetState' = "continue" /\ NetOurIP' = "ipaddr"
  /\ asked' \in BootFiles
  /\ NfsStart(asked')
  /\ UNCHANGED <<dhcpVars, faults>>

DhcpTakesOffer ==
  /\ \E m \in ether \cap Replies : RxOffer(m)
  /\ UNCHANGED <<serverVars, nfsVars, noCommand>>

\* The ACK ends the command, or, by autoload, starts the load of the boot file
\* that it names.
DhcpTakesAck ==
  /\ \E m \in ether \cap Replies :
       /\ RxAck(m)
       /\ \/ /\ NetState' = "success"
             /\ Take(m)
             /\ UNCHANGED <<timeHandler, packetHandler, nfsVars>>
          \/ /\ asked' \in BootFiles
             /\ NfsStart(asked')
             /\ ether' = {}    \* bound: NfsHandler would drop them for their port
             /\ UNCHANGED <<NetState, NetBootFileXferSize, faults>>
  /\ UNCHANGED <<serverVars, noCommand>>

DhcpIgnores ==
  /\ \E m \in ether \cap Replies : RxIgnored(m)
  /\ UNCHANGED <<serverVars, nfsVars, noCommand>>

NfsTakes ==
  /\ \E m \in rpc :
       /\ ~IsCall(m)
       /\ \/ NfsHandler(m, rpc \ {m}) /\ UNCHANGED faults
          \/ NfsHandler(m, rpc) /\ Fault             \* and once more later
  /\ UNCHANGED <<NetOurIP, dhcpVars, asked, noCommand>>

\* The timer runs out, by rights when nothing under way would stop it.
TimerExpires ==
  /\ \/ NetState = "continue" /\ timeHandler = "BootpTimeout" /\ BootpTimeout
        /\ UNCHANGED nfsVars /\ (IF Quiet THEN UNCHANGED faults ELSE Fault)
     \/ timeHandler = "startAgainTimeout" /\ DhcpStart /\ UNCHANGED <<nfsVars, faults>>
     \/ NetState # "idle" /\ timeHandler = "NfsTimeout" /\ NfsTimeout /\ UNCHANGED <<NetOurIP, clientVars, ether, asked>>
        /\ (IF rpc = {} THEN UNCHANGED faults ELSE Fault)
  /\ UNCHANGED <<serverVars, noCommand>>

\* The switch on NetState ends the loop.
NetLoopReturns ==
  /\ NetState \in {"success", "fail"}
  /\ NetState' = "idle"
  /\ UNCHANGED <<protocol, timeHandler, packetHandler, NetOurIP, faults, dhcpVars, nfsVars, commands>>

DhcpServerSteps ==
  /\ \E m \in ether \cap Requests :
       \/ \E a \in Pool, dst \in Pool \cup {Bcast} : ServerOffer(m, a, dst)
       \/ ServerAnswer(m) \/ ServerDeclined(m)
  /\ LoopUnchanged
  /\ UNCHANGED <<NetOurIP, clientVars, netretry, silent, faults, nfsVars, noCommand>>

NfsServerSteps ==
  /\ \E c \in rpc : IsCall(c) /\ NfsServer(c)
  /\ LoopUnchanged
  /\ UNCHANGED <<NetOurIP, dhcpVars, nfsClient, rpc_id, asked, faults, noCommand>>

DhcpFaults ==
  /\ \/ \E a \in Pool : OtherBoard(a)
     \/ \E m \in ether \cap Requests : BootpServer(m)
     \/ \E s \in Servers : ServerStops(s)
     \/ \E m \in ether : EtherLoses(m)
  /\ LoopUnchanged
  /\ UNCHANGED <<NetOurIP, clientVars, netretry, nfsVars, noCommand>>

NfsFaults ==
  /\ \/ \E c \in rpc : IsCall(c) /\ NfsServerFault(c)
     \/ \E m \in rpc : RpcLoses(m)
  /\ LoopUnchanged
  /\ UNCHANGED <<NetOurIP, dhcpVars, nfsClient, rpc_id, asked, noCommand>>

Next ==
  \/ CommandDhcp \/ CommandNfs
  \/ DhcpTakesOffer \/ DhcpTakesAck \/ DhcpIgnores \/ NfsTakes
  \/ TimerExpires \/ NetLoopReturns
  \/ DhcpServerSteps \/ NfsServerSteps \/ DhcpFaults \/ NfsFaults

Spec == Init /\ [][Next]_vars

\* A packet that stays under way is delivered, a server that runs answers, and
\* the timer, which the loop polls, runs out.
FairSpec ==
  /\ Spec
  /\ WF_vars(DhcpTakesOffer) /\ WF_vars(DhcpTakesAck)
  /\ WF_vars(NfsTakes)
  /\ WF_vars(DhcpServerSteps) /\ WF_vars(NfsServerSteps)
  /\ WF_vars(TimerExpires) /\ WF_vars(NetLoopReturns)

-----------------------------------------------------------------------------
(* Properties. *)

\* The type of every variable; a READ never asks for what is past the file.
TypeOK ==
  /\ NetState \in {"idle", "continue", "success", "fail"}
  /\ protocol \in {"none", "DHCP", "NFS"}
  /\ timeHandler \in {"none", "BootpTimeout", "NfsTimeout", "startAgainTimeout"}
  /\ packetHandler \in {"none", "DhcpHandler", "NfsHandler", "startAgainHandler"}
  /\ faults \in 0 .. MaxFaults /\ commands \in 0 .. MaxCommands
  /\ DhcpTypeOK /\ NfsTypeOK

\* BootpTimeout, NetStartAgain, NfsTimeout: every command comes to an end.
Ends == (NetState = "continue") ~> (NetState = "idle")

\* With netretry unset a `dhcp' command gets its address, as long as one server
\* that has one for it stays.
Binds == (NetState = "continue" /\ protocol = "DHCP" /\ netretry = "unset") ~>
           (dhcp_state = "BOUND")
=============================================================================
