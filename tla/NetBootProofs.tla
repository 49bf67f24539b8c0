--------------------------- MODULE NetBootProofs ----------------------------
(***************************************************************************)
(* Proofs about NetBoot: the DHCP client binds only what is leased to this *)
(* board, and an NFS load that succeeds is the whole file.                 *)
(***************************************************************************)
EXTENDS NetBoot, SequenceTheorems, TLAPS

-----------------------------------------------------------------------------
(* DHCP. *)

LoopTypeOK ==
  /\ NetState \in {"idle", "continue", "success", "fail"}
  /\ protocol \in {"none", "DHCP", "NFS"}
  /\ timeHandler \in {"none", "BootpTimeout", "NfsTimeout", "startAgainTimeout"}
  /\ packetHandler \in {"none", "DhcpHandler", "NfsHandler", "startAgainHandler"}
  /\ faults \in 0 .. MaxFaults /\ commands \in 0 .. MaxCommands

\* The requests of this board have numbers other than 0, and a grant of one of
\* them stands for a lease that nobody takes back.
LeasesGranted ==
  /\ packetHandler = "DhcpHandler" => BootpID > 0
  /\ \A m \in ether : m \in Requests => m.xid # 0
  /\ \A m \in ether : (m \in Replies /\ m.op = "ACK" /\ m.xid # 0) =>
       /\ m.ip \in Pool /\ lease[m.ip] = "ours"
       /\ m.sid = Owner[m.ip]

DhcpInv == LoopTypeOK /\ DhcpTypeOK /\ LeasesGranted /\ BoundToLease

\* What a step of NFS leaves alone.
LEMMA DhcpUntouched ==
  ASSUME DhcpInv, NetState' \in {"idle", "continue", "success", "fail"},
         timeHandler' \in {"none", "BootpTimeout", "NfsTimeout", "startAgainTimeout"},
         packetHandler' \in {packetHandler, "NfsHandler"}, faults' \in 0 .. MaxFaults,
         UNCHANGED <<NetOurIP, dhcpVars, noCommand>>
  PROVE  DhcpInv'
BY DEF DhcpInv, LoopTypeOK, DhcpTypeOK, LeasesGranted, BoundToLease, dhcpVars, clientVars,
       noCommand

LEMMA FaultCounted ==
  ASSUME faults \in 0 .. MaxFaults, Fault
  PROVE  faults' \in 0 .. MaxFaults
BY NetBaseAssumption DEF Fault

\* A request under a new number.
LEMMA RequestKeeps ==
  ASSUME DhcpInv, NEW try \in 0 .. TIMEOUT_COUNT, BootpRequest(try),
         NetState' \in {NetState, "continue"}, NetOurIP' \in {NetOurIP, None},
         faults' \in 0 .. MaxFaults, protocol' \in {protocol, "DHCP"},
         commands' \in 0 .. MaxCommands,
         netretry' \in Retries \cup {"unset"}, UNCHANGED <<lease, silent>>
  PROVE  DhcpInv'
<1>1. ether' \subseteq ether \cup [op : {"DISCOVER"}, xid : {BootpID + 1}, at : Servers]
  BY DEF BootpRequest, Living
<1>2. BootpID + 1 \in 1 .. MaxID
  BY DhcpAssumption DEF BootpRequest, DhcpInv, DhcpTypeOK
<1>3. [op : {"DISCOVER"}, xid : {BootpID + 1}, at : Servers] \subseteq Requests
  BY <1>2 DEF Requests
<1>4. DhcpTypeOK'
  BY <1>1, <1>2, <1>3, DhcpAssumption DEF DhcpInv, DhcpTypeOK, BootpRequest, Addrs
<1>5. LeasesGranted'
  BY <1>1, <1>2, DhcpAssumption DEF DhcpInv, LeasesGranted, BootpRequest, Requests, Replies
<1>6. BoundToLease' /\ LoopTypeOK'
  BY DEF DhcpInv, BoundToLease, LoopTypeOK, BootpRequest, NetSetTimeout, NetSetHandler
<1> QED
  BY <1>4, <1>5, <1>6 DEF DhcpInv

LEMMA OfferKeeps ==
  ASSUME DhcpInv, DhcpTakesOffer
  PROVE  DhcpInv'
<1> PICK m \in ether \cap Replies : RxOffer(m)
  BY DEF DhcpTakesOffer
<1> DEFINE sid == NetDHCPServerIP'
           req == [op : {"REQUEST"}, xid : {m.xid}, at : Servers, sid : {sid}, ip : {m.ip}]
<1>1. m.xid = BootpID /\ BootpID > 0 /\ m.ip \in Addrs \cup {None} /\ m.xid \in 0 .. MaxID
  BY DEF RxOffer, DhcpHandles, BootpCheckPkt, DhcpInv, DhcpTypeOK, LeasesGranted, Replies
<1>2. sid \in Servers \cup {None}
  BY DEF RxOffer, DhcpInv, DhcpTypeOK, Replies
<1>3. req \subseteq Requests
  BY <1>1, <1>2 DEF Requests
<1>4. ether' \subseteq ether \cup req
  BY DEF RxOffer
<1>5. \A r \in req : r.op = "REQUEST" /\ r.xid = m.xid
  OBVIOUS
<1> HIDE DEF req, sid
<1>6. DhcpTypeOK'
  BY <1>1, <1>2, <1>3, <1>4
  DEF DhcpInv, DhcpTypeOK, RxOffer, DhcpTakesOffer, serverVars, sid
<1>7. LeasesGranted'
  BY <1>1, <1>4, <1>5 DEF DhcpInv, LeasesGranted, RxOffer, DhcpTakesOffer, serverVars, Replies
<1>8. BoundToLease' /\ LoopTypeOK'
  BY DEF DhcpInv, BoundToLease, LoopTypeOK, RxOffer, DhcpTakesOffer, noCommand, NetSetTimeout
<1> QED
  BY <1>6, <1>7, <1>8 DEF DhcpInv

LEMMA AckKeeps ==
  ASSUME DhcpInv, DhcpTakesAck
  PROVE  DhcpInv'
<1> PICK m \in ether \cap Replies :
      /\ RxAck(m)
      /\ \/ NetState' = "success" /\ Take(m) /\ UNCHANGED <<timeHandler, packetHandler>>
         \/ /\ timeHandler' = "NfsTimeout" /\ packetHandler' = "NfsHandler"
            /\ ether' = {} /\ UNCHANGED <<NetState, faults>>
  BY DEF DhcpTakesAck, NfsStart, NetSetTimeout, NetSetHandler
<1>1. /\ m.ip \in Pool /\ lease[m.ip] = "ours" /\ m.sid = Owner[m.ip]
      /\ m.sid # None
  BY DhcpAssumption
  DEF RxAck, DhcpHandles, BootpCheckPkt, DhcpInv, LeasesGranted, Replies, DhcpTypeOK, Pool
<1>2. BoundToLease'
  BY <1>1 DEF RxAck, BoundToLease, DhcpTakesAck, serverVars
<1>3. ether' \subseteq ether /\ faults' \in 0 .. MaxFaults
  BY FaultCounted DEF Take, DhcpInv, LoopTypeOK
<1>4. LoopTypeOK'
  BY <1>3 DEF LoopTypeOK, DhcpInv, DhcpTakesAck, noCommand
<1>5. DhcpTypeOK'
  BY <1>1, <1>3 DEF DhcpTypeOK, DhcpInv, RxAck, DhcpTakesAck, serverVars, Addrs, Replies
<1>6. LeasesGranted'
  BY <1>3 DEF LeasesGranted, DhcpInv, RxAck, DhcpTakesAck, serverVars
<1> QED
  BY <1>2, <1>4, <1>5, <1>6 DEF DhcpInv

LEMMA TimerKeeps ==
  ASSUME DhcpInv, TimerExpires
  PROVE  DhcpInv'
<1> USE DEF TimerExpires, serverVars, noCommand
<1>0. faults' \in 0 .. MaxFaults
  BY FaultCounted DEF DhcpInv, LoopTypeOK
<1>1. CASE DhcpStart
  BY <1>0, <1>1, RequestKeeps, DhcpAssumption DEF DhcpStart, DhcpInv, LoopTypeOK, DhcpTypeOK
<1>2. CASE BootpTry < TIMEOUT_COUNT /\ BootpRequest(BootpTry) /\ UNCHANGED <<NetState, NetOurIP>>
  BY <1>0, <1>2, RequestKeeps, DhcpAssumption DEF DhcpInv, LoopTypeOK, DhcpTypeOK
<1>3. CASE /\ NetState' \in {NetState, "fail"}
           /\ timeHandler' \in {"none", "startAgainTimeout"}
           /\ packetHandler' \in {packetHandler, "startAgainHandler"}
           /\ UNCHANGED <<NetOurIP, clientVars, ether>>
  <2>1. LoopTypeOK'
    BY <1>0, <1>3 DEF DhcpInv, LoopTypeOK
  <2> QED
    BY <2>1, <1>3 DEF DhcpInv, DhcpTypeOK, LeasesGranted, BoundToLease, clientVars
<1> QED
  BY <1>1, <1>2, <1>3 DEF BootpTimeout, NetStartAgain, NetSetTimeout, NetSetHandler, NfsTimeout

\* A server or the network takes packets away, adds one, and frees, offers or
\* grants addresses that are not the board's yet.
LEMMA ServersKeep ==
  ASSUME DhcpInv, LoopUnchanged, UNCHANGED <<NetOurIP, clientVars, netretry, noCommand>>,
         faults' \in 0 .. MaxFaults, silent' \subseteq Servers,
         lease' \in [Pool -> {"free", "offered", "ours", "theirs"}],
         \A a \in Pool : lease[a] = "ours" => lease'[a] = "ours",
         \/ ether' \subseteq ether
         \/ \E r \in Replies :
              /\ ether' \subseteq ether \cup {r}
              /\ (r.op = "ACK" /\ r.xid # 0) =>
                   r.ip \in Pool /\ lease'[r.ip] = "ours" /\ r.sid = Owner[r.ip]
  PROVE  DhcpInv'
<1>1. LoopTypeOK' /\ BoundToLease'
  BY DEF DhcpInv, LoopTypeOK, BoundToLease, LoopUnchanged, noCommand, clientVars
<1>2. DhcpTypeOK'
  BY DEF DhcpInv, DhcpTypeOK, clientVars
<1>3. \A r \in Replies : r \notin Requests
  BY DEF Replies, Requests
<1>4. LeasesGranted'
  BY <1>3 DEF DhcpInv, LeasesGranted, LoopUnchanged, clientVars
<1> QED
  BY <1>1, <1>2, <1>4 DEF DhcpInv

LEMMA ServerStepsKeep ==
  ASSUME DhcpInv, DhcpServerSteps
  PROVE  DhcpInv'
<1> PICK m \in ether \cap Requests :
      \/ \E a \in Pool, dst \in Pool \cup {Bcast} : ServerOffer(m, a, dst)
      \/ ServerAnswer(m) \/ ServerDeclined(m)
  BY DEF DhcpServerSteps
<1>0. /\ m.xid \in 0 .. MaxID /\ m.xid # 0 /\ m.at \in Servers
      /\ lease \in [Pool -> {"free", "offered", "ours", "theirs"}]
      /\ LoopUnchanged /\ UNCHANGED <<NetOurIP, clientVars, netretry, noCommand>>
      /\ faults' \in 0 .. MaxFaults /\ silent' \subseteq Servers
  BY DEF DhcpInv, DhcpTypeOK, LoopTypeOK, LeasesGranted, Requests, DhcpServerSteps
<1>1. ASSUME NEW a \in Pool, NEW dst \in Pool \cup {Bcast}, ServerOffer(m, a, dst)
      PROVE  DhcpInv'
  <2> DEFINE r == [op |-> "OFFER", xid |-> m.xid, sid |-> m.at, ip |-> a, dst |-> dst]
  <2>1. r \in Replies /\ r.op # "ACK"
    BY <1>0, DhcpAssumption DEF Replies, Addrs, Pool
  <2>2. /\ lease' \in [Pool -> {"free", "offered", "ours", "theirs"}]
        /\ \A b \in Pool : lease[b] = "ours" => lease'[b] = "ours"
    BY <1>0, <1>1 DEF ServerOffer
  <2>3. ether' \subseteq ether \cup {r}
    BY <1>1 DEF ServerOffer
  <2> HIDE DEF r
  <2> QED
    BY <1>0, <2>1, <2>2, <2>3, ServersKeep
<1>2. CASE ServerAnswer(m)
  <2> DEFINE good == m.ip \in Pool /\ Owner[m.ip] = m.at /\ lease[m.ip] \in {"offered", "ours"}
             r == IF good THEN [op |-> "ACK", xid |-> m.xid, sid |-> m.at, ip |-> m.ip,
                                dst |-> m.ip]
                  ELSE [op |-> "NAK", xid |-> m.xid, sid |-> m.at, ip |-> None, dst |-> Bcast]
  <2>1. r \in Replies
    BY <1>0 DEF Replies, Addrs
  <2>2. /\ lease' \in [Pool -> {"free", "offered", "ours", "theirs"}]
        /\ \A b \in Pool : lease[b] = "ours" => lease'[b] = "ours"
    BY <1>0, <1>2 DEF ServerAnswer
  <2>3. ether' \subseteq ether \cup {r}
    BY <1>2 DEF ServerAnswer
  <2>4. (r.op = "ACK" /\ r.xid # 0) =>
           r.ip \in Pool /\ lease'[r.ip] = "ours" /\ r.sid = Owner[r.ip]
    <3>1. CASE good
      BY <1>0, <1>2, <3>1 DEF ServerAnswer
    <3>2. CASE ~good
      BY <3>2
    <3> QED
      BY <3>1, <3>2
  <2> HIDE DEF r
  <2> QED
    BY <1>0, <2>1, <2>2, <2>3, <2>4, ServersKeep
<1>3. CASE ServerDeclined(m)
  <2>1. /\ lease' \in [Pool -> {"free", "offered", "ours", "theirs"}]
        /\ \A b \in Pool : lease[b] = "ours" => lease'[b] = "ours"
    BY <1>0, <1>3 DEF ServerDeclined
  <2> QED
    BY <1>0, <1>3, <2>1, ServersKeep DEF ServerDeclined
<1> QED
  BY <1>1, <1>2, <1>3

LEMMA DhcpFaultsKeep ==
  ASSUME DhcpInv, DhcpFaults
  PROVE  DhcpInv'
<1>0. /\ lease \in [Pool -> {"free", "offered", "ours", "theirs"}] /\ silent \subseteq Servers
      /\ LoopUnchanged /\ UNCHANGED <<NetOurIP, clientVars, netretry, noCommand>>
      /\ 0 \in 0 .. MaxID
  BY DhcpAssumption DEF DhcpInv, DhcpTypeOK, LoopTypeOK, DhcpFaults
<1>1. faults' \in 0 .. MaxFaults
  BY FaultCounted
  DEF DhcpInv, LoopTypeOK, DhcpFaults, OtherBoard, BootpServer, ServerStops, EtherLoses
<1>2. ASSUME NEW a \in Pool, OtherBoard(a)
      PROVE  DhcpInv'
  <2> DEFINE r == [op |-> "ACK", xid |-> 0, sid |-> Owner[a], ip |-> a, dst |-> Bcast]
  <2>1. r \in Replies /\ r.xid = 0
    BY <1>0, DhcpAssumption DEF Replies, Addrs, Pool
  <2>2. /\ lease' \in [Pool -> {"free", "offered", "ours", "theirs"}]
        /\ \A b \in Pool : lease[b] = "ours" => lease'[b] = "ours"
        /\ silent' \subseteq Servers /\ ether' \subseteq ether \cup {r}
    BY <1>0, <1>2 DEF OtherBoard
  <2> HIDE DEF r
  <2> QED
    BY <1>0, <1>1, <2>1, <2>2, ServersKeep
<1>3. ASSUME NEW m \in ether \cap Requests, BootpServer(m)
      PROVE  DhcpInv'
  <2> DEFINE r == [op |-> "REPLY", xid |-> m.xid, sid |-> None, ip |-> BootpAddr, dst |-> Bcast]
  <2>1. r \in Replies /\ r.op # "ACK"
    BY DEF Replies, Addrs, Requests
  <2>2. lease' = lease /\ silent' \subseteq Servers /\ ether' \subseteq ether \cup {r}
    BY <1>0, <1>3 DEF BootpServer
  <2> HIDE DEF r
  <2> QED
    BY <1>0, <1>1, <2>1, <2>2, ServersKeep
<1>4. ASSUME NEW s \in Servers, ServerStops(s)
      PROVE  DhcpInv'
  BY <1>0, <1>1, <1>4, ServersKeep DEF ServerStops
<1>5. ASSUME NEW m \in ether, EtherLoses(m)
      PROVE  DhcpInv'
  BY <1>0, <1>1, <1>5, ServersKeep DEF EtherLoses
<1> QED
  BY <1>2, <1>3, <1>4, <1>5 DEF DhcpFaults

LEMMA DhcpInvInit == Init => DhcpInv
BY NetBaseAssumption, DhcpAssumption, NetBootAssumption
DEF Init, DhcpInit, DhcpInv, LoopTypeOK, DhcpTypeOK, LeasesGranted, BoundToLease

LEMMA DhcpInvStep ==
  DhcpInv /\ NfsDownloadState \in {"fail", "success"} /\ [Next]_vars => DhcpInv'
<1> SUFFICES ASSUME DhcpInv, NfsDownloadState \in {"fail", "success"}, [Next]_vars
             PROVE  DhcpInv'
  OBVIOUS
<1>1. CASE CommandDhcp
  BY <1>1, RequestKeeps, DhcpAssumption, NetBootAssumption
  DEF CommandDhcp, Command, DhcpStart, DhcpInv, LoopTypeOK
<1>2. CASE CommandNfs
  BY <1>2, NetBootAssumption
  DEF CommandNfs, Command, NfsStart, NetSetTimeout, NetSetHandler, DhcpInv, LoopTypeOK,
      DhcpTypeOK, LeasesGranted, BoundToLease, dhcpVars, clientVars
<1>3. CASE DhcpIgnores
  <2>1. ether' \subseteq ether
    BY <1>3 DEF DhcpIgnores, RxIgnored
  <2> QED
    BY <1>3, <2>1, ServersKeep
    DEF DhcpIgnores, RxIgnored, serverVars, DhcpInv, DhcpTypeOK, LoopTypeOK
<1>4. CASE NfsTakes
  <2>1. /\ faults' \in 0 .. MaxFaults /\ UNCHANGED <<NetOurIP, dhcpVars, noCommand>>
    BY <1>4, FaultCounted DEF NfsTakes, DhcpInv, LoopTypeOK
  <2>2. \E m, net : NfsHandler(m, net)
    BY <1>4 DEF NfsTakes
  <2>3. ASSUME NEW m, NEW net, NfsHandler(m, net), NfsDownloadState \in {"fail", "success"}
        PROVE  /\ NetState' \in {NetState, "success", "fail"}
               /\ timeHandler' \in {timeHandler, "NfsTimeout"}
               /\ packetHandler' = packetHandler
    BY <2>3
    DEF NfsHandler, rpc_lookup_reply, nfs_mount_reply, nfs_lookup_reply, ReadGoesOn, ReadEnds,
        nfs_readlink_reply, nfs_umountall_reply, LoopUnchanged, NetSetTimeout
  <2> QED
    BY <2>1, <2>2, <2>3, DhcpUntouched DEF DhcpInv, LoopTypeOK
<1>5. CASE NetLoopReturns
  BY <1>5, DhcpUntouched DEF NetLoopReturns, DhcpInv, LoopTypeOK, noCommand
<1>6. CASE NfsServerSteps
  BY <1>6, DhcpUntouched DEF NfsServerSteps, DhcpInv, LoopTypeOK, LoopUnchanged, noCommand
<1>7. CASE NfsFaults
  <2>1. faults' \in 0 .. MaxFaults
    BY <1>7, FaultCounted DEF NfsFaults, NfsServerFault, RpcLoses, DhcpInv, LoopTypeOK
  <2> QED
    BY <1>7, <2>1, DhcpUntouched DEF NfsFaults, DhcpInv, LoopTypeOK, LoopUnchanged, noCommand
<1>8. CASE UNCHANGED vars
  BY <1>8, DhcpUntouched DEF vars, DhcpInv, LoopTypeOK, noCommand
<1> QED
  BY <1>1, <1>2, <1>3, <1>4, <1>5, <1>6, <1>7, <1>8, OfferKeeps, AckKeeps, TimerKeeps,
     ServerStepsKeep, DhcpFaultsKeep DEF Next

-----------------------------------------------------------------------------
(* NFS. *)

NfsStates == {"PRCLOOKUP_MOUNT", "PRCLOOKUP_NFS", "MOUNT", "LOOKUP", "READ", "READLINK",
              "UMOUNT"}

\* A call with the last number is the one that the state has made.
CallFits(m) ==
  /\ m.proc = NfsState
  /\ NfsState = "MOUNT"    => "MOUNT" \in ports
  /\ NfsState = "LOOKUP"   => m.name = StringIn(nfs_path_buff)
  /\ NfsState = "READ"     => m.name = filefh /\ m.offset = nfs_offset
  /\ NfsState = "READLINK" => m.name = filefh

\* A reply with the last number is what the server has for that call.
ReplyFits(m) ==
  /\ NfsState = "MOUNT" => "MOUNT" \in ports
  /\ (NfsState = "LOOKUP" /\ m.status = "ok") =>
       m.fh = StringIn(nfs_path_buff) /\ m.fh \in Names \ OtherNames
  /\ (NfsState = "READ" /\ m.status = "ok") =>
       /\ filefh \in Files /\ m.fh = filefh /\ m.offset = nfs_offset /\ m.len \in Nat
       /\ IF m.len = 0 THEN nfs_offset >= FileLen[filefh]
                       ELSE nfs_offset + m.len <= FileLen[filefh]
  /\ (NfsState = "READ" /\ m.status = "inval") => filefh \notin Files
  /\ (NfsState = "READLINK" /\ m.status = "ok") =>
       filefh \in Links /\ m.fh = LinkTo[filefh].to /\ m.rel = LinkTo[filefh].rel

\* Numbers are given out upwards; packets with older ones are not looked at.
PacketsFit ==
  \A m \in rpc :
    /\ m.id \in 0 .. rpc_id
    /\ (m.id = rpc_id /\ NfsState # "UMOUNT") => IF IsCall(m) THEN CallFits(m) ELSE ReplyFits(m)

\* How far the client has come.
Progress ==
  /\ packetHandler # "none" \/ timeHandler # "none" => commands > 0
  /\ IF packetHandler = "NfsHandler"
     THEN timeHandler \in {"NfsTimeout", "none"}
     ELSE /\ NfsState = "PRCLOOKUP_MOUNT" /\ NfsDownloadState = "fail"
          /\ NetBootFileXferSize = 0 /\ asked = <<>>
  /\ (NetState = "success" /\ asked # <<>>) => NfsDownloadState = "success"
  /\ NfsDownloadState = "success" => NfsState = "UMOUNT"
  /\ fs_mounted => "MOUNT" \in ports
  /\ NfsState \in {"LOOKUP", "READ", "READLINK"} => fs_mounted
  /\ NfsState \notin {"READ", "UMOUNT"} => NetBootFileXferSize = 0
  /\ NfsState = "READ" =>
       /\ nfs_offset = NetBootFileXferSize /\ nfs_offset \in Nat
       /\ IF filefh \in Files
          THEN /\ nfs_offset <= FileLen[filefh]
               /\ \A i \in 0 .. nfs_offset - 1 : mem[i] = <<filefh, i>>
          ELSE nfs_offset = 0

PathType == nfs_path_buff \in [1 .. MaxName + 2 -> Nat]

NfsInv == NfsTypeOK /\ PathType /\ PacketsFit /\ Progress

\* The name in the path leads where the name asked for does.
NameIn(n, buf) == (\A i \in 1 .. Len(n) : buf[i] = n[i]) /\ buf[Len(n) + 1] = NUL

Leads(n) == n \in DOMAIN Goal => asked \in DOMAIN Goal /\ Goal[n] = Goal[asked]

Complete ==
  /\ asked \in DOMAIN Goal
  /\ NetBootFileXferSize = FileLen[Goal[asked]]
  /\ \A i \in 0 .. FileLen[Goal[asked]] - 1 : mem[i] = <<Goal[asked], i>>

PathInv ==
  /\ \A i \in 1 .. MaxName + 2 : (\A n \in Names : Len(n) < i) => nfs_path_buff[i] = NUL
  /\ (packetHandler = "NfsHandler" /\ NfsState # "UMOUNT") =>
       \E n \in Names :
         /\ NameIn(n, nfs_path_buff) /\ Leads(n)
         /\ NfsState \in {"READ", "READLINK"} => filefh = n
  /\ NfsDownloadState = "success" => Complete

\* nfs_readlink_reply terminates a relative name one character late, which does
\* no harm when what it replaces is as long, or no name is longer.
LinksFit ==
  \A l \in Links : LinkTo[l].rel =>
    \/ Len(LinkTo[l].to) = Len(l)
    \/ \A n \in Names : Len(n) <= Len(LinkTo[l].to)

\* NfsSend: the last number is that of the new call.
LEMMA SendFits ==
  ASSUME NEW net, NEW st \in NfsStates, rpc_id \in Nat, \A m \in net : m.id \in 0 .. rpc_id,
         NfsSend(net, st)
  PROVE  NfsState' = st /\ rpc_id' \in Nat /\ PacketsFit'
<1>0. NfsState' = st
  BY DEF NfsSend
<1>1. ASSUME NEW prog, NEW name, NEW offset, rpc_req(net, prog, Call(st, name, offset)),
             st = "MOUNT"    => prog = "MOUNT",
             st = "LOOKUP"   => name = StringIn(nfs_path_buff'),
             st = "READ"     => name = filefh' /\ offset = nfs_offset',
             st = "READLINK" => name = filefh'
      PROVE  rpc_id' \in Nat /\ PacketsFit'
  <2>0. PICK c : c = [Call(st, name, offset) EXCEPT !.id = rpc_id']
    OBVIOUS
  <2>1. rpc_id' = rpc_id + 1
    BY <1>1 DEF rpc_req
  <2>2. /\ c.id = rpc_id' /\ c.proc = st /\ c.name = name /\ c.offset = offset
        /\ "proc" \in DOMAIN c
    BY <2>0 DEF Call
  <2>3. rpc' \subseteq net \cup {c} /\ (c \in rpc' => prog \in ports' \cup {"PORTMAP"} \/ c \in net)
    BY <1>1, <2>0 DEF rpc_req
  <2>4. ASSUME NEW m \in rpc'
        PROVE  /\ m.id \in 0 .. rpc_id'
               /\ (m.id = rpc_id' /\ st # "UMOUNT") => m = c /\ c \notin net
    <3>1. c \notin net
      BY <2>1, <2>2
    <3>2. CASE m \in net
      BY <2>1, <3>2
    <3>3. CASE m = c
      BY <2>1, <2>2, <3>1, <3>3
    <3> QED
      BY <2>3, <2>4, <3>2, <3>3
  <2>5. (c \in rpc' /\ c \notin net) => IsCall(c)' /\ CallFits(c)'
    <3>1. IsCall(c)'
      BY <2>2 DEF IsCall
    <3>2. StringIn(nfs_path_buff)' = StringIn(nfs_path_buff')
      BY DEF StringIn
    <3> QED
      BY <1>0, <1>1, <2>2, <2>3, <3>1, <3>2 DEF CallFits
  <2> QED
    BY <1>0, <2>1, <2>4, <2>5 DEF PacketsFit
<1>2. CASE rpc' = net /\ UNCHANGED rpc_id /\ st = "UMOUNT"
  BY <1>0, <1>2 DEF PacketsFit
<1> QED
  BY <1>0, <1>1, <1>2 DEF NfsSend, NfsStates

\* The longest file.
LEMMA MaxLenIs == MaxLen \in Nat /\ \A f \in Files : FileLen[f] \in 0 .. MaxLen
<1> DEFINE bound(n) == \A f \in Files : FileLen[f] <= n
<1>1. \E n \in {FileLen[f] : f \in Files} : bound(n)
  BY NfsAssumption
<1>2. MaxLen \in {FileLen[f] : f \in Files} /\ bound(MaxLen)
  BY <1>1 DEF MaxLen
<1> QED
  BY <1>2, NfsAssumption

LEMMA NamesAre ==
  ASSUME NEW n \in Names
  PROVE  /\ n \in Seq(Nat) /\ Len(n) \in 1 .. MaxName
         /\ \A i \in 1 .. Len(n) : n[i] \in Nat /\ n[i] # NUL
         /\ n # <<>>
<1>1. n \in Seq(Nat \ {NUL}) /\ Len(n) \in 1 .. MaxName
  BY NfsAssumption
<1>2. \A i \in 1 .. Len(n) : n[i] \in Nat \ {NUL}
  BY <1>1, ElementOfSeq
<1> QED
  BY <1>1, <1>2, NfsAssumption, SeqMonotonic, EmptySeq

LEMMA BuffLen ==
  ASSUME NEW buf \in [1 .. MaxName + 2 -> Nat]
  PROVE  buf \in Seq(Nat) /\ Len(buf) = MaxName + 2 /\ DOMAIN buf = 1 .. MaxName + 2
<1>1. buf \in Seq(Nat)
  BY NfsAssumption, SeqDef
<1>2. DOMAIN buf = 1 .. Len(buf) /\ Len(buf) \in Nat
  BY <1>1, LenProperties
<1> QED
  BY <1>1, <1>2, NfsAssumption

\* The length of nfs_path_buff.
LEMMA MaxNameNat ==
  MaxName \in Nat
BY NfsAssumption

\* A name that is in the buffer, with its terminator, is the string in it.
LEMMA StringInIs ==
  ASSUME NEW n \in Names, NEW buf \in [1 .. MaxName + 2 -> Nat], NameIn(n, buf)
  PROVE  StringIn(buf) = n
<1> DEFINE ends(i) == buf[i] = NUL /\ \A j \in 1 .. i - 1 : buf[j] # NUL
           e == Len(n) + 1
<1>1. /\ n \in Seq(Nat) /\ Len(n) \in 1 .. MaxName
      /\ \A i \in 1 .. Len(n) : n[i] \in Nat /\ n[i] # NUL
  BY NamesAre
<1>2. Len(buf) = MaxName + 2
  BY BuffLen
<1>3. e \in 1 .. Len(buf) /\ ends(e)
  BY <1>1, <1>2, MaxNameNat DEF NameIn
<1>4. ASSUME NEW i \in 1 .. Len(buf), ends(i)
      PROVE  i = e
  <2>1. ~(i < e)
    <3>1. ~(i \in 1 .. Len(n))
      BY <1>1, <1>4 DEF NameIn
    <3> QED
      BY <1>1, <1>2, <3>1, MaxNameNat
  <2>2. ~(e < i)
    BY <1>1, <1>3, <1>4
  <2> QED
    BY <1>1, <2>1, <2>2, <1>2, MaxNameNat
<1>5. (CHOOSE i \in 1 .. Len(buf) : ends(i)) = e
  <2> HIDE DEF ends, e
  <2>1. \E i \in 1 .. Len(buf) : ends(i)
    BY <1>3
  <2>2. /\ (CHOOSE i \in 1 .. Len(buf) : ends(i)) \in 1 .. Len(buf)
        /\ ends(CHOOSE i \in 1 .. Len(buf) : ends(i))
    BY <2>1, Zenon
  <2> QED
    BY <2>2, <1>4
<1>6. StringIn(buf) = SubSeq(buf, 1, Len(n))
  <2>1. StringIn(buf) = SubSeq(buf, 1, (CHOOSE i \in 1 .. Len(buf) : ends(i)) - 1)
    BY Zenon DEF StringIn
  <2>2. e - 1 = Len(n)
    BY <1>1
  <2> HIDE DEF e, ends
  <2> QED
    BY <2>1, <2>2, <1>5
<1>7. \A i \in 1 .. Len(n) : buf[i] \in Nat /\ buf[i] = n[i]
  BY <1>1 DEF NameIn
<1>8. /\ SubSeq(buf, 1, Len(n)) \in Seq(Nat) /\ Len(SubSeq(buf, 1, Len(n))) = Len(n)
      /\ \A i \in 1 .. Len(n) : SubSeq(buf, 1, Len(n))[i] = buf[i]
  BY <1>1, <1>7, SubSeqProperties
<1>9. SubSeq(buf, 1, Len(n)) = n
  BY <1>1, <1>7, <1>8, SeqEqual
<1> QED
  BY <1>6, <1>9

\* strcpy of a name into the buffer.
LEMMA CopiedIs ==
  ASSUME NEW n \in Names, NEW buf \in [1 .. MaxName + 2 -> Nat]
  PROVE  /\ Copied(n, buf) \in [1 .. MaxName + 2 -> Nat]
         /\ Copied(Append(n, NUL), buf) \in [1 .. MaxName + 2 -> Nat]
         /\ NameIn(n, Copied(Append(n, NUL), buf))
         /\ \A i \in 1 .. MaxName + 2 :
              /\ Copied(n, buf)[i] = IF i <= Len(n) THEN n[i] ELSE buf[i]
              /\ i > Len(n) => Copied(Append(n, NUL), buf)[i] \in {NUL, buf[i]}
<1>1. /\ n \in Seq(Nat) /\ Len(n) \in 1 .. MaxName
      /\ \A i \in 1 .. Len(n) : n[i] \in Nat
  BY NamesAre
<1>2. Len(buf) = MaxName + 2
  BY BuffLen
<1>3. /\ Len(Append(n, NUL)) = Len(n) + 1 /\ Append(n, NUL)[Len(n) + 1] = NUL
      /\ \A i \in 1 .. Len(n) : Append(n, NUL)[i] = n[i]
  BY <1>1 DEF NUL
<1>4. \A i \in 1 .. MaxName + 2 :
        /\ Copied(n, buf)[i] = IF i <= Len(n) THEN n[i] ELSE buf[i]
        /\ Copied(Append(n, NUL), buf)[i] = IF i <= Len(n) THEN n[i]
                                            ELSE IF i = Len(n) + 1 THEN NUL ELSE buf[i]
  BY <1>1, <1>2, <1>3, MaxNameNat DEF Copied
<1>5. /\ Copied(n, buf) \in [1 .. MaxName + 2 -> Nat]
      /\ Copied(Append(n, NUL), buf) \in [1 .. MaxName + 2 -> Nat]
  <2> DEFINE f == Copied(n, buf)
             g == Copied(Append(n, NUL), buf)
  <2>1. \A i \in 1 .. MaxName + 2 : f[i] \in Nat /\ g[i] \in Nat
    <3> SUFFICES ASSUME NEW i \in 1 .. MaxName + 2
                 PROVE  f[i] \in Nat /\ g[i] \in Nat
      OBVIOUS
    <3>1. i \in Int /\ 1 <= i /\ NUL \in Nat /\ buf[i] \in Nat
      BY MaxNameNat DEF NUL
    <3>2. i <= Len(n) => n[i] \in Nat
      BY <1>1, <3>1
    <3> QED
      BY <1>4, <3>1, <3>2
  <2>2. f = [i \in 1 .. MaxName + 2 |-> f[i]] /\ g = [i \in 1 .. MaxName + 2 |-> g[i]]
    BY <1>2 DEF Copied
  <2> HIDE DEF f, g
  <2> QED
    BY <2>1, <2>2 DEF f, g
<1>6. NameIn(n, Copied(Append(n, NUL), buf))
  <2>1. Len(n) + 1 \in 1 .. MaxName + 2 /\ ~(Len(n) + 1 <= Len(n))
    BY <1>1, MaxNameNat
  <2>2. \A i \in 1 .. Len(n) : i \in 1 .. MaxName + 2 /\ i <= Len(n)
    BY <1>1, MaxNameNat
  <2> HIDE DEF Copied
  <2>3. Copied(Append(n, NUL), buf)[Len(n) + 1] = NUL
    BY <1>4, <2>1
  <2> QED
    BY <1>4, <2>2, <2>3 DEF NameIn
<1>7. \A i \in 1 .. MaxName + 2 : i > Len(n) => Copied(Append(n, NUL), buf)[i] \in {NUL, buf[i]}
  BY <1>1, <1>4
<1> QED
  BY <1>4, <1>5, <1>6, <1>7

\* What the server has for a call that is under way.
LEMMA AnsweredFits ==
  ASSUME NfsInv, NEW c \in rpc, IsCall(c), NEW r \in Answered(c)
  PROVE  /\ r.id = c.id /\ ~IsCall(r)
         /\ (r.id = rpc_id /\ NfsState # "UMOUNT") => ReplyFits(r)
<1>1. r.id = c.id /\ "proc" \notin DOMAIN r
  BY DEF Answered, Reply
<1>2. ASSUME c.id = rpc_id, NfsState # "UMOUNT"
      PROVE  ReplyFits(r)
  <2>1. CallFits(c)
    BY <1>2 DEF NfsInv, PacketsFit
  <2>2. c.proc = NfsState
    BY <2>1 DEF CallFits
  <2>3. NfsState = "MOUNT" => "MOUNT" \in ports
    BY <2>1 DEF CallFits
  <2>4. CASE NfsState = "LOOKUP"
    <3>1. c.name = StringIn(nfs_path_buff)
      BY <2>1, <2>4 DEF CallFits
    <3>2. r = Reply(c, IF c.name \in Names \ OtherNames THEN "ok" ELSE "err", c.name, 0, 0, FALSE)
      BY <2>2, <2>4 DEF Answered
    <3>3. r.fh = c.name /\ (r.status = "ok" => c.name \in Names \ OtherNames)
      BY <3>2 DEF Reply
    <3> QED
      BY <2>4, <3>1, <3>3 DEF ReplyFits
  <2>5. CASE NfsState = "READ"
    <3>1. c.name = filefh /\ c.offset = nfs_offset
      BY <2>1, <2>5 DEF CallFits
    <3>2. CASE filefh \in Files
      <4> DEFINE rest == FileLen[filefh] - nfs_offset
      <4>1. PICK n \in IF rest <= 0 THEN {0} ELSE {k \in 1 .. NFS_READ_SIZE : k <= rest} :
                 r = Reply(c, "ok", filefh, nfs_offset, n, FALSE)
        BY <2>2, <2>5, <3>1, <3>2 DEF Answered
      <4>2. r.fh = filefh /\ r.offset = nfs_offset /\ r.len = n /\ r.status = "ok"
        BY <4>1 DEF Reply
      <4>3. /\ FileLen[filefh] \in Nat /\ nfs_offset \in Nat /\ NFS_READ_SIZE \in Nat
        BY <2>5, <3>2, NfsAssumption DEF NfsInv, Progress
      <4>4. n \in Nat /\ IF n = 0 THEN nfs_offset >= FileLen[filefh]
                                  ELSE nfs_offset + n <= FileLen[filefh]
        BY <4>1, <4>3
      <4> QED
        BY <2>5, <3>2, <4>2, <4>4 DEF ReplyFits
    <3>3. CASE filefh \notin Files
      <4>1. r.status = "inval"
        BY <2>2, <2>5, <3>1, <3>3 DEF Answered, Reply
      <4> QED
        BY <2>5, <3>3, <4>1 DEF ReplyFits
    <3> QED
      BY <3>2, <3>3
  <2>6. CASE NfsState = "READLINK"
    <3>1. c.name = filefh
      BY <2>1, <2>6 DEF CallFits
    <3>2. CASE filefh \in Links
      <4>1. r = Reply(c, "ok", LinkTo[filefh].to, 0, 0, LinkTo[filefh].rel)
        BY <2>2, <2>6, <3>1, <3>2 DEF Answered
      <4> QED
        BY <2>6, <3>2, <4>1 DEF ReplyFits, Reply
    <3>3. CASE filefh \notin Links
      <4>1. r.status = "err"
        BY <2>2, <2>6, <3>1, <3>3 DEF Answered, Reply
      <4> QED
        BY <2>6, <4>1 DEF ReplyFits
    <3> QED
      BY <3>2, <3>3
  <2> QED
    BY <2>3, <2>4, <2>5, <2>6 DEF ReplyFits
<1> QED
  BY <1>1, <1>2 DEF IsCall

\* The server and the network, which leave the client as it is.
LEMMA PacketsKeep ==
  ASSUME NfsInv, UNCHANGED <<nfsClient, rpc_id, asked, commands>>, LoopUnchanged,
         \A m \in rpc' \ rpc :
           /\ m.id \in 0 .. rpc_id /\ ~IsCall(m)
           /\ (m.id = rpc_id /\ NfsState # "UMOUNT") => ReplyFits(m)
  PROVE  NfsInv'
<1>1. NfsTypeOK' /\ PathType' /\ Progress'
  BY DEF NfsInv, NfsTypeOK, PathType, Progress, nfsClient, LoopUnchanged
<1>2. ASSUME NEW m \in rpc'
      PROVE  /\ m.id \in 0 .. rpc_id'
             /\ (m.id = rpc_id' /\ NfsState' # "UMOUNT") =>
                  IF IsCall(m)' THEN CallFits(m)' ELSE ReplyFits(m)'
  <2>1. /\ m.id \in 0 .. rpc_id
        /\ (m.id = rpc_id /\ NfsState # "UMOUNT") => IF IsCall(m) THEN CallFits(m) ELSE ReplyFits(m)
    BY DEF NfsInv, PacketsFit
  <2> QED
    BY <2>1 DEF nfsClient, IsCall, CallFits, ReplyFits, StringIn
<1> QED
  BY <1>1, <1>2 DEF NfsInv, PacketsFit

\* NfsStart with nothing loaded yet.
LEMMA StartKeeps ==
  ASSUME NfsInv, NEW n \in Names, NfsStart(n), asked' = n, NetState' # "success",
         NetBootFileXferSize' = 0, commands' > 0
  PROVE  NfsInv'
<1> USE DEF NfsInv
<1>1. NfsState' = "PRCLOOKUP_MOUNT" /\ rpc_id' \in Nat /\ PacketsFit'
  <2>1. \A m \in rpc : m.id \in 0 .. rpc_id
    BY DEF PacketsFit
  <2> QED
    BY <2>1, SendFits DEF NfsStart, NfsTypeOK, NfsStates
<1>2. nfs_path_buff' \in [1 .. MaxName + 2 -> Nat] /\ NameIn(n, nfs_path_buff')
  BY CopiedIs DEF NfsStart, PathType
<1>3. /\ Len(nfs_path_buff') = MaxName + 2 /\ DOMAIN nfs_path_buff' = 1 .. MaxName + 2
      /\ Len(n) + 1 \in 1 .. MaxName + 2
  BY <1>2, BuffLen, NamesAre, NfsAssumption
<1>4. NfsTypeOK'
  BY <1>1, <1>2, <1>3, MaxLenIs DEF NfsStart, NfsTypeOK, NameIn
<1>5. Progress'
  BY <1>1 DEF NfsStart, NetSetTimeout, NetSetHandler, Progress
<1> QED
  BY <1>1, <1>2, <1>4, <1>5 DEF PathType

\* A step that does not concern the NFS client, which has not been started.
LEMMA NfsUntouched ==
  ASSUME NfsInv, packetHandler # "NfsHandler", packetHandler' # "NfsHandler",
         packetHandler' # "none" \/ timeHandler' # "none" => commands' > 0,
         UNCHANGED nfsVars
  PROVE  NfsInv'
<1>1. NfsTypeOK' /\ PathType' /\ Progress'
  BY DEF NfsInv, NfsTypeOK, PathType, Progress, nfsVars, nfsClient
<1>2. PacketsFit'
  BY DEF NfsInv, PacketsFit, nfsVars, nfsClient, IsCall, CallFits, ReplyFits, StringIn
<1> QED
  BY <1>1, <1>2 DEF NfsInv

\* What the handler makes of a reply, up to the state of the loop.
LEMMA HandlerSends ==
  ASSUME NfsInv, NEW net \in SUBSET rpc, NEW st \in NfsStates, NfsSend(net, st)
  PROVE  NfsState' = st /\ rpc_id' \in Nat /\ PacketsFit'
<1>1. rpc_id \in Nat /\ \A m \in net : m.id \in 0 .. rpc_id
  BY DEF NfsInv, NfsTypeOK, PacketsFit
<1> QED
  BY <1>1, SendFits

LEMMA ReplyIsFit ==
  ASSUME NfsInv, NEW m \in rpc, ~IsCall(m), m.id = rpc_id, NfsState # "UMOUNT"
  PROVE  ReplyFits(m)
BY DEF NfsInv, PacketsFit

LEMMA LookupsKeep ==
  ASSUME NfsInv, NEW m \in rpc, ~IsCall(m), NEW net \in SUBSET rpc, NfsHandles,
         UNCHANGED <<asked, commands>>,
         rpc_lookup_reply(m, net) \/ nfs_mount_reply(m, net) \/ nfs_lookup_reply(m, net)
  PROVE  NfsInv'
<1> USE DEF NfsInv, NfsStates
<1>1. CASE rpc_lookup_reply(m, net)
  <2>1. NfsState' \in {"PRCLOOKUP_NFS", "MOUNT"} /\ rpc_id' \in Nat /\ PacketsFit'
    BY <1>1, HandlerSends DEF rpc_lookup_reply
  <2>2. NfsTypeOK' /\ PathType'
    BY <1>1, <2>1 DEF rpc_lookup_reply, NfsTypeOK, PathType
  <2>3. Progress'
    BY <1>1, <2>1 DEF rpc_lookup_reply, Progress, NfsHandles, LoopUnchanged
  <2> QED
    BY <2>1, <2>2, <2>3
<1>2. CASE nfs_mount_reply(m, net)
  <2>1. /\ NfsState' = IF Answers(m) THEN "LOOKUP" ELSE "UMOUNT"
        /\ rpc_id' \in Nat /\ PacketsFit'
    BY <1>2, HandlerSends DEF nfs_mount_reply
  <2>2. NfsTypeOK' /\ PathType'
    BY <1>2, <2>1 DEF nfs_mount_reply, NfsTypeOK, PathType, Answers
  <2>3. Answers(m) => "MOUNT" \in ports
    BY <1>2, ReplyIsFit DEF nfs_mount_reply, Answers, ReplyFits
  <2>4. Progress'
    BY <1>2, <2>1, <2>3 DEF nfs_mount_reply, Progress, NfsHandles, LoopUnchanged, NfsTypeOK
  <2> QED
    BY <2>1, <2>2, <2>4
<1>3. CASE nfs_lookup_reply(m, net)
  <2>1. /\ NfsState' = IF Answers(m) THEN "READ" ELSE "UMOUNT"
        /\ rpc_id' \in Nat /\ PacketsFit'
    BY <1>3, HandlerSends DEF nfs_lookup_reply
  <2>2. Answers(m) => m.fh \in Names
    BY <1>3, ReplyIsFit DEF nfs_lookup_reply, Answers, ReplyFits
  <2>3. NfsTypeOK' /\ PathType'
    BY <1>3, <2>1, <2>2, MaxLenIs DEF nfs_lookup_reply, NfsTypeOK, PathType
  <2>4. filefh' \in Files => 0 <= FileLen[filefh']
    BY MaxLenIs
  <2>5. Progress'
    BY <1>3, <2>1, <2>4 DEF nfs_lookup_reply, Progress, NfsHandles, LoopUnchanged
  <2> QED
    BY <2>1, <2>3, <2>5
<1> QED
  BY <1>1, <1>2, <1>3

\* A block goes where the file has it.
LEMMA ReadKeeps ==
  ASSUME NfsInv, NEW m \in rpc, ~IsCall(m), NEW net \in SUBSET rpc, NfsHandles,
         UNCHANGED <<asked, commands>>, ReadGoesOn(m, net)
  PROVE  NfsInv'
<1> USE DEF NfsInv, NfsStates
<1>1. NfsState' = "READ" /\ rpc_id' \in Nat /\ PacketsFit'
  BY HandlerSends DEF ReadGoesOn
<1>2. /\ filefh \in Files /\ m.fh = filefh /\ m.offset = nfs_offset /\ m.len \in Nat \ {0}
      /\ nfs_offset \in Nat /\ nfs_offset + m.len <= FileLen[filefh]
  <2>1. ReplyFits(m) /\ NfsState = "READ" /\ m.status = "ok" /\ m.len > 0
    BY ReplyIsFit DEF ReadGoesOn, Answers
  <2> QED
    BY <2>1 DEF ReplyFits, Progress
<1>3. FileLen[filefh] \in 0 .. MaxLen /\ MaxLen \in Nat
  BY <1>2, MaxLenIs
<1>4. /\ \A i \in 0 .. MaxLen - 1 :
           mem'[i] = IF i \in nfs_offset .. nfs_offset + m.len - 1 THEN <<filefh, i>> ELSE mem[i]
      /\ mem' = [i \in 0 .. MaxLen - 1 |-> mem'[i]]
  <2>1. DOMAIN mem = 0 .. MaxLen - 1
    BY DEF NfsTypeOK
  <2>2. \A i \in 0 .. MaxLen - 1 : nfs_offset + (i - nfs_offset) = i
    BY <1>2, <1>3
  <2> QED
    BY <1>2, <2>1, <2>2 DEF ReadGoesOn, store_block
<1>5. \A i \in 0 .. MaxLen - 1 : mem'[i] \in (Names \X (0 .. MaxLen - 1)) \cup {NoBlock}
  BY <1>2, <1>4 DEF NfsTypeOK, Names
<1>6. mem' \in [0 .. MaxLen - 1 -> (Names \X (0 .. MaxLen - 1)) \cup {NoBlock}]
  BY <1>4, <1>5
<1>7. NetBootFileXferSize' = nfs_offset + m.len /\ nfs_offset' = nfs_offset + m.len
  BY <1>2 DEF ReadGoesOn, store_block, Progress
<1>8. NfsTypeOK' /\ PathType'
  <2>1. nfs_offset' \in -1 .. MaxLen /\ NetBootFileXferSize' \in 0 .. MaxLen
    BY <1>2, <1>3, <1>7
  <2>2. UNCHANGED <<NfsDownloadState, fs_mounted, ports, nfs_path_buff, filefh, asked>>
    BY DEF ReadGoesOn
  <2> QED
    BY <1>1, <1>6, <2>1, <2>2 DEF NfsTypeOK, PathType
<1>9. \A i \in 0 .. nfs_offset' - 1 : mem'[i] = <<filefh, i>>
  <2>1. \A i \in 0 .. nfs_offset - 1 : mem[i] = <<filefh, i>>
    BY <1>2 DEF Progress, ReadGoesOn
  <2> QED
    BY <1>2, <1>3, <1>4, <1>7, <2>1, SMTT(20)
<1>10. Progress'
  BY <1>1, <1>2, <1>3, <1>7, <1>9, SMTT(20)
  DEF ReadGoesOn, Progress, NfsHandles, NetSetTimeout
<1> QED
  BY <1>1, <1>8, <1>10

LEMMA EndKeeps ==
  ASSUME NfsInv, NEW m \in rpc, ~IsCall(m), NEW net \in SUBSET rpc, NfsHandles,
         UNCHANGED <<asked, commands>>, ReadEnds(m, net)
  PROVE  NfsInv'
<1> USE DEF NfsInv, NfsStates
<1>1. /\ NfsState' = IF m.id = rpc_id /\ m.status = "inval" THEN "READLINK" ELSE "UMOUNT"
      /\ rpc_id' \in Nat /\ PacketsFit'
  BY HandlerSends DEF ReadEnds
<1>2. NfsTypeOK' /\ PathType'
  BY <1>1 DEF ReadEnds, NfsTypeOK, PathType
<1>3. NfsState' = "READLINK" => filefh \notin Files
  BY <1>1, ReplyIsFit DEF ReadEnds, ReplyFits
<1>4. Progress'
  BY <1>1, <1>3 DEF ReadEnds, Progress, NfsHandles, NetSetTimeout, Answers
<1> QED
  BY <1>1, <1>2, <1>4

\* The new name fits into the buffer.
LEMMA RelinkedIs ==
  ASSUME NfsInv, NEW m, NEW l \in Links, m.fh = LinkTo[l].to, m.rel = LinkTo[l].rel
  PROVE  /\ m.fh \in Names /\ m.rel \in BOOLEAN
         /\ Relinked(m) \in [1 .. MaxName + 2 -> Nat]
         /\ \A i \in 1 .. MaxName + 2 :
              Relinked(m)[i] = IF i = Len(m.fh) + (IF m.rel THEN 2 ELSE 1) THEN NUL
                               ELSE IF i <= Len(m.fh) THEN m.fh[i] ELSE nfs_path_buff[i]
         /\ \E i \in 1 .. MaxName + 2 : Relinked(m)[i] = NUL
<1>1. m.fh \in Names /\ m.rel \in BOOLEAN
  BY NfsAssumption
<1> DEFINE end == Len(m.fh) + (IF m.rel THEN 2 ELSE 1)
           f == Copied(m.fh, nfs_path_buff)
<1>2. Len(m.fh) \in 1 .. MaxName
  BY <1>1, NamesAre
<1>3. end \in 1 .. MaxName + 2
  <2>1. MaxName \in Nat
    BY NfsAssumption
  <2>2. CASE m.rel
    BY <1>2, <2>1, <2>2
  <2>3. CASE ~m.rel
    BY <1>2, <2>1, <2>3
  <2> QED
    BY <2>2, <2>3
<1>4. /\ f \in [1 .. MaxName + 2 -> Nat]
      /\ \A i \in 1 .. MaxName + 2 : f[i] = IF i <= Len(m.fh) THEN m.fh[i] ELSE nfs_path_buff[i]
  BY <1>1, CopiedIs DEF NfsInv, PathType
<1>5. Relinked(m) = [f EXCEPT ![end] = NUL]
  BY DEF Relinked
<1> HIDE DEF f, end
<1>6. /\ Relinked(m) \in [1 .. MaxName + 2 -> Nat]
      /\ \A i \in 1 .. MaxName + 2 : Relinked(m)[i] = IF i = end THEN NUL ELSE f[i]
  BY <1>3, <1>4, <1>5 DEF NUL
<1> QED
  BY <1>1, <1>3, <1>4, <1>6 DEF end

LEMMA ReadlinkKeeps ==
  ASSUME NfsInv, NEW m \in rpc, ~IsCall(m), NEW net \in SUBSET rpc, NfsHandles,
         UNCHANGED <<asked, commands>>, nfs_readlink_reply(m, net)
  PROVE  NfsInv'
<1> USE DEF NfsInv, NfsStates
<1>1. /\ NfsState' = IF Answers(m) THEN "MOUNT" ELSE "UMOUNT"
      /\ rpc_id' \in Nat /\ PacketsFit'
  BY HandlerSends DEF nfs_readlink_reply
<1>2. ASSUME Answers(m)
      PROVE  /\ nfs_path_buff' \in [1 .. MaxName + 2 -> Nat]
             /\ \E i \in 1 .. MaxName + 2 : nfs_path_buff'[i] = NUL
  <2>1. filefh \in Links /\ m.fh = LinkTo[filefh].to /\ m.rel = LinkTo[filefh].rel
    BY <1>2, ReplyIsFit DEF nfs_readlink_reply, Answers, ReplyFits
  <2>2. nfs_path_buff' = Relinked(m)
    BY <1>2 DEF nfs_readlink_reply
  <2> QED
    BY <2>1, <2>2, RelinkedIs
<1>3. PathType'
  BY <1>2 DEF nfs_readlink_reply, PathType
<1>4. /\ Len(nfs_path_buff') = MaxName + 2
      /\ \E i \in DOMAIN nfs_path_buff' : nfs_path_buff'[i] = NUL
  <2>1. CASE Answers(m)
    BY <1>2, <2>1, BuffLen
  <2>2. CASE ~Answers(m)
    BY <2>2 DEF nfs_readlink_reply, NfsTypeOK
  <2> QED
    BY <2>1, <2>2
<1>5. NfsTypeOK'
  BY <1>1, <1>4 DEF nfs_readlink_reply, NfsTypeOK
<1>6. Progress'
  BY <1>1 DEF nfs_readlink_reply, Progress, NfsHandles, LoopUnchanged
<1> QED
  BY <1>1, <1>3, <1>5, <1>6

LEMMA UmountKeeps ==
  ASSUME NfsInv, NEW m \in rpc, ~IsCall(m), NEW net \in SUBSET rpc, NfsHandles,
         UNCHANGED <<asked, commands>>, nfs_umountall_reply(m, net)
  PROVE  NfsInv'
<1> USE DEF NfsInv, nfs_umountall_reply
<1>1. NfsTypeOK' /\ PathType'
  BY DEF NfsTypeOK, PathType
<1>2. PacketsFit'
  BY DEF PacketsFit
<1>3. Progress'
  BY DEF Progress, NfsHandles, NfsTypeOK
<1> QED
  BY <1>1, <1>2, <1>3

LEMMA NfsInvInit == Init => NfsInv
<1> SUFFICES ASSUME Init PROVE NfsInv
  OBVIOUS
<1> USE DEF Init, NfsInit
<1>1. PathType
  BY DEF PathType, NUL
<1>2. Len(nfs_path_buff) = MaxName + 2 /\ 1 \in DOMAIN nfs_path_buff /\ nfs_path_buff[1] = NUL
  BY <1>1, BuffLen, NfsAssumption DEF PathType
<1>3. NfsTypeOK
  <2>1. mem \in [0 .. MaxLen - 1 -> (Names \X (0 .. MaxLen - 1)) \cup {NoBlock}]
    OBVIOUS
  <2>2. MaxLen \in Nat
    BY MaxLenIs
  <2>3. nfs_offset \in -1 .. MaxLen /\ NetBootFileXferSize \in 0 .. MaxLen /\ rpc_id \in Nat
    BY <2>2
  <2> QED
    BY <1>2, <2>1, <2>3 DEF NfsTypeOK
<1> QED
  BY <1>1, <1>3 DEF NfsInv, PacketsFit, Progress

\* The steps of the client, the server and the network one by one.
LEMMA NfsInvStep == NfsInv /\ LoopTypeOK /\ [Next]_vars => NfsInv'
<1> SUFFICES ASSUME NfsInv, LoopTypeOK, [Next]_vars
             PROVE  NfsInv'
  OBVIOUS
<1>1. CASE CommandDhcp
  <2>1. packetHandler # "NfsHandler" /\ NetBootFileXferSize = 0 /\ asked = <<>>
    BY <1>1 DEF CommandDhcp, NfsInv, Progress
  <2>2. UNCHANGED nfsVars /\ packetHandler' = "DhcpHandler" /\ commands' > 0
    BY <1>1, <2>1
    DEF CommandDhcp, Command, DhcpStart, BootpRequest, NetSetHandler, nfsVars, nfsClient
  <2> QED
    BY <2>1, <2>2, NfsUntouched
<1>2. CASE CommandNfs
  <2>1. PICK n \in BootFiles : asked' = n /\ NfsStart(n)
    BY <1>2 DEF CommandNfs
  <2>2. NetState' = "continue" /\ NetBootFileXferSize' = 0 /\ commands' > 0 /\ n \in Names
    BY <1>2, NetBootAssumption DEF CommandNfs, Command, LoopTypeOK
  <2> QED
    BY <2>1, <2>2, StartKeeps
<1>3. CASE DhcpTakesOffer \/ DhcpIgnores \/ DhcpServerSteps \/ DhcpFaults
  <2>1. CASE packetHandler = "NfsHandler"
    <3>1. UNCHANGED nfsVars /\ LoopUnchanged /\ UNCHANGED commands
      BY <1>3, <2>1
      DEF DhcpTakesOffer, RxOffer, DhcpHandles, DhcpIgnores, RxIgnored, DhcpServerSteps,
          DhcpFaults, noCommand
    <3> QED
      BY <3>1, PacketsKeep DEF nfsVars
  <2>2. CASE packetHandler # "NfsHandler"
    <3>1. /\ UNCHANGED nfsVars /\ packetHandler' = packetHandler /\ commands' = commands
          /\ timeHandler' = timeHandler \/ packetHandler # "none"
      BY <1>3
      DEF DhcpTakesOffer, RxOffer, DhcpHandles, DhcpIgnores, RxIgnored, DhcpServerSteps,
          DhcpFaults, LoopUnchanged, noCommand
    <3> QED
      BY <2>2, <3>1, NfsUntouched DEF NfsInv, Progress
  <2> QED
    BY <2>1, <2>2
<1>4. CASE DhcpTakesAck
  <2>1. packetHandler = "DhcpHandler" /\ NetState = "continue" /\ commands' > 0
    BY <1>4 DEF DhcpTakesAck, RxAck, DhcpHandles, noCommand, NfsInv, Progress
  <2>2. CASE UNCHANGED <<packetHandler, nfsVars>>
    BY <2>1, <2>2, NfsUntouched
  <2>3. ASSUME NEW n \in BootFiles, asked' = n, NfsStart(n),
               UNCHANGED <<NetState, NetBootFileXferSize>>
        PROVE  NfsInv'
    <3>1. NetBootFileXferSize' = 0 /\ n \in Names
      BY <2>1, <2>3, NetBootAssumption DEF NfsInv, Progress
    <3> QED
      BY <2>1, <2>3, <3>1, StartKeeps
  <2> QED
    BY <1>4, <2>2, <2>3 DEF DhcpTakesAck
<1>5. CASE NfsTakes
  <2>1. PICK m \in rpc : ~IsCall(m) /\ (NfsHandler(m, rpc \ {m}) \/ NfsHandler(m, rpc))
    BY <1>5 DEF NfsTakes
  <2>2. UNCHANGED <<asked, commands>>
    BY <1>5 DEF NfsTakes, noCommand
  <2>3. PICK net \in SUBSET rpc : NfsHandler(m, net)
    BY <2>1
  <2> QED
    BY <2>1, <2>2, <2>3, LookupsKeep, ReadKeeps, EndKeeps, ReadlinkKeeps, UmountKeeps
    DEF NfsHandler
<1>6. CASE TimerExpires
  <2>1. CASE timeHandler = "NfsTimeout" /\ NfsTimeout
    <3>1. UNCHANGED <<nfsVars, commands, packetHandler>> /\ NetState' = "fail" /\ timeHandler' = "none"
      BY <1>6, <2>1 DEF TimerExpires, NfsTimeout, nfsVars, noCommand
    <3>2. NfsTypeOK' /\ PathType' /\ Progress'
      BY <3>1 DEF NfsInv, NfsTypeOK, PathType, Progress, nfsVars, nfsClient
    <3>3. PacketsFit'
      BY <3>1 DEF NfsInv, PacketsFit, nfsVars, nfsClient, IsCall, CallFits, ReplyFits, StringIn
    <3> QED
      BY <3>2, <3>3 DEF NfsInv
  <2>2. CASE timeHandler \in {"BootpTimeout", "startAgainTimeout"} /\ (BootpTimeout \/ DhcpStart)
             /\ UNCHANGED nfsVars
    <3>1. packetHandler # "NfsHandler"
      BY <2>2 DEF NfsInv, Progress
    <3>2. packetHandler' # "NfsHandler" /\ commands' > 0
      BY <1>6, <2>2, <3>1
      DEF TimerExpires, noCommand, NfsInv, Progress, BootpTimeout, NetStartAgain, DhcpStart,
          BootpRequest, NetSetHandler
    <3> QED
      BY <2>2, <3>1, <3>2, NfsUntouched
  <2> QED
    BY <1>6, <2>1, <2>2 DEF TimerExpires
<1>7. CASE NetLoopReturns \/ UNCHANGED vars
  <2>1. UNCHANGED <<nfsVars, commands, packetHandler, timeHandler>> /\ NetState' \in {NetState, "idle"}
    BY <1>7 DEF NetLoopReturns, vars
  <2>2. NfsTypeOK' /\ PathType' /\ Progress'
    BY <2>1 DEF NfsInv, NfsTypeOK, PathType, Progress, nfsVars, nfsClient
  <2>3. PacketsFit'
    BY <2>1 DEF NfsInv, PacketsFit, nfsVars, nfsClient, IsCall, CallFits, ReplyFits, StringIn
  <2> QED
    BY <2>2, <2>3 DEF NfsInv
<1>8. CASE NfsServerSteps
  <2>0. PICK c \in rpc : IsCall(c) /\ NfsServer(c)
    BY <1>8 DEF NfsServerSteps
  <2>1. PICK r \in Answered(c) : rpc' = (rpc \ {c}) \cup {r}
    BY <2>0 DEF NfsServer
  <2>2. c.id \in 0 .. rpc_id
    BY DEF NfsInv, PacketsFit
  <2> QED
    BY <1>8, <2>0, <2>1, <2>2, AnsweredFits, PacketsKeep DEF NfsServerSteps, noCommand
<1>9. CASE NfsFaults
  <2>1. UNCHANGED <<nfsClient, rpc_id, asked, commands>> /\ LoopUnchanged
    BY <1>9 DEF NfsFaults, noCommand
  <2>2. CASE rpc' \subseteq rpc
    BY <2>1, <2>2, PacketsKeep
  <2>3. ASSUME NEW c \in rpc, NEW r \in Answered(c), IsCall(c), rpc' = rpc \cup {r}
        PROVE  NfsInv'
    <3>1. c.id \in 0 .. rpc_id
      BY DEF NfsInv, PacketsFit
    <3> QED
      BY <2>1, <2>3, <3>1, AnsweredFits, PacketsKeep
  <2>4. ASSUME NEW c \in rpc, IsCall(c),
               rpc' = (rpc \ {c}) \cup {Reply(c, "err", <<>>, 0, 0, FALSE)}
        PROVE  NfsInv'
    <3>0. PICK r : r = Reply(c, "err", <<>>, 0, 0, FALSE)
      OBVIOUS
    <3>1. r.id = c.id /\ r.status = "err" /\ ~IsCall(r)
      BY <3>0 DEF Reply, IsCall
    <3>2. c.id \in 0 .. rpc_id
      BY DEF NfsInv, PacketsFit
    <3>3. (c.id = rpc_id /\ NfsState = "MOUNT") => "MOUNT" \in ports
      BY <2>4 DEF NfsInv, PacketsFit, CallFits
    <3>4. c.id = rpc_id => ReplyFits(r)
      BY <3>1, <3>3 DEF ReplyFits
    <3> QED
      BY <2>1, <2>4, <3>0, <3>1, <3>2, <3>4, PacketsKeep
  <2> QED
    BY <1>9, <2>2, <2>3, <2>4 DEF NfsFaults, NfsServerFault, RpcLoses
<1> QED
  BY <1>1, <1>2, <1>3, <1>4, <1>5, <1>6, <1>7, <1>8, <1>9 DEF Next

-----------------------------------------------------------------------------
(* What is loaded is what the name leads to. *)

LEMMA PathUntouched ==
  ASSUME PathInv, UNCHANGED <<nfsClient, asked>>,
         packetHandler' = "NfsHandler" => packetHandler = "NfsHandler"
  PROVE  PathInv'
BY DEF PathInv, nfsClient, Leads, Complete, NameIn

LEMMA StartLeads ==
  ASSUME NfsInv, PathInv, NEW n \in Names, NfsStart(n), asked' = n
  PROVE  PathInv'
<1>1. /\ NameIn(n, nfs_path_buff')
      /\ \A i \in 1 .. MaxName + 2 : i > Len(n) => nfs_path_buff'[i] \in {NUL, nfs_path_buff[i]}
  BY CopiedIs DEF NfsStart, NfsInv, PathType
<1>2. \A i \in 1 .. MaxName + 2 : (\A k \in Names : Len(k) < i) => nfs_path_buff'[i] = NUL
  BY <1>1, NamesAre DEF PathInv
<1>3. NfsState' = "PRCLOOKUP_MOUNT" /\ NfsDownloadState' = "fail" /\ Leads(n)'
  BY DEF NfsStart, NfsSend, Leads
<1> QED
  BY <1>1, <1>2, <1>3 DEF PathInv, NameIn

\* A link is replaced by what it stands for.
LEMMA LinkLeads ==
  ASSUME LinksFit, NfsInv, PathInv, packetHandler = "NfsHandler", NEW m \in rpc, ~IsCall(m),
         NEW net, nfs_readlink_reply(m, net), Answers(m), UNCHANGED asked
  PROVE  PathInv'
<1>1. filefh \in Links /\ m.fh = LinkTo[filefh].to /\ m.rel = LinkTo[filefh].rel
  BY ReplyIsFit DEF nfs_readlink_reply, Answers, ReplyFits
<1>2. NameIn(filefh, nfs_path_buff) /\ Leads(filefh)
  BY DEF nfs_readlink_reply, PathInv
<1> DEFINE n == m.fh
<1>3. /\ n \in Names /\ m.rel \in BOOLEAN
      /\ \A i \in 1 .. MaxName + 2 :
           nfs_path_buff'[i] = IF i = Len(n) + (IF m.rel THEN 2 ELSE 1) THEN NUL
                               ELSE IF i <= Len(n) THEN n[i] ELSE nfs_path_buff[i]
  BY <1>1, RelinkedIs DEF nfs_readlink_reply
<1>4. Len(n) \in 1 .. MaxName /\ MaxName \in Nat
  BY <1>3, NamesAre, NfsAssumption
<1>5. \A i \in 1 .. MaxName + 2 :
        /\ i <= Len(n) => nfs_path_buff'[i] = n[i]
        /\ i > Len(n)  => nfs_path_buff'[i] \in {NUL, nfs_path_buff[i]}
  <2>1. CASE m.rel
    BY <1>3, <1>4, <2>1
  <2>2. CASE ~m.rel
    BY <1>3, <1>4, <2>2
  <2> QED
    BY <2>1, <2>2
<1>6. nfs_path_buff'[Len(n) + 1] = NUL
  <2>1. CASE ~m.rel
    BY <1>3, <1>4, <2>1
  <2>2. CASE m.rel
    <3>1. nfs_path_buff'[Len(n) + 1] = nfs_path_buff[Len(n) + 1]
      BY <1>3, <1>4, <2>2
    <3>2. CASE Len(n) = Len(filefh)
      BY <1>2, <3>1, <3>2 DEF NameIn
    <3>3. CASE \A k \in Names : Len(k) <= Len(n)
      <4>1. \A k \in Names : Len(k) < Len(n) + 1
        BY <3>3, <1>4, NamesAre
      <4> QED
        BY <1>4, <3>1, <4>1 DEF PathInv
    <3> QED
      BY <1>1, <2>2, <3>2, <3>3 DEF LinksFit
  <2> QED
    BY <2>1, <2>2
<1>7. NameIn(n, nfs_path_buff')
  BY <1>4, <1>5, <1>6 DEF NameIn
<1>8. asked \in DOMAIN Goal /\ Goal[n] = Goal[asked]
  BY <1>1, <1>2, NfsAssumption DEF Leads
<1>9. NfsState' = "MOUNT" /\ NfsDownloadState' # "success"
  BY DEF nfs_readlink_reply, NfsSend, NfsInv, Progress
<1>10. \A i \in 1 .. MaxName + 2 : (\A k \in Names : Len(k) < i) => nfs_path_buff'[i] = NUL
  BY <1>3, <1>4, <1>5 DEF PathInv
<1> QED
  BY <1>3, <1>7, <1>8, <1>9, <1>10 DEF PathInv, NameIn, Leads

\* The READ that finds the end of the file.
LEMMA EndLeads ==
  ASSUME NfsInv, PathInv, packetHandler = "NfsHandler", NEW m \in rpc, ~IsCall(m),
         NEW net, ReadEnds(m, net), Answers(m), UNCHANGED asked
  PROVE  PathInv'
<1>1. filefh \in Files /\ m.len = 0 /\ nfs_offset >= FileLen[filefh]
  <2>1. ReplyFits(m) /\ NfsState = "READ" /\ m.status = "ok" /\ ~(m.len > 0)
    BY ReplyIsFit DEF ReadEnds, Answers
  <2> QED
    BY <2>1 DEF ReplyFits
<1>2. /\ NetBootFileXferSize = FileLen[filefh]
      /\ \A i \in 0 .. FileLen[filefh] - 1 : mem[i] = <<filefh, i>>
  BY <1>1, MaxLenIs DEF NfsInv, Progress, ReadEnds
<1>3. asked \in DOMAIN Goal /\ Goal[asked] = filefh
  BY <1>1, NfsAssumption DEF ReadEnds, PathInv, Leads
<1>4. Complete'
  BY <1>2, <1>3 DEF Complete, ReadEnds
<1>5. NfsState' = "UMOUNT" /\ nfs_path_buff' = nfs_path_buff
  BY DEF ReadEnds, NfsSend, Answers
<1> QED
  BY <1>4, <1>5 DEF PathInv

LEMMA HandlerLeads ==
  ASSUME LinksFit, NfsInv, PathInv, NEW m \in rpc, ~IsCall(m), NEW net, NfsHandler(m, net),
         UNCHANGED asked
  PROVE  PathInv'
<1>0. packetHandler = "NfsHandler" /\ packetHandler' = "NfsHandler"
  BY DEF NfsHandler, NfsHandles, rpc_lookup_reply, nfs_mount_reply, nfs_lookup_reply, ReadGoesOn,
         ReadEnds, nfs_readlink_reply, nfs_umountall_reply, LoopUnchanged
<1>1. CASE \/ rpc_lookup_reply(m, net) \/ nfs_mount_reply(m, net)
           \/ ReadGoesOn(m, net)
           \/ (nfs_readlink_reply(m, net) /\ ~Answers(m))
           \/ (nfs_lookup_reply(m, net) /\ ~Answers(m))
           \/ (ReadEnds(m, net) /\ ~Answers(m))
  <2>1. /\ UNCHANGED <<nfs_path_buff, filefh, NfsDownloadState>> /\ NfsDownloadState # "success"
        /\ NfsState' \in {"READ", "READLINK"} => NfsState = "READ"
        /\ NfsState # "UMOUNT"
    BY <1>1 DEF rpc_lookup_reply, nfs_mount_reply, ReadGoesOn, nfs_readlink_reply,
                nfs_lookup_reply, ReadEnds, NfsSend, NfsInv, Progress
  <2> QED
    BY <1>0, <2>1 DEF PathInv, NameIn, Leads
<1>2. CASE nfs_lookup_reply(m, net) /\ Answers(m)
  <2>1. m.fh = StringIn(nfs_path_buff) /\ NfsState = "LOOKUP"
    BY <1>2, ReplyIsFit DEF nfs_lookup_reply, Answers, ReplyFits
  <2>2. PICK n \in Names : NameIn(n, nfs_path_buff) /\ Leads(n)
    BY <1>0, <2>1 DEF PathInv
  <2>3. filefh' = n
    BY <1>2, <2>1, <2>2, StringInIs DEF nfs_lookup_reply, NfsInv, PathType
  <2>4. UNCHANGED <<nfs_path_buff, NfsDownloadState>> /\ NfsDownloadState # "success"
    BY <1>2 DEF nfs_lookup_reply, NfsInv, Progress
  <2> QED
    BY <2>2, <2>3, <2>4 DEF PathInv, NameIn, Leads
<1>3. CASE nfs_umountall_reply(m, net)
  BY <1>0, <1>3, PathUntouched DEF nfs_umountall_reply, nfsClient, PathInv, Complete
<1> QED
  BY <1>0, <1>1, <1>2, <1>3, LinkLeads, EndLeads DEF NfsHandler

LEMMA PathInvStep == LinksFit /\ NfsInv /\ PathInv /\ [Next]_vars => PathInv'
<1> SUFFICES ASSUME LinksFit, NfsInv, PathInv, [Next]_vars
             PROVE  PathInv'
  OBVIOUS
<1>1. CASE CommandDhcp
  <2>1. packetHandler # "NfsHandler" /\ NetBootFileXferSize = 0 /\ asked = <<>>
    BY <1>1 DEF CommandDhcp, NfsInv, Progress
  <2>2. UNCHANGED <<nfsClient, asked>> /\ packetHandler' = "DhcpHandler"
    BY <1>1, <2>1 DEF CommandDhcp, Command, DhcpStart, BootpRequest, NetSetHandler, nfsClient
  <2> QED
    BY <2>1, <2>2, PathUntouched
<1>2. CASE CommandNfs
  <2>1. PICK n \in BootFiles : asked' = n /\ NfsStart(n)
    BY <1>2 DEF CommandNfs
  <2> QED
    BY <2>1, StartLeads, NetBootAssumption
<1>3. CASE DhcpTakesAck
  <2>1. CASE UNCHANGED <<packetHandler, nfsVars>>
    BY <2>1, PathUntouched DEF nfsVars
  <2>2. ASSUME NEW n \in BootFiles, asked' = n, NfsStart(n)
        PROVE  PathInv'
    BY <2>2, StartLeads, NetBootAssumption
  <2> QED
    BY <1>3, <2>1, <2>2 DEF DhcpTakesAck
<1>4. CASE NfsTakes
  <2>1. PICK m \in rpc : ~IsCall(m) /\ (NfsHandler(m, rpc \ {m}) \/ NfsHandler(m, rpc))
    BY <1>4 DEF NfsTakes
  <2> QED
    BY <1>4, <2>1, HandlerLeads DEF NfsTakes
<1>5. CASE TimerExpires
  <2>1. UNCHANGED <<nfsClient, asked>>
    BY <1>5 DEF TimerExpires, NfsTimeout, nfsVars
  <2>2. packetHandler' = packetHandler \/ packetHandler' # "NfsHandler"
    BY <1>5 DEF TimerExpires, NfsTimeout, BootpTimeout, NetStartAgain, DhcpStart, BootpRequest,
                NetSetHandler
  <2> QED
    BY <2>1, <2>2, PathUntouched
<1>6. CASE \/ DhcpTakesOffer \/ DhcpIgnores \/ DhcpServerSteps \/ DhcpFaults \/ NetLoopReturns
           \/ NfsServerSteps \/ NfsFaults \/ UNCHANGED vars
  BY <1>6, PathUntouched
  DEF DhcpTakesOffer, RxOffer, DhcpIgnores, RxIgnored, DhcpServerSteps, DhcpFaults,
      NetLoopReturns, NfsServerSteps, NfsFaults, vars, nfsVars, LoopUnchanged
<1> QED
  BY <1>1, <1>2, <1>3, <1>4, <1>5, <1>6 DEF Next

-----------------------------------------------------------------------------
(* The theorems. *)

\* The type of every variable of the network commands, among it that a READ never
\* asks for what is past the file and that the string in nfs_path is terminated.
THEOREM NetBootTypeCorrect == Spec => []TypeOK
<1>1. Init => DhcpInv /\ NfsInv
  BY DhcpInvInit, NfsInvInit
<1>2. DhcpInv /\ NfsInv /\ [Next]_vars => (DhcpInv /\ NfsInv)'
  BY DhcpInvStep, NfsInvStep DEF DhcpInv, NfsInv, NfsTypeOK
<1>3. DhcpInv /\ NfsInv => TypeOK
  BY DEF DhcpInv, LoopTypeOK, NfsInv, TypeOK
<1> QED
  BY <1>1, <1>2, <1>3, PTL DEF Spec

\* DhcpHandler never binds an address that its server has not leased to this
\* board, whatever the servers send and for any number of them.
THEOREM NetBootBoundToLease == Spec => []BoundToLease
<1>1. Init => DhcpInv /\ NfsInv
  BY DhcpInvInit, NfsInvInit
<1>2. DhcpInv /\ NfsInv /\ [Next]_vars => (DhcpInv /\ NfsInv)'
  BY DhcpInvStep, NfsInvStep DEF DhcpInv, NfsInv, NfsTypeOK
<1>3. DhcpInv => BoundToLease
  BY DEF DhcpInv
<1> QED
  BY <1>1, <1>2, <1>3, PTL DEF Spec

\* NfsHandler reports success only for the whole file that the name leads to, on a
\* server whose relative links are harmless to the late terminator of
\* nfs_readlink_reply (LinksFit).
THEOREM NetBootNfsComplete == LinksFit => (Spec => []NfsComplete)
<1> SUFFICES ASSUME LinksFit PROVE Spec => []NfsComplete
  OBVIOUS
<1> DEFINE Inv == DhcpInv /\ NfsInv /\ PathInv
<1>1. Init => Inv
  <2>1. Init => PathInv
    BY DEF Init, NfsInit, PathInv
  <2> QED
    BY <2>1, DhcpInvInit, NfsInvInit
<1>2. Inv /\ [Next]_vars => Inv'
  BY DhcpInvStep, NfsInvStep, PathInvStep DEF DhcpInv, NfsInv, NfsTypeOK
<1>3. Inv => NfsComplete
  BY DEF NfsComplete, PathInv, NfsInv, Progress, Complete
<1> HIDE DEF Inv
<1> QED
  BY <1>1, <1>2, <1>3, PTL DEF Spec
=============================================================================
