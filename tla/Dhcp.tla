-------------------------------- MODULE Dhcp --------------------------------
(***************************************************************************)
(* The DHCP client of net/bootp.c (BootpRequest, DhcpHandler, BootpTimeout)*)
(* with the servers it talks to.  A broadcast is one copy for each server. *)
(* A packet is delayed without bound, and answered or handled in any order;*)
(* losing one, receiving one twice, and a timer that runs out before the   *)
(* answer are faults.  Of the settings in a reply only the address and the *)
(* server's identifier are kept.                                           *)
(***************************************************************************)
EXTENDS NetBase

CONSTANTS
  Servers,        \* the DHCP servers
  Owner,          \* function: address |-> the server whose pool it is in
  BootpAddr,      \* the address a plain BOOTP server has for this board
  TIMEOUT_COUNT,
  MaxID,          \* bound: requests sent
  Retries         \* the values of netretry: "unset", "no", "once"

None  == "none"   \* the address 0, the server 0
Bcast == "all"

Pool == DOMAIN Owner

ASSUME DhcpAssumption ==
  /\ Owner \in [Pool -> Servers]
  /\ {None, Bcast} \cap (Pool \cup Servers \cup {BootpAddr}) = {}
  /\ BootpAddr \notin Pool
  /\ TIMEOUT_COUNT \in Nat /\ MaxID \in Nat
  /\ Retries \subseteq {"unset", "no", "once"}

VARIABLES
  dhcp_state,       \* INIT, SELECTING, REQUESTING, BOUND
  BootpID,          \* numbers the requests; 0 is another board's
  BootpTry,
  NetDHCPServerIP,
  netretry,
  lease,            \* per address, of its server: "free", "offered" (to this
                    \* board), "ours", "theirs"
  silent,           \* servers that have stopped
  ether             \* packets under way

clientVars == <<dhcp_state, BootpID, BootpTry, NetDHCPServerIP>>
dhcpVars   == <<clientVars, netretry, lease, silent, ether>>

Addrs == Pool \cup {BootpAddr}

\* From the board: each server gets its copy (at), sid is option 54.
Requests == [op : {"DISCOVER"}, xid : 0 .. MaxID, at : Servers]
              \cup [op : {"REQUEST"}, xid : 0 .. MaxID, at : Servers,
                    sid : Servers \cup {None}, ip : Addrs \cup {None}]
\* To the board: dst is the IP destination; a BOOTP server's reply has no sid.
Replies == [op : {"OFFER", "ACK", "NAK", "REPLY"}, xid : 0 .. MaxID,
            sid : Servers \cup {None}, ip : Addrs \cup {None},
            dst : Addrs \cup {Bcast}]

-----------------------------------------------------------------------------
(* The client. *)

\* Bound: a packet outlives one further request, not two.
Living == {m \in ether : m.xid \in {0, BootpID}}

\* BootpRequest after try others: a DISCOVER under a new number.
BootpRequest(try) ==
  /\ BootpID < MaxID
  /\ dhcp_state' = "SELECTING"
  /\ BootpTry' = try + 1
  /\ BootpID' = BootpID + 1
  /\ NetSetTimeout("BootpTimeout") /\ NetSetHandler("DhcpHandler")
  /\ ether' = Living \cup [op : {"DISCOVER"}, xid : {BootpID + 1}, at : Servers]
  /\ UNCHANGED NetDHCPServerIP

\* NetLoop(DHCP): "Start with a clean slate..."
DhcpStart ==
  /\ NetState' = "continue"
  /\ NetOurIP' = None
  /\ BootpRequest(0)

DhcpHandles == NetState = "continue" /\ packetHandler = "DhcpHandler"

\* Mutant of BootpCheckPkt: the transaction id is not compared.
BootpCheckPktAnyID(m) == NetOurIP = None \/ m.dst \in {NetOurIP, Bcast}

\* NetReceive drops what is for another address, BootpCheckPkt what is not an
\* answer to the last request.
BootpCheckPkt(m) ==
  /\ NetOurIP = None \/ m.dst \in {NetOurIP, Bcast}
  /\ m.xid = BootpID

\* Whether the handler will do something with m.
Wanted(m) ==
  /\ DhcpHandles /\ m \in Replies /\ BootpCheckPkt(m)
  /\ dhcp_state = "SELECTING" \/ (dhcp_state = "REQUESTING" /\ m.op = "ACK")

\* The packet m is taken from the wire, or delivered again later.
Take(m) ==
  \/ ether' = ether \ {m} /\ UNCHANGED faults
  \/ Fault /\ UNCHANGED ether

\* DhcpHandler in SELECTING takes any reply for an offer.
RxOffer(m) ==
  /\ DhcpHandles /\ dhcp_state = "SELECTING" /\ BootpCheckPkt(m)
  /\ dhcp_state' = "REQUESTING"
  /\ NetDHCPServerIP' = IF m.sid = None THEN NetDHCPServerIP ELSE m.sid
  /\ NetOurIP' = m.ip
  /\ NetSetTimeout("BootpTimeout")
  /\ ether' = (ether \ {m}) \cup
       [op : {"REQUEST"}, xid : {m.xid}, at : Servers, sid : {NetDHCPServerIP'}, ip : {m.ip}]
  /\ UNCHANGED <<NetState, packetHandler, BootpID, BootpTry, faults>>

\* DhcpHandler in REQUESTING, on an ACK; autoload decides what follows.
RxAck(m) ==
  /\ DhcpHandles /\ dhcp_state = "REQUESTING" /\ BootpCheckPkt(m) /\ m.op = "ACK"
  /\ dhcp_state' = "BOUND"
  /\ NetDHCPServerIP' = IF m.sid = None THEN NetDHCPServerIP ELSE m.sid
  /\ NetOurIP' = m.ip
  /\ UNCHANGED <<BootpID, BootpTry>>

RxIgnored(m) ==
  /\ ~Wanted(m)
  /\ ether' = ether \ {m}
  /\ LoopUnchanged /\ UNCHANGED <<NetOurIP, clientVars, faults>>

\* NetStartAgain: fail, try the next device at once, or, all devices tried,
\* the same again after ten seconds.  Which device is NetLoop's matter.
NetStartAgain ==
  \/ /\ netretry # "unset"
     /\ NetState' = "fail" /\ timeHandler' = "none"
     /\ UNCHANGED <<packetHandler, NetOurIP, clientVars, ether>>
  \/ netretry # "no" /\ DhcpStart
  \/ /\ netretry = "unset"
     /\ NetSetTimeout("startAgainTimeout") /\ NetSetHandler("startAgainHandler")
     /\ UNCHANGED <<NetState, NetOurIP, clientVars, ether>>

\* Mutant of BootpTimeout: it gives up at once.
BootpTimeoutGivesUp ==
  /\ NetState' = "fail" /\ timeHandler' = "none"
  /\ UNCHANGED <<packetHandler, NetOurIP, clientVars, ether>>

BootpTimeout ==
  \/ BootpTry >= TIMEOUT_COUNT /\ NetStartAgain
  \/ BootpTry < TIMEOUT_COUNT /\ BootpRequest(BootpTry)
     /\ UNCHANGED <<NetState, NetOurIP>>

-----------------------------------------------------------------------------
(* The servers and the network (external).                                 *)
Listening(s) == s \notin silent
Serving(a)   == Listening(Owner[a]) /\ lease[a] # "theirs"

\* A DISCOVER is answered with an address that is free or already the board's.
ServerOffer(m, a, dst) ==
  /\ m.op = "DISCOVER" /\ Listening(m.at)
  /\ a \in Pool /\ Owner[a] = m.at /\ lease[a] # "theirs" /\ dst \in {a, Bcast}
  /\ lease' = IF lease[a] = "free" THEN [lease EXCEPT ![a] = "offered"] ELSE lease
  /\ ether' = (ether \ {m}) \cup
       {[op |-> "OFFER", xid |-> m.xid, sid |-> m.at, ip |-> a, dst |-> dst]}

\* A REQUEST that names the server is granted, or refused.
ServerAnswer(m) ==
  LET good == m.ip \in Pool /\ Owner[m.ip] = m.at /\ lease[m.ip] \in {"offered", "ours"}
  IN  /\ m.op = "REQUEST" /\ Listening(m.at) /\ m.sid = m.at
      /\ lease' = IF good THEN [lease EXCEPT ![m.ip] = "ours"] ELSE lease
      /\ ether' = (ether \ {m}) \cup
           {IF good THEN [op |-> "ACK", xid |-> m.xid, sid |-> m.at, ip |-> m.ip,
                          dst |-> m.ip]
                    ELSE [op |-> "NAK", xid |-> m.xid, sid |-> m.at, ip |-> None,
                          dst |-> Bcast]}

\* A REQUEST that names another server withdraws what this one has offered.
ServerDeclined(m) ==
  /\ m.op = "REQUEST" /\ Listening(m.at) /\ m.sid # m.at
  /\ lease' = [a \in Pool |-> IF Owner[a] = m.at /\ lease[a] = "offered"
                              THEN "free" ELSE lease[a]]
  /\ ether' = ether \ {m}

\* Another board gets an address, and the ACK to it is heard by all.
OtherBoard(a) ==
  /\ Fault /\ lease[a] \in {"free", "offered"}
  /\ \E b \in Pool \ {a} : Serving(b)
  /\ lease' = [lease EXCEPT ![a] = "theirs"]
  /\ ether' = ether \cup
       {[op |-> "ACK", xid |-> 0, sid |-> Owner[a], ip |-> a, dst |-> Bcast]}
  /\ UNCHANGED silent

\* A plain BOOTP server answers the request first.
BootpServer(m) ==
  /\ Fault /\ m.op = "DISCOVER"
  /\ ether' = ether \cup
       {[op |-> "REPLY", xid |-> m.xid, sid |-> None, ip |-> BootpAddr, dst |-> Bcast]}
  /\ UNCHANGED <<lease, silent>>

\* A server stops; one that can serve the board stays.
ServerStops(s) ==
  /\ Fault /\ s \notin silent
  /\ \E a \in Pool : Owner[a] # s /\ Serving(a)
  /\ silent' = silent \cup {s}
  /\ UNCHANGED <<lease, ether>>

EtherLoses(m) == Fault /\ ether' = ether \ {m} /\ UNCHANGED <<lease, silent>>

\* Every request has been dealt with, and no reply under way is wanted.
Pending(m) ==
  /\ Listening(m.at)
  /\ m.op = "DISCOVER" => \E a \in Pool : Owner[a] = m.at /\ Serving(a)

Quiet == \A m \in ether : IF m \in Requests THEN ~Pending(m) ELSE ~Wanted(m)

DhcpInit ==
  /\ dhcp_state = "INIT" /\ BootpID = 0 /\ BootpTry = 0 /\ NetDHCPServerIP = None
  /\ netretry = "unset"
  /\ lease = [a \in Pool |-> "free"]
  /\ silent = {} /\ ether = {}

DhcpTypeOK ==
  /\ dhcp_state \in {"INIT", "SELECTING", "REQUESTING", "BOUND"}
  /\ BootpID \in 0 .. MaxID /\ BootpTry \in 0 .. (TIMEOUT_COUNT + 1)
  /\ NetDHCPServerIP \in Servers \cup {None}
  /\ NetOurIP \in Addrs \cup {None, "ipaddr"}
  /\ netretry \in Retries \cup {"unset"}
  /\ lease \in [Pool -> {"free", "offered", "ours", "theirs"}]
  /\ silent \subseteq Servers
  /\ ether \subseteq Requests \cup Replies

-----------------------------------------------------------------------------
(* Properties. *)

\* Whatever the servers send, late, twice or to others: an address that
\* DhcpHandler binds is one its server has leased to this board, and stays so.
BoundToLease ==
  (dhcp_state = "BOUND" /\ protocol = "DHCP") =>
    /\ NetOurIP \in Pool /\ lease[NetOurIP] = "ours"
    /\ Owner[NetOurIP] = NetDHCPServerIP
=============================================================================
