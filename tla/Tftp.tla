-------------------------------- MODULE Tftp --------------------------------
(***************************************************************************)
(* The TFTP download of net/tftp.c: the client's packet handler, timeout   *)
(* handler and (re)start, run by the polling loop of NetLoop (net/net.c),  *)
(* against a TFTP server (external) and a datagram network that may lose,  *)
(* delay, reorder and, when CanDuplicate, duplicate packets.               *)
(*                                                                         *)
(* Abstractions.  The file is FileBlocks DATA packets, the last one short; *)
(* its contents are the block numbers 1..FileBlocks, and 0 in memory is    *)
(* "not written".  Memory is counted in blocks of BlockSize bytes, and the *)
(* 32-bit offset of store_block is block arithmetic modulo MemBlocks       *)
(* (2^32 / 512).  TftpBlockWrap and the progress marks are only printed    *)
(* and are left out; no code sets STATE_TOO_LARGE or STATE_BAD_MAGIC.      *)
(***************************************************************************)
EXTENDS Integers

CONSTANTS
  SeqSize,          \* TFTP_SEQUENCE_SIZE, 2^16 in the code
  BlockSize,        \* TFTP_BLOCK_SIZE, 512 in the code
  MemBlocks,        \* blocks in the 32-bit address space
  TIMEOUT_COUNT,    \* timeouts before NetStartAgain
  WELL_KNOWN_PORT,  \* the server's listening port, 69
  FileBlocks,       \* number of DATA packets of the requested file
  LastLen,          \* bytes in the last of them
  Ports,            \* the client ports of successive attempts
  Tids,             \* the server ports of successive server sessions
  CanDuplicate,     \* may the network deliver a packet more than once?
  CanError,         \* may the server answer a request with an ERROR?
  Patient,          \* do packets travel faster than the timeouts run?
  MaxLoss,          \* bound: packets the network may drop
  LosesWrapAck      \* may it drop the acknowledgement of a block whose
                    \* number has wrapped to 0?

ASSUME ConstantsAssumption ==
  /\ SeqSize \in Nat \ {0, 1} /\ BlockSize \in Nat \ {0}
  /\ FileBlocks \in Nat \ {0} /\ LastLen \in 0 .. (BlockSize - 1)
  /\ MemBlocks \in Nat /\ FileBlocks <= MemBlocks
  /\ TIMEOUT_COUNT \in Nat /\ MaxLoss \in Nat
  /\ WELL_KNOWN_PORT \notin Tids
  /\ {CanDuplicate, CanError, Patient, LosesWrapAck} \subseteq BOOLEAN

VARIABLES
  NetState,             \* NETLOOP_CONTINUE, _RESTART, _SUCCESS, _FAIL
  result,               \* what NetLoop returned; "none" while it polls
  timeHandler,          \* is the 5 s timer armed (with TftpTimeout)?
  NetBootFileXferSize,  \* bytes received
  TftpState,            \* STATE_RRQ, STATE_OACK, STATE_DATA
  TftpServerPort,
  TftpOurPort,
  TftpTimeoutCount,
  TftpBlock,            \* number of the last DATA packet looked at
  TftpLastBlock,        \* number of the last DATA packet stored
  TftpBlockWrapOffset,  \* in blocks
  mem,                  \* the load area, block by block
  batch,                \* the frames eth_rx may still hand over once
                        \* NetState has left NETLOOP_CONTINUE
  net,                  \* the packets in flight
  sess,                 \* the server's session behind each server port
  used,                 \* the client ports of this and earlier attempts
  lost                  \* packets dropped so far

clientVars == <<NetState, result, timeHandler, NetBootFileXferSize, TftpState,
                TftpServerPort, TftpOurPort, TftpTimeoutCount, TftpBlock,
                TftpLastBlock, TftpBlockWrapOffset, mem, batch, used>>
vars == <<clientVars, net, sess, lost>>

FileSize == (FileBlocks - 1) * BlockSize + LastLen

-----------------------------------------------------------------------------
(* Packets.  srv and cli are the UDP ports of the two ends; a client's     *)
(* packet goes to srv, a server's packet goes to cli.                      *)
RRQ(c)        == [op |-> "RRQ",   srv |-> WELL_KNOWN_PORT, cli |-> c, n |-> 0]
ACK(s, c, n)  == [op |-> "ACK",   srv |-> s, cli |-> c, n |-> n]
OACK(s, c)    == [op |-> "OACK",  srv |-> s, cli |-> c, n |-> 0]
DATA(s, c, k) == [op |-> "DATA",  srv |-> s, cli |-> c, n |-> k]
ERROR(s, c)   == [op |-> "ERROR", srv |-> s, cli |-> c, n |-> 0]

\* A DATA packet carries the file's block n; its header has 16 bits of it.
SeqNo(k) == k % SeqSize
Len(k)   == IF k = FileBlocks THEN LastLen ELSE BlockSize

Packet ==
  LET Any(ops, numbers) == [op : ops, srv : Tids \cup {WELL_KNOWN_PORT},
                            cli : Ports, n : numbers]
  IN  Any({"RRQ", "OACK", "ERROR"}, {0}) \cup Any({"ACK"}, 0 .. (SeqSize - 1))
        \cup Any({"DATA"}, 1 .. FileBlocks)

ToClient(m) == m.op \in {"OACK", "DATA", "ERROR"}

-----------------------------------------------------------------------------
\* Mutant of TftpSend: acknowledges the block it waits for.
TftpSendNext(st, sport, cport, block) ==
  IF st = "RRQ" THEN {RRQ(cport)} ELSE {ACK(sport, cport, (block + 1) % SeqSize)}

(* What the client transmits: TftpSend in state st. *)
TftpSend(st, sport, cport, block) ==
  IF st = "RRQ" THEN {RRQ(cport)} ELSE {ACK(sport, cport, block)}

\* The network after the client or the server handled m and sent out.
Handled(m, out) ==
  net' = (IF CanDuplicate THEN net ELSE net \ {m}) \cup out

\* NetState moves to s; the frames already received stay in the ring.
SetNetState(s) ==
  /\ NetState' = s
  /\ batch' = IF NetState = "continue" THEN net ELSE batch

\* NetStartAgain, by what its caller can see: netretry and the ring of
\* devices decide between another attempt and NETLOOP_FAIL.
NetStartAgain == \E s \in {"restart", "fail"} : SetNetState(s)

-----------------------------------------------------------------------------
(* store_block and its place in memory. *)
Offset(block, wrap) == (block - 1 + wrap) % MemBlocks

StoreBlock(block, wrap, k) ==
  LET newsize == Offset(block, wrap) * BlockSize + Len(k)
  IN  /\ mem' = [mem EXCEPT ![Offset(block, wrap)] = k]
      /\ NetBootFileXferSize' = IF NetBootFileXferSize < newsize
                                THEN newsize ELSE NetBootFileXferSize

-----------------------------------------------------------------------------
\* Mutant of Accepts: the server's port is not checked.
AcceptsAnyPort(m) == m.cli = TftpOurPort

(* TftpHandler: what is let through, and one action per packet type. *)
Accepts(m) ==
  /\ m.cli = TftpOurPort
  /\ TftpState = "RRQ" \/ m.srv = TftpServerPort

HandleOACK(m) ==
  /\ m.op = "OACK" /\ Accepts(m)
  /\ TftpState' = "OACK"
  /\ TftpServerPort' = m.srv
  /\ Handled(m, TftpSend("OACK", m.srv, TftpOurPort, TftpBlock))
  /\ UNCHANGED <<NetState, batch, timeHandler, NetBootFileXferSize, TftpBlock,
                 TftpLastBlock, TftpBlockWrapOffset, mem>>

\* Mutants of WrapOffset: never bumped, and bumped by the last number.
WrapOffsetNever(b) ==
  IF TftpState \in {"RRQ", "OACK"} THEN 0 ELSE TftpBlockWrapOffset

WrapOffsetShort(b) ==
  IF TftpState \in {"RRQ", "OACK"} THEN 0
  ELSE IF b = 0 THEN (TftpBlockWrapOffset + SeqSize - 1) % MemBlocks
  ELSE TftpBlockWrapOffset

\* The wrap offset after a DATA packet with number b is looked at: bumped
\* before the packet is known to be new, cleared by a first block.
WrapOffset(b) ==
  IF TftpState \in {"RRQ", "OACK"} THEN 0
  ELSE IF b = 0 THEN (TftpBlockWrapOffset + SeqSize) % MemBlocks
  ELSE TftpBlockWrapOffset

LastBlock == IF TftpState \in {"RRQ", "OACK"} THEN 0 ELSE TftpLastBlock

\* The first DATA packet of a transfer is not number 1.
HandleFirstNotOne(m) ==
  /\ m.op = "DATA" /\ Accepts(m)
  /\ TftpState \in {"RRQ", "OACK"} /\ SeqNo(m.n) # 1
  /\ TftpState' = "DATA"
  /\ TftpServerPort' = m.srv
  /\ TftpBlock' = SeqNo(m.n)
  /\ TftpLastBlock' = 0
  /\ TftpBlockWrapOffset' = 0
  /\ NetStartAgain
  /\ Handled(m, {})
  /\ UNCHANGED <<timeHandler, NetBootFileXferSize, mem>>

\* Same block again; ignore it.
HandleSameBlock(m) ==
  /\ m.op = "DATA" /\ Accepts(m)
  /\ TftpState = "DATA" /\ SeqNo(m.n) = LastBlock
  /\ TftpBlock' = SeqNo(m.n)
  /\ TftpBlockWrapOffset' = WrapOffset(SeqNo(m.n))
  /\ Handled(m, {})
  /\ UNCHANGED <<NetState, batch, timeHandler, NetBootFileXferSize, TftpState,
                 TftpServerPort, TftpLastBlock, mem>>

\* Mutant of IsLast: a full block ends the transfer too.
IsLastFull(k) == Len(k) <= BlockSize

\* We received the whole thing.
IsLast(k) == Len(k) < BlockSize

HandleBlock(m) ==
  LET b == SeqNo(m.n)
  IN  /\ m.op = "DATA" /\ Accepts(m)
      /\ TftpState \in {"RRQ", "OACK"} => b = 1
      /\ b # LastBlock
      /\ TftpState' = "DATA"
      /\ TftpServerPort' = m.srv
      /\ TftpBlock' = b
      /\ TftpLastBlock' = b
      /\ TftpBlockWrapOffset' = WrapOffset(b)
      /\ timeHandler' = TRUE
      /\ StoreBlock(b, WrapOffset(b), m.n)
      /\ Handled(m, TftpSend("DATA", m.srv, TftpOurPort, b))
      /\ IF IsLast(m.n) THEN SetNetState("success")
                        ELSE UNCHANGED <<NetState, batch>>

HandleERROR(m) ==
  /\ m.op = "ERROR" /\ Accepts(m)
  /\ NetStartAgain
  /\ Handled(m, {})
  /\ UNCHANGED <<timeHandler, NetBootFileXferSize, TftpState, TftpServerPort,
                 TftpBlock, TftpLastBlock, TftpBlockWrapOffset, mem>>

HandleStray(m) ==
  /\ ~Accepts(m)
  /\ Handled(m, {})
  /\ UNCHANGED <<NetState, batch, timeHandler, NetBootFileXferSize, TftpState,
                 TftpServerPort, TftpBlock, TftpLastBlock,
                 TftpBlockWrapOffset, mem>>

\* eth_rx hands a frame to TftpHandler.  After NetState has changed, the
\* frames left are those that had arrived by then.
TftpHandler(m) ==
  /\ result = "none" /\ ToClient(m)
  /\ NetState = "continue" \/ m \in batch
  /\ \/ HandleOACK(m) \/ HandleFirstNotOne(m) \/ HandleSameBlock(m)
     \/ HandleBlock(m) \/ HandleERROR(m) \/ HandleStray(m)
  /\ UNCHANGED <<result, TftpOurPort, TftpTimeoutCount, used, sess, lost>>

-----------------------------------------------------------------------------
(* TftpTimeout, called by NetLoop after eth_rx with the timer already      *)
(* cleared: no frame is handled between it and the end of the iteration    *)
(* (batch' = {}).  Once the transfer is over the timer has just been set   *)
(* and cannot have run out before NetLoop returns.                         *)
Expired ==
  /\ result = "none" /\ timeHandler
  /\ NetState = "continue" \/ (NetState = "restart" /\ batch # {})
  /\ Patient => net = {}

\* Mutants of TimeoutResend: counted after the test, and not armed again.
TimeoutResendLate ==
  /\ Expired /\ TftpTimeoutCount <= TIMEOUT_COUNT
  /\ TftpTimeoutCount' = TftpTimeoutCount + 1
  /\ timeHandler' = TRUE
  /\ net' = net \cup TftpSend(TftpState, TftpServerPort, TftpOurPort, TftpBlock)
  /\ UNCHANGED NetState

TimeoutResendUnarmed ==
  /\ Expired /\ TftpTimeoutCount + 1 <= TIMEOUT_COUNT
  /\ TftpTimeoutCount' = TftpTimeoutCount + 1
  /\ timeHandler' = FALSE
  /\ net' = net \cup TftpSend(TftpState, TftpServerPort, TftpOurPort, TftpBlock)
  /\ UNCHANGED NetState

TimeoutResend ==
  /\ Expired /\ TftpTimeoutCount + 1 <= TIMEOUT_COUNT
  /\ TftpTimeoutCount' = TftpTimeoutCount + 1
  /\ timeHandler' = TRUE
  /\ net' = net \cup TftpSend(TftpState, TftpServerPort, TftpOurPort, TftpBlock)
  /\ UNCHANGED NetState

TimeoutGiveUp ==
  /\ Expired /\ TftpTimeoutCount + 1 > TIMEOUT_COUNT
  /\ TftpTimeoutCount' = TftpTimeoutCount + 1
  /\ timeHandler' = FALSE
  /\ NetState' \in {"restart", "fail"}
  /\ UNCHANGED net

TftpTimeout ==
  /\ TimeoutResend \/ TimeoutGiveUp
  /\ batch' = {}
  /\ UNCHANGED <<result, NetBootFileXferSize, TftpState, TftpServerPort,
                 TftpOurPort, TftpBlock, TftpLastBlock, TftpBlockWrapOffset,
                 mem, used, sess, lost>>

-----------------------------------------------------------------------------
(* TftpStart and the NetBootFileXferSize = 0 of NetLoop after it, for an   *)
(* attempt from client port p.                                             *)
TftpStart(p) ==
  /\ NetState' = "continue"
  /\ batch' = {}
  /\ timeHandler' = TRUE
  /\ NetBootFileXferSize' = 0
  /\ TftpState' = "RRQ"
  /\ TftpServerPort' = WELL_KNOWN_PORT
  /\ TftpOurPort' = p
  /\ TftpTimeoutCount' = 0
  /\ TftpBlock' = 0
  /\ used' = used \cup {p}
  /\ net' = net \cup TftpSend("RRQ", WELL_KNOWN_PORT, p, 0)

\* NETLOOP_RESTART at the end of an iteration.  The code draws the port from
\* the clock; here no attempt gets the port of an earlier one, and Ports
\* bounds the number of attempts.
NetLoopRestart ==
  /\ result = "none" /\ NetState = "restart"
  /\ \E p \in Ports \ used : TftpStart(p)
  /\ UNCHANGED <<result, TftpLastBlock, TftpBlockWrapOffset, mem, sess, lost>>

\* NETLOOP_SUCCESS or NETLOOP_FAIL at the end of an iteration, or the user's
\* Ctrl-C where the model runs out of attempts.
NetLoopReturn ==
  /\ result = "none"
  /\ \/ NetState = "success" /\ result' = "success"
     \/ NetState = "fail" /\ result' = "fail"
     \/ NetState = "restart" /\ Ports \subseteq used /\ result' = "fail"
  /\ UNCHANGED <<NetState, timeHandler, NetBootFileXferSize, TftpState,
                 TftpServerPort, TftpOurPort, TftpTimeoutCount, TftpBlock,
                 TftpLastBlock, TftpBlockWrapOffset, mem, batch, used>>
  /\ UNCHANGED <<net, sess, lost>>

-----------------------------------------------------------------------------
(* The server and the network (external).  A session sends block cur until *)
(* that block is acknowledged; cur = 0 is the OACK, and FileBlocks + 1 the *)
(* end.  A repeated acknowledgement of the block before is answered with   *)
(* cur again, which is what the client's TftpTimeout relies on.            *)
Session == [cli : Ports, cur : 0 .. (FileBlocks + 1)]
NoSession == [cli |-> WELL_KNOWN_PORT, cur |-> -1]

Current(t, c, k) ==
  IF k = 0 THEN {OACK(t, c)}
  ELSE IF k <= FileBlocks THEN {DATA(t, c, k)} ELSE {}

ServerRRQ(m) ==
  /\ m.op = "RRQ"
  /\ \E t \in Tids :
       /\ sess[t] = NoSession
       /\ \/ \E k \in {0, 1} :
               /\ sess' = [sess EXCEPT ![t] = [cli |-> m.cli, cur |-> k]]
               /\ Handled(m, Current(t, m.cli, k))
          \/ /\ CanError
             /\ Handled(m, {ERROR(t, m.cli)})
             /\ UNCHANGED sess
  /\ UNCHANGED <<clientVars, lost>>

ServerACK(m) ==
  /\ m.op = "ACK" /\ m.srv \in Tids /\ sess[m.srv] # NoSession
  /\ LET k == sess[m.srv].cur
     IN  \/ /\ k <= FileBlocks /\ m.n = SeqNo(k)
            /\ sess' = [sess EXCEPT ![m.srv].cur = k + 1]
            /\ Handled(m, Current(m.srv, m.cli, k + 1))
         \/ /\ m.n # SeqNo(k) \/ k > FileBlocks
            /\ Handled(m, IF k > 0 /\ m.n = SeqNo(k - 1)
                          THEN Current(m.srv, m.cli, k) ELSE {})
            /\ UNCHANGED sess
  /\ UNCHANGED <<clientVars, lost>>

\* The server's own retransmission timer.
ServerRetransmit(t) ==
  /\ sess[t] # NoSession /\ sess[t].cur <= FileBlocks
  /\ Patient => net = {}
  /\ net' = net \cup Current(t, sess[t].cli, sess[t].cur)
  /\ UNCHANGED <<clientVars, sess, lost>>

Lose(m) ==
  /\ lost < MaxLoss
  /\ m.op = "ACK" /\ m.n = 0 /\ TftpState = "DATA" => LosesWrapAck
  /\ lost' = lost + 1
  /\ net' = net \ {m}
  /\ UNCHANGED <<clientVars, sess>>

-----------------------------------------------------------------------------
Init ==
  /\ \E p \in Ports :
       /\ TftpOurPort = p /\ used = {p} /\ net = {RRQ(p)}
  /\ NetState = "continue" /\ result = "none" /\ timeHandler = TRUE
  /\ NetBootFileXferSize = 0
  /\ TftpState = "RRQ" /\ TftpServerPort = WELL_KNOWN_PORT
  /\ TftpTimeoutCount = 0 /\ TftpBlock = 0
  /\ TftpLastBlock = 0 /\ TftpBlockWrapOffset = 0
  /\ mem = [i \in 0 .. (MemBlocks - 1) |-> 0]
  /\ batch = {} /\ lost = 0
  /\ sess = [t \in Tids |-> NoSession]

Done == result # "none" /\ UNCHANGED vars

Receive == \E m \in net : TftpHandler(m)

EndOfIteration == NetLoopRestart \/ NetLoopReturn

Server == \E m \in net : ServerRRQ(m) \/ ServerACK(m)

Next ==
  \/ Receive \/ TftpTimeout \/ EndOfIteration \/ Server \/ Done
  \/ \E t \in Tids : ServerRetransmit(t)
  \/ \E m \in net : Lose(m)

Spec == Init /\ [][Next]_vars

(* NetLoop polls without end, an eth_rx hands over finitely many frames,   *)
(* and packets that are not lost arrive (weak fairness); a duplicate that  *)
(* is ignored does not touch the timer, so the timer runs out even when    *)
(* such duplicates keep coming (strong fairness).                          *)
Fairness ==
  /\ WF_vars(Receive) /\ WF_vars(EndOfIteration) /\ WF_vars(Server)
  /\ SF_vars(TftpTimeout)

FairSpec == Spec /\ Fairness

-----------------------------------------------------------------------------
(* Properties. *)

\* The type of every variable.
TypeOK ==
  /\ NetState \in {"continue", "restart", "success", "fail"}
  /\ result \in {"none", "success", "fail"}
  /\ timeHandler \in BOOLEAN
  /\ NetBootFileXferSize \in Nat
  /\ TftpState \in {"RRQ", "OACK", "DATA"}
  /\ TftpServerPort \in Tids \cup {WELL_KNOWN_PORT}
  /\ TftpOurPort \in Ports
  /\ TftpTimeoutCount \in 0 .. (TIMEOUT_COUNT + 1)
  /\ TftpBlock \in 0 .. (SeqSize - 1)
  /\ TftpLastBlock \in 0 .. (SeqSize - 1)
  /\ TftpBlockWrapOffset \in 0 .. (MemBlocks - 1)
  /\ mem \in [0 .. (MemBlocks - 1) -> 0 .. FileBlocks]
  /\ batch \subseteq Packet /\ net \subseteq Packet
  /\ sess \in [Tids -> Session \cup {NoSession}]
  /\ used \subseteq Ports
  /\ lost \in 0 .. MaxLoss

\* Only a timeout exceeds the count, and nothing but the restart follows it.
GaveUp == TftpTimeoutCount > TIMEOUT_COUNT => NetState # "continue" /\ batch = {}

\* Every block in memory is at its own place in the file: whatever
\* store_block wrote, it wrote at the offset the block has in the file.
RightPlace == \A i \in DOMAIN mem : mem[i] \in {0, i + 1}

\* When tftpboot reports success, every block of the file is in memory and
\* filesize is the size of the file, whatever was lost, repeated, reordered
\* or restarted on the way: nothing but a short block ends the transfer, and
\* the handler does not check that the blocks before it have arrived.
CompleteOnSuccess ==
  result = "success" =>
    /\ \A k \in 1 .. FileBlocks : mem[k - 1] = k
    /\ NetBootFileXferSize = FileSize

-----------------------------------------------------------------------------
(* Why CompleteOnSuccess holds when the file has fewer blocks than the      *)
(* sequence numbers: an inductive invariant.                                *)
StoredUpTo(k) == \A j \in 1 .. k : mem[j - 1] = j

\* The session behind server port s talks to client port c.
Talks(s, c) == s \in Tids /\ sess[s] # NoSession /\ sess[s].cli = c

\* A packet names a client port in use, and the session it is part of.
PacketOrigin ==
  \A m \in net :
    /\ m.cli \in used
    /\ m.op \in {"DATA", "OACK", "ACK"} => Talks(m.srv, m.cli)
    /\ m.op = "DATA" => m.n <= sess[m.srv].cur
    /\ m.op = "ACK" => m.n <= FileBlocks

ClientInSession ==
  /\ TftpOurPort \in used
  /\ \A t \in Tids : sess[t] # NoSession => sess[t].cli \in used
  /\ TftpState # "RRQ" => Talks(TftpServerPort, TftpOurPort)

\* Nothing is acknowledged in this attempt before it and all blocks before
\* it are stored, so the server is at most one block ahead of the memory.
\* This ends with NetStartAgain: a first block other than 1 is not stored,
\* yet TftpTimeout or a late OACK may still acknowledge it.
AckedIsStored ==
  NetState = "continue" =>
    /\ StoredUpTo(TftpBlock)
    /\ \A m \in net : m.op = "ACK" /\ m.cli = TftpOurPort => StoredUpTo(m.n)
    /\ \A t \in Tids : Talks(t, TftpOurPort) => StoredUpTo(sess[t].cur - 1)

\* The frames left in the ring when NetState changed are no further ahead.
BatchIsBehind ==
  \A m \in batch :
    m.op = "DATA" /\ m.cli = TftpOurPort => StoredUpTo(m.n - 1)

SizeIsRight ==
  /\ NetBootFileXferSize <= FileSize
  /\ "success" \in {NetState, result} =>
       StoredUpTo(FileBlocks) /\ NetBootFileXferSize = FileSize

\* No wrap of the sequence number: the handler's numbers are block numbers.
NumbersAreBlocks ==
  /\ TftpBlock <= FileBlocks /\ TftpLastBlock <= FileBlocks
  /\ TftpBlockWrapOffset = 0
  /\ TftpLastBlock >= 1 => mem[TftpLastBlock - 1] = TftpLastBlock

\* The inductive invariant.
TransferInv ==
  /\ RightPlace /\ NumbersAreBlocks /\ PacketOrigin /\ ClientInSession
  /\ AckedIsStored /\ BatchIsBehind /\ SizeIsRight

-----------------------------------------------------------------------------
\* The transfer never moves to another server session: a second session,
\* opened by a repeated request, is kept out by the port check.
OneServer ==
  [][(TftpState # "RRQ" /\ TftpState' # "RRQ")
       => TftpServerPort' = TftpServerPort]_vars

\* With no more losses than TIMEOUT_COUNT the download succeeds, unless the
\* server refuses it: after any loss one of the two ends speaks again although
\* the client never answers a duplicate, and the timeouts, counted over the
\* whole transfer, suffice, however often the block number wraps.
Refused == NetState \in {"restart", "fail"} /\ TftpTimeoutCount <= TIMEOUT_COUNT

Downloads == <>(result = "success" \/ Refused)

=============================================================================
