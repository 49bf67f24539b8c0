----------------------------- MODULE TftpProofs -----------------------------
(***************************************************************************)
(* Proofs about Tftp, for every file, every number of ports and sessions,  *)
(* every kind of network.                                                  *)
(***************************************************************************)
EXTENDS Tftp, TLAPS

USE DEF RRQ, ACK, OACK, DATA, ERROR

(* The numbers a DATA or ACK packet carries are in the 16-bit range.       *)
LEMMA SeqNoRange == ASSUME NEW k \in Nat PROVE SeqNo(k) \in 0 .. (SeqSize - 1)
  BY ConstantsAssumption DEF SeqNo

(* store_block always hits an address of the 32-bit space.                 *)
LEMMA OffsetRange ==
  ASSUME NEW b \in 0 .. (SeqSize - 1), NEW w \in 0 .. (MemBlocks - 1)
  PROVE  Offset(b, w) \in 0 .. (MemBlocks - 1)
  BY ConstantsAssumption DEF Offset

LEMMA WrapRange ==
  ASSUME TypeOK, NEW b \in 0 .. (SeqSize - 1)
  PROVE  WrapOffset(b) \in 0 .. (MemBlocks - 1)
  BY ConstantsAssumption DEF WrapOffset, TypeOK

LEMMA PacketFields ==
  ASSUME NEW m \in Packet
  PROVE  /\ m.srv \in Tids \cup {WELL_KNOWN_PORT} /\ m.cli \in Ports
         /\ m.n \in Nat
         /\ m.op = "DATA" => m.n \in 1 .. FileBlocks
         /\ m.op = "ACK" => m.n \in 0 .. (SeqSize - 1)
  BY ConstantsAssumption DEF Packet

LEMMA LenRange == ASSUME NEW k PROVE Len(k) \in Nat
  BY ConstantsAssumption DEF Len

-----------------------------------------------------------------------------
LEMMA InitType == Init => TypeOK
  BY ConstantsAssumption DEF Init, TypeOK, Packet, NoSession

LEMMA HandledType ==
  ASSUME NEW m, NEW out, net \subseteq Packet, out \subseteq Packet,
         Handled(m, out)
  PROVE  net' \subseteq Packet
  BY DEF Handled

(* What the client sends is a packet.                                      *)
LEMMA SendType ==
  ASSUME NEW st, NEW s \in Tids \cup {WELL_KNOWN_PORT}, NEW c \in Ports,
         NEW b \in 0 .. (SeqSize - 1)
  PROVE  TftpSend(st, s, c, b) \subseteq Packet
  BY ConstantsAssumption DEF TftpSend, Packet

LEMMA SetNetStateType ==
  ASSUME TypeOK, NEW s \in {"continue", "restart", "success", "fail"},
         SetNetState(s)
  PROVE  /\ NetState' \in {"continue", "restart", "success", "fail"}
         /\ batch' \subseteq Packet
  BY DEF SetNetState, TypeOK

LEMMA NetStartAgainType ==
  ASSUME TypeOK, NetStartAgain
  PROVE  /\ NetState' \in {"continue", "restart", "success", "fail"}
         /\ batch' \subseteq Packet
  BY SetNetStateType DEF NetStartAgain

LEMMA HandlerType ==
  ASSUME TypeOK, NEW m \in net, TftpHandler(m)
  PROVE  TypeOK'
<1> DEFINE same == UNCHANGED <<result, TftpOurPort, TftpTimeoutCount, used, sess, lost>>
<1>1. same
  BY DEF TftpHandler
<1>2. m \in Packet /\ m.n \in Nat /\ SeqNo(m.n) \in 0 .. (SeqSize - 1)
  BY SeqNoRange, PacketFields DEF TypeOK
<1>3. ASSUME HandleOACK(m) PROVE TypeOK'
  <2>1. net' \subseteq Packet
    BY <1>2, <1>3, SendType, HandledType DEF HandleOACK, TypeOK, Packet
  <2> QED
    BY <1>1, <1>2, <1>3, <2>1 DEF HandleOACK, TypeOK, Packet
<1>4. ASSUME HandleFirstNotOne(m) PROVE TypeOK'
  <2>1. net' \subseteq Packet
    BY <1>4, HandledType DEF HandleFirstNotOne, TypeOK
  <2>2. /\ NetState' \in {"continue", "restart", "success", "fail"}
        /\ batch' \subseteq Packet
    BY <1>4, NetStartAgainType DEF HandleFirstNotOne
  <2> QED
    BY <1>1, <1>2, <1>4, <2>1, <2>2, ConstantsAssumption
    DEF HandleFirstNotOne, TypeOK, Packet
<1>5. ASSUME HandleSameBlock(m) PROVE TypeOK'
  <2>1. net' \subseteq Packet
    BY <1>5, HandledType DEF HandleSameBlock, TypeOK
  <2>2. TftpBlockWrapOffset' \in 0 .. (MemBlocks - 1)
    BY <1>2, <1>5, WrapRange DEF HandleSameBlock
  <2> QED
    BY <1>1, <1>2, <1>5, <2>1, <2>2 DEF HandleSameBlock, TypeOK
<1>6. ASSUME HandleBlock(m) PROVE TypeOK'
  <2> DEFINE b == SeqNo(m.n)
             w == WrapOffset(b)
  <2>1. net' \subseteq Packet
    BY <1>2, <1>6, SendType, HandledType DEF HandleBlock, TypeOK, Packet
  <2>2. /\ NetState' \in {"continue", "restart", "success", "fail"}
        /\ batch' \subseteq Packet
    BY <1>6, SetNetStateType DEF HandleBlock, TypeOK
  <2>3. w \in 0 .. (MemBlocks - 1) /\ Offset(b, w) \in 0 .. (MemBlocks - 1)
    BY <1>2, WrapRange, OffsetRange
  <2>4. StoreBlock(b, w, m.n)
    BY <1>6 DEF HandleBlock
  <2>5. mem' \in [0 .. (MemBlocks - 1) -> 0 .. FileBlocks]
    <3> m.n \in 0 .. FileBlocks
      BY <1>2, <1>6, PacketFields, ConstantsAssumption DEF HandleBlock
    <3> QED
      BY <2>3, <2>4 DEF StoreBlock, TypeOK
  <2>6. NetBootFileXferSize' \in Nat
    <3> DEFINE o == Offset(b, w)
    <3>1. o * BlockSize + Len(m.n) \in Nat
      <4> o \in Nat
        BY <2>3, ConstantsAssumption
      <4> HIDE DEF o
      <4> QED
        BY LenRange, ConstantsAssumption
    <3> QED
      BY <2>4, <3>1 DEF StoreBlock, TypeOK
  <2> QED
    BY <1>1, <1>2, <1>6, <2>1, <2>2, <2>3, <2>5, <2>6 DEF HandleBlock, TypeOK, Packet
<1>7. ASSUME HandleERROR(m) PROVE TypeOK'
  <2>1. net' \subseteq Packet
    BY <1>7, HandledType DEF HandleERROR, TypeOK
  <2>2. /\ NetState' \in {"continue", "restart", "success", "fail"}
        /\ batch' \subseteq Packet
    BY <1>7, NetStartAgainType DEF HandleERROR
  <2> QED
    BY <1>1, <1>7, <2>1, <2>2 DEF HandleERROR, TypeOK
<1>8. ASSUME HandleStray(m) PROVE TypeOK'
  <2>1. net' \subseteq Packet
    BY <1>8, HandledType DEF HandleStray, TypeOK
  <2> QED
    BY <1>1, <1>8, <2>1 DEF HandleStray, TypeOK
<1> QED
  BY <1>3, <1>4, <1>5, <1>6, <1>7, <1>8 DEF TftpHandler

LEMMA TimeoutType ==
  ASSUME TypeOK, GaveUp, TftpTimeout PROVE TypeOK'
<1>1. net' \subseteq Packet
  BY SendType DEF TypeOK, TftpTimeout, TimeoutResend, TimeoutGiveUp
<1>2. TftpTimeoutCount' \in 0 .. (TIMEOUT_COUNT + 1)
  BY ConstantsAssumption
  DEF TypeOK, GaveUp, TftpTimeout, TimeoutResend, TimeoutGiveUp, Expired
<1> QED
  BY <1>1, <1>2 DEF TypeOK, TftpTimeout, TimeoutResend, TimeoutGiveUp

LEMMA EndType ==
  ASSUME TypeOK, EndOfIteration PROVE TypeOK'
<1>1. CASE NetLoopReturn
  BY <1>1 DEF TypeOK, NetLoopReturn
<1>2. CASE NetLoopRestart
  <2> PICK p \in Ports : TftpStart(p)
    BY <1>2 DEF NetLoopRestart
  <2>1. net' \subseteq Packet
    BY SendType, ConstantsAssumption DEF TftpStart, TypeOK
  <2> QED
    BY <1>2, <2>1, ConstantsAssumption DEF TypeOK, NetLoopRestart, TftpStart
<1> QED
  BY <1>1, <1>2 DEF EndOfIteration

(* What the server sends is a packet.                                      *)
LEMMA CurrentType ==
  ASSUME NEW t \in Tids, NEW c \in Ports, NEW k \in Nat
  PROVE  Current(t, c, k) \subseteq Packet
  BY ConstantsAssumption DEF Current, Packet

LEMMA ServerType ==
  ASSUME TypeOK, Server PROVE TypeOK'
<1> PICK m \in net : ServerRRQ(m) \/ ServerACK(m)
  BY DEF Server
<1>0. m \in Packet /\ m.cli \in Ports
  BY PacketFields DEF TypeOK
<1>1. CASE ServerRRQ(m)
  <2>1. net' \subseteq Packet
    <3>1. \A t \in Tids : /\ Current(t, m.cli, 0) \subseteq Packet
                          /\ Current(t, m.cli, 1) \subseteq Packet
                          /\ {ERROR(t, m.cli)} \subseteq Packet
      BY <1>0, CurrentType DEF Packet
    <3> QED
      BY <1>1, <3>1, HandledType DEF TypeOK, ServerRRQ
  <2>2. sess' \in [Tids -> Session \cup {NoSession}]
    BY <1>0, <1>1, ConstantsAssumption DEF TypeOK, ServerRRQ, Session
  <2> QED
    BY <1>1, <2>1, <2>2 DEF TypeOK, ServerRRQ, clientVars
<1>2. CASE ServerACK(m)
  <2> DEFINE k == sess[m.srv].cur
  <2>0. m.srv \in Tids /\ k \in 0 .. (FileBlocks + 1)
    BY <1>2 DEF TypeOK, ServerACK, Session
  <2>1. net' \subseteq Packet
    <3>1. Current(m.srv, m.cli, k) \subseteq Packet
      BY <1>0, <2>0, CurrentType, ConstantsAssumption
    <3>2. Current(m.srv, m.cli, k + 1) \subseteq Packet
      BY <1>0, <2>0, CurrentType, ConstantsAssumption
    <3> QED
      BY <1>2, <3>1, <3>2, HandledType DEF TypeOK, ServerACK
  <2>2. sess' \in [Tids -> Session \cup {NoSession}]
    <3>1. sess[m.srv] \in Session
      BY <1>2, <2>0 DEF TypeOK, ServerACK
    <3>2. k <= FileBlocks => [sess[m.srv] EXCEPT !.cur = k + 1] \in Session
      BY <2>0, <3>1, ConstantsAssumption DEF Session
    <3> QED
      BY <1>2, <2>0, <3>2 DEF TypeOK, ServerACK
  <2> QED
    BY <1>2, <2>1, <2>2 DEF TypeOK, ServerACK, clientVars
<1> QED
  BY <1>1, <1>2

(* After the retry count is exceeded only the end of the iteration is left. *)
LEMMA GaveUpStep ==
  ASSUME TypeOK, GaveUp, [Next]_vars PROVE GaveUp'
<1>1. CASE Receive
  <2> PICK m \in net : TftpHandler(m)
    BY <1>1 DEF Receive
  <2>1. TftpTimeoutCount <= TIMEOUT_COUNT
    BY ConstantsAssumption DEF TypeOK, GaveUp, TftpHandler
  <2> QED
    BY <2>1, ConstantsAssumption DEF GaveUp, TftpHandler, TypeOK
<1>2. CASE TftpTimeout
  BY <1>2, ConstantsAssumption
  DEF TypeOK, GaveUp, TftpTimeout, TimeoutResend, TimeoutGiveUp
<1>3. CASE EndOfIteration
  BY <1>3, ConstantsAssumption
  DEF GaveUp, EndOfIteration, NetLoopReturn, NetLoopRestart, TftpStart
<1>4. CASE UNCHANGED clientVars
  BY <1>4 DEF GaveUp, clientVars
<1> QED
  BY <1>1, <1>2, <1>3, <1>4
  DEF Next, Done, vars, Server, ServerRRQ, ServerACK, ServerRetransmit, Lose

LEMMA TypeStep ==
  ASSUME TypeOK, GaveUp, [Next]_vars PROVE TypeOK'
<1>1. CASE Receive
  BY <1>1, HandlerType DEF Receive
<1>2. CASE TftpTimeout
  BY <1>2, TimeoutType
<1>3. CASE EndOfIteration
  BY <1>3, EndType
<1>4. CASE Server
  BY <1>4, ServerType
<1>5. ASSUME NEW t \in Tids, ServerRetransmit(t) PROVE TypeOK'
  <2>1. net' \subseteq Packet
    <3>1. sess[t].cli \in Ports /\ sess[t].cur \in Nat
      BY <1>5, ConstantsAssumption DEF ServerRetransmit, TypeOK, Session
    <3> QED
      BY <1>5, <3>1, CurrentType DEF ServerRetransmit, TypeOK
  <2> QED
    BY <1>5, <2>1 DEF ServerRetransmit, TypeOK, clientVars
<1>6. ASSUME NEW m \in net, Lose(m) PROVE TypeOK'
  BY <1>6, ConstantsAssumption DEF Lose, TypeOK, clientVars
<1>7. CASE UNCHANGED vars
  BY <1>7 DEF TypeOK, vars, clientVars
<1> QED
  BY <1>1, <1>2, <1>3, <1>4, <1>5, <1>6, <1>7 DEF Next, Done

(* Every variable keeps its type, for files of any length: the 16-bit      *)
(* number, the 32-bit offset and the count of timeouts stay in range.      *)
THEOREM TftpType == Spec => []TypeOK
<1>1. Init => TypeOK /\ GaveUp
  BY InitType, ConstantsAssumption DEF Init, GaveUp
<1>2. TypeOK /\ GaveUp /\ [Next]_vars => TypeOK' /\ GaveUp'
  BY TypeStep, GaveUpStep
<1> QED
  BY <1>1, <1>2, PTL DEF Spec

-----------------------------------------------------------------------------
(* Files with fewer blocks than there are sequence numbers.                *)
NoWrap == FileBlocks < SeqSize

LEMMA SeqNoIsBlock ==
  ASSUME NoWrap, NEW k \in 0 .. FileBlocks PROVE SeqNo(k) = k
  BY ConstantsAssumption DEF NoWrap, SeqNo

LEMMA OffsetIsPlace ==
  ASSUME NEW b \in 1 .. FileBlocks PROVE Offset(b, 0) = b - 1
  BY ConstantsAssumption DEF Offset

(* A block is no longer than the part of the file up to its end.           *)
LEMMA PlaceInFile ==
  ASSUME NEW b \in 1 .. FileBlocks
  PROVE  /\ (b - 1) * BlockSize + Len(b) \in Nat
         /\ (b - 1) * BlockSize + Len(b) <= FileSize
         /\ FileSize \in Nat
         /\ IsLast(b) <=> b = FileBlocks
         /\ b = FileBlocks => (b - 1) * BlockSize + Len(b) = FileSize
<1> DEFINE f == FileBlocks - 1
<1>1. BlockSize \in Nat /\ LastLen \in Nat /\ LastLen < BlockSize /\ f \in Nat
  BY ConstantsAssumption
<1>2. FileSize = f * BlockSize + LastLen
  BY DEF FileSize
<1>3. CASE b = FileBlocks
  BY <1>1, <1>2, <1>3 DEF Len, IsLast
<1>4. CASE b # FileBlocks
  <2>1. b - 1 \in Nat /\ b \in Nat /\ b <= f
    BY <1>4, ConstantsAssumption
  <2>2. (b - 1) * BlockSize + BlockSize = b * BlockSize
    BY <1>1, <2>1
  <2>3. b * BlockSize <= f * BlockSize
    BY <1>1, <2>1
  <2>4. Len(b) = BlockSize
    BY <1>4 DEF Len
  <2>5. ~IsLast(b)
    BY <1>1, <2>4 DEF IsLast
  <2> QED
    BY <1>1, <1>2, <1>4, <2>1, <2>2, <2>3, <2>4, <2>5
<1> QED
  BY <1>3, <1>4

(* Storing a block at its place disturbs no other block.                   *)
LEMMA StoreKeeps ==
  ASSUME TypeOK, RightPlace, NEW b \in 1 .. FileBlocks,
         mem' = [mem EXCEPT ![b - 1] = b]
  PROVE  /\ RightPlace'
         /\ mem'[b - 1] = b
         /\ \A j \in 1 .. FileBlocks : mem[j - 1] = j => mem'[j - 1] = j
         /\ \A k \in Int : k <= FileBlocks /\ StoredUpTo(k) => StoredUpTo(k)'
<1>1. b - 1 \in DOMAIN mem /\ b - 1 \in Int
  BY ConstantsAssumption DEF TypeOK
<1>2. RightPlace' /\ mem'[b - 1] = b
  BY <1>1 DEF RightPlace, TypeOK
<1>3. ASSUME NEW j \in 1 .. FileBlocks, mem[j - 1] = j PROVE mem'[j - 1] = j
  BY <1>1, <1>3, ConstantsAssumption DEF TypeOK
<1> QED
  BY <1>2, <1>3 DEF StoredUpTo

(* The handler ends an attempt without storing anything: the transfer is   *)
(* over and the frames still in the ring are those of this moment.         *)
LEMMA StopStep ==
  ASSUME TypeOK, TransferInv, NEW s \in {"restart", "fail"}, SetNetState(s),
         UNCHANGED <<mem, sess, TftpOurPort>>
  PROVE  AckedIsStored' /\ BatchIsBehind'
<1>1. AckedIsStored'
  BY DEF AckedIsStored, SetNetState
<1>2. CASE NetState # "continue"
  BY <1>1, <1>2 DEF SetNetState, TransferInv, BatchIsBehind, StoredUpTo
<1>3. CASE NetState = "continue"
  <2> SUFFICES ASSUME NEW m \in net, m.op = "DATA", m.cli = TftpOurPort
               PROVE  StoredUpTo(m.n - 1)
    BY <1>1, <1>3 DEF SetNetState, BatchIsBehind, StoredUpTo
  <2>1. m \in Packet /\ m.n \in 1 .. FileBlocks
    BY PacketFields DEF TypeOK
  <2>2. Talks(m.srv, TftpOurPort) /\ m.n <= sess[m.srv].cur
    BY DEF TransferInv, PacketOrigin
  <2>3. StoredUpTo(sess[m.srv].cur - 1) /\ sess[m.srv].cur \in Nat
    BY <1>3, <2>2, ConstantsAssumption
    DEF TransferInv, AckedIsStored, Talks, TypeOK, Session
  <2> QED
    BY <2>1, <2>2, <2>3, ConstantsAssumption DEF StoredUpTo
<1> QED
  BY <1>2, <1>3

(* Nothing new travels, so every packet still has its origin.              *)
LEMMA OriginKept ==
  ASSUME PacketOrigin, net' \subseteq net, UNCHANGED <<sess, used>>
  PROVE  PacketOrigin'
  BY DEF PacketOrigin, Talks

LEMMA ReceiveOACK ==
  ASSUME TypeOK, TransferInv, NEW m \in net, TftpHandler(m), HandleOACK(m)
  PROVE  TransferInv'
<1> USE DEF TransferInv
<1>0. UNCHANGED <<result, TftpOurPort, used, sess, mem, NetState, batch,
                  NetBootFileXferSize, TftpBlock, TftpLastBlock,
                  TftpBlockWrapOffset>>
  BY DEF TftpHandler, HandleOACK
<1>1. Talks(m.srv, TftpOurPort) /\ TftpServerPort' = m.srv
  BY DEF HandleOACK, Accepts, PacketOrigin
<1>2. net' \subseteq net \cup {ACK(m.srv, TftpOurPort, TftpBlock)}
  BY DEF HandleOACK, Handled, TftpSend
<1>3. RightPlace' /\ NumbersAreBlocks' /\ SizeIsRight' /\ BatchIsBehind'
  BY <1>0 DEF RightPlace, NumbersAreBlocks, SizeIsRight, BatchIsBehind, StoredUpTo
<1>4. PacketOrigin' /\ ClientInSession'
  BY <1>0, <1>1, <1>2
  DEF PacketOrigin, ClientInSession, Talks, NumbersAreBlocks
<1>5. AckedIsStored'
  BY <1>0, <1>2 DEF AckedIsStored, StoredUpTo, Talks
<1> QED
  BY <1>3, <1>4, <1>5

LEMMA ReceiveFirstNotOne ==
  ASSUME NoWrap, TypeOK, TransferInv, NEW m \in net, TftpHandler(m),
         HandleFirstNotOne(m)
  PROVE  TransferInv'
<1> USE DEF TransferInv
<1>0. UNCHANGED <<result, TftpOurPort, used, sess, mem, NetBootFileXferSize>>
  BY DEF TftpHandler, HandleFirstNotOne
<1>1. PICK s \in {"restart", "fail"} : SetNetState(s)
  BY DEF HandleFirstNotOne, NetStartAgain
<1>2. NetState' \in {"restart", "fail"} /\ result' = "none"
  BY <1>1 DEF SetNetState, TftpHandler
<1>3. AckedIsStored' /\ BatchIsBehind'
  BY <1>0, <1>1, StopStep
<1>4. m.n \in 1 .. FileBlocks /\ TftpBlock' = m.n
  <2>1. m.n \in 1 .. FileBlocks
    BY PacketFields DEF TypeOK, HandleFirstNotOne
  <2> QED
    BY <2>1, SeqNoIsBlock, ConstantsAssumption DEF HandleFirstNotOne
<1>5. RightPlace' /\ NumbersAreBlocks' /\ SizeIsRight'
  BY <1>0, <1>2, <1>4, ConstantsAssumption
  DEF RightPlace, NumbersAreBlocks, SizeIsRight, HandleFirstNotOne
<1>6. PacketOrigin' /\ ClientInSession'
  <2>1. PacketOrigin'
    BY <1>0, OriginKept DEF HandleFirstNotOne, Handled
  <2>2. Talks(m.srv, TftpOurPort)
    BY DEF PacketOrigin, HandleFirstNotOne, Accepts
  <2> QED
    BY <1>0, <2>1, <2>2 DEF ClientInSession, Talks, HandleFirstNotOne
<1> QED
  BY <1>3, <1>5, <1>6

LEMMA ReceiveSameBlock ==
  ASSUME NoWrap, TypeOK, TransferInv, NEW m \in net, TftpHandler(m),
         HandleSameBlock(m)
  PROVE  TransferInv'
<1> USE DEF TransferInv
<1>0. UNCHANGED <<result, TftpOurPort, TftpServerPort, TftpState, used, sess, mem,
                  NetState, batch, NetBootFileXferSize, TftpLastBlock>>
  BY DEF TftpHandler, HandleSameBlock
<1>1. m.n \in 1 .. FileBlocks /\ SeqNo(m.n) = m.n
  <2>1. m.n \in 1 .. FileBlocks
    BY PacketFields DEF TypeOK, HandleSameBlock
  <2> QED
    BY <2>1, SeqNoIsBlock, ConstantsAssumption
<1>2. TftpBlock' = m.n /\ m.n = TftpLastBlock /\ TftpBlockWrapOffset' = 0
  BY <1>1 DEF HandleSameBlock, LastBlock, WrapOffset, NumbersAreBlocks
<1>3. RightPlace' /\ NumbersAreBlocks' /\ SizeIsRight' /\ BatchIsBehind'
  BY <1>0, <1>1, <1>2
  DEF RightPlace, NumbersAreBlocks, SizeIsRight, BatchIsBehind, StoredUpTo
<1>4. PacketOrigin' /\ ClientInSession' /\ net' \subseteq net
  BY <1>0, OriginKept DEF HandleSameBlock, Handled, ClientInSession, Talks
<1>5. ASSUME NetState = "continue" PROVE StoredUpTo(m.n)
  <2>1. Talks(m.srv, TftpOurPort) /\ m.n <= sess[m.srv].cur
    BY DEF PacketOrigin, HandleSameBlock, Accepts
  <2>2. StoredUpTo(sess[m.srv].cur - 1) /\ sess[m.srv].cur \in Nat
    BY <1>5, <2>1, ConstantsAssumption DEF AckedIsStored, Talks, TypeOK, Session
  <2>3. mem[m.n - 1] = m.n
    BY <1>1, <1>2 DEF NumbersAreBlocks
  <2> QED
    BY <1>1, <2>1, <2>2, <2>3, ConstantsAssumption DEF StoredUpTo
<1>6. AckedIsStored'
  BY <1>0, <1>2, <1>4, <1>5 DEF AckedIsStored, StoredUpTo, Talks
<1> QED
  BY <1>3, <1>4, <1>6

(* The one step that writes memory.  The block handed over is at most one  *)
(* ahead of the memory, so the blocks up to it are stored afterwards; when *)
(* it is the last one, these are all blocks.                               *)
LEMMA ReceiveBlock ==
  ASSUME NoWrap, TypeOK, TransferInv, NEW m \in net, TftpHandler(m),
         HandleBlock(m)
  PROVE  TransferInv'
<1> USE DEF TransferInv
<1> DEFINE b == m.n
<1>0. UNCHANGED <<result, TftpOurPort, used, sess>> /\ result = "none"
  BY DEF TftpHandler
<1>1. b \in 1 .. FileBlocks /\ SeqNo(b) = b /\ WrapOffset(b) = 0 /\ Offset(b, 0) = b - 1
  <2>1. b \in 1 .. FileBlocks
    BY PacketFields DEF TypeOK, HandleBlock
  <2>2. SeqNo(b) = b
    BY <2>1, SeqNoIsBlock, ConstantsAssumption
  <2> QED
    BY <2>1, <2>2, OffsetIsPlace DEF WrapOffset, NumbersAreBlocks
<1>2. /\ TftpState' = "DATA" /\ TftpServerPort' = m.srv
      /\ TftpBlock' = b /\ TftpLastBlock' = b /\ TftpBlockWrapOffset' = 0
      /\ mem' = [mem EXCEPT ![b - 1] = b]
      /\ IF IsLast(b) THEN SetNetState("success") ELSE UNCHANGED <<NetState, batch>>
  BY <1>1 DEF HandleBlock, StoreBlock
<1>3. /\ RightPlace' /\ mem'[b - 1] = b
      /\ \A j \in 1 .. FileBlocks : mem[j - 1] = j => mem'[j - 1] = j
      /\ \A k \in Int : k <= FileBlocks /\ StoredUpTo(k) => StoredUpTo(k)'
  BY <1>1, <1>2, StoreKeeps
<1>4. Talks(m.srv, TftpOurPort) /\ b <= sess[m.srv].cur
  BY DEF PacketOrigin, HandleBlock, Accepts
<1>5. StoredUpTo(b - 1)
  <2>1. CASE NetState = "continue"
    <3>1. StoredUpTo(sess[m.srv].cur - 1) /\ sess[m.srv].cur \in Nat
      BY <1>4, <2>1, ConstantsAssumption DEF AckedIsStored, Talks, TypeOK, Session
    <3> QED
      BY <1>1, <1>4, <3>1, ConstantsAssumption DEF StoredUpTo
  <2>2. CASE m \in batch
    BY <2>2 DEF BatchIsBehind, HandleBlock, Accepts
  <2> QED
    BY <2>1, <2>2 DEF TftpHandler
<1>6. StoredUpTo(b)'
  BY <1>1, <1>3, <1>5, ConstantsAssumption DEF StoredUpTo
<1>7. NumbersAreBlocks'
  BY <1>1, <1>2, <1>3 DEF NumbersAreBlocks
<1>8. net' \subseteq net \cup {ACK(m.srv, TftpOurPort, b)}
  BY <1>1 DEF HandleBlock, Handled, TftpSend
<1>9. PacketOrigin' /\ ClientInSession'
  <2>1. TftpOurPort \in used
    BY DEF ClientInSession
  <2>2. PacketOrigin'
    BY <1>0, <1>1, <1>4, <1>8, <2>1 DEF PacketOrigin, Talks
  <2> QED
    BY <1>0, <1>2, <1>4, <2>2 DEF ClientInSession, Talks
<1>10. AckedIsStored'
  <2> SUFFICES ASSUME NetState' = "continue"
               PROVE  /\ StoredUpTo(TftpBlock)'
                      /\ \A p \in net' : p.op = "ACK" /\ p.cli = TftpOurPort
                                            => StoredUpTo(p.n)'
                      /\ \A t \in Tids : Talks(t, TftpOurPort)
                                            => StoredUpTo(sess[t].cur - 1)'
    BY <1>0 DEF AckedIsStored, Talks, StoredUpTo
  <2>1. NetState = "continue"
    BY <1>2 DEF SetNetState
  <2>2. StoredUpTo(TftpBlock)'
    BY <1>2, <1>6 DEF StoredUpTo
  <2>3. ASSUME NEW p \in net', p.op = "ACK", p.cli = TftpOurPort
        PROVE  StoredUpTo(p.n)'
    <3>1. CASE p \in net
      <4>1. p.n \in Int /\ p.n <= FileBlocks /\ StoredUpTo(p.n)
        BY <2>1, <2>3, <3>1, PacketFields
        DEF TypeOK, PacketOrigin, AckedIsStored
      <4> QED
        BY <1>3, <4>1
    <3>2. CASE p = ACK(m.srv, TftpOurPort, b)
      BY <1>6, <3>2 DEF StoredUpTo
    <3> QED
      BY <1>8, <2>3, <3>1, <3>2
  <2>4. ASSUME NEW t \in Tids, Talks(t, TftpOurPort)
        PROVE  StoredUpTo(sess[t].cur - 1)'
    <3>1. sess[t].cur - 1 \in Int /\ sess[t].cur - 1 <= FileBlocks
      BY <2>4, ConstantsAssumption DEF Talks, TypeOK, Session
    <3>2. StoredUpTo(sess[t].cur - 1)
      BY <2>1, <2>4 DEF AckedIsStored
    <3> QED
      BY <1>0, <1>3, <3>1, <3>2 DEF StoredUpTo
  <2> QED
    BY <2>2, <2>3, <2>4
<1>11. BatchIsBehind'
  <2> SUFFICES ASSUME NEW p \in batch', p.op = "DATA", p.cli = TftpOurPort
               PROVE  StoredUpTo(p.n - 1)'
    BY <1>0 DEF BatchIsBehind, StoredUpTo
  <2>1. /\ p \in Packet /\ p.n \in 1 .. FileBlocks
        /\ p \in batch \/ (p \in net /\ NetState = "continue")
    <3>1. p \in batch \/ (p \in net /\ NetState = "continue")
      BY <1>2 DEF SetNetState
    <3>2. p \in Packet
      BY <3>1 DEF TypeOK
    <3> QED
      BY <3>1, <3>2, PacketFields
  <2>2. StoredUpTo(p.n - 1)
    <3>1. CASE p \in batch
      BY <3>1 DEF BatchIsBehind
    <3>2. CASE p \in net /\ NetState = "continue"
      <4>1. Talks(p.srv, TftpOurPort) /\ p.n <= sess[p.srv].cur
        BY <3>2 DEF PacketOrigin
      <4>2. StoredUpTo(sess[p.srv].cur - 1) /\ sess[p.srv].cur \in Nat
        BY <3>2, <4>1, ConstantsAssumption DEF AckedIsStored, Talks, TypeOK, Session
      <4> QED
        BY <2>1, <4>1, <4>2, ConstantsAssumption DEF StoredUpTo
    <3> QED
      BY <2>1, <3>1, <3>2
  <2>3. p.n - 1 \in Int /\ p.n - 1 <= FileBlocks
    BY <2>1, ConstantsAssumption
  <2> QED
    BY <1>3, <2>2, <2>3
<1>12. SizeIsRight'
  <2> DEFINE newsize == (b - 1) * BlockSize + Len(b)
  <2>1. /\ newsize \in Nat /\ newsize <= FileSize /\ FileSize \in Nat
        /\ IsLast(b) <=> b = FileBlocks
        /\ b = FileBlocks => newsize = FileSize
    BY <1>1, PlaceInFile
  <2>2. NetBootFileXferSize' = IF NetBootFileXferSize < newsize
                               THEN newsize ELSE NetBootFileXferSize
    BY <1>1 DEF HandleBlock, StoreBlock
  <2>3. NetBootFileXferSize \in Nat /\ NetBootFileXferSize <= FileSize
    BY DEF TypeOK, SizeIsRight
  <2> HIDE DEF newsize
  <2>4. NetBootFileXferSize' <= FileSize
    BY <2>1, <2>2, <2>3
  <2>5. ASSUME "success" \in {NetState, result}'
        PROVE  StoredUpTo(FileBlocks)' /\ NetBootFileXferSize' = FileSize
    <3>1. CASE IsLast(b)
      <4>1. b = FileBlocks
        BY <2>1, <3>1
      <4> QED
        BY <1>6, <2>1, <2>2, <2>3, <4>1 DEF StoredUpTo
    <3>2. CASE ~IsLast(b)
      <4>1. NetState = "success"
        BY <1>0, <1>2, <2>5, <3>2
      <4>2. StoredUpTo(FileBlocks) /\ NetBootFileXferSize = FileSize
        BY <4>1 DEF SizeIsRight
      <4>3. StoredUpTo(FileBlocks)'
        BY <1>3, <4>2, ConstantsAssumption DEF StoredUpTo
      <4> QED
        BY <2>1, <2>2, <4>2, <4>3
    <3> QED
      BY <3>1, <3>2
  <2> QED
    <3>1. FileSize' = FileSize
      BY DEF FileSize
    <3> QED
      BY <2>4, <2>5, <3>1 DEF SizeIsRight
<1> QED
  BY <1>3, <1>7, <1>9, <1>10, <1>11, <1>12

LEMMA ReceiveERROR ==
  ASSUME TypeOK, TransferInv, NEW m \in net, TftpHandler(m), HandleERROR(m)
  PROVE  TransferInv'
<1> USE DEF TransferInv
<1>0. UNCHANGED <<result, TftpOurPort, TftpServerPort, TftpState, used, sess, mem,
                  TftpBlock, TftpLastBlock, TftpBlockWrapOffset,
                  NetBootFileXferSize>> /\ result = "none"
  BY DEF TftpHandler, HandleERROR
<1>1. PICK s \in {"restart", "fail"} : SetNetState(s)
  BY DEF HandleERROR, NetStartAgain
<1>2. AckedIsStored' /\ BatchIsBehind'
  BY <1>0, <1>1, StopStep
<1>3. PacketOrigin' /\ ClientInSession'
  BY <1>0, OriginKept DEF HandleERROR, Handled, ClientInSession, Talks
<1>4. RightPlace' /\ NumbersAreBlocks' /\ SizeIsRight'
  BY <1>0, <1>1
  DEF RightPlace, NumbersAreBlocks, SizeIsRight, SetNetState, StoredUpTo
<1> QED
  BY <1>2, <1>3, <1>4

(* A step that touches neither the client nor a session, and sends nothing. *)
LEMMA QuietStep ==
  ASSUME TypeOK, TransferInv, UNCHANGED clientVars, UNCHANGED sess,
         net' \subseteq net
  PROVE  TransferInv'
<1> USE DEF TransferInv, clientVars
<1>1. PacketOrigin'
  BY OriginKept
<1>2. RightPlace' /\ NumbersAreBlocks' /\ SizeIsRight' /\ BatchIsBehind'
  BY DEF RightPlace, NumbersAreBlocks, SizeIsRight, BatchIsBehind, StoredUpTo
<1>3. ClientInSession' /\ AckedIsStored'
  BY DEF ClientInSession, AckedIsStored, StoredUpTo, Talks
<1> QED
  BY <1>1, <1>2, <1>3

LEMMA ReceiveStep ==
  ASSUME NoWrap, TypeOK, TransferInv, NEW m \in net, TftpHandler(m)
  PROVE  TransferInv'
<1>1. CASE HandleStray(m)
  BY <1>1, QuietStep DEF HandleStray, TftpHandler, Handled, clientVars
<1> QED
  BY <1>1, ReceiveOACK, ReceiveFirstNotOne, ReceiveSameBlock, ReceiveBlock,
     ReceiveERROR
  DEF TftpHandler

-----------------------------------------------------------------------------
LEMMA TimeoutStep ==
  ASSUME TypeOK, TransferInv, TftpTimeout
  PROVE  TransferInv'
<1> USE DEF TransferInv
<1>0. /\ UNCHANGED <<result, TftpOurPort, TftpServerPort, TftpState, used, sess,
                     mem, TftpBlock, TftpLastBlock, TftpBlockWrapOffset,
                     NetBootFileXferSize>>
      /\ result = "none" /\ batch' = {}
      /\ NetState' = NetState \/ NetState' \in {"restart", "fail"}
      /\ NetState # "success"
  BY DEF TftpTimeout, TimeoutResend, TimeoutGiveUp, Expired
<1>1. RightPlace' /\ NumbersAreBlocks' /\ SizeIsRight' /\ BatchIsBehind'
  BY <1>0
  DEF RightPlace, NumbersAreBlocks, SizeIsRight, BatchIsBehind, StoredUpTo
<1>2. ClientInSession'
  BY <1>0 DEF ClientInSession, Talks
<1>3. CASE TftpState = "RRQ"
  <2>1. net' \subseteq net \cup {RRQ(TftpOurPort)}
    BY <1>3 DEF TftpTimeout, TimeoutResend, TimeoutGiveUp, TftpSend
  <2>2. PacketOrigin'
    BY <1>0, <2>1 DEF PacketOrigin, ClientInSession, Talks
  <2>3. AckedIsStored'
    BY <1>0, <2>1 DEF AckedIsStored, StoredUpTo, Talks
  <2> QED
    BY <1>1, <1>2, <2>2, <2>3
<1>4. CASE TftpState # "RRQ"
  <2>1. net' \subseteq net \cup {ACK(TftpServerPort, TftpOurPort, TftpBlock)}
    BY <1>4 DEF TftpTimeout, TimeoutResend, TimeoutGiveUp, TftpSend
  <2>2. PacketOrigin'
    BY <1>0, <1>4, <2>1 DEF PacketOrigin, ClientInSession, Talks, NumbersAreBlocks
  <2>3. AckedIsStored'
    BY <1>0, <2>1 DEF AckedIsStored, StoredUpTo, Talks
  <2> QED
    BY <1>1, <1>2, <2>2, <2>3
<1> QED
  BY <1>3, <1>4

(* A new attempt has a port no packet and no session knows.                *)
LEMMA RestartStep ==
  ASSUME TypeOK, TransferInv, NetLoopRestart
  PROVE  TransferInv'
<1> USE DEF TransferInv
<1> PICK p \in Ports \ used : TftpStart(p)
  BY DEF NetLoopRestart
<1>0. /\ UNCHANGED <<result, sess, mem, TftpLastBlock, TftpBlockWrapOffset>>
      /\ result = "none" /\ NetState' = "continue" /\ batch' = {}
      /\ TftpOurPort' = p /\ used' = used \cup {p} /\ TftpState' = "RRQ"
      /\ TftpBlock' = 0 /\ NetBootFileXferSize' = 0
  BY DEF NetLoopRestart, TftpStart
<1>1. net' = net \cup {RRQ(p)}
  BY DEF TftpStart, TftpSend
<1>2. 1 \in 1 .. FileBlocks /\ FileSize \in Nat /\ FileSize' = FileSize
  BY PlaceInFile, ConstantsAssumption DEF FileSize
<1>3. RightPlace' /\ NumbersAreBlocks' /\ BatchIsBehind'
  BY <1>0, ConstantsAssumption DEF RightPlace, NumbersAreBlocks, BatchIsBehind
<1>4. SizeIsRight'
  BY <1>0, <1>2 DEF SizeIsRight
<1>5. PacketOrigin' /\ ClientInSession'
  BY <1>0, <1>1 DEF PacketOrigin, ClientInSession, Talks
<1>6. AckedIsStored'
  <2>1. StoredUpTo(0)'
    BY DEF StoredUpTo
  <2>2. \A m \in net' : m.op = "ACK" => m.cli # p
    BY <1>1 DEF PacketOrigin
  <2>3. \A t \in Tids : ~Talks(t, p)
    BY DEF ClientInSession, Talks
  <2> QED
    BY <1>0, <2>1, <2>2, <2>3 DEF AckedIsStored, Talks
<1> QED
  BY <1>3, <1>4, <1>5, <1>6

LEMMA ReturnStep ==
  ASSUME TypeOK, TransferInv, NetLoopReturn
  PROVE  TransferInv'
<1> USE DEF TransferInv
<1>0. /\ UNCHANGED <<TftpOurPort, TftpServerPort, TftpState, used, sess, mem,
                     NetState, batch, net, TftpBlock, TftpLastBlock,
                     TftpBlockWrapOffset, NetBootFileXferSize>>
      /\ result' = "success" => NetState = "success"
  BY DEF NetLoopReturn
<1>1. RightPlace' /\ NumbersAreBlocks' /\ BatchIsBehind' /\ PacketOrigin'
  BY <1>0 DEF RightPlace, NumbersAreBlocks, BatchIsBehind, PacketOrigin, StoredUpTo, Talks
<1>2. ClientInSession' /\ AckedIsStored'
  BY <1>0 DEF ClientInSession, AckedIsStored, StoredUpTo, Talks
<1>3. SizeIsRight'
  BY <1>0 DEF SizeIsRight, StoredUpTo, FileSize
<1> QED
  BY <1>1, <1>2, <1>3

-----------------------------------------------------------------------------
(* A request opens a session behind a port that had none, so no packet is  *)
(* part of it yet.                                                         *)
LEMMA ServerRRQStep ==
  ASSUME TypeOK, TransferInv, NEW m \in net, ServerRRQ(m)
  PROVE  TransferInv'
<1> USE DEF TransferInv
<1>0. UNCHANGED clientVars /\ m.cli \in used
  BY DEF ServerRRQ, PacketOrigin
<1>1. RightPlace' /\ NumbersAreBlocks' /\ SizeIsRight' /\ BatchIsBehind'
  BY <1>0 DEF RightPlace, NumbersAreBlocks, SizeIsRight, BatchIsBehind, StoredUpTo, clientVars
<1> PICK t \in Tids :
       /\ sess[t] = NoSession
       /\ \/ \E k \in {0, 1} :
               /\ sess' = [sess EXCEPT ![t] = [cli |-> m.cli, cur |-> k]]
               /\ Handled(m, Current(t, m.cli, k))
          \/ Handled(m, {ERROR(t, m.cli)}) /\ UNCHANGED sess
  BY DEF ServerRRQ
<1>2. CASE Handled(m, {ERROR(t, m.cli)}) /\ UNCHANGED sess
  <2>1. net' \subseteq net \cup {ERROR(t, m.cli)}
    BY <1>2 DEF Handled
  <2>2. PacketOrigin'
    BY <1>0, <1>2, <2>1 DEF PacketOrigin, Talks, clientVars
  <2>3. ClientInSession' /\ AckedIsStored'
    BY <1>0, <1>2, <2>1 DEF ClientInSession, AckedIsStored, StoredUpTo, Talks, clientVars
  <2> QED
    BY <1>1, <2>2, <2>3
<1>3. ASSUME NEW k \in {0, 1},
             sess' = [sess EXCEPT ![t] = [cli |-> m.cli, cur |-> k]],
             Handled(m, Current(t, m.cli, k))
      PROVE  TransferInv'
  <2>1. /\ \A u \in Tids \ {t} : sess'[u] = sess[u]
        /\ sess'[t] = [cli |-> m.cli, cur |-> k] /\ sess'[t] # NoSession
    BY <1>3 DEF TypeOK, NoSession
  <2>2. \A q \in net' \ net : /\ q.srv = t /\ q.cli = m.cli /\ q.op # "ACK"
                              /\ q.op = "DATA" => q.n = k
    BY <1>3, ConstantsAssumption DEF Handled, Current
  <2>3. \A u, c : Talks(u, c) => u # t /\ Talks(u, c)'
    BY <2>1 DEF Talks
  <2>4. Talks(t, m.cli)' /\ sess'[t].cur = k
    BY <2>1 DEF Talks
  <2>5. PacketOrigin'
    <3> SUFFICES ASSUME NEW q \in net'
                 PROVE  /\ q.cli \in used
                        /\ q.op \in {"DATA", "OACK", "ACK"} => Talks(q.srv, q.cli)'
                        /\ q.op = "DATA" => q.n <= sess'[q.srv].cur
                        /\ q.op = "ACK" => q.n <= FileBlocks
      BY <1>0 DEF PacketOrigin, clientVars
    <3>1. CASE q \in net
      BY <2>1, <2>3, <3>1 DEF PacketOrigin, Talks
    <3>2. CASE q \notin net
      BY <1>0, <2>2, <2>4, <3>2
    <3> QED
      BY <3>1, <3>2
  <2>6. ClientInSession'
    BY <1>0, <2>1, <2>3 DEF ClientInSession, clientVars
  <2>7. AckedIsStored'
    <3>1. \A q \in net' : q.op = "ACK" => q \in net
      BY <2>2
    <3>2. StoredUpTo(k - 1)
      BY DEF StoredUpTo
    <3>3. \A u \in Tids \ {t} : Talks(u, TftpOurPort)' => Talks(u, TftpOurPort)
      BY <1>0, <2>1 DEF Talks, clientVars
    <3> QED
      BY <1>0, <2>1, <2>4, <3>1, <3>2, <3>3 DEF AckedIsStored, StoredUpTo, clientVars
  <2> QED
    BY <1>1, <2>5, <2>6, <2>7
<1> QED
  BY <1>2, <1>3

(* An acknowledgement moves the session on by one block, which is stored.  *)
LEMMA ServerACKStep ==
  ASSUME NoWrap, TypeOK, TransferInv, NEW m \in net, ServerACK(m)
  PROVE  TransferInv'
<1> USE DEF TransferInv
<1> DEFINE t == m.srv
           k == sess[t].cur
<1>0. /\ UNCHANGED clientVars /\ m.cli \in used
      /\ t \in Tids /\ sess[t] # NoSession /\ sess[t].cli = m.cli
      /\ m.op = "ACK"
  BY DEF ServerACK, PacketOrigin, Talks
<1>1. RightPlace' /\ NumbersAreBlocks' /\ SizeIsRight' /\ BatchIsBehind'
  BY <1>0 DEF RightPlace, NumbersAreBlocks, SizeIsRight, BatchIsBehind, StoredUpTo, clientVars
<1>2. k \in 0 .. (FileBlocks + 1) /\ sess[t] \in Session
  BY <1>0 DEF TypeOK, Session
<1>3. CASE /\ Handled(m, IF k > 0 /\ m.n = SeqNo(k - 1)
                         THEN Current(t, m.cli, k) ELSE {})
           /\ UNCHANGED sess
  <2>1. \A q \in net' \ net : /\ q.srv = t /\ q.cli = m.cli /\ q.op \in {"OACK", "DATA"}
                              /\ q.op = "DATA" => q.n = k
    BY <1>3 DEF Handled, Current
  <2>2. PacketOrigin'
    BY <1>0, <1>2, <1>3, <2>1 DEF PacketOrigin, Talks, clientVars
  <2>3. ClientInSession' /\ AckedIsStored'
    BY <1>0, <1>3, <2>1 DEF ClientInSession, AckedIsStored, StoredUpTo, Talks, clientVars
  <2> QED
    BY <1>1, <2>2, <2>3
<1>4. CASE /\ k <= FileBlocks /\ m.n = SeqNo(k)
           /\ sess' = [sess EXCEPT ![t].cur = k + 1]
           /\ Handled(m, Current(t, m.cli, k + 1))
  <2>1. /\ \A u \in Tids \ {t} : sess'[u] = sess[u]
        /\ sess'[t].cli = m.cli /\ sess'[t].cur = k + 1 /\ sess'[t] # NoSession
    <3>1. sess' = [sess EXCEPT ![t] = [sess[t] EXCEPT !.cur = k + 1]]
      BY <1>4
    <3>2. [sess[t] EXCEPT !.cur = k + 1] = [cli |-> m.cli, cur |-> k + 1]
      BY <1>0, <1>2 DEF Session
    <3>3. k + 1 # -1
      BY <1>2
    <3> QED
      BY <1>0, <3>1, <3>2, <3>3 DEF TypeOK, NoSession
  <2>2. \A u, c : Talks(u, c)' <=> Talks(u, c)
    BY <1>0, <2>1 DEF Talks
  <2>3. \A q \in net' \ net : /\ q.srv = t /\ q.cli = m.cli /\ q.op = "DATA"
                              /\ q.n = k + 1
    BY <1>2, <1>4, ConstantsAssumption DEF Handled, Current
  <2>4. PacketOrigin'
    <3> SUFFICES ASSUME NEW q \in net'
                 PROVE  /\ q.cli \in used
                        /\ q.op \in {"DATA", "OACK", "ACK"} => Talks(q.srv, q.cli)
                        /\ q.op = "DATA" => q.n <= sess'[q.srv].cur
                        /\ q.op = "ACK" => q.n <= FileBlocks
      BY <1>0, <2>2 DEF PacketOrigin, clientVars
    <3>1. CASE q \in net
      <4>1. q \in Packet
        BY <3>1 DEF TypeOK
      <4>2. q.n \in Int
        BY <4>1, PacketFields
      <4>3. q.op = "DATA" => q.srv \in Tids /\ q.n <= sess[q.srv].cur
        BY <3>1 DEF PacketOrigin, Talks
      <4> QED
        BY <1>2, <2>1, <3>1, <4>2, <4>3, ConstantsAssumption DEF PacketOrigin
    <3>2. CASE q \notin net
      BY <1>0, <1>2, <2>1, <2>3, <3>2 DEF Talks
    <3> QED
      BY <3>1, <3>2
  <2>5. ClientInSession'
    BY <1>0, <2>1, <2>2 DEF ClientInSession, clientVars
  <2>6. AckedIsStored'
    <3>1. SeqNo(k) = k
      BY <1>2, <1>4, SeqNoIsBlock, ConstantsAssumption
    <3>2. ASSUME NetState = "continue", m.cli = TftpOurPort PROVE StoredUpTo(k)
      BY <1>0, <1>4, <3>1, <3>2 DEF AckedIsStored
    <3>3. (k + 1) - 1 = k
      BY <1>2
    <3>4. \A q \in net' : q.op = "ACK" => q \in net
      BY <2>3
    <3> QED
      BY <1>0, <2>1, <2>2, <3>2, <3>3, <3>4 DEF AckedIsStored, StoredUpTo, Talks, clientVars
  <2> QED
    BY <1>1, <2>4, <2>5, <2>6
<1> QED
  BY <1>3, <1>4 DEF ServerACK

LEMMA RetransmitStep ==
  ASSUME TypeOK, TransferInv, NEW t \in Tids, ServerRetransmit(t)
  PROVE  TransferInv'
<1> USE DEF TransferInv
<1>0. UNCHANGED clientVars /\ UNCHANGED sess /\ sess[t] # NoSession
  BY DEF ServerRetransmit
<1>1. RightPlace' /\ NumbersAreBlocks' /\ SizeIsRight' /\ BatchIsBehind'
  BY <1>0 DEF RightPlace, NumbersAreBlocks, SizeIsRight, BatchIsBehind, StoredUpTo, clientVars
<1>2. sess[t].cur \in Nat
  BY <1>0, ConstantsAssumption DEF TypeOK, Session
<1>3. \A q \in net' \ net : /\ q.srv = t /\ q.cli = sess[t].cli
                            /\ q.op \in {"OACK", "DATA"}
                            /\ q.op = "DATA" => q.n = sess[t].cur
  BY DEF ServerRetransmit, Current
<1>4. PacketOrigin'
  BY <1>0, <1>2, <1>3 DEF PacketOrigin, ClientInSession, Talks, clientVars
<1>5. ClientInSession' /\ AckedIsStored'
  BY <1>0, <1>3 DEF ClientInSession, AckedIsStored, StoredUpTo, Talks, clientVars
<1> QED
  BY <1>1, <1>4, <1>5

-----------------------------------------------------------------------------
LEMMA TransferInit == Init => TransferInv
<1> SUFFICES ASSUME Init PROVE TransferInv
  OBVIOUS
<1>1. 1 \in 1 .. FileBlocks /\ FileSize \in Nat
  BY PlaceInFile, ConstantsAssumption
<1>2. RightPlace /\ NumbersAreBlocks /\ SizeIsRight /\ BatchIsBehind
  BY <1>1, ConstantsAssumption
  DEF Init, RightPlace, NumbersAreBlocks, SizeIsRight, BatchIsBehind
<1>3. PacketOrigin /\ ClientInSession
  BY DEF Init, PacketOrigin, ClientInSession, Talks
<1>4. AckedIsStored
  BY DEF Init, AckedIsStored, StoredUpTo, Talks
<1> QED
  BY <1>2, <1>3, <1>4 DEF TransferInv

LEMMA TransferStep ==
  ASSUME NoWrap, TypeOK, TransferInv, [Next]_vars PROVE TransferInv'
<1>1. CASE Receive
  BY <1>1, ReceiveStep DEF Receive
<1>2. CASE TftpTimeout
  BY <1>2, TimeoutStep
<1>3. CASE EndOfIteration
  BY <1>3, RestartStep, ReturnStep DEF EndOfIteration
<1>4. CASE Server
  BY <1>4, ServerRRQStep, ServerACKStep DEF Server
<1>5. ASSUME NEW t \in Tids, ServerRetransmit(t) PROVE TransferInv'
  BY <1>5, RetransmitStep
<1>6. ASSUME NEW m \in net, Lose(m) PROVE TransferInv'
  BY <1>6, QuietStep DEF Lose
<1>7. CASE UNCHANGED vars
  BY <1>7, QuietStep DEF vars
<1> QED
  BY <1>1, <1>2, <1>3, <1>4, <1>5, <1>6, <1>7 DEF Next, Done

(* The inductive invariant holds of every download of a file that needs    *)
(* fewer blocks than there are sequence numbers.                           *)
THEOREM TftpTransfer == ASSUME NoWrap PROVE Spec => []TransferInv
<1>1. Init => TransferInv
  BY TransferInit
<1>2. TypeOK /\ TransferInv /\ [Next]_vars => TransferInv'
  BY TransferStep
<1> QED
  BY <1>1, <1>2, TftpType, PTL DEF Spec

(* Such a download writes every block at its place, and reports success    *)
(* only with the whole file in memory and its exact size in filesize, for  *)
(* every number of losses, duplicates, server sessions and restarts.       *)
THEOREM TftpComplete ==
  ASSUME NoWrap PROVE Spec => [](RightPlace /\ CompleteOnSuccess)
<1>1. TransferInv => RightPlace /\ CompleteOnSuccess
  BY DEF TransferInv, SizeIsRight, CompleteOnSuccess, StoredUpTo
<1> QED
  BY <1>1, TftpTransfer, PTL

(* Once a transfer has a server session it keeps it until the next attempt. *)
THEOREM TftpOneServer == Spec => OneServer
<1> DEFINE A == (TftpState # "RRQ" /\ TftpState' # "RRQ")
                  => TftpServerPort' = TftpServerPort
<1>1. [Next]_vars => [A]_vars
  <2> SUFFICES ASSUME Next PROVE A \/ UNCHANGED vars
    OBVIOUS
  <2>1. CASE Receive
    BY <2>1 DEF Receive, TftpHandler, HandleOACK, HandleFirstNotOne, HandleBlock,
                HandleSameBlock, HandleERROR, HandleStray, Accepts
  <2>2. CASE TftpTimeout
    BY <2>2 DEF TftpTimeout
  <2>3. CASE EndOfIteration
    BY <2>3 DEF EndOfIteration, NetLoopRestart, NetLoopReturn, TftpStart
  <2>4. CASE UNCHANGED clientVars
    BY <2>4 DEF clientVars
  <2> QED
    BY <2>1, <2>2, <2>3, <2>4
    DEF Next, Done, vars, Server, ServerRRQ, ServerACK, ServerRetransmit, Lose
<1> QED
  BY <1>1, PTL DEF Spec, OneServer

=============================================================================
