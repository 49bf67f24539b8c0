--------------------------- MODULE TftpLongProofs ---------------------------
(***************************************************************************)
(* Proofs about Tftp for files of any length up to the address space, so   *)
(* also for files whose block numbers wrap, over a network where packets   *)
(* are faster than the timeouts, none is duplicated and no acknowledgement *)
(* of a block whose number has wrapped to 0 is lost.  All but the last are *)
(* what a local network gives; without the last the statement is false, as *)
(* the run on Tftp_wrap shows.                                             *)
(*                                                                         *)
(* The argument: at most one packet of the attempt is in flight, so client *)
(* and server are in step.  There is a block j, the last one stored, such  *)
(* that the client's number and wrap offset are those of j, the server is  *)
(* at j or at j + 1, and the packet in flight is about j or j + 1.         *)
(***************************************************************************)
EXTENDS TftpProofs

USE DEF RRQ, ACK, OACK, DATA, ERROR

\* The network and the clocks these proofs are about.
OneAtATime == Patient /\ ~CanDuplicate /\ ~LosesWrapAck

-----------------------------------------------------------------------------
(* Block numbers and the wrap offset.                                      *)
LEMMA SmallMultiple ==
  ASSUME NEW S \in Nat \ {0}, NEW d \in Int, S * d < S, 0 - S < S * d
  PROVE  d = 0
<1>1. CASE d >= 1
  BY <1>1
<1>2. CASE d <= 0 - 1
  BY <1>2
<1> QED
  BY <1>1, <1>2

(* A remainder in range is the remainder.                                  *)
LEMMA ModUnique ==
  ASSUME NEW S \in Nat \ {0}, NEW q \in Int, NEW r \in 0 .. (S - 1)
  PROVE  (S * q + r) % S = r
<1>1. PICK k \in Int : k = S * q + r
  OBVIOUS
<1>2. PICK p \in Int : p = k \div S
  OBVIOUS
<1>3. PICK s \in 0 .. (S - 1) : s = k % S
  OBVIOUS
<1>4. k = S * p + s
  BY <1>2, <1>3
<1>5. PICK d \in Int : d = p - q
  OBVIOUS
<1>6. S * d = S * p - S * q
  BY <1>5
<1>7. S * d = r - s
  BY <1>1, <1>4, <1>6
<1>8. S * d < S /\ 0 - S < S * d
  BY <1>7
<1>9. d = 0
  BY <1>8, SmallMultiple
<1> QED
  BY <1>1, <1>3, <1>7, <1>9

(* The number after k's: the next one, or 0 after the last.                *)
LEMMA SeqNoNext ==
  ASSUME NEW k \in Nat
  PROVE  SeqNo(k + 1) = IF SeqNo(k) = SeqSize - 1 THEN 0 ELSE SeqNo(k) + 1
<1>1. PICK S \in Nat \ {0, 1} : S = SeqSize
  BY ConstantsAssumption
<1>2. PICK q \in Int : q = k \div S
  OBVIOUS
<1>3. PICK r \in 0 .. (S - 1) : r = k % S
  OBVIOUS
<1>4. k = S * q + r
  BY <1>2, <1>3
<1>5. CASE r = S - 1
  <2>1. k + 1 = S * (q + 1) + 0
    BY <1>4, <1>5
  <2>2. (S * (q + 1) + 0) % S = 0
    BY ModUnique
  <2> QED
    BY <1>1, <1>3, <1>5, <2>1, <2>2 DEF SeqNo
<1>6. CASE r # S - 1
  <2>1. k + 1 = S * q + (r + 1) /\ r + 1 \in 0 .. (S - 1)
    BY <1>4, <1>6
  <2>2. (S * q + (r + 1)) % S = r + 1
    BY <2>1, ModUnique
  <2> QED
    BY <1>1, <1>3, <1>6, <2>1, <2>2 DEF SeqNo
<1> QED
  BY <1>5, <1>6

LEMMA SeqNoSmall == SeqNo(0) = 0 /\ SeqNo(1) = 1
<1>1. PICK S \in Nat \ {0, 1} : S = SeqSize
  BY ConstantsAssumption
<1>2. (S * 0 + 0) % S = 0 /\ (S * 0 + 1) % S = 1
  BY ModUnique
<1> QED
  BY <1>1, <1>2 DEF SeqNo

LEMMA SeqNoDiffers ==
  ASSUME NEW k \in Nat PROVE SeqNo(k + 1) # SeqNo(k)
<1>1. PICK r \in 0 .. (SeqSize - 1) : r = SeqNo(k)
  BY SeqNoRange
<1>2. SeqNo(k + 1) = IF r = SeqSize - 1 THEN 0 ELSE r + 1
  BY <1>1, SeqNoNext
<1> QED
  BY <1>1, <1>2, ConstantsAssumption

\* The blocks before the sequence number of block k started again at 0.
Wrapped(k) == (k - SeqNo(k)) % MemBlocks

(* The number is no larger than the block, and the same only before the    *)
(* first wrap.                                                             *)
LEMMA SeqNoBelow == ASSUME NEW k \in Nat PROVE SeqNo(k) <= k
<1>1. PICK S \in Nat \ {0, 1} : S = SeqSize
  BY ConstantsAssumption
<1>2. PICK q \in Int : q = k \div S
  OBVIOUS
<1>3. PICK r \in 0 .. (S - 1) : r = k % S
  OBVIOUS
<1>4. k = S * q + r
  BY <1>2, <1>3
<1>5. q >= 0
  <2>1. CASE q <= 0 - 1
    <3>1. S * q <= 0 - S
      BY <2>1
    <3> QED
      BY <1>4, <3>1
  <2> QED
    BY <2>1
<1>6. S * q >= 0
  BY <1>5
<1>7. r <= k
  BY <1>4, <1>6
<1> QED
  BY <1>1, <1>3, <1>7 DEF SeqNo

LEMMA ModSame ==
  ASSUME NEW M \in Nat, NEW x \in 0 .. (M - 1) PROVE x % M = x
<1>1. (M * 0 + x) % M = x
  BY ModUnique
<1> QED
  BY <1>1

LEMMA ModEnds ==
  ASSUME NEW M \in Nat \ {0} PROVE M % M = 0 /\ (0 - 1) % M = M - 1
<1>1. (M * 1 + 0) % M = 0
  BY ModUnique
<1>2. (M * (0 - 1) + (M - 1)) % M = M - 1
  BY ModUnique
<1>3. M * 1 + 0 = M /\ M * (0 - 1) + (M - 1) = 0 - 1
  OBVIOUS
<1> QED
  BY <1>1, <1>2, <1>3

(* The wrap offset of a block of the file.                                 *)
LEMMA WrappedIs ==
  ASSUME NEW k \in 0 .. FileBlocks
  PROVE  /\ SeqNo(k) \in 0 .. (SeqSize - 1) /\ SeqNo(k) <= k
         /\ (k < MemBlocks \/ SeqNo(k) # 0) => Wrapped(k) = k - SeqNo(k)
         /\ (k = MemBlocks /\ SeqNo(k) = 0) => Wrapped(k) = 0
<1>0. k \in Nat /\ FileBlocks \in Nat /\ FileBlocks <= MemBlocks
  BY ConstantsAssumption
<1>1. PICK M \in Nat \ {0} : M = MemBlocks
  BY ConstantsAssumption
<1>2. PICK s \in 0 .. (SeqSize - 1) : s = SeqNo(k)
  BY <1>0, SeqNoRange
<1>3. s <= k
  BY <1>0, <1>2, SeqNoBelow
<1>4. Wrapped(k) = (k - s) % M
  BY <1>1, <1>2 DEF Wrapped
<1>5. ASSUME k < M \/ s # 0 PROVE (k - s) % M = k - s
  <2>1. k - s \in 0 .. (M - 1)
    BY <1>0, <1>1, <1>2, <1>3, <1>5, ConstantsAssumption
  <2> QED
    BY <2>1, ModSame
<1>6. ASSUME k = M, s = 0 PROVE (k - s) % M = 0
  <2>1. k - s = M
    BY <1>6
  <2> QED
    BY <2>1, ModEnds
<1> QED
  BY <1>1, <1>2, <1>3, <1>4, <1>5, <1>6

(* What WrapOffset computes when the block after j is looked at.           *)
LEMMA WrappedNext ==
  ASSUME NEW j \in Nat, j + 1 <= FileBlocks
  PROVE  Wrapped(j + 1) = IF SeqNo(j + 1) = 0 THEN (Wrapped(j) + SeqSize) % MemBlocks
                                              ELSE Wrapped(j)
<1>0. j \in 0 .. FileBlocks /\ j + 1 \in 0 .. FileBlocks /\ j < MemBlocks
  BY ConstantsAssumption
<1>1. PICK s \in 0 .. (SeqSize - 1) : s = SeqNo(j)
  BY SeqNoRange
<1>2. PICK u \in 0 .. (SeqSize - 1) : u = SeqNo(j + 1)
  BY SeqNoRange
<1>3. u = IF s = SeqSize - 1 THEN 0 ELSE s + 1
  BY <1>1, <1>2, SeqNoNext
<1>4. Wrapped(j) = j - s
  BY <1>0, <1>1, WrappedIs
<1>5. CASE u = 0
  <2>1. s = SeqSize - 1
    BY <1>3, <1>5
  <2>2. Wrapped(j) + SeqSize = j + 1
    BY <1>4, <2>1, ConstantsAssumption
  <2>3. Wrapped(j + 1) = (j + 1) % MemBlocks
    BY <1>2, <1>5 DEF Wrapped
  <2> QED
    BY <1>2, <1>5, <2>2, <2>3
<1>6. CASE u # 0
  <2>1. Wrapped(j + 1) = (j + 1) - u
    BY <1>0, <1>2, <1>6, WrappedIs
  <2>2. u = s + 1
    BY <1>3, <1>6
  <2> QED
    BY <1>2, <1>4, <1>6, <2>1, <2>2
<1> QED
  BY <1>5, <1>6

(* With its own number and wrap offset every block goes to its own place.  *)
LEMMA WrappedPlace ==
  ASSUME NEW k \in 1 .. FileBlocks
  PROVE  Offset(SeqNo(k), Wrapped(k)) = k - 1
<1>0. k \in 0 .. FileBlocks /\ k <= MemBlocks /\ k \in Nat
  BY ConstantsAssumption
<1>1. PICK s \in 0 .. (SeqSize - 1) : s = SeqNo(k)
  BY <1>0, SeqNoRange
<1>2. PICK M \in Nat \ {0} : M = MemBlocks
  BY ConstantsAssumption
<1>3. CASE k = M /\ s = 0
  <2>1. Wrapped(k) = 0
    BY <1>0, <1>1, <1>2, <1>3, WrappedIs
  <2>2. Offset(SeqNo(k), Wrapped(k)) = (0 - 1) % M
    BY <1>1, <1>2, <1>3, <2>1 DEF Offset
  <2> QED
    BY <1>3, <2>2, ModEnds
<1>4. CASE ~(k = M /\ s = 0)
  <2>1. Wrapped(k) = k - s
    BY <1>0, <1>1, <1>2, <1>4, WrappedIs
  <2>2. s - 1 + Wrapped(k) = k - 1
    BY <2>1
  <2>3. Offset(SeqNo(k), Wrapped(k)) = (k - 1) % M
    BY <1>1, <1>2, <2>2 DEF Offset
  <2>4. k - 1 \in 0 .. (M - 1)
    BY <1>0, <1>2
  <2> QED
    BY <2>3, <2>4, ModSame
<1> QED
  BY <1>3, <1>4

LEMMA WrappedFirst == Wrapped(1) = 0
<1>1. (1 - SeqNo(1)) = 0
  BY SeqNoSmall
<1>2. 0 % MemBlocks = 0
  BY ModSame, ConstantsAssumption
<1> QED
  BY <1>1, <1>2 DEF Wrapped

-----------------------------------------------------------------------------
(* The inductive invariant.                                                *)

\* A packet of this attempt.
Ours(m) == m.cli = TftpOurPort

\* Packets and sessions name client ports in use, and the part of a session
\* they are.
PortsKnown ==
  /\ TftpOurPort \in used
  /\ \A m \in net : m.cli \in used
  /\ \A t \in Tids : sess[t] # NoSession => sess[t].cli \in used
  /\ \A m \in net : m.op \in {"DATA", "OACK", "ACK"} => Talks(m.srv, m.cli)

\* At most one packet of this attempt is in flight.
Alone == \A m, n \in net : Ours(m) /\ Ours(n) => m = n

\* The block the server's session with the client is at.
Cur == sess[TftpServerPort].cur

\* The client has stored the blocks up to j and its counters say so.
ClientAt(j) ==
  /\ StoredUpTo(j)
  /\ j = 0 <=> TftpState # "DATA"
  /\ TftpBlock = SeqNo(j)
  /\ TftpState = "DATA" => TftpLastBlock = SeqNo(j) /\ TftpBlockWrapOffset = Wrapped(j)

\* The server sends block j or the one after it.  It sends a block numbered
\* 0 again only while that block has not been stored: once it is, the
\* acknowledgement is under way.
ServerAt(j) ==
  /\ TftpState # "RRQ" => Talks(TftpServerPort, TftpOurPort) /\ Cur \in {j, j + 1}
  /\ TftpState = "RRQ" => \A t \in Tids : Talks(t, TftpOurPort) => sess[t].cur \in {0, 1}
  /\ (TftpState = "DATA" /\ Cur = j /\ SeqNo(j) = 0)
       => ACK(TftpServerPort, TftpOurPort, 0) \in net

\* The packet in flight is about the block its sender is at.
PacketsAt(j) ==
  \A m \in net : Ours(m) =>
    /\ m.op = "ACK" => TftpState # "RRQ" /\ m.srv = TftpServerPort /\ m.n = SeqNo(j)
    /\ m.op = "DATA" => m.n = sess[m.srv].cur
    /\ m.op = "OACK" => sess[m.srv].cur = 0

InStep(j) == ClientAt(j) /\ ServerAt(j) /\ PacketsAt(j)

LongInv ==
  /\ RightPlace /\ SizeIsRight /\ PortsKnown /\ Alone
  /\ \E j \in 0 .. FileBlocks : InStep(j)

-----------------------------------------------------------------------------
LEMMA LongIs ==
  ASSUME NEW j \in 0 .. FileBlocks, InStep(j)', RightPlace', SizeIsRight',
         PortsKnown', Alone'
  PROVE  LongInv'
  BY DEF LongInv

(* One packet is taken from the network and at most one of the same        *)
(* attempt put there: still at most one is in flight, and when the packet  *)
(* was of this attempt it is the new one.                                  *)
LEMMA AloneStep ==
  ASSUME Alone, UNCHANGED TftpOurPort, NEW m \in net, NEW out,
         net' \subseteq (net \ {m}) \cup out,
         \A q \in out : q.cli = m.cli, \A q, r \in out : q = r
  PROVE  /\ Alone'
         /\ Ours(m) => \A p \in net' : Ours(p)' => p \in out
         /\ ~Ours(m) => \A p \in net' : Ours(p)' => p \in net
<1>1. Ours(m) => \A p \in net' : Ours(p)' => p \in out
  BY DEF Alone, Ours
<1>2. ~Ours(m) => \A p \in net' : Ours(p)' => p \in net
  BY DEF Ours
<1>3. Alone'
  BY <1>1, <1>2 DEF Alone, Ours
<1> QED
  BY <1>1, <1>2, <1>3

(* Packets are only taken from the network.                                *)
LEMMA FewerPackets ==
  ASSUME LongInv, NEW j \in Nat, PacketsAt(j), net' \subseteq net,
         UNCHANGED <<TftpOurPort, TftpServerPort, TftpState, used, sess>>
  PROVE  PortsKnown' /\ Alone' /\ PacketsAt(j)'
<1>1. PortsKnown'
  BY DEF LongInv, PortsKnown, Talks
<1>2. Alone'
  BY DEF LongInv, Alone, Ours
<1>3. PacketsAt(j)'
  BY DEF PacketsAt, Ours
<1> QED
  BY <1>1, <1>2, <1>3

(* The block handed over is the one after the last one stored, or that     *)
(* block again.                                                            *)
LEMMA BlockInStep ==
  ASSUME TypeOK, LongInv, NEW j \in 0 .. FileBlocks, InStep(j),
         NEW m \in net, m.op = "DATA", Accepts(m)
  PROVE  /\ Talks(m.srv, TftpOurPort) /\ m.n = sess[m.srv].cur
         /\ m.n \in 1 .. FileBlocks
         /\ TftpState = "DATA" => m.n \in {j, j + 1} /\ m.srv = TftpServerPort
         /\ TftpState # "DATA" => m.n = 1 /\ j = 0
<1>1. Ours(m) /\ Talks(m.srv, TftpOurPort)
  BY DEF LongInv, PortsKnown, Accepts, Ours
<1>2. m.n = sess[m.srv].cur
  BY <1>1 DEF InStep, PacketsAt
<1>3. m.n \in 1 .. FileBlocks
  BY PacketFields DEF TypeOK
<1>4. TftpState = "DATA" => m.n \in {j, j + 1} /\ m.srv = TftpServerPort
  BY <1>2 DEF InStep, ServerAt, Cur, Accepts
<1>5. TftpState # "DATA" => j = 0
  BY DEF InStep, ClientAt
<1>6. CASE TftpState = "RRQ"
  <2>1. m.n \in {0, 1}
    BY <1>1, <1>2, <1>6 DEF InStep, ServerAt, Talks
  <2> QED
    BY <1>1, <1>2, <1>3, <1>5, <1>6, <2>1
<1>7. CASE TftpState = "OACK"
  <2>1. m.n \in {j, j + 1}
    BY <1>2, <1>7 DEF InStep, ServerAt, Cur, Accepts
  <2> QED
    BY <1>1, <1>2, <1>3, <1>5, <1>7, <2>1
<1> QED
  BY <1>1, <1>2, <1>3, <1>4, <1>6, <1>7 DEF TypeOK

LEMMA LongOACK ==
  ASSUME OneAtATime, TypeOK, LongInv, NEW j \in 0 .. FileBlocks, InStep(j),
         NEW m \in net, TftpHandler(m), HandleOACK(m)
  PROVE  LongInv'
<1>0. /\ UNCHANGED <<result, TftpOurPort, used, sess, mem, NetState,
                     NetBootFileXferSize, TftpBlock, TftpLastBlock,
                     TftpBlockWrapOffset>>
      /\ TftpState' = "OACK" /\ TftpServerPort' = m.srv
  BY DEF TftpHandler, HandleOACK
<1>1. Ours(m) /\ Talks(m.srv, TftpOurPort) /\ sess[m.srv].cur = 0
  BY DEF HandleOACK, Accepts, Ours, LongInv, PortsKnown, InStep, PacketsAt
<1>2. j = 0
  <2>1. TftpState # "DATA"
    <3>1. TftpState = "DATA" => sess[m.srv].cur \in {j, j + 1}
      BY DEF HandleOACK, Accepts, InStep, ServerAt, Cur
    <3>2. TftpState = "DATA" => j # 0
      BY DEF InStep, ClientAt
    <3> QED
      BY <1>1, <3>1, <3>2
  <2> QED
    BY <2>1 DEF InStep, ClientAt
<1>3. TftpBlock = 0
  BY <1>2, SeqNoSmall DEF InStep, ClientAt
<1> DEFINE out == {ACK(m.srv, TftpOurPort, 0)}
<1>4. net' = (net \ {m}) \cup out
  BY <1>3 DEF HandleOACK, Handled, TftpSend, OneAtATime
<1>5. Alone' /\ \A p \in net' : Ours(p)' => p \in out
  <2>1. Alone /\ UNCHANGED TftpOurPort
    BY <1>0 DEF LongInv
  <2>2. (\A q \in out : q.cli = m.cli) /\ (\A q, r \in out : q = r)
    BY <1>1 DEF Ours
  <2>3. net' \subseteq (net \ {m}) \cup out
    BY <1>4
  <2> HIDE DEF out
  <2> QED
    BY <1>1, <2>1, <2>2, <2>3, AloneStep, Zenon
<1>6. PortsKnown'
  BY <1>0, <1>1, <1>4 DEF LongInv, PortsKnown, Talks
<1>7. InStep(j)'
  <2>1. ClientAt(j)'
    BY <1>0, <1>2 DEF InStep, ClientAt, StoredUpTo
  <2>2. ServerAt(j)'
    BY <1>0, <1>1, <1>2 DEF ServerAt, Cur, Talks
  <2>3. PacketsAt(j)'
    BY <1>0, <1>2, <1>5, SeqNoSmall DEF PacketsAt
  <2> QED
    BY <2>1, <2>2, <2>3 DEF InStep
<1>8. RightPlace' /\ SizeIsRight'
  BY <1>0 DEF LongInv, RightPlace, SizeIsRight, StoredUpTo, FileSize
<1> QED
  BY <1>5, <1>6, <1>7, <1>8, LongIs, Zenon

(* The first block of an attempt that the handler sees is block 1.         *)
LEMMA LongFirstIsOne ==
  ASSUME TypeOK, LongInv, NEW j \in 0 .. FileBlocks, InStep(j), NEW m \in net
  PROVE  ~HandleFirstNotOne(m)
<1> SUFFICES ASSUME HandleFirstNotOne(m) PROVE FALSE
  OBVIOUS
<1>1. m.n = 1
  BY BlockInStep DEF HandleFirstNotOne
<1> QED
  BY <1>1, SeqNoSmall DEF HandleFirstNotOne

(* A block seen again is j, and its number is not 0, so the wrap offset    *)
(* stays.                                                                  *)
LEMMA LongSameBlock ==
  ASSUME OneAtATime, TypeOK, LongInv, NEW j \in 0 .. FileBlocks, InStep(j),
         NEW m \in net, TftpHandler(m), HandleSameBlock(m)
  PROVE  LongInv'
<1>0. /\ UNCHANGED <<result, TftpOurPort, TftpServerPort, TftpState, used, sess,
                     mem, NetState, NetBootFileXferSize, TftpLastBlock>>
      /\ TftpState = "DATA"
  BY DEF TftpHandler, HandleSameBlock
<1>1. Ours(m) /\ m.n \in {j, j + 1} /\ m.srv = TftpServerPort /\ m.n = Cur
  BY <1>0, BlockInStep DEF HandleSameBlock, Accepts, Ours, Cur
<1>2. SeqNo(m.n) = SeqNo(j)
  BY <1>0 DEF HandleSameBlock, LastBlock, InStep, ClientAt
<1>3. m.n = j /\ Cur = j
  <2>1. j \in Nat
    BY ConstantsAssumption
  <2>2. SeqNo(j + 1) # SeqNo(j)
    BY <2>1, SeqNoDiffers
  <2> QED
    BY <1>1, <1>2, <2>2
<1>4. SeqNo(j) # 0
  <2> SUFFICES ASSUME SeqNo(j) = 0 PROVE FALSE
    OBVIOUS
  <2>1. ACK(TftpServerPort, TftpOurPort, 0) \in net
    BY <1>0, <1>3 DEF InStep, ServerAt
  <2>2. m = ACK(TftpServerPort, TftpOurPort, 0)
    BY <1>1, <2>1 DEF LongInv, Alone, Ours
  <2> QED
    BY <2>2 DEF HandleSameBlock
<1>5. TftpBlock' = TftpBlock /\ TftpBlockWrapOffset' = TftpBlockWrapOffset
  BY <1>0, <1>2, <1>4 DEF HandleSameBlock, WrapOffset, InStep, ClientAt
<1>6. net' \subseteq net
  BY DEF HandleSameBlock, Handled
<1>7. PortsKnown' /\ Alone' /\ PacketsAt(j)'
  BY <1>0, <1>6, FewerPackets DEF InStep
<1>8. ClientAt(j)' /\ ServerAt(j)'
  <2>1. ClientAt(j)'
    BY <1>0, <1>5 DEF InStep, ClientAt, StoredUpTo
  <2>2. ServerAt(j)'
    BY <1>0, <1>4 DEF InStep, ServerAt, Cur, Talks
  <2> QED
    BY <2>1, <2>2
<1>9. RightPlace' /\ SizeIsRight'
  BY <1>0 DEF LongInv, RightPlace, SizeIsRight, StoredUpTo, FileSize
<1>10. InStep(j)'
  BY <1>7, <1>8 DEF InStep
<1> QED
  BY <1>7, <1>9, <1>10, LongIs, Zenon

(* The size grows to the end of the block stored, which is the size of the *)
(* file when the block is the last one.                                    *)
LEMMA SizeStep ==
  ASSUME TypeOK, SizeIsRight, NEW b \in 1 .. FileBlocks,
         result' = result, result = "none",
         NetBootFileXferSize' = IF NetBootFileXferSize < (b - 1) * BlockSize + Len(b)
                                THEN (b - 1) * BlockSize + Len(b)
                                ELSE NetBootFileXferSize,
         IF IsLast(b) THEN NetState' = "success" ELSE UNCHANGED NetState,
         StoredUpTo(FileBlocks) => StoredUpTo(FileBlocks)',
         StoredUpTo(b)'
  PROVE  SizeIsRight'
<1> DEFINE newsize == (b - 1) * BlockSize + Len(b)
<1>1. /\ newsize \in Nat /\ newsize <= FileSize /\ FileSize \in Nat
      /\ IsLast(b) <=> b = FileBlocks
      /\ b = FileBlocks => newsize = FileSize
  BY PlaceInFile
<1>2. NetBootFileXferSize' = IF NetBootFileXferSize < newsize
                             THEN newsize ELSE NetBootFileXferSize
  OBVIOUS
<1>3. NetBootFileXferSize \in Nat /\ NetBootFileXferSize <= FileSize
  BY DEF TypeOK, SizeIsRight
<1> HIDE DEF newsize
<1>4. NetBootFileXferSize' <= FileSize
  BY <1>1, <1>2, <1>3
<1>5. ASSUME "success" \in {NetState, result}'
      PROVE  StoredUpTo(FileBlocks)' /\ NetBootFileXferSize' = FileSize
  <2>1. CASE IsLast(b)
    <3>1. b = FileBlocks
      BY <1>1, <2>1
    <3> QED
      BY <1>1, <1>2, <1>3, <3>1 DEF StoredUpTo
  <2>2. CASE ~IsLast(b)
    <3>1. NetState = "success"
      BY <1>5, <2>2
    <3>2. StoredUpTo(FileBlocks) /\ NetBootFileXferSize = FileSize
      BY <3>1 DEF SizeIsRight
    <3> QED
      BY <1>1, <1>2, <3>2
  <2> QED
    BY <2>1, <2>2
<1>6. FileSize' = FileSize
  BY DEF FileSize
<1> QED
  BY <1>4, <1>5, <1>6 DEF SizeIsRight

(* The one step that writes memory: the block is j + 1, its place is that  *)
(* of block j + 1, and the client moves on to it.                          *)
LEMMA LongBlockIsNext ==
  ASSUME TypeOK, LongInv, NEW j \in 0 .. FileBlocks, InStep(j),
         NEW m \in net, HandleBlock(m)
  PROVE  /\ j + 1 \in 1 .. FileBlocks /\ m.n = j + 1
         /\ Talks(m.srv, TftpOurPort) /\ sess[m.srv].cur = j + 1
         /\ WrapOffset(SeqNo(j + 1)) = Wrapped(j + 1)
<1>0. j \in Nat /\ m.n \in 1 .. FileBlocks
  BY BlockInStep, ConstantsAssumption DEF HandleBlock
<1>1. m.n = j + 1
  <2>1. CASE TftpState = "DATA"
    <3>1. m.n \in {j, j + 1}
      BY <2>1, BlockInStep DEF HandleBlock
    <3>2. SeqNo(m.n) # SeqNo(j)
      BY <2>1 DEF HandleBlock, LastBlock, InStep, ClientAt
    <3> QED
      BY <3>1, <3>2
  <2>2. CASE TftpState # "DATA"
    BY <2>2, BlockInStep DEF HandleBlock
  <2> QED
    BY <2>1, <2>2
<1>2. Talks(m.srv, TftpOurPort) /\ sess[m.srv].cur = j + 1
  BY <1>1, BlockInStep DEF HandleBlock
<1>3. j + 1 <= FileBlocks /\ j + 1 \in 1 .. FileBlocks
  BY <1>0, <1>1, ConstantsAssumption
<1>4. CASE TftpState = "DATA"
  <2>1. TftpBlockWrapOffset = Wrapped(j)
    BY <1>4 DEF InStep, ClientAt
  <2>2. WrapOffset(SeqNo(j + 1)) = IF SeqNo(j + 1) = 0
                                   THEN (Wrapped(j) + SeqSize) % MemBlocks
                                   ELSE Wrapped(j)
    BY <1>4, <2>1 DEF WrapOffset
  <2>3. WrapOffset(SeqNo(j + 1)) = Wrapped(j + 1)
    BY <1>0, <1>3, <2>2, WrappedNext
  <2> QED
    BY <1>1, <1>2, <1>3, <2>3
<1>5. CASE TftpState # "DATA"
  <2>1. j = 0
    BY <1>5 DEF InStep, ClientAt
  <2>2. WrapOffset(SeqNo(j + 1)) = 0
    BY <1>5 DEF WrapOffset, TypeOK
  <2>3. Wrapped(j + 1) = 0
    BY <2>1, WrappedFirst
  <2> QED
    BY <1>1, <1>2, <1>3, <2>2, <2>3
<1> QED
  BY <1>4, <1>5

LEMMA LongBlock ==
  ASSUME OneAtATime, TypeOK, LongInv, NEW j \in 0 .. FileBlocks, InStep(j),
         NEW m \in net, TftpHandler(m), HandleBlock(m)
  PROVE  LongInv'
<1>0. UNCHANGED <<result, TftpOurPort, used, sess>> /\ result = "none"
  BY DEF TftpHandler
<1>1. PICK b \in 1 .. FileBlocks : b = j + 1
  BY LongBlockIsNext
<1>2. /\ m.n = b /\ Talks(m.srv, TftpOurPort) /\ sess[m.srv].cur = b
      /\ WrapOffset(SeqNo(b)) = Wrapped(b)
  BY <1>1, LongBlockIsNext
<1>3. PICK s : s = SeqNo(b)
  OBVIOUS
<1>4. PICK w : w = Wrapped(b)
  OBVIOUS
<1>5. Offset(s, w) = b - 1
  BY <1>3, <1>4, WrappedPlace
<1>6. /\ TftpState' = "DATA" /\ TftpServerPort' = m.srv
      /\ TftpBlock' = s /\ TftpLastBlock' = s /\ TftpBlockWrapOffset' = w
      /\ StoreBlock(s, w, b)
      /\ Handled(m, {ACK(m.srv, TftpOurPort, s)})
      /\ IF IsLast(b) THEN NetState' = "success" ELSE UNCHANGED NetState
      /\ Ours(m)
  BY <1>2, <1>3, <1>4 DEF HandleBlock, SetNetState, TftpSend, Accepts, Ours
<1>7. mem' = [mem EXCEPT ![b - 1] = b]
  BY <1>5, <1>6 DEF StoreBlock
<1>8. /\ RightPlace' /\ mem'[b - 1] = b
      /\ \A k \in Int : k <= FileBlocks /\ StoredUpTo(k) => StoredUpTo(k)'
  BY <1>7, StoreKeeps DEF LongInv
<1>9. StoredUpTo(b)'
  <2>1. StoredUpTo(j)
    BY DEF InStep, ClientAt
  <2>2. StoredUpTo(j)'
    BY <1>8, <2>1, ConstantsAssumption
  <2> QED
    BY <1>1, <1>8, <2>2 DEF StoredUpTo
<1>10. SizeIsRight'
  <2>1. SizeIsRight /\ (StoredUpTo(FileBlocks) => StoredUpTo(FileBlocks)')
    BY <1>8, ConstantsAssumption DEF LongInv
  <2>2. NetBootFileXferSize' = IF NetBootFileXferSize < (b - 1) * BlockSize + Len(b)
                               THEN (b - 1) * BlockSize + Len(b)
                               ELSE NetBootFileXferSize
    BY <1>5, <1>6 DEF StoreBlock
  <2>3. IF IsLast(b) THEN NetState' = "success" ELSE UNCHANGED NetState
    BY <1>6
  <2> QED
    BY <1>0, <1>9, <2>1, <2>2, <2>3, SizeStep
<1> DEFINE out == {ACK(m.srv, TftpOurPort, s)}
<1>11. net' = (net \ {m}) \cup out
  BY <1>6 DEF Handled, OneAtATime
<1>12. Alone' /\ \A p \in net' : Ours(p)' => p \in out
  <2>1. Alone /\ UNCHANGED TftpOurPort
    BY <1>0 DEF LongInv
  <2>2. (\A q \in out : q.cli = m.cli) /\ (\A q, r \in out : q = r)
    BY <1>6 DEF Ours
  <2>3. net' \subseteq (net \ {m}) \cup out
    BY <1>11
  <2> HIDE DEF out
  <2> QED
    BY <1>6, <2>1, <2>2, <2>3, AloneStep, Zenon
<1>13. PortsKnown'
  BY <1>0, <1>2, <1>11 DEF LongInv, PortsKnown, Talks
<1>14. InStep(b)'
  <2>1. ClientAt(b)'
    BY <1>3, <1>4, <1>6, <1>9 DEF ClientAt
  <2>2. ServerAt(b)'
    <3>1. Talks(m.srv, TftpOurPort)' /\ Cur' = b
      BY <1>0, <1>2, <1>6 DEF Talks, Cur
    <3>2. SeqNo(b) = 0 => ACK(m.srv, TftpOurPort, 0) \in net'
      BY <1>3, <1>11
    <3> QED
      BY <1>0, <1>6, <3>1, <3>2 DEF ServerAt, Talks
  <2>3. PacketsAt(b)'
    BY <1>3, <1>6, <1>12 DEF PacketsAt
  <2> QED
    BY <2>1, <2>2, <2>3 DEF InStep
<1>15. b \in 0 .. FileBlocks
  BY ConstantsAssumption
<1> QED
  BY <1>8, <1>10, <1>12, <1>13, <1>14, <1>15, LongIs, Zenon

(* A packet that is neither stored nor answered, or is lost.               *)
LEMMA LongDrop ==
  ASSUME OneAtATime, TypeOK, LongInv, NEW j \in 0 .. FileBlocks, InStep(j),
         NEW m \in net, net' = net \ {m},
         m.op = "ACK" /\ m.n = 0 => TftpState # "DATA",
         UNCHANGED <<result, TftpOurPort, TftpServerPort, TftpState, used, sess,
                     mem, NetBootFileXferSize, TftpBlock, TftpLastBlock,
                     TftpBlockWrapOffset>>,
         NetState' = "success" => NetState = "success"
  PROVE  LongInv'
<1>1. PortsKnown' /\ Alone' /\ PacketsAt(j)'
  BY FewerPackets, ConstantsAssumption DEF InStep
<1>2. ClientAt(j)'
  BY DEF InStep, ClientAt, StoredUpTo
<1>3. ServerAt(j)'
  BY DEF InStep, ServerAt, Cur, Talks
<1>4. RightPlace' /\ SizeIsRight'
  BY DEF LongInv, RightPlace, SizeIsRight, StoredUpTo, FileSize
<1>5. InStep(j)'
  BY <1>1, <1>2, <1>3 DEF InStep
<1> QED
  BY <1>1, <1>4, <1>5, LongIs, Zenon

LEMMA LongReceive ==
  ASSUME OneAtATime, TypeOK, LongInv, NEW j \in 0 .. FileBlocks, InStep(j),
         NEW m \in net, TftpHandler(m)
  PROVE  LongInv'
<1>1. CASE HandleERROR(m)
  BY <1>1, LongDrop
  DEF TftpHandler, HandleERROR, Handled, OneAtATime, NetStartAgain, SetNetState
<1>2. CASE HandleStray(m)
  BY <1>2, LongDrop DEF TftpHandler, HandleStray, Handled, OneAtATime, ToClient
<1> QED
  BY <1>1, <1>2, LongOACK, LongFirstIsOne, LongSameBlock, LongBlock DEF TftpHandler

-----------------------------------------------------------------------------
(* Nothing is in flight when a timeout runs out, so the packet it sends is *)
(* the only one.                                                           *)
LEMMA LongTimeout ==
  ASSUME OneAtATime, TypeOK, LongInv, NEW j \in 0 .. FileBlocks, InStep(j),
         TftpTimeout
  PROVE  LongInv'
<1>0. /\ UNCHANGED <<result, TftpOurPort, TftpServerPort, TftpState, used, sess,
                     mem, TftpBlock, TftpLastBlock, TftpBlockWrapOffset,
                     NetBootFileXferSize>>
      /\ result = "none" /\ NetState' # "success" /\ net = {}
  BY DEF TftpTimeout, TimeoutResend, TimeoutGiveUp, Expired, OneAtATime
<1>1. \A q \in net' : /\ q.cli = TftpOurPort
                      /\ TftpState = "RRQ" => q = RRQ(TftpOurPort)
                      /\ TftpState # "RRQ" => q = ACK(TftpServerPort, TftpOurPort, TftpBlock)
  BY <1>0 DEF TftpTimeout, TimeoutResend, TimeoutGiveUp, TftpSend
<1>2. TftpState # "RRQ" => Talks(TftpServerPort, TftpOurPort)
  BY DEF InStep, ServerAt
<1>3. PortsKnown'
  BY <1>0, <1>1, <1>2 DEF LongInv, PortsKnown, Talks
<1>4. Alone'
  BY <1>0, <1>1 DEF Alone
<1>5. ClientAt(j)'
  BY <1>0 DEF InStep, ClientAt, StoredUpTo
<1>6. ServerAt(j)'
  BY <1>0 DEF InStep, ServerAt, Cur, Talks
<1>7. PacketsAt(j)'
  <2>1. TftpBlock = SeqNo(j)
    BY DEF InStep, ClientAt
  <2> QED
    BY <1>0, <1>1, <2>1 DEF PacketsAt
<1>8. RightPlace' /\ SizeIsRight'
  BY <1>0 DEF LongInv, RightPlace, SizeIsRight, StoredUpTo, FileSize
<1>9. InStep(j)'
  BY <1>5, <1>6, <1>7 DEF InStep
<1> QED
  BY <1>3, <1>4, <1>8, <1>9, LongIs, Zenon

(* A new attempt has a port no packet and no session knows.                *)
LEMMA LongRestart ==
  ASSUME OneAtATime, TypeOK, LongInv, NetLoopRestart
  PROVE  LongInv'
<1> PICK p \in Ports \ used : TftpStart(p)
  BY DEF NetLoopRestart
<1>0. /\ UNCHANGED <<result, sess, mem>>
      /\ result = "none" /\ NetState' = "continue"
      /\ TftpOurPort' = p /\ used' = used \cup {p} /\ TftpState' = "RRQ"
      /\ TftpBlock' = 0 /\ NetBootFileXferSize' = 0
  BY DEF NetLoopRestart, TftpStart
<1>1. net' = net \cup {RRQ(p)}
  BY DEF TftpStart, TftpSend
<1>2. \A q \in net' : q.cli = p => q = RRQ(p)
  BY <1>1 DEF LongInv, PortsKnown
<1>3. \A t \in Tids : ~Talks(t, p)
  BY DEF LongInv, PortsKnown, Talks
<1>4. PortsKnown'
  BY <1>0, <1>1 DEF LongInv, PortsKnown, Talks
<1>5. Alone'
  BY <1>0, <1>2 DEF Alone, Ours
<1>6. PICK j \in 0 .. FileBlocks : j = 0
  BY ConstantsAssumption
<1>7. ClientAt(j)'
  BY <1>0, <1>6, SeqNoSmall DEF ClientAt, StoredUpTo
<1>8. ServerAt(j)'
  BY <1>0, <1>3 DEF ServerAt, Talks
<1>9. PacketsAt(j)'
  BY <1>0, <1>2 DEF PacketsAt, Ours
<1>10. RightPlace'
  BY <1>0 DEF LongInv, RightPlace
<1>11. SizeIsRight'
  <2>1. 1 \in 1 .. FileBlocks /\ FileSize \in Nat /\ FileSize' = FileSize
    BY PlaceInFile, ConstantsAssumption DEF FileSize
  <2> QED
    BY <1>0, <2>1 DEF SizeIsRight
<1>12. InStep(j)'
  BY <1>7, <1>8, <1>9 DEF InStep
<1> QED
  BY <1>4, <1>5, <1>10, <1>11, <1>12, LongIs, Zenon

LEMMA LongReturn ==
  ASSUME LongInv, NEW j \in 0 .. FileBlocks, InStep(j), NetLoopReturn
  PROVE  LongInv'
<1>0. /\ UNCHANGED <<TftpOurPort, TftpServerPort, TftpState, used, sess, mem,
                     NetState, net, TftpBlock, TftpLastBlock,
                     TftpBlockWrapOffset, NetBootFileXferSize>>
      /\ result' = "success" => NetState = "success"
  BY DEF NetLoopReturn
<1>1. PortsKnown' /\ Alone' /\ PacketsAt(j)'
  BY <1>0, FewerPackets, ConstantsAssumption DEF InStep
<1>2. ClientAt(j)'
  BY <1>0 DEF InStep, ClientAt, StoredUpTo
<1>3. ServerAt(j)'
  BY <1>0 DEF InStep, ServerAt, Cur, Talks
<1>4. RightPlace' /\ SizeIsRight'
  BY <1>0 DEF LongInv, RightPlace, SizeIsRight, StoredUpTo, FileSize
<1>5. InStep(j)'
  BY <1>1, <1>2, <1>3 DEF InStep
<1> QED
  BY <1>1, <1>4, <1>5, LongIs, Zenon

-----------------------------------------------------------------------------
(* What a step of the server leaves alone.                                 *)
LEMMA ClientStays ==
  ASSUME LongInv, NEW j \in 0 .. FileBlocks, InStep(j), UNCHANGED clientVars
  PROVE  /\ RightPlace' /\ SizeIsRight' /\ ClientAt(j)'
         /\ UNCHANGED <<TftpOurPort, TftpServerPort, TftpState, used>>
<1>1. RightPlace' /\ SizeIsRight'
  BY DEF LongInv, RightPlace, SizeIsRight, StoredUpTo, FileSize, clientVars
<1>2. ClientAt(j)'
  BY DEF InStep, ClientAt, StoredUpTo, clientVars
<1> QED
  BY <1>1, <1>2 DEF clientVars

(* What a request is answered with: one packet about the session's block.  *)
LEMMA CurrentIs ==
  ASSUME NEW t, NEW c, NEW k \in Nat
  PROVE  /\ \A q \in Current(t, c, k) :
              /\ q.cli = c /\ q.srv = t /\ q.op \in {"OACK", "DATA"}
              /\ q.op = "DATA" => q.n = k
              /\ q.op = "OACK" => k = 0
         /\ \A q, r \in Current(t, c, k) : q = r
  BY DEF Current

LEMMA LongRetransmit ==
  ASSUME OneAtATime, TypeOK, LongInv, NEW j \in 0 .. FileBlocks, InStep(j),
         NEW t \in Tids, ServerRetransmit(t)
  PROVE  LongInv'
<1>0. UNCHANGED clientVars /\ UNCHANGED sess /\ sess[t] # NoSession /\ net = {}
  BY DEF ServerRetransmit, OneAtATime
<1>1. /\ RightPlace' /\ SizeIsRight' /\ ClientAt(j)'
      /\ UNCHANGED <<TftpOurPort, TftpServerPort, TftpState, used>>
  BY <1>0, ClientStays
<1>2. sess[t].cur \in Nat
  BY <1>0, ConstantsAssumption DEF TypeOK, Session
<1>3. /\ \A q \in net' : /\ q.cli = sess[t].cli /\ q.srv = t
                         /\ q.op \in {"OACK", "DATA"}
                         /\ q.op = "DATA" => q.n = sess[t].cur
                         /\ q.op = "OACK" => sess[t].cur = 0
      /\ \A q, r \in net' : q = r
  <2>1. net' = Current(t, sess[t].cli, sess[t].cur)
    BY <1>0 DEF ServerRetransmit
  <2> QED
    BY <1>2, <2>1, CurrentIs
<1>4. PortsKnown'
  BY <1>0, <1>1, <1>3 DEF LongInv, PortsKnown, Talks
<1>5. Alone'
  BY <1>3 DEF Alone
<1>6. ServerAt(j)'
  BY <1>0, <1>1 DEF InStep, ServerAt, Cur, Talks
<1>7. PacketsAt(j)'
  BY <1>0, <1>1, <1>3 DEF PacketsAt
<1>8. InStep(j)'
  BY <1>1, <1>6, <1>7 DEF InStep
<1> QED
  BY <1>1, <1>4, <1>5, <1>8, LongIs, Zenon

(* A request opens a session behind a port that had none.                  *)
LEMMA LongServerRRQ ==
  ASSUME OneAtATime, TypeOK, LongInv, NEW j \in 0 .. FileBlocks, InStep(j),
         NEW m \in net, ServerRRQ(m)
  PROVE  LongInv'
<1>0. UNCHANGED clientVars /\ m.cli \in used /\ m.op = "RRQ"
  BY DEF ServerRRQ, LongInv, PortsKnown
<1>1. /\ RightPlace' /\ SizeIsRight' /\ ClientAt(j)'
      /\ UNCHANGED <<TftpOurPort, TftpServerPort, TftpState, used>>
  BY <1>0, ClientStays
<1> PICK t \in Tids :
       /\ sess[t] = NoSession
       /\ \/ \E k \in {0, 1} :
               /\ sess' = [sess EXCEPT ![t] = [cli |-> m.cli, cur |-> k]]
               /\ Handled(m, Current(t, m.cli, k))
          \/ Handled(m, {ERROR(t, m.cli)}) /\ UNCHANGED sess
  BY DEF ServerRRQ
<1>2. CASE Handled(m, {ERROR(t, m.cli)}) /\ UNCHANGED sess
  <2> DEFINE out == {ERROR(t, m.cli)}
  <2>1. net' = (net \ {m}) \cup out
    BY <1>2 DEF Handled, OneAtATime
  <2>2. Alone'
    <3>1. Alone /\ UNCHANGED TftpOurPort
      BY <1>1 DEF LongInv
    <3>2. (\A q \in out : q.cli = m.cli) /\ (\A q, r \in out : q = r)
      OBVIOUS
    <3>3. net' \subseteq (net \ {m}) \cup out
      BY <2>1
    <3> HIDE DEF out
    <3> QED
      BY <3>1, <3>2, <3>3, AloneStep, Zenon
  <2>3. PortsKnown'
    BY <1>0, <1>1, <1>2, <2>1 DEF LongInv, PortsKnown, Talks
  <2>4. ServerAt(j)'
    BY <1>0, <1>1, <1>2, <2>1 DEF InStep, ServerAt, Cur, Talks
  <2>5. PacketsAt(j)'
    BY <1>1, <1>2, <2>1 DEF InStep, PacketsAt, Ours
  <2>6. InStep(j)'
    BY <1>1, <2>4, <2>5 DEF InStep
  <2> QED
    BY <1>1, <2>2, <2>3, <2>6, LongIs, Zenon
<1>3. ASSUME NEW k \in {0, 1},
             sess' = [sess EXCEPT ![t] = [cli |-> m.cli, cur |-> k]],
             Handled(m, Current(t, m.cli, k))
      PROVE  LongInv'
  <2>1. /\ \A u \in Tids \ {t} : sess'[u] = sess[u]
        /\ sess'[t] = [cli |-> m.cli, cur |-> k] /\ sess'[t] # NoSession
    BY <1>3 DEF TypeOK, NoSession
  <2>2. PICK out : out = Current(t, m.cli, k)
    OBVIOUS
  <2>3. /\ \A q \in out : /\ q.cli = m.cli /\ q.srv = t /\ q.op \in {"OACK", "DATA"}
                          /\ q.op = "DATA" => q.n = k
                          /\ q.op = "OACK" => k = 0
        /\ \A q, r \in out : q = r
    BY <2>2, CurrentIs
  <2>4. net' = (net \ {m}) \cup out
    BY <1>3, <2>2 DEF Handled, OneAtATime
  <2>5. Alone'
    <3>1. Alone /\ UNCHANGED TftpOurPort
      BY <1>1 DEF LongInv
    <3>2. net' \subseteq (net \ {m}) \cup out
      BY <2>4
    <3>3. \A q \in out : q.cli = m.cli
      BY <2>3
    <3> QED
      BY <2>3, <3>1, <3>2, <3>3, AloneStep, Zenon
  <2>6. \A u, c : Talks(u, c) => u # t /\ Talks(u, c)'
    BY <2>1 DEF Talks
  <2>7. Talks(t, m.cli)' /\ sess'[t].cur = k
    BY <2>1 DEF Talks
  <2>8. PortsKnown'
    <3>1. \A q \in net' : q.cli \in used
      BY <1>0, <2>3, <2>4 DEF LongInv, PortsKnown
    <3>2. \A u \in Tids : sess'[u] # NoSession => sess'[u].cli \in used
      BY <1>0, <2>1 DEF LongInv, PortsKnown
    <3>3. ASSUME NEW q \in net', q.op \in {"DATA", "OACK", "ACK"}
          PROVE  Talks(q.srv, q.cli)'
      <4>1. CASE q \in net
        BY <2>6, <3>3, <4>1 DEF LongInv, PortsKnown
      <4>2. CASE q \in out
        BY <2>3, <2>7, <4>2
      <4> QED
        BY <2>4, <4>1, <4>2
    <3>4. TftpOurPort' \in used'
      BY <1>1 DEF LongInv, PortsKnown
    <3> QED
      BY <1>1, <3>1, <3>2, <3>3, <3>4 DEF PortsKnown
  <2>9. ServerAt(j)'
    <3>1. TftpState # "RRQ" => /\ Talks(TftpServerPort, TftpOurPort)'
                               /\ Cur' = Cur /\ Cur \in {j, j + 1}
      <4>1. TftpState # "RRQ" => /\ Talks(TftpServerPort, TftpOurPort)
                                 /\ Cur \in {j, j + 1}
        BY DEF InStep, ServerAt
      <4> QED
        BY <1>1, <2>1, <2>6, <4>1 DEF Talks, Cur
    <3>2. ASSUME TftpState = "RRQ", NEW u \in Tids, Talks(u, TftpOurPort)'
          PROVE  sess'[u].cur \in {0, 1}
      <4>1. CASE u = t
        BY <2>7, <4>1
      <4>2. CASE u # t
        BY <1>1, <2>1, <3>2, <4>2 DEF InStep, ServerAt, Talks
      <4> QED
        BY <4>1, <4>2
    <3>3. ASSUME TftpState = "DATA", Cur' = j, SeqNo(j) = 0
          PROVE  ACK(TftpServerPort, TftpOurPort, 0) \in net'
      BY <1>0, <2>4, <3>1, <3>3 DEF InStep, ServerAt
    <3> QED
      BY <1>1, <3>1, <3>2, <3>3 DEF ServerAt
  <2>10. PacketsAt(j)'
    <3> SUFFICES ASSUME NEW q \in net', q.cli = TftpOurPort
                 PROVE  /\ q.op = "ACK" => /\ TftpState # "RRQ"
                                           /\ q.srv = TftpServerPort /\ q.n = SeqNo(j)
                        /\ q.op = "DATA" => q.n = sess'[q.srv].cur
                        /\ q.op = "OACK" => sess'[q.srv].cur = 0
      BY <1>1 DEF PacketsAt, Ours
    <3>1. CASE q \in net
      <4>1. q.op \in {"DATA", "OACK"} => q.srv \in Tids \ {t}
        BY <2>6, <3>1 DEF LongInv, PortsKnown, Talks
      <4> QED
        BY <2>1, <3>1, <4>1 DEF InStep, PacketsAt, Ours
    <3>2. CASE q \in out
      BY <2>3, <2>7, <3>2
    <3> QED
      BY <2>4, <3>1, <3>2
  <2>11. InStep(j)'
    BY <1>1, <2>9, <2>10 DEF InStep
  <2> QED
    BY <1>1, <2>5, <2>8, <2>11, LongIs, Zenon
<1> QED
  BY <1>2, <1>3

(* An acknowledgement of another attempt moves a session that is not ours. *)
LEMMA LongOtherACK ==
  ASSUME OneAtATime, TypeOK, LongInv, NEW j \in 0 .. FileBlocks, InStep(j),
         NEW m \in net, ServerACK(m), ~Ours(m)
  PROVE  LongInv'
<1> DEFINE t == m.srv
<1>0. /\ UNCHANGED clientVars /\ m.cli \in used /\ m.op = "ACK"
      /\ t \in Tids /\ sess[t] # NoSession /\ sess[t].cli = m.cli
  BY DEF ServerACK, LongInv, PortsKnown, Talks
<1>1. /\ RightPlace' /\ SizeIsRight' /\ ClientAt(j)'
      /\ UNCHANGED <<TftpOurPort, TftpServerPort, TftpState, used>>
  BY <1>0, ClientStays
<1>2. sess[t] \in Session /\ sess[t].cur \in Nat
  BY <1>0, ConstantsAssumption DEF TypeOK, Session
<1>3. PICK k, out :
        /\ out \in {{}, Current(t, m.cli, k)}
        /\ Handled(m, out)
        /\ sess' = [sess EXCEPT ![t] = [cli |-> m.cli, cur |-> k]]
        /\ k \in Nat
  <2>0. PICK c \in Nat : c = sess[t].cur + 1
    BY <1>2
  <2>1. [sess[t] EXCEPT !.cur = c] = [cli |-> m.cli, cur |-> c]
    BY <1>0, <1>2 DEF Session
  <2>2. sess = [sess EXCEPT ![t] = [cli |-> m.cli, cur |-> sess[t].cur]]
    <3>1. sess[t] = [cli |-> m.cli, cur |-> sess[t].cur]
      BY <1>0, <1>2 DEF Session
    <3> QED
      BY <1>0, <3>1 DEF TypeOK
  <2>3. CASE /\ sess' = [sess EXCEPT ![t].cur = sess[t].cur + 1]
             /\ Handled(m, Current(t, m.cli, sess[t].cur + 1))
    <3>1. sess' = [sess EXCEPT ![t] = [sess[t] EXCEPT !.cur = c]]
      BY <2>0, <2>3
    <3>2. sess' = [sess EXCEPT ![t] = [cli |-> m.cli, cur |-> c]]
      BY <2>1, <3>1
    <3>3. Handled(m, Current(t, m.cli, c))
      BY <2>0, <2>3
    <3> QED
      BY <2>0, <3>2, <3>3
  <2>4. CASE /\ Handled(m, IF sess[t].cur > 0 /\ m.n = SeqNo(sess[t].cur - 1)
                           THEN Current(t, m.cli, sess[t].cur) ELSE {})
             /\ UNCHANGED sess
    BY <1>2, <2>2, <2>4
  <2> QED
    BY <2>3, <2>4 DEF ServerACK
<1>4. net' = (net \ {m}) \cup out
  BY <1>3 DEF Handled, OneAtATime
<1>5. /\ \A q \in out : q.cli = m.cli /\ q.srv = t /\ q.op \in {"OACK", "DATA"}
      /\ \A q, r \in out : q = r
  BY <1>3, CurrentIs
<1>6. /\ \A u \in Tids \ {t} : sess'[u] = sess[u]
      /\ sess'[t].cli = m.cli /\ sess'[t] # NoSession
  <2>1. k # -1
    BY <1>3
  <2> QED
    BY <1>0, <1>3, <2>1 DEF TypeOK, NoSession
<1>7. \A u, c : Talks(u, c)' <=> Talks(u, c)
  BY <1>0, <1>6 DEF Talks
<1>8. \A u : Talks(u, TftpOurPort) => u # t /\ sess'[u] = sess[u]
  BY <1>0, <1>6 DEF Talks, Ours
<1>9. Alone' /\ \A p \in net' : Ours(p)' => p \in net
  <2>1. Alone /\ UNCHANGED TftpOurPort
    BY <1>1 DEF LongInv
  <2>2. net' \subseteq (net \ {m}) \cup out
    BY <1>4
  <2>3. \A q \in out : q.cli = m.cli
    BY <1>5
  <2> QED
    BY <1>5, <2>1, <2>2, <2>3, AloneStep, Zenon
<1>10. PortsKnown'
  <2>1. \A q \in net' : q.cli \in used
    BY <1>0, <1>4, <1>5 DEF LongInv, PortsKnown
  <2>2. \A u \in Tids : sess'[u] # NoSession => sess'[u].cli \in used
    BY <1>0, <1>6 DEF LongInv, PortsKnown
  <2>3. ASSUME NEW q \in net', q.op \in {"DATA", "OACK", "ACK"}
        PROVE  Talks(q.srv, q.cli)'
    <3>1. CASE q \in net
      BY <1>7, <2>3, <3>1 DEF LongInv, PortsKnown
    <3>2. CASE q \in out
      BY <1>0, <1>5, <1>6, <3>2 DEF Talks
    <3> QED
      BY <1>4, <3>1, <3>2
  <2>4. TftpOurPort' \in used'
    BY <1>1 DEF LongInv, PortsKnown
  <2> QED
    BY <1>1, <2>1, <2>2, <2>3, <2>4 DEF PortsKnown
<1>11. ServerAt(j)'
  <2>1. TftpState # "RRQ" => /\ Talks(TftpServerPort, TftpOurPort)
                             /\ Cur \in {j, j + 1}
    BY DEF InStep, ServerAt
  <2>2. TftpState # "RRQ" => Talks(TftpServerPort, TftpOurPort)' /\ Cur' = Cur
    BY <1>1, <1>7, <1>8, <2>1 DEF Cur, Talks
  <2>3. ASSUME TftpState = "RRQ", NEW u \in Tids, Talks(u, TftpOurPort)
        PROVE  sess'[u].cur \in {0, 1}
    BY <1>8, <2>3 DEF InStep, ServerAt
  <2>4. \A u : Talks(u, TftpOurPort)' => Talks(u, TftpOurPort)
    BY <1>1, <1>7 DEF Talks
  <2>5. ASSUME TftpState = "DATA", Cur' = j, SeqNo(j) = 0
        PROVE  ACK(TftpServerPort, TftpOurPort, 0) \in net'
    <3>1. ACK(TftpServerPort, TftpOurPort, 0) \in net
      BY <2>2, <2>5 DEF InStep, ServerAt
    <3> QED
      BY <1>4, <3>1 DEF Ours
  <2> QED
    BY <1>1, <2>1, <2>2, <2>3, <2>4, <2>5 DEF ServerAt
<1>12. PacketsAt(j)'
  <2> SUFFICES ASSUME NEW q \in net', q.cli = TftpOurPort
               PROVE  /\ q.op = "ACK" => /\ TftpState # "RRQ"
                                         /\ q.srv = TftpServerPort /\ q.n = SeqNo(j)
                      /\ q.op = "DATA" => q.n = sess'[q.srv].cur
                      /\ q.op = "OACK" => sess'[q.srv].cur = 0
    BY <1>1 DEF PacketsAt, Ours
  <2>1. q \in net /\ Ours(q)
    BY <1>1, <1>9 DEF Ours
  <2>2. q.op \in {"DATA", "OACK"} => sess'[q.srv] = sess[q.srv]
    BY <1>8, <2>1 DEF LongInv, PortsKnown, Ours
  <2> QED
    BY <2>1, <2>2 DEF InStep, PacketsAt
<1>13. InStep(j)'
  BY <1>1, <1>11, <1>12 DEF InStep
<1> QED
  BY <1>1, <1>9, <1>10, <1>13, LongIs, Zenon

(* The acknowledgement of block j: the session is at j and moves on, or is *)
(* at j + 1 already and sends that block again.                            *)
LEMMA LongOurACK ==
  ASSUME OneAtATime, TypeOK, LongInv, NEW j \in 0 .. FileBlocks, InStep(j),
         NEW m \in net, ServerACK(m), Ours(m)
  PROVE  LongInv'
<1> DEFINE t == m.srv
<1>0. /\ UNCHANGED clientVars /\ m.cli \in used /\ m.op = "ACK"
      /\ t \in Tids /\ sess[t] # NoSession /\ sess[t].cli = m.cli
  BY DEF ServerACK, LongInv, PortsKnown, Talks
<1>1. /\ RightPlace' /\ SizeIsRight' /\ ClientAt(j)'
      /\ UNCHANGED <<TftpOurPort, TftpServerPort, TftpState, used>>
  BY <1>0, ClientStays
<1>2. sess[t] \in Session /\ j \in Nat /\ j <= FileBlocks
  BY <1>0, ConstantsAssumption DEF TypeOK, Session
<1>3. TftpState # "RRQ" /\ t = TftpServerPort /\ m.n = SeqNo(j)
  BY <1>0 DEF InStep, PacketsAt
<1>4. sess[t].cur \in {j, j + 1}
  BY <1>3 DEF InStep, ServerAt, Cur
<1>5. SeqNo(j + 1) # SeqNo(j)
  BY <1>2, SeqNoDiffers
<1>6. PICK k \in Nat : k = j + 1
  BY <1>2
<1>7. /\ sess' = [sess EXCEPT ![t] = [cli |-> m.cli, cur |-> k]]
      /\ Handled(m, Current(t, m.cli, k))
  <2>1. CASE sess[t].cur = j
    <3>1. sess[t].cur <= FileBlocks /\ m.n = SeqNo(sess[t].cur)
      BY <1>2, <1>3, <2>1
    <3>2. /\ sess' = [sess EXCEPT ![t].cur = sess[t].cur + 1]
          /\ Handled(m, Current(t, m.cli, sess[t].cur + 1))
      <4>1. ~(m.n # SeqNo(sess[t].cur) \/ sess[t].cur > FileBlocks)
        BY <1>2, <2>1, <3>1, ConstantsAssumption
      <4> QED
        BY <4>1, Zenon DEF ServerACK
    <3>3. /\ sess' = [sess EXCEPT ![t].cur = k]
          /\ Handled(m, Current(t, m.cli, k))
      BY <1>6, <2>1, <3>2, Zenon
    <3>4. sess' = [sess EXCEPT ![t] = [sess[t] EXCEPT !.cur = k]]
      BY <3>3
    <3>5. [sess[t] EXCEPT !.cur = k] = [cli |-> m.cli, cur |-> k]
      BY <1>0, <1>2 DEF Session
    <3>6. sess' = [sess EXCEPT ![t] = [cli |-> m.cli, cur |-> k]]
      BY <3>4, <3>5
    <3> QED
      BY <3>3, <3>6
  <2>2. CASE sess[t].cur = k
    <3>1. k > 0 /\ k - 1 = j /\ m.n # SeqNo(k) /\ m.n = SeqNo(j)
      BY <1>2, <1>3, <1>5, <1>6
    <3>2. Handled(m, Current(t, m.cli, k)) /\ UNCHANGED sess
      BY <2>2, <3>1 DEF ServerACK
    <3>3. sess[t] = [cli |-> m.cli, cur |-> k]
      BY <1>0, <1>2, <2>2 DEF Session
    <3>4. sess = [sess EXCEPT ![t] = [cli |-> m.cli, cur |-> k]]
      BY <1>0, <3>3 DEF TypeOK
    <3> QED
      BY <3>2, <3>4
  <2> QED
    BY <1>4, <1>6, <2>1, <2>2
<1>8. PICK out : out = Current(t, m.cli, k)
  OBVIOUS
<1>9. net' = (net \ {m}) \cup out
  BY <1>7, <1>8 DEF Handled, OneAtATime
<1>10. /\ \A q \in out : /\ q.cli = m.cli /\ q.srv = t /\ q.op \in {"OACK", "DATA"}
                         /\ q.op = "DATA" => q.n = k
                         /\ q.op = "OACK" => k = 0
       /\ \A q, r \in out : q = r
  BY <1>8, CurrentIs
<1>11. /\ \A u \in Tids \ {t} : sess'[u] = sess[u]
       /\ sess'[t].cli = m.cli /\ sess'[t].cur = k /\ sess'[t] # NoSession
  <2>1. k # -1
    BY <1>6
  <2> QED
    BY <1>0, <1>7, <2>1 DEF TypeOK, NoSession
<1>12. \A u, c : Talks(u, c)' <=> Talks(u, c)
  BY <1>0, <1>11 DEF Talks
<1>13. Alone' /\ \A p \in net' : Ours(p)' => p \in out
  <2>1. Alone /\ UNCHANGED TftpOurPort
    BY <1>1 DEF LongInv
  <2>2. net' \subseteq (net \ {m}) \cup out
    BY <1>9
  <2>3. \A q \in out : q.cli = m.cli
    BY <1>10
  <2> QED
    BY <1>10, <2>1, <2>2, <2>3, AloneStep, Zenon
<1>14. PortsKnown'
  <2>1. \A q \in net' : q.cli \in used
    BY <1>0, <1>9, <1>10 DEF LongInv, PortsKnown
  <2>2. \A u \in Tids : sess'[u] # NoSession => sess'[u].cli \in used
    BY <1>0, <1>11 DEF LongInv, PortsKnown
  <2>3. ASSUME NEW q \in net', q.op \in {"DATA", "OACK", "ACK"}
        PROVE  Talks(q.srv, q.cli)'
    <3>1. CASE q \in net
      BY <1>12, <2>3, <3>1 DEF LongInv, PortsKnown
    <3>2. CASE q \in out
      BY <1>0, <1>10, <1>11, <3>2 DEF Talks
    <3> QED
      BY <1>9, <3>1, <3>2
  <2>4. TftpOurPort' \in used'
    BY <1>1 DEF LongInv, PortsKnown
  <2> QED
    BY <1>1, <2>1, <2>2, <2>3, <2>4 DEF PortsKnown
<1>15. ServerAt(j)'
  <2>1. Talks(TftpServerPort, TftpOurPort)' /\ Cur' = j + 1
    BY <1>0, <1>1, <1>3, <1>6, <1>11 DEF Talks, Cur, Ours
  <2>2. j + 1 # j
    BY <1>2
  <2> QED
    BY <1>1, <1>3, <2>1, <2>2 DEF ServerAt
<1>16. PacketsAt(j)'
  <2>1. k # 0
    BY <1>2, <1>6
  <2> QED
    BY <1>10, <1>11, <1>13, <2>1 DEF PacketsAt
<1>17. InStep(j)'
  BY <1>1, <1>15, <1>16 DEF InStep
<1> QED
  BY <1>1, <1>13, <1>14, <1>17, LongIs, Zenon

-----------------------------------------------------------------------------
LEMMA LongInit == Init => LongInv
<1> SUFFICES ASSUME Init PROVE LongInv
  OBVIOUS
<1>1. 1 \in 1 .. FileBlocks /\ FileSize \in Nat
  BY PlaceInFile, ConstantsAssumption
<1>2. RightPlace /\ SizeIsRight
  BY <1>1, ConstantsAssumption DEF Init, RightPlace, SizeIsRight
<1>3. PortsKnown /\ Alone
  BY DEF Init, PortsKnown, Alone, Talks
<1>4. PICK j \in 0 .. FileBlocks : j = 0
  BY ConstantsAssumption
<1>5. ClientAt(j)
  BY <1>4, SeqNoSmall DEF Init, ClientAt, StoredUpTo
<1>6. ServerAt(j) /\ PacketsAt(j)
  BY DEF Init, ServerAt, PacketsAt, Talks
<1> QED
  BY <1>2, <1>3, <1>5, <1>6 DEF LongInv, InStep

LEMMA LongStep ==
  ASSUME OneAtATime, TypeOK, LongInv, [Next]_vars PROVE LongInv'
<1> PICK j \in 0 .. FileBlocks : InStep(j)
  BY DEF LongInv
<1>1. CASE Receive
  BY <1>1, LongReceive DEF Receive
<1>2. CASE TftpTimeout
  BY <1>2, LongTimeout
<1>3. CASE EndOfIteration
  BY <1>3, LongRestart, LongReturn DEF EndOfIteration
<1>4. CASE Server
  BY <1>4, LongServerRRQ, LongOurACK, LongOtherACK DEF Server
<1>5. ASSUME NEW t \in Tids, ServerRetransmit(t) PROVE LongInv'
  BY <1>5, LongRetransmit
<1>6. ASSUME NEW m \in net, Lose(m) PROVE LongInv'
  <2>1. m.op = "ACK" /\ m.n = 0 => TftpState # "DATA"
    BY <1>6 DEF Lose, OneAtATime
  <2> QED
    BY <1>6, <2>1, LongDrop DEF Lose, clientVars
<1>7. CASE UNCHANGED vars
  <2>1. UNCHANGED clientVars /\ UNCHANGED <<net, sess>>
    BY <1>7 DEF vars
  <2>2. /\ RightPlace' /\ SizeIsRight' /\ ClientAt(j)'
        /\ UNCHANGED <<TftpOurPort, TftpServerPort, TftpState, used>>
    BY <2>1, ClientStays
  <2>3. PortsKnown' /\ Alone' /\ PacketsAt(j)'
    BY <2>1, <2>2, FewerPackets, ConstantsAssumption DEF InStep
  <2>4. ServerAt(j)'
    BY <2>1, <2>2 DEF InStep, ServerAt, Cur, Talks
  <2>5. InStep(j)'
    BY <2>2, <2>3, <2>4 DEF InStep
  <2> QED
    BY <2>2, <2>3, <2>5, LongIs, Zenon
<1> QED
  BY <1>1, <1>2, <1>3, <1>4, <1>5, <1>6, <1>7 DEF Next, Done

(* On such a network client and server stay in step for the whole file,    *)
(* however often the 16-bit number wraps.                                  *)
THEOREM TftpInStep == ASSUME OneAtATime PROVE Spec => []LongInv
<1>1. Init => LongInv
  BY LongInit
<1>2. TypeOK /\ LongInv /\ [Next]_vars => LongInv'
  BY LongStep
<1> QED
  BY <1>1, <1>2, TftpType, PTL DEF Spec

(* tftpboot reports success only with every block of the file in memory    *)
(* and the file's exact size in filesize, for files of any length that     *)
(* fits the address space: the bump of TftpBlockWrapOffset at number 0     *)
(* happens once per wrap.                                                  *)
THEOREM TftpLongComplete ==
  ASSUME OneAtATime PROVE Spec => []CompleteOnSuccess
<1>1. LongInv => CompleteOnSuccess
  BY DEF LongInv, SizeIsRight, CompleteOnSuccess, StoredUpTo
<1> QED
  BY <1>1, TftpInStep, PTL

(* store_block writes every block of such a file at its own place, also in *)
(* a transfer that fails or starts again.                                  *)
THEOREM TftpLongRightPlace ==
  ASSUME OneAtATime PROVE Spec => []RightPlace
<1>1. LongInv => RightPlace
  BY DEF LongInv
<1> QED
  BY <1>1, TftpInStep, PTL

=============================================================================
