------------------------------- MODULE Ag7240 -------------------------------
(***************************************************************************)
(* The receive path of cpu/mips/ar7240/ag7240.c: per device a ring of      *)
(* descriptors that its DMA engine fills while ag7240_recv empties it, and *)
(* the receive buffers NetRxPackets, which the CPU reads through its cache *)
(* and which all devices share.  Descriptor i of every device points at    *)
(* buffer i.  The DMA engine runs between any two steps of the driver.     *)
(*                                                                         *)
(* A frame is the number it has among those accepted since the current     *)
(* device was opened.                                                      *)
(***************************************************************************)
EXTENDS Integers

CONSTANTS
  NO_OF_RX_FIFOS,
  Macs,           \* the devices
  MaxFrames       \* bound: frames accepted between two openings

ASSUME Ag7240Assumption ==
  /\ NO_OF_RX_FIFOS \in Nat \ {0}
  /\ MaxFrames \in Nat
  /\ Macs # {}

Ring == 0 .. (NO_OF_RX_FIFOS - 1)

\* What a buffer or a cache line can hold besides a frame.
Own     == 0                  \* the handler's own data: an answer made in place
Invalid == MaxFrames + 1      \* a line that is not in the cache
Frames  == 0 .. MaxFrames

VARIABLES
  cur,            \* eth_current
  is_empty,       \* of each descriptor: TRUE, it belongs to the DMA engine
  next_rx,
  on, at,         \* AG7240_DMA_RX_CTRL, and the descriptor the engine is at
  buf,            \* NetRxPackets, in memory
  cache,          \* what the CPU's cache holds of each buffer
  pc,             \* of ag7240_recv: "out", "loop", "net" (in NetReceive),
                  \* "flush", "give", "tail"
  dev, f,         \* its mac and its f
  seen,           \* the frame NetReceive was given last
  arrived, taken  \* frames accepted, and given to NetReceive

ringVars == <<is_empty, next_rx, on, at>>
vars == <<cur, ringVars, buf, cache, pc, dev, f, seen, arrived, taken>>

-----------------------------------------------------------------------------
\* Mutant of Following: the ring has one descriptor too many.
FollowingTooFar(i) == IF i + 1 > NO_OF_RX_FIFOS THEN 0 ELSE i + 1

\* The descriptor after i: next_desc of ag7240_setup_fifos, and ++next_rx.
Following(i) == IF i + 1 >= NO_OF_RX_FIFOS THEN 0 ELSE i + 1

\* flush_cache: a line is written back if it was written, and dropped.
WriteBack(i) == [buf EXCEPT ![i] = IF cache[i] = Own THEN Own ELSE @]

\* Mutant of Open: next_rx keeps its value.
OpenNoReset(m) ==
  /\ cur' = m
  /\ on' = [on EXCEPT ![cur] = FALSE, ![m] = TRUE]
  /\ at' = [at EXCEPT ![m] = 0]
  /\ is_empty' = [is_empty EXCEPT ![m] = [i \in Ring |-> TRUE]]
  /\ buf' = [i \in Ring |-> WriteBack(i)[i]]
  /\ cache' = [i \in Ring |-> Invalid]
  /\ arrived' = 0 /\ taken' = 0 /\ seen' = 0
  /\ UNCHANGED next_rx

(* ag7240_halt of the current device, then ag7240_clean_rx of m, which has  *)
(* a link: eth_halt and eth_init as NetLoop and NetStartAgain call them.    *)
(* No engine runs on the ring meanwhile, so they are one step.              *)
Open(m) ==
  /\ cur' = m
  /\ on' = [on EXCEPT ![cur] = FALSE, ![m] = TRUE]
  /\ next_rx' = [next_rx EXCEPT ![m] = 0]
  /\ at' = [at EXCEPT ![m] = 0]
  /\ is_empty' = [is_empty EXCEPT ![m] = [i \in Ring |-> TRUE]]
  /\ buf' = [i \in Ring |-> WriteBack(i)[i]]
  /\ cache' = [i \in Ring |-> Invalid]
  /\ arrived' = 0 /\ taken' = 0 /\ seen' = 0

\* A command, or a restart from a timer: outside ag7240_recv.
Restart(m) == pc = "out" /\ Open(m) /\ UNCHANGED <<pc, dev, f>>

-----------------------------------------------------------------------------
(* ag7240_recv. *)
EthRx ==
  /\ pc = "out" /\ pc' = "loop" /\ dev' = cur
  /\ UNCHANGED <<cur, ringVars, buf, cache, f, seen, arrived, taken>>

\* The descriptor at next_rx is the engine's: nothing more has arrived.
LoopBreak ==
  /\ pc = "loop" /\ is_empty[dev][next_rx[dev]]
  /\ f' = next_rx[dev]
  /\ pc' = "tail"
  /\ UNCHANGED <<cur, ringVars, buf, cache, dev, seen, arrived, taken>>

\* NetReceive reads the frame, through the cache.
CallNetReceive ==
  /\ pc = "loop" /\ ~is_empty[dev][next_rx[dev]]
  /\ f' = next_rx[dev]
  /\ seen' = IF cache[f'] = Invalid THEN buf[f'] ELSE cache[f']
  /\ cache' = [cache EXCEPT ![f'] = seen']
  /\ taken' = taken + 1
  /\ pc' = "net"
  /\ UNCHANGED <<cur, ringVars, buf, dev, arrived>>

\* It returns; it may have made its answer (ARP, ICMP) in the buffer.
NetReceiveReturns ==
  /\ pc = "net" /\ pc' = "flush"
  /\ \/ UNCHANGED cache
     \/ cache' = [cache EXCEPT ![f] = Own]
  /\ UNCHANGED <<cur, ringVars, buf, dev, f, seen, arrived, taken>>

\* It called NetStartAgain, which moved on to m.
NetReceiveRestarts(m) == pc = "net" /\ pc' = "flush" /\ Open(m) /\ UNCHANGED <<dev, f>>

\* Mutant of FlushCache: the flush is left out.
FlushCacheNot ==
  /\ pc = "flush" /\ pc' = "give"
  /\ UNCHANGED <<cur, ringVars, buf, cache, dev, f, seen, arrived, taken>>

FlushCache ==
  /\ pc = "flush" /\ pc' = "give"
  /\ buf' = WriteBack(next_rx[dev])
  /\ cache' = [cache EXCEPT ![next_rx[dev]] = Invalid]
  /\ UNCHANGED <<cur, ringVars, dev, f, seen, arrived, taken>>

GiveToDma ==
  /\ pc = "give" /\ pc' = "loop"
  /\ is_empty' = [is_empty EXCEPT ![dev][f] = TRUE]
  /\ next_rx' = [next_rx EXCEPT ![dev] = Following(@)]
  /\ UNCHANGED <<cur, on, at, buf, cache, dev, f, seen, arrived, taken>>

\* Mutants of RestartRx: the receiver is not restarted; it is restarted at the
\* first descriptor.
RestartRxNot ==
  /\ pc = "tail" /\ pc' = "out"
  /\ UNCHANGED <<cur, ringVars, buf, cache, dev, f, seen, arrived, taken>>

RestartRxAtFirst ==
  /\ pc = "tail" /\ pc' = "out"
  /\ on' = [on EXCEPT ![dev] = TRUE]
  /\ at' = IF on[dev] THEN at ELSE [at EXCEPT ![dev] = 0]
  /\ UNCHANGED <<cur, is_empty, next_rx, buf, cache, dev, f, seen, arrived, taken>>

\* A receiver that was stopped is started at f.
RestartRx ==
  /\ pc = "tail" /\ pc' = "out"
  /\ on' = [on EXCEPT ![dev] = TRUE]
  /\ at' = IF on[dev] THEN at ELSE [at EXCEPT ![dev] = f]
  /\ UNCHANGED <<cur, is_empty, next_rx, buf, cache, dev, f, seen, arrived, taken>>

-----------------------------------------------------------------------------
(* The DMA engine (external): a frame goes to the descriptor it is at, and  *)
(* the engine stops when that still belongs to the driver.                  *)
DmaStore(m) ==
  /\ on[m] /\ is_empty[m][at[m]] /\ arrived < MaxFrames
  /\ arrived' = arrived + 1
  /\ buf' = [buf EXCEPT ![at[m]] = arrived + 1]
  /\ is_empty' = [is_empty EXCEPT ![m][at[m]] = FALSE]
  /\ at' = [at EXCEPT ![m] = Following(@)]
  /\ UNCHANGED <<cur, next_rx, on, cache, pc, dev, f, seen, taken>>

DmaStop(m) ==
  /\ on[m] /\ ~is_empty[m][at[m]]
  /\ on' = [on EXCEPT ![m] = FALSE]
  /\ UNCHANGED <<cur, is_empty, next_rx, at, buf, cache, pc, dev, f, seen,
                 arrived, taken>>

-----------------------------------------------------------------------------
\* The first command has opened a device.
Init ==
  /\ cur \in Macs
  /\ is_empty = [m \in Macs |-> [i \in Ring |-> TRUE]]
  /\ next_rx = [m \in Macs |-> 0]
  /\ on = [m \in Macs |-> m = cur]
  /\ at = [m \in Macs |-> 0]
  /\ buf = [i \in Ring |-> Own]
  /\ cache = [i \in Ring |-> Invalid]
  /\ pc = "out" /\ dev = cur /\ f = 0
  /\ seen = 0 /\ arrived = 0 /\ taken = 0

Recv == LoopBreak \/ CallNetReceive \/ NetReceiveReturns \/ FlushCache \/ GiveToDma \/ RestartRx

Dma == \E m \in Macs : DmaStore(m) \/ DmaStop(m)

Next == EthRx \/ Recv \/ Dma \/ \E m \in Macs : Restart(m)

Spec == Init /\ [][Next]_vars

(* NetLoop polls for ever. *)
FairSpec == Spec /\ WF_vars(EthRx \/ Recv)

(* A packet handler may call NetStartAgain too: TftpHandler on an ERROR. *)
RestartSpec == Init /\ [][Next \/ \E m \in Macs : NetReceiveRestarts(m)]_vars

-----------------------------------------------------------------------------
(* Properties. *)

\* The type of every variable.
TypeOK ==
  /\ cur \in Macs /\ dev \in Macs
  /\ is_empty \in [Macs -> [Ring -> BOOLEAN]]
  /\ next_rx \in [Macs -> Ring] /\ at \in [Macs -> Ring]
  /\ on \in [Macs -> BOOLEAN]
  /\ buf \in [Ring -> Frames]
  /\ cache \in [Ring -> Frames \cup {Invalid}]
  /\ pc \in {"out", "loop", "net", "flush", "give", "tail"}
  /\ f \in Ring
  /\ seen \in Frames /\ arrived \in Frames /\ taken \in Frames

\* ag7240_recv hands every frame the engine accepted to NetReceive, once and in
\* the order of arrival, and NetReceive reads it from memory and not what the
\* cache still holds of another: the k-th it is given is the k-th accepted.
InOrder == pc = "net" => seen = taken

\* The frames that wait in the ring: First is the descriptor of the first of
\* them, and Pos(n, k) the one k places behind n.
First == IF pc \in {"net", "flush", "give"} THEN Following(next_rx[cur])
                                            ELSE next_rx[cur]
Pos(n, k) == IF n + k >= NO_OF_RX_FIFOS THEN n + k - NO_OF_RX_FIFOS ELSE n + k
Waiting == [k \in 1 .. (arrived - taken) |-> buf[Pos(First, k - 1)]]

Queue == INSTANCE RxQueue WITH
  Size <- NO_OF_RX_FIFOS, waiting <- Waiting, accepted <- arrived, handed <- seen

\* The ring, its buffers and the cache implement the queue of frames that
\* NetReceive is promised, with ag7240_clean_rx as its opening.
ImplementsQueue == Queue!Spec

\* A receiver that ran into the end of the ring does not stay off: the tail of
\* ag7240_recv starts it again.
Resumes == []<>on[cur]

\* A frame that was accepted does not stay in the ring, unless the ring is set
\* up anew: ag7240_recv finds it at the next poll.
Received ==
  \A k \in 1 .. MaxFrames : (arrived = k) ~> (taken >= k \/ arrived < k)

=============================================================================
