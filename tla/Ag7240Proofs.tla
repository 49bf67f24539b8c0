---------------------------- MODULE Ag7240Proofs ----------------------------
(***************************************************************************)
(* For every length of the ring and any number of devices, ag7240_recv     *)
(* hands the frames over once each and in order, as long as no handler     *)
(* opens a device.  The invariant places the frames of the ring: from      *)
(* next_rx on, Held descriptors are full, frame by frame, the others are   *)
(* empty, and the engine is at the end of the full ones, also while it is  *)
(* stopped.                                                                *)
(***************************************************************************)
EXTENDS Ag7240, SequenceTheorems, TLAPS

\* The number of places from n to i.
Dist(n, i) == IF i >= n THEN i - n ELSE i + NO_OF_RX_FIFOS - n

Busy == pc \in {"net", "flush", "give"}
Back == IF Busy THEN taken - 1 ELSE taken     \* frames whose descriptor is given back
Held == arrived - Back

\* Only the current device receives, and ag7240_recv works on it.
OneReceiver ==
  /\ \A m \in Macs : on[m] => m = cur
  /\ pc # "out" => dev = cur

RingPlaces ==
  /\ Back >= 0
  /\ Held \in 0 .. NO_OF_RX_FIFOS
  /\ at[cur] = Pos(next_rx[cur], Held)
  /\ \A i \in Ring : is_empty[cur][i] <=> Dist(next_rx[cur], i) >= Held
  /\ \A i \in Ring :
       LET d == Dist(next_rx[cur], i)
       IN  (d < Held /\ (Busy => d > 0)) => buf[i] = Back + 1 + d

InHand ==
  /\ Busy => Held > 0
  /\ pc \in {"net", "flush", "give", "tail"} => f = next_rx[cur]
  /\ (pc = "tail" /\ ~on[cur]) => Held \in {0, NO_OF_RX_FIFOS}
  /\ \A i \in Ring : cache[i] # Invalid => pc \in {"net", "flush"} /\ i = f
  /\ InOrder

RingInv == TypeOK /\ OneReceiver /\ RingPlaces /\ InHand

-----------------------------------------------------------------------------
(* Places in the ring. *)

\* Descriptors are numbers below NO_OF_RX_FIFOS.
LEMMA RingNat ==
  /\ Ring \subseteq Nat /\ 0 \in Ring /\ NO_OF_RX_FIFOS \in Nat
  /\ \A k \in Nat : k \in Ring <=> k < NO_OF_RX_FIFOS
BY Ag7240Assumption, SMT DEF Ring

\* What the two functions are at the ends, and that they undo each other.
LEMMA Places ==
  ASSUME NEW n \in Ring
  PROVE  /\ Pos(n, 0) = n /\ Pos(n, NO_OF_RX_FIFOS) = n
         /\ \A i \in Ring : /\ Dist(n, i) \in Ring
                            /\ Dist(n, i) = 0 <=> i = n
         /\ \A k \in Ring : Pos(n, k) \in Ring /\ Dist(n, Pos(n, k)) = k
         /\ \A i, j \in Ring : Dist(n, i) = Dist(n, j) => i = j
BY Ag7240Assumption, SMT DEF Ring, Pos, Dist

\* The engine goes one place on.
LEMMA EngineStep ==
  ASSUME NEW n \in Ring, NEW k \in Ring
  PROVE  Following(Pos(n, k)) = Pos(n, k + 1) /\ Following(n) \in Ring
BY Ag7240Assumption, SMT DEF Ring, Pos, Following

\* next_rx goes one place on: everything is one place nearer, but for the
\* descriptor it was at, which is now the farthest.
LEMMA DriverStep ==
  ASSUME NEW n \in Ring
  PROVE  /\ \A k \in 1 .. NO_OF_RX_FIFOS : Pos(Following(n), k - 1) = Pos(n, k)
         /\ Dist(Following(n), n) = NO_OF_RX_FIFOS - 1
         /\ \A i \in Ring \ {n} : Dist(Following(n), i) = Dist(n, i) - 1
BY Ag7240Assumption, SMT DEF Ring, Pos, Dist, Following

-----------------------------------------------------------------------------
\* The first command's ring is empty and in step.
LEMMA InitRing == Init => RingInv
<1> SUFFICES ASSUME Init PROVE RingInv
  OBVIOUS
<1> USE Ag7240Assumption
<1>1. TypeOK
  BY SMT DEF Init, TypeOK, Ring, Frames, Own, Invalid
<1>2. Back = 0 /\ Held = 0 /\ ~Busy
  <2>1. ~Busy
    BY DEF Init, Busy
  <2>2. Back = 0
    BY <2>1 DEF Init, Back
  <2> QED BY <2>1, <2>2, SMT DEF Init, Held
<1>3. OneReceiver
  BY DEF Init, OneReceiver
<1>4. 0 \in Ring /\ next_rx[cur] = 0 /\ at[cur] = 0
  BY DEF Init, Ring
<1>5. RingPlaces
  <2>1. at[cur] = Pos(next_rx[cur], Held)
    BY <1>2, <1>4, Places
  <2>2. \A i \in Ring : Dist(next_rx[cur], i) \in Nat
    BY <1>4, Places, RingNat
  <2>3. \A i \in Ring : is_empty[cur][i] <=> Dist(next_rx[cur], i) >= Held
    BY <1>2, <2>2, SMT DEF Init
  <2>4. \A i \in Ring : ~(Dist(next_rx[cur], i) < Held)
    BY <1>2, <2>2, SMT
  <2> QED BY <1>2, <2>1, <2>3, <2>4, SMT DEF RingPlaces
<1>6. InHand
  BY <1>2 DEF Init, InHand, InOrder
<1> QED BY <1>1, <1>3, <1>5, <1>6 DEF RingInv

\* Opening a device empties its ring and puts it in step.
LEMMA OpenRing ==
  ASSUME RingInv, NEW m \in Macs, Restart(m)
  PROVE  RingInv'
<1> USE Ag7240Assumption DEF Restart, Open
<1>1. TypeOK'
  <2>1. 0 \in Ring /\ 0 \in Frames
    BY DEF Ring, Frames
  <2>2. buf' \in [Ring -> Frames]
    BY <2>1 DEF RingInv, TypeOK, WriteBack, Own
  <2>3. /\ is_empty' \in [Macs -> [Ring -> BOOLEAN]]
        /\ next_rx' \in [Macs -> Ring] /\ at' \in [Macs -> Ring]
        /\ on' \in [Macs -> BOOLEAN]
        /\ cache' \in [Ring -> Frames \cup {Invalid}]
    BY <2>1 DEF RingInv, TypeOK
  <2> QED BY <2>1, <2>2, <2>3 DEF RingInv, TypeOK
<1>2. Back' = 0 /\ Held' = 0 /\ ~Busy'
  <2>1. ~Busy'
    BY DEF Busy
  <2>2. Back' = 0
    BY <2>1 DEF Back
  <2> QED BY <2>1, <2>2, SMT DEF Held
<1>3. OneReceiver'
  BY DEF RingInv, TypeOK, OneReceiver
<1>4. /\ 0 \in Ring /\ (next_rx[cur])' = 0 /\ (at[cur])' = 0
      /\ \A i \in Ring : is_empty'[cur'][i]
  BY DEF RingInv, TypeOK, Ring
<1>5. RingPlaces'
  <2>1. (at[cur])' = Pos((next_rx[cur])', Held')
    BY <1>2, <1>4, Places
  <2>2. \A i \in Ring : Dist((next_rx[cur])', i) \in Nat
    BY <1>4, Places, RingNat
  <2>3. \A i \in Ring : is_empty'[cur'][i] <=> Dist((next_rx[cur])', i) >= Held'
    BY <1>2, <1>4, <2>2, SMT
  <2>4. \A i \in Ring : ~(Dist((next_rx[cur])', i) < Held')
    BY <1>2, <2>2, SMT
  <2> QED BY <1>2, <2>1, <2>3, <2>4, SMT DEF RingPlaces
<1>6. InHand'
  BY <1>2 DEF InHand, InOrder
<1> QED BY <1>1, <1>3, <1>5, <1>6 DEF RingInv

\* The steps of ag7240_recv that move nothing in the ring.
LEMMA QuietRing ==
  ASSUME RingInv, EthRx \/ LoopBreak \/ NetReceiveReturns
  PROVE  RingInv'
<1> USE Ag7240Assumption DEF RingInv
<1>0. UNCHANGED <<cur, is_empty, next_rx, on, at, buf, seen, arrived, taken>>
  BY DEF EthRx, LoopBreak, NetReceiveReturns, ringVars
<1>1. TypeOK'
  BY SMT DEF TypeOK, EthRx, LoopBreak, NetReceiveReturns, ringVars, Own, Frames
<1>2. Back' = Back /\ Held' = Held /\ Busy' = Busy
  BY <1>0 DEF Back, Held, Busy, EthRx, LoopBreak, NetReceiveReturns
<1>3. OneReceiver'
  BY <1>0 DEF OneReceiver, EthRx, LoopBreak, NetReceiveReturns
<1>4. RingPlaces'
  BY <1>0, <1>2, SMT DEF RingPlaces
<1>5. InHand'
  <2>1. CASE EthRx
    BY <2>1, <1>0, <1>2, SMT DEF EthRx, InHand, InOrder
  <2>2. CASE LoopBreak
    <3>1. next_rx[cur] \in Ring /\ dev = cur
      BY <2>2 DEF TypeOK, OneReceiver, LoopBreak
    <3>2. Dist(next_rx[cur], next_rx[cur]) = 0
      BY <3>1, Places
    <3>3. Held = 0
      BY <2>2, <3>1, <3>2, SMT DEF LoopBreak, RingPlaces
    <3> QED BY <2>2, <1>0, <1>2, <3>1, <3>3, SMT DEF LoopBreak, InHand, InOrder
  <2>3. CASE NetReceiveReturns
    <3>1. f' = f /\ pc = "net" /\ pc' = "flush" /\ f \in Ring
      BY <2>3 DEF NetReceiveReturns, TypeOK
    <3>2. \A i \in Ring : cache'[i] # Invalid => i = f
      BY <2>3, <3>1, SMT DEF NetReceiveReturns, InHand, TypeOK
    <3> QED BY <3>1, <3>2, <1>0, <1>2, SMT DEF InHand, InOrder
  <2> QED BY <2>1, <2>2, <2>3
<1> QED BY <1>1, <1>3, <1>4, <1>5

\* The frame at next_rx is the one after those NetReceive has had, and it is
\* not in the cache.
LEMMA TakeRing ==
  ASSUME RingInv, CallNetReceive
  PROVE  RingInv'
<1> USE Ag7240Assumption DEF RingInv
<1>1. /\ next_rx[cur] \in Ring /\ dev = cur /\ pc = "loop" /\ f' = next_rx[cur]
      /\ taken \in Nat /\ arrived \in Nat /\ arrived <= MaxFrames /\ ~Busy
  BY SMT DEF TypeOK, OneReceiver, CallNetReceive, Busy, Frames
<1>2. Dist(next_rx[cur], next_rx[cur]) = 0
  BY <1>1, Places
<1>3. Held > 0 /\ Held = arrived - taken /\ Back = taken
  BY <1>1, <1>2, SMT DEF CallNetReceive, RingPlaces, Held, Back
<1>4. seen' = taken + 1
  <2>1. cache[next_rx[cur]] = Invalid
    BY <1>1 DEF InHand
  <2>2. buf[next_rx[cur]] = taken + 1
    BY <1>1, <1>2, <1>3, SMT DEF RingPlaces
  <2> QED BY <1>1, <2>1, <2>2 DEF CallNetReceive
<1>5. /\ UNCHANGED <<cur, is_empty, next_rx, on, at, buf, dev, arrived>>
      /\ taken' = taken + 1 /\ pc' = "net"
  BY DEF CallNetReceive, ringVars
<1>6. TypeOK'
  <2>1. taken + 1 \in Frames
    BY <1>1, <1>3, SMT DEF Frames
  <2>2. cache' \in [Ring -> Frames \cup {Invalid}]
    BY <1>1, <1>4, <2>1 DEF CallNetReceive, TypeOK
  <2> QED BY <1>1, <1>4, <1>5, <2>1, <2>2, SMT DEF TypeOK
<1>7. Busy' /\ Back' = Back /\ Held' = Held
  BY <1>1, <1>3, <1>5, SMT DEF Busy, Back, Held
<1>8. OneReceiver'
  BY <1>5, <1>1 DEF OneReceiver
<1>9. RingPlaces'
  BY <1>5, <1>7, <1>1, SMT DEF RingPlaces
<1>10. InHand'
  <2>1. \A i \in Ring : cache'[i] # Invalid => i = f'
    BY <1>1, SMT DEF CallNetReceive, InHand, TypeOK
  <2> QED BY <2>1, <1>1, <1>3, <1>4, <1>5, <1>7, SMT DEF InHand, InOrder
<1> QED BY <1>6, <1>8, <1>9, <1>10

\* Only the line of the frame in hand was in the cache.
LEMMA FlushRing ==
  ASSUME RingInv, FlushCache
  PROVE  RingInv'
<1> USE Ag7240Assumption DEF RingInv
<1>1. /\ next_rx[cur] \in Ring /\ dev = cur /\ pc = "flush" /\ pc' = "give"
      /\ f = next_rx[cur] /\ Busy /\ Busy'
      /\ UNCHANGED <<cur, is_empty, next_rx, on, at, dev, f, seen, arrived, taken>>
  BY SMT DEF TypeOK, OneReceiver, InHand, FlushCache, Busy, ringVars
<1>2. \A i \in Ring : i # f => buf'[i] = buf[i]
  BY <1>1 DEF FlushCache, WriteBack, TypeOK
<1>3. TypeOK'
  BY <1>1, SMT DEF FlushCache, WriteBack, TypeOK, Own, Frames
<1>4. Back' = Back /\ Held' = Held
  BY <1>1 DEF Back, Held
<1>5. OneReceiver'
  BY <1>1 DEF OneReceiver
<1>6. RingPlaces'
  <2>1. \A i \in Ring : Dist(next_rx[cur], i) > 0 => buf'[i] = buf[i]
    BY <1>1, <1>2, Places, SMT
  <2> QED BY <1>1, <1>4, <2>1, SMT DEF RingPlaces
<1>7. InHand'
  <2>1. \A i \in Ring : cache'[i] = Invalid
    BY <1>1, SMT DEF FlushCache, InHand, TypeOK
  <2> QED BY <1>1, <1>4, <2>1, SMT DEF InHand, InOrder
<1> QED BY <1>3, <1>5, <1>6, <1>7

\* The descriptor in hand goes to the end of the empty ones.
LEMMA GiveRing ==
  ASSUME RingInv, GiveToDma
  PROVE  RingInv'
<1> USE Ag7240Assumption DEF RingInv
<1> DEFINE n == next_rx[cur]
<1>1. /\ n \in Ring /\ dev = cur /\ pc = "give" /\ pc' = "loop" /\ f = n
      /\ Busy /\ ~Busy' /\ next_rx'[cur] = Following(n)
      /\ UNCHANGED <<cur, on, at, buf, cache, dev, f, seen, arrived, taken>>
  BY SMT DEF TypeOK, OneReceiver, InHand, GiveToDma, Busy
<1>2. Back' = Back + 1 /\ Held' = Held - 1 /\ Held \in 1 .. NO_OF_RX_FIFOS
  BY <1>1, SMT DEF Back, Held, TypeOK, Frames, RingPlaces, InHand
<1>3. TypeOK'
  <2>1. Following(n) \in Ring
    BY <1>1, RingNat, EngineStep
  <2>2. next_rx' \in [Macs -> Ring] /\ is_empty' \in [Macs -> [Ring -> BOOLEAN]]
    BY <1>1, <2>1 DEF GiveToDma, TypeOK
  <2> QED BY <1>1, <2>2 DEF TypeOK
<1>4. OneReceiver'
  BY <1>1 DEF OneReceiver
<1>5. is_empty'[cur] = [is_empty[cur] EXCEPT ![n] = TRUE]
  BY <1>1 DEF GiveToDma, TypeOK
<1>6. RingPlaces'
  <2>1. at'[cur] = Pos(Following(n), Held')
    <3>1. Pos(Following(n), Held - 1) = Pos(n, Held)
      BY <1>1, <1>2, DriverStep
    <3> QED BY <1>1, <1>2, <3>1 DEF RingPlaces
  <2>2. \A i \in Ring : is_empty'[cur][i] <=> Dist(Following(n), i) >= Held'
    <3> SUFFICES ASSUME NEW i \in Ring
                 PROVE  is_empty'[cur][i] <=> Dist(Following(n), i) >= Held'
      OBVIOUS
    <3>1. CASE i = n
      BY <3>1, <1>1, <1>2, <1>5, DriverStep, SMT DEF TypeOK
    <3>2. CASE i # n
      <4>1. Dist(Following(n), i) = Dist(n, i) - 1
        BY <3>2, <1>1, DriverStep
      <4>2. Dist(n, i) \in Ring
        BY <1>1, Places
      <4> QED BY <3>2, <4>1, <4>2, <1>1, <1>2, <1>5, SMT DEF TypeOK, RingPlaces, Ring
    <3> QED BY <3>1, <3>2
  <2>3. \A i \in Ring : Dist(Following(n), i) < Held' => buf'[i] = Back' + 1 + Dist(Following(n), i)
    <3> SUFFICES ASSUME NEW i \in Ring, Dist(Following(n), i) < Held'
                 PROVE  buf'[i] = Back' + 1 + Dist(Following(n), i)
      OBVIOUS
    <3>1. i # n
      BY <1>1, <1>2, DriverStep, SMT
    <3>2. Dist(Following(n), i) = Dist(n, i) - 1
      BY <3>1, <1>1, DriverStep
    <3>3. Dist(n, i) \in Ring /\ Dist(n, i) # 0
      BY <1>1, <3>1, Places
    <3>4. Dist(n, i) \in Nat /\ Dist(n, i) < Held /\ Dist(n, i) > 0 /\ Back \in Int
      <4>1. Dist(n, i) \in Nat /\ Dist(n, i) > 0
        <5>1. Dist(n, i) \in Nat
          BY <3>3, RingNat
        <5> QED BY <3>3, <5>1, SMT
      <4>2. Back \in Int
        BY SMT DEF Back, TypeOK, Frames
      <4>3. Dist(n, i) - 1 < Held - 1
        BY <1>2, <3>2
      <4> QED BY <4>1, <4>2, <4>3, <1>2, SMT
    <3>5. buf[i] = Back + 1 + Dist(n, i)
      BY <3>4 DEF RingPlaces
    <3> QED BY <1>1, <1>2, <3>2, <3>4, <3>5, SMT
  <2>4. Back \in Int
    BY SMT DEF Back, TypeOK, Frames
  <2> QED BY <1>1, <1>2, <2>1, <2>2, <2>3, <2>4, SMT DEF RingPlaces
<1>7. InHand'
  BY <1>1, <1>2, SMT DEF InHand, InOrder
<1> QED BY <1>3, <1>4, <1>6, <1>7

\* A stopped engine is started where it stopped.
LEMMA TailRing ==
  ASSUME RingInv, RestartRx
  PROVE  RingInv'
<1> USE Ag7240Assumption DEF RingInv
<1>1. /\ next_rx[cur] \in Ring /\ dev = cur /\ pc = "tail" /\ pc' = "out"
      /\ f = next_rx[cur] /\ ~Busy /\ ~Busy'
      /\ UNCHANGED <<cur, is_empty, next_rx, buf, cache, dev, f, seen, arrived, taken>>
  BY SMT DEF TypeOK, OneReceiver, InHand, RestartRx, Busy
<1>2. at' = at
  <2>1. CASE on[cur]
    BY <1>1, <2>1 DEF RestartRx
  <2>2. CASE ~on[cur]
    <3>1. at[cur] = next_rx[cur]
      BY <1>1, <2>2, Places DEF InHand, RingPlaces
    <3> QED BY <1>1, <2>2, <3>1 DEF RestartRx, TypeOK
  <2> QED BY <2>1, <2>2
<1>3. TypeOK'
  BY <1>1, <1>2 DEF RestartRx, TypeOK
<1>4. Back' = Back /\ Held' = Held
  BY <1>1 DEF Back, Held
<1>5. OneReceiver'
  BY <1>1 DEF OneReceiver, RestartRx, TypeOK
<1>6. RingPlaces'
  BY <1>1, <1>2, <1>4, SMT DEF RingPlaces
<1>7. InHand'
  BY <1>1, <1>4 DEF InHand, InOrder
<1> QED BY <1>3, <1>5, <1>6, <1>7

\* A frame goes to the first empty descriptor, with the next number.
LEMMA StoreRing ==
  ASSUME RingInv, NEW m \in Macs, DmaStore(m)
  PROVE  RingInv'
<1> USE Ag7240Assumption DEF RingInv
<1> DEFINE n == next_rx[cur]
<1>1. /\ m = cur /\ n \in Ring /\ at[cur] \in Ring /\ is_empty[cur][at[cur]]
      /\ Busy' = Busy /\ arrived' = arrived + 1 /\ arrived < MaxFrames
      /\ buf' = [buf EXCEPT ![at[cur]] = arrived + 1]
      /\ UNCHANGED <<cur, next_rx, on, cache, pc, dev, f, seen, taken>>
  <2>1. m = cur
    BY DEF OneReceiver, DmaStore
  <2>2. n \in Ring /\ at[cur] \in Ring
    BY DEF TypeOK
  <2> QED BY <2>1, <2>2 DEF DmaStore, Busy
<1>2. Back' = Back /\ Held' = Held + 1 /\ Back \in Int /\ Held = arrived - Back /\ arrived \in Nat
  BY <1>1, SMT DEF Back, Held, TypeOK, Frames
<1>3. Held \in Ring /\ at[cur] = Pos(n, Held) /\ Dist(n, at[cur]) = Held
  <2>1. Dist(n, at[cur]) \in Ring /\ Dist(n, at[cur]) >= Held
    BY <1>1, Places DEF RingPlaces
  <2>2. Held \in Ring
    BY <2>1, SMT DEF RingPlaces, Ring
  <2>3. at[cur] = Pos(n, Held)
    BY DEF RingPlaces
  <2>4. Dist(n, Pos(n, Held)) = Held
    BY <1>1, <2>2, Places
  <2> QED BY <2>2, <2>3, <2>4
<1>4. TypeOK'
  <2>1. at' = [at EXCEPT ![cur] = Following(@)] /\ Following(at[cur]) \in Ring
    BY <1>1, EngineStep DEF DmaStore
  <2>2. arrived + 1 \in Frames
    BY <1>1, <1>2, SMT DEF Frames
  <2>3. is_empty' \in [Macs -> [Ring -> BOOLEAN]]
    BY DEF DmaStore, TypeOK
  <2>4. at' \in [Macs -> Ring] /\ buf' \in [Ring -> Frames]
    BY <1>1, <2>1, <2>2 DEF TypeOK
  <2> QED BY <1>1, <2>2, <2>3, <2>4 DEF TypeOK
<1>5. OneReceiver'
  BY <1>1 DEF OneReceiver
<1>6. is_empty'[cur] = [is_empty[cur] EXCEPT ![at[cur]] = FALSE]
  BY <1>1 DEF DmaStore, TypeOK
<1>7. RingPlaces'
  <2>1. at'[cur] = Pos(n, Held + 1)
    <3>1. at'[cur] = Following(at[cur])
      BY <1>1 DEF DmaStore, TypeOK
    <3>2. Following(Pos(n, Held)) = Pos(n, Held + 1)
      BY <1>1, <1>3, EngineStep
    <3> QED BY <1>3, <3>1, <3>2
  <2>2. \A i \in Ring : Dist(n, i) = Held <=> i = at[cur]
    <3>1. \A i, j \in Ring : Dist(n, i) = Dist(n, j) => i = j
      BY <1>1, Places
    <3> QED BY <1>1, <1>3, <3>1
  <2>3. \A i \in Ring : Dist(n, i) \in Nat
    <3>1. \A i \in Ring : Dist(n, i) \in Ring
      BY <1>1, Places
    <3> QED BY <3>1, RingNat
  <2>4. \A i \in Ring : is_empty'[cur][i] <=> Dist(n, i) >= Held + 1
    <3> SUFFICES ASSUME NEW i \in Ring PROVE is_empty'[cur][i] <=> Dist(n, i) >= Held + 1
      OBVIOUS
    <3>1. CASE i = at[cur]
      BY <3>1, <1>3, <1>6, <1>2, SMT DEF TypeOK
    <3>2. CASE i # at[cur]
      <4>1. is_empty'[cur][i] = is_empty[cur][i]
        BY <3>2, <1>6 DEF TypeOK
      <4> QED BY <3>2, <4>1, <2>2, <2>3, <1>2, SMT DEF RingPlaces
    <3> QED BY <3>1, <3>2
  <2>5. \A i \in Ring : (Dist(n, i) < Held + 1 /\ (Busy => Dist(n, i) > 0)) => buf'[i] = Back + 1 + Dist(n, i)
    <3> SUFFICES ASSUME NEW i \in Ring, Dist(n, i) < Held + 1, Busy => Dist(n, i) > 0
                 PROVE  buf'[i] = Back + 1 + Dist(n, i)
      OBVIOUS
    <3>1. CASE i = at[cur]
      BY <3>1, <1>1, <1>2, <1>3, SMT DEF TypeOK
    <3>2. CASE i # at[cur]
      <4>1. Dist(n, i) < Held
        BY <3>2, <2>2, <2>3, <1>2, SMT
      <4> QED BY <3>2, <4>1, <1>1 DEF RingPlaces, TypeOK
    <3> QED BY <3>1, <3>2
  <2>6. Held + 1 \in 0 .. NO_OF_RX_FIFOS
    BY <1>3, SMT DEF Ring
  <2> QED BY <1>1, <1>2, <2>1, <2>4, <2>5, <2>6, SMT DEF RingPlaces
<1>8. InHand'
  <2>1. on'[cur] /\ on[cur]
    BY <1>1 DEF DmaStore
  <2> QED BY <1>1, <1>2, <2>1, SMT DEF InHand, InOrder
<1> QED BY <1>4, <1>5, <1>7, <1>8

\* The engine only stops when every descriptor is full.
LEMMA StopRing ==
  ASSUME RingInv, NEW m \in Macs, DmaStop(m)
  PROVE  RingInv'
<1> USE Ag7240Assumption DEF RingInv
<1>1. /\ m = cur /\ next_rx[cur] \in Ring /\ ~is_empty[cur][at[cur]] /\ Busy' = Busy
      /\ UNCHANGED <<cur, is_empty, next_rx, at, buf, cache, pc, dev, f, seen, arrived, taken>>
  BY SMT DEF TypeOK, OneReceiver, DmaStop, Busy
<1>2. Back' = Back /\ Held' = Held
  BY <1>1 DEF Back, Held
<1>3. Held = NO_OF_RX_FIFOS
  <2>1. CASE Held \in Ring
    <3>1. Dist(next_rx[cur], at[cur]) = Held /\ at[cur] \in Ring
      <4>1. at[cur] = Pos(next_rx[cur], Held)
        BY DEF RingPlaces
      <4>2. /\ Dist(next_rx[cur], Pos(next_rx[cur], Held)) = Held
            /\ Pos(next_rx[cur], Held) \in Ring
        BY <1>1, <2>1, Places
      <4> QED BY <4>1, <4>2
    <3> QED BY <1>1, <3>1, <2>1, SMT DEF RingPlaces, Ring
  <2>2. CASE Held \notin Ring
    BY <2>2, SMT DEF Ring, RingPlaces
  <2> QED BY <2>1, <2>2
<1>4. TypeOK'
  BY <1>1 DEF TypeOK, DmaStop
<1>5. OneReceiver'
  BY <1>1 DEF OneReceiver, DmaStop, TypeOK
<1>6. RingPlaces'
  BY <1>1, <1>2, SMT DEF RingPlaces
<1>7. InHand'
  BY <1>1, <1>2, <1>3 DEF InHand, InOrder
<1> QED BY <1>4, <1>5, <1>6, <1>7

\* Every step of the driver and of the engines keeps the ring in step.
LEMMA NextRing == RingInv /\ [Next]_vars => RingInv'
<1> SUFFICES ASSUME RingInv, [Next]_vars PROVE RingInv'
  OBVIOUS
<1>1. CASE UNCHANGED vars
  BY <1>1, SMT DEF vars, ringVars, RingInv, TypeOK, OneReceiver, RingPlaces, InHand,
     InOrder, Busy, Back, Held
<1>2. CASE Next
  <2>1. CASE EthRx
    BY <2>1, QuietRing
  <2>2. CASE Recv
    BY <2>2, QuietRing, TakeRing, FlushRing, GiveRing, TailRing DEF Recv
  <2>3. CASE Dma
    BY <2>3, StoreRing, StopRing DEF Dma
  <2>4. CASE \E m \in Macs : Restart(m)
    BY <2>4, OpenRing
  <2> QED BY <1>2, <2>1, <2>2, <2>3, <2>4 DEF Next
<1> QED BY <1>1, <1>2

\* The ring of ag7240.c keeps its type for every length and every device.
THEOREM RingTypeCorrect == Spec => []TypeOK
<1>1. RingInv => TypeOK
  BY DEF RingInv
<1> QED BY InitRing, NextRing, <1>1, PTL DEF Spec

\* The frames the engine accepts reach NetReceive once each, in order and
\* whole, for every length of the ring and any interleaving of the engine with
\* ag7240_recv, with overruns and with restarts outside of it.
THEOREM FramesInOrder == Spec => []InOrder
<1>1. RingInv => InOrder
  BY DEF RingInv, InHand
<1> QED BY InitRing, NextRing, <1>1, PTL DEF Spec

\* Only the current device's engine ever writes to the buffers all devices
\* share.
THEOREM CurrentOnly == Spec => [](\A m \in Macs : on[m] => m = cur)
<1>1. RingInv => \A m \in Macs : on[m] => m = cur
  BY DEF RingInv, OneReceiver
<1> QED BY InitRing, NextRing, <1>1, PTL DEF Spec

-----------------------------------------------------------------------------
(* The ring implements the queue. *)

\* The numbers t + 1 .. a, as the sequence of the frames that wait.
Run(a, t) == [k \in 1 .. (a - t) |-> t + k]

\* What the queue's operations do with such a sequence.
LEMMA RunSteps ==
  ASSUME NEW a \in Nat, NEW t \in Nat, t <= a
  PROVE  /\ Run(a, t) \in Seq(Nat) /\ Len(Run(a, t)) = a - t
         /\ Run(a + 1, t) = Append(Run(a, t), a + 1)
         /\ t < a => /\ Run(a, t) # <<>>
                     /\ Head(Run(a, t)) = t + 1
                     /\ Run(a, t + 1) = Tail(Run(a, t))
<1>1. Run(a, t) \in Seq(Nat) /\ Len(Run(a, t)) = a - t
  BY SMT DEF Run
<1>2. Run(a + 1, t) = Append(Run(a, t), a + 1)
  BY <1>1, SMT DEF Run
<1>3. ASSUME t < a
      PROVE  /\ Run(a, t) # <<>> /\ Head(Run(a, t)) = t + 1
             /\ Run(a, t + 1) = Tail(Run(a, t))
  <2>1. Run(a, t) # <<>> /\ Head(Run(a, t)) = t + 1
    BY <1>1, <1>3, SMT DEF Run
  <2>2. /\ Tail(Run(a, t)) \in Seq(Nat) /\ Len(Tail(Run(a, t))) = a - t - 1
        /\ \A k \in 1 .. (a - t - 1) : Tail(Run(a, t))[k] = Run(a, t)[k + 1]
    BY <1>1, <2>1, HeadTailProperties
  <2>3. \A k \in 1 .. (a - t - 1) : Run(a, t)[k + 1] = t + 1 + k
    BY <1>3, SMT DEF Run
  <2>4. /\ Run(a, t + 1) \in Seq(Nat) /\ Len(Run(a, t + 1)) = a - t - 1
        /\ \A k \in 1 .. (a - t - 1) : Run(a, t + 1)[k] = t + 1 + k
    BY <1>3, SMT DEF Run
  <2> QED BY <2>1, <2>2, <2>3, <2>4, SeqEqual
<1> QED BY <1>1, <1>2, <1>3

\* The frames that wait in the ring are those after the last one handed over.
LEMMA WaitingIs == RingInv => Waiting = Run(arrived, taken) /\ taken <= arrived
<1> SUFFICES ASSUME RingInv PROVE Waiting = Run(arrived, taken) /\ taken <= arrived
  OBVIOUS
<1> USE Ag7240Assumption DEF RingInv
<1> DEFINE n == next_rx[cur]
<1>1. n \in Ring /\ arrived \in Nat /\ taken \in Nat /\ Back \in Int
  BY SMT DEF TypeOK, Frames, Back
<1>2. taken <= arrived
  BY <1>1, SMT DEF RingPlaces, InHand, Held, Back
<1>3. ASSUME NEW k \in 1 .. (arrived - taken)
      PROVE  buf[Pos(First, k - 1)] = taken + k
  <2>1. CASE Busy
    <3>1. k \in Ring /\ k \in 1 .. NO_OF_RX_FIFOS /\ k < Held /\ k > 0 /\ Back = taken - 1
      BY <1>1, <1>3, <2>1, SMT DEF RingPlaces, Held, Back, Ring
    <3>2. First = Following(n)
      BY <2>1 DEF First, Busy
    <3>3. Pos(Following(n), k - 1) = Pos(n, k)
      BY <1>1, <3>1, DriverStep
    <3>4. Pos(n, k) \in Ring /\ Dist(n, Pos(n, k)) = k
      BY <1>1, <3>1, Places
    <3>5. buf[Pos(n, k)] = Back + 1 + k
      BY <3>1, <3>4 DEF RingPlaces
    <3> QED BY <1>1, <3>1, <3>2, <3>3, <3>5, SMT
  <2>2. CASE ~Busy
    <3>1. k - 1 \in Ring /\ k - 1 < Held /\ Back = taken
      BY <1>1, <1>3, <2>2, SMT DEF RingPlaces, Held, Back, Ring
    <3>2. First = n
      BY <2>2 DEF First, Busy
    <3>3. Pos(n, k - 1) \in Ring /\ Dist(n, Pos(n, k - 1)) = k - 1
      BY <1>1, <3>1, Places
    <3>4. buf[Pos(n, k - 1)] = Back + 1 + (k - 1)
      BY <2>2, <3>1, <3>3 DEF RingPlaces
    <3> QED BY <1>1, <3>1, <3>2, <3>4, SMT
  <2> QED BY <2>1, <2>2
<1> QED BY <1>1, <1>2, <1>3 DEF Waiting, Run

\* A step of the driver or of an engine is a step of the queue, or none.
LEMMA QueueStep ==
  ASSUME RingInv, RingInv', [Next]_vars
  PROVE  [Queue!Next]_(Queue!vars)
<1> USE Ag7240Assumption DEF Queue!vars
<1>0. /\ Waiting = Run(arrived, taken) /\ taken <= arrived
      /\ Waiting' = Run(arrived', taken') /\ taken' <= arrived'
      /\ arrived \in Nat /\ taken \in Nat
  <2>1. (Waiting = Run(arrived, taken) /\ taken <= arrived)'
    BY WaitingIs, PTL
  <2>2. Waiting' = Run(arrived', taken') /\ taken' <= arrived'
    BY <2>1
  <2> QED BY <2>2, WaitingIs, SMT DEF RingInv, TypeOK, Frames
<1>1. CASE UNCHANGED <<arrived, taken, seen>>
  BY <1>0, <1>1 DEF Run
<1>2. ASSUME CallNetReceive PROVE Queue!HandOver
  <2>1. seen' = taken' /\ taken' = taken + 1 /\ arrived' = arrived
    BY <1>2 DEF CallNetReceive, RingInv, InHand, InOrder
  <2>2. taken < arrived
    BY <2>1, <1>0, SMT
  <2> QED BY <1>0, <2>1, <2>2, RunSteps DEF Queue!HandOver
<1>3. ASSUME NEW m \in Macs, DmaStore(m) PROVE Queue!Accept
  <2>1. arrived' = arrived + 1 /\ taken' = taken /\ seen' = seen
    BY <1>3 DEF DmaStore
  <2>2. arrived - taken < NO_OF_RX_FIFOS
    <3>1. Busy' = Busy /\ Back' = Back
      BY <1>3 DEF DmaStore, Busy, Back
    <3>2. arrived + 1 - Back <= NO_OF_RX_FIFOS /\ Back <= taken /\ Back \in Int
      BY <2>1, <3>1, <1>0, SMT DEF RingInv, RingPlaces, Held, Back
    <3> QED BY <3>2, <1>0, SMT
  <2> QED BY <1>0, <2>1, <2>2, RunSteps DEF Queue!Accept
<1>4. ASSUME NEW m \in Macs, Restart(m) PROVE Queue!Open
  <2>1. arrived' = 0 /\ taken' = 0 /\ seen' = 0
    BY <1>4 DEF Restart, Open
  <2>2. Run(0, 0) = <<>>
    BY SMT DEF Run
  <2> QED BY <1>0, <2>1, <2>2 DEF Queue!Open
<1>5. ASSUME EthRx \/ LoopBreak \/ NetReceiveReturns \/ FlushCache \/ GiveToDma
             \/ RestartRx \/ (\E m \in Macs : DmaStop(m)) \/ UNCHANGED vars
      PROVE  UNCHANGED <<arrived, taken, seen>>
  BY <1>5 DEF EthRx, LoopBreak, NetReceiveReturns, FlushCache, GiveToDma, RestartRx,
     DmaStop, vars
<1> QED BY <1>1, <1>2, <1>3, <1>4, <1>5 DEF Next, Recv, Dma, Queue!Next

\* The receive path implements the queue of frames, for every length of the
\* ring.
THEOREM RingIsQueue == Spec => ImplementsQueue
<1>1. Init => Queue!Init
  <2> SUFFICES ASSUME Init PROVE Queue!Init
    OBVIOUS
  <2>1. Waiting = Run(0, 0) /\ arrived = 0 /\ seen = 0
    BY InitRing, WaitingIs DEF Init
  <2>2. Run(0, 0) = <<>>
    BY SMT DEF Run
  <2> QED BY <2>1, <2>2 DEF Queue!Init
<1>2. RingInv /\ RingInv' /\ [Next]_vars => [Queue!Next]_(Queue!vars)
  BY QueueStep
<1> QED BY InitRing, NextRing, <1>1, <1>2, PTL DEF Spec, ImplementsQueue, Queue!Spec

=============================================================================
