--------------------------- MODULE NetLoopProofs ----------------------------
(***************************************************************************)
(* The theorems about NetLoop: the types, the single attempt of            *)
(* netretry = no, the commands that get no frame (SilentNet), and the      *)
(* attempts of netretry = once, for any number of devices, commands and    *)
(* frames.                                                                 *)
(***************************************************************************)
EXTENDS NetLoop, WellFoundedInduction, TLAPS

-----------------------------------------------------------------------------
(* The invariants. *)

\* A device that is polled, in a command without a frame, is the current one.
PolledInv == rxs = 0 => OnlyCurrentActive /\ (pc = "rx" => polled = eth.cur)

\* netretry = no: after the attempt nothing is left that could start another.
OneInv ==
  /\ pc = "restart" => NetState = "continue"
  /\ (netretry = "no" /\ \E d \in Devices : tries[d] # 0) =>
       pc # "restart" /\ NetState # "restart" /\ timeHandler # "startAgain"
  /\ OneAttempt

Silent == rxs = 0 /\ eth.addr = Devices

\* Without a frame only the time-outs change NetState, and GiveUp has halted
\* the device.
HaltInv ==
  Silent =>
    /\ pc \in {"restart", "rx", "arp"} => NetState = "continue"
    /\ (netretry = "no" /\ NetState = "fail" /\ pc \in {"timer", "switch"}) =>
         eth.active = {}
    /\ HaltedOnReturn

SilentOnce == Silent /\ pc # "idle" /\ protocol = "TFTP" /\ netretry = "once"

\* An attempt that goes on waits for ARP, which gives up before the timer.
Waits ==
  /\ timeHandler = "TFTP" /\ arp.pending
  /\ arp.left + ARP_TIMEOUT * (ARP_TIMEOUT_COUNT - arp.try) < timeLeft

WaitInv ==
  SilentOnce =>
    /\ (pc \in {"rx", "arp", "timer", "switch"} /\ NetState = "continue") => Waits
    /\ (pc = "timer") => ~TimeDue

\* Steps of the ring from device a to device b.
Dist(a, b) == IF a <= b THEN b - a ELSE (b - a) + NDev

Moved   == NetRestarted \/ NetState = "restart"
First   == IF Moved THEN eth.failed ELSE eth.cur
ToCome  == pc = "restart" \/ NetState = "restart"
Tried(d) ==
  IF d = eth.cur THEN ~ToCome ELSE d \in link /\ Dist(First, d) < Dist(First, eth.cur)

\* The devices tried are those with a link from the first one to the current.
RingBody ==
  /\ link # {} => eth.cur \in link
  /\ NetState # "fail" =>
       /\ Moved => eth.failed \in link /\ eth.failed # eth.cur /\ ~eth.wrap
       /\ ~Moved => eth.wrap = wrapped
       /\ \A d \in Devices : tries[d] = IF Tried(d) THEN 1 ELSE 0
  /\ NetState = "fail" =>
       /\ \A d \in Devices : tries[d] <= 1
       /\ wrapped \/ \A d \in link : tries[d] = 1

RingInv == SilentOnce => RingBody

-----------------------------------------------------------------------------
(* The constants and the ring. *)

EthType == [cur : Devices, failed : Devices \cup {NoDevice}, wrap : BOOLEAN,
            active : SUBSET Devices, addr : SUBSET Devices]

LEMMA ConstantsAre ==
  /\ NDev \in Nat \ {0}
  /\ ARP_TIMEOUT \in Nat \ {0} /\ ARP_TIMEOUT_COUNT \in Nat \ {0}
  /\ TIMEOUT \in Nat \ {0} /\ PING_TIMEOUT \in Nat \ {0} /\ RESTART_DELAY \in Nat \ {0}
  /\ TIMEOUT_COUNT \in Nat /\ MaxRx \in Nat /\ MaxCommands \in Nat
BY NetLoopAssumption

LEMMA MinOfTwo ==
  ASSUME NEW a \in Nat, NEW b \in Nat
  PROVE  Min({a, b}) = IF a <= b THEN a ELSE b
<1>1. \E x \in {a, b} : \A y \in {a, b} : x =< y
  OBVIOUS
<1>2. Min({a, b}) \in {a, b} /\ \A y \in {a, b} : Min({a, b}) =< y
  BY <1>1, Zenon DEF Min
<1> QED
  BY <1>2

\* < is well founded on the naturals, as a relation the provers can read.
Less == {p \in Nat \X Nat : p[1] < p[2]}

LEMMA LessWellFounded ==
  IsWellFoundedOn(Less, Nat)
BY NatLessThanWellFounded DEF OpToRel, Less

\* A set of naturals that is not empty has a least element.
LEMMA MinIs ==
  ASSUME NEW S, S \subseteq Nat, S # {}
  PROVE  Min(S) \in S /\ \A y \in S : Min(S) =< y
<1>1. \E x \in S : \A y \in S : ~(<<y, x>> \in Less)
  BY WFMin, LessWellFounded
<1>2. \E x \in S : \A y \in S : x =< y
  <2>1. PICK x \in S : \A y \in S : ~(<<y, x>> \in Less)
    BY <1>1
  <2>2. ASSUME NEW y \in S PROVE x =< y
    <3>1. ~(y < x)
      BY <2>1, <2>2 DEF Less
    <3> QED
      BY <3>1
  <2> QED
    BY <2>2
<1> QED
  BY <1>2, Zenon DEF Min

LEMMA SuccIs ==
  ASSUME NEW d \in Devices, NEW k \in 0 .. NDev
  PROVE  Succ(d, k) \in Devices /\ Succ(d, k) = IF d + k < NDev THEN d + k ELSE (d + k) - NDev
<1>1. NDev \in Nat \ {0} /\ d \in Nat /\ d < NDev /\ k \in Nat /\ k <= NDev
  BY ConstantsAre DEF Devices
<1>2. CASE d + k < NDev
  <2>1. (d + k) % NDev = d + k
    BY <1>1, <1>2
  <2> QED
    BY <1>1, <1>2, <2>1 DEF Succ, Devices
<1>3. CASE ~(d + k < NDev)
  <2>1. (d + k) % NDev = (d + k) - NDev
    BY <1>1, <1>3
  <2> QED
    BY <1>1, <1>3, <2>1 DEF Succ, Devices
<1> QED
  BY <1>2, <1>3

\* Where Succ leads to.
LEMMA DistIs ==
  ASSUME NEW a \in Devices, NEW b \in Devices
  PROVE  /\ Dist(a, b) \in 0 .. NDev - 1 /\ Succ(a, Dist(a, b)) = b
         /\ \A k \in 0 .. NDev - 1 : Succ(a, k) = b => k = Dist(a, b)
<1>1. NDev \in Nat \ {0} /\ a \in Nat /\ a < NDev /\ b \in Nat /\ b < NDev
  BY ConstantsAre DEF Devices
<1>2. Dist(a, b) \in 0 .. NDev - 1
  BY <1>1 DEF Dist
<1>3. Succ(a, Dist(a, b)) = b
  <2>1. Dist(a, b) \in 0 .. NDev
    BY <1>1, <1>2
  <2> QED
    BY <1>1, <2>1, SuccIs DEF Dist
<1>4. ASSUME NEW k \in 0 .. NDev - 1, Succ(a, k) = b PROVE k = Dist(a, b)
  <2>1. k \in 0 .. NDev
    BY <1>1
  <2>2. b = IF a + k < NDev THEN a + k ELSE (a + k) - NDev
    BY <1>4, <2>1, SuccIs
  <2> QED
    BY <1>1, <2>2 DEF Dist
<1> QED
  BY <1>2, <1>3, <1>4

\* eth_init: the first device with a link, from the current one on, and
\* whether first_failed was passed on the way.
LEMMA EthInitIs ==
  ASSUME NEW e \in EthType, link \subseteq Devices
  PROVE  LET r == EthInit(e)
         IN  /\ r \in EthType /\ r.addr = e.addr /\ r.failed = e.failed
             /\ link = {} => /\ r.cur = e.cur /\ r.active = e.active
                             /\ e.failed \in Devices => r.wrap
             /\ link # {} => /\ r.cur \in link /\ r.active = e.active \cup {r.cur}
                             /\ \A d \in link : Dist(e.cur, r.cur) <= Dist(e.cur, d)
                             /\ r.wrap <=> \/ e.wrap
                                           \/ /\ e.failed \in Devices /\ e.failed # e.cur
                                              /\ Dist(e.cur, e.failed) <= Dist(e.cur, r.cur)
<1> DEFINE up    == {k \in 0 .. (NDev - 1) : Succ(e.cur, k) \in link}
           steps == IF up = {} THEN NDev ELSE Min(up)
           dev   == Succ(e.cur, steps)
           passed == \E k \in 1 .. steps : Succ(e.cur, k) = e.failed
           r     == EthInit(e)
<1>1. NDev \in Nat \ {0} /\ e.cur \in Devices /\ e.cur \in Nat /\ e.cur < NDev
  BY ConstantsAre DEF EthType, Devices
<1>2. up \subseteq Nat /\ up \subseteq 0 .. NDev - 1
  BY <1>1
<1>3. steps \in 0 .. NDev /\ (up # {} => steps \in up /\ \A k \in up : steps =< k)
  <2>1. CASE up = {}
    BY <1>1, <2>1
  <2>2. CASE up # {}
    <3>1. steps = Min(up)
      BY <2>2
    <3> HIDE DEF up, steps
    <3>2. Min(up) \in up /\ \A y \in up : Min(up) =< y
      BY <1>2, <2>2, MinIs
    <3>3. steps \in up /\ \A y \in up : steps =< y
      BY <3>1, <3>2
    <3>4. steps \in 0 .. NDev
      BY <1>1, <1>2, <3>3
    <3> QED
      BY <3>3, <3>4
  <2> QED
    BY <2>1, <2>2
<1>4. dev \in Devices
  <2> HIDE DEF steps
  <2> QED
    BY <1>1, <1>3, SuccIs
<1>5. /\ r.cur = dev /\ r.failed = e.failed /\ (r.wrap <=> e.wrap \/ passed) /\ r.addr = e.addr
      /\ r.active = IF up = {} THEN e.active ELSE e.active \cup {dev}
      /\ r \in EthType
  <2> DEFINE w == e.wrap \/ passed
             a == IF up = {} THEN e.active ELSE e.active \cup {dev}
  <2>1. r = [e EXCEPT !.cur = dev, !.wrap = w, !.active = a]
    BY Zenon DEF EthInit
  <2>2. w \in BOOLEAN /\ (w <=> e.wrap \/ passed)
    BY Zenon
  <2>3. a \in SUBSET Devices
    BY <1>4 DEF EthType
  <2> HIDE DEF dev, w, a, r
  <2>4. r.cur = dev /\ r.failed = e.failed /\ r.wrap = w /\ r.addr = e.addr /\ r.active = a
    BY <2>1 DEF EthType
  <2>5. r \in EthType
    BY <1>4, <2>1, <2>2, <2>3 DEF EthType
  <2> QED
    BY <2>2, <2>4, <2>5 DEF a
<1>7. (link = {}) <=> (up = {})
  <2>1. link = {} => up = {}
    OBVIOUS
  <2>2. ASSUME NEW d \in link PROVE Dist(e.cur, d) \in up
    BY <1>1, <2>2, DistIs
  <2> HIDE DEF up
  <2>3. link # {} => up # {}
    BY <2>2
  <2> QED
    BY <2>1, <2>3
<1>8. ASSUME e.failed \in Devices
      PROVE  passed <=> \/ steps = NDev
                        \/ e.failed # e.cur /\ Dist(e.cur, e.failed) <= steps
  <2> DEFINE j == Dist(e.cur, e.failed)
  <2>1. /\ j \in 0 .. NDev - 1 /\ Succ(e.cur, j) = e.failed
        /\ \A k \in 0 .. NDev - 1 : Succ(e.cur, k) = e.failed => k = j
    BY <1>1, <1>8, DistIs
  <2>2. j = 0 <=> e.failed = e.cur
    BY <1>1, <1>8, ConstantsAre DEF Dist, Devices
  <2>3. Succ(e.cur, NDev) = e.cur
    BY <1>1, SuccIs
  <2> HIDE DEF j, steps
  <2>4. ASSUME passed PROVE steps = NDev \/ (e.failed # e.cur /\ j <= steps)
    <3>1. PICK k \in 1 .. steps : Succ(e.cur, k) = e.failed
      BY <2>4
    <3>2. k = NDev \/ k \in 0 .. NDev - 1
      BY <1>1, <1>3
    <3> QED
      BY <1>1, <1>3, <2>1, <2>2, <3>1, <3>2
  <2>5. ASSUME steps = NDev PROVE passed
    <3>1. CASE j = 0
      BY <1>1, <2>2, <2>3, <2>5, <3>1
    <3>2. CASE j # 0
      BY <1>1, <2>1, <2>5, <3>2
    <3> QED
      BY <3>1, <3>2
  <2>6. ASSUME e.failed # e.cur, j <= steps PROVE passed
    BY <1>1, <1>3, <2>1, <2>2, <2>6
  <2> QED
    BY <2>4, <2>5, <2>6 DEF j
<1>9. ASSUME link = {}
      PROVE  r.cur = e.cur /\ r.active = e.active /\ (e.failed \in Devices => r.wrap)
  <2>1. steps = NDev /\ dev = e.cur
    BY <1>1, <1>7, <1>9, SuccIs
  <2> QED
    BY <1>5, <1>7, <1>8, <1>9, <2>1
<1>10. ASSUME link # {}
       PROVE  /\ dev \in link /\ steps = Dist(e.cur, dev) /\ steps # NDev
              /\ \A d \in link : steps <= Dist(e.cur, d)
  <2>1. steps \in up /\ \A k \in up : steps =< k
    BY <1>3, <1>7, <1>10
  <2> HIDE DEF steps
  <2>2. dev \in link /\ steps \in 0 .. NDev - 1 /\ steps # NDev
    BY <1>1, <2>1
  <2>3. steps = Dist(e.cur, dev)
    <3>1. \A k \in 0 .. NDev - 1 : Succ(e.cur, k) = dev => k = Dist(e.cur, dev)
      BY <1>1, <1>4, DistIs
    <3> QED
      BY <2>2, <3>1
  <2>4. ASSUME NEW d \in link PROVE Dist(e.cur, d) \in up
    BY <1>1, <2>4, DistIs
  <2> QED
    BY <2>1, <2>2, <2>3, <2>4
<1>11. ASSUME link # {}, e.failed \notin Devices
       PROVE  ~passed
  <2>1. ASSUME NEW k \in 1 .. steps PROVE Succ(e.cur, k) \in Devices
    <3> HIDE DEF steps
    <3>1. k \in 0 .. NDev
      BY <1>1, <1>3
    <3> QED
      BY <1>1, <3>1, SuccIs
  <2> QED
    BY <1>11, <2>1
<1> HIDE DEF up, steps, dev, passed, r
<1>12. ASSUME link # {}
       PROVE  /\ r.cur \in link /\ r.active = e.active \cup {r.cur}
              /\ \A d \in link : Dist(e.cur, r.cur) <= Dist(e.cur, d)
              /\ r.wrap <=> \/ e.wrap
                            \/ /\ e.failed \in Devices /\ e.failed # e.cur
                               /\ Dist(e.cur, e.failed) <= Dist(e.cur, r.cur)
  <2>1. dev \in link /\ steps = Dist(e.cur, dev) /\ steps # NDev
    BY <1>10, <1>12
  <2>2. \A d \in link : steps <= Dist(e.cur, d)
    BY <1>10, <1>12
  <2>3. passed <=> /\ e.failed \in Devices /\ e.failed # e.cur
                   /\ Dist(e.cur, e.failed) <= steps
    <3> HIDE DEF Dist
    <3> QED
      BY <1>8, <1>11, <1>12, <2>1
  <2> QED
    BY <1>5, <1>7, <1>12, <2>1, <2>2, <2>3
<1> QED
  BY <1>5, <1>9, <1>12 DEF r

-----------------------------------------------------------------------------
(* NetStartAgain. *)

Handlers == {"none", "TFTP", "PING", "startAgain"}

LEMMA HaltIs ==
  ASSUME NEW e \in EthType
  PROVE  LET h == EthHalt(e)
         IN  /\ h \in EthType /\ h.cur = e.cur /\ h.failed = e.failed
             /\ h.wrap = e.wrap /\ h.addr = e.addr /\ h.active = e.active \ {e.cur}
BY DEF EthHalt, EthType

LEMMA TryAnotherIs ==
  ASSUME NEW e \in EthType, NEW first \in BOOLEAN
  PROVE  LET t == TryAnother(e, first)
         IN  /\ t \in EthType /\ t.addr = e.addr /\ t.active = e.active
             /\ t.cur = Succ(e.cur, 1) /\ t.failed = IF first THEN e.cur ELSE e.failed
             /\ t.wrap <=> e.wrap \/ t.failed = t.cur
<1> DEFINE failed == IF first THEN e.cur ELSE e.failed
           w == e.wrap \/ Succ(e.cur, 1) = failed
           t == TryAnother(e, first)
<1>1. t = [e EXCEPT !.cur = Succ(e.cur, 1), !.failed = failed, !.wrap = w]
  BY Zenon DEF TryAnother
<1>2. w \in BOOLEAN
  BY Zenon
<1>3. Succ(e.cur, 1) \in Devices
  <2>1. e.cur \in Devices /\ 1 \in 0 .. NDev
    BY ConstantsAre DEF EthType
  <2> QED
    BY <2>1, SuccIs
<1>4. failed \in Devices \cup {NoDevice}
  BY DEF EthType
<1> HIDE DEF failed, w, t
<1>5. /\ t.addr = e.addr /\ t.active = e.active /\ t.cur = Succ(e.cur, 1)
      /\ t.failed = failed /\ t.wrap = w
  BY <1>1 DEF EthType
<1>6. t \in EthType
  BY <1>1, <1>2, <1>3, <1>4 DEF EthType
<1>7. t.wrap <=> e.wrap \/ t.failed = t.cur
  BY <1>5, Zenon DEF w
<1> QED
  BY <1>5, <1>6, <1>7 DEF failed, t

\* The move of Retry: eth_halt, eth_try_another, eth_init.
NextDevice == EthInit(TryAnother(EthHalt(eth), ~NetRestarted))

LEMMA MovesOn ==
  ASSUME eth \in EthType, link \subseteq Devices, NetRestarted \in BOOLEAN
  PROVE  LET e == NextDevice
             n == Succ(eth.cur, 1)
         IN  /\ e \in EthType /\ e.addr = eth.addr
             /\ OnlyCurrentActive => e.active \subseteq {e.cur}
             /\ e.failed = IF NetRestarted THEN eth.failed ELSE eth.cur
             /\ link = {} => (e.failed \in Devices => e.wrap)
             /\ link # {} =>
                  /\ e.cur \in link
                  /\ \A d \in link : Dist(n, e.cur) <= Dist(n, d)
                  /\ e.wrap <=> \/ eth.wrap
                                \/ e.failed \in Devices /\ Dist(n, e.failed) <= Dist(n, e.cur)
<1> DEFINE h == EthHalt(eth)
           t == TryAnother(h, ~NetRestarted)
           e == EthInit(t)
           n == Succ(eth.cur, 1)
<1>1. /\ h \in EthType /\ h.cur = eth.cur /\ h.failed = eth.failed
      /\ h.wrap = eth.wrap /\ h.addr = eth.addr /\ h.active = eth.active \ {eth.cur}
  BY HaltIs
<1> HIDE DEF h
<1>2. /\ t \in EthType /\ t.addr = h.addr /\ t.active = h.active /\ t.cur = Succ(h.cur, 1)
      /\ t.failed = IF ~NetRestarted THEN h.cur ELSE h.failed
      /\ (t.wrap <=> h.wrap \/ t.failed = t.cur)
  <2>1. (~NetRestarted) \in BOOLEAN
    BY Zenon
  <2> QED
    BY <1>1, <2>1, TryAnotherIs
<1> HIDE DEF t
<1>3. /\ e \in EthType /\ e.addr = t.addr /\ e.failed = t.failed
      /\ link = {} => /\ e.cur = t.cur /\ e.active = t.active
                      /\ t.failed \in Devices => e.wrap
      /\ link # {} => /\ e.cur \in link /\ e.active = t.active \cup {e.cur}
                      /\ \A d \in link : Dist(t.cur, e.cur) <= Dist(t.cur, d)
                      /\ e.wrap <=> \/ t.wrap
                                    \/ /\ t.failed \in Devices /\ t.failed # t.cur
                                       /\ Dist(t.cur, t.failed) <= Dist(t.cur, e.cur)
  BY <1>2, EthInitIs
<1> HIDE DEF e
<1>4. t.cur = n /\ n \in Devices
  BY <1>1, <1>2 DEF EthType
<1>5. OnlyCurrentActive => e.active \subseteq {e.cur}
  BY <1>1, <1>2, <1>3 DEF OnlyCurrentActive
<1>6. Dist(n, n) <= Dist(n, e.cur)
  <2>1. Dist(n, e.cur) \in 0 .. NDev - 1
    BY <1>3, <1>4, DistIs DEF EthType
  <2> QED
    BY <1>4, <2>1, ConstantsAre DEF Dist, Devices
<1>7. link # {} => (e.wrap <=> \/ eth.wrap
                               \/ e.failed \in Devices /\ Dist(n, e.failed) <= Dist(n, e.cur))
  <2> HIDE DEF n
  <2> QED
    BY <1>1, <1>2, <1>3, <1>4, <1>6
<1>8. e = NextDevice
  BY DEF e, t, h, NextDevice
<1>9. e.failed = IF NetRestarted THEN eth.failed ELSE eth.cur
  BY <1>1, <1>2, <1>3
<1>10. /\ e \in EthType /\ e.addr = eth.addr
       /\ link = {} => (e.failed \in Devices => e.wrap)
       /\ link # {} => e.cur \in link /\ \A d \in link : Dist(n, e.cur) <= Dist(n, d)
  <2> HIDE DEF n
  <2> QED
    BY <1>1, <1>2, <1>3, <1>4
<1> QED
  BY <1>5, <1>7, <1>8, <1>9, <1>10

\* What NetStartAgain does to the loop.
LEMMA StartAgainIs ==
  ASSUME eth \in EthType, link \subseteq Devices, NetRestarted \in BOOLEAN, timeLeft \in Nat,
         NEW th \in Handlers, NetStartAgain(th),
         packetHandler \in {"none", "proto", "startAgain"},
         NetState \in {"continue", "restart", "success", "fail"}
  PROVE  /\ eth' \in EthType /\ eth'.addr = eth.addr
         /\ OnlyCurrentActive => OnlyCurrentActive'
         /\ NetState' \in {"continue", "restart", "success", "fail"}
         /\ timeHandler' \in Handlers /\ timeLeft' \in Nat
         /\ packetHandler' \in {"none", "proto", "startAgain"}
         /\ netretry = "no" =>
              /\ NetState' = "fail" /\ timeHandler' = th
              /\ OnlyCurrentActive => eth'.active = {}
<1>1. CASE netretry = "no" /\ GiveUp(th)
  <2>1. /\ EthHalt(eth) \in EthType /\ EthHalt(eth).addr = eth.addr
        /\ EthHalt(eth).active = eth.active \ {eth.cur}
    BY HaltIs
  <2>2. /\ eth' = EthHalt(eth) /\ NetState' = "fail" /\ timeHandler' = th
        /\ UNCHANGED <<packetHandler, timeLeft>>
    BY <1>1 DEF GiveUp
  <2> QED
    BY <2>1, <2>2 DEF OnlyCurrentActive
<1>2. CASE netretry # "no" /\ Retry(th, ~NetDevExists \/ netretry = "once")
  <2> DEFINE e == NextDevice
  <2>1. /\ e \in EthType /\ e.addr = eth.addr
        /\ OnlyCurrentActive => e.active \subseteq {e.cur}
    BY MovesOn
  <2>2. eth' = [e EXCEPT !.wrap = FALSE]
    BY <1>2 DEF Retry, NextDevice
  <2>3. /\ NetState' \in {NetState, "fail", "restart"} /\ timeHandler' \in {th, "startAgain"}
        /\ timeLeft' \in {timeLeft, RESTART_DELAY}
        /\ packetHandler' \in {packetHandler, "startAgain"}
    BY <1>2 DEF Retry
  <2> HIDE DEF e
  <2>4. /\ eth' \in EthType /\ eth'.addr = e.addr /\ eth'.active = e.active
        /\ eth'.cur = e.cur
    BY <2>1, <2>2 DEF EthType
  <2> QED
    BY <1>2, <2>1, <2>3, <2>4, ConstantsAre DEF OnlyCurrentActive, Handlers
<1> QED
  BY <1>1, <1>2 DEF NetStartAgain

-----------------------------------------------------------------------------
(* The types. *)

ArpType == [pending : BOOLEAN, try : 0 .. ARP_TIMEOUT_COUNT, left : 0 .. ARP_TIMEOUT]

\* The parts of TypeOK that the steps change together.
CtrlType ==
  /\ pc \in {"idle", "restart", "rx", "arp", "timer", "switch"} /\ polled \in Devices
  /\ link \subseteq Devices /\ rxs \in 0 .. MaxRx
CmdType ==
  /\ protocol \in Protocols /\ netretry \in Retries
  /\ NetRestarted \in BOOLEAN /\ NetDevExists \in BOOLEAN /\ wrapped \in BOOLEAN
  /\ result \in {"none", "success", "fail", "abort", "refused"}
  /\ tries \in [Devices -> 0 .. Many] /\ commands \in 0 .. MaxCommands
LoopType ==
  /\ NetState \in {"continue", "restart", "success", "fail"}
  /\ eth \in EthType
  /\ packetHandler \in {"none", "proto", "startAgain"}
  /\ timeHandler \in Handlers /\ timeLeft \in Nat
ArpsType ==
  /\ arp \in ArpType /\ serverEther \in BOOLEAN /\ asked \in BOOLEAN
  /\ TftpTimeoutCount \in Nat

LEMMA TypeParts ==
  /\ TypeOK <=> CtrlType /\ CmdType /\ LoopType /\ ArpsType
  /\ TypeOK' <=> CtrlType' /\ CmdType' /\ LoopType' /\ ArpsType'
BY Zenon DEF TypeOK, CtrlType, CmdType, LoopType, ArpsType, EthType, ArpType, Handlers

LEMMA NetLoopTypeInit == Init => TypeOK
<1> SUFFICES ASSUME Init PROVE TypeOK
  OBVIOUS
<1>1. NDev \in Nat \ {0} /\ 0 \in Devices
  BY ConstantsAre DEF Devices
<1>2. CtrlType
  BY <1>1, ConstantsAre DEF Init, CtrlType
<1>3. CmdType
  <2>1. 0 \in 0 .. Many /\ 0 \in 0 .. MaxCommands
    BY ConstantsAre DEF Many
  <2> QED
    BY <2>1 DEF Init, CmdType
<1>4. LoopType
  BY <1>1 DEF Init, LoopType, EthType, Handlers
<1>5. ArpsType
  <2>1. 0 \in 0 .. ARP_TIMEOUT_COUNT /\ 0 \in 0 .. ARP_TIMEOUT
    BY ConstantsAre
  <2>2. arp \in ArpType
    BY <2>1 DEF Init, ArpType
  <2> QED
    BY <2>2 DEF Init, ArpsType
<1> QED
  BY <1>2, <1>3, <1>4, <1>5, TypeParts

LEMMA ArpStartType ==
  ASSUME ArpStart PROVE arp' \in ArpType
BY ConstantsAre DEF ArpStart, ArpType

\* One lemma for each group of steps.
LEMMA CommandType ==
  ASSUME TypeOK, NEW p \in Protocols, NEW r \in Retries, NetLoop(p, r)
  PROVE  /\ TypeOK' /\ eth'.addr = eth.addr
         /\ OnlyCurrentActive => OnlyCurrentActive'
<1>1. CtrlType /\ CmdType /\ LoopType /\ ArpsType
  BY TypeParts
<1> DEFINE h == EthHalt(eth)
           g == [h EXCEPT !.cur = 0]
<1>2. /\ g \in EthType /\ g.addr = eth.addr
      /\ OnlyCurrentActive => g.active = {}
  <2>1. h \in EthType /\ h.addr = eth.addr /\ h.active = eth.active \ {eth.cur}
    BY <1>1, HaltIs DEF LoopType
  <2>2. 0 \in Devices
    BY ConstantsAre DEF Devices
  <2> HIDE DEF h
  <2> QED
    BY <2>1, <2>2 DEF EthType, OnlyCurrentActive
<1>3. eth' = EthInit(g)
  BY DEF NetLoop
<1> HIDE DEF g
<1>4. /\ EthInit(g) \in EthType /\ EthInit(g).addr = g.addr
      /\ link = {} => EthInit(g).active = g.active
      /\ link # {} => EthInit(g).active = g.active \cup {EthInit(g).cur}
  BY <1>1, <1>2, EthInitIs DEF CtrlType
<1>5. LoopType'
  BY <1>1, <1>3, <1>4 DEF LoopType, NetLoop
<1>6. CtrlType'
  BY <1>1 DEF NetLoop, CtrlType
<1>7. CmdType'
  <2>1. wrapped' \in BOOLEAN
    BY <1>3, <1>4 DEF NetLoop, EthType
  <2>2. commands' \in 0 .. MaxCommands
    BY <1>1, ConstantsAre DEF NetLoop, CmdType
  <2>3. tries' \in [Devices -> 0 .. Many]
    BY ConstantsAre DEF NetLoop, Many
  <2> QED
    BY <2>1, <2>2, <2>3 DEF NetLoop, CmdType
<1>8. ArpsType'
  <2>1. /\ arp' = [arp EXCEPT !.pending = FALSE] /\ asked' = FALSE
        /\ UNCHANGED <<serverEther, TftpTimeoutCount>>
    BY DEF NetLoop
  <2>2. arp' \in ArpType
    BY <1>1, <2>1 DEF ArpsType, ArpType
  <2> QED
    BY <1>1, <2>1, <2>2 DEF ArpsType
<1>9. OnlyCurrentActive => OnlyCurrentActive'
  BY <1>2, <1>3, <1>4 DEF OnlyCurrentActive
<1> QED
  BY <1>2, <1>3, <1>4, <1>5, <1>6, <1>7, <1>8, <1>9, TypeParts

\* The attempt is counted.
LEMMA StartCounts ==
  ASSUME TypeOK, Start
  PROVE  /\ tries' \in [Devices -> 0 .. Many]
         /\ \A d \in Devices \ {eth.cur} : tries'[d] = tries[d]
         /\ tries[eth.cur] = 0 => tries'[eth.cur] = 1
         /\ tries'[eth.cur] <= tries[eth.cur] + 1
<1>1. /\ tries \in [Devices -> 0 .. Many] /\ eth.cur \in Devices
      /\ tries[eth.cur] \in Nat /\ tries[eth.cur] <= Many /\ Many \in Nat /\ 1 <= Many
  BY ConstantsAre DEF TypeOK, Many
<1>2. tries' = [tries EXCEPT ![eth.cur] = Min({tries[eth.cur] + 1, Many})]
  BY DEF Start
<1>3. Min({tries[eth.cur] + 1, Many})
        = IF tries[eth.cur] + 1 <= Many THEN tries[eth.cur] + 1 ELSE Many
  BY <1>1, MinOfTwo
<1>4. /\ Min({tries[eth.cur] + 1, Many}) \in 0 .. Many
      /\ tries[eth.cur] = 0 => Min({tries[eth.cur] + 1, Many}) = 1
      /\ Min({tries[eth.cur] + 1, Many}) <= tries[eth.cur] + 1
  BY <1>1, <1>3
<1> QED
  BY <1>1, <1>2, <1>4

LEMMA NetLoopTypeStep ==
  TypeOK /\ [Next]_vars => TypeOK' /\ eth'.addr = eth.addr
<1> SUFFICES ASSUME TypeOK, [Next]_vars
             PROVE  TypeOK' /\ eth'.addr = eth.addr
  OBVIOUS
<1>0. CtrlType /\ CmdType /\ LoopType /\ ArpsType
  BY TypeParts
<1> DEFINE Typed == CtrlType' /\ CmdType' /\ LoopType' /\ ArpsType' /\ eth'.addr = eth.addr
<1> SUFFICES Typed
  BY TypeParts
<1>1. CASE Command
  BY <1>1, CommandType, TypeParts DEF Command
<1>2. CASE Start
  <2>1. CtrlType'
    BY <1>0, <1>2 DEF Start, CtrlType, LoopType, EthType
  <2>2. CmdType'
    BY <1>0, <1>2, StartCounts DEF Start, CmdType
  <2>3. ASSUME TftpStart \/ PingStart
        PROVE  /\ timeHandler' \in Handlers /\ timeLeft' \in Nat /\ packetHandler' = "proto"
               /\ ArpsType'
    <3>1. /\ timeHandler' \in {"TFTP", "PING"} /\ timeLeft' \in {TIMEOUT, PING_TIMEOUT}
          /\ packetHandler' = "proto" /\ TftpTimeoutCount' \in {0, TftpTimeoutCount} /\ ArpStart
      BY <2>3 DEF TftpStart, PingStart
    <3>2. asked' \in BOOLEAN /\ serverEther' \in BOOLEAN
      BY <1>0, <2>3, Zenon DEF TftpStart, PingStart, ArpsType
    <3>3. TftpTimeoutCount' \in Nat
      BY <1>0, <3>1 DEF ArpsType
    <3>4. arp' \in ArpType
      BY <3>1, ArpStartType
    <3> QED
      BY <3>1, <3>2, <3>3, <3>4, ConstantsAre DEF ArpsType, Handlers
  <2>4. UNCHANGED <<NetState, eth>>
    BY <1>2 DEF Start
  <2> QED
    BY <1>0, <1>2, <2>1, <2>2, <2>3, <2>4 DEF Start, LoopType
<1>3. CASE StartNoAddress
  <2>1. LoopType' /\ eth'.addr = eth.addr
    BY <1>0, <1>3, StartAgainIs DEF StartNoAddress, LoopType, CtrlType, CmdType
  <2>2. CtrlType'
    BY <1>0, <1>3, <2>1 DEF StartNoAddress, CtrlType, LoopType, EthType
  <2>3. UNCHANGED <<cmdVars, arpVars, TftpTimeoutCount>>
    BY <1>3 DEF StartNoAddress
  <2> QED
    BY <1>0, <2>1, <2>2, <2>3 DEF cmdVars, arpVars, CmdType, ArpsType
<1>4. CASE Refuse \/ EndRx \/ Abort
  <2>1. eth' \in {EthHalt(eth), RxTail(eth), EthHalt(RxTail(eth))}
    BY <1>4 DEF Refuse, EndRx, Abort
  <2>2. RxTail(eth) \in EthType /\ RxTail(eth).addr = eth.addr
    BY <1>0 DEF RxTail, EthType, LoopType, CtrlType
  <2>3. eth' \in EthType /\ eth'.addr = eth.addr
    BY <1>0, <2>1, <2>2, HaltIs DEF LoopType
  <2>4. pc' \in {"idle", "arp"} /\ result' \in {result, "abort", "refused"}
    BY <1>4 DEF Refuse, EndRx, Abort, cmdVars
  <2>5. UNCHANGED <<polled, NetState, packetHandler, timeHandler, timeLeft, arpVars,
                    protocol, netretry, NetRestarted, NetDevExists, tries, wrapped,
                    commands, TftpTimeoutCount, link, rxs>>
    BY <1>4 DEF Refuse, EndRx, Abort, cmdVars
  <2> QED
    BY <1>0, <2>3, <2>4, <2>5 DEF CtrlType, CmdType, LoopType, ArpsType, arpVars
<1>5. CASE RxArpReply \/ RxProgress \/ RxSuccess
  <2>1. CtrlType' /\ CmdType'
    <3>1. rxs' \in 0 .. MaxRx
      BY <1>0, <1>5, ConstantsAre DEF RxArpReply, RxProgress, RxSuccess, Frame, CtrlType
    <3>2. UNCHANGED <<pc, polled, link, cmdVars>>
      BY <1>5 DEF RxArpReply, RxProgress, RxSuccess
    <3> QED
      BY <1>0, <3>1, <3>2 DEF CtrlType, CmdType, cmdVars
  <2>2. LoopType' /\ eth'.addr = eth.addr
    BY <1>0, <1>5, ConstantsAre DEF RxArpReply, RxProgress, RxSuccess, LoopType, loopVars, Handlers
  <2>3. ArpsType'
    <3>1. CASE RxArpReply
      <4>1. arp' = [arp EXCEPT !.pending = FALSE] /\ asked' = TRUE /\ UNCHANGED TftpTimeoutCount
        BY <3>1 DEF RxArpReply
      <4>2. arp' \in ArpType
        BY <1>0, <4>1 DEF ArpsType, ArpType
      <4>3. serverEther' \in BOOLEAN
        BY <3>1, Zenon DEF RxArpReply
      <4> QED
        BY <1>0, <4>1, <4>2, <4>3 DEF ArpsType
    <3>2. CASE RxProgress
      BY <1>0, <3>2, ArpStartType DEF RxProgress, TftpSend, ArpsType
    <3>3. CASE RxSuccess
      BY <1>0, <3>3 DEF RxSuccess, ArpsType, arpVars
    <3> QED
      BY <1>5, <3>1, <3>2, <3>3
  <2> QED
    BY <2>1, <2>2, <2>3
<1>6. CASE RxError
  <2>1. LoopType' /\ eth'.addr = eth.addr
    BY <1>0, <1>6, StartAgainIs DEF RxError, LoopType, CtrlType, CmdType
  <2>2. CtrlType'
    BY <1>0, <1>6, ConstantsAre DEF RxError, Frame, CtrlType
  <2>3. UNCHANGED <<cmdVars, arpVars, TftpTimeoutCount>>
    BY <1>6 DEF RxError
  <2> QED
    BY <1>0, <2>1, <2>2, <2>3 DEF cmdVars, arpVars, CmdType, ArpsType
<1>7. CASE ArpTimeoutCheck
  <2>1. CtrlType' /\ CmdType'
    BY <1>0, <1>7 DEF ArpTimeoutCheck, CtrlType, CmdType, cmdVars
  <2>2. LoopType' /\ eth'.addr = eth.addr
    <3>1. UNCHANGED loopVars \/ NetStartAgain(timeHandler)
      BY <1>7 DEF ArpTimeoutCheck
    <3>2. CASE UNCHANGED loopVars
      BY <1>0, <3>2 DEF loopVars, LoopType
    <3>3. CASE NetStartAgain(timeHandler)
      BY <1>0, <3>3, StartAgainIs DEF LoopType, CtrlType, CmdType
    <3> QED
      BY <3>1, <3>2, <3>3
  <2>3. arp' \in ArpType
    <3>1. \/ arp' = arp
          \/ arp.try + 1 < ARP_TIMEOUT_COUNT /\ arp' = [arp EXCEPT !.try = @ + 1, !.left = ARP_TIMEOUT]
          \/ arp' = [arp EXCEPT !.try = 0]
      BY <1>7 DEF ArpTimeoutCheck
    <3>2. CASE arp.try + 1 < ARP_TIMEOUT_COUNT
               /\ arp' = [arp EXCEPT !.try = @ + 1, !.left = ARP_TIMEOUT]
      <4>1. arp.try + 1 \in 0 .. ARP_TIMEOUT_COUNT /\ ARP_TIMEOUT \in 0 .. ARP_TIMEOUT
        BY <1>0, <3>2, ConstantsAre DEF ArpsType, ArpType
      <4> QED
        BY <1>0, <3>2, <4>1 DEF ArpsType, ArpType
    <3>3. CASE arp' = [arp EXCEPT !.try = 0]
      <4>1. 0 \in 0 .. ARP_TIMEOUT_COUNT
        BY ConstantsAre
      <4> QED
        BY <1>0, <3>3, <4>1 DEF ArpsType, ArpType
    <3> QED
      BY <1>0, <3>1, <3>2, <3>3 DEF ArpsType
  <2>4. UNCHANGED <<serverEther, asked, TftpTimeoutCount>>
    BY <1>7 DEF ArpTimeoutCheck
  <2> QED
    BY <1>0, <2>1, <2>2, <2>3, <2>4 DEF ArpsType
<1>8. CASE TimerCheck
  <2>1. CtrlType' /\ CmdType'
    BY <1>0, <1>8 DEF TimerCheck, CtrlType, CmdType, cmdVars
  <2>2. CASE TftpTimeout
    <3>1. CASE NetStartAgain("none") /\ UNCHANGED <<arp, asked>>
      <4>1. LoopType' /\ eth'.addr = eth.addr
        BY <1>0, <3>1, StartAgainIs DEF LoopType, CtrlType, CmdType, Handlers
      <4> QED
        BY <1>0, <2>1, <2>2, <3>1, <4>1 DEF TftpTimeout, ArpsType
    <3>2. CASE ~(NetStartAgain("none") /\ UNCHANGED <<arp, asked>>)
      <4>1. /\ timeHandler' = "TFTP" /\ timeLeft' = TIMEOUT
            /\ UNCHANGED <<NetState, eth, packetHandler, serverEther>>
            /\ TftpTimeoutCount' = TftpTimeoutCount + 1
            /\ (asked' = TRUE /\ UNCHANGED arp) \/ (ArpStart /\ UNCHANGED asked)
        BY <2>2, <3>2 DEF TftpTimeout, TftpSend
      <4>2. ArpsType'
        <5>1. arp' \in ArpType
          BY <1>0, <4>1, ArpStartType DEF ArpsType
        <5>2. asked' \in BOOLEAN /\ serverEther' \in BOOLEAN
          BY <1>0, <4>1, Zenon DEF ArpsType
        <5>3. TftpTimeoutCount' \in Nat
          BY <1>0, <4>1 DEF ArpsType
        <5> QED
          BY <5>1, <5>2, <5>3 DEF ArpsType
      <4>3. LoopType'
        BY <1>0, <4>1, ConstantsAre DEF LoopType, Handlers
      <4> QED
        BY <2>1, <4>1, <4>2, <4>3
    <3> QED
      BY <3>1, <3>2
  <2>3. CASE PingTimeout
    <3>1. LoopType' /\ eth'.addr = eth.addr
      BY <1>0, <2>3, HaltIs DEF PingTimeout, LoopType, Handlers
    <3> QED
      BY <1>0, <2>1, <2>3, <3>1 DEF PingTimeout, ArpsType, arpVars
  <2>4. CASE StartAgainTimeout \/ UNCHANGED <<loopVars, arpVars, TftpTimeoutCount>>
    BY <1>0, <2>1, <2>4 DEF StartAgainTimeout, ArpsType, LoopType, loopVars, arpVars, Handlers
  <2> QED
    BY <1>8, <2>2, <2>3, <2>4 DEF TimerCheck
<1>9. CASE Switch
  <2>1. eth' \in {eth, EthHalt(eth)}
    BY <1>9 DEF Switch
  <2>2. eth' \in EthType /\ eth'.addr = eth.addr
    BY <1>0, <2>1, HaltIs DEF LoopType
  <2>3. /\ pc' \in {"rx", "restart", "idle"} /\ polled' \in {polled, eth.cur}
        /\ NetState' \in {NetState, "continue"} /\ result' \in {result, "success", "fail"}
    BY <1>9 DEF Switch
  <2>4. UNCHANGED <<packetHandler, timeHandler, timeLeft, arpVars, protocol, netretry,
                    NetDevExists, tries, wrapped, commands, TftpTimeoutCount, link, rxs>>
    BY <1>9 DEF Switch
  <2>5. eth.cur \in Devices
    BY <1>0 DEF LoopType, EthType
  <2>6. NetRestarted' \in BOOLEAN
    BY <1>0, <1>9, Zenon DEF Switch, CmdType
  <2>7. CtrlType' /\ LoopType'
    BY <1>0, <2>2, <2>3, <2>4, <2>5 DEF CtrlType, LoopType
  <2>8. CmdType' /\ ArpsType'
    BY <1>0, <2>3, <2>4, <2>6 DEF CmdType, ArpsType, arpVars
  <2> QED
    BY <2>2, <2>7, <2>8
<1>10. CASE Tick
  <2>1. arp' \in ArpType
    <3>1. arp' = [arp EXCEPT !.left = IF @ = 0 THEN 0 ELSE @ - 1]
      BY <1>10 DEF Tick
    <3> QED
      BY <1>0, <3>1, ConstantsAre DEF ArpsType, ArpType
  <2>2. timeLeft' \in Nat
    BY <1>0, <1>10 DEF Tick, LoopType
  <2>3. UNCHANGED <<pc, polled, NetState, eth, packetHandler, timeHandler, serverEther, asked,
                    cmdVars, TftpTimeoutCount, link, rxs>>
    BY <1>10 DEF Tick
  <2> QED
    BY <1>0, <2>1, <2>2, <2>3 DEF CtrlType, CmdType, LoopType, ArpsType, cmdVars
<1>11. CASE BetweenCommands
  BY <1>0, <1>11 DEF BetweenCommands, CtrlType, CmdType, LoopType, ArpsType, cmdVars, arpVars
<1>12. CASE UNCHANGED vars
  BY <1>0, <1>12 DEF vars, CtrlType, CmdType, LoopType, ArpsType, cmdVars, arpVars, loopVars
<1> QED
  BY <1>1, <1>2, <1>3, <1>4, <1>5, <1>6, <1>7, <1>8, <1>9, <1>10, <1>11, <1>12
  DEF Next, Loop, Receive, Done

\* Every variable of net.c and eth.c that the loop uses keeps its type,
\* whatever frames, time-outs, restarts and commands follow each other: the
\* current device is a device, NetArpWaitTry does not pass its limit.
THEOREM NetLoopTypeCorrect == Spec => []TypeOK
<1>1. TypeOK /\ [Next]_vars => TypeOK'
  BY NetLoopTypeStep
<1> QED
  BY <1>1, NetLoopTypeInit, PTL DEF Spec

-----------------------------------------------------------------------------
(* netretry = no. *)

LEMMA OneInvInit == Init => OneInv
BY DEF Init, OneInv, OneAttempt

LEMMA OneInvStep == TypeOK /\ OneInv /\ [Next]_vars => OneInv'
<1> SUFFICES ASSUME TypeOK, OneInv, [Next]_vars
             PROVE  OneInv'
  OBVIOUS
<1>0. CtrlType /\ CmdType /\ LoopType /\ ArpsType
  BY TypeParts
<1>1. CASE Command
  <2>1. /\ tries' = [d \in Devices |-> 0] /\ NetState' = "continue"
    BY <1>1 DEF Command, NetLoop
  <2> QED
    BY <2>1 DEF OneInv, OneAttempt
<1>2. CASE Start
  <2>1. /\ pc' = "rx" /\ timeHandler' \in {"TFTP", "PING"} /\ NetState = "continue"
        /\ UNCHANGED <<NetState, netretry>> /\ pc = "restart"
    BY <1>2 DEF Start, TftpStart, PingStart, OneInv
  <2>2. netretry = "no" => \A d \in Devices : tries[d] = 0
    BY <2>1 DEF OneInv
  <2>3. /\ \A d \in Devices \ {eth.cur} : tries'[d] = tries[d]
        /\ tries[eth.cur] = 0 => tries'[eth.cur] = 1
        /\ eth.cur \in Devices
    BY <1>0, <1>2, StartCounts DEF LoopType, EthType
  <2>4. netretry = "no" => /\ tries'[eth.cur] = 1
                           /\ \A d \in Devices \ {eth.cur} : tries'[d] = 0
    BY <2>2, <2>3
  <2>5. OneAttempt'
    BY <2>1, <2>4 DEF OneAttempt
  <2> QED
    BY <2>1, <2>5 DEF OneInv
<1>3. ASSUME NEW th \in {timeHandler, "none"}, NetStartAgain(th), pc' # "restart",
             UNCHANGED <<netretry, tries>>
      PROVE  OneInv'
  <2>1. th \in Handlers
    BY <1>0, <1>3 DEF LoopType, Handlers
  <2>2. netretry = "no" => NetState' = "fail" /\ timeHandler' = th
    BY <1>0, <1>3, <2>1, StartAgainIs DEF LoopType, CtrlType, CmdType
  <2> QED
    BY <1>3, <2>2 DEF OneInv, OneAttempt
<1>4. CASE StartNoAddress \/ RxError
  BY <1>3, <1>4 DEF StartNoAddress, RxError, Frame, cmdVars
<1>5. CASE Refuse \/ EndRx \/ Abort \/ RxArpReply \/ RxProgress \/ RxSuccess \/ Tick
           \/ BetweenCommands
  <2>1. /\ pc' # "restart" /\ UNCHANGED <<netretry, tries>>
        /\ NetState' \in {NetState, "success"} /\ timeHandler' \in {timeHandler, "TFTP"}
    BY <1>5 DEF Refuse, EndRx, Abort, RxArpReply, RxProgress, RxSuccess, Tick, BetweenCommands,
                Frame, cmdVars, loopVars
  <2> QED
    BY <2>1 DEF OneInv, OneAttempt
<1>6. CASE ArpTimeoutCheck
  <2>1. pc' # "restart" /\ UNCHANGED <<netretry, tries>>
    BY <1>6 DEF ArpTimeoutCheck, cmdVars
  <2>2. UNCHANGED loopVars \/ NetStartAgain(timeHandler)
    BY <1>6 DEF ArpTimeoutCheck
  <2>3. CASE UNCHANGED loopVars
    BY <2>1, <2>3 DEF OneInv, OneAttempt, loopVars
  <2> QED
    BY <1>3, <2>1, <2>2, <2>3
<1>7. CASE TimerCheck
  <2>1. pc' # "restart" /\ UNCHANGED <<netretry, tries>>
    BY <1>7 DEF TimerCheck, cmdVars
  <2>2. \/ NetStartAgain("none")
        \/ UNCHANGED NetState /\ timeHandler' \in {timeHandler, "TFTP"}
        \/ NetState' = "fail" /\ timeHandler' = "none"
        \/ timeHandler = "startAgain" /\ timeHandler' = "none"
    BY <1>7 DEF TimerCheck, TftpTimeout, PingTimeout, StartAgainTimeout, loopVars
  <2>3. CASE NetStartAgain("none")
    BY <1>3, <2>1, <2>3
  <2> QED
    BY <2>1, <2>2, <2>3 DEF OneInv, OneAttempt
<1>8. CASE Switch
  <2>1. /\ UNCHANGED <<netretry, tries, timeHandler>>
        /\ \/ pc' \in {"rx", "idle"} /\ UNCHANGED NetState
           \/ NetState = "restart" /\ NetState' = "continue"
    BY <1>8 DEF Switch
  <2> QED
    BY <2>1 DEF OneInv, OneAttempt
<1>9. CASE UNCHANGED vars
  BY <1>9 DEF vars, OneInv, OneAttempt, cmdVars, loopVars
<1> QED
  BY <1>1, <1>2, <1>4, <1>5, <1>6, <1>7, <1>8, <1>9 DEF Next, Loop, Receive, Done

\* With netretry = no NetLoop makes one attempt, on one device: NetStartAgain
\* ends the command, and the timer of a command that was aborted while it
\* waited to start again can only bring it back to a device it cannot use.
THEOREM NetLoopOneAttempt == Spec => []OneAttempt
<1>1. TypeOK /\ OneInv /\ [Next]_vars => TypeOK' /\ OneInv'
  BY NetLoopTypeStep, OneInvStep
<1>2. Init => TypeOK /\ OneInv
  BY NetLoopTypeInit, OneInvInit
<1>3. OneInv => OneAttempt
  BY DEF OneInv
<1> QED
  BY <1>1, <1>2, <1>3, PTL DEF Spec

-----------------------------------------------------------------------------
(* The receivers. *)

LEMMA PolledInit == Init => PolledInv
BY DEF Init, PolledInv, OnlyCurrentActive

LEMMA PolledStep == TypeOK /\ PolledInv /\ [Next]_vars => PolledInv'
<1> SUFFICES ASSUME TypeOK, PolledInv, [Next]_vars, rxs' = 0
             PROVE  OnlyCurrentActive' /\ (pc' = "rx" => polled' = eth'.cur)
  BY DEF PolledInv
<1>0. CtrlType /\ CmdType /\ LoopType /\ ArpsType
  BY TypeParts
<1>1. CASE Receive
  BY <1>0, <1>1 DEF Receive, RxArpReply, RxProgress, RxSuccess, RxError, Frame, CtrlType
<1>2. CASE ~Receive
  <2>1. rxs = 0
    BY <1>2 DEF Next, Command, NetLoop, Loop, Start, StartNoAddress, Refuse, EndRx,
       ArpTimeoutCheck, TimerCheck, Switch, Tick, Abort, BetweenCommands, Done, vars
  <2>2. OnlyCurrentActive /\ (pc = "rx" => polled = eth.cur)
    BY <2>1 DEF PolledInv
  <2>3. CASE Command
    BY <2>2, <2>3, CommandType DEF Command, NetLoop
  <2>4. ASSUME NEW th \in {timeHandler, "none"}, NetStartAgain(th)
        PROVE  OnlyCurrentActive'
    <3>1. th \in Handlers
      BY <1>0, <2>4 DEF LoopType, Handlers
    <3> QED
      BY <1>0, <2>2, <2>4, <3>1, StartAgainIs DEF LoopType, CtrlType, CmdType
  <2>5. CASE Start \/ StartNoAddress
    BY <2>2, <2>4, <2>5 DEF Start, StartNoAddress, OnlyCurrentActive
  <2>6. CASE Refuse \/ (PingTimeout /\ pc' = "switch")
    BY <1>0, <2>2, <2>6, HaltIs DEF Refuse, PingTimeout, OnlyCurrentActive, LoopType
  <2>7. CASE EndRx \/ Abort
    <3>1. polled = eth.cur /\ pc' # "rx"
      BY <2>2, <2>7 DEF EndRx, Abort
    <3>2. /\ RxTail(eth) \in EthType /\ RxTail(eth).cur = eth.cur
          /\ RxTail(eth).active = eth.active \cup {polled}
      BY <1>0 DEF RxTail, EthType, LoopType, CtrlType
    <3>3. eth' \in {RxTail(eth), EthHalt(RxTail(eth))}
      BY <2>7 DEF EndRx, Abort
    <3>4. eth'.cur = eth.cur /\ eth'.active \subseteq eth.active \cup {polled}
      BY <3>2, <3>3, HaltIs
    <3> QED
      BY <2>2, <3>1, <3>4 DEF OnlyCurrentActive
  <2>8. CASE ArpTimeoutCheck
    <3>1. pc' = "timer" /\ (NetStartAgain(timeHandler) \/ UNCHANGED eth)
      BY <2>8 DEF ArpTimeoutCheck, loopVars
    <3> QED
      BY <2>2, <2>4, <3>1 DEF OnlyCurrentActive
  <2>9. CASE TimerCheck
    <3>1. pc' = "switch" /\ (NetStartAgain("none") \/ PingTimeout \/ UNCHANGED eth)
      BY <2>9 DEF TimerCheck, TftpTimeout, StartAgainTimeout, loopVars
    <3> QED
      BY <2>2, <2>4, <2>6, <3>1 DEF OnlyCurrentActive
  <2>10. CASE Switch
    <3>1. eth' \in {eth, EthHalt(eth)} /\ (pc' = "rx" => polled' = eth.cur /\ UNCHANGED eth)
      BY <2>10 DEF Switch
    <3>2. eth'.cur = eth.cur /\ eth'.active \subseteq eth.active
      BY <1>0, <3>1, HaltIs DEF LoopType
    <3> QED
      BY <2>2, <3>1, <3>2 DEF OnlyCurrentActive
  <2>11. CASE Tick \/ BetweenCommands \/ UNCHANGED vars
    BY <2>2, <2>11 DEF Tick, BetweenCommands, vars, loopVars, OnlyCurrentActive
  <2> QED
    <3>1. \/ Command \/ Start \/ StartNoAddress \/ Refuse \/ EndRx \/ Abort
          \/ ArpTimeoutCheck \/ TimerCheck \/ Switch \/ Tick \/ BetweenCommands
          \/ UNCHANGED vars
      BY <1>2 DEF Next, Loop, Done
    <3> QED
      BY <2>3, <2>5, <2>6, <2>7, <2>8, <2>9, <2>10, <2>11, <3>1
<1> QED
  BY <1>1, <1>2

\* A behaviour without a frame has had none before, nor this step.
LEMMA SilentBefore ==
  ASSUME TypeOK, [Next]_vars, rxs' = 0
  PROVE  /\ rxs = 0 /\ (Silent' => Silent)
         /\ \/ Command \/ Start \/ StartNoAddress \/ Refuse \/ EndRx \/ Abort
            \/ ArpTimeoutCheck \/ TimerCheck \/ Switch \/ Tick \/ BetweenCommands
            \/ UNCHANGED vars
<1>1. ~Receive
  <2>1. rxs \in Nat
    BY ConstantsAre DEF TypeOK
  <2> QED
    BY <2>1 DEF Receive, RxArpReply, RxProgress, RxSuccess, RxError, Frame
<1>2. \/ Command \/ Start \/ StartNoAddress \/ Refuse \/ EndRx \/ Abort
      \/ ArpTimeoutCheck \/ TimerCheck \/ Switch \/ Tick \/ BetweenCommands
      \/ UNCHANGED vars
  BY <1>1 DEF Next, Loop, Done
<1>3. rxs = 0
  BY <1>2 DEF Command, NetLoop, Start, StartNoAddress, Refuse, EndRx,
     ArpTimeoutCheck, TimerCheck, Switch, Tick, Abort, BetweenCommands, vars
<1>4. Silent' => Silent
  BY <1>3, NetLoopTypeStep DEF Silent
<1> QED
  BY <1>2, <1>3, <1>4

LEMMA HaltInit == Init => HaltInv
BY DEF Init, HaltInv, HaltedOnReturn

LEMMA HaltStep == TypeOK /\ PolledInv /\ HaltInv /\ [Next]_vars => HaltInv'
<1> SUFFICES ASSUME TypeOK, PolledInv, HaltInv, [Next]_vars, Silent'
             PROVE  /\ pc' \in {"restart", "rx", "arp"} => NetState' = "continue"
                    /\ (netretry' = "no" /\ NetState' = "fail" /\ pc' \in {"timer", "switch"}) =>
                         eth'.active = {}
                    /\ HaltedOnReturn'
  BY DEF HaltInv
<1>0. CtrlType /\ CmdType /\ LoopType /\ ArpsType
  BY TypeParts
<1>1. rxs' = 0
  BY DEF Silent
<1>2. Silent /\ rxs = 0
  BY <1>1, SilentBefore
<1>3. OnlyCurrentActive /\ (pc = "rx" => polled = eth.cur)
  BY <1>2 DEF PolledInv
<1>4. /\ pc \in {"restart", "rx", "arp"} => NetState = "continue"
      /\ (netretry = "no" /\ NetState = "fail" /\ pc \in {"timer", "switch"}) => eth.active = {}
      /\ HaltedOnReturn
  BY <1>2 DEF HaltInv
<1>5. CASE Command \/ Start \/ EndRx
  BY <1>4, <1>5 DEF Command, NetLoop, Start, EndRx, HaltedOnReturn
<1>6. ~StartNoAddress
  BY <1>0, <1>2 DEF StartNoAddress, Silent, LoopType, EthType
<1>7. CASE Refuse
  <2>1. eth'.active = {}
    BY <1>0, <1>3, <1>7, HaltIs DEF Refuse, LoopType, OnlyCurrentActive
  <2> QED
    BY <1>7, <2>1 DEF Refuse, HaltedOnReturn
<1>8. CASE Abort
  <2>1. /\ RxTail(eth) \in EthType /\ RxTail(eth).cur = eth.cur
        /\ RxTail(eth).active = eth.active \cup {polled}
    BY <1>0 DEF RxTail, EthType, LoopType, CtrlType
  <2>2. eth'.active = {}
    BY <1>3, <1>8, <2>1, HaltIs DEF Abort, OnlyCurrentActive
  <2> QED
    BY <1>8, <2>2 DEF Abort, HaltedOnReturn
<1>9. ASSUME NEW th \in {timeHandler, "none"}, NetStartAgain(th), netretry = "no"
      PROVE  eth'.active = {}
  <2>1. th \in Handlers
    BY <1>0, <1>9 DEF LoopType, Handlers
  <2> QED
    BY <1>0, <1>3, <1>9, <2>1, StartAgainIs DEF LoopType, CtrlType, CmdType
<1>10. CASE ArpTimeoutCheck
  <2>1. /\ pc = "arp" /\ pc' = "timer" /\ UNCHANGED netretry
        /\ NetStartAgain(timeHandler) \/ UNCHANGED NetState
    BY <1>10 DEF ArpTimeoutCheck, loopVars, cmdVars
  <2> QED
    BY <1>4, <1>9, <2>1 DEF HaltedOnReturn
<1>11. CASE TimerCheck
  <2>1. /\ pc = "timer" /\ pc' = "switch" /\ UNCHANGED netretry
        /\ \/ NetStartAgain("none") \/ PingTimeout
           \/ UNCHANGED <<NetState, eth>> \/ NetState' = "restart"
    BY <1>11 DEF TimerCheck, TftpTimeout, StartAgainTimeout, loopVars, cmdVars
  <2>2. CASE PingTimeout
    <3>1. eth'.active = {}
      BY <1>0, <1>3, <2>2, HaltIs DEF PingTimeout, LoopType, OnlyCurrentActive
    <3> QED
      BY <2>1, <3>1 DEF HaltedOnReturn
  <2> QED
    BY <1>4, <1>9, <2>1, <2>2 DEF HaltedOnReturn
<1>12. CASE Switch
  <2>1. EthHalt(eth).active = {}
    BY <1>0, <1>3, HaltIs DEF LoopType, OnlyCurrentActive
  <2>2. /\ pc = "switch" /\ UNCHANGED netretry
        /\ \/ pc' \in {"rx", "restart"} /\ NetState' = "continue"
           \/ pc' = "idle" /\ eth' = EthHalt(eth)
           \/ pc' = "idle" /\ NetState = "fail" /\ result' = "fail" /\ UNCHANGED eth
    BY <1>12 DEF Switch
  <2> QED
    BY <1>4, <2>1, <2>2 DEF HaltedOnReturn
<1>13. CASE Tick \/ BetweenCommands \/ UNCHANGED vars
  <2>1. UNCHANGED <<pc, NetState, eth, netretry, result>>
    BY <1>13 DEF Tick, BetweenCommands, vars, loopVars, cmdVars
  <2> QED
    BY <1>4, <2>1 DEF HaltedOnReturn
<1> QED
  BY <1>1, <1>5, <1>6, <1>7, <1>8, <1>10, <1>11, <1>12, <1>13, SilentBefore

\* For any number of devices, commands and netretry: as long as no frame has
\* been received only the current device receives, and if every device has
\* an address a command that ends leaves none receiving, but for one that
\* failed after the eth_init of NetStartAgain.
SilentReceivers ==
  /\ rxs = 0 => OnlyCurrentActive
  /\ (rxs = 0 /\ eth.addr = Devices) => HaltedOnReturn

\* The receivers of a command without a frame, as eth_halt and eth_init leave them.
THEOREM NetLoopSilentReceivers == Spec => []SilentReceivers
<1> DEFINE Inv == TypeOK /\ PolledInv /\ HaltInv
<1>1. Init => Inv
  BY NetLoopTypeInit, PolledInit, HaltInit
<1>2. Inv /\ [Next]_vars => Inv'
  BY NetLoopTypeStep, PolledStep, HaltStep
<1>3. Inv => SilentReceivers
  BY DEF PolledInv, HaltInv, SilentReceivers, Silent
<1> QED
  BY <1>1, <1>2, <1>3, PTL DEF Spec

-----------------------------------------------------------------------------
(* The ARP wait ends before the timer of the protocol. *)

\* ARP gives up before tftp.c times out: 2 * 2 < 5 seconds.
ArpGivesUpFirst == ARP_TIMEOUT * ARP_TIMEOUT_COUNT < TIMEOUT

LEMMA BudgetIs ==
  ASSUME NEW try \in 0 .. ARP_TIMEOUT_COUNT
  PROVE  /\ ARP_TIMEOUT * (ARP_TIMEOUT_COUNT - try) \in Nat
         /\ ARP_TIMEOUT * (ARP_TIMEOUT_COUNT - try)
              = ARP_TIMEOUT + ARP_TIMEOUT * (ARP_TIMEOUT_COUNT - (try + 1))
         /\ ARP_TIMEOUT + ARP_TIMEOUT * (ARP_TIMEOUT_COUNT - 1) = ARP_TIMEOUT * ARP_TIMEOUT_COUNT
<1>1. /\ ARP_TIMEOUT \in Nat /\ ARP_TIMEOUT_COUNT \in Nat /\ try \in Nat
      /\ ARP_TIMEOUT_COUNT - try \in Nat
  BY ConstantsAre
<1>2. \A m, n \in Nat : m * n \in Nat
  OBVIOUS
<1>3. \A a, b, c \in Int : a * (b - c) = a + a * (b - (c + 1))
  OBVIOUS
<1>4. \A a, b \in Int : a + a * (b - 1) = a * b
  OBVIOUS
<1> QED
  BY <1>1, <1>2, <1>3, <1>4

\* While it waits the timer has time left.
LEMMA WaitsLeft ==
  ASSUME TypeOK, Waits
  PROVE  timeLeft \in Nat /\ arp.left \in Nat /\ arp.left < timeLeft
<1>1. arp.try \in 0 .. ARP_TIMEOUT_COUNT /\ arp.left \in 0 .. ARP_TIMEOUT /\ timeLeft \in Nat
  BY DEF TypeOK
<1>2. PICK b \in Nat : b = ARP_TIMEOUT * (ARP_TIMEOUT_COUNT - arp.try)
  BY <1>1, BudgetIs
<1> QED
  BY <1>1, <1>2, ConstantsAre DEF Waits

LEMMA WaitInit == Init => WaitInv
BY DEF Init, WaitInv, SilentOnce

LEMMA WaitStep ==
  ASSUME ArpGivesUpFirst, TypeOK, HaltInv, WaitInv, [Next]_vars
  PROVE  WaitInv'
<1> SUFFICES ASSUME SilentOnce'
             PROVE  /\ (pc' \in {"rx", "arp", "timer", "switch"} /\ NetState' = "continue") => Waits'
                    /\ pc' = "timer" => ~TimeDue'
  BY DEF WaitInv
<1>0. CtrlType /\ CmdType /\ LoopType /\ ArpsType
  BY TypeParts
<1>1. rxs' = 0 /\ Silent'
  BY DEF SilentOnce, Silent
<1>2. Silent /\ rxs = 0
  BY <1>1, SilentBefore
<1>3. pc \in {"restart", "rx", "arp"} => NetState = "continue"
  BY <1>2 DEF HaltInv
<1>4. CASE Command \/ BetweenCommands
  BY <1>4 DEF Command, NetLoop, BetweenCommands, SilentOnce
<1>5. ~StartNoAddress
  BY <1>0, <1>2 DEF StartNoAddress, Silent, LoopType, EthType
<1>6. CASE Refuse \/ Abort
  BY <1>6 DEF Refuse, Abort, SilentOnce
<1>7. CASE Start
  <2>1. TftpStart /\ pc' = "rx"
    BY <1>7 DEF Start, SilentOnce
  <2>2. /\ timeHandler' = "TFTP" /\ timeLeft' = TIMEOUT /\ arp'.pending = TRUE
        /\ arp'.try = 1 /\ arp'.left = ARP_TIMEOUT
    BY <2>1 DEF TftpStart, ArpStart
  <2>3. ARP_TIMEOUT + ARP_TIMEOUT * (ARP_TIMEOUT_COUNT - 1) < TIMEOUT
    <3>1. 0 \in 0 .. ARP_TIMEOUT_COUNT
      BY ConstantsAre
    <3>2. ARP_TIMEOUT + ARP_TIMEOUT * (ARP_TIMEOUT_COUNT - 1) = ARP_TIMEOUT * ARP_TIMEOUT_COUNT
      BY <3>1, BudgetIs
    <3> QED
      BY <3>2 DEF ArpGivesUpFirst
  <2> QED
    BY <2>1, <2>2, <2>3 DEF Waits
<1>8. ASSUME ~Start, ~Command
      PROVE  SilentOnce \/ pc = "idle"
  <2>1. UNCHANGED <<protocol, netretry>>
    BY <1>1, <1>5, <1>8, SilentBefore
    DEF Refuse, EndRx, Abort, ArpTimeoutCheck, TimerCheck, Switch, Tick, BetweenCommands,
        vars, cmdVars
  <2> QED
    BY <1>2, <2>1 DEF SilentOnce
<1>9. CASE EndRx
  <2>1. SilentOnce /\ Waits
    BY <1>3, <1>8, <1>9 DEF EndRx, Command, NetLoop, Start, WaitInv
  <2> QED
    BY <1>9, <2>1 DEF EndRx, Waits, arpVars
<1>10. CASE ArpTimeoutCheck
  <2>1. SilentOnce /\ Waits /\ pc' = "timer" /\ netretry = "once"
    BY <1>3, <1>8, <1>10 DEF ArpTimeoutCheck, Command, NetLoop, Start, WaitInv, SilentOnce
  <2>2. timeLeft \in Nat /\ arp.left \in Nat /\ arp.left < timeLeft
    BY <2>1, WaitsLeft
  <2>3. CASE UNCHANGED <<loopVars, arp>>
    BY <2>1, <2>2, <2>3 DEF Waits, loopVars, TimeDue
  <2>4. CASE arp' = [arp EXCEPT !.try = @ + 1, !.left = ARP_TIMEOUT] /\ UNCHANGED loopVars
             /\ arp.left = 0
    <3>1. arp.try \in 0 .. ARP_TIMEOUT_COUNT
      BY <1>0 DEF ArpsType, ArpType
    <3>2. /\ arp'.pending = arp.pending /\ arp'.try = arp.try + 1 /\ arp'.left = ARP_TIMEOUT
      BY <1>0, <2>4 DEF ArpsType, ArpType
    <3>3. /\ ARP_TIMEOUT * (ARP_TIMEOUT_COUNT - arp.try)
              = ARP_TIMEOUT + ARP_TIMEOUT * (ARP_TIMEOUT_COUNT - (arp.try + 1))
          /\ ARP_TIMEOUT * (ARP_TIMEOUT_COUNT - arp.try) \in Nat
      BY <3>1, BudgetIs
    <3>4. ARP_TIMEOUT * (ARP_TIMEOUT_COUNT - arp.try) < timeLeft
      BY <2>1, <2>4, <3>3 DEF Waits
    <3>5. UNCHANGED <<timeHandler, timeLeft>>
      BY <2>4 DEF loopVars
    <3> QED
      BY <2>1, <2>2, <3>2, <3>3, <3>4, <3>5 DEF Waits, TimeDue
  <2>5. CASE NetStartAgain(timeHandler)
    <3>1. NetState' \in {"fail", "restart"} /\ timeLeft' = timeLeft
      BY <2>1, <2>5 DEF NetStartAgain, Retry
    <3> QED
      BY <2>1, <2>2, <3>1 DEF TimeDue
  <2> QED
    BY <1>10, <2>3, <2>4, <2>5 DEF ArpTimeoutCheck, ArpDue
<1>11. CASE TimerCheck
  <2>1. SilentOnce /\ ~TimeDue /\ pc = "timer" /\ pc' = "switch"
    BY <1>8, <1>11 DEF TimerCheck, Command, NetLoop, Start, WaitInv
  <2>2. UNCHANGED <<loopVars, arpVars>>
    BY <1>11, <2>1 DEF TimerCheck
  <2> QED
    BY <2>1, <2>2 DEF WaitInv, Waits, loopVars, arpVars
<1>12. CASE Switch
  <2>1. SilentOnce /\ pc = "switch"
    BY <1>8, <1>12 DEF Switch, Command, NetLoop, Start
  <2> QED
    BY <1>12, <2>1 DEF Switch, WaitInv, Waits, SilentOnce, arpVars
<1>13. CASE Tick
  <2>1. SilentOnce /\ Waits /\ pc = "rx" /\ pc' = "rx"
    BY <1>3, <1>8, <1>13 DEF Tick, Command, NetLoop, Start, WaitInv
  <2>2. timeLeft \in Nat /\ arp.left \in Nat /\ arp.left < timeLeft
    BY <2>1, WaitsLeft
  <2>3. arp.left # 0
    BY <1>13, <2>1 DEF Tick, SomethingToDo, ArpDue, Waits
  <2>4. /\ timeLeft' = timeLeft - 1 /\ UNCHANGED timeHandler
        /\ arp'.left = arp.left - 1 /\ arp'.try = arp.try /\ arp'.pending = arp.pending
    BY <1>0, <1>13, <2>2, <2>3 DEF Tick, ArpsType, ArpType
  <2>5. PICK b \in Nat : b = ARP_TIMEOUT * (ARP_TIMEOUT_COUNT - arp.try)
    BY <1>0, BudgetIs DEF ArpsType, ArpType
  <2>6. /\ arp.pending /\ timeHandler = "TFTP" /\ arp.left + b < timeLeft
    BY <2>1, <2>5 DEF Waits
  <2>7. (arp.left - 1) + b < timeLeft - 1
    BY <2>2, <2>6
  <2> QED
    BY <2>1, <2>4, <2>5, <2>6, <2>7 DEF Waits
<1>14. CASE UNCHANGED vars
  <2>1. UNCHANGED <<pc, NetState, eth, rxs, protocol, netretry, timeHandler, timeLeft, arp>>
    BY <1>14 DEF vars, loopVars, arpVars, cmdVars
  <2> QED
    BY <2>1 DEF WaitInv, SilentOnce, Silent, Waits, TimeDue
<1> QED
  BY <1>1, <1>4, <1>5, <1>6, <1>7, <1>9, <1>10, <1>11, <1>12, <1>13, <1>14, SilentBefore

-----------------------------------------------------------------------------
(* The ring of devices with netretry = once. *)

\* From the device n after c, w is the nearest device with a link: seen from f,
\* the devices with a link up to c are those before w, unless w is f.
LEMMA NearestIs ==
  ASSUME NEW f \in Devices, NEW c \in Devices, NEW w \in Devices, NEW d \in Devices,
         NEW n \in Devices, n = Succ(c, 1),
         Dist(n, w) <= Dist(n, d), Dist(n, w) <= Dist(n, f)
  PROVE  /\ w # f => (Dist(f, d) <= Dist(f, c) <=> Dist(f, d) < Dist(f, w))
         /\ w = f => Dist(f, d) <= Dist(f, c)
<1>1. /\ NDev \in Nat \ {0} /\ f \in Nat /\ c \in Nat /\ w \in Nat /\ d \in Nat /\ n \in Nat
      /\ f < NDev /\ c < NDev /\ w < NDev /\ d < NDev
  BY ConstantsAre DEF Devices
<1>2. n = IF c + 1 < NDev THEN c + 1 ELSE (c + 1) - NDev
  <2>1. 1 \in 0 .. NDev
    BY <1>1
  <2> QED
    BY <2>1, SuccIs
<1>3. w # f => (Dist(f, d) <= Dist(f, c) <=> Dist(f, d) < Dist(f, w))
  BY <1>1, <1>2 DEF Dist
<1>4. w = f => Dist(f, d) <= Dist(f, c)
  BY <1>1, <1>2 DEF Dist
<1> QED
  BY <1>3, <1>4

\* Distances tell devices apart.
LEMMA DistEqual ==
  ASSUME NEW f \in Devices, NEW a \in Devices, NEW b \in Devices
  PROVE  /\ Dist(f, a) \in Nat /\ Dist(f, f) = 0 /\ (Dist(f, a) = Dist(f, b) => a = b)
BY ConstantsAre DEF Dist, Devices

\* NetStartAgain at the end of an attempt.
LEMMA RingMoves ==
  ASSUME TypeOK, RingBody, NetState = "continue", pc = "arp", netretry = "once",
         NetStartAgain(timeHandler), pc' = "timer",
         UNCHANGED <<NetRestarted, link, tries, wrapped>>
  PROVE  RingBody'
<1> DEFINE e == NextDevice
           n == Succ(eth.cur, 1)
<1>0. CtrlType /\ CmdType /\ LoopType /\ ArpsType
  BY TypeParts
<1>1. /\ e \in EthType
      /\ e.failed = IF NetRestarted THEN eth.failed ELSE eth.cur
      /\ link = {} => (e.failed \in Devices => e.wrap)
      /\ link # {} =>
           /\ e.cur \in link
           /\ \A d \in link : Dist(n, e.cur) <= Dist(n, d)
           /\ e.wrap <=> \/ eth.wrap
                         \/ e.failed \in Devices /\ Dist(n, e.failed) <= Dist(n, e.cur)
  BY <1>0, MovesOn DEF CtrlType, CmdType, LoopType
<1>2. /\ eth' = [e EXCEPT !.wrap = FALSE] /\ NetState' = IF e.wrap THEN "fail" ELSE "restart"
  BY DEF NetStartAgain, Retry, NextDevice
<1> HIDE DEF e
<1>4. eth'.cur = e.cur /\ eth'.failed = e.failed /\ ~eth'.wrap
  BY <1>1, <1>2 DEF EthType
<1> DEFINE f == First
           c == eth.cur
<1>5. /\ e.failed = f /\ f \in Devices /\ c \in Devices /\ n \in Devices
      /\ link \subseteq Devices
  <2>1. e.failed = f
    BY <1>1 DEF First, Moved
  <2>2. c \in Devices /\ link \subseteq Devices
    BY <1>0 DEF LoopType, EthType, CtrlType
  <2>3. f \in Devices
    BY <2>2 DEF First, Moved, RingBody
  <2>4. n \in Devices
    <3>1. 1 \in 0 .. NDev
      BY ConstantsAre
    <3> QED
      BY <2>2, <3>1, SuccIs
  <2> QED
    BY <2>1, <2>2, <2>3, <2>4
<1>6. \A d \in Devices : tries[d] = IF d = c \/ (d \in link /\ Dist(f, d) < Dist(f, c)) THEN 1 ELSE 0
  BY DEF RingBody, Tried, ToCome
<1>7. \A d \in Devices : tries[d] <= 1
  BY <1>6
<1>8. CASE link = {}
  <2>1. NetState' = "fail"
    BY <1>1, <1>2, <1>5, <1>8
  <2> QED
    BY <1>7, <1>8, <2>1 DEF RingBody
<1>9. CASE link # {}
  <2>1. c \in link /\ f \in link /\ e.cur \in link /\ e.cur \in Devices
    BY <1>1, <1>5, <1>9 DEF RingBody, First, Moved
  <2>2. \A d \in link : tries[d] = IF Dist(f, d) <= Dist(f, c) THEN 1 ELSE 0
    <3> SUFFICES ASSUME NEW d \in link
                 PROVE  tries[d] = IF Dist(f, d) <= Dist(f, c) THEN 1 ELSE 0
      OBVIOUS
    <3>1. d \in Devices
      BY <1>5
    <3>2. Dist(f, d) \in Nat /\ Dist(f, c) \in Nat /\ (Dist(f, d) = Dist(f, c) => d = c)
      BY <1>5, <3>1, DistEqual
    <3> HIDE DEF f, c
    <3> QED
      BY <1>6, <3>1, <3>2
  <2>3. /\ Dist(n, e.cur) <= Dist(n, f)
        /\ \A d \in link : Dist(n, e.cur) <= Dist(n, d)
    BY <1>1, <1>9, <2>1
  <2>4. e.wrap <=> eth.wrap \/ e.cur = f
    <3>1. Dist(n, f) \in Nat /\ Dist(n, e.cur) \in Nat /\ (Dist(n, f) = Dist(n, e.cur) => f = e.cur)
      BY <1>5, <2>1, DistEqual
    <3>2. e.wrap <=> eth.wrap \/ Dist(n, f) <= Dist(n, e.cur)
      BY <1>1, <1>5, <1>9
    <3> HIDE DEF f, n
    <3> QED
      BY <2>3, <3>1, <3>2
  <2>5. ASSUME NEW d \in link
        PROVE  /\ e.cur # f => (Dist(f, d) <= Dist(f, c) <=> Dist(f, d) < Dist(f, e.cur))
               /\ e.cur = f => Dist(f, d) <= Dist(f, c)
    <3> HIDE DEF f
    <3> QED
      BY <1>5, <2>1, <2>3, <2>5, NearestIs
  <2>6. CASE ~e.wrap
    <3>1. NetState' = "restart" /\ Moved' /\ ToCome' /\ First' = f
      BY <1>2, <1>4, <1>5, <2>6 DEF Moved, ToCome, First
    <3>2. e.cur # f
      BY <2>4, <2>6
    <3>3. ASSUME NEW d \in Devices
          PROVE  tries[d] = IF d = e.cur THEN 0
                            ELSE IF d \in link /\ Dist(f, d) < Dist(f, e.cur) THEN 1 ELSE 0
      <4>1. CASE d \notin link
        BY <1>6, <2>1, <4>1
      <4>2. CASE d \in link
        <5>1. Dist(f, d) <= Dist(f, c) <=> Dist(f, d) < Dist(f, e.cur)
          BY <2>5, <3>2, <4>2
        <5>2. Dist(f, e.cur) \in Nat
          BY <1>5, <2>1, DistEqual
        <5> HIDE DEF f, c
        <5>3. d = e.cur => ~(Dist(f, d) < Dist(f, e.cur))
          BY <5>2
        <5> QED
          BY <2>2, <4>2, <5>1, <5>3
      <4> QED
        BY <4>1, <4>2
    <3>4. \A d \in Devices : tries'[d] = IF Tried(d)' THEN 1 ELSE 0
      <4> HIDE DEF f
      <4> QED
        BY <1>4, <3>1, <3>3 DEF Tried
    <3> QED
      BY <1>4, <1>5, <2>1, <3>1, <3>2, <3>4 DEF RingBody
  <2>7. CASE e.wrap
    <3>1. NetState' = "fail"
      BY <1>2, <2>7
    <3>2. eth.wrap => wrapped
      BY DEF RingBody
    <3>3. e.cur = f => \A d \in link : tries[d] = 1
      <4> HIDE DEF f, c
      <4> QED
        BY <2>2, <2>5
    <3> QED
      BY <1>4, <1>7, <2>1, <2>4, <2>7, <3>1, <3>2, <3>3 DEF RingBody
  <2> QED
    BY <2>6, <2>7
<1> QED
  BY <1>8, <1>9

LEMMA RingInit == Init => RingInv
BY DEF Init, RingInv, SilentOnce

\* A step that does not touch the ring.
LEMMA RingSame ==
  ASSUME RingBody, UNCHANGED <<link, tries, wrapped>>,
         eth'.cur = eth.cur, eth'.failed = eth.failed, eth'.wrap = eth.wrap,
         Moved' <=> Moved, ToCome' <=> ToCome, NetState' = "fail" <=> NetState = "fail"
  PROVE  RingBody'
<1>1. First' = First
  BY DEF First
<1>2. \A d \in Devices : Tried(d)' <=> Tried(d)
  BY <1>1 DEF Tried, Dist
<1> QED
  BY <1>2 DEF RingBody

LEMMA RingStep ==
  ASSUME TypeOK, HaltInv, WaitInv, RingInv, [Next]_vars
  PROVE  RingInv'
<1> SUFFICES ASSUME SilentOnce'
             PROVE  RingBody'
  BY DEF RingInv
<1>0. CtrlType /\ CmdType /\ LoopType /\ ArpsType
  BY TypeParts
<1>1. rxs' = 0 /\ Silent'
  BY DEF SilentOnce, Silent
<1>2. Silent /\ rxs = 0
  BY <1>1, SilentBefore
<1>3. pc \in {"restart", "rx", "arp"} => NetState = "continue"
  BY <1>2 DEF HaltInv
<1>4. ~StartNoAddress
  BY <1>0, <1>2 DEF StartNoAddress, Silent, LoopType, EthType
<1>5. CASE BetweenCommands \/ Refuse \/ Abort
  BY <1>5 DEF BetweenCommands, Refuse, Abort, SilentOnce
<1>6. CASE Command
  <2> DEFINE g == [EthHalt(eth) EXCEPT !.cur = 0]
  <2>1. /\ eth' = EthInit(g) /\ UNCHANGED link /\ wrapped' = eth'.wrap
        /\ tries' = [d \in Devices |-> 0] /\ pc' = "restart" /\ NetState' = "continue"
        /\ NetRestarted' = FALSE
    BY <1>6 DEF Command, NetLoop
  <2>2. g \in EthType
    <3>1. EthHalt(eth) \in EthType
      BY <1>0, HaltIs DEF LoopType
    <3>2. 0 \in Devices
      BY ConstantsAre DEF Devices
    <3> QED
      BY <3>1, <3>2 DEF EthType
  <2> HIDE DEF g
  <2>3. eth' \in EthType /\ (link # {} => eth'.cur \in link)
    BY <1>0, <2>1, <2>2, EthInitIs DEF CtrlType
  <2>4. ~Moved' /\ ToCome' /\ First' = eth'.cur /\ eth'.cur \in Devices
    BY <2>1, <2>3 DEF Moved, ToCome, First, EthType
  <2>5. ASSUME NEW d \in Devices PROVE ~(Tried(d)')
    <3>1. Dist(First', d) \in Nat /\ Dist(First', First') = 0
      BY <2>4, DistEqual
    <3>2. ~(Dist(First', d) < Dist(First', First'))
      BY <3>1
    <3>3. Tried(d)' = IF d = eth'.cur THEN ~ToCome'
                      ELSE d \in link' /\ Dist(First', d) < Dist(First', eth'.cur)
      BY DEF Tried, Dist
    <3> QED
      BY <2>4, <3>2, <3>3
  <2> QED
    BY <2>1, <2>3, <2>4, <2>5 DEF RingBody
<1>7. CASE Start
  <2>1. SilentOnce
    BY <1>2, <1>7 DEF Start, SilentOnce
  <2>2. /\ RingBody /\ pc = "restart" /\ NetState = "continue" /\ pc' = "rx"
        /\ UNCHANGED <<NetState, eth, NetRestarted, wrapped, link>>
    BY <1>3, <1>7, <2>1 DEF RingInv, Start
  <2>3. /\ ToCome /\ ~ToCome' /\ (Moved' <=> Moved) /\ First' = First /\ eth.cur \in Devices
    BY <1>0, <2>2 DEF ToCome, Moved, First, LoopType, EthType
  <2>4. /\ \A d \in Devices \ {eth.cur} : tries'[d] = tries[d]
        /\ tries[eth.cur] = 0 => tries'[eth.cur] = 1
    BY <1>7, StartCounts
  <2>5. \A d \in Devices : tries[d] = IF Tried(d) THEN 1 ELSE 0
    BY <2>2 DEF RingBody
  <2>6. tries'[eth.cur] = 1
    BY <2>3, <2>4, <2>5 DEF Tried
  <2>7. \A d \in Devices : d # eth.cur => (Tried(d)' <=> Tried(d))
    BY <2>2, <2>3 DEF Tried, Dist
  <2>8. Tried(eth.cur)'
    BY <2>2, <2>3 DEF Tried
  <2>9. \A d \in Devices : tries'[d] = IF Tried(d)' THEN 1 ELSE 0
    <3> SUFFICES ASSUME NEW d \in Devices
                 PROVE  tries'[d] = IF Tried(d)' THEN 1 ELSE 0
      OBVIOUS
    <3>1. CASE d = eth.cur
      <4>1. Tried(d)'
        BY <2>2, <2>3, <3>1 DEF Tried
      <4> QED
        BY <2>6, <3>1, <4>1
    <3>2. CASE d # eth.cur
      <4>1. Tried(d)' <=> Tried(d)
        BY <2>7, <3>2
      <4> QED
        BY <2>4, <2>5, <3>2, <4>1
    <3> QED
      BY <3>1, <3>2
  <2> QED
    BY <2>2, <2>3, <2>9 DEF RingBody
<1>8. ASSUME ~Start, ~Command, pc # "idle"
      PROVE  SilentOnce /\ RingBody /\ UNCHANGED <<link, tries, wrapped>> /\ netretry = "once"
  <2>1. UNCHANGED <<protocol, netretry, link, tries, wrapped>>
    BY <1>1, <1>4, <1>8, SilentBefore
    DEF Refuse, EndRx, Abort, ArpTimeoutCheck, TimerCheck, Switch, Tick, BetweenCommands,
        vars, cmdVars
  <2>2. SilentOnce
    BY <1>2, <1>8, <2>1 DEF SilentOnce
  <2> QED
    BY <2>1, <2>2 DEF RingInv, SilentOnce
<1>9. CASE EndRx
  <2>1. RingBody /\ UNCHANGED <<link, tries, wrapped>>
    BY <1>8, <1>9 DEF EndRx, Command, NetLoop, Start
  <2>2. eth'.cur = eth.cur /\ eth'.failed = eth.failed /\ eth'.wrap = eth.wrap
    BY <1>0, <1>9 DEF EndRx, RxTail, LoopType, EthType
  <2>3. UNCHANGED <<NetState, NetRestarted>> /\ pc = "rx" /\ pc' = "arp"
    BY <1>9 DEF EndRx, cmdVars
  <2> QED
    BY <2>1, <2>2, <2>3, RingSame DEF Moved, ToCome
<1>10. CASE ArpTimeoutCheck
  <2>1. /\ RingBody /\ UNCHANGED <<link, tries, wrapped, NetRestarted>> /\ netretry = "once"
        /\ pc = "arp" /\ pc' = "timer" /\ NetState = "continue"
    BY <1>3, <1>8, <1>10 DEF ArpTimeoutCheck, Command, NetLoop, Start, cmdVars
  <2>2. UNCHANGED loopVars \/ NetStartAgain(timeHandler)
    BY <1>10 DEF ArpTimeoutCheck
  <2>3. CASE UNCHANGED loopVars
    BY <2>1, <2>3, RingSame DEF loopVars, Moved, ToCome
  <2>4. CASE NetStartAgain(timeHandler)
    BY <2>1, <2>4, RingMoves
  <2> QED
    BY <2>2, <2>3, <2>4
<1>11. CASE TimerCheck
  <2>1. /\ SilentOnce /\ RingBody /\ UNCHANGED <<link, tries, wrapped, NetRestarted>>
        /\ pc = "timer" /\ pc' = "switch"
    BY <1>8, <1>11 DEF TimerCheck, Command, NetLoop, Start, cmdVars
  <2>2. UNCHANGED loopVars
    BY <1>11, <2>1 DEF TimerCheck, WaitInv
  <2> QED
    BY <2>1, <2>2, RingSame DEF loopVars, Moved, ToCome
<1>12. CASE Switch
  <2>1. /\ RingBody /\ UNCHANGED <<link, tries, wrapped>> /\ pc = "switch"
    BY <1>8, <1>12 DEF Switch, Command, NetLoop, Start
  <2>2. /\ UNCHANGED eth
        /\ \/ NetState = "continue" /\ pc' = "rx" /\ UNCHANGED <<NetState, NetRestarted>>
           \/ NetState = "restart" /\ pc' = "restart" /\ NetState' = "continue" /\ NetRestarted' = TRUE
    BY <1>12 DEF Switch, SilentOnce
  <2> QED
    BY <2>1, <2>2, RingSame DEF Moved, ToCome
<1>13. CASE Tick
  <2>1. RingBody /\ UNCHANGED <<link, tries, wrapped, pc, NetState, eth, NetRestarted>>
    BY <1>8, <1>13 DEF Tick, Command, NetLoop, Start, cmdVars
  <2> QED
    BY <2>1, RingSame DEF Moved, ToCome
<1>14. CASE UNCHANGED vars
  <2>1. UNCHANGED <<pc, NetState, eth, rxs, protocol, netretry, NetRestarted, link, tries, wrapped>>
    BY <1>14 DEF vars, loopVars, cmdVars
  <2>2. RingBody
    BY <2>1 DEF RingInv, SilentOnce, Silent
  <2> QED
    BY <2>1, <2>2, RingSame DEF Moved, ToCome
<1> QED
  BY <1>1, <1>4, <1>5, <1>6, <1>7, <1>9, <1>10, <1>11, <1>12, <1>13, <1>14, SilentBefore

\* When ARP gives up before tftp.c does, commands that get no frame do as eth.c
\* and NetStartAgain promise, on any ring of devices and after any commands:
\* only the current device receives, it is halted at the end, and a tftpboot
\* with netretry = once that fails has been tried once on every device with a
\* link, unless it began with NetRestartWrap set.
THEOREM NetLoopSilentNet == ArpGivesUpFirst => (Spec => []SilentNet)
<1> SUFFICES ASSUME ArpGivesUpFirst PROVE Spec => []SilentNet
  OBVIOUS
<1> DEFINE Inv == TypeOK /\ PolledInv /\ HaltInv /\ WaitInv /\ RingInv
<1>1. Init => Inv
  BY NetLoopTypeInit, PolledInit, HaltInit, WaitInit, RingInit
<1>2. Inv /\ [Next]_vars => Inv'
  BY NetLoopTypeStep, PolledStep, HaltStep, WaitStep, RingStep
<1>3. Inv => SilentNet
  <2> SUFFICES ASSUME Inv, Silent
               PROVE  OnlyCurrentActive /\ TriedAsAsked /\ HaltedOnReturn
    BY DEF SilentNet, Silent
  <2>1. OnlyCurrentActive /\ HaltedOnReturn
    BY DEF PolledInv, HaltInv, Silent
  <2>2. TriedAsAsked
    BY DEF RingInv, RingBody, SilentOnce, TriedAsAsked
  <2> QED
    BY <2>1, <2>2
<1> QED
  BY <1>1, <1>2, <1>3, PTL DEF Spec

-----------------------------------------------------------------------------
(* How often a device is tried with netretry = once. *)

\* ARP is asked more than once: with one try, the wait that ArpTimeoutCheck
\* leaves behind would be due again in every iteration.
ArpAsksAgain == ARP_TIMEOUT_COUNT > 1

\* Once NetStartAgain or a Switch has led to a restart, first_failed is a device.
FailedInv ==
  (NetRestarted \/ NetState = "restart" \/ timeHandler = "startAgain") => eth.failed \in Devices

Untried == \A d \in Devices : tries[d] = 0

\* A command with netretry = once that has made an attempt.
Live == netretry = "once" /\ pc # "idle" /\ ~Untried

\* What would call NetStartAgain when its turn comes.
ArpGives == arp.pending /\ arp.left = 0 /\ arp.try + 1 >= ARP_TIMEOUT_COUNT
TftpDue  == timeHandler = "TFTP" /\ timeLeft = 0

\* Who waits for what: the timer is this command's, and a server whose address
\* is known is not asked for it.
KnownInv ==
  /\ timeHandler \in {"none", protocol}
  /\ protocol = "TFTP" => (serverEther => ~arp.pending) /\ (asked => serverEther)

\* The ARP wait of an attempt that goes on ends before the timer.
BudgetInv ==
  (pc # "restart" /\ NetState = "continue" /\ arp.pending /\ timeHandler = "TFTP") =>
    arp.left + ARP_TIMEOUT * (ARP_TIMEOUT_COUNT - arp.try) < timeLeft

\* ARP and the timer do not both call NetStartAgain in one iteration, and neither
\* is due when the loop starts again.
DueInv ==
  /\ pc \in {"timer", "switch", "restart"} => ~ArpGives
  /\ pc \in {"switch", "restart"} => ~TftpDue
  /\ pc \in {"rx", "arp"} => ~(ArpGives /\ TftpDue)

Times == KnownInv /\ BudgetInv /\ DueInv

TimesInv == Live => Times

\* The devices that come after the current one in the round that is being made.
Ahead(d) ==
  IF NetRestarted THEN Dist(eth.failed, d) > Dist(eth.failed, eth.cur) ELSE d # eth.cur

\* Nothing that is left of this iteration calls NetStartAgain, but for a frame.
NoMore == ~TftpDue /\ (pc \in {"rx", "arp"} => ~ArpGives)

\* This is round l + 1 of the ring: no device has been tried more often, and those
\* to come have been tried less often.
Round(l) ==
  /\ \A d \in Devices : tries[d] <= l + 1
  /\ (~ToCome /\ NetState # "fail") => \A d \in Devices : Ahead(d) => tries[d] <= l
  /\ ToCome => \A d \in Devices : Dist(eth.failed, d) >= Dist(eth.failed, eth.cur) => tries[d] <= l
  /\ pc = "restart" => NetRestarted

\* A second NetStartAgain in an iteration begins a round of its own, and there
\* was a frame to pay for it.
Paid(l) == (pc \in {"rx", "arp", "timer"} /\ NetState # "continue") => l < rxs \/ NoMore

Counted(l) == Round(l) /\ Paid(l)

RoundsInv == Live => \E l \in 0 .. rxs : Counted(l)

\* NetStartAgain with netretry = once.
LEMMA AgainMoves ==
  ASSUME TypeOK, FailedInv, netretry = "once", NEW th, NetStartAgain(th)
  PROVE  /\ NetState' \in {"restart", "fail"} /\ timeHandler' = th
         /\ UNCHANGED <<packetHandler, timeLeft>>
         /\ eth'.failed \in Devices
         /\ eth'.failed = IF NetRestarted THEN eth.failed ELSE eth.cur
         /\ NetState' = "restart" => Dist(eth'.failed, eth'.cur) > Dist(eth'.failed, eth.cur)
<1> DEFINE e == NextDevice
           n == Succ(eth.cur, 1)
<1>0. CtrlType /\ CmdType /\ LoopType /\ ArpsType
  BY TypeParts
<1>1. /\ e \in EthType
      /\ e.failed = IF NetRestarted THEN eth.failed ELSE eth.cur
      /\ link = {} => (e.failed \in Devices => e.wrap)
      /\ link # {} =>
           /\ e.cur \in link
           /\ e.wrap <=> \/ eth.wrap
                         \/ e.failed \in Devices /\ Dist(n, e.failed) <= Dist(n, e.cur)
  BY <1>0, MovesOn DEF CtrlType, CmdType, LoopType
<1>2. /\ eth' = [e EXCEPT !.wrap = FALSE] /\ NetState' = IF e.wrap THEN "fail" ELSE "restart"
      /\ timeHandler' = th /\ UNCHANGED <<packetHandler, timeLeft>>
  BY DEF NetStartAgain, Retry, NextDevice
<1> HIDE DEF e
<1>3. eth'.cur = e.cur /\ eth'.failed = e.failed
  BY <1>1, <1>2 DEF EthType
<1>4. eth.cur \in Devices /\ e.failed \in Devices /\ e.cur \in Devices
  BY <1>0, <1>1 DEF LoopType, EthType, FailedInv
<1>5. n \in Devices /\ n = IF eth.cur + 1 < NDev THEN eth.cur + 1 ELSE (eth.cur + 1) - NDev
  <2>1. 1 \in 0 .. NDev
    BY ConstantsAre
  <2> QED
    BY <1>4, <2>1, SuccIs
<1>6. ASSUME NetState' = "restart" PROVE Dist(e.failed, e.cur) > Dist(e.failed, eth.cur)
  <2>1. ~e.wrap
    BY <1>2, <1>6
  <2>2. ~(Dist(n, e.failed) <= Dist(n, e.cur))
    BY <1>1, <1>4, <2>1
  <2> HIDE DEF n
  <2>3. ASSUME NEW f \in Devices, NEW c \in Devices, NEW w \in Devices, NEW m \in Devices,
               m = IF c + 1 < NDev THEN c + 1 ELSE (c + 1) - NDev, ~(Dist(m, f) <= Dist(m, w))
        PROVE  Dist(f, w) > Dist(f, c)
    <3>1. /\ NDev \in Nat \ {0} /\ f \in Nat /\ c \in Nat /\ w \in Nat /\ m \in Nat
          /\ f < NDev /\ c < NDev /\ w < NDev /\ m < NDev
      BY ConstantsAre DEF Devices
    <3> QED
      BY <2>3, <3>1 DEF Dist
  <2> QED
    BY <1>4, <1>5, <2>2, <2>3
<1> QED
  BY <1>1, <1>2, <1>3, <1>4, <1>6

LEMMA FailedInit == Init => FailedInv
BY DEF Init, FailedInv

LEMMA FailedStep == TypeOK /\ FailedInv /\ [Next]_vars => FailedInv'
<1> SUFFICES ASSUME TypeOK, FailedInv, [Next]_vars
             PROVE  FailedInv'
  OBVIOUS
<1>0. CtrlType /\ CmdType /\ LoopType /\ ArpsType
  BY TypeParts
<1>1. CASE Command
  <2> DEFINE g == [EthHalt(eth) EXCEPT !.cur = 0]
  <2>1. /\ eth' = EthInit(g) /\ NetRestarted' = FALSE /\ NetState' = "continue"
        /\ UNCHANGED timeHandler
    BY <1>1 DEF Command, NetLoop
  <2>2. g \in EthType /\ g.failed = eth.failed
    <3>1. EthHalt(eth) \in EthType /\ EthHalt(eth).failed = eth.failed
      BY <1>0, HaltIs DEF LoopType
    <3>2. 0 \in Devices
      BY ConstantsAre DEF Devices
    <3> QED
      BY <3>1, <3>2 DEF EthType
  <2> HIDE DEF g
  <2>3. eth'.failed = eth.failed
    BY <1>0, <2>1, <2>2, EthInitIs DEF CtrlType
  <2> QED
    BY <2>1, <2>3 DEF FailedInv
<1>2. ASSUME NEW th \in {timeHandler, "none"}, NetStartAgain(th), UNCHANGED NetRestarted
      PROVE  FailedInv'
  <2>1. CASE netretry = "no" /\ GiveUp(th)
    <3>1. eth' = EthHalt(eth) /\ NetState' = "fail" /\ timeHandler' = th
      BY <2>1 DEF GiveUp
    <3>2. eth'.failed = eth.failed
      BY <1>0, <3>1, HaltIs DEF LoopType
    <3> QED
      BY <1>2, <3>1, <3>2 DEF FailedInv
  <2>2. CASE Retry(th, ~NetDevExists \/ netretry = "once")
    <3>1. /\ NextDevice \in EthType
          /\ NextDevice.failed = IF NetRestarted THEN eth.failed ELSE eth.cur
      BY <1>0, MovesOn DEF CtrlType, CmdType, LoopType
    <3>2. eth' = [NextDevice EXCEPT !.wrap = FALSE]
      BY <2>2 DEF Retry, NextDevice
    <3>3. eth'.failed = IF NetRestarted THEN eth.failed ELSE eth.cur
      BY <3>1, <3>2 DEF EthType
    <3> QED
      BY <1>0, <3>3 DEF FailedInv, LoopType, EthType
  <2> QED
    BY <1>2, <2>1, <2>2 DEF NetStartAgain
<1>3. CASE StartNoAddress \/ RxError
  BY <1>2, <1>3 DEF StartNoAddress, RxError, cmdVars
<1>4. CASE Start
  BY <1>4 DEF Start, TftpStart, PingStart, FailedInv
<1>5. CASE Refuse \/ EndRx \/ Abort
  <2>1. eth' \in {EthHalt(eth), RxTail(eth), EthHalt(RxTail(eth))}
        /\ UNCHANGED <<NetRestarted, NetState, timeHandler>>
    BY <1>5 DEF Refuse, EndRx, Abort, cmdVars
  <2>2. RxTail(eth) \in EthType /\ RxTail(eth).failed = eth.failed
    BY <1>0 DEF RxTail, EthType, LoopType, CtrlType
  <2>3. eth'.failed = eth.failed
    BY <1>0, <2>1, <2>2, HaltIs DEF LoopType
  <2> QED
    BY <2>1, <2>3 DEF FailedInv
<1>6. CASE RxArpReply \/ RxProgress \/ RxSuccess \/ Tick \/ BetweenCommands
  <2>1. /\ UNCHANGED <<eth, NetRestarted>> /\ timeHandler' \in {timeHandler, "TFTP"}
        /\ NetState' \in {NetState, "success"}
    BY <1>6 DEF RxArpReply, RxProgress, RxSuccess, Tick, BetweenCommands, loopVars, cmdVars
  <2> QED
    BY <2>1 DEF FailedInv
<1>7. CASE ArpTimeoutCheck
  <2>1. UNCHANGED NetRestarted /\ (UNCHANGED loopVars \/ NetStartAgain(timeHandler))
    BY <1>7 DEF ArpTimeoutCheck, cmdVars
  <2> QED
    BY <1>2, <2>1 DEF FailedInv, loopVars
<1>8. CASE TimerCheck
  <2>1. /\ UNCHANGED NetRestarted
        /\ \/ NetStartAgain("none")
           \/ PingTimeout
           \/ UNCHANGED <<eth, NetState>> /\ timeHandler' \in {timeHandler, "TFTP"}
           \/ timeHandler = "startAgain" /\ UNCHANGED eth
    BY <1>8 DEF TimerCheck, TftpTimeout, StartAgainTimeout, loopVars, cmdVars
  <2>2. CASE PingTimeout
    BY <1>0, <2>1, <2>2, HaltIs DEF PingTimeout, FailedInv, LoopType
  <2> QED
    BY <1>2, <2>1, <2>2 DEF FailedInv
<1>9. CASE Switch
  <2>1. /\ UNCHANGED timeHandler /\ eth' \in {eth, EthHalt(eth)}
        /\ \/ UNCHANGED <<NetState, NetRestarted>>
           \/ NetState = "restart" /\ UNCHANGED eth
    BY <1>9 DEF Switch
  <2>2. eth'.failed = eth.failed
    BY <1>0, <2>1, HaltIs DEF LoopType
  <2> QED
    BY <2>1, <2>2 DEF FailedInv
<1>10. CASE UNCHANGED vars
  BY <1>10 DEF vars, FailedInv, loopVars, cmdVars
<1> QED
  BY <1>1, <1>3, <1>4, <1>5, <1>6, <1>7, <1>8, <1>9, <1>10 DEF Next, Loop, Receive, Done

\* A command with an attempt has just made one, or is the command it was.
LEMMA LiveBefore ==
  ASSUME TypeOK, [Next]_vars, Live'
  PROVE  \/ Start /\ netretry = "once"
         \/ /\ Live /\ UNCHANGED <<tries, netretry, protocol, link>>
            /\ \/ StartNoAddress \/ EndRx \/ ArpTimeoutCheck \/ TimerCheck \/ Switch
               \/ RxArpReply \/ RxProgress \/ RxSuccess \/ RxError \/ Tick
               \/ UNCHANGED vars
<1>1. CASE Command
  <2>1. tries' = [d \in Devices |-> 0]
    BY <1>1 DEF Command, NetLoop
  <2> QED
    BY <2>1 DEF Live, Untried
<1>2. CASE Start
  BY <1>2 DEF Start, Live
<1>3. CASE Refuse \/ Abort \/ BetweenCommands
  BY <1>3 DEF Refuse, Abort, BetweenCommands, Live
<1>4. CASE \/ StartNoAddress \/ EndRx \/ ArpTimeoutCheck \/ TimerCheck \/ Switch
           \/ RxArpReply \/ RxProgress \/ RxSuccess \/ RxError \/ Tick
           \/ UNCHANGED vars
  <2>1. UNCHANGED <<tries, netretry, protocol, link>>
    BY <1>4 DEF StartNoAddress, EndRx, ArpTimeoutCheck, TimerCheck, Switch, RxArpReply,
                RxProgress, RxSuccess, RxError, Tick, vars, cmdVars
  <2>2. pc # "idle"
    BY <1>4 DEF StartNoAddress, EndRx, ArpTimeoutCheck, TimerCheck, Switch, RxArpReply,
                RxProgress, RxSuccess, RxError, Frame, Tick, vars, Live
  <2> QED
    BY <1>4, <2>1, <2>2 DEF Live, Untried
<1> QED
  BY <1>1, <1>2, <1>3, <1>4 DEF Next, Loop, Receive, Done

\* A wait that has begun leaves the timer its time.
LEMMA FreshWait ==
  ASSUME ArpGivesUpFirst, ArpStart
  PROVE  /\ arp'.pending = TRUE /\ arp'.try = 1 /\ arp'.left = ARP_TIMEOUT /\ ~(ArpGives')
         /\ arp'.left + ARP_TIMEOUT * (ARP_TIMEOUT_COUNT - arp'.try) < TIMEOUT
<1>1. arp'.pending = TRUE /\ arp'.try = 1 /\ arp'.left = ARP_TIMEOUT
  BY DEF ArpStart
<1>2. 0 \in 0 .. ARP_TIMEOUT_COUNT /\ ARP_TIMEOUT # 0
  BY ConstantsAre
<1>3. ARP_TIMEOUT + ARP_TIMEOUT * (ARP_TIMEOUT_COUNT - 1) = ARP_TIMEOUT * ARP_TIMEOUT_COUNT
  BY <1>2, BudgetIs
<1>4. ~(ArpGives')
  BY <1>1, <1>2 DEF ArpGives
<1> QED
  BY <1>1, <1>3, <1>4 DEF ArpGivesUpFirst

\* While the wait of an attempt goes on the timer is not due.
LEMMA WaitsNotDue ==
  ASSUME TypeOK, BudgetInv, pc # "restart", NetState = "continue", ArpGives
  PROVE  ~TftpDue
<1>1. /\ arp.try \in 0 .. ARP_TIMEOUT_COUNT /\ arp.left \in Nat /\ timeLeft \in Nat
  BY ConstantsAre DEF TypeOK
<1>2. PICK b \in Nat : b = ARP_TIMEOUT * (ARP_TIMEOUT_COUNT - arp.try)
  BY <1>1, BudgetIs
<1>3. timeHandler = "TFTP" => arp.left + b < timeLeft
  BY <1>2 DEF BudgetInv, ArpGives
<1> QED
  BY <1>1, <1>2, <1>3 DEF TftpDue

LEMMA TimesStep ==
  ASSUME ArpGivesUpFirst, ArpAsksAgain, TypeOK, FailedInv, TimesInv, [Next]_vars
  PROVE  TimesInv'
<1> SUFFICES ASSUME Live'
             PROVE  Times'
  BY DEF TimesInv
<1>0. CtrlType /\ CmdType /\ LoopType /\ ArpsType
  BY TypeParts
<1>1. CASE Start
  <2>1. /\ pc' = "rx" /\ UNCHANGED <<NetState, protocol>> /\ ArpStart
        /\ timeHandler' \in {"TFTP", "PING"} /\ asked' = FALSE
        /\ protocol = "TFTP" => timeHandler' = "TFTP" /\ serverEther' = FALSE /\ timeLeft' = TIMEOUT
        /\ protocol # "TFTP" => timeHandler' = "PING"
    BY <1>1 DEF Start, TftpStart, PingStart
  <2>2. protocol \in {"TFTP", "PING"}
    BY <1>0, NetLoopAssumption DEF CmdType
  <2>3. KnownInv'
    BY <2>1, <2>2 DEF KnownInv
  <2>4. BudgetInv' /\ DueInv'
    BY <2>1, <2>2, FreshWait DEF BudgetInv, DueInv
  <2> QED
    BY <2>3, <2>4 DEF Times
<1>2. ASSUME ~Start
      PROVE  /\ Live /\ KnownInv /\ BudgetInv /\ DueInv /\ netretry = "once"
             /\ UNCHANGED <<tries, netretry, protocol, link>>
             /\ \/ StartNoAddress \/ EndRx \/ ArpTimeoutCheck \/ TimerCheck \/ Switch
                \/ RxArpReply \/ RxProgress \/ RxSuccess \/ RxError \/ Tick
                \/ UNCHANGED vars
  BY <1>2, LiveBefore DEF TimesInv, Times, Live
<1>3. CASE ~Start /\ StartNoAddress
  <2>1. /\ NetStartAgain(timeHandler) /\ pc = "restart" /\ pc' = "rx" /\ UNCHANGED arpVars
    BY <1>3 DEF StartNoAddress
  <2>2. NetState' \in {"restart", "fail"} /\ UNCHANGED <<timeHandler, timeLeft>>
    BY <1>2, <1>3, <2>1, AgainMoves
  <2>3. KnownInv'
    BY <1>2, <1>3, <2>1, <2>2 DEF KnownInv, arpVars
  <2> QED
    BY <1>2, <1>3, <2>1, <2>2, <2>3 DEF Times, BudgetInv, DueInv, ArpGives, TftpDue, arpVars
<1>4. CASE ~Start /\ RxError
  <2>1. /\ NetStartAgain(timeHandler) /\ pc = "rx" /\ pc' = "rx" /\ UNCHANGED arpVars
    BY <1>4 DEF RxError, Frame
  <2>2. NetState' \in {"restart", "fail"} /\ UNCHANGED <<timeHandler, timeLeft>>
    BY <1>2, <1>4, <2>1, AgainMoves
  <2>3. KnownInv'
    BY <1>2, <1>4, <2>1, <2>2 DEF KnownInv, arpVars
  <2> QED
    BY <1>2, <1>4, <2>1, <2>2, <2>3 DEF Times, BudgetInv, DueInv, ArpGives, TftpDue, arpVars
<1>5. CASE ~Start /\ (EndRx \/ RxSuccess \/ UNCHANGED vars)
  <2>1. /\ UNCHANGED <<timeHandler, timeLeft, arpVars>>
        /\ \/ UNCHANGED pc
           \/ pc = "rx" /\ pc' = "arp"
        /\ \/ UNCHANGED NetState
           \/ NetState' = "success"
    BY <1>5 DEF EndRx, RxSuccess, vars, loopVars
  <2>2. KnownInv'
    BY <1>2, <1>5, <2>1 DEF KnownInv, arpVars
  <2> QED
    BY <1>2, <1>5, <2>1, <2>2 DEF Times, BudgetInv, DueInv, ArpGives, TftpDue, arpVars
<1>6. CASE ~Start /\ RxArpReply
  <2>1. /\ arp' = [arp EXCEPT !.pending = FALSE] /\ pc = "rx" /\ pc' = "rx"
        /\ UNCHANGED loopVars /\ serverEther' = (serverEther \/ protocol = "TFTP")
    BY <1>6 DEF RxArpReply, Frame
  <2>2. ~arp'.pending
    BY <1>0, <2>1 DEF ArpsType, ArpType
  <2>3. KnownInv'
    BY <1>2, <1>6, <2>1, <2>2 DEF KnownInv, loopVars
  <2> QED
    BY <2>1, <2>2, <2>3 DEF Times, BudgetInv, DueInv, ArpGives
<1>7. CASE ~Start /\ RxProgress
  <2>1. /\ pc = "rx" /\ pc' = "rx" /\ asked /\ protocol = "TFTP" /\ TftpSend(serverEther)
        /\ timeHandler' = "TFTP" /\ timeLeft' = TIMEOUT /\ UNCHANGED <<NetState, serverEther>>
    BY <1>7 DEF RxProgress, Frame
  <2>2. serverEther /\ ~arp.pending /\ UNCHANGED arp /\ asked' = TRUE
    BY <1>2, <1>7, <2>1 DEF KnownInv, TftpSend
  <2> QED
    BY <1>2, <1>7, <2>1, <2>2 DEF Times, KnownInv, BudgetInv, DueInv, ArpGives
<1>8. CASE ~Start /\ ArpTimeoutCheck
  <2>0. /\ pc = "arp" /\ pc' = "timer" /\ UNCHANGED <<serverEther, asked>>
    BY <1>8 DEF ArpTimeoutCheck
  <2>1. CASE ~ArpDue /\ UNCHANGED <<loopVars, arp>>
    <3>1. KnownInv'
      BY <1>2, <1>8, <2>0, <2>1 DEF KnownInv, loopVars
    <3>2. BudgetInv' /\ DueInv'
      BY <1>2, <1>8, <2>0, <2>1 DEF BudgetInv, DueInv, ArpDue, ArpGives, TftpDue, loopVars
    <3> QED
      BY <3>1, <3>2 DEF Times
  <2>2. CASE ArpDue /\ arp' = [arp EXCEPT !.try = @ + 1, !.left = ARP_TIMEOUT] /\ UNCHANGED loopVars
    <3>1. arp.try \in 0 .. ARP_TIMEOUT_COUNT /\ ARP_TIMEOUT # 0
      BY <1>0, ConstantsAre DEF ArpsType, ArpType
    <3>2. /\ arp'.pending = arp.pending /\ arp'.try = arp.try + 1 /\ arp'.left = ARP_TIMEOUT
          /\ arp.left = 0 /\ UNCHANGED <<NetState, timeHandler, timeLeft>>
      BY <1>0, <2>2 DEF ArpsType, ArpType, ArpDue, loopVars
    <3>3. PICK b \in Nat : b = ARP_TIMEOUT * (ARP_TIMEOUT_COUNT - arp.try)
      BY <3>1, BudgetIs
    <3>4. b = ARP_TIMEOUT + ARP_TIMEOUT * (ARP_TIMEOUT_COUNT - arp'.try)
      BY <3>1, <3>2, <3>3, BudgetIs
    <3>5. (NetState = "continue" /\ arp.pending /\ timeHandler = "TFTP") => b < timeLeft
      BY <1>2, <1>8, <2>0, <3>2, <3>3 DEF BudgetInv
    <3>6. BudgetInv'
      BY <3>2, <3>4, <3>5 DEF BudgetInv
    <3>7. KnownInv'
      BY <1>2, <1>8, <2>0, <3>2 DEF KnownInv
    <3> QED
      BY <2>0, <3>1, <3>2, <3>6, <3>7 DEF Times, DueInv, ArpGives
  <2>3. CASE arp' = [arp EXCEPT !.try = 0] /\ NetStartAgain(timeHandler)
    <3>1. NetState' \in {"restart", "fail"} /\ UNCHANGED <<timeHandler, timeLeft>>
      BY <1>2, <1>8, <2>3, AgainMoves
    <3>2. arp'.try = 0 /\ arp'.pending = arp.pending
      BY <1>0, <2>3 DEF ArpsType, ArpType
    <3>3. ~(ArpGives')
      BY <3>2, ConstantsAre DEF ArpGives, ArpAsksAgain
    <3>4. KnownInv'
      BY <1>2, <1>8, <2>0, <3>1, <3>2 DEF KnownInv
    <3> QED
      BY <2>0, <3>1, <3>3, <3>4 DEF Times, BudgetInv, DueInv
  <2> QED
    BY <1>8, <2>1, <2>2, <2>3 DEF ArpTimeoutCheck
<1>9. CASE ~Start /\ TimerCheck
  <2>0. pc = "timer" /\ pc' = "switch" /\ timeHandler # "startAgain" /\ ~ArpGives
    <3>1. protocol # "startAgain"
      BY <1>0, NetLoopAssumption DEF CmdType
    <3> QED
      BY <1>2, <1>9, <3>1 DEF TimerCheck, KnownInv, DueInv
  <2>1. CASE ~TimeDue /\ UNCHANGED <<loopVars, arpVars, TftpTimeoutCount>>
    <3>1. KnownInv'
      BY <1>2, <1>9, <2>1 DEF KnownInv, loopVars, arpVars
    <3>2. BudgetInv'
      BY <1>2, <1>9, <2>0, <2>1 DEF BudgetInv, loopVars, arpVars
    <3>3. DueInv'
      BY <2>0, <2>1 DEF DueInv, TimeDue, TftpDue, ArpGives, loopVars, arpVars
    <3> QED
      BY <3>1, <3>2, <3>3 DEF Times
  <2>2. CASE TftpTimeout /\ timeHandler = "TFTP"
    <3>1. protocol = "TFTP"
      BY <1>2, <1>9, <2>2 DEF KnownInv
    <3>2. CASE NetStartAgain("none") /\ UNCHANGED <<arp, asked>>
      <4>1. NetState' \in {"restart", "fail"} /\ timeHandler' = "none" /\ UNCHANGED serverEther
        BY <1>2, <1>9, <2>2, <3>2, AgainMoves DEF TftpTimeout
      <4> QED
        BY <1>2, <1>9, <2>0, <3>2, <4>1 DEF Times, KnownInv, BudgetInv, DueInv, ArpGives, TftpDue
    <3>3. CASE /\ timeHandler' = "TFTP" /\ timeLeft' = TIMEOUT /\ TftpSend(serverEther)
               /\ UNCHANGED <<NetState, serverEther>>
      <4>0. TIMEOUT # 0
        BY ConstantsAre
      <4>1. CASE serverEther
        <5>1. UNCHANGED arp /\ asked' = TRUE /\ ~arp.pending
          BY <1>2, <1>9, <3>1, <3>3, <4>1 DEF TftpSend, KnownInv
        <5> QED
          BY <1>2, <1>9, <2>0, <3>1, <3>3, <4>0, <4>1, <5>1
          DEF Times, KnownInv, BudgetInv, DueInv, ArpGives, TftpDue
      <4>2. CASE ~serverEther
        <5>1. ArpStart /\ UNCHANGED asked
          BY <3>3, <4>2 DEF TftpSend
        <5>2. KnownInv'
          BY <1>2, <1>9, <3>1, <3>3, <4>2, <5>1 DEF KnownInv
        <5> QED
          BY <2>0, <3>3, <4>0, <5>1, <5>2, FreshWait DEF Times, BudgetInv, DueInv, TftpDue
      <4> QED
        BY <4>1, <4>2
    <3> QED
      BY <2>2, <3>2, <3>3 DEF TftpTimeout
  <2>3. CASE PingTimeout
    <3>1. NetState' = "fail" /\ timeHandler' = "none" /\ UNCHANGED arpVars
      BY <2>3 DEF PingTimeout
    <3> QED
      BY <1>2, <1>9, <2>0, <3>1 DEF Times, KnownInv, BudgetInv, DueInv, ArpGives, TftpDue, arpVars
  <2> QED
    BY <1>9, <2>0, <2>1, <2>2, <2>3 DEF TimerCheck
<1>10. CASE ~Start /\ Switch
  <2>1. /\ pc = "switch" /\ UNCHANGED <<timeHandler, timeLeft, arpVars>>
        /\ \/ NetState = "continue" /\ pc' = "rx" /\ UNCHANGED NetState
           \/ pc' = "restart"
    BY <1>10 DEF Switch, Live
  <2>2. KnownInv'
    BY <1>2, <1>10, <2>1 DEF KnownInv, arpVars
  <2> QED
    BY <1>2, <1>10, <2>1, <2>2 DEF Times, BudgetInv, DueInv, ArpGives, TftpDue, arpVars
<1>11. CASE ~Start /\ Tick
  <2>1. /\ pc = "rx" /\ pc' = "rx" /\ NetState = "continue" /\ ~ArpDue /\ ~TimeDue
        /\ UNCHANGED <<NetState, timeHandler, serverEther, asked>>
    BY <1>11 DEF Tick, SomethingToDo
  <2>2. /\ timeLeft \in Nat /\ timeLeft' = IF timeLeft = 0 THEN 0 ELSE timeLeft - 1
        /\ arp.left \in Nat /\ arp'.left = IF arp.left = 0 THEN 0 ELSE arp.left - 1
        /\ arp'.try = arp.try /\ arp'.pending = arp.pending
    BY <1>0, <1>11, ConstantsAre DEF Tick, LoopType, ArpsType, ArpType
  <2>3. PICK b \in Nat : b = ARP_TIMEOUT * (ARP_TIMEOUT_COUNT - arp.try)
    BY <1>0, BudgetIs DEF ArpsType, ArpType
  <2>4. (arp.pending /\ timeHandler = "TFTP") =>
          arp.left + b < timeLeft /\ arp.left # 0 /\ timeLeft # 0
    BY <1>2, <1>11, <2>1, <2>3 DEF BudgetInv, ArpDue, TimeDue
  <2>5. (arp.pending /\ timeHandler = "TFTP") => arp'.left + b < timeLeft' /\ timeLeft' # 0
    BY <2>2, <2>4
  <2>6. BudgetInv' /\ DueInv'
    BY <2>1, <2>2, <2>3, <2>5 DEF BudgetInv, DueInv, ArpGives, TftpDue
  <2>7. KnownInv'
    BY <1>2, <1>11, <2>1, <2>2 DEF KnownInv
  <2> QED
    BY <2>6, <2>7 DEF Times
<1> QED
  BY <1>1, <1>2, <1>3, <1>4, <1>5, <1>6, <1>7, <1>8, <1>9, <1>10, <1>11

\* The first NetStartAgain of an iteration goes on with the round, which wraps
\* when there is no device left.
LEMMA AgainFirst ==
  ASSUME TypeOK, FailedInv, OneInv, netretry = "once", NEW l \in Nat, Round(l),
         NetState \in {"continue", "success"}, NEW th, NetStartAgain(th),
         pc' # "restart", UNCHANGED <<tries, NetRestarted>>
  PROVE  Round(l)'
<1>0. CtrlType /\ CmdType /\ LoopType /\ ArpsType
  BY TypeParts
<1> DEFINE f == eth'.failed
<1>1. /\ NetState' \in {"restart", "fail"} /\ f \in Devices
      /\ f = IF NetRestarted THEN eth.failed ELSE eth.cur
      /\ NetState' = "restart" => Dist(f, eth'.cur) > Dist(f, eth.cur)
  BY AgainMoves
<1>2. eth.cur \in Devices /\ (NetState' = "restart" => eth'.cur \in Devices)
  <2>1. eth' \in EthType
    <3>1. NextDevice \in EthType /\ eth' = [NextDevice EXCEPT !.wrap = FALSE]
      BY <1>0, MovesOn DEF CtrlType, CmdType, LoopType, NetStartAgain, Retry, NextDevice
    <3> QED
      BY <3>1 DEF EthType
  <2> QED
    BY <1>0, <2>1 DEF LoopType, EthType
<1>3. ASSUME NEW d \in Devices, NetState' = "restart", Dist(f, d) >= Dist(f, eth'.cur)
      PROVE  tries[d] <= l
  <2>1. /\ Dist(f, d) \in Nat /\ Dist(f, eth.cur) \in Nat /\ Dist(f, eth'.cur) \in Nat
        /\ Dist(f, f) = 0
    BY <1>1, <1>2, <1>3, DistEqual
  <2>2. Dist(f, d) > Dist(f, eth.cur)
    <3> HIDE DEF f
    <3> QED
      BY <1>1, <1>3, <2>1
  <2>3. CASE pc = "restart"
    <3>1. NetRestarted /\ ToCome /\ f = eth.failed
      BY <1>1, <2>3 DEF Round, ToCome
    <3>2. Dist(eth.failed, d) >= Dist(eth.failed, eth.cur)
      BY <2>1, <2>2, <3>1
    <3> QED
      BY <3>1, <3>2 DEF Round
  <2>4. CASE pc # "restart"
    <3>1. ~ToCome /\ NetState # "fail"
      BY <2>4 DEF ToCome
    <3>2. Ahead(d)
      <4>1. CASE NetRestarted
        <5>1. f = eth.failed
          BY <1>1, <4>1
        <5> HIDE DEF f
        <5> QED
          BY <2>2, <4>1, <5>1 DEF Ahead
      <4>2. CASE ~NetRestarted
        <5>1. f = eth.cur
          BY <1>1, <4>2
        <5>2. d # eth.cur
          <6> HIDE DEF f
          <6> QED
            BY <2>1, <2>2, <5>1
        <5> QED
          BY <4>2, <5>2 DEF Ahead
      <4> QED
        BY <4>1, <4>2
    <3> QED
      BY <3>1, <3>2 DEF Round
  <2> QED
    BY <2>3, <2>4
<1>4. \A d \in Devices : tries'[d] <= l + 1
  BY DEF Round
<1>5. (~ToCome /\ NetState # "fail")' <=> FALSE
  BY <1>1 DEF ToCome
<1>6. ToCome' => \A d \in Devices : Dist(eth'.failed, d) >= Dist(eth'.failed, eth'.cur) => tries'[d] <= l
  BY <1>1, <1>3 DEF ToCome
<1> QED
  BY <1>4, <1>5, <1>6 DEF Round, Dist

\* Another NetStartAgain begins a round.
LEMMA AgainMore ==
  ASSUME TypeOK, FailedInv, netretry = "once", NEW l \in Nat, Round(l), NEW th, NetStartAgain(th),
         pc' # "restart", UNCHANGED <<tries, NetRestarted>>
  PROVE  Round(l + 1)'
<1>1. NetState' \in {"restart", "fail"}
  BY AgainMoves
<1>2. \A d \in Devices : tries[d] \in Nat /\ tries[d] <= l + 1
  BY ConstantsAre DEF TypeOK, Many, Round
<1>3. \A d \in Devices : tries'[d] <= l + 1 /\ tries'[d] <= (l + 1) + 1
  BY <1>2
<1>4. (~ToCome /\ NetState # "fail")' <=> FALSE
  BY <1>1 DEF ToCome
<1> QED
  BY <1>3, <1>4 DEF Round

\* NetStartAgain in an iteration that has a frame to pay for it, or in the first place.
LEMMA AgainRounds ==
  ASSUME TypeOK, FailedInv, OneInv, netretry = "once", NEW l \in Nat, Round(l),
         NEW th, NetStartAgain(th), pc' # "restart", UNCHANGED <<tries, NetRestarted>>
  PROVE  /\ NetState \in {"continue", "success"} => Round(l)'
         /\ Round(l + 1)'
BY AgainFirst, AgainMore

\* A step that leaves the ring, NetState and the attempts as they are.
LEMMA RoundSame ==
  ASSUME NEW l \in Nat, Round(l), UNCHANGED <<tries, NetState, NetRestarted>>,
         eth'.cur = eth.cur, eth'.failed = eth.failed, pc # "restart", pc' # "restart"
  PROVE  Round(l)'
<1>1. (ToCome' <=> ToCome) /\ \A d \in Devices : Ahead(d)' <=> Ahead(d)
  BY DEF ToCome, Ahead, Dist
<1>2. (~ToCome /\ NetState # "fail")' <=> (~ToCome /\ NetState # "fail")
  BY <1>1
<1> QED
  BY <1>1, <1>2 DEF Round, Dist

\* The attempt that Start counts is the next one of the round.
LEMMA StartRounds ==
  ASSUME TypeOK, FailedInv, OneInv, RoundsInv, Start, netretry = "once"
  PROVE  \E l \in 0 .. rxs : Counted(l)'
<1>0. CtrlType /\ CmdType /\ LoopType /\ ArpsType
  BY TypeParts
<1>1. /\ pc = "restart" /\ pc' = "rx" /\ NetState = "continue"
      /\ UNCHANGED <<NetState, eth, NetRestarted, rxs>>
  BY DEF Start, OneInv
<1>2. /\ \A d \in Devices \ {eth.cur} : tries'[d] = tries[d]
      /\ tries[eth.cur] = 0 => tries'[eth.cur] = 1
      /\ tries'[eth.cur] <= tries[eth.cur] + 1
      /\ eth.cur \in Devices
  BY <1>0, StartCounts DEF LoopType, EthType
<1>3. /\ \A d \in Devices : tries[d] \in Nat /\ tries'[d] \in Nat
      /\ rxs \in Nat
  BY <1>0, StartCounts, ConstantsAre DEF CmdType, CtrlType, Many
<1>4. ToCome /\ ~(ToCome')
  BY <1>1 DEF ToCome
<1>5. NetRestarted => \A d \in Devices : /\ Dist(eth.failed, d) \in Nat
                                         /\ Dist(eth.failed, eth.cur) \in Nat
  BY <1>2, DistEqual DEF FailedInv
<1>6. \A d \in Devices : Ahead(d)' => d # eth.cur
  BY <1>1, <1>2, <1>5 DEF Ahead, Dist
<1>7. \A l : Paid(l)'
  BY <1>1 DEF Paid
<1>8. ASSUME NEW l \in Nat, tries[eth.cur] <= l, \A d \in Devices : tries[d] <= l + 1,
             \A d \in Devices : Ahead(d)' => tries[d] <= l
      PROVE  Round(l)'
  <2>1. \A d \in Devices : tries'[d] <= l + 1
    BY <1>2, <1>3, <1>8
  <2>2. \A d \in Devices : Ahead(d)' => tries'[d] <= l
    BY <1>2, <1>6, <1>8
  <2> QED
    BY <1>1, <1>4, <2>1, <2>2 DEF Round
<1>9. CASE Untried
  <2>1. \A d \in Devices : tries[d] = 0
    BY <1>9 DEF Untried
  <2>2. Round(0)'
    BY <1>2, <1>8, <2>1
  <2>3. 0 \in 0 .. rxs
    BY <1>3
  <2> QED
    BY <1>7, <2>2, <2>3 DEF Counted
<1>10. CASE ~Untried
  <2>1. PICK l \in 0 .. rxs : Counted(l)
    BY <1>1, <1>10 DEF RoundsInv, Live
  <2>2. l \in Nat /\ NetRestarted /\ \A d \in Devices : tries[d] <= l + 1
    BY <1>1, <1>3, <2>1 DEF Counted, Round
  <2>3. \A d \in Devices : Dist(eth.failed, d) >= Dist(eth.failed, eth.cur) => tries[d] <= l
    BY <1>4, <2>1 DEF Counted, Round
  <2>4. tries[eth.cur] <= l
    BY <1>2, <1>5, <2>2, <2>3
  <2>5. ASSUME NEW d \in Devices, Ahead(d)' PROVE tries[d] <= l
    <3>1. Dist(eth.failed, d) > Dist(eth.failed, eth.cur)
      BY <1>1, <2>2, <2>5 DEF Ahead, Dist
    <3>2. Dist(eth.failed, d) >= Dist(eth.failed, eth.cur)
      BY <1>5, <2>2, <3>1
    <3> QED
      BY <2>3, <3>2
  <2>6. Round(l)'
    BY <1>8, <2>2, <2>4, <2>5
  <2> QED
    BY <1>7, <2>1, <2>6 DEF Counted
<1> QED
  BY <1>9, <1>10

LEMMA RoundsStep ==
  ASSUME TypeOK, FailedInv, OneInv, TimesInv, RoundsInv, [Next]_vars
  PROVE  RoundsInv'
<1> SUFFICES ASSUME Live'
             PROVE  \E l \in 0 .. rxs' : Counted(l)'
  BY DEF RoundsInv
<1>0. CtrlType /\ CmdType /\ LoopType /\ ArpsType
  BY TypeParts
<1>1. CASE Start
  <2>1. netretry = "once" /\ UNCHANGED rxs
    BY <1>1 DEF Start, Live
  <2> QED
    BY <1>1, <2>1, StartRounds
<1>2. CASE ~Start
  <2>1. /\ Live /\ netretry = "once" /\ UNCHANGED tries
        /\ \/ StartNoAddress \/ EndRx \/ ArpTimeoutCheck \/ TimerCheck \/ Switch
           \/ RxArpReply \/ RxProgress \/ RxSuccess \/ RxError \/ Tick
           \/ UNCHANGED vars
    BY <1>2, LiveBefore DEF Live
  <2>2. PICK l \in 0 .. rxs : Counted(l)
    BY <2>1 DEF RoundsInv
  <2>3. l \in Nat /\ l <= rxs /\ rxs \in Nat /\ Round(l) /\ Paid(l)
    BY <1>0, <2>2 DEF CtrlType, Counted
  <2>4. KnownInv /\ BudgetInv /\ DueInv
    BY <2>1 DEF TimesInv, Times
  <2>5. ASSUME Round(l)', Paid(l)', UNCHANGED rxs
        PROVE  \E k \in 0 .. rxs' : Counted(k)'
    BY <2>2, <2>5 DEF Counted
  <2>6. ASSUME Round(l + 1)', Paid(l + 1)', l + 1 <= rxs'
        PROVE  \E k \in 0 .. rxs' : Counted(k)'
    <3>1. l + 1 \in 0 .. rxs'
      <4>1. rxs' \in Nat
        BY NetLoopTypeStep, TypeParts DEF CtrlType
      <4> QED
        BY <2>3, <2>6, <4>1
    <3> QED
      BY <2>6, <3>1 DEF Counted
  <2>7. CASE StartNoAddress
    <3>1. /\ pc = "restart" /\ pc' = "rx" /\ NetStartAgain(timeHandler)
          /\ UNCHANGED <<NetRestarted, arp, rxs>> /\ NetState = "continue"
      BY <2>7 DEF StartNoAddress, OneInv, cmdVars, arpVars
    <3>2. UNCHANGED <<timeHandler, timeLeft>>
      BY <2>1, <3>1, AgainMoves
    <3>3. Round(l)'
      BY <2>1, <2>3, <3>1, AgainRounds
    <3>4. NoMore'
      BY <2>4, <3>1, <3>2 DEF DueInv, NoMore, ArpGives, TftpDue
    <3>5. Paid(l)'
      BY <3>4 DEF Paid
    <3> QED
      BY <2>5, <3>1, <3>3, <3>5
  <2>8. CASE RxError
    <3>1. /\ pc = "rx" /\ pc' = "rx" /\ NetStartAgain(timeHandler) /\ rxs' = rxs + 1
          /\ UNCHANGED <<NetRestarted, arp>>
      BY <2>8 DEF RxError, Frame, cmdVars, arpVars
    <3>2. UNCHANGED <<timeHandler, timeLeft>>
      BY <2>1, <3>1, AgainMoves
    <3>3. /\ NetState = "continue" => Round(l)'
          /\ Round(l + 1)'
      BY <2>1, <2>3, <3>1, AgainRounds
    <3>4. CASE NetState = "continue"
      <4>1. l \in 0 .. rxs' /\ l < rxs'
        BY <2>3, <3>1
      <4>2. Paid(l)'
        BY <4>1 DEF Paid
      <4> QED
        BY <3>3, <3>4, <4>1, <4>2 DEF Counted
    <3>5. CASE NetState # "continue"
      <4>1. l < rxs \/ NoMore
        BY <2>3, <3>1, <3>5 DEF Paid
      <4>2. l + 1 < rxs' \/ NoMore'
        BY <2>3, <3>1, <3>2, <4>1 DEF NoMore, ArpGives, TftpDue
      <4>3. Paid(l + 1)'
        BY <4>2 DEF Paid
      <4>4. l + 1 <= rxs'
        BY <2>3, <3>1
      <4> QED
        BY <2>6, <3>3, <4>3, <4>4
    <3> QED
      BY <3>4, <3>5
  <2>9. CASE RxSuccess
    <3>1. /\ pc = "rx" /\ pc' = "rx" /\ NetState' = "success" /\ rxs' = rxs + 1
          /\ UNCHANGED <<NetRestarted, eth, arp, timeHandler, timeLeft>>
      BY <2>9 DEF RxSuccess, Frame, cmdVars, arpVars
    <3>2. ~(ToCome') /\ \A d \in Devices : Ahead(d)' <=> Ahead(d)
      BY <3>1 DEF ToCome, Ahead, Dist
    <3>3. \A d \in Devices : tries[d] \in Nat /\ tries[d] <= l + 1
      BY <1>0, <2>3, ConstantsAre DEF CmdType, Many, Round
    <3>4. CASE NetState = "continue"
      <4>1. l \in 0 .. rxs' /\ l < rxs'
        BY <2>3, <3>1
      <4>2. Paid(l)'
        BY <4>1 DEF Paid
      <4>3. ~ToCome
        BY <3>1, <3>4 DEF ToCome
      <4>4. \A d \in Devices : Ahead(d)' => tries'[d] <= l
        BY <2>1, <2>3, <3>2, <3>4, <4>3 DEF Round
      <4>5. Round(l)'
        BY <2>1, <3>1, <3>2, <3>3, <4>4 DEF Round
      <4> QED
        BY <4>1, <4>2, <4>5 DEF Counted
    <3>5. CASE NetState # "continue"
      <4>1. l < rxs \/ NoMore
        BY <2>3, <3>1, <3>5 DEF Paid
      <4>2. l + 1 < rxs' \/ NoMore'
        BY <2>3, <3>1, <4>1 DEF NoMore, ArpGives, TftpDue
      <4>3. Paid(l + 1)'
        BY <4>2 DEF Paid
      <4>4. l + 1 <= rxs'
        BY <2>3, <3>1
      <4>5. \A d \in Devices : tries'[d] <= (l + 1) + 1 /\ tries'[d] <= l + 1
        BY <2>1, <2>3, <3>3
      <4>6. Round(l + 1)'
        BY <3>1, <3>2, <4>5 DEF Round
      <4> QED
        BY <2>6, <4>3, <4>4, <4>6
    <3> QED
      BY <3>4, <3>5
  <2>10. CASE RxArpReply \/ RxProgress
    <3>1. /\ pc = "rx" /\ pc' = "rx" /\ rxs' = rxs + 1 /\ UNCHANGED <<NetState, NetRestarted, eth>>
      BY <2>10 DEF RxArpReply, RxProgress, Frame, cmdVars, loopVars
    <3>2. l \in 0 .. rxs' /\ l < rxs'
      BY <2>3, <3>1
    <3>3. Paid(l)'
      BY <3>2 DEF Paid
    <3>4. Round(l)'
      BY <2>1, <2>3, <3>1, RoundSame
    <3> QED
      BY <3>2, <3>3, <3>4 DEF Counted
  <2>11. CASE EndRx
    <3>1. /\ pc = "rx" /\ pc' = "arp" /\ eth' = RxTail(eth)
          /\ UNCHANGED <<NetState, NetRestarted, timeHandler, timeLeft, arp, rxs>>
      BY <2>11 DEF EndRx, cmdVars, arpVars
    <3>2. eth'.cur = eth.cur /\ eth'.failed = eth.failed
      BY <1>0, <3>1 DEF RxTail, LoopType, EthType
    <3>3. Round(l)'
      BY <2>1, <2>3, <3>1, <3>2, RoundSame
    <3>4. NoMore' <=> NoMore
      BY <3>1 DEF NoMore, ArpGives, TftpDue
    <3>5. Paid(l)'
      BY <2>3, <3>1, <3>4 DEF Paid
    <3> QED
      BY <2>5, <3>1, <3>3, <3>5
  <2>12. CASE ArpTimeoutCheck
    <3>1. pc = "arp" /\ pc' = "timer" /\ UNCHANGED <<NetRestarted, rxs>>
      BY <2>12 DEF ArpTimeoutCheck, cmdVars
    <3>2. CASE UNCHANGED loopVars
      <4>1. UNCHANGED <<NetState, eth, timeHandler, timeLeft>>
        BY <3>2 DEF loopVars
      <4>2. Round(l)'
        BY <2>1, <2>3, <3>1, <4>1, RoundSame
      <4>3. NoMore => NoMore'
        BY <3>1, <4>1 DEF NoMore, TftpDue
      <4>4. Paid(l)'
        BY <2>3, <3>1, <4>1, <4>3 DEF Paid
      <4> QED
        BY <2>5, <3>1, <4>2, <4>4
    <3>3. CASE ArpGives /\ NetStartAgain(timeHandler)
      <4>1. UNCHANGED <<timeHandler, timeLeft>>
        BY <2>1, <3>3, AgainMoves
      <4>2. ~(TftpDue')
        BY <2>4, <3>1, <3>3, <4>1 DEF DueInv, TftpDue
      <4>3. \A k : Paid(k)'
        BY <3>1, <4>2 DEF Paid, NoMore
      <4>4. /\ NetState = "continue" => Round(l)'
            /\ Round(l + 1)'
        BY <2>1, <2>3, <3>1, <3>3, AgainRounds
      <4>5. CASE NetState = "continue"
        BY <2>5, <3>1, <4>3, <4>4, <4>5
      <4>6. CASE NetState # "continue"
        <5>1. l < rxs
          BY <2>3, <3>1, <3>3, <4>6 DEF Paid, NoMore
        <5>2. l + 1 <= rxs'
          BY <2>3, <3>1, <5>1
        <5> QED
          BY <2>6, <4>3, <4>4, <5>2
      <4> QED
        BY <4>5, <4>6
    <3> QED
      BY <2>12, <3>2, <3>3 DEF ArpTimeoutCheck, ArpDue, ArpGives
  <2>13. CASE TimerCheck
    <3>1. pc = "timer" /\ pc' = "switch" /\ UNCHANGED <<NetRestarted, rxs>>
      BY <2>13 DEF TimerCheck, cmdVars
    <3>2. \A k : Paid(k)'
      BY <3>1 DEF Paid
    <3>3. CASE UNCHANGED <<NetState, eth>>
      <4>1. Round(l)'
        BY <2>1, <2>3, <3>1, <3>3, RoundSame
      <4> QED
        BY <2>5, <3>1, <3>2, <4>1
    <3>4. CASE TftpDue /\ NetStartAgain("none")
      <4>1. /\ NetState = "continue" => Round(l)'
            /\ Round(l + 1)'
        BY <2>1, <2>3, <3>1, <3>4, AgainRounds
      <4>2. CASE NetState = "continue"
        BY <2>5, <3>1, <3>2, <4>1, <4>2
      <4>3. CASE NetState # "continue"
        <5>1. l < rxs
          BY <2>3, <3>1, <3>4, <4>3 DEF Paid, NoMore
        <5>2. l + 1 <= rxs'
          BY <2>3, <3>1, <5>1
        <5> QED
          BY <2>6, <3>2, <4>1, <5>2
      <4> QED
        BY <4>2, <4>3
    <3>5. CASE PingTimeout
      <4>1. NetState' = "fail" /\ ~(ToCome')
        BY <3>1, <3>5 DEF PingTimeout, ToCome
      <4>2. Round(l)'
        BY <2>1, <2>3, <3>1, <4>1 DEF Round
      <4> QED
        BY <2>5, <3>1, <3>2, <4>2
    <3>6. timeHandler # "startAgain"
      <4>1. protocol # "startAgain"
        BY <1>0, NetLoopAssumption DEF CmdType
      <4> QED
        BY <2>4, <4>1 DEF KnownInv
    <3> QED
      BY <2>13, <3>3, <3>4, <3>5, <3>6 DEF TimerCheck, TimeDue, TftpDue, TftpTimeout, loopVars
  <2>14. CASE Switch
    <3>1. /\ pc = "switch" /\ UNCHANGED <<eth, rxs>>
          /\ \/ NetState = "continue" /\ pc' = "rx" /\ UNCHANGED <<NetState, NetRestarted>>
             \/ NetState = "restart" /\ pc' = "restart" /\ NetRestarted' = TRUE
      BY <2>14 DEF Switch, Live
    <3>2. Paid(l)'
      BY <3>1 DEF Paid
    <3>3. CASE NetState = "continue"
      <4>1. Round(l)'
        BY <2>1, <2>3, <3>1, <3>3, RoundSame
      <4> QED
        BY <2>5, <3>1, <3>2, <4>1
    <3>4. CASE NetState = "restart"
      <4>1. ToCome /\ ToCome' /\ NetRestarted'
        BY <3>1, <3>4 DEF ToCome
      <4>2. Round(l)'
        BY <2>1, <2>3, <3>1, <4>1 DEF Round, Dist
      <4> QED
        BY <2>5, <3>1, <3>2, <4>2
    <3> QED
      BY <3>1, <3>3, <3>4
  <2>15. CASE Tick
    <3>1. /\ pc = "rx" /\ pc' = "rx" /\ NetState = "continue"
          /\ UNCHANGED <<NetState, NetRestarted, eth, rxs>>
      BY <2>15 DEF Tick, SomethingToDo, cmdVars
    <3>2. Paid(l)'
      BY <3>1 DEF Paid
    <3>3. Round(l)'
      BY <2>1, <2>3, <3>1, RoundSame
    <3> QED
      BY <2>5, <3>1, <3>2, <3>3
  <2>16. CASE UNCHANGED vars
    <3>1. UNCHANGED <<pc, NetState, NetRestarted, eth, timeHandler, timeLeft, arp, rxs>>
      BY <2>16 DEF vars, loopVars, arpVars, cmdVars
    <3>2. Round(l)'
      BY <2>1, <2>3, <3>1 DEF Round, ToCome, Ahead, Dist
    <3>3. Paid(l)'
      BY <2>3, <3>1 DEF Paid, NoMore, ArpGives, TftpDue
    <3> QED
      BY <2>5, <3>1, <3>2, <3>3
  <2> QED
    BY <2>1, <2>7, <2>8, <2>9, <2>10, <2>11, <2>12, <2>13, <2>14, <2>15, <2>16
<1> QED
  BY <1>1, <1>2

\* Between two commands the attempts of the last one stand.
LEMMA BoundedStep ==
  ASSUME TypeOK, AttemptsBounded, RoundsInv', TypeOK', [Next]_vars
  PROVE  AttemptsBounded'
<1> SUFFICES ASSUME netretry' = "once", NEW d \in Devices
             PROVE  tries'[d] <= 1 + rxs'
  BY DEF AttemptsBounded
<1>1. tries'[d] \in Nat /\ rxs' \in Nat /\ rxs \in Nat
  BY TypeParts, ConstantsAre DEF CtrlType, CmdType, Many
<1>2. CASE Untried'
  BY <1>1, <1>2 DEF Untried
<1>3. CASE Live'
  <2>1. PICK l \in 0 .. rxs' : Counted(l)'
    BY <1>3 DEF RoundsInv
  <2>2. tries'[d] <= l + 1
    BY <2>1 DEF Counted, Round
  <2> QED
    BY <1>1, <2>1, <2>2
<1>4. CASE ~(Untried') /\ ~(Live')
  <2>1. pc' = "idle"
    BY <1>4 DEF Live
  <2>2. UNCHANGED <<tries, netretry, rxs>>
    BY <2>1 DEF Next, Command, NetLoop, Loop, Start, StartNoAddress, Refuse, EndRx,
       ArpTimeoutCheck, TimerCheck, Switch, Receive, RxArpReply, RxProgress, RxSuccess, RxError,
       Frame, Tick, Abort, BetweenCommands, Done, vars, cmdVars
  <2> QED
    BY <2>2 DEF AttemptsBounded
<1> QED
  BY <1>2, <1>3, <1>4

\* With netretry = once, and ARP that asks more than once and gives up before
\* tftp.c does, NetLoop tries no device more often than once and once more for every
\* frame, on any ring of devices and after any commands: each time-out moves
\* on to a device of the same round, and a second NetStartAgain of an iteration,
\* which begins a new round, has had a frame before it.
THEOREM NetLoopAttemptsBounded ==
  ASSUME ArpGivesUpFirst, ArpAsksAgain
  PROVE  Spec => []AttemptsBounded
<1> DEFINE Inv == TypeOK /\ FailedInv /\ OneInv /\ TimesInv /\ RoundsInv /\ AttemptsBounded
<1>1. Init => Inv
  <2>1. Init => TimesInv /\ RoundsInv
    BY DEF Init, TimesInv, RoundsInv, Live
  <2>2. Init => AttemptsBounded
    BY DEF Init, AttemptsBounded
  <2> QED
    BY <2>1, <2>2, NetLoopTypeInit, FailedInit, OneInvInit
<1>2. Inv /\ [Next]_vars => Inv'
  BY NetLoopTypeStep, FailedStep, OneInvStep, TimesStep, RoundsStep, BoundedStep
<1> QED
  BY <1>1, <1>2, PTL DEF Spec

=============================================================================
