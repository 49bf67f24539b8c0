----------------------------- MODULE BootProofs -----------------------------
(***************************************************************************)
(* Proofs about Boot and SpiFlash: the flash commands do what they are     *)
(* asked for and spare the rest, and abortboot hears every key.            *)
(***************************************************************************)
EXTENDS Boot, SequenceTheorems, TLAPS

-----------------------------------------------------------------------------
(* Pages and sectors. *)

LEMMA DivIs ==
  ASSUME NEW a \in Int, NEW b \in Nat \ {0}
  PROVE  a \div b \in Int /\ a % b \in 0 .. b - 1 /\ a = b * (a \div b) + (a % b)
OBVIOUS

LEMMA TimesLe ==
  ASSUME NEW m \in Int, NEW n \in Int, NEW b \in Nat, m <= n
  PROVE  b * m <= b * n
OBVIOUS

LEMMA TimesLess ==
  ASSUME NEW m \in Int, NEW n \in Int, NEW b \in Nat \ {0}, b * m < b * n
  PROVE  m < n
OBVIOUS

LEMMA DivUnique ==
  ASSUME NEW a \in Int, NEW b \in Nat \ {0}, NEW q \in Int
  PROVE  (a \div b = q) <=> (b * q <= a /\ a < b * q + b)
<1>1. a \div b \in Int /\ a % b \in 0 .. b - 1 /\ a = b * (a \div b) + (a % b)
  BY DivIs
<1>2. ASSUME b * q <= a, a < b * q + b
      PROVE  a \div b = q
  <2> DEFINE d == a \div b
  <2>1. b * q < b * (d + 1) /\ b * d < b * (q + 1)
    BY <1>1, <1>2
  <2> HIDE DEF d
  <2>2. d \in Int
    BY <1>1 DEF d
  <2>3. q < d + 1 /\ d < q + 1
    BY <2>1, <2>2, TimesLess
  <2> QED
    BY <2>2, <2>3 DEF d
<1> QED
  BY <1>1, <1>2

-----------------------------------------------------------------------------
(* The inductive invariant. *)

Contents == [Bytes -> {"kept", "old", "new", "cmd", "ff", "junk"} \X Bytes]

\* The first address that the flash commands leave alone.
FwEnd == SECTOR * CalSector

\* An erase that has the sectors left before it: they are what is left of the
\* range, and the chip is at the first of them or has finished it.
ErasedBut(left) ==
  [i \in Bytes |-> IF Sector(i) \in (Sector(drv.addr) .. Sector(drv.addr + drv.len - 1)) \ left
                   THEN Erased ELSE drv.before[i]]

Erasing ==
  /\ drv \in [op : {"erase"}, addr : Nat, len : Nat, left : SUBSET Int, polling : BOOLEAN,
              before : Contents]
  /\ FwStart <= drv.addr /\ Sector(drv.addr + drv.len - 1) < CalSector
  /\ \E lo \in Sector(drv.addr) .. Sector(drv.addr + drv.len - 1) + 1 :
       LET hi == Sector(drv.addr + drv.len - 1)
       IN  /\ drv.left = lo .. hi
           /\ drv.polling => lo <= hi
           /\ wip # Idle => drv.polling /\ wip = [op |-> "erase", addr |-> lo * SECTOR]
           /\ flash = ErasedBut(IF drv.polling /\ wip = Idle THEN lo + 1 .. hi ELSE lo .. hi)

\* A write that has come to total: the chip is at the piece behind it or has
\* finished it.
Piece ==
  [op |-> "program", addr |-> drv.addr + drv.total,
   data |-> [k \in 0 .. len_this_lp - 1 |-> <<drv.src, drv.total + k>>]]

Written(n) ==
  [i \in Bytes |-> IF i \in drv.addr .. drv.addr + n - 1
                   THEN And(drv.before[i], <<drv.src, i - drv.addr>>) ELSE drv.before[i]]

Writing ==
  /\ drv \in [op : {"write"}, addr : Nat, len : Nat, src : {"new", "cmd"}, total : Nat,
              polling : BOOLEAN, before : Contents]
  /\ FwStart <= drv.addr /\ drv.addr + drv.len <= FwEnd
  /\ drv.total <= drv.len /\ (drv.polling => drv.total < drv.len)
  /\ wip # Idle => drv.polling /\ wip = Piece
  /\ PageWise =>
       /\ drv.total \in {0, drv.len} \/ (drv.addr % PAGE = 0 /\ drv.total % PAGE = 0)
       /\ flash = Written(IF drv.polling /\ wip = Idle THEN drv.total + len_this_lp
                                                      ELSE drv.total)

FlashInv ==
  /\ flash \in Contents /\ Spared
  /\ (drv = Idle /\ wip = Idle) \/ Erasing \/ Writing

\* presskey holds the end of what has been typed, and a character has come since
\* the last comparison or not.
KeyInv ==
  /\ typed \in Seq(Chars) /\ presskey \in Seq(Chars)
  /\ Len(presskey) = IF Len(typed) < presskey_max THEN Len(typed) ELSE presskey_max
  /\ \A i \in 1 .. Len(presskey) : presskey[i] = typed[(Len(typed) - Len(presskey)) + i]
  /\ seen \in 0 .. Len(typed)
  /\ (stage = "abortboot" /\ ~abort) => Len(typed) <= seen + 1
  /\ StopHeard

StageInv ==
  /\ stage \in {"off", "abortboot", "factory", "usb", "scan", "erase", "write", "bootcmd",
                "prompt", "kernel_net", "kernel_usb", "kernel_flash"}
  /\ stick \in Seq([rec : Nat, boot : BOOLEAN])
  /\ part \in 1 .. Len(stick) + 1 /\ after \in {"scan", "bootcmd", "prompt"}
  /\ file \in 0 .. MaxRecovery
  /\ losses \in 0 .. MaxLosses /\ cmds \in 0 .. MaxCmds

-----------------------------------------------------------------------------
(* The layout of the flash. *)

LEMMA LayoutIs ==
  /\ PAGE \in Nat \ {0} /\ SECTOR \in Nat \ {0, 1} /\ Sectors \in Nat \ {0}
  /\ CalSector \in Nat /\ FwStart \in Nat \ {0} /\ FwEnd \in Nat /\ Size \in Nat
  /\ FwEnd + SECTOR = Size /\ MaxRecovery \in Nat \ {0}
  /\ FwStart + MaxRecovery <= FwEnd
  /\ FwStart = SECTOR * Sector(FwStart) /\ Sector(FwStart) \in Int
  /\ \E p \in Int : FwStart = PAGE * p
  /\ \E r \in Int : FwEnd = PAGE * r
<1>1. /\ PAGE \in Nat \ {0} /\ SECTOR \in Nat \ {0, 1} /\ Sectors \in Nat \ {0}
      /\ SECTOR % PAGE = 0
      /\ FwStart \in Nat \ {0} /\ FwStart % SECTOR = 0 /\ CalSector = Sectors - 1
      /\ MaxRecovery \in Nat \ {0} /\ FwStart + MaxRecovery <= CalSector * SECTOR
  BY SpiAssumption, BootAssumption
<1>2. CalSector \in Nat
  BY <1>1
<1>3. FwEnd \in Nat /\ Size \in Nat /\ FwEnd + SECTOR = Size /\ FwStart + MaxRecovery <= FwEnd
  BY <1>1, <1>2 DEF FwEnd, Size
<1>4. FwStart = SECTOR * Sector(FwStart) /\ Sector(FwStart) \in Int
  BY <1>1, DivIs DEF Sector
<1>5. PICK y \in Int : SECTOR = PAGE * y
  BY <1>1, DivIs
<1>6. FwStart = PAGE * (y * Sector(FwStart)) /\ FwEnd = PAGE * (y * CalSector)
  BY <1>1, <1>2, <1>4, <1>5 DEF FwEnd
<1>7. y * Sector(FwStart) \in Int /\ y * CalSector \in Int
  BY <1>2, <1>4
<1> QED
  BY <1>1, <1>2, <1>3, <1>4, <1>6, <1>7

LEMMA SectorIs ==
  ASSUME NEW i \in Int, NEW s \in Int
  PROVE  Sector(i) \in Int /\ (Sector(i) = s <=> SECTOR * s <= i /\ i < SECTOR * s + SECTOR)
BY LayoutIs, DivUnique, DivIs DEF Sector

\* A later address is not in an earlier sector.
LEMMA SectorMono ==
  ASSUME NEW i \in Int, NEW j \in Int, i <= j
  PROVE  Sector(i) <= Sector(j)
<1>1. Sector(i) \in Int /\ Sector(j) \in Int
  BY SectorIs
<1>2. SECTOR * Sector(i) <= i /\ j < SECTOR * Sector(j) + SECTOR
  BY <1>1, SectorIs
<1>3. SECTOR * Sector(i) < SECTOR * (Sector(j) + 1)
  BY <1>1, <1>2, LayoutIs
<1>4. Sector(i) < Sector(j) + 1
  BY <1>1, <1>3, LayoutIs, TimesLess
<1> QED
  BY <1>1, <1>4

LEMMA KeptIs ==
  ASSUME NEW i \in Bytes
  PROVE  i \in Int /\ (i \in Kept <=> i < FwStart \/ FwEnd <= i)
<1>1. i \in Int /\ 0 <= i /\ i < Size
  BY LayoutIs DEF Bytes
<1>2. Sector(i) = CalSector <=> FwEnd <= i /\ i < FwEnd + SECTOR
  BY <1>1, LayoutIs, SectorIs DEF FwEnd
<1> QED
  BY <1>1, <1>2, LayoutIs DEF Kept

\* What the chip does in a sector or a page between FwStart and FwEnd stays there.
LEMMA SectorSpares ==
  ASSUME NEW s \in Int, Sector(FwStart) <= s, s < CalSector, NEW i \in Bytes, Sector(i) = s
  PROVE  i \notin Kept
<1>1. i \in Int /\ SECTOR * s <= i /\ i < SECTOR * s + SECTOR
  BY KeptIs, SectorIs
<1>2. FwStart <= SECTOR * s
  BY LayoutIs, TimesLe
<1>3. SECTOR * (s + 1) <= FwEnd
  BY LayoutIs, TimesLe DEF FwEnd
<1>4. FwStart <= i /\ i < FwEnd
  BY <1>1, <1>2, <1>3, LayoutIs
<1> QED
  BY <1>1, <1>4, KeptIs, LayoutIs

LEMMA PageSpares ==
  ASSUME NEW a \in Int, FwStart <= a, a < FwEnd, NEW k \in Int
  PROVE  LET i == (a - (a % PAGE)) + (((a % PAGE) + k) % PAGE)
         IN  i \in Bytes /\ i \notin Kept
<1> DEFINE m == a % PAGE
           j == (m + k) % PAGE
           d == a \div PAGE
           i == (a - m) + j
<1>1. m \in 0 .. PAGE - 1 /\ d \in Int /\ a = PAGE * d + m
  BY LayoutIs, DivIs
<1> HIDE DEF m, d
<1>2. j \in 0 .. PAGE - 1
  <2>1. m + k \in Int /\ PAGE \in Nat \ {0}
    BY <1>1, LayoutIs
  <2> QED
    BY <2>1, DivIs
<1> HIDE DEF j
<1>3. PICK p \in Int, r \in Int : FwStart = PAGE * p /\ FwEnd = PAGE * r
  BY LayoutIs
<1>4. PAGE * p < PAGE * (d + 1) /\ PAGE * d < PAGE * r
  BY <1>1, <1>3, LayoutIs
<1>5. p <= d /\ d + 1 <= r
  BY <1>1, <1>4, LayoutIs, TimesLess
<1>6. PAGE * p <= PAGE * d /\ PAGE * (d + 1) <= PAGE * r
  BY <1>1, <1>5, LayoutIs, TimesLe
<1>7. i \in Int /\ FwStart <= i /\ i < FwEnd
  BY <1>1, <1>2, <1>3, <1>6, LayoutIs
<1>8. i \in Bytes
  BY <1>7, LayoutIs DEF Bytes
<1> QED
  BY <1>7, <1>8, KeptIs, LayoutIs DEF m, j

-----------------------------------------------------------------------------
(* The chip. *)

LEMMA ByteTypes ==
  /\ 0 \in Bytes /\ Bytes \subseteq Int
  /\ Erased \in {"kept", "old", "new", "cmd", "ff", "junk"} \X Bytes
  /\ Junk \in {"kept", "old", "new", "cmd", "ff", "junk"} \X Bytes
<1>1. 0 \in Bytes /\ Bytes \subseteq Int
  BY LayoutIs DEF Bytes
<1> QED
  BY <1>1 DEF Erased, Junk

LEMMA InPage ==
  ASSUME NEW a \in Int
  PROVE  a % PAGE \in 0 .. PAGE - 1 /\ PAGE \in Nat \ {0}
BY SpiAssumption, DivIs

\* A piece is not empty, and ends with its page or with the data.
LEMMA PieceLen ==
  ASSUME Writing, drv.total < drv.len
  PROVE  /\ len_this_lp \in 1 .. drv.len - drv.total
         /\ drv.addr % PAGE \in 0 .. PAGE - 1
         /\ len_this_lp <= PAGE - (drv.addr % PAGE)
         /\ len_this_lp # drv.len - drv.total => len_this_lp = PAGE - (drv.addr % PAGE)
<1>1. drv.addr \in Nat /\ drv.len \in Nat /\ drv.total \in Nat
  BY DEF Writing
<1>2. drv.addr % PAGE \in 0 .. PAGE - 1 /\ PAGE \in Nat
  BY <1>1, InPage
<1> QED
  BY <1>1, <1>2 DEF len_this_lp, bytes_this_page

LEMMA EraseFinishes ==
  ASSUME flash \in Contents, Erasing, wip # Idle
  PROVE  /\ Finished \in Contents
         /\ \A i \in Kept : Finished[i] = flash[i]
<1> DEFINE hi == Sector(drv.addr + drv.len - 1)
<1>0. drv.addr \in Nat /\ drv.len \in Nat /\ hi \in Int /\ Sector(drv.addr) \in Int
  <2>1. drv.addr \in Nat /\ drv.len \in Nat
    BY DEF Erasing
  <2>2. drv.addr + drv.len - 1 \in Int
    BY <2>1
  <2> QED
    BY <2>1, <2>2, SectorIs
<1>1. PICK lo \in Sector(drv.addr) .. hi + 1 :
           lo <= hi /\ wip = [op |-> "erase", addr |-> lo * SECTOR]
  BY DEF Erasing
<1>2. lo \in Int /\ Sector(FwStart) <= lo /\ lo < CalSector
  <2>1. Sector(FwStart) <= Sector(drv.addr) /\ hi < CalSector
    BY <1>0, SectorMono, LayoutIs DEF Erasing
  <2> QED
    BY <1>0, <1>1, <2>1, LayoutIs
<1>3. Sector(lo * SECTOR) = lo
  <2>1. lo * SECTOR \in Int /\ lo * SECTOR = SECTOR * lo
    BY <1>2, LayoutIs
  <2>2. SECTOR * lo <= lo * SECTOR /\ lo * SECTOR < SECTOR * lo + SECTOR
    BY <1>2, <2>1, LayoutIs
  <2> QED
    BY <1>2, <2>1, <2>2, SectorIs
<1>4. Finished = [i \in Bytes |-> IF Sector(i) = lo THEN Erased ELSE flash[i]]
  BY <1>1, <1>3 DEF Finished
<1>5. Finished \in Contents
  BY <1>4, ByteTypes DEF Contents
<1>6. \A i \in Kept : i \in Bytes /\ Sector(i) # lo
  BY <1>2, SectorSpares DEF Kept
<1> QED
  BY <1>4, <1>5, <1>6

LEMMA WriteFinishes ==
  ASSUME flash \in Contents, Writing, wip # Idle
  PROVE  /\ Finished \in Contents
         /\ \A i \in Kept : Finished[i] = flash[i]
<1> DEFINE a == drv.addr + drv.total
           at(k) == (a - (a % PAGE)) + (((a % PAGE) + k) % PAGE)
           ks == 0 .. len_this_lp - 1
           data == [k \in ks |-> <<drv.src, drv.total + k>>]
           tags == {"kept", "old", "new", "cmd", "ff", "junk"}
           hit(i) == CHOOSE k \in ks : at(k) = i
<1>1. /\ drv.addr \in Nat /\ drv.len \in Nat /\ drv.total \in Nat /\ drv.src \in {"new", "cmd"}
      /\ FwStart <= drv.addr /\ drv.addr + drv.len <= FwEnd /\ drv.total < drv.len
      /\ wip = Piece
  BY DEF Writing
<1>2. len_this_lp \in 1 .. drv.len - drv.total
  BY <1>1, PieceLen
<1>3. a \in Int /\ FwStart <= a /\ a < FwEnd
  BY <1>1, LayoutIs
<1>4. \A k \in ks : at(k) \notin Kept
  BY <1>3, PageSpares
<1>5. \A k \in ks : data[k] \in tags \X Bytes
  BY <1>1, <1>2, LayoutIs DEF Bytes
<1>6. wip.op = "program" /\ wip.addr = a /\ wip.data = data /\ DOMAIN data = ks
  BY <1>1 DEF Piece
<1>7. Finished = [i \in Bytes |-> IF \E k \in ks : at(k) = i
                                  THEN And(flash[i], data[hit(i)]) ELSE flash[i]]
  <2> HIDE DEF data, a
  <2> QED
    BY <1>6 DEF Finished, Programmed
<1> HIDE DEF data, at
<1>8. \A i \in Bytes : (\E k \in ks : at(k) = i) => hit(i) \in ks
  BY Zenon
<1> HIDE DEF hit, ks
<1>9. ASSUME NEW i \in Bytes
      PROVE  Finished[i] \in tags \X Bytes
  <2>1. flash[i] \in tags \X Bytes
    BY DEF Contents
  <2>2. CASE \E k \in ks : at(k) = i
    BY <1>5, <1>7, <1>8, <2>2, ByteTypes DEF And
  <2>3. CASE ~\E k \in ks : at(k) = i
    BY <1>7, <2>1, <2>3
  <2> QED
    BY <2>2, <2>3
<1>10. Finished \in Contents
  <2>1. Finished = [i \in Bytes |-> Finished[i]]
    BY <1>7
  <2> QED
    BY <1>9, <2>1 DEF Contents
<1>11. \A i \in Kept : Finished[i] = flash[i]
  BY <1>4, <1>7 DEF Kept
<1> QED
  BY <1>10, <1>11

LEMMA SmallMod ==
  ASSUME NEW x \in 0 .. PAGE - 1
  PROVE  x % PAGE = x
<1>1. PAGE \in Nat \ {0} /\ x \in Int /\ PAGE * 0 <= x /\ x < PAGE * 0 + PAGE
  BY SpiAssumption
<1>2. x \div PAGE = 0
  BY <1>1, DivUnique
<1>3. x % PAGE \in Int /\ x = PAGE * (x \div PAGE) + (x % PAGE)
  BY <1>1, DivIs
<1> QED
  BY <1>1, <1>2, <1>3

LEMMA SumOfPages ==
  ASSUME NEW x \in Int, NEW y \in Int, x % PAGE = 0, y % PAGE = 0
  PROVE  (x + y) % PAGE = 0
<1> DEFINE p == x \div PAGE
           q == y \div PAGE
<1>0. PAGE \in Nat \ {0}
  BY SpiAssumption
<1>1. p \in Int /\ q \in Int /\ x = PAGE * p /\ y = PAGE * q
  BY <1>0, DivIs
<1>2. x + y = PAGE * (p + q) /\ x + y < PAGE * (p + q) + PAGE
  BY <1>0, <1>1
<1>3. (x + y) \div PAGE = p + q
  BY <1>0, <1>1, <1>2, DivUnique
<1>4. (x + y) % PAGE \in Int /\ x + y = PAGE * ((x + y) \div PAGE) + ((x + y) % PAGE)
  BY <1>0, DivIs
<1> HIDE DEF p, q
<1> QED
  BY <1>0, <1>1, <1>2, <1>3, <1>4

\* The pieces of a write that begins a page, or stays in one, end in their page.
LEMMA PieceInPage ==
  ASSUME Writing, PageWise, drv.total < drv.len
  PROVE  (drv.addr + drv.total) % PAGE \in Nat
         /\ ((drv.addr + drv.total) % PAGE) + len_this_lp <= PAGE
<1>1. drv.addr \in Nat /\ drv.len \in Nat /\ drv.total \in Nat /\ drv.op = "write"
  BY DEF Writing
<1>2. /\ drv.addr % PAGE \in 0 .. PAGE - 1
      /\ len_this_lp \in Int /\ len_this_lp <= PAGE - (drv.addr % PAGE)
      /\ PAGE \in Nat
  BY <1>1, PieceLen, InPage
<1>3. CASE drv.total = 0
  <2>1. drv.addr + drv.total = drv.addr
    BY <1>1, <1>3
  <2> QED
    BY <1>2, <2>1
<1>4. CASE drv.addr % PAGE = 0 /\ drv.total % PAGE = 0
  <2>1. (drv.addr + drv.total) % PAGE = 0
    <3>1. PICK x \in Int, y \in Int : x = drv.addr /\ y = drv.total
      BY <1>1
    <3>2. x % PAGE = 0 /\ y % PAGE = 0
      BY <1>4, <3>1
    <3>3. (x + y) % PAGE = 0
      BY <3>2, SumOfPages
    <3> QED
      BY <3>1, <3>3
  <2>2. len_this_lp <= PAGE
    BY <1>2
  <2> QED
    BY <1>2, <2>1, <2>2
<1> QED
  BY <1>1, <1>3, <1>4 DEF Writing

LEMMA WriteGoesOn ==
  ASSUME flash \in Contents, Writing, PageWise, wip # Idle
  PROVE  Finished = Written(drv.total + len_this_lp)
<1> DEFINE a == drv.addr + drv.total
           lp == len_this_lp
           at(k) == (a - (a % PAGE)) + (((a % PAGE) + k) % PAGE)
           data == [k \in 0 .. lp - 1 |-> <<drv.src, drv.total + k>>]
           hit(i) == CHOOSE k \in 0 .. lp - 1 : at(k) = i
<1>1. /\ drv.addr \in Nat /\ drv.len \in Nat /\ drv.total \in Nat
      /\ drv.total < drv.len /\ wip = Piece /\ flash = Written(drv.total)
  BY DEF Writing
<1>2. lp \in Nat /\ (a % PAGE) \in Nat /\ (a % PAGE) + lp <= PAGE /\ PAGE \in Nat
  BY <1>1, PieceLen, PieceInPage, SpiAssumption
<1>3. ASSUME NEW k \in 0 .. lp - 1
      PROVE  at(k) = a + k
  <2>1. (a % PAGE) + k \in 0 .. PAGE - 1
    BY <1>2
  <2>2. ((a % PAGE) + k) % PAGE = (a % PAGE) + k
    BY <2>1, SmallMod
  <2> DEFINE m == a % PAGE
  <2>3. m \in Nat /\ a \in Int /\ k \in Int
    BY <1>1, <1>2
  <2>4. at(k) = (a - m) + (m + k)
    BY <2>2
  <2> HIDE DEF m, a, at
  <2> QED
    BY <2>3, <2>4
<1>4. wip.op = "program" /\ wip.addr = a /\ wip.data = data /\ DOMAIN data = 0 .. lp - 1
  BY <1>1 DEF Piece
<1>5. Finished = [i \in Bytes |-> IF \E k \in 0 .. lp - 1 : at(k) = i
                                  THEN And(flash[i], data[hit(i)]) ELSE flash[i]]
  <2> HIDE DEF data, a, lp
  <2> QED
    BY <1>4 DEF Finished, Programmed
<1> HIDE DEF at
<1>6. \A i \in Bytes : (\E k \in 0 .. lp - 1 : at(k) = i) =>
         hit(i) \in 0 .. lp - 1 /\ at(hit(i)) = i
  <2> HIDE DEF lp
  <2> QED
    BY Zenon
<1> HIDE DEF hit
<1>7. ASSUME NEW i \in Bytes
      PROVE  Finished[i] = Written(drv.total + lp)[i]
  <2>0. i \in Int
    BY ByteTypes
  <2> HIDE DEF lp
  <2>1. CASE i \in a .. a + lp - 1
    <3>1. i - a \in 0 .. lp - 1 /\ at(i - a) = i
      BY <1>1, <1>2, <1>3, <2>0, <2>1
    <3>2. hit(i) = i - a
      BY <1>1, <1>2, <1>3, <1>6, <2>0, <3>1
    <3>3. data[hit(i)] = <<drv.src, i - drv.addr>>
      BY <1>1, <2>0, <3>1, <3>2
    <3>4. flash[i] = drv.before[i]
      BY <1>1, <2>0, <2>1 DEF Written
    <3>5. i \in drv.addr .. drv.addr + (drv.total + lp) - 1
      BY <1>1, <1>2, <2>0, <2>1
    <3> QED
      BY <1>5, <3>1, <3>3, <3>4, <3>5 DEF Written
  <2>2. CASE i \notin a .. a + lp - 1
    <3>1. \A k \in 0 .. lp - 1 : at(k) # i
      BY <1>1, <1>2, <1>3, <2>0, <2>2
    <3>2. Finished[i] = flash[i]
      BY <1>5, <3>1
    <3>3. i \in drv.addr .. drv.addr + (drv.total + lp) - 1 <=> i \in drv.addr .. drv.addr + drv.total - 1
      BY <1>1, <1>2, <2>0, <2>2
    <3> QED
      BY <1>1, <3>2, <3>3 DEF Written
  <2> QED
    BY <2>1, <2>2
<1> QED
  BY <1>5, <1>7 DEF Written

LEMMA EraseGoesOn ==
  ASSUME flash \in Contents, Erasing, ChipFinishes
  PROVE  Erasing'
<1> DEFINE hi == Sector(drv.addr + drv.len - 1)
           from == Sector(drv.addr)
<1>0. /\ drv' = drv /\ wip' = Idle /\ wip # Idle /\ flash' = Finished
      /\ drv.before \in Contents
  BY DEF ChipFinishes, Erasing
<1>1. hi \in Int /\ from \in Int
  <2>1. drv.addr \in Int /\ drv.addr + drv.len - 1 \in Int
    BY DEF Erasing
  <2> QED
    BY <2>1, SectorIs
<1>2. PICK lo \in from .. hi + 1 :
        /\ drv.left = lo .. hi /\ lo <= hi /\ drv.polling
        /\ wip = [op |-> "erase", addr |-> lo * SECTOR]
        /\ flash = ErasedBut(lo .. hi)
  BY <1>0 DEF Erasing
<1>3. lo \in Int /\ Sector(lo * SECTOR) = lo
  <2>1. lo \in Int /\ lo * SECTOR \in Int /\ SECTOR \in Nat \ {0}
    BY <1>1, <1>2, SpiAssumption
  <2>2. SECTOR * lo <= lo * SECTOR /\ lo * SECTOR < SECTOR * lo + SECTOR
    BY <2>1
  <2> QED
    BY <2>1, <2>2, SectorIs
<1>4. \A i \in Bytes : Sector(i) \in Int
  BY SectorIs, ByteTypes
<1>5. flash' = [i \in Bytes |-> IF Sector(i) = lo THEN Erased ELSE flash[i]]
  BY <1>0, <1>2, <1>3 DEF Finished
<1>6. flash' = ErasedBut(lo + 1 .. hi)
  <2> HIDE DEF hi, from
  <2>1. ErasedBut(lo + 1 .. hi) =
          [i \in Bytes |-> IF Sector(i) \in (from .. hi) \ (lo + 1 .. hi)
                           THEN Erased ELSE drv.before[i]]
    BY DEF ErasedBut, hi, from
  <2>2. flash = [i \in Bytes |-> IF Sector(i) \in (from .. hi) \ (lo .. hi)
                                 THEN Erased ELSE drv.before[i]]
    BY <1>2 DEF ErasedBut, hi, from
  <2>3. \A i \in Bytes : (Sector(i) \in (from .. hi) \ (lo + 1 .. hi)) <=>
                           (Sector(i) = lo \/ Sector(i) \in (from .. hi) \ (lo .. hi))
    BY <1>1, <1>2, <1>3, <1>4
  <2> QED
    BY <1>5, <2>1, <2>2, <2>3
<1>7. flash' = ErasedBut(lo + 1 .. hi)'
  BY <1>0, <1>6 DEF ErasedBut, Sector
<1> QED
  BY <1>0, <1>2, <1>7 DEF Erasing, Sector

LEMMA ChipKeeps ==
  ASSUME FlashInv, ChipFinishes
  PROVE  FlashInv'
<1>1. flash' = Finished /\ wip' = Idle /\ drv' = drv /\ wip # Idle
  BY DEF ChipFinishes
<1>2. flash' \in Contents /\ Spared'
  BY <1>1, EraseFinishes, WriteFinishes DEF FlashInv, Spared
<1>3. CASE Erasing
  BY <1>2, <1>3, EraseGoesOn DEF FlashInv
<1>4. CASE Writing
  <2>1. drv.polling
    BY <1>1, <1>4 DEF Writing
  <2>2. PageWise => flash' = Written(drv.total + len_this_lp)
    BY <1>1, <1>4, WriteGoesOn DEF FlashInv
  <2>3. Writing'
    BY <1>1, <1>4, <2>1, <2>2
    DEF Writing, PageWise, Written, len_this_lp, bytes_this_page
  <2> QED
    BY <1>2, <2>3 DEF FlashInv
<1> QED
  BY <1>1, <1>3, <1>4 DEF FlashInv

\* Power lost while the chip is at a sector or a page.
LEMMA LossKeeps ==
  ASSUME FlashInv, FlashPowerLoss
  PROVE  FlashInv'
<1>1. wip' = Idle /\ drv' = Idle
  BY DEF FlashPowerLoss
<1>2. wip # Idle => Finished \in Contents /\ \A i \in Kept : Finished[i] = flash[i]
  BY EraseFinishes, WriteFinishes DEF FlashInv
<1>3. flash' \in Contents /\ Spared'
  <2>1. CASE UNCHANGED flash
    BY <2>1 DEF FlashInv, Spared
  <2>2. CASE wip # Idle /\ flash' = Finished
    BY <1>2, <2>2 DEF FlashInv, Spared
  <2>3. CASE /\ wip # Idle
             /\ flash' = [i \in Bytes |-> IF Finished[i] # flash[i] THEN Junk ELSE flash[i]]
    <3>1. flash' \in Contents
      BY <2>3, ByteTypes DEF FlashInv, Contents
    <3> QED
      BY <1>2, <2>3, <3>1 DEF FlashInv, Spared, Kept
  <2> QED
    BY <2>1, <2>2, <2>3 DEF FlashPowerLoss
<1> QED
  BY <1>1, <1>3 DEF FlashInv

-----------------------------------------------------------------------------
(* The driver. *)

LEMMA SectorEraseKeeps ==
  ASSUME FlashInv, SpiSectorErase
  PROVE  FlashInv'
<1>1. /\ drv.op = "erase" /\ ~drv.polling /\ drv.left # {} /\ flash' = flash
      /\ drv' = [drv EXCEPT !.polling = TRUE]
      /\ wip' = IF wip = Idle THEN [op |-> "erase", addr |-> First(drv.left) * SECTOR] ELSE wip
  BY DEF SpiSectorErase, Issue
<1>2. Erasing
  BY <1>1 DEF FlashInv, Writing, Idle
<1> DEFINE hi == Sector(drv.addr + drv.len - 1)
           from == Sector(drv.addr)
<1>3. hi \in Int /\ from \in Int
  <2>1. drv.addr \in Int /\ drv.addr + drv.len - 1 \in Int
    BY <1>2 DEF Erasing
  <2> QED
    BY <2>1, SectorIs
<1>4. PICK lo \in from .. hi + 1 :
        drv.left = lo .. hi /\ wip = Idle /\ flash = ErasedBut(lo .. hi)
  BY <1>1, <1>2 DEF Erasing
<1>5. lo \in Int /\ lo <= hi
  BY <1>1, <1>3, <1>4
<1>6. First(drv.left) = lo
  <2>1. First(drv.left) \in drv.left /\ \A t \in drv.left : First(drv.left) <= t
    <3>1. lo \in drv.left /\ \A t \in drv.left : lo <= t
      BY <1>3, <1>4, <1>5
    <3> QED
      BY <3>1, Zenon DEF First
  <2> QED
    BY <1>3, <1>4, <1>5, <2>1
<1>7. wip' = [op |-> "erase", addr |-> lo * SECTOR] /\ wip' # Idle
  BY <1>1, <1>4, <1>6 DEF Idle
<1>8. /\ drv' \in [op : {"erase"}, addr : Nat, len : Nat, left : SUBSET Int,
                   polling : BOOLEAN, before : Contents]
      /\ drv'.addr = drv.addr /\ drv'.len = drv.len /\ drv'.left = drv.left
      /\ drv'.before = drv.before /\ drv'.polling = TRUE
  BY <1>1, <1>2 DEF Erasing
<1>9. ErasedBut(lo .. hi)' = ErasedBut(lo .. hi)
  BY <1>8 DEF ErasedBut, Sector
<1>10. Erasing'
  BY <1>1, <1>2, <1>4, <1>5, <1>7, <1>8, <1>9 DEF Erasing, Sector
<1> QED
  BY <1>1, <1>10 DEF FlashInv, Spared

LEMMA WritePageKeeps ==
  ASSUME FlashInv, SpiWritePage
  PROVE  FlashInv'
<1>1. /\ drv.op = "write" /\ ~drv.polling /\ drv.total < drv.len /\ flash' = flash
      /\ drv' = [drv EXCEPT !.polling = TRUE]
      /\ wip' = IF wip = Idle THEN Piece ELSE wip
  BY DEF SpiWritePage, Issue, Piece
<1>2. Writing
  BY <1>1 DEF FlashInv, Erasing, Idle
<1>3. wip = Idle /\ wip' = Piece
  BY <1>1, <1>2 DEF Writing
<1>4. /\ drv' \in [op : {"write"}, addr : Nat, len : Nat, src : {"new", "cmd"}, total : Nat,
                   polling : BOOLEAN, before : Contents]
      /\ drv'.addr = drv.addr /\ drv'.len = drv.len /\ drv'.src = drv.src /\ drv'.op = drv.op
      /\ drv'.total = drv.total /\ drv'.before = drv.before /\ drv'.polling = TRUE
  BY <1>1, <1>2 DEF Writing
<1>5. len_this_lp' = len_this_lp
  BY <1>4 DEF len_this_lp, bytes_this_page
<1>6. wip' = Piece' /\ wip' # Idle
  BY <1>3, <1>4, <1>5 DEF Piece, Idle
<1>7. PageWise' = PageWise /\ Written(drv.total)' = Written(drv.total)
  BY <1>4 DEF PageWise, Written, And
<1>8. Writing'
  BY <1>1, <1>2, <1>3, <1>4, <1>5, <1>6, <1>7 DEF Writing
<1> QED
  BY <1>1, <1>8 DEF FlashInv, Spared

LEMMA PollKeeps ==
  ASSUME FlashInv, SpiPoll
  PROVE  FlashInv'
<1>0. wip = Idle /\ wip' = Idle /\ flash' = flash /\ drv # Idle /\ drv.polling
  BY DEF SpiPoll
<1>1. CASE Erasing
  <2> DEFINE hi == Sector(drv.addr + drv.len - 1)
             from == Sector(drv.addr)
  <2>1. drv' = [drv EXCEPT !.polling = FALSE, !.left = @ \ {First(@)}]
    BY <1>1 DEF SpiPoll, Erasing
  <2>2. hi \in Int /\ from \in Int
    <3>1. drv.addr \in Int /\ drv.addr + drv.len - 1 \in Int
      BY <1>1 DEF Erasing
    <3> QED
      BY <3>1, SectorIs
  <2>3. PICK lo \in from .. hi + 1 :
          drv.left = lo .. hi /\ lo <= hi /\ flash = ErasedBut(lo + 1 .. hi)
    BY <1>0, <1>1 DEF Erasing
  <2>4. First(drv.left) = lo
    <3>1. First(drv.left) \in drv.left /\ \A t \in drv.left : First(drv.left) <= t
      <4>1. lo \in drv.left /\ \A t \in drv.left : lo <= t
        BY <2>2, <2>3
      <4> QED
        BY <4>1, Zenon DEF First
    <3> QED
      BY <2>2, <2>3, <3>1
  <2>5. drv.left \ {First(drv.left)} = lo + 1 .. hi /\ lo + 1 \in from .. hi + 1
    BY <2>2, <2>3, <2>4
  <2>6. /\ drv' \in [op : {"erase"}, addr : Nat, len : Nat, left : SUBSET Int,
                     polling : BOOLEAN, before : Contents]
        /\ drv'.addr = drv.addr /\ drv'.len = drv.len /\ drv'.left = lo + 1 .. hi
        /\ drv'.before = drv.before /\ drv'.polling = FALSE
    BY <1>1, <2>1, <2>5 DEF Erasing
  <2>7. ErasedBut(lo + 1 .. hi)' = ErasedBut(lo + 1 .. hi)
    BY <2>6 DEF ErasedBut, Sector
  <2>8. Erasing'
    BY <1>0, <1>1, <2>3, <2>5, <2>6, <2>7 DEF Erasing, Sector
  <2> QED
    BY <1>0, <2>8 DEF FlashInv, Spared
<1>2. CASE Writing
  <2>1. drv' = [drv EXCEPT !.polling = FALSE, !.total = @ + len_this_lp]
    BY <1>2 DEF SpiPoll, Writing
  <2>2. drv.addr \in Nat /\ drv.len \in Nat /\ drv.total \in Nat /\ drv.total < drv.len
    BY <1>0, <1>2 DEF Writing
  <2>3. /\ len_this_lp \in 1 .. drv.len - drv.total
        /\ drv.addr % PAGE \in 0 .. PAGE - 1
        /\ len_this_lp <= PAGE - (drv.addr % PAGE)
        /\ len_this_lp # drv.len - drv.total => len_this_lp = PAGE - (drv.addr % PAGE)
        /\ PAGE \in Nat \ {0}
    BY <1>2, <2>2, PieceLen, SpiAssumption
  <2>0. PICK total : total = drv.total + len_this_lp
    OBVIOUS
  <2>4. total \in Nat /\ total <= drv.len
    BY <2>2, <2>3, <2>0
  <2>5. /\ drv' \in [op : {"write"}, addr : Nat, len : Nat, src : {"new", "cmd"}, total : Nat,
                     polling : BOOLEAN, before : Contents]
        /\ drv'.addr = drv.addr /\ drv'.len = drv.len /\ drv'.src = drv.src /\ drv'.op = drv.op
        /\ drv'.total = total /\ drv'.before = drv.before /\ drv'.polling = FALSE
    BY <1>2, <2>1, <2>4, <2>0 DEF Writing
  <2>6. PageWise' = PageWise /\ Written(total)' = Written(total)
    BY <2>5 DEF PageWise, Written, And
  <2>7. PageWise => (total \in {0, drv.len} \/ (drv.addr % PAGE = 0 /\ total % PAGE = 0))
    <3> SUFFICES ASSUME PageWise, total # drv.len
                 PROVE  drv.addr % PAGE = 0 /\ total % PAGE = 0
      OBVIOUS
    <3>1. len_this_lp = PAGE - (drv.addr % PAGE) /\ len_this_lp < drv.len - drv.total
      BY <2>2, <2>3, <2>0
    <3>2. drv.addr % PAGE = 0 \/ (drv.addr % PAGE) + drv.len <= PAGE
      BY <1>2 DEF PageWise, Writing
    <3>3. drv.addr % PAGE = 0
      BY <2>2, <2>3, <3>1, <3>2
    <3>4. drv.total % PAGE = 0
      <4>1. 0 % PAGE = 0
        BY <2>3, SmallMod
      <4> QED
        BY <1>2, <2>2, <4>1 DEF Writing
    <3>5. PAGE % PAGE = 0
      BY <2>3
    <3>6. total = drv.total + PAGE
      BY <2>2, <2>3, <2>0, <3>1, <3>3
    <3> QED
      BY <2>2, <2>3, <3>3, <3>4, <3>5, <3>6, SumOfPages
  <2>8. PageWise => flash = Written(total)
    BY <1>0, <1>2, <2>0 DEF Writing
  <2>9. Writing'
    BY <1>0, <1>2, <2>4, <2>5, <2>6, <2>7, <2>8 DEF Writing
  <2> QED
    BY <1>0, <2>9 DEF FlashInv, Spared
<1> QED
  BY <1>0, <1>1, <1>2 DEF FlashInv

\* The commands: the sectors of do_flerase are those of the range.
LEMMA FlEraseIs ==
  ASSUME NEW addr \in Nat, NEW len \in Nat, FwStart <= addr, addr + len <= FwEnd
  PROVE  LET from == Sector(addr)
             hi   == Sector(addr + len - 1)
         IN  /\ from \in Int /\ hi \in Int /\ hi < CalSector
             /\ do_flerase(addr, len) # {} => do_flerase(addr, len) = from .. hi /\ from <= hi
             /\ (addr % SECTOR = 0 /\ len > 0) => do_flerase(addr, len) # {}
<1> DEFINE e == addr + len - 1
           from == Sector(addr)
           hi == Sector(e)
           last == SectorEnd(hi)
<1>1. e \in Int /\ 0 <= e /\ e < FwEnd /\ e \in Bytes
  BY LayoutIs DEF Bytes
<1>2. /\ SECTOR \in Nat \ {0, 1} /\ Sectors \in Nat /\ CalSector = Sectors - 1
      /\ CalSector \in Nat
  BY LayoutIs, BootAssumption
<1> HIDE DEF e
<1>3. /\ from \in Int /\ SECTOR * from <= addr /\ addr < SECTOR * from + SECTOR
      /\ hi \in Int /\ SECTOR * hi <= e /\ e < SECTOR * hi + SECTOR
  BY <1>1, SectorIs
<1>4. 0 <= from /\ hi < CalSector
  <2>1. SECTOR * 0 < SECTOR * (from + 1) /\ SECTOR * hi < SECTOR * CalSector
    BY <1>1, <1>2, <1>3 DEF FwEnd
  <2>2. 0 < from + 1 /\ hi < CalSector
    BY <1>2, <1>3, <2>1, TimesLess
  <2> QED
    BY <1>3, <2>2
<1> HIDE DEF from, hi
<1>5. last \in Int /\ last = SECTOR * hi + SECTOR - 1 /\ Sector(last) = hi
  <2>1. last = SECTOR * hi + SECTOR - 1 /\ last \in Int
    BY <1>2, <1>3 DEF SectorEnd
  <2>2. SECTOR * hi <= last /\ last < SECTOR * hi + SECTOR
    BY <1>2, <1>3, <2>1
  <2> HIDE DEF last
  <2> QED
    BY <1>3, <2>1, <2>2, SectorIs
<1>6. addr_spec(addr, len) = last
  <2>1. addr_spec(addr, len) = SectorEnd(Sector(e))
    BY <1>1 DEF addr_spec, e
  <2> QED
    BY <2>1 DEF hi
<1> HIDE DEF last
<1>7. do_flerase(addr, len) = IF last = -1 \/ addr >= last \/ addr % SECTOR # 0 THEN {}
                              ELSE {s \in 0 .. Sectors - 1 : s \in from .. hi}
  BY <1>5, <1>6 DEF do_flerase, flash_fill_sect_ranges, from
<1>8. {s \in 0 .. Sectors - 1 : s \in from .. hi} = from .. hi
  BY <1>2, <1>3, <1>4
<1>9. ASSUME do_flerase(addr, len) # {}
      PROVE  do_flerase(addr, len) = from .. hi /\ from <= hi
  <2>1. do_flerase(addr, len) = from .. hi
    BY <1>7, <1>8, <1>9
  <2>2. PICK s : s \in from .. hi
    BY <1>9, <2>1
  <2> QED
    BY <1>3, <2>1, <2>2
<1>10. ASSUME addr % SECTOR = 0, len > 0
       PROVE  do_flerase(addr, len) # {}
  <2>1. from <= hi
    BY <1>1, <1>10, SectorMono DEF e, from, hi
  <2>2. e <= last /\ addr <= e
    BY <1>1, <1>3, <1>5, <1>10, <1>2 DEF e
  <2>3. addr = SECTOR * from
    BY <1>2, <1>10, DivIs DEF from, Sector
  <2>4. SECTOR * from <= SECTOR * hi
    BY <1>2, <1>3, <2>1, TimesLe
  <2>5. addr < last /\ last # -1
    BY <1>1, <1>2, <1>3, <1>5, <2>2, <2>3, <2>4
  <2>6. from \in from .. hi
    BY <1>3, <2>1
  <2>7. ~(addr >= last)
    BY <1>5, <2>5
  <2> QED
    BY <1>7, <1>8, <1>10, <2>5, <2>6, <2>7
<1> QED
  BY <1>3, <1>4, <1>9, <1>10 DEF from, hi, e

LEMMA EraseStarts ==
  ASSUME FlashInv, NEW addr \in Nat, NEW len \in Nat, FwStart <= addr, addr + len <= FwEnd,
         do_flerase(addr, len) # {}, FlashErase(addr, len)
  PROVE  FlashInv'
<1> DEFINE hi == Sector(addr + len - 1)
           from == Sector(addr)
<1>1. /\ from \in Int /\ hi \in Int /\ hi < CalSector /\ from <= hi
      /\ do_flerase(addr, len) = from .. hi
  BY FlEraseIs
<1>2. /\ drv = Idle /\ flash' = flash /\ wip' = wip
      /\ drv' = [op |-> "erase", addr |-> addr, len |-> len, left |-> from .. hi,
                 polling |-> FALSE, before |-> flash]
  BY <1>1 DEF FlashErase
<1>3. flash \in Contents /\ wip = Idle
  BY <1>2 DEF FlashInv, Erasing, Writing, Idle
<1>4. /\ drv' \in [op : {"erase"}, addr : Nat, len : Nat, left : SUBSET Int,
                   polling : BOOLEAN, before : Contents]
      /\ drv'.addr = addr /\ drv'.len = len /\ drv'.left = from .. hi
      /\ drv'.before = flash /\ drv'.polling = FALSE
  BY <1>1, <1>2, <1>3
<1>5. flash' = ErasedBut(from .. hi)'
  <2>1. ErasedBut(from .. hi)' = [i \in Bytes |-> flash[i]]
    BY <1>4 DEF ErasedBut, Sector
  <2> QED
    BY <1>2, <1>3, <2>1 DEF Contents
<1>6. from \in from .. hi + 1
  BY <1>1
<1>7. Erasing'
  BY <1>1, <1>2, <1>3, <1>4, <1>5, <1>6 DEF Erasing, Sector
<1> QED
  BY <1>2, <1>7 DEF FlashInv, Spared

LEMMA WriteStarts ==
  ASSUME FlashInv, wip = Idle, NEW src \in {"new", "cmd"}, NEW addr \in Nat, NEW len \in Nat,
         FwStart <= addr, addr + len <= FwEnd, FlashWrite(src, addr, len)
  PROVE  FlashInv'
<1>1. /\ flash' = flash /\ wip' = wip /\ len > 0
      /\ drv' = [op |-> "write", addr |-> addr, len |-> len, src |-> src, total |-> 0,
                 polling |-> FALSE, before |-> flash]
  BY DEF FlashWrite
<1>2. flash \in Contents
  BY DEF FlashInv
<1>3. /\ drv' \in [op : {"write"}, addr : Nat, len : Nat, src : {"new", "cmd"}, total : Nat,
                   polling : BOOLEAN, before : Contents]
      /\ drv'.addr = addr /\ drv'.len = len /\ drv'.total = 0
      /\ drv'.before = flash /\ drv'.polling = FALSE
  BY <1>1, <1>2
<1>4. flash' = Written(0)'
  <2>1. \A i \in Bytes : i \notin addr .. addr + 0 - 1
    BY ByteTypes
  <2>2. Written(0)' = [i \in Bytes |-> flash[i]]
    BY <1>3, <2>1 DEF Written
  <2> QED
    BY <1>1, <1>2, <2>2 DEF Contents
<1>5. Writing'
  BY <1>1, <1>3, <1>4 DEF Writing
<1> QED
  BY <1>1, <1>5 DEF FlashInv, Spared

LEMMA FlashUntouched ==
  ASSUME FlashInv, UNCHANGED flashVars
  PROVE  FlashInv'
<1>1. flash' = flash /\ wip' = wip /\ drv' = drv
  BY DEF flashVars
<1>2. Erasing => Erasing'
  BY <1>1 DEF Erasing, ErasedBut, Sector
<1>3. Writing => Writing'
  BY <1>1 DEF Writing, Written, And, Piece, PageWise, len_this_lp, bytes_this_page
<1> QED
  BY <1>1, <1>2, <1>3 DEF FlashInv, Spared

\* When the call is over the chip is idle.
LEMMA OverIdle ==
  ASSUME FlashInv, DriverOver
  PROVE  wip = Idle
BY DEF FlashInv, DriverOver, Erasing, Writing

LEMMA FlashInvInit == Init => FlashInv
<1> SUFFICES ASSUME Init PROVE FlashInv
  OBVIOUS
<1>1. flash = [i \in Bytes |-> IF i \in Kept THEN <<"kept", i>> ELSE <<"old", i - FwStart>>]
  BY DEF Init
<1>2. \A i \in Bytes : i \notin Kept => i - FwStart \in Bytes
  BY KeptIs, LayoutIs DEF Bytes
<1>3. flash \in Contents
  BY <1>1, <1>2 DEF Contents
<1>4. Spared
  BY <1>1 DEF Spared, Kept
<1> QED
  BY <1>3, <1>4 DEF Init, FlashInv

LEMMA FlashInvStep == FlashInv /\ StageInv /\ [Next]_vars => FlashInv'
<1> SUFFICES ASSUME FlashInv, StageInv, [Next]_vars
             PROVE  FlashInv'
  OBVIOUS
<1>1. CASE ScanRecovery
  <2>1. stick[part] \in [rec : Nat, boot : BOOLEAN] /\ stick[part].rec > 0
    <3>1. part \in 1 .. Len(stick)
      BY <1>1, LenProperties DEF ScanRecovery, StageInv
    <3> QED
      BY <1>1, <3>1, ElementOfSeq DEF ScanRecovery, StageInv
  <2>2. file' \in 1 .. MaxRecovery /\ FlashErase(FwStart, file')
    BY <1>1, <2>1, LayoutIs DEF ScanRecovery
  <2>3. PICK len \in Nat : len = file' /\ len > 0 /\ FwStart + len <= FwEnd
    BY <2>2, LayoutIs
  <2>4. do_flerase(FwStart, len) # {}
    <3>1. FwStart \in Nat /\ FwStart <= FwStart /\ FwStart % SECTOR = 0
      BY BootAssumption
    <3> QED
      BY <2>3, <3>1, FlEraseIs
  <2> QED
    BY <2>2, <2>3, <2>4, EraseStarts, LayoutIs
<1>2. CASE DriverSteps
  BY <1>2, SectorEraseKeeps, WritePageKeeps, PollKeeps DEF DriverSteps
<1>3. CASE ChipSteps
  BY <1>3, ChipKeeps DEF ChipSteps
<1>4. CASE RecoveryCopies
  <2>1. wip = Idle /\ FlashWrite("new", FwStart, file)
    BY <1>4, OverIdle DEF RecoveryCopies
  <2>2. file \in Nat /\ FwStart + file <= FwEnd
    BY LayoutIs DEF StageInv
  <2> QED
    BY <2>1, <2>2, WriteStarts, LayoutIs
<1>5. CASE RecoveryEnds \/ PromptReturns
  <2>1. wip' = Idle /\ drv' = Idle /\ flash' = flash
    BY <1>5, OverIdle DEF RecoveryEnds, PromptReturns
  <2> QED
    BY <2>1 DEF FlashInv, Spared
<1>6. CASE PowerLoss
  BY <1>6, LossKeeps DEF PowerLoss
<1>7. CASE PromptErase
  <2>1. PICK a \in CmdAddrs, n \in CmdLens :
          a + n <= FwStart + MaxRecovery /\ do_flerase(a, n) # {} /\ FlashErase(a, n)
    BY <1>7 DEF PromptErase
  <2>2. a \in Nat /\ n \in Nat /\ FwStart <= a /\ a + n <= FwEnd
    BY <2>1, LayoutIs, BootAssumption
  <2> QED
    BY <2>1, <2>2, EraseStarts
<1>8. CASE PromptCopy
  <2>1. PICK a \in CmdAddrs, n \in CmdLens :
          a + n <= FwStart + MaxRecovery /\ drv = Idle /\ FlashWrite("cmd", a, n)
    BY <1>8 DEF PromptCopy
  <2>2. a \in Nat /\ n \in Nat /\ FwStart <= a /\ a + n <= FwEnd
    BY <2>1, LayoutIs, BootAssumption
  <2>3. wip = Idle
    BY <2>1 DEF FlashInv, Erasing, Writing, Idle
  <2> QED
    BY <2>1, <2>2, <2>3, WriteStarts
<1>9. CASE UNCHANGED flashVars
  BY <1>9, FlashUntouched
<1> QED
  BY <1>1, <1>2, <1>3, <1>4, <1>5, <1>6, <1>7, <1>8, <1>9
  DEF Next, Board, User, PowerOn, AbortbootSlot, AbortbootReturns, FactoryMode, Goes, DoUsbBoot,
      ScanBoot, ScanNext, ScanEnds, Bootcmd, PromptUsb, PromptReset, RemoveStick, vars

\* What the invariant says of a call that is over.
LEMMA OverIsDone == FlashInv => DoneAsAsked
<1> SUFFICES ASSUME FlashInv, DriverOver, PageWise
             PROVE  flash = [i \in Bytes |->
                      IF drv.op = "erase"
                      THEN IF i \in (Sector(drv.addr) * SECTOR) ..
                                    SectorEnd(Sector(drv.addr + drv.len - 1))
                           THEN Erased ELSE drv.before[i]
                      ELSE IF i \in drv.addr .. drv.addr + drv.len - 1
                           THEN And(drv.before[i], <<drv.src, i - drv.addr>>)
                           ELSE drv.before[i]]
  BY DEF DoneAsAsked
<1>1. wip = Idle /\ ~drv.polling /\ drv # Idle
  BY OverIdle DEF DriverOver
<1>2. CASE Erasing
  <2> DEFINE hi == Sector(drv.addr + drv.len - 1)
             from == Sector(drv.addr)
  <2>1. drv.op = "erase" /\ drv.left = {}
    BY <1>2 DEF Erasing, DriverOver
  <2>2. flash = ErasedBut({})
    BY <1>1, <1>2, <2>1 DEF Erasing
  <2>3. hi \in Int /\ from \in Int
    <3>1. drv.addr \in Int /\ drv.addr + drv.len - 1 \in Int
      BY <1>2 DEF Erasing
    <3> QED
      BY <3>1, SectorIs
  <2>4. \A i \in Bytes : Sector(i) \in from .. hi <=> i \in (from * SECTOR) .. SectorEnd(hi)
    <3> HIDE DEF from, hi
    <3> SUFFICES ASSUME NEW i \in Bytes
                 PROVE  Sector(i) \in from .. hi <=> i \in (from * SECTOR) .. SectorEnd(hi)
      OBVIOUS
    <3>0. i \in Int /\ SECTOR \in Nat \ {0}
      BY ByteTypes, SpiAssumption
    <3>1. PICK s \in Int : s = Sector(i) /\ SECTOR * s <= i /\ i < SECTOR * s + SECTOR
      BY <3>0, SectorIs
    <3>2. ASSUME s \in from .. hi
          PROVE  i \in (from * SECTOR) .. SectorEnd(hi)
      <4>1. SECTOR * from <= SECTOR * s /\ SECTOR * s <= SECTOR * hi
        BY <2>3, <3>0, <3>2, TimesLe
      <4> QED
        BY <2>3, <3>0, <3>1, <4>1 DEF SectorEnd
    <3>3. ASSUME i \in (from * SECTOR) .. SectorEnd(hi)
          PROVE  s \in from .. hi
      <4>1. SECTOR * from < SECTOR * (s + 1) /\ SECTOR * s < SECTOR * (hi + 1)
        BY <2>3, <3>0, <3>1, <3>3 DEF SectorEnd
      <4>2. from < s + 1 /\ s < hi + 1
        BY <2>3, <3>0, <4>1, TimesLess
      <4> QED
        BY <2>3, <4>2
    <3> QED
      BY <3>1, <3>2, <3>3
  <2> QED
    BY <2>1, <2>2, <2>4 DEF ErasedBut
<1>3. CASE Writing
  <2>1. drv.op = "write" /\ drv.total = drv.len
    BY <1>3 DEF Writing, DriverOver
  <2>2. flash = Written(drv.len)
    BY <1>1, <1>3, <2>1 DEF Writing
  <2> QED
    BY <2>1, <2>2 DEF Written
<1> QED
  BY <1>1, <1>2, <1>3 DEF FlashInv

-----------------------------------------------------------------------------
(* The stages. *)

LEMMA StageInvInit == Init => StageInv
<1> SUFFICES ASSUME Init PROVE StageInv
  OBVIOUS
<1>1. stick \in Seq([rec : Nat, boot : BOOLEAN]) /\ Len(stick) \in Nat
  BY BootAssumption, LenProperties DEF Init
<1> QED
  BY <1>1, BootAssumption DEF Init, StageInv

LEMMA StageInvStep == StageInv /\ [Next]_vars => StageInv'
<1> SUFFICES ASSUME StageInv, [Next]_vars
             PROVE  StageInv'
  OBVIOUS
<1> USE DEF StageInv
<1>0. Len(stick) \in Nat
  BY LenProperties
<1>1. CASE ScanRecovery
  <2>1. stick[part] \in [rec : Nat, boot : BOOLEAN] /\ stick[part].rec > 0
    <3>1. part \in 1 .. Len(stick)
      BY <1>0, <1>1 DEF ScanRecovery
    <3> QED
      BY <1>1, <3>1, ElementOfSeq DEF ScanRecovery
  <2>2. file' \in 0 .. MaxRecovery
    BY <1>1, <2>1, BootAssumption DEF ScanRecovery
  <2> QED
    BY <1>1, <2>2 DEF ScanRecovery
<1>2. CASE ScanNext
  BY <1>0, <1>2 DEF ScanNext
<1>3. CASE RemoveStick
  BY <1>3, EmptySeq DEF RemoveStick, NoStick
<1>4. CASE PowerLoss \/ PromptReset
  <2>1. losses' \in 0 .. MaxLosses
    <3>1. MaxLosses \in Nat /\ losses < MaxLosses /\ losses' = losses + 1
      BY <1>4, BootAssumption DEF PowerLoss, PromptReset
    <3> QED
      BY <3>1
  <2>2. UNCHANGED <<stick, file, cmds>>
    BY <1>4 DEF PowerLoss, PromptReset, scanVars
  <2>3. part' \in 1 .. Len(stick) + 1 /\ after' \in {"scan", "bootcmd", "prompt"}
    BY <1>0, <1>4 DEF PowerLoss, PromptReset, Restarted, scanVars
  <2>4. stage' \in {"off", "prompt", "abortboot"}
    BY <1>4 DEF PowerLoss, PromptReset, Restarted
  <2> QED
    BY <2>1, <2>2, <2>3, <2>4
<1>5. CASE PromptErase \/ PromptCopy
  <2>1. cmds' \in 0 .. MaxCmds
    <3>1. MaxCmds \in Nat /\ cmds < MaxCmds /\ cmds' = cmds + 1
      BY <1>5, BootAssumption DEF PromptErase, PromptCopy
    <3> QED
      BY <3>1
  <2>2. UNCHANGED <<stage, stick, scanVars, losses>>
    BY <1>5 DEF PromptErase, PromptCopy
  <2> QED
    BY <2>1, <2>2 DEF scanVars
<1>6. CASE PowerOn \/ FactoryMode \/ RecoveryEnds
  BY <1>0, <1>6 DEF PowerOn, FactoryMode, Goes, RecoveryEnds, Restarted, scanVars
<1>7. CASE AbortbootSlot \/ AbortbootReturns \/ DriverSteps \/ ChipSteps \/ RecoveryCopies
           \/ PromptReturns \/ UNCHANGED vars
  BY <1>7 DEF AbortbootSlot, AbortbootReturns, DriverSteps, ChipSteps, RecoveryCopies,
              PromptReturns, vars, scanVars
<1>8. CASE DoUsbBoot \/ ScanBoot \/ ScanEnds \/ Bootcmd \/ PromptUsb
  BY <1>0, <1>8 DEF DoUsbBoot, ScanBoot, Goes, ScanEnds, Bootcmd, PromptUsb, scanVars
<1> QED
  BY <1>1, <1>2, <1>3, <1>4, <1>5, <1>6, <1>7, <1>8 DEF Next, Board, User

-----------------------------------------------------------------------------
(* The keys. *)

LEMMA PressKeyMaxIs ==
  presskey_max \in Nat \ {0} /\ \A k \in Keys : Len(k) \in Nat /\ Len(k) <= presskey_max
<1> DEFINE bound(n) == \A k \in Keys : Len(k) <= n
<1>1. \A k \in Keys : Len(k) \in Nat
  BY BootAssumption, LenProperties
<1>2. \E n \in {Len(k) : k \in Keys} : n > 0 /\ bound(n)
  BY BootAssumption
<1>3. presskey_max \in {Len(k) : k \in Keys} /\ bound(presskey_max)
  <2>1. \E n \in {Len(k) : k \in Keys} : bound(n)
    BY <1>2
  <2> QED
    BY <2>1, Zenon DEF presskey_max
<1>4. \E k \in Keys : Len(k) > 0
  BY BootAssumption
<1> QED
  BY <1>1, <1>3, <1>4

\* IsSuffix of the community modules, by positions.
LEMMA SuffixIs ==
  ASSUME NEW S, NEW s \in Seq(S), NEW t \in Seq(S)
  PROVE  IsSuffix(s, t) <=>
           Len(s) <= Len(t) /\ \A i \in 1 .. Len(s) : s[i] = t[(Len(t) - Len(s)) + i]
<1> DEFINE rs == Reverse(s)
           rt == Reverse(t)
           n == Len(s)
           m == Len(t)
<1>0. n \in Nat /\ m \in Nat
  BY LenProperties
<1>1. /\ rs \in Seq(S) /\ Len(rs) = n /\ \A i \in 1 .. n : rs[i] = s[(n - i) + 1]
  <2>1. \A i \in 1 .. n : s[(n - i) + 1] \in S
    <3>1. \A i \in 1 .. n : (n - i) + 1 \in 1 .. n
      BY <1>0
    <3> QED
      BY <3>1, ElementOfSeq
  <2>2. rs \in [1 .. n -> S] /\ \A i \in 1 .. n : rs[i] = s[(n - i) + 1]
    BY <2>1 DEF Reverse
  <2>3. rs \in Seq(S)
    BY <1>0, <2>2, SeqDef
  <2>4. DOMAIN rs = 1 .. n /\ DOMAIN rs = 1 .. Len(rs) /\ Len(rs) \in Nat
    BY <2>2, <2>3, LenProperties
  <2>5. Len(rs) = n
    BY <1>0, <2>4
  <2> QED
    BY <2>2, <2>3, <2>5
<1>2. /\ rt \in Seq(S) /\ Len(rt) = m /\ \A i \in 1 .. m : rt[i] = t[(m - i) + 1]
  <2>1. \A i \in 1 .. m : t[(m - i) + 1] \in S
    <3>1. \A i \in 1 .. m : (m - i) + 1 \in 1 .. m
      BY <1>0
    <3> QED
      BY <3>1, ElementOfSeq
  <2>2. rt \in [1 .. m -> S] /\ \A i \in 1 .. m : rt[i] = t[(m - i) + 1]
    BY <2>1 DEF Reverse
  <2>3. rt \in Seq(S)
    BY <1>0, <2>2, SeqDef
  <2>4. DOMAIN rt = 1 .. m /\ DOMAIN rt = 1 .. Len(rt) /\ Len(rt) \in Nat
    BY <2>2, <2>3, LenProperties
  <2>5. Len(rt) = m
    BY <1>0, <2>4
  <2> QED
    BY <2>2, <2>3, <2>5
<1>3. IsSuffix(s, t) <=> n <= m /\ SubSeq(rs, 1, n) = SubSeq(rt, 1, n)
  BY <1>1, <1>2 DEF IsSuffix, IsPrefix
<1> HIDE DEF rs, rt, n, m
<1>4. ASSUME n <= m
      PROVE  SubSeq(rs, 1, n) = SubSeq(rt, 1, n) <=> \A i \in 1 .. n : rs[i] = rt[i]
  <2>1. \A i \in 1 .. n : rs[i] \in S /\ rt[i] \in S
    BY <1>0, <1>1, <1>2, <1>4, ElementOfSeq
  <2>2. /\ SubSeq(rs, 1, n) \in Seq(S) /\ Len(SubSeq(rs, 1, n)) = n
        /\ \A i \in 1 .. n : SubSeq(rs, 1, n)[i] = rs[i]
    BY <1>0, <2>1, SubSeqProperties
  <2>3. /\ SubSeq(rt, 1, n) \in Seq(S) /\ Len(SubSeq(rt, 1, n)) = n
        /\ \A i \in 1 .. n : SubSeq(rt, 1, n)[i] = rt[i]
    BY <1>0, <2>1, SubSeqProperties
  <2> QED
    BY <2>2, <2>3, SeqEqual
<1>5. ASSUME n <= m
      PROVE  (\A i \in 1 .. n : rs[i] = rt[i]) <=> (\A i \in 1 .. n : s[i] = t[(m - n) + i])
  <2>1. \A i \in 1 .. n : rs[i] = s[(n - i) + 1] /\ rt[i] = t[(m - i) + 1]
    BY <1>0, <1>1, <1>2, <1>5
  <2>2. ASSUME \A i \in 1 .. n : rs[i] = rt[i], NEW i \in 1 .. n
        PROVE  s[i] = t[(m - n) + i]
    <3> DEFINE j == (n - i) + 1
    <3>1. j \in 1 .. n /\ (n - j) + 1 = i /\ (m - j) + 1 = (m - n) + i
      BY <1>0
    <3> HIDE DEF j
    <3> QED
      BY <2>1, <2>2, <3>1
  <2>3. ASSUME \A i \in 1 .. n : s[i] = t[(m - n) + i], NEW i \in 1 .. n
        PROVE  rs[i] = rt[i]
    <3> DEFINE j == (n - i) + 1
    <3>1. j \in 1 .. n /\ (m - n) + j = (m - i) + 1
      BY <1>0
    <3>2. rs[i] = s[j] /\ rt[i] = t[(m - i) + 1]
      BY <2>1
    <3> HIDE DEF j
    <3> QED
      BY <2>3, <3>1, <3>2
  <2> QED
    BY <2>2, <2>3
<1> QED
  BY <1>3, <1>4, <1>5 DEF n, m

\* What is kept is enough for the comparison.
LEMMA KeptIsEnough ==
  ASSUME KeyInv
  PROVE  GotKey(presskey) <=> GotKey(typed)
<1>1. /\ typed \in Seq(Chars) /\ presskey \in Seq(Chars)
      /\ Len(typed) \in Nat /\ Len(presskey) \in Nat
      /\ Len(presskey) = IF Len(typed) < presskey_max THEN Len(typed) ELSE presskey_max
      /\ \A i \in 1 .. Len(presskey) : presskey[i] = typed[(Len(typed) - Len(presskey)) + i]
  BY LenProperties DEF KeyInv
<1>2. ASSUME NEW k \in Keys, Len(k) > 0
      PROVE  IsSuffix(k, presskey) <=> IsSuffix(k, typed)
  <2>1. k \in Seq(Chars) /\ Len(k) \in Nat /\ Len(k) <= presskey_max /\ presskey_max \in Nat
    BY PressKeyMaxIs, BootAssumption
  <2>2. Len(k) <= Len(presskey) <=> Len(k) <= Len(typed)
    BY <1>1, <2>1
  <2>3. ASSUME Len(k) <= Len(presskey), NEW i \in 1 .. Len(k)
        PROVE  presskey[(Len(presskey) - Len(k)) + i] = typed[(Len(typed) - Len(k)) + i]
    <3> DEFINE j == (Len(presskey) - Len(k)) + i
    <3>0. Len(typed) \in Int /\ Len(presskey) \in Int /\ Len(k) \in Int /\ Len(k) <= Len(presskey)
      BY <1>1, <2>1, <2>3
    <3>1. j \in 1 .. Len(presskey) /\ (Len(typed) - Len(presskey)) + j = (Len(typed) - Len(k)) + i
      BY <3>0
    <3> HIDE DEF j
    <3>2. presskey[j] = typed[(Len(typed) - Len(k)) + i]
      BY <1>1, <3>1
    <3> QED
      BY <3>2 DEF j
  <2>4. IsSuffix(k, presskey) <=>
          /\ Len(k) <= Len(presskey)
          /\ \A i \in 1 .. Len(k) : k[i] = presskey[(Len(presskey) - Len(k)) + i]
    BY <1>1, <2>1, SuffixIs
  <2>5. IsSuffix(k, typed) <=>
          /\ Len(k) <= Len(typed)
          /\ \A i \in 1 .. Len(k) : k[i] = typed[(Len(typed) - Len(k)) + i]
    BY <1>1, <2>1, SuffixIs
  <2> QED
    BY <2>2, <2>3, <2>4, <2>5
<1> QED
  BY <1>2 DEF GotKey

\* A character is read: presskey stays the end of what has been typed.
LEMMA PushKeeps ==
  ASSUME KeyInv, NEW c \in Chars, presskey' = Pushed(c), typed' = Append(typed, c)
  PROVE  /\ typed' \in Seq(Chars) /\ presskey' \in Seq(Chars) /\ Len(typed') = Len(typed) + 1
         /\ Len(presskey') = IF Len(typed') < presskey_max THEN Len(typed') ELSE presskey_max
         /\ \A i \in 1 .. Len(presskey') :
              presskey'[i] = typed'[(Len(typed') - Len(presskey')) + i]
<1>1. /\ typed \in Seq(Chars) /\ presskey \in Seq(Chars)
      /\ Len(typed) \in Nat /\ Len(presskey) \in Nat /\ presskey_max \in Nat \ {0}
      /\ Len(presskey) = IF Len(typed) < presskey_max THEN Len(typed) ELSE presskey_max
      /\ \A i \in 1 .. Len(presskey) : presskey[i] = typed[(Len(typed) - Len(presskey)) + i]
  BY LenProperties, PressKeyMaxIs DEF KeyInv
<1>2. /\ typed' \in Seq(Chars) /\ Len(typed') = Len(typed) + 1
      /\ \A i \in 1 .. Len(typed) : typed'[i] = typed[i]
      /\ typed'[Len(typed) + 1] = c
  BY <1>1
<1>3. CASE Len(presskey) < presskey_max
  <2>1. /\ presskey' \in Seq(Chars) /\ Len(presskey') = Len(presskey) + 1
        /\ \A i \in 1 .. Len(presskey) : presskey'[i] = presskey[i]
        /\ presskey'[Len(presskey) + 1] = c
    BY <1>1, <1>3 DEF Pushed
  <2>2. Len(presskey) = Len(typed)
    BY <1>1, <1>3
  <2>3. \A i \in 1 .. Len(presskey) : presskey[i] = typed[i]
    <3>0. Len(typed) \in Int
      BY <1>1
    <3>1. \A i \in 1 .. Len(presskey) : (Len(typed) - Len(presskey)) + i = i
      BY <2>2, <3>0
    <3> QED
      BY <1>1, <3>1
  <2>4. \A i \in 1 .. Len(presskey') : presskey'[i] = typed'[i]
    BY <1>1, <1>2, <2>1, <2>2, <2>3
  <2>5. Len(presskey') = Len(typed') /\ Len(typed') \in Nat /\ Len(typed') <= presskey_max
    BY <1>1, <1>2, <1>3, <2>1, <2>2
  <2>6. \A i \in 1 .. Len(presskey') : (Len(typed') - Len(presskey')) + i = i
    BY <2>5
  <2>7. \A i \in 1 .. Len(presskey') : presskey'[i] = typed'[(Len(typed') - Len(presskey')) + i]
    BY <2>4, <2>6
  <2>8. Len(presskey') = IF Len(typed') < presskey_max THEN Len(typed') ELSE presskey_max
    BY <1>1, <2>5
  <2> QED
    BY <1>2, <2>1, <2>7, <2>8
<1>4. CASE ~(Len(presskey) < presskey_max)
  <2> DEFINE t == Tail(presskey)
  <2>1. Len(presskey) = presskey_max /\ presskey # <<>> /\ Len(typed) >= presskey_max
    BY <1>1, <1>4, EmptySeq
  <2>2. /\ t \in Seq(Chars) /\ Len(t) = presskey_max - 1
        /\ \A i \in 1 .. Len(t) : t[i] = presskey[i + 1]
    BY <1>1, <2>1, HeadTailProperties
  <2>3. presskey' = Append(t, c)
    BY <1>4 DEF Pushed
  <2> HIDE DEF t
  <2>4. /\ presskey' \in Seq(Chars) /\ Len(presskey') = presskey_max
        /\ \A i \in 1 .. presskey_max - 1 : presskey'[i] = t[i]
        /\ presskey'[presskey_max] = c
    BY <1>1, <2>2, <2>3
  <2>5. ASSUME NEW i \in 1 .. presskey_max
        PROVE  presskey'[i] = typed'[(Len(typed') - presskey_max) + i]
    <3>1. CASE i = presskey_max
      BY <1>1, <1>2, <2>4, <3>1
    <3>2. CASE i # presskey_max
      <4>1. i \in 1 .. presskey_max - 1 /\ i + 1 \in 1 .. presskey_max
        BY <1>1, <3>2
      <4>2. presskey'[i] = presskey[i + 1]
        BY <2>2, <2>4, <4>1
      <4>3. presskey[i + 1] = typed[(Len(typed) - presskey_max) + (i + 1)]
        BY <1>1, <2>1, <4>1
      <4>4. /\ (Len(typed) - presskey_max) + (i + 1) \in 1 .. Len(typed)
            /\ (Len(typed) - presskey_max) + (i + 1) = (Len(typed') - presskey_max) + i
        BY <1>1, <1>2, <2>1, <4>1
      <4> QED
        BY <1>2, <4>2, <4>3, <4>4
    <3> QED
      BY <3>1, <3>2
  <2>6. Len(presskey') = IF Len(typed') < presskey_max THEN Len(typed') ELSE presskey_max
    BY <1>1, <1>2, <2>1, <2>4
  <2> QED
    BY <1>2, <2>4, <2>5, <2>6
<1> QED
  BY <1>2, <1>3, <1>4

\* One slot: the comparison, then the character.
LEMMA SlotKeeps ==
  ASSUME KeyInv, AbortbootSlot
  PROVE  KeyInv'
<1>1. /\ typed \in Seq(Chars) /\ Len(typed) \in Nat /\ seen \in 0 .. Len(typed)
      /\ stage = "abortboot" /\ ~abort /\ Len(typed) <= seen + 1
      /\ stage' = "abortboot" /\ seen' = Len(typed)
      /\ abort' <=> GotKey(typed)
  BY LenProperties, KeptIsEnough DEF KeyInv, AbortbootSlot
<1>2. \A n \in 0 .. seen : ~GotKey(SubSeq(typed, 1, n))
  BY <1>1 DEF KeyInv, StopHeard
<1>3. /\ typed' \in Seq(Chars) /\ presskey' \in Seq(Chars)
      /\ Len(typed') \in {Len(typed), Len(typed) + 1}
      /\ Len(presskey') = IF Len(typed') < presskey_max THEN Len(typed') ELSE presskey_max
      /\ \A i \in 1 .. Len(presskey') :
           presskey'[i] = typed'[(Len(typed') - Len(presskey')) + i]
      /\ \A i \in 1 .. Len(typed) : typed'[i] = typed[i]
  <2>1. CASE UNCHANGED <<presskey, typed>>
    BY <2>1 DEF KeyInv
  <2>2. CASE \E c \in Chars : presskey' = Pushed(c) /\ typed' = Append(typed, c)
    <3>1. PICK c \in Chars : presskey' = Pushed(c) /\ typed' = Append(typed, c)
      BY <2>2
    <3>2. \A i \in 1 .. Len(typed) : typed'[i] = typed[i]
      BY <1>1, <3>1
    <3>3. /\ typed' \in Seq(Chars) /\ presskey' \in Seq(Chars) /\ Len(typed') = Len(typed) + 1
          /\ Len(presskey') = IF Len(typed') < presskey_max THEN Len(typed') ELSE presskey_max
          /\ \A i \in 1 .. Len(presskey') :
               presskey'[i] = typed'[(Len(typed') - Len(presskey')) + i]
      BY <3>1, PushKeeps, Zenon
    <3> QED
      BY <3>2, <3>3
  <2> QED
    BY <2>1, <2>2 DEF AbortbootSlot
<1>4. ASSUME NEW n \in 0 .. Len(typed)
      PROVE  SubSeq(typed', 1, n) = SubSeq(typed, 1, n)
  <2>1. \A i \in 1 .. n : typed[i] \in Chars /\ typed'[i] \in Chars /\ typed'[i] = typed[i]
    BY <1>1, <1>3, ElementOfSeq
  <2>2. /\ SubSeq(typed, 1, n) \in Seq(Chars) /\ Len(SubSeq(typed, 1, n)) = n
        /\ \A i \in 1 .. n : SubSeq(typed, 1, n)[i] = typed[i]
    BY <1>1, <2>1, SubSeqProperties
  <2>3. /\ SubSeq(typed', 1, n) \in Seq(Chars) /\ Len(SubSeq(typed', 1, n)) = n
        /\ \A i \in 1 .. n : SubSeq(typed', 1, n)[i] = typed'[i]
    BY <1>1, <2>1, SubSeqProperties
  <2> QED
    BY <2>1, <2>2, <2>3, SeqEqual
<1>5. SubSeq(typed, 1, Len(typed)) = typed
  BY <1>1, SubSeqFull
<1>6. abort' <=> \E n \in 0 .. seen' : GotKey(SubSeq(typed', 1, n))
  <2>1. \A n \in 0 .. Len(typed) : n \in 0 .. seen \/ n = Len(typed)
    BY <1>1
  <2>2. Len(typed) \in 0 .. Len(typed)
    BY <1>1
  <2> QED
    BY <1>1, <1>2, <1>4, <1>5, <2>1, <2>2
<1>7. StopHeard'
  BY <1>6 DEF StopHeard, GotKey
<1>8. seen' \in 0 .. Len(typed') /\ Len(typed') <= seen' + 1
  BY <1>1, <1>3
<1> QED
  BY <1>3, <1>7, <1>8 DEF KeyInv, presskey_max

\* The RAM after a reset, and abortboot when it returns.
LEMMA ClearedKeys ==
  ASSUME typed' = <<>>, presskey' = <<>>, seen' = 0, abort' = FALSE
  PROVE  KeyInv'
<1>1. <<>> \in Seq(Chars) /\ Len(<<>>) = 0 /\ presskey_max \in Nat \ {0}
  BY EmptySeq, PressKeyMaxIs
<1>2. \A n \in 0 .. 0 : ~GotKey(SubSeq(<<>>, 1, n))
  <2>1. SubSeq(<<>>, 1, 0) = <<>>
    BY SubSeqEmpty
  <2>2. ASSUME NEW k \in Keys, Len(k) > 0
        PROVE  ~IsSuffix(k, <<>>)
    <3>1. k \in Seq(Chars) /\ Len(k) \in Nat
      BY PressKeyMaxIs, BootAssumption
    <3>2. ~(Len(k) <= Len(<<>>))
      BY <1>1, <2>2, <3>1
    <3> QED
      BY <1>1, <3>1, <3>2, SuffixIs
  <2>3. ~GotKey(<<>>)
    BY <2>2 DEF GotKey
  <2>4. \A n \in 0 .. 0 : n = 0
    OBVIOUS
  <2> QED
    BY <2>1, <2>3, <2>4
<1>3. StopHeard'
  BY <1>2 DEF StopHeard, GotKey
<1> QED
  BY <1>1, <1>3 DEF KeyInv, presskey_max

LEMMA KeyInvStep == KeyInv /\ StageInv /\ [Next]_vars => KeyInv'
<1> SUFFICES ASSUME KeyInv, StageInv, [Next]_vars
             PROVE  KeyInv'
  OBVIOUS
<1>1. CASE AbortbootSlot
  BY <1>1, SlotKeeps
<1>2. CASE AbortbootReturns \/ Restarted
  BY <1>2, ClearedKeys DEF AbortbootReturns, Restarted
<1>3. CASE UNCHANGED keyVars /\ (stage' = "abortboot" => stage = "abortboot")
  BY <1>3 DEF keyVars, KeyInv, StopHeard, GotKey, presskey_max
<1>4. CASE \/ DoUsbBoot \/ ScanRecovery \/ ScanBoot \/ ScanNext \/ ScanEnds
           \/ DriverSteps \/ RecoveryCopies \/ Bootcmd \/ ChipSteps \/ PowerLoss
  BY <1>3, <1>4
  DEF DoUsbBoot, ScanRecovery, ScanBoot, ScanNext, ScanEnds, DriverSteps, RecoveryCopies,
      Bootcmd, ChipSteps, PowerLoss, Goes, StageInv
<1>5. CASE \/ PromptErase \/ PromptCopy \/ PromptReturns \/ PromptUsb \/ RemoveStick
           \/ UNCHANGED vars
  BY <1>3, <1>5 DEF PromptErase, PromptCopy, PromptReturns, PromptUsb, RemoveStick, vars
<1>6. CASE PowerOn \/ FactoryMode \/ RecoveryEnds \/ PromptReset
  BY <1>2, <1>3, <1>6 DEF PowerOn, FactoryMode, RecoveryEnds, PromptReset, Goes
<1> QED
  BY <1>1, <1>2, <1>4, <1>5, <1>6 DEF Next, Board, User

-----------------------------------------------------------------------------
(* The theorems. *)

BootInv == FlashInv /\ StageInv /\ KeyInv

LEMMA BootInvariant == Spec => []BootInv
<1>1. Init => BootInv
  <2>1. Init => KeyInv
    <3> SUFFICES ASSUME Init PROVE KeyInv
      OBVIOUS
    <3>1. <<>> \in Seq(Chars) /\ Len(<<>>) = 0 /\ presskey_max \in Nat \ {0}
      BY EmptySeq, PressKeyMaxIs
    <3> QED
      BY <3>1 DEF Init, KeyInv, StopHeard
  <2> QED
    BY <2>1, FlashInvInit, StageInvInit DEF BootInv
<1>2. BootInv /\ [Next]_vars => BootInv'
  BY FlashInvStep, StageInvStep, KeyInvStep DEF BootInv
<1> QED
  BY <1>1, <1>2, PTL DEF Spec

\* The type of what the stages change; presskey never overflows.
THEOREM BootTypeCorrect == Spec => []TypeOK
<1>1. BootInv => TypeOK
  BY PressKeyMaxIs, LenProperties DEF BootInv, FlashInv, StageInv, KeyInv, TypeOK, Contents
<1> QED
  BY <1>1, BootInvariant, PTL

\* For every layout of the flash, every length of the recovery file, every command
\* within the firmware and every loss of power: the boot loader, the environment
\* and the calibration are never touched.
THEOREM BootSpared == Spec => []Spared
<1>1. BootInv => Spared
  BY DEF BootInv, FlashInv
<1> QED
  BY <1>1, BootInvariant, PTL

\* flash_erase and write_buff: a call that is over has erased, or programmed, the
\* range and nothing else, for every page and sector size.
THEOREM BootDoneAsAsked == Spec => []DoneAsAsked
<1>1. BootInv => DoneAsAsked
  BY OverIsDone DEF BootInv
<1> QED
  BY <1>1, BootInvariant, PTL

\* abortboot stops the boot exactly when a key has been typed, for all keys, of
\* whatever lengths, and whatever is typed before.
THEOREM BootStopHeard == Spec => []StopHeard
<1>1. BootInv => StopHeard
  BY DEF BootInv, KeyInv
<1> QED
  BY <1>1, BootInvariant, PTL
=============================================================================
