------------------------------ MODULE EnvProofs ------------------------------
(***************************************************************************)
(* Proofs about EnvFlash, for all names, values, sizes and defaults.       *)
(***************************************************************************)
EXTENDS EnvFlash, FiniteSetTheorems, TLAPS

USE DEF vars

\* Editing keeps an environment an environment.
LEMMA WithType ==
  ASSUME NEW e \in Envs, NEW n \in Names, NEW v \in Values
  PROVE  With(e, n, v) \in Envs
<1>1. PICK S \in SUBSET Names : e \in [S -> Values]  BY DEF Envs
<1>2. With(e, n, v) \in [S \cup {n} -> Values]  BY <1>1 DEF With
<1>3. S \cup {n} \in SUBSET Names  OBVIOUS
<1>. QED  BY <1>2, <1>3 DEF Envs

LEMMA WithoutType ==
  ASSUME NEW e \in Envs, NEW n \in Names
  PROVE  Without(e, n) \in Envs
<1>1. PICK S \in SUBSET Names : e \in [S -> Values]  BY DEF Envs
<1>2. Without(e, n) \in [S \ {n} -> Values]  BY <1>1 DEF Without
<1>3. S \ {n} \in SUBSET Names  OBVIOUS
<1>. QED  BY <1>2, <1>3 DEF Envs

\* env_crc_update makes an environment a store.
LEMMA SealedType ==
  ASSUME NEW e \in Envs
  PROVE  Sealed(e) \in Stores /\ Sealed(e).data = e /\ Sealed(e).crc = e
BY DEF Sealed, Stores

LEMMA StoredType == ASSUME TypeOK PROVE Stored \in Envs
<1>1. CASE flash = Torn  BY <1>1, EnvAssumption DEF Stored, Valid
<1>2. CASE flash \in Stores  BY <1>2, EnvAssumption DEF Stored, Valid, Stores
<1>. QED  BY <1>1, <1>2 DEF TypeOK

LEMMA ValueOf ==
  ASSUME NEW e \in Envs, NEW n \in DOMAIN e
  PROVE  n \in Names /\ e[n] \in Values
BY DEF Envs

LEMMA EnetaddrType ==
  ASSUME TypeOK, NEW n, NEW v \in Values \cup {NotSet}, EthSetEnetaddr(n, v)
  PROVE  enetaddr' \in [Macs -> Values \cup {NotSet, Factory}]
BY DEF EthSetEnetaddr, TypeOK

\* The commands that change nothing but the copies.
LEMMA CopyStep ==
  ASSUME TypeOK, NEW addr \in Values \cup {NotSet}, NEW file \in Values \cup {NotSet},
         \/ NetbootCommon(addr, file)
         \/ addr \in Values /\ LoadSerial(addr)
  PROVE  /\ copies' \in [Copied -> Values \cup {NotSet}]
         /\ given' \subseteq Copied
         /\ UNCHANGED <<pc, ram, flash, enetaddr, lastSaved, cut>>
<1>0. loadaddr \in Copied /\ bootfile \in Copied  BY EnvAssumption
<1>1. CASE NetbootCommon(addr, file)
  <2>1. ram.data \in Envs  BY DEF TypeOK, Stores
  <2>2. loadaddr \in DOMAIN ram.data => ram.data[loadaddr] \in Values
    BY <2>1, ValueOf
  <2>3. copies' \in [Copied -> Values \cup {NotSet}]
    BY <1>0, <1>1, <2>2 DEF NetbootCommon, TypeOK
  <2>4. given' \subseteq Copied  BY <1>0, <1>1 DEF NetbootCommon, TypeOK
  <2>. QED  BY <1>1, <2>3, <2>4 DEF NetbootCommon
<1>2. CASE addr \in Values /\ LoadSerial(addr)
  BY <1>0, <1>2 DEF LoadSerial, TypeOK
<1>. QED  BY <1>1, <1>2

\* What a file name of a BOOTP reply does: a setenv, or one that overflows.
LEMMA BootpStep ==
  ASSUME TypeOK, NEW file \in Values \cup {NotSet}, BootpCopyNetParams(file)
  PROVE  \E v \in Values :
           \/ SetEnv(bootfile, v)
           \/ /\ Overflow(bootfile, v)
              /\ copies' = [copies EXCEPT ![bootfile] = v]
              /\ given' = given \cup {bootfile}
<1>. DEFINE v == IF file # NotSet THEN file ELSE copies[bootfile]
<1>1. v \in Values \cup {NotSet}  BY EnvAssumption DEF TypeOK
<1>2. v # NotSet  BY DEF BootpCopyNetParams
<1>3. \/ SetEnv(bootfile, v)
      \/ /\ Overflow(bootfile, v)
         /\ copies' = [copies EXCEPT ![bootfile] = v]
         /\ given' = given \cup {bootfile}
  BY Zenon DEF BootpCopyNetParams
<1>. HIDE DEF v
<1>. QED  BY <1>1, <1>2, <1>3, Zenon

LEMMA BootfileName == bootfile \in Names /\ loadaddr \in Names
BY EnvAssumption

LEMMA InitType == ASSUME Init PROVE TypeOK
<1>1. flash \in Stores \cup {Torn}  BY SealedType DEF Init
<1>2. ram \in Stores  BY SealedType, EnvAssumption DEF Init
<1>. QED  BY <1>1, <1>2 DEF Init, TypeOK

LEMMA NextType == ASSUME TypeOK, [Next]_vars PROVE TypeOK'
<1>1. CASE UNCHANGED vars  BY <1>1 DEF TypeOK
<1>2. CASE Boot
  <2>1. ram' \in Stores
    BY <1>2, SealedType, EnvAssumption DEF Boot, TypeOK, Valid
  <2>2. copies' \in [Copied -> Values \cup {NotSet}]
    BY <1>2, StoredType, ValueOf DEF Boot, CopiesOf
  <2>3. enetaddr' \in [Macs -> Values \cup {NotSet, Factory}]
    BY <1>2 DEF Boot
  <2>. QED  BY <1>2, <2>1, <2>2, <2>3 DEF Boot, TypeOK
<1>3. ASSUME NEW n \in Names, NEW v \in Values, SetEnv(n, v) PROVE TypeOK'
  <2>1. ram' \in Stores
    <3>1. ram.data \in Envs  BY DEF TypeOK, Stores
    <3>. QED  BY <1>3, <3>1, WithType, SealedType DEF SetEnv
  <2>2. copies' \in [Copied -> Values \cup {NotSet}] /\ given' \subseteq Copied
    BY <1>3 DEF SetEnv, CopyOut, TypeOK
  <2>. QED  BY <1>3, <2>1, <2>2, EnetaddrType DEF SetEnv, TypeOK
<1>4. ASSUME NEW n \in Names, NEW v \in Values, Overflow(n, v),
             copies' \in [Copied -> Values \cup {NotSet}], given' \subseteq Copied
      PROVE TypeOK'
  <2>1. ram.data \in Envs /\ Without(ram.data, n) \in Envs
    BY WithoutType DEF TypeOK, Stores
  <2>2. ram' \in Stores  BY <1>4, <2>1 DEF Overflow, TypeOK, Stores
  <2>. QED  BY <1>4, <2>2, EnetaddrType DEF Overflow, TypeOK
<1>5. ASSUME NEW n \in Names, DelEnv(n) PROVE TypeOK'
  <2>1. ram.data \in Envs  BY DEF TypeOK, Stores
  <2>2. ram' \in Stores  BY <1>5, <2>1, WithoutType, SealedType DEF DelEnv
  <2>. QED  BY <1>5, <2>2, EnetaddrType DEF DelEnv, TypeOK
<1>6. CASE SaveEnv  BY <1>6 DEF SaveEnv, TypeOK
<1>7. CASE FlashErase  BY <1>7 DEF FlashErase, TypeOK
<1>8. CASE FlashWrite  BY <1>8 DEF FlashWrite, TypeOK
<1>9. CASE PowerLoss  BY <1>9 DEF PowerLoss, TypeOK
<1>10. ASSUME NEW n \in Names, NEW v \in Values, SetEnvOverflow(n, v)
       PROVE  TypeOK'
  BY <1>4, <1>10 DEF SetEnvOverflow, TypeOK
<1>11. ASSUME NEW addr \in Values \cup {NotSet}, NEW file \in Values \cup {NotSet},
              NetbootCommon(addr, file) \/ (addr \in Values /\ LoadSerial(addr))
       PROVE  TypeOK'
  BY <1>11, CopyStep DEF TypeOK
<1>12. ASSUME NEW file \in Values \cup {NotSet}, BootpCopyNetParams(file)
       PROVE  TypeOK'
  <2>1. PICK v \in Values :
          \/ SetEnv(bootfile, v)
          \/ /\ Overflow(bootfile, v)
             /\ copies' = [copies EXCEPT ![bootfile] = v]
             /\ given' = given \cup {bootfile}
    BY <1>12, BootpStep
  <2>2. CASE SetEnv(bootfile, v)  BY <2>2, <1>3, BootfileName
  <2>3. CASE /\ Overflow(bootfile, v)
             /\ copies' = [copies EXCEPT ![bootfile] = v]
             /\ given' = given \cup {bootfile}
    <3>1. copies' \in [Copied -> Values \cup {NotSet}] /\ given' \subseteq Copied
      BY <2>3, EnvAssumption DEF TypeOK
    <3>. QED  BY <2>3, <3>1, <1>4, BootfileName
  <2>. QED  BY <2>1, <2>2, <2>3
<1>. QED
  BY <1>1, <1>2, <1>3, <1>5, <1>6, <1>7, <1>8, <1>9, <1>10, <1>11, <1>12 DEF Next

\* Every variable of EnvFlash keeps its type, whatever the sizes.
THEOREM EnvType == Spec => []TypeOK
BY InitType, NextType, PTL DEF Spec

\* What a step does to the store: a command that only writes copies does
\* nothing to it, and a BOOTP reply is a setenv or one that overflows.
LEMMA StoreSteps ==
  ASSUME TypeOK, [Next]_vars
  PROVE  \/ UNCHANGED <<pc, ram, flash, lastSaved, cut>>
         \/ Boot \/ SaveEnv \/ FlashErase \/ FlashWrite \/ PowerLoss
         \/ \E n \in Names : DelEnv(n) \/ \E v \in Values : SetEnv(n, v) \/ Overflow(n, v)
<1>1. CASE UNCHANGED vars  BY <1>1
<1>2. ASSUME NEW addr \in Values \cup {NotSet}, NEW file \in Values \cup {NotSet},
             NetbootCommon(addr, file) \/ (addr \in Values /\ LoadSerial(addr))
      PROVE  UNCHANGED <<pc, ram, flash, lastSaved, cut>>
  BY <1>2, CopyStep
<1>3. ASSUME NEW file \in Values \cup {NotSet}, BootpCopyNetParams(file)
      PROVE  \E v \in Values : SetEnv(bootfile, v) \/ Overflow(bootfile, v)
  BY <1>3, BootpStep
<1>4. ASSUME NEW n \in Names, NEW v \in Values, SetEnvOverflow(n, v)
      PROVE  Overflow(n, v)
  BY <1>4 DEF SetEnvOverflow
<1>. QED  BY <1>1, <1>2, <1>3, <1>4, BootfileName, Zenon DEF Next

-----------------------------------------------------------------------------
(* The flash area is the store last saved, not only equal in data: that is  *)
(* what a reset, an edit and the start of another saveenv preserve.         *)
SavedInv == (lastSaved # NotSet /\ ~cut /\ pc # "write") => flash = lastSaved

LEMMA NextSaved == ASSUME TypeOK, SavedInv, [Next]_vars PROVE SavedInv'
<1>1. CASE UNCHANGED <<pc, ram, flash, lastSaved, cut>>  BY <1>1 DEF SavedInv
<1>2. CASE Boot  BY <1>2 DEF Boot, SavedInv
<1>3. ASSUME NEW n \in Names, NEW v \in Values, SetEnv(n, v) PROVE SavedInv'
  BY <1>3 DEF SetEnv, SavedInv
<1>4. ASSUME NEW n \in Names, NEW v \in Values, Overflow(n, v)
      PROVE SavedInv'
  BY <1>4 DEF Overflow, SavedInv
<1>5. ASSUME NEW n \in Names, DelEnv(n) PROVE SavedInv'
  BY <1>5 DEF DelEnv, SavedInv
<1>6. CASE SaveEnv  BY <1>6 DEF SaveEnv, SavedInv
<1>7. CASE FlashErase  BY <1>7 DEF FlashErase, SavedInv
<1>8. CASE FlashWrite  BY <1>8 DEF FlashWrite, SavedInv
<1>9. CASE PowerLoss
  <2>1. SUFFICES ASSUME lastSaved' # NotSet, ~cut' PROVE flash' = lastSaved'
    BY DEF SavedInv
  <2>2. ~cut /\ pc # "write"  BY <1>9, <2>1, Zenon DEF PowerLoss
  <2>. QED  BY <1>9, <2>1, <2>2 DEF PowerLoss, SavedInv
<1>. QED  BY <1>1, <1>2, <1>3, <1>4, <1>5, <1>6, <1>7, <1>8, <1>9,
          StoreSteps

\* A completed saveenv of an environment with a right CRC survives every reset
\* until power fails in a later saveenv: saveenv, env_init and env_relocate.
THEOREM EnvSavedSurvives == Spec => []SavedSurvives
<1>1. Init => SavedInv  BY DEF Init, SavedInv
<1>2. TypeOK /\ SavedInv => SavedSurvives
  BY EnvAssumption DEF TypeOK, SavedInv, SavedSurvives, Stored, Valid
<1>. QED  BY <1>1, <1>2, NextSaved, EnvType, PTL DEF Spec

-----------------------------------------------------------------------------
\* What Boot puts in RAM is what Stored says, under a right CRC.
LEMMA BootGives ==
  ASSUME TypeOK, Boot
  PROVE  ram'.data = Stored /\ ram'.crc = Stored
<1>1. CASE Valid(flash)  BY <1>1 DEF Boot, Stored, Valid
<1>2. CASE ~Valid(flash)
  BY <1>2, SealedType, EnvAssumption DEF Boot, Stored
<1>. QED  BY <1>1, <1>2

LEMMA NextCopies == ASSUME TypeOK, CopiesFresh, [Next]_vars PROVE CopiesFresh'
<1>0. ram.data \in Envs  BY DEF TypeOK, Stores
<1>1. CASE UNCHANGED vars  BY <1>1 DEF CopiesFresh
<1>2. CASE Boot  BY <1>2, BootGives DEF Boot, CopiesOf, CopiesFresh
<1>3. ASSUME NEW n \in Names, NEW v \in Values, SetEnv(n, v) PROVE CopiesFresh'
  <2>1. ram'.data = With(ram.data, n, v)  BY <1>3 DEF SetEnv, Sealed
  <2>2. \A m \in Copied : copies'[m] = IF m = n THEN v ELSE copies[m]
    BY <1>3 DEF SetEnv, CopyOut, TypeOK
  <2>3. given' = given \ {n}  BY <1>3 DEF SetEnv, CopyOut
  <2>. QED  BY <1>3, <2>1, <2>2, <2>3 DEF SetEnv, CopiesFresh, With
<1>4. ASSUME NEW n \in Names, NEW v \in Values, Overflow(n, v),
             \A m \in Copied \ {n} : copies'[m] = copies[m],
             given \subseteq given'
      PROVE CopiesFresh'
  <2>1. ram'.data = Without(ram.data, n)  BY <1>4 DEF Overflow, TypeOK, Stores
  <2>. QED  BY <1>4, <2>1 DEF Overflow, CopiesFresh, Without
<1>5. ASSUME NEW n \in Names, DelEnv(n) PROVE CopiesFresh'
  <2>1. ram'.data = Without(ram.data, n)  BY <1>5 DEF DelEnv, Sealed
  <2>. QED  BY <1>5, <2>1 DEF DelEnv, CopiesFresh, Without
<1>6. CASE SaveEnv  BY <1>6 DEF SaveEnv, CopiesFresh
<1>7. CASE FlashErase  BY <1>7 DEF FlashErase, CopiesFresh
<1>8. CASE FlashWrite  BY <1>8 DEF FlashWrite, CopiesFresh
<1>9. CASE PowerLoss  BY <1>9 DEF PowerLoss, CopiesFresh
<1>10. ASSUME NEW n \in Names, NEW v \in Values, SetEnvOverflow(n, v)
       PROVE  CopiesFresh'
  BY <1>4, <1>10 DEF SetEnvOverflow
<1>11. ASSUME NEW addr \in Values \cup {NotSet}, NEW file \in Values \cup {NotSet},
              NetbootCommon(addr, file)
       PROVE  CopiesFresh'
  <2>1. loadaddr \in Copied /\ bootfile \in Copied /\ bootfile # loadaddr
    BY EnvAssumption
  <2>2. \A m \in Copied \ {loadaddr, bootfile} :
          copies'[m] = copies[m] /\ (m \in given' <=> m \in given)
    BY <1>11, <2>1 DEF NetbootCommon, TypeOK
  <2>3. loadaddr \in DOMAIN ram.data =>
          copies'[loadaddr] = ram.data[loadaddr] \/ loadaddr \in given'
    BY <1>11, <2>1 DEF NetbootCommon, TypeOK
  <2>4. \/ bootfile \in given'
        \/ copies'[bootfile] = copies[bootfile] /\ (bootfile \in given' <=> bootfile \in given)
    BY <1>11, <2>1 DEF NetbootCommon, TypeOK
  <2>5. pc' = pc /\ ram' = ram  BY <1>11 DEF NetbootCommon
  <2>. QED  BY <2>1, <2>2, <2>3, <2>4, <2>5 DEF CopiesFresh
<1>12. ASSUME NEW addr \in Values, LoadSerial(addr) PROVE CopiesFresh'
  BY <1>12, EnvAssumption DEF LoadSerial, CopiesFresh, TypeOK
<1>13. ASSUME NEW file \in Values \cup {NotSet}, BootpCopyNetParams(file)
       PROVE  CopiesFresh'
  <2>1. PICK v \in Values :
          \/ SetEnv(bootfile, v)
          \/ /\ Overflow(bootfile, v)
             /\ copies' = [copies EXCEPT ![bootfile] = v]
             /\ given' = given \cup {bootfile}
    BY <1>13, BootpStep
  <2>2. CASE SetEnv(bootfile, v)  BY <2>2, <1>3, BootfileName
  <2>3. CASE /\ Overflow(bootfile, v)
             /\ copies' = [copies EXCEPT ![bootfile] = v]
             /\ given' = given \cup {bootfile}
    <3>1. \A m \in Copied \ {bootfile} : copies'[m] = copies[m]
      BY <2>3 DEF TypeOK
    <3>. QED  BY <2>3, <3>1, <1>4, BootfileName
  <2>. QED  BY <2>1, <2>2, <2>3
<1>. QED
  BY <1>1, <1>2, <1>3, <1>5, <1>6, <1>7, <1>8, <1>9, <1>10, <1>11, <1>12, <1>13
  DEF Next

\* load_addr and BootFile differ from the value the environment shows only if
\* a command was told another one since it was set, bi_enetaddr and bi_ip_addr
\* never do: _do_setenv, board_init_r, and netboot_common, do_load_serial,
\* do_load_serial_bin and BootpCopyNetParams, which write the copies as well.
THEOREM EnvCopiesFresh == Spec => []CopiesFresh
<1>1. Init => CopiesFresh  BY DEF Init, CopiesFresh
<1>. QED  BY <1>1, NextCopies, EnvType, PTL DEF Spec

-----------------------------------------------------------------------------
(* The refinement, one lemma per step of EnvFlash. *)
LEMMA InitStore == ASSUME Init PROVE Store!Init
<1>1. Stored \in Envs  BY InitType, StoredType
<1>2. Envs = Store!Envs  BY DEF Envs, Store!Envs
<1>3. phase = "off"  BY DEF Init, phase
<1>4. ram.data = DefaultEnv /\ ram.crc = DefaultEnv
  BY SealedType, EnvAssumption DEF Init
<1>. QED  BY <1>1, <1>2, <1>3, <1>4 DEF Store!Init

\* Edits leave the kept environment and the phase alone.
LEMMA KeptUnchanged ==
  ASSUME UNCHANGED flash PROVE Stored' = Stored
BY DEF Stored, Valid

\* Since its CRC was computed the environment can only have lost variables.
CrcInv == DOMAIN ram.data \subseteq DOMAIN ram.crc

LEMMA NextCrc == ASSUME TypeOK, CrcInv, [Next]_vars PROVE CrcInv'
<1>0. ram \in Stores  BY DEF TypeOK
<1>1. CASE UNCHANGED <<pc, ram, flash, lastSaved, cut>>  BY <1>1 DEF CrcInv
<1>2. CASE Boot  BY <1>2, BootGives DEF CrcInv
<1>3. ASSUME NEW n \in Names, NEW v \in Values, SetEnv(n, v) PROVE CrcInv'
  BY <1>3 DEF SetEnv, CrcInv, Sealed
<1>4. ASSUME NEW n \in Names, NEW v \in Values, Overflow(n, v)
      PROVE CrcInv'
  <2>1. ram'.data = Without(ram.data, n) /\ ram'.crc = ram.crc
    BY <1>4, <1>0 DEF Overflow, Stores
  <2>. QED  BY <2>1 DEF CrcInv, Without
<1>5. ASSUME NEW n \in Names, DelEnv(n) PROVE CrcInv'
  BY <1>5 DEF DelEnv, CrcInv, Sealed
<1>6. CASE SaveEnv  BY <1>6 DEF SaveEnv, CrcInv
<1>7. CASE FlashErase  BY <1>7 DEF FlashErase, CrcInv
<1>8. CASE FlashWrite  BY <1>8 DEF FlashWrite, CrcInv
<1>9. CASE PowerLoss  BY <1>9 DEF PowerLoss, CrcInv
<1>. QED  BY <1>1, <1>2, <1>3, <1>4, <1>5, <1>6, <1>7, <1>8, <1>9,
          StoreSteps

LEMMA NextStore == ASSUME TypeOK, CrcInv, [Next]_vars
                   PROVE  [Store!Next]_(Store!vars)
<1>. USE DEF phase
<1>0. ram.data \in Envs /\ ram \in Stores  BY DEF TypeOK, Stores
<1>1. CASE UNCHANGED <<pc, ram, flash, lastSaved, cut>>
  BY <1>1, KeptUnchanged DEF Store!vars
<1>2. CASE Boot
  <2>1. Store!Boot
    BY <1>2, BootGives, KeptUnchanged DEF Boot, Store!Boot
  <2>. QED  BY <2>1 DEF Store!Next
<1>3. ASSUME NEW n \in Names, NEW v \in Values, SetEnv(n, v)
      PROVE Store!Next
  <2>1. ram'.data = With(ram.data, n, v) /\ ram'.crc = ram'.data
    BY <1>3 DEF SetEnv, Sealed
  <2>2. Store!Set(n, v)
    BY <1>3, <2>1, KeptUnchanged DEF SetEnv, Store!Set, With, Store!With
  <2>. QED  BY <2>2 DEF Store!Next
<1>4. ASSUME NEW n \in Names, NEW v \in Values, Overflow(n, v)
      PROVE [Store!Next]_(Store!vars)
  <2>1. ram'.data = Without(ram.data, n) /\ ram'.crc = ram.crc
    BY <1>4, <1>0 DEF Overflow, Stores
  <2>2. CASE n \in DOMAIN ram.data
    <3>1. ram'.crc # ram'.data
      BY <2>1, <2>2 DEF CrcInv, Without
    <3>2. Store!Spoil(n)
      BY <1>4, <2>1, <2>2, <3>1, KeptUnchanged
         DEF Overflow, Store!Spoil, Without, Store!Without
    <3>. QED  BY <3>2 DEF Store!Next
  <2>3. CASE n \notin DOMAIN ram.data
    <3>1. Without(ram.data, n) = ram.data
      BY <1>0, <2>3 DEF Without, Envs
    <3>. QED  BY <1>4, <2>1, <3>1, KeptUnchanged DEF Overflow, Store!vars
  <2>. QED  BY <2>2, <2>3
<1>5. ASSUME NEW n \in Names, DelEnv(n) PROVE Store!Next
  <2>1. ram'.data = Without(ram.data, n) /\ ram'.crc = ram'.data
    BY <1>5 DEF DelEnv, Sealed
  <2>2. Store!Delete(n)
    BY <1>5, <2>1, KeptUnchanged DEF DelEnv, Store!Delete, Without, Store!Without
  <2>. QED  BY <2>2 DEF Store!Next
<1>6. CASE SaveEnv
  BY <1>6, KeptUnchanged DEF SaveEnv, Store!vars
<1>7. CASE FlashErase
  <2>1. Stored' = DefaultEnv  BY <1>7 DEF FlashErase, Stored, Valid
  <2>2. Store!BeginSave  BY <1>7, <2>1 DEF FlashErase, Store!BeginSave
  <2>. QED  BY <2>2 DEF Store!Next
<1>8. CASE FlashWrite
  <2>1. Stored' = IF ram.crc = ram.data THEN ram.data ELSE DefaultEnv
    BY <1>8, <1>0, EnvAssumption DEF FlashWrite, Stored, Valid
  <2>2. Store!EndSave  BY <1>8, <2>1 DEF FlashWrite, Store!EndSave
  <2>. QED  BY <2>2 DEF Store!Next
<1>9. CASE PowerLoss
  <2>1. Store!PowerLoss
    BY <1>9, KeptUnchanged DEF PowerLoss, Store!PowerLoss, TypeOK
  <2>. QED  BY <2>1 DEF Store!Next
<1>. QED  BY <1>1, <1>2, <1>3, <1>4, <1>5, <1>6, <1>7, <1>8, <1>9,
          StoreSteps

\* EnvFlash implements EnvStore: whatever is edited, saved, cut short and
\* booted by cmd_nvedit.c, env_flash.c and env_common.c is a step of the store.
THEOREM EnvRefinement == Spec => ImplementsStore
<1>1. Init => CrcInv  BY SealedType, EnvAssumption DEF Init, CrcInv
<1>. QED
  BY <1>1, InitStore, NextCrc, NextStore, EnvType, PTL
     DEF Spec, ImplementsStore, Store!Spec

-----------------------------------------------------------------------------
(* The size check. *)

\* The bytes of one entry.
LEMMA EntryBytes ==
  ASSUME NEW n, NEW k \in Nat
  PROVE  IsFiniteSet({n} \X (1 .. k)) /\ Cardinality({n} \X (1 .. k)) = k
<1>1. IsFiniteSet({n}) /\ Cardinality({n}) = 1  BY FS_Singleton
<1>2. IsFiniteSet(1 .. k) /\ Cardinality(1 .. k) = k  BY FS_Interval
<1>3. /\ IsFiniteSet({n} \X (1 .. k))
      /\ Cardinality({n} \X (1 .. k)) = Cardinality({n}) * Cardinality(1 .. k)
  BY <1>1, <1>2, FS_Product
<1>. QED  BY <1>1, <1>2, <1>3

\* An environment has finitely many bytes.
LEMMA BytesFinite ==
  ASSUME NEW e \in Envs
  PROVE  IsFiniteSet(Bytes(e)) /\ Used(e) \in Nat
<1>. DEFINE entry(n) == {n} \X (1 .. Size[e[n]])
            T == {entry(n) : n \in DOMAIN e}
            f == [n \in DOMAIN e |-> entry(n)]
<1>1. DOMAIN e \in SUBSET Names  BY DEF Envs
<1>2. IsFiniteSet(DOMAIN e)  BY <1>1, FS_Subset, EnvAssumption
<1>3. \A n \in DOMAIN e : IsFiniteSet(entry(n))
  <2>1. \A n \in DOMAIN e : Size[e[n]] \in Nat
    BY ValueOf, EnvAssumption
  <2>. QED  BY <2>1, EntryBytes
<1>4. IsFiniteSet(T)
  <2>. HIDE DEF entry
  <2>1. f \in Surjection(DOMAIN e, T)  BY DEF Surjection
  <2>. QED  BY <1>2, <2>1, FS_Surjection
<1>5. IsFiniteSet(UNION T)
  <2>1. \A t \in T : IsFiniteSet(t)
    <3>. HIDE DEF entry
    <3>. QED  BY <1>3
  <2>. HIDE DEF T
  <2>. QED  BY <1>4, <2>1, FS_UNION
<1>6. Bytes(e) = UNION T  BY Zenon DEF Bytes
<1>. QED  BY <1>5, <1>6, FS_CardinalityType DEF Used

\* Deleting an entry frees bytes, adding one takes its size.
LEMMA UsedWithout ==
  ASSUME NEW e \in Envs, NEW n \in Names
  PROVE  Used(Without(e, n)) \in Nat /\ Used(Without(e, n)) <= Used(e)
<1>1. Bytes(Without(e, n)) \in SUBSET Bytes(e)  BY DEF Bytes, Without
<1>2. IsFiniteSet(Bytes(e))  BY BytesFinite
<1>3. Used(Without(e, n)) \in Nat  BY BytesFinite, WithoutType
<1>. QED  BY <1>1, <1>2, <1>3, FS_Subset DEF Used

LEMMA UsedWith ==
  ASSUME NEW e \in Envs, NEW n \in Names, NEW v \in Values
  PROVE  Used(With(e, n, v)) = Used(Without(e, n)) + Size[v]
<1>. DEFINE A == Bytes(Without(e, n))
            B == {n} \X (1 .. Size[v])
<1>1. Size[v] \in Nat  BY EnvAssumption
<1>2. IsFiniteSet(A) /\ Used(Without(e, n)) \in Nat  BY BytesFinite, WithoutType
<1>3. IsFiniteSet(B) /\ Cardinality(B) = Size[v]  BY <1>1, EntryBytes
<1>4. Bytes(With(e, n, v)) = A \cup B
  <2>. DEFINE o == Without(e, n)
              w == With(e, n, v)
              ow(m) == {m} \X (1 .. Size[o[m]])
              ww(m) == {m} \X (1 .. Size[w[m]])
  <2>1. /\ DOMAIN w = DOMAIN o \cup {n} /\ w[n] = v
        /\ \A m \in DOMAIN o : w[m] = o[m]
    BY DEF With, Without
  <2>2. ww(n) = B /\ \A m \in DOMAIN o : ww(m) = ow(m)
    <3>. HIDE DEF o, w
    <3>. QED  BY <2>1, Zenon
  <2>3. Bytes(o) = UNION {ow(m) : m \in DOMAIN o}  BY Zenon DEF Bytes
  <2>4. Bytes(w) = UNION {ww(m) : m \in DOMAIN w}  BY Zenon DEF Bytes
  <2>5. Bytes(w) = Bytes(o) \cup B
    <3>. HIDE DEF o, w, ow, ww, B
    <3>1. \A p : p \in Bytes(w) <=> \E m \in DOMAIN w : p \in ww(m)  BY <2>4
    <3>2. \A p : p \in Bytes(o) <=> \E m \in DOMAIN o : p \in ow(m)  BY <2>3
    <3>. QED  BY <2>1, <2>2, <3>1, <3>2
  <2>. QED  BY <2>5, Zenon
<1>5. A \cap B = {}  BY DEF Bytes, Without
<1>6. Cardinality(A \cup B) = Cardinality(A) + Cardinality(B) - Cardinality(A \cap B)
  <2>. HIDE DEF A, B
  <2>. QED  BY <1>2, <1>3, FS_Union
<1>7. Cardinality(A \cap B) = 0  BY <1>5, FS_EmptySet
<1>8. Cardinality(A) = Used(Without(e, n))  BY DEF Used
<1>. HIDE DEF A, B
<1>. QED  BY <1>1, <1>2, <1>3, <1>4, <1>6, <1>7, <1>8 DEF Used

\* Whatever is in RAM or in the flash area has room for its final '\0'.
Roomy(e) == Used(e) + 1 <= ENV_SIZE
RoomInv == Roomy(ram.data) /\ (flash # Torn => Roomy(flash.data))

LEMMA InitRoom == ASSUME Init PROVE RoomInv
<1>1. \A e \in Envs : Used(e) < ENV_SIZE => Roomy(e)
  BY BytesFinite, EnvAssumption DEF Roomy
<1>2. Roomy(DefaultEnv)  BY <1>1, EnvAssumption
<1>. QED  BY <1>1, <1>2, SealedType DEF Init, RoomInv, Sealed

LEMMA NextRoom == ASSUME TypeOK, RoomInv, [Next]_vars PROVE RoomInv'
<1>0. ram.data \in Envs /\ ram \in Stores  BY DEF TypeOK, Stores
<1>1. CASE UNCHANGED <<pc, ram, flash, lastSaved, cut>> \/ SaveEnv \/ PowerLoss
  BY <1>1 DEF SaveEnv, PowerLoss, RoomInv, Roomy, Used, Bytes
<1>2. CASE Boot
  <2>1. Roomy(DefaultEnv)
    <3>1. Used(DefaultEnv) \in Nat /\ Used(DefaultEnv) < ENV_SIZE /\ ENV_SIZE \in Nat
      BY BytesFinite, EnvAssumption
    <3>. QED  BY <3>1 DEF Roomy
  <2>2. /\ ram'.data = DefaultEnv \/ (flash # Torn /\ ram'.data = flash.data)
        /\ UNCHANGED flash
    BY <1>2 DEF Boot, Valid, Sealed
  <2>. QED  BY <2>1, <2>2 DEF RoomInv, Roomy, Used, Bytes
<1>3. ASSUME NEW n \in Names, NEW v \in Values, SetEnv(n, v) PROVE RoomInv'
  <2>1. ram'.data = With(ram.data, n, v) /\ UNCHANGED flash  BY <1>3 DEF SetEnv, Sealed
  <2>2. Size[v] + 1 <= ENV_SIZE - Used(Without(ram.data, n))  BY <1>3 DEF SetEnv, Fits
  <2>3. /\ Used(With(ram.data, n, v)) = Used(Without(ram.data, n)) + Size[v]
        /\ Used(Without(ram.data, n)) \in Nat /\ Size[v] \in Nat /\ ENV_SIZE \in Nat
    BY <1>0, UsedWith, UsedWithout, EnvAssumption
  <2>4. Roomy(With(ram.data, n, v))  BY <2>2, <2>3 DEF Roomy
  <2>. QED  BY <2>1, <2>4 DEF RoomInv, Roomy, Used, Bytes
<1>4. ASSUME NEW n \in Names, NEW v \in Values, Overflow(n, v) PROVE RoomInv'
  <2>1. ram'.data = Without(ram.data, n) /\ UNCHANGED flash
    BY <1>0, <1>4 DEF Overflow, Sealed, Stores
  <2>2. /\ Used(Without(ram.data, n)) \in Nat /\ Used(ram.data) \in Nat /\ ENV_SIZE \in Nat
        /\ Used(Without(ram.data, n)) <= Used(ram.data)
    BY <1>0, UsedWithout, BytesFinite, EnvAssumption
  <2>3. Roomy(Without(ram.data, n))  BY <2>2 DEF RoomInv, Roomy
  <2>. QED  BY <2>1, <2>3 DEF RoomInv, Roomy, Used, Bytes
<1>5. CASE FlashErase \/ FlashWrite
  BY <1>5 DEF FlashErase, FlashWrite, RoomInv, Roomy, Used, Bytes
<1>6. ASSUME NEW n \in Names, DelEnv(n) PROVE RoomInv'
  <2>1. ram'.data = Without(ram.data, n) /\ UNCHANGED flash
    BY <1>6 DEF DelEnv, Sealed
  <2>2. /\ Used(Without(ram.data, n)) \in Nat /\ Used(ram.data) \in Nat /\ ENV_SIZE \in Nat
        /\ Used(Without(ram.data, n)) <= Used(ram.data)
    BY <1>0, UsedWithout, BytesFinite, EnvAssumption
  <2>3. Roomy(Without(ram.data, n))  BY <2>2 DEF RoomInv, Roomy
  <2>. QED  BY <2>1, <2>3 DEF RoomInv, Roomy, Used, Bytes
<1>. QED  BY <1>1, <1>2, <1>3, <1>4, <1>5, <1>6, StoreSteps

\* The size check of _do_setenv keeps the environment inside its data area,
\* for any names, values and sizes: through edits, overflows, saves, power
\* losses and boots from whatever was saved.
THEOREM EnvNoOverrun == Spec => []NoOverrun
<1>1. RoomInv => NoOverrun  BY DEF RoomInv, Roomy, NoOverrun
<1>. QED  BY <1>1, InitRoom, NextRoom, EnvType, PTL DEF Spec

=============================================================================
