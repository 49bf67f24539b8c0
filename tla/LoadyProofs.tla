---------------------------- MODULE LoadyProofs -----------------------------
(***************************************************************************)
(* Proofs about Loady: what xyzModem_stream_read stores is the file.       *)
(***************************************************************************)
EXTENDS Loady, FiniteSetTheorems, SequenceTheorems, WellFoundedInduction, TLAPS

-----------------------------------------------------------------------------
(* Counting in a queue. *)

Hits(s, V) == {i \in DOMAIN s : s[i] \in V}
N(s, V)    == Cardinality(Hits(s, V))
Bit(b)     == IF b THEN 1 ELSE 0
In(e, V)   == IF e \in V THEN 1 ELSE 0

LEMMA HitsFinite ==
  ASSUME NEW S, NEW s \in Seq(S), NEW V
  PROVE  /\ IsFiniteSet(Hits(s, V)) /\ N(s, V) \in Nat /\ N(s, V) <= Len(s)
         /\ N(s, V) = 0 <=> \A i \in 1 .. Len(s) : s[i] \notin V
<1>1. Len(s) \in Nat /\ DOMAIN s = 1 .. Len(s)
  BY LenProperties
<1>2. IsFiniteSet(1 .. Len(s)) /\ Cardinality(1 .. Len(s)) = Len(s)
  <2>1. PICK n \in Nat : n = Len(s)
    BY LenProperties, Zenon
  <2>2. IsFiniteSet(1 .. n) /\ Cardinality(1 .. n) = n
    BY FS_Interval
  <2> QED
    BY <2>1, <2>2
<1>3. Hits(s, V) \in SUBSET (1 .. Len(s))
  BY <1>1 DEF Hits
<1>4. IsFiniteSet(Hits(s, V)) /\ N(s, V) <= Len(s) /\ N(s, V) \in Nat
  BY <1>2, <1>3, FS_Subset, FS_CardinalityType DEF N
<1>5. N(s, V) = 0 <=> Hits(s, V) = {}
  BY <1>4, FS_EmptySet DEF N
<1> QED
  BY <1>1, <1>4, <1>5 DEF Hits

LEMMA NMono ==
  ASSUME NEW S, NEW s \in Seq(S), NEW V, NEW W, V \subseteq W
  PROVE  N(s, V) <= N(s, W)
<1>1. Hits(s, V) \in SUBSET Hits(s, W)
  BY DEF Hits
<1> QED
  BY <1>1, HitsFinite, FS_Subset DEF N

\* t is s without its place i.
LEMMA NShift ==
  ASSUME NEW S, NEW s \in Seq(S), NEW t \in Seq(S), NEW i \in 1 .. Len(s), NEW V,
         Len(s) = Len(t) + 1,
         \A j \in 1 .. Len(t) : t[j] = s[IF j < i THEN j ELSE j + 1]
  PROVE  N(s, V) = N(t, V) + In(s[i], V)
<1> DEFINE up(j) == IF j < i THEN j ELSE j + 1
           f == [j \in Hits(t, V) |-> up(j)]
           R == Hits(s, V) \ {i}
<1>1. Len(s) \in Nat /\ Len(t) \in Nat /\ DOMAIN s = 1 .. Len(s) /\ DOMAIN t = 1 .. Len(t)
  BY LenProperties
<1>2. f \in Bijection(Hits(t, V), R)
  <2>1. f \in [Hits(t, V) -> R]
    <3> SUFFICES ASSUME NEW j \in Hits(t, V) PROVE up(j) \in R
      OBVIOUS
    <3>1. j \in 1 .. Len(t) /\ t[j] \in V
      BY <1>1 DEF Hits
    <3>2. up(j) \in 1 .. Len(s) /\ up(j) # i /\ s[up(j)] \in V
      BY <1>1, <3>1
    <3> QED
      BY <1>1, <3>2 DEF Hits
  <2>2. \A j, k \in Hits(t, V) : f[j] = f[k] => j = k
    BY <1>1 DEF Hits
  <2>3. \A k \in R : \E j \in Hits(t, V) : f[j] = k
    <3> SUFFICES ASSUME NEW k \in R PROVE \E j \in Hits(t, V) : up(j) = k
      OBVIOUS
    <3>1. k \in 1 .. Len(s) /\ k # i /\ s[k] \in V
      BY <1>1 DEF Hits
    <3> DEFINE j == IF k < i THEN k ELSE k - 1
    <3>2. j \in 1 .. Len(t) /\ up(j) = k
      BY <1>1, <3>1
    <3>3. t[j] = s[k]
      BY <3>2
    <3>4. j \in Hits(t, V)
      BY <1>1, <3>1, <3>2, <3>3 DEF Hits
    <3> QED
      BY <3>2, <3>4
  <2> HIDE DEF f, R
  <2> QED
    BY <2>1, <2>2, <2>3 DEF Bijection, Injection, Surjection, IsInjective
<1>3. Cardinality(R) = Cardinality(Hits(t, V))
  <2> HIDE DEF f, R
  <2> QED
    BY <1>2, HitsFinite, FS_Bijection DEF ExistsBijection
<1>4. Cardinality(R) = IF i \in Hits(s, V) THEN Cardinality(Hits(s, V)) - 1
                                           ELSE Cardinality(Hits(s, V))
  BY HitsFinite, FS_RemoveElement
<1>5. i \in Hits(s, V) <=> s[i] \in V
  BY <1>1 DEF Hits
<1>6. N(s, V) \in Nat /\ N(t, V) \in Nat
  BY HitsFinite
<1> HIDE DEF R
<1> QED
  BY <1>3, <1>4, <1>5, <1>6 DEF N, In

\* What the steps do to a queue: take the first, append, remove, insert, replace.
LEMMA NTail ==
  ASSUME NEW S, NEW s \in Seq(S), s # <<>>, NEW V
  PROVE  N(Tail(s), V) = N(s, V) - In(Head(s), V)
<1>1. /\ Tail(s) \in Seq(S) /\ Len(Tail(s)) = Len(s) - 1 /\ Len(s) \in Nat \ {0}
      /\ \A i \in 1 .. Len(Tail(s)) : Tail(s)[i] = s[i + 1]
  BY HeadTailProperties, EmptySeq
<1>2. Head(s) = s[1]
  BY DEF Head
<1>3. N(s, V) = N(Tail(s), V) + In(s[1], V)
  <2> DEFINE t == Tail(s)
  <2>1. Len(s) = Len(t) + 1 /\ \A j \in 1 .. Len(t) : t[j] = s[IF j < 1 THEN j ELSE j + 1]
    BY <1>1
  <2>2. t \in Seq(S) /\ 1 \in 1 .. Len(s)
    BY <1>1
  <2> HIDE DEF t
  <2>3. N(s, V) = N(t, V) + In(s[1], V)
    BY <2>1, <2>2, NShift
  <2> QED
    BY <2>3 DEF t
<1>4. N(s, V) \in Nat /\ N(Tail(s), V) \in Nat
  BY <1>1, HitsFinite
<1> QED
  BY <1>2, <1>3, <1>4 DEF Bit, In

LEMMA NAppend ==
  ASSUME NEW S, NEW s \in Seq(S), NEW e \in S, NEW V
  PROVE  /\ Append(s, e) \in Seq(S) /\ Len(Append(s, e)) = Len(s) + 1
         /\ \A i \in 1 .. Len(s) : Append(s, e)[i] = s[i]
         /\ Append(s, e)[Len(s) + 1] = e
         /\ N(Append(s, e), V) = N(s, V) + In(e, V)
<1>1. /\ Append(s, e) \in Seq(S) /\ Len(Append(s, e)) = Len(s) + 1 /\ Len(s) \in Nat
      /\ \A i \in 1 .. Len(s) : Append(s, e)[i] = s[i]
      /\ Append(s, e)[Len(s) + 1] = e
  BY AppendProperties, LenProperties
<1>2. PICK t : t = Append(s, e)
  OBVIOUS
<1>3. N(t, V) = N(s, V) + In(t[Len(s) + 1], V)
  <2>1. Len(t) = Len(s) + 1 /\ Len(s) + 1 \in 1 .. Len(t) /\ t \in Seq(S)
        /\ \A j \in 1 .. Len(s) : s[j] = t[IF j < Len(s) + 1 THEN j ELSE j + 1]
    BY <1>1, <1>2
  <2> QED
    BY <2>1, NShift
<1> QED
  BY <1>1, <1>2, <1>3

LEMMA NRemove ==
  ASSUME NEW S, NEW s \in Seq(S), NEW i \in 1 .. Len(s), NEW V
  PROVE  /\ RemoveAt(s, i) \in Seq(S) /\ Len(RemoveAt(s, i)) = Len(s) - 1
         /\ \A j \in 1 .. Len(s) - 1 : RemoveAt(s, i)[j] = s[IF j < i THEN j ELSE j + 1]
         /\ N(RemoveAt(s, i), V) = N(s, V) - In(s[i], V)
<1>0. \A j \in 1 .. Len(s) : s[j] \in S
  BY ElementOfSeq
<1>1. Len(s) \in Nat /\ i \in 1 .. Len(s)
  BY LenProperties
<1>2. PICK a : a = SubSeq(s, 1, i - 1)
  OBVIOUS
<1>3. PICK b : b = SubSeq(s, i + 1, Len(s))
  OBVIOUS
<1>4. /\ a \in Seq(S) /\ Len(a) = i - 1 /\ \A j \in 1 .. i - 1 : a[j] = s[j]
  <2>1. \A j \in 1 .. i - 1 : s[j] \in S
    BY <1>0, <1>1
  <2>2. PICK n \in Int : n = i - 1
    BY <1>1
  <2>3. /\ a \in Seq(S) /\ Len(a) = IF 1 <= n THEN n - 1 + 1 ELSE 0
        /\ \A j \in 1 .. n - 1 + 1 : a[j] = s[1 + j - 1]
    BY <1>2, <2>1, <2>2, SubSeqProperties
  <2>4. Len(a) = i - 1
    BY <1>1, <2>2, <2>3
  <2>5. ASSUME NEW j \in 1 .. i - 1 PROVE a[j] = s[j]
    <3>1. j \in 1 .. n - 1 + 1 /\ 1 + j - 1 = j
      BY <1>1, <2>2
    <3> QED
      BY <2>3, <3>1
  <2> QED
    BY <2>3, <2>4, <2>5
<1>5. /\ b \in Seq(S) /\ Len(b) = Len(s) - i /\ \A j \in 1 .. Len(s) - i : b[j] = s[i + j]
  <2>1. \A j \in i + 1 .. Len(s) : s[j] \in S
    BY <1>0, <1>1
  <2>2. PICK n \in Int : n = i + 1
    BY <1>1
  <2>3. /\ b \in Seq(S) /\ Len(b) = IF n <= Len(s) THEN Len(s) - n + 1 ELSE 0
        /\ \A j \in 1 .. Len(s) - n + 1 : b[j] = s[n + j - 1]
    BY <1>1, <1>3, <2>1, <2>2, SubSeqProperties
  <2>4. Len(b) = Len(s) - i
    <3>1. Len(b) = IF n <= Len(s) THEN Len(s) - n + 1 ELSE 0
      BY <2>3
    <3> QED
      BY <1>1, <2>2, <3>1
  <2>5. ASSUME NEW j \in 1 .. Len(s) - i PROVE b[j] = s[i + j]
    <3>1. j \in 1 .. Len(s) - n + 1 /\ n + j - 1 = i + j
      BY <1>1, <2>2
    <3> QED
      BY <2>3, <3>1
  <2> QED
    BY <2>3, <2>4, <2>5
<1>6. PICK t : t = a \o b
  OBVIOUS
<1>7. t = RemoveAt(s, i)
  BY <1>2, <1>3, <1>6 DEF RemoveAt
<1>8. t \in Seq(S) /\ Len(t) = Len(s) - 1
      /\ \A j \in 1 .. Len(s) - 1 : t[j] = s[IF j < i THEN j ELSE j + 1]
  <2>1. /\ t \in Seq(S) /\ Len(t) = Len(a) + Len(b)
        /\ \A j \in 1 .. Len(a) + Len(b) : t[j] = IF j <= Len(a) THEN a[j] ELSE b[j - Len(a)]
    BY <1>4, <1>5, <1>6, ConcatProperties
  <2>2. t \in Seq(S) /\ Len(t) = Len(s) - 1
    BY <1>1, <1>4, <1>5, <2>1
  <2>3. ASSUME NEW j \in 1 .. Len(s) - 1 PROVE t[j] = s[IF j < i THEN j ELSE j + 1]
    <3>1. j \in 1 .. Len(a) + Len(b)
      BY <1>1, <1>4, <1>5
    <3>2. CASE j < i
      <4>1. j <= Len(a) /\ j \in 1 .. i - 1
        BY <1>1, <1>4, <3>2
      <4>2. t[j] = a[j]
        BY <2>1, <3>1, <4>1
      <4>3. a[j] = s[j]
        BY <1>4, <4>1
      <4> QED
        BY <3>2, <4>2, <4>3
    <3>3. CASE ~(j < i)
      <4>1. j - Len(a) \in 1 .. Len(s) - i /\ i + (j - Len(a)) = j + 1 /\ ~(j <= Len(a))
        BY <1>1, <1>4, <3>3
      <4>2. t[j] = b[j - Len(a)]
        BY <2>1, <3>1, <4>1
      <4>3. b[j - Len(a)] = s[i + (j - Len(a))]
        BY <1>5, <4>1
      <4> QED
        BY <3>3, <4>1, <4>2, <4>3
    <3> QED
      BY <3>2, <3>3
  <2> QED
    BY <2>2, <2>3
<1>9. N(s, V) = N(t, V) + In(s[i], V)
  <2>1. Len(s) = Len(t) + 1
    BY <1>1, <1>8
  <2>2. \A j \in 1 .. Len(t) : t[j] = s[IF j < i THEN j ELSE j + 1]
    BY <1>8
  <2>3. t \in Seq(S)
    BY <1>8
  <2> QED
    BY <2>1, <2>2, <2>3, NShift
<1>10. N(s, V) \in Nat /\ N(t, V) \in Nat
  BY <1>8, HitsFinite
<1> QED
  BY <1>7, <1>8, <1>9, <1>10 DEF Bit, In

LEMMA NReplace ==
  ASSUME NEW S, NEW s \in Seq(S), NEW i \in 1 .. Len(s), NEW e \in S, NEW V
  PROVE  /\ [s EXCEPT ![i] = e] \in Seq(S) /\ Len([s EXCEPT ![i] = e]) = Len(s)
         /\ \A j \in 1 .. Len(s) : [s EXCEPT ![i] = e][j] = IF j = i THEN e ELSE s[j]
         /\ N([s EXCEPT ![i] = e], V) = N(s, V) - In(s[i], V) + In(e, V)
<1>1. PICK t : t = [s EXCEPT ![i] = e]
  OBVIOUS
<1>2. /\ t \in Seq(S) /\ Len(t) = Len(s)
      /\ \A j \in 1 .. Len(s) : t[j] = IF j = i THEN e ELSE s[j]
  BY <1>1, ExceptSeq
<1>3. PICK r : r = RemoveAt(s, i)
  OBVIOUS
<1>4. /\ r \in Seq(S) /\ Len(r) = Len(s) - 1 /\ Len(s) \in Nat
      /\ \A j \in 1 .. Len(s) - 1 : r[j] = s[IF j < i THEN j ELSE j + 1]
  BY <1>3, NRemove, LenProperties
<1>5. N(s, V) = N(r, V) + In(s[i], V)
  BY <1>4, NShift
<1>6. N(t, V) = N(r, V) + In(e, V)
  <2>1. Len(t) = Len(r) + 1 /\ i \in 1 .. Len(t) /\ t[i] = e
    BY <1>2, <1>4
  <2>2. ASSUME NEW j \in 1 .. Len(r) PROVE r[j] = t[IF j < i THEN j ELSE j + 1]
    <3>1. j \in 1 .. Len(s) - 1 /\ (IF j < i THEN j ELSE j + 1) \in 1 .. Len(s)
          /\ (IF j < i THEN j ELSE j + 1) # i
      BY <1>4
    <3> QED
      BY <1>2, <1>4, <3>1
  <2> QED
    BY <1>2, <1>4, <2>1, <2>2, NShift
<1>7. N(s, V) \in Nat /\ N(t, V) \in Nat /\ N(r, V) \in Nat
  BY <1>2, <1>4, HitsFinite
<1>8. N(t, V) = N(s, V) - In(s[i], V) + In(e, V)
  BY <1>5, <1>6, <1>7 DEF Bit, In
<1> QED
  BY <1>1, <1>2, <1>8

LEMMA NInsert ==
  ASSUME NEW S, NEW s \in Seq(S), NEW i \in 1 .. Len(s), NEW e \in S, NEW V
  PROVE  /\ InsertAt(s, i, e) \in Seq(S) /\ Len(InsertAt(s, i, e)) = Len(s) + 1
         /\ \A j \in 1 .. Len(s) + 1 :
              InsertAt(s, i, e)[j] = IF j < i THEN s[j] ELSE IF j = i THEN e ELSE s[j - 1]
         /\ N(InsertAt(s, i, e), V) = N(s, V) + In(e, V)
<1>0. \A j \in 1 .. Len(s) : s[j] \in S
  BY ElementOfSeq
<1>1. Len(s) \in Nat /\ i \in 1 .. Len(s)
  BY LenProperties
<1>2. PICK a : a = SubSeq(s, 1, i - 1)
  OBVIOUS
<1>3. PICK b : b = SubSeq(s, i, Len(s))
  OBVIOUS
<1>4. /\ a \in Seq(S) /\ Len(a) = i - 1 /\ \A j \in 1 .. i - 1 : a[j] = s[j]
  <2>1. \A j \in 1 .. i - 1 : s[j] \in S
    BY <1>0, <1>1
  <2>2. PICK n \in Int : n = i - 1
    BY <1>1
  <2>3. /\ a \in Seq(S) /\ Len(a) = IF 1 <= n THEN n - 1 + 1 ELSE 0
        /\ \A j \in 1 .. n - 1 + 1 : a[j] = s[1 + j - 1]
    BY <1>2, <2>1, <2>2, SubSeqProperties
  <2>4. Len(a) = i - 1
    BY <1>1, <2>2, <2>3
  <2>5. ASSUME NEW j \in 1 .. i - 1 PROVE a[j] = s[j]
    <3>1. j \in 1 .. n - 1 + 1 /\ 1 + j - 1 = j
      BY <1>1, <2>2
    <3> QED
      BY <2>3, <3>1
  <2> QED
    BY <2>3, <2>4, <2>5
<1>5. /\ b \in Seq(S) /\ Len(b) = Len(s) - i + 1
      /\ \A j \in 1 .. Len(s) - i + 1 : b[j] = s[i + j - 1]
  <2>1. \A j \in i .. Len(s) : s[j] \in S
    BY <1>0, <1>1
  <2>2. /\ b \in Seq(S) /\ Len(b) = IF i <= Len(s) THEN Len(s) - i + 1 ELSE 0
        /\ \A j \in 1 .. Len(s) - i + 1 : b[j] = s[i + j - 1]
    BY <1>1, <1>3, <2>1, SubSeqProperties
  <2>3. Len(b) = Len(s) - i + 1
    <3>1. Len(b) = IF i <= Len(s) THEN Len(s) - i + 1 ELSE 0
      BY <2>2
    <3> QED
      BY <1>1, <3>1
  <2> QED
    BY <2>2, <2>3
<1>6. PICK c : c = a \o <<e>>
  OBVIOUS
<1>7. /\ c \in Seq(S) /\ Len(c) = i /\ c[i] = e /\ \A j \in 1 .. i - 1 : c[j] = s[j]
  <2>1. <<e>> \in Seq(S) /\ Len(<<e>>) = 1 /\ <<e>>[1] = e
    OBVIOUS
  <2>2. /\ c \in Seq(S) /\ Len(c) = Len(a) + 1
        /\ \A j \in 1 .. Len(a) + 1 : c[j] = IF j <= Len(a) THEN a[j] ELSE <<e>>[j - Len(a)]
    BY <1>4, <1>6, <2>1, ConcatProperties
  <2>3. Len(a) = i - 1
    BY <1>4
  <2>4. Len(c) = i
    BY <1>1, <2>2, <2>3
  <2>5. c[i] = e
    <3>1. i \in 1 .. Len(a) + 1 /\ ~(i <= Len(a)) /\ i - Len(a) = 1
      BY <1>1, <2>3
    <3> QED
      BY <2>1, <2>2, <3>1
  <2>6. ASSUME NEW j \in 1 .. i - 1 PROVE c[j] = s[j]
    <3>1. j \in 1 .. Len(a) + 1 /\ j <= Len(a)
      BY <1>1, <2>3
    <3> QED
      BY <1>4, <2>2, <3>1
  <2> QED
    BY <2>2, <2>4, <2>5, <2>6
<1>8. PICK t : t = c \o b
  OBVIOUS
<1>9. t = InsertAt(s, i, e)
  BY <1>2, <1>3, <1>6, <1>8 DEF InsertAt
<1>10. /\ t \in Seq(S) /\ Len(t) = Len(c) + Len(b)
       /\ \A j \in 1 .. Len(c) + Len(b) : t[j] = IF j <= Len(c) THEN c[j] ELSE b[j - Len(c)]
  BY <1>5, <1>7, <1>8, ConcatProperties
<1>11. Len(c) = i /\ Len(b) = Len(s) - i + 1 /\ Len(t) = Len(s) + 1
  <2>1. Len(c) = i /\ Len(b) = Len(s) - i + 1 /\ Len(t) = Len(c) + Len(b)
    BY <1>5, <1>7, <1>10
  <2> QED
    BY <1>1, <2>1
<1>12. ASSUME NEW j \in 1 .. Len(s) + 1
       PROVE  t[j] = IF j < i THEN s[j] ELSE IF j = i THEN e ELSE s[j - 1]
  <2>1. j \in 1 .. Len(c) + Len(b)
    BY <1>1, <1>11
  <2>2. CASE j <= i
    <3>1. t[j] = c[j] /\ (j < i => j \in 1 .. i - 1)
      BY <1>1, <1>10, <1>11, <2>1, <2>2
    <3> QED
      BY <1>1, <1>7, <2>2, <3>1
  <2>3. CASE ~(j <= i)
    <3>1. j - Len(c) \in 1 .. Len(s) - i + 1 /\ i + (j - Len(c)) - 1 = j - 1 /\ ~(j <= Len(c))
      BY <1>1, <1>11, <2>3
    <3>2. t[j] = b[j - Len(c)]
      BY <1>10, <2>1, <3>1
    <3>3. b[j - Len(c)] = s[i + (j - Len(c)) - 1]
      BY <1>5, <3>1
    <3>4. ~(j < i) /\ j # i
      BY <1>1, <2>3
    <3> QED
      BY <3>1, <3>2, <3>3, <3>4
  <2> QED
    BY <2>2, <2>3
<1>13. N(t, V) = N(s, V) + In(e, V)
  <2>1. i \in 1 .. Len(t) /\ t[i] = e /\ Len(t) = Len(s) + 1 /\ t \in Seq(S)
    BY <1>1, <1>10, <1>11, <1>12
  <2>2. ASSUME NEW j \in 1 .. Len(s) PROVE s[j] = t[IF j < i THEN j ELSE j + 1]
    <3>1. CASE j < i
      BY <1>1, <1>12, <3>1
    <3>2. CASE ~(j < i)
      <4>1. j + 1 \in 1 .. Len(s) + 1 /\ ~(j + 1 < i) /\ j + 1 # i /\ (j + 1) - 1 = j
        BY <1>1, <3>2
      <4> QED
        BY <1>12, <3>2, <4>1
    <3> QED
      BY <3>1, <3>2
  <2> QED
    BY <2>1, <2>2, NShift, SMTT(30)
<1> QED
  BY <1>9, <1>10, <1>11, <1>12, <1>13

-----------------------------------------------------------------------------
(* The order in a queue: behind one of V there is none of W. *)

NoneAfter(s, V, W) ==
  \A i, j \in 1 .. Len(s) : i < j /\ s[i] \in V => s[j] \notin W

LEMMA AfterHead ==
  ASSUME NEW S, NEW s \in Seq(S), s # <<>>, NEW V, NEW W, NoneAfter(s, V, W)
  PROVE  /\ NoneAfter(Tail(s), V, W)
         /\ Head(s) \in V => N(Tail(s), W) = 0
<1>1. /\ Tail(s) \in Seq(S) /\ Len(Tail(s)) = Len(s) - 1 /\ Len(s) \in Nat \ {0}
      /\ \A i \in 1 .. Len(Tail(s)) : Tail(s)[i] = s[i + 1]
  BY HeadTailProperties, EmptySeq
<1>2. PICK t : t = Tail(s)
  BY Zenon
<1>3. PICK n \in Nat : n = Len(t) /\ Len(s) = n + 1
  <2>1. Len(t) = Len(s) - 1 /\ Len(s) \in Nat \ {0}
    BY <1>1, <1>2, Zenon
  <2> QED
    BY <2>1
<1>4. ASSUME NEW i \in 1 .. n PROVE t[i] = s[i + 1] /\ i + 1 \in 1 .. Len(s)
  <2>1. t[i] = s[i + 1]
    BY <1>1, <1>2, <1>3, Zenon
  <2> QED
    BY <1>3, <2>1
<1>5. NoneAfter(t, V, W)
  <2> SUFFICES ASSUME NEW i \in 1 .. n, NEW j \in 1 .. n, i < j, t[i] \in V PROVE t[j] \notin W
    BY <1>3 DEF NoneAfter
  <2>1. i + 1 < j + 1
    OBVIOUS
  <2> QED
    BY <1>4, <2>1 DEF NoneAfter
<1>6. ASSUME Head(s) \in V PROVE N(t, W) = 0
  <2>1. s[1] \in V
    BY <1>6 DEF Head
  <2>2. ASSUME NEW j \in 1 .. n PROVE t[j] \notin W
    <3>1. 1 < j + 1 /\ 1 \in 1 .. Len(s)
      BY <1>3
    <3> QED
      BY <1>4, <2>1, <3>1 DEF NoneAfter
  <2> QED
    BY <1>1, <1>2, <1>3, <2>2, HitsFinite
<1> QED
  BY <1>2, <1>5, <1>6

LEMMA AfterAppend ==
  ASSUME NEW S, NEW s \in Seq(S), NEW e \in S, NEW V, NEW W, NoneAfter(s, V, W),
         N(s, V) = 0 \/ e \notin W
  PROVE  NoneAfter(Append(s, e), V, W)
<1>1. PICK t : t = Append(s, e)
  OBVIOUS
<1>2. PICK n \in Nat : n = Len(s)
  BY LenProperties
<1>3. /\ Len(t) = n + 1 /\ t[n + 1] = e
      /\ \A i \in 1 .. n : t[i] = s[i]
  BY <1>1, <1>2, NAppend
<1>4. N(s, V) = 0 => \A i \in 1 .. n : s[i] \notin V
  BY <1>2, HitsFinite
<1>5. ASSUME NEW i \in 1 .. n + 1, NEW j \in 1 .. n + 1, i < j, t[i] \in V PROVE t[j] \notin W
  <2>1. i \in 1 .. n /\ (j \in 1 .. n \/ j = n + 1)
    BY <1>5
  <2>2. t[i] = s[i]
    BY <1>3, <2>1
  <2>3. CASE j \in 1 .. n
    BY <1>2, <1>3, <1>5, <2>1, <2>2, <2>3 DEF NoneAfter
  <2>4. CASE j = n + 1
    BY <1>3, <1>4, <1>5, <2>1, <2>2, <2>4
  <2> QED
    BY <2>1, <2>3, <2>4
<1> QED
  BY <1>1, <1>3, <1>5 DEF NoneAfter

LEMMA AfterRemove ==
  ASSUME NEW S, NEW s \in Seq(S), NEW i \in 1 .. Len(s), NEW V, NEW W, NoneAfter(s, V, W)
  PROVE  NoneAfter(RemoveAt(s, i), V, W)
<1>1. PICK t : t = RemoveAt(s, i)
  OBVIOUS
<1>2. PICK n \in Nat : n = Len(s)
  BY LenProperties
<1>3. Len(t) = n - 1 /\ \A j \in 1 .. n - 1 : t[j] = s[IF j < i THEN j ELSE j + 1]
  BY <1>1, <1>2, NRemove
<1>4. ASSUME NEW j \in 1 .. n - 1, NEW k \in 1 .. n - 1, j < k, t[j] \in V PROVE t[k] \notin W
  <2>1. PICK a \in 1 .. n : a = IF j < i THEN j ELSE j + 1
    BY <1>2
  <2>2. PICK b \in 1 .. n : b = IF k < i THEN k ELSE k + 1
    BY <1>2
  <2>3. a < b
    BY <1>2, <1>4, <2>1, <2>2
  <2>4. t[j] = s[a] /\ t[k] = s[b]
    BY <1>3, <2>1, <2>2
  <2> QED
    BY <1>2, <1>4, <2>3, <2>4 DEF NoneAfter
<1> QED
  BY <1>1, <1>3, <1>4 DEF NoneAfter

LEMMA AfterReplace ==
  ASSUME NEW S, NEW s \in Seq(S), NEW i \in 1 .. Len(s), NEW e \in S, NEW V, NEW W,
         NoneAfter(s, V, W), e \in V => s[i] \in V, e \in W => s[i] \in W
  PROVE  NoneAfter([s EXCEPT ![i] = e], V, W)
<1>1. PICK t : t = [s EXCEPT ![i] = e]
  OBVIOUS
<1>2. PICK n \in Nat : n = Len(s)
  BY LenProperties
<1>3. Len(t) = n /\ \A j \in 1 .. n : t[j] = IF j = i THEN e ELSE s[j]
  BY <1>1, <1>2, NReplace
<1>4. ASSUME NEW j \in 1 .. n, NEW k \in 1 .. n, j < k, t[j] \in V PROVE t[k] \notin W
  <2>1. s[j] \in V
    BY <1>3, <1>4
  <2>2. s[k] \notin W
    BY <1>2, <1>4, <2>1 DEF NoneAfter
  <2> QED
    BY <1>3, <2>2
<1> QED
  BY <1>1, <1>3, <1>4 DEF NoneAfter

LEMMA AfterInsert ==
  ASSUME NEW S, NEW s \in Seq(S), NEW i \in 1 .. Len(s), NEW e \in S, NEW V, NEW W,
         NoneAfter(s, V, W), e \notin V, e \notin W
  PROVE  NoneAfter(InsertAt(s, i, e), V, W)
<1>1. PICK t : t = InsertAt(s, i, e)
  OBVIOUS
<1>2. PICK n \in Nat : n = Len(s)
  BY LenProperties
<1>3. /\ Len(t) = n + 1
      /\ \A j \in 1 .. n + 1 : t[j] = IF j < i THEN s[j] ELSE IF j = i THEN e ELSE s[j - 1]
  <2>1. /\ Len(InsertAt(s, i, e)) = Len(s) + 1
        /\ \A j \in 1 .. Len(s) + 1 :
             InsertAt(s, i, e)[j] = IF j < i THEN s[j] ELSE IF j = i THEN e ELSE s[j - 1]
    BY NInsert
  <2> QED
    BY <1>1, <1>2, <2>1, Zenon
<1>4. ASSUME NEW j \in 1 .. n + 1, NEW k \in 1 .. n + 1, j < k, t[j] \in V, t[k] \in W
      PROVE  FALSE
  <2>1. j # i /\ k # i
    BY <1>2, <1>3, <1>4
  <2>2. PICK a \in 1 .. n : a = IF j < i THEN j ELSE j - 1
    BY <1>2, <2>1
  <2>3. PICK b \in 1 .. n : b = IF k < i THEN k ELSE k - 1
    BY <1>2, <2>1
  <2>4. a < b
    BY <1>2, <1>4, <2>1, <2>2, <2>3
  <2>5. t[j] = s[a]
    BY <1>3, <2>1, <2>2
  <2>6. t[k] = s[b]
    BY <1>3, <2>1, <2>3
  <2> QED
    BY <1>2, <1>4, <2>4, <2>5, <2>6 DEF NoneAfter
<1> QED
  BY <1>1, <1>3, <1>4 DEF NoneAfter

\* One in front.
LEMMA Pushed ==
  ASSUME NEW S, NEW s \in Seq(S), NEW e \in S, NEW V
  PROVE  /\ <<e>> \o s \in Seq(S)
         /\ N(<<e>> \o s, V) = N(s, V) + In(e, V)
         /\ \A W : NoneAfter(s, V, W) /\ e \notin V => NoneAfter(<<e>> \o s, V, W)
<1>1. PICK t : t = <<e>> \o s
  OBVIOUS
<1>2. PICK n \in Nat : n = Len(s)
  BY LenProperties
<1>3. /\ t \in Seq(S) /\ Len(t) = 1 + n
      /\ \A j \in 1 .. 1 + n : t[j] = IF j <= 1 THEN <<e>>[j] ELSE s[j - 1]
  <2>1. <<e>> \in Seq(S) /\ Len(<<e>>) = 1
    OBVIOUS
  <2> QED
    BY <1>1, <1>2, <2>1, ConcatProperties
<1>4. t[1] = e
  BY <1>2, <1>3
<1>5. ASSUME NEW j \in 1 .. n PROVE t[j + 1] = s[j] /\ j + 1 \in 1 .. n + 1
  <2>1. j + 1 \in 1 .. 1 + n /\ ~(j + 1 <= 1) /\ (j + 1) - 1 = j
    OBVIOUS
  <2> QED
    BY <1>3, <2>1
<1>6. N(t, V) = N(s, V) + In(e, V)
  <2>1. \A j \in 1 .. Len(s) : s[j] = t[IF j < 1 THEN j ELSE j + 1]
    BY <1>2, <1>5
  <2>2. 1 \in 1 .. Len(t) /\ Len(t) = Len(s) + 1
    BY <1>2, <1>3
  <2>3. t \in Seq(S)
    BY <1>3
  <2>4. N(t, V) = N(s, V) + In(t[1], V)
    BY <2>1, <2>2, <2>3, NShift
  <2> QED
    BY <1>4, <2>4
<1>7. ASSUME NEW W, NoneAfter(s, V, W), e \notin V PROVE NoneAfter(t, V, W)
  <2>1. ASSUME NEW j \in 1 .. 1 + n, NEW k \in 1 .. 1 + n, j < k, t[j] \in V PROVE t[k] \notin W
    <3>1. j # 1
      BY <1>4, <1>7, <2>1
    <3>2. PICK a \in 1 .. n : a = j - 1
      BY <3>1
    <3>3. PICK b \in 1 .. n : b = k - 1
      BY <2>1
    <3>4. a < b /\ j = a + 1 /\ k = b + 1
      BY <2>1, <3>2, <3>3
    <3>5. t[j] = s[a] /\ t[k] = s[b]
      BY <1>5, <3>4
    <3> QED
      BY <1>2, <1>7, <2>1, <3>4, <3>5 DEF NoneAfter
  <2> QED
    BY <1>3, <2>1 DEF NoneAfter
<1> QED
  BY <1>1, <1>3, <1>6, <1>7

-----------------------------------------------------------------------------
(* What is on the line. *)

Signals == {"ACK", "C", "NAK"}
Steps   == 0 .. FinStep + 1
Items   == [op : {"blk"}, k : (0 .. Blocks) \cup {FinStep}, ok : BOOLEAN, crc : BOOLEAN]
             \cup {EOT, CAN, Stray}

\* A token is an item that an answer of the board is due for, and its value the
\* step of the sender that it belongs to.
Tokens    == {m \in Items : m.op \in {"blk", "EOT"}}
val(m)    == IF m.op = "EOT" THEN EOTStep ELSE m.k
UpTo(v)   == {m \in Tokens : val(m) <= v}
Above(v)  == {m \in Tokens : val(m) > v}
Copies(v) == {m \in Tokens : val(m) = v}
Spoilt    == {m \in Tokens : m.op = "blk" /\ ~m.ok}
WithCrc   == {m \in Tokens : m.op = "blk" /\ m.crc}
WithSum   == {m \in Tokens : m.op = "blk" /\ ~m.crc}

\* What the board has said: how many of each, and that it changes from 'C' to NAK
\* but not back.
Ackd(s)  == N(s, {"ACK"})
Cs(s)    == N(s, {"C"})
Naks(s)  == N(s, {"NAK"})
Asked(s) == N(s, {"C", "NAK"})
NakLast(s) == NoneAfter(s, {"NAK"}, {"C"})

-----------------------------------------------------------------------------
(* The invariant. *)

\* The blocks that the board has taken, and whether more are expected.
B    == read_length \div BLOCK
Live == pc \in {"open", "read", "store"} /\ ~at_eof /\ len = 0

\* Each side says something only when the other has: what is under way.
Acks == Ackd(toSender) + Bit(tx_ack)
Asks == Asked(toSender)
T    == N(toBoard, Tokens) + Len(toSender) + Bit(tx_ack)

\* The line keeps the order in which the sender goes on.
LineInv ==
  /\ toBoard \in Seq(Items) /\ toSender \in Seq(Signals)
  /\ \A v \in Steps : NoneAfter(toBoard, Above(v), UpTo(v))
  /\ N(toBoard, Above(at)) = 0
  /\ N(toBoard, Spoilt) <= noise
  /\ hold /\ at <= 1 => N(toBoard, Copies(at)) = 0
  /\ hold => at \in {0, 1, FinStep, FinStep + 1}
  /\ cancelled => at = FinStep + 1
  /\ ~started => at = 0 /\ hold /\ toSender = <<>> /\ toBoard = <<>> /\ pc \in {"open", "done"}
  /\ in_hdr => ~tx_ack
  /\ pc \in {"open", "read", "final"} => ~at_eof /\ len = 0

\* Both sides agree on the check of a block once the transfer is open.
CrcInv ==
  Live =>
    /\ crc_mode => scrc /\ Naks(toSender) = 0 /\ N(toBoard, WithSum) = 0
    /\ ~scrc => Cs(toSender) = 0
    /\ NakLast(toSender)
    /\ NoneAfter(toBoard, WithSum, WithCrc)
    /\ N(toBoard, WithSum) >= 1 => ~scrc
    /\ pc # "open" /\ ~crc_mode => ~scrc /\ N(toBoard, WithCrc) = 0

\* A sender that is late makes one thing more under way, and lets one side be
\* one block further ahead of the other; nothing else does.
CountInv ==
  Live =>
    /\ T <= 1 + cross
    /\ B \in 0 .. Blocks /\ at >= B
    /\ N(toBoard, UpTo(B - 1)) = 0 /\ N(toBoard, Above(B + 1 + cross)) = 0
    /\ ~cancelled => at + Acks <= B + 1 + cross
    /\ ~cancelled => \A v \in Steps : N(toBoard, UpTo(v)) >= 1 =>
                       N(toBoard, UpTo(v)) + at + Acks <= v + 1 + cross
    /\ pc = "open" => (cancelled \/ at = 0) /\ Acks = 0 /\ B = 0 /\ N(toBoard, Above(0)) = 0
    /\ pc # "open" => started /\ ~(hold /\ at <= B)

\* While the block before may come again, every retry is owed to a fault, two
\* retries at most to each.
Danger == at = B \/ N(toBoard, Copies(B)) >= 1
Paid(r, c, s, k, a, b, t, n, x) ==
  (MAX_RETRIES - r) + c + s + (IF a = b THEN k ELSE 0) + (IF a = b /\ t = 0 THEN 2 ELSE 0)
    <= 2 * (n + x)
RetryInv ==
  Live /\ pc # "open" /\ Danger =>
    Paid(retries, N(toBoard, Copies(B)), N(toBoard, Spoilt), Asks, at, B, T, noise, cross)

\* s holds the elements of W up to r, each once and in order.
FirstOf(s, W, r) ==
  /\ s \in Seq(Nat)
  /\ \A i, j \in 1 .. Len(s) : i < j => s[i] < s[j]
  /\ \A i \in 1 .. Len(s) : s[i] \in W /\ s[i] <= r
  /\ \A p \in W : p <= r => \E i \in 1 .. Len(s) : s[i] = p

\* Of the blocks taken, all that is wanted is loaded, and nothing else.
DataInv ==
  Live =>
    /\ next_blk = IF pc = "open" THEN 0 ELSE (B + 1) % SeqSize
    /\ read_length = B * BLOCK
    /\ pc # "open" => file_length = IF announces THEN FileLen ELSE 0
    /\ pc = "open" => file_length = 0 /\ buf = <<>> /\ mem = <<>>
    /\ FirstOf(Loaded, Wanted, read_length)
    /\ pc = "read" => Len(buf) < BUFFER
    /\ pc # "store" => retries > 0

TypeInv == TypeOK /\ crc_retries \in Int /\ buf \in Seq(Nat)

Inv == TypeInv /\ InSequence /\ LineInv /\ CrcInv /\ CountInv /\ RetryInv /\ DataInv

\* What the constants must satisfy: the retries outlast the faults; the number of
\* a block tells it from those that can be on the line with it; and the empty
\* header, a block 0, is not the one that is due, nor the one before, when the
\* sender can be ahead that far.
FewFaults == MAX_RETRIES > 2 * (MaxNoise + MaxCross)
NumbersTell == MaxCross < SeqSize - 1
FinApart == \A b \in (Blocks + 1 - MaxCross) .. (Blocks + 1) : b % SeqSize # 0

-----------------------------------------------------------------------------
(* Constants and items. *)

LEMMA Constants ==
  /\ MAX_RETRIES \in Nat \ {0} /\ BLOCK \in Nat \ {0} /\ FileLen \in Nat \ {0}
  /\ PadMin \in Nat \ {0} /\ SeqSize \in Nat /\ SeqSize > 1
  /\ BUFFER \in Nat /\ BUFFER > 0 /\ BLOCK <= BUFFER /\ PadMin <= BLOCK
  /\ MaxNoise \in Nat /\ MaxCross \in Nat
  /\ MAX_RETRIES_WITH_CRC \in Int
BY LoadyAssumption

\* The least multiple of b that is not below n.
LEMMA RoundUp ==
  ASSUME NEW n \in Nat \ {0}, NEW b \in Nat \ {0}
  PROVE  /\ (n + b - 1) \div b \in Nat \ {0}
         /\ ((n + b - 1) \div b) * b >= n
         /\ ((n + b - 1) \div b) * b < n + b
<1>1. PICK q \in Int : q = (n + b - 1) \div b
  OBVIOUS
<1>2. n + b - 1 = q * b + ((n + b - 1) % b) /\ (n + b - 1) % b \in 0 .. b - 1
  BY <1>1
<1>3. q * b <= n + b - 1 /\ q * b >= n
  BY <1>2
<1>4. q > 0
  <2>1. CASE q <= 0
    <3>1. q * b <= 0
      BY <2>1
    <3> QED
      BY <1>3, <3>1
  <2> QED
    BY <2>1
<1> QED
  BY <1>1, <1>3, <1>4

LEMMA BlocksFacts ==
  Blocks \in Nat \ {0} /\ EOTStep = Blocks + 1 /\ FinStep = Blocks + 2
BY Constants, RoundUp DEF Blocks, EOTStep, FinStep

LEMMA BlocksCover ==
  Blocks * BLOCK >= FileLen /\ Blocks * BLOCK < FileLen + BLOCK
BY Constants, RoundUp DEF Blocks

LEMMA ItemCases ==
  ASSUME NEW m \in Items
  PROVE  \/ m = EOT /\ m.op = "EOT"
         \/ m = CAN /\ m.op = "CAN"
         \/ m = Stray /\ m.op = "stray"
         \/ /\ m.op = "blk" /\ m.k \in (0 .. Blocks) \cup {FinStep}
            /\ m.ok \in BOOLEAN /\ m.crc \in BOOLEAN
<1>1. CASE m \in [op : {"blk"}, k : (0 .. Blocks) \cup {FinStep}, ok : BOOLEAN, crc : BOOLEAN]
  BY <1>1
<1>2. CASE m \in {EOT, CAN, Stray}
  BY <1>2 DEF EOT, CAN, Stray
<1> QED
  BY <1>1, <1>2 DEF Items

LEMMA ItemTypes ==
  /\ EOT \in Items /\ CAN \in Items /\ Stray \in Items
  /\ EOT.op = "EOT" /\ CAN.op = "CAN" /\ Stray.op = "stray"
  /\ EOT \in Tokens /\ CAN \notin Tokens /\ Stray \notin Tokens
  /\ val(EOT) = EOTStep
BY DEF EOT, CAN, Stray, Items, Tokens, val

LEMMA BlockTypes ==
  ASSUME NEW k \in (0 .. Blocks) \cup {FinStep}, NEW crc \in BOOLEAN
  PROVE  /\ Block(k, crc) \in Items /\ Block(k, crc) \in Tokens
         /\ Block(k, crc).op = "blk" /\ Block(k, crc).k = k
         /\ Block(k, crc).ok = TRUE /\ Block(k, crc).crc = crc
         /\ val(Block(k, crc)) = k
BY DEF Block, Items, Tokens, val

LEMMA ItemIs ==
  ASSUME NEW k \in 0 .. FinStep, NEW crc \in BOOLEAN
  PROVE  /\ Item(k, crc) \in Tokens /\ Item(k, crc) \in Items /\ val(Item(k, crc)) = k
         /\ Item(k, crc) \notin Spoilt /\ (crc => Item(k, crc) \notin WithSum)
         /\ ~crc => Item(k, crc) \notin WithCrc
<1>1. CASE k = EOTStep
  <2>1. Item(k, crc) = EOT
    BY <1>1 DEF Item
  <2> QED
    BY <1>1, <2>1, ItemTypes DEF Spoilt, WithCrc, WithSum
<1>2. CASE k # EOTStep
  <2>1. Item(k, crc) = Block(k, crc) /\ k \in (0 .. Blocks) \cup {FinStep}
    BY <1>2, BlocksFacts DEF Item
  <2>2. PICK m : m = Block(k, crc)
    BY Zenon
  <2>3. m \in Items /\ m \in Tokens /\ val(m) = k /\ m.ok = TRUE /\ m.crc = crc
    BY <2>1, <2>2, BlockTypes
  <2>4. m \notin Spoilt /\ (crc => m \notin WithSum) /\ (~crc => m \notin WithCrc)
    BY <2>3 DEF Spoilt, WithCrc, WithSum
  <2> QED
    BY <2>1, <2>2, <2>3, <2>4, Zenon
<1> QED
  BY <1>1, <1>2

\* The sets of tokens, for a token and for anything else.
LEMMA Sets ==
  ASSUME NEW m \in Items, NEW v
  PROVE  /\ m \in Tokens => /\ val(m) \in 0 .. FinStep
                            /\ m \in UpTo(v) <=> val(m) <= v
                            /\ m \in Above(v) <=> val(m) > v
                            /\ m \in Copies(v) <=> val(m) = v
         /\ m \notin Tokens => /\ m \notin UpTo(v) /\ m \notin Above(v) /\ m \notin Copies(v)
                               /\ m \notin Spoilt /\ m \notin WithCrc /\ m \notin WithSum
         /\ m \in Tokens <=> m.op \in {"blk", "EOT"}
         /\ m.op = "blk" => /\ m \in Spoilt <=> ~m.ok
                            /\ m \in WithCrc <=> m.crc
                            /\ m \in WithSum <=> ~m.crc
                            /\ val(m) = m.k
<1>1. m \in Tokens <=> m.op \in {"blk", "EOT"}
  BY DEF Tokens
<1>2. m \in Tokens => val(m) \in 0 .. FinStep
  BY <1>1, ItemCases, BlocksFacts DEF val
<1>3. m.op = "blk" => m \in Tokens /\ m.crc \in BOOLEAN /\ m.ok \in BOOLEAN /\ val(m) = m.k
  BY <1>1, ItemCases, ItemTypes DEF val
<1>4. m.op = "blk" => /\ m \in Spoilt <=> ~m.ok
                      /\ m \in WithCrc <=> m.crc
                      /\ m \in WithSum <=> ~m.crc
  BY <1>3 DEF Spoilt, WithCrc, WithSum
<1> QED
  BY <1>1, <1>2, <1>3, <1>4 DEF UpTo, Above, Copies, Spoilt, WithCrc, WithSum

LEMMA SetNames ==
  ASSUME NEW v \in Int
  PROVE  /\ {Tokens, UpTo(v), Above(v), Copies(v), Spoilt, WithCrc, WithSum} \subseteq SUBSET Tokens
         /\ Tokens \subseteq Items
BY DEF Tokens, UpTo, Above, Copies, Spoilt, WithCrc, WithSum

\* What the sets have to do with each other.
LEMMA SetOrder ==
  ASSUME NEW s \in Seq(Items), NEW v \in Int, NEW w \in Int
  PROVE  /\ N(s, Tokens) \in Nat /\ N(s, UpTo(v)) \in Nat /\ N(s, Above(v)) \in Nat
         /\ N(s, Copies(v)) \in Nat /\ N(s, Spoilt) \in Nat
         /\ N(s, WithCrc) \in Nat /\ N(s, WithSum) \in Nat
         /\ N(s, UpTo(v)) <= N(s, Tokens) /\ N(s, Copies(v)) <= N(s, Tokens)
         /\ v <= w => N(s, UpTo(v)) <= N(s, UpTo(w)) /\ N(s, Above(w)) <= N(s, Above(v))
         /\ v < w => N(s, Copies(w)) <= N(s, Above(v))
         /\ v <= w => N(s, Copies(v)) <= N(s, UpTo(w))
<1>1. \A V : N(s, V) \in Nat
  BY HitsFinite
<1>2. \A V, W : V \subseteq W => N(s, V) <= N(s, W)
  BY NMono
<1>3. ASSUME NEW m \in Tokens PROVE val(m) \in Int
  <2>1. m \in Items
    BY DEF Tokens
  <2>2. val(m) \in 0 .. FinStep
    BY <2>1, Sets
  <2> QED
    BY <2>2, BlocksFacts
<1>4. UpTo(v) \subseteq Tokens /\ Copies(v) \subseteq Tokens
  BY DEF UpTo, Copies
<1>5. v <= w => UpTo(v) \subseteq UpTo(w) /\ Above(w) \subseteq Above(v)
  BY <1>3 DEF UpTo, Above
<1>6. v < w => Copies(w) \subseteq Above(v)
  BY <1>3 DEF Copies, Above
<1>7. v <= w => Copies(v) \subseteq UpTo(w)
  BY <1>3 DEF Copies, UpTo
<1> QED
  BY <1>1, <1>2, <1>4, <1>5, <1>6, <1>7

-----------------------------------------------------------------------------
(* The queue to the board loses: its first item, or any by noise. *)

Shrunk(q, s) ==
  /\ q \in Seq(Items)
  /\ \A v \in Int : /\ N(q, UpTo(v)) <= N(s, UpTo(v)) /\ N(q, Above(v)) <= N(s, Above(v))
                    /\ N(q, Copies(v)) <= N(s, Copies(v))
                    /\ NoneAfter(s, Above(v), UpTo(v)) => NoneAfter(q, Above(v), UpTo(v))
  /\ N(q, Tokens) <= N(s, Tokens)
  /\ N(q, WithCrc) <= N(s, WithCrc) /\ N(q, WithSum) <= N(s, WithSum)
  /\ NoneAfter(s, WithSum, WithCrc) => NoneAfter(q, WithSum, WithCrc)

LEMMA ShrunkIf ==
  ASSUME NEW s \in Seq(Items), NEW q \in Seq(Items),
         \A V \in SUBSET Tokens : N(q, V) <= N(s, V),
         \A V, W \in SUBSET Tokens : NoneAfter(s, V, W) => NoneAfter(q, V, W)
  PROVE  Shrunk(q, s) /\ N(q, Spoilt) <= N(s, Spoilt)
<1>1. ASSUME NEW v PROVE UpTo(v) \in SUBSET Tokens /\ Above(v) \in SUBSET Tokens /\ Copies(v) \in SUBSET Tokens
  BY DEF UpTo, Above, Copies
<1>2. Spoilt \in SUBSET Tokens /\ WithCrc \in SUBSET Tokens /\ WithSum \in SUBSET Tokens
  BY DEF Spoilt, WithCrc, WithSum
<1>3. Tokens \in SUBSET Tokens
  OBVIOUS
<1>4. ASSUME NEW v \in Int
      PROVE  /\ N(q, UpTo(v)) <= N(s, UpTo(v)) /\ N(q, Above(v)) <= N(s, Above(v))
             /\ N(q, Copies(v)) <= N(s, Copies(v))
             /\ NoneAfter(s, Above(v), UpTo(v)) => NoneAfter(q, Above(v), UpTo(v))
  BY <1>1
<1>5. NoneAfter(s, WithSum, WithCrc) => NoneAfter(q, WithSum, WithCrc)
  BY <1>2
<1>6. N(q, Tokens) <= N(s, Tokens) /\ N(q, Spoilt) <= N(s, Spoilt)
      /\ N(q, WithCrc) <= N(s, WithCrc) /\ N(q, WithSum) <= N(s, WithSum)
  BY <1>2, <1>3
<1> QED
  BY <1>4, <1>5, <1>6 DEF Shrunk

\* The first item is taken; Rest may leave a stray character of it.
LEMMA Taken ==
  ASSUME NEW s \in Seq(Items), s # <<>>, NEW m, m = Head(s),
         NEW q, q = Tail(s) \/ q = <<Stray>> \o Tail(s)
  PROVE  /\ m \in Items /\ q \in Seq(Items)
         /\ \A V \in SUBSET Tokens : N(q, V) = N(s, V) - In(m, V)
         /\ \A V, W \in SUBSET Tokens : NoneAfter(s, V, W) =>
              NoneAfter(q, V, W) /\ (m \in V => N(q, W) = 0)
<1>1. PICK t : t = Tail(s)
  BY Zenon
<1>2. t \in Seq(Items) /\ m \in Items
  <2>1. Tail(s) \in Seq(Items) /\ Head(s) \in Items
    BY HeadTailProperties
  <2> QED
    BY <1>1, <2>1, Zenon
<1>3. ASSUME NEW V \in SUBSET Tokens PROVE N(t, V) = N(s, V) - In(m, V)
  <2>1. N(Tail(s), V) = N(s, V) - In(Head(s), V)
    BY NTail
  <2> QED
    BY <1>1, <2>1, Zenon
<1>4. ASSUME NEW V \in SUBSET Tokens, NEW W \in SUBSET Tokens, NoneAfter(s, V, W)
      PROVE  NoneAfter(t, V, W) /\ (m \in V => N(t, W) = 0)
  <2>1. NoneAfter(Tail(s), V, W) /\ (Head(s) \in V => N(Tail(s), W) = 0)
    BY <1>4, AfterHead
  <2> QED
    BY <1>1, <2>1, Zenon
<1>5. CASE q = t
  BY <1>2, <1>3, <1>4, <1>5
<1>6. CASE q = <<Stray>> \o t
  <2>1. Stray \in Items /\ Stray \notin Tokens
    BY ItemTypes
  <2>2. q \in Seq(Items)
    BY <1>2, <1>6, <2>1, Pushed
  <2>3. ASSUME NEW V \in SUBSET Tokens PROVE N(q, V) = N(t, V)
    <3>1. In(Stray, V) = 0
      BY <2>1 DEF Bit, In
    <3>2. N(q, V) = N(t, V) + In(Stray, V)
      BY <1>2, <1>6, <2>1, Pushed
    <3>3. N(t, V) \in Nat
      BY <1>2, HitsFinite
    <3> QED
      BY <3>1, <3>2, <3>3
  <2>4. ASSUME NEW V \in SUBSET Tokens, NEW W \in SUBSET Tokens, NoneAfter(t, V, W)
        PROVE  NoneAfter(q, V, W)
    <3>1. Stray \notin V
      BY <2>1
    <3> QED
      BY <1>2, <1>6, <2>1, <2>4, <3>1, Pushed
  <2> QED
    BY <1>2, <1>3, <1>4, <2>2, <2>3, <2>4
<1> QED
  BY <1>1, <1>5, <1>6

\* q is s without its first item m.
Drawn(q, s, m) ==
  /\ m \in Items /\ q \in Seq(Items)
  /\ \A V \in SUBSET Tokens : N(q, V) = N(s, V) - In(m, V)
  /\ \A V, W \in SUBSET Tokens : NoneAfter(s, V, W) =>
       NoneAfter(q, V, W) /\ (m \in V => N(q, W) = 0)

LEMMA TakenDrawn ==
  ASSUME NEW s \in Seq(Items), s # <<>>, NEW m, m = Head(s),
         NEW q, q = Tail(s) \/ q = <<Stray>> \o Tail(s)
  PROVE  Drawn(q, s, m)
BY Taken DEF Drawn

LEMMA ShrunkTaken ==
  ASSUME NEW s \in Seq(Items), s # <<>>, NEW q, q = Tail(s) \/ q = <<Stray>> \o Tail(s)
  PROVE  Shrunk(q, s) /\ N(q, Spoilt) <= N(s, Spoilt)
<1>1. PICK m : m = Head(s)
  BY Zenon
<1>2. /\ q \in Seq(Items)
      /\ \A V \in SUBSET Tokens : N(q, V) = N(s, V) - In(m, V)
      /\ \A V, W \in SUBSET Tokens : NoneAfter(s, V, W) => NoneAfter(q, V, W)
  BY <1>1, Taken
<1>3. ASSUME NEW V \in SUBSET Tokens PROVE N(q, V) <= N(s, V)
  <2>1. N(s, V) \in Nat /\ In(m, V) \in {0, 1}
    BY HitsFinite DEF Bit, In
  <2> QED
    BY <1>2, <2>1
<1> QED
  BY <1>2, <1>3, ShrunkIf

LEMMA ShrunkSame ==
  ASSUME NEW s \in Seq(Items)
  PROVE  Shrunk(s, s)
<1>1. ASSUME NEW V PROVE N(s, V) <= N(s, V)
  <2>1. N(s, V) \in Nat
    BY HitsFinite
  <2> QED
    BY <2>1
<1> QED
  BY <1>1 DEF Shrunk

\* An item that loses its check keeps its value and its mode.
LEMMA SpoiltItem ==
  ASSUME NEW m \in Items, m.op = "blk", NEW e, e = [m EXCEPT !.ok = FALSE]
  PROVE  /\ e \in Items /\ e \in Tokens /\ m \in Tokens /\ e.op = "blk" /\ val(e) = val(m)
         /\ e \in WithCrc <=> m \in WithCrc
         /\ e \in WithSum <=> m \in WithSum
<1>1. m \in [op : {"blk"}, k : (0 .. Blocks) \cup {FinStep}, ok : BOOLEAN, crc : BOOLEAN]
  BY ItemTypes DEF Items
<1>2. e \in [op : {"blk"}, k : (0 .. Blocks) \cup {FinStep}, ok : BOOLEAN, crc : BOOLEAN]
      /\ e.op = "blk" /\ e.k = m.k /\ e.crc = m.crc
  BY <1>1
<1>3. e \in Items /\ e \in Tokens /\ m \in Tokens
  BY <1>1, <1>2 DEF Items, Tokens
<1> QED
  BY <1>2, <1>3 DEF val, WithCrc, WithSum

LEMMA ShrunkNoise ==
  ASSUME NEW s \in Seq(Items), NEW q, NEW i \in DOMAIN s,
         \/ q = RemoveAt(s, i)
         \/ q = InsertAt(s, i, Stray)
         \/ s[i].op = "blk" /\ q = [s EXCEPT ![i].ok = FALSE]
  PROVE  Shrunk(q, s) /\ N(q, Spoilt) <= N(s, Spoilt) + 1
<1>1. i \in 1 .. Len(s) /\ s[i] \in Items
  BY LenProperties, ElementOfSeq
<1>0. ASSUME NEW V PROVE N(s, V) \in Nat
  BY HitsFinite
<1>2. CASE q = RemoveAt(s, i)
  <2>1. q \in Seq(Items)
    BY <1>1, <1>2, NRemove
  <2>2. ASSUME NEW V \in SUBSET Tokens PROVE N(q, V) <= N(s, V)
    <3>1. N(q, V) = N(s, V) - In(s[i], V)
      BY <1>1, <1>2, NRemove
    <3> QED
      BY <1>0, <3>1 DEF Bit, In
  <2>3. ASSUME NEW V \in SUBSET Tokens, NEW W \in SUBSET Tokens, NoneAfter(s, V, W)
        PROVE  NoneAfter(q, V, W)
    BY <1>1, <1>2, <2>3, AfterRemove
  <2>4. Shrunk(q, s) /\ N(q, Spoilt) <= N(s, Spoilt)
    BY <2>1, <2>2, <2>3, ShrunkIf
  <2>5. N(s, Spoilt) \in Nat /\ N(q, Spoilt) \in Nat
    BY <1>0, <2>1, HitsFinite
  <2> QED
    BY <2>4, <2>5
<1>3. CASE q = InsertAt(s, i, Stray)
  <2>0. Stray \in Items /\ Stray \notin Tokens
    BY ItemTypes
  <2>1. q \in Seq(Items)
    BY <1>1, <1>3, <2>0, NInsert
  <2>2. ASSUME NEW V \in SUBSET Tokens PROVE N(q, V) <= N(s, V)
    <3>1. N(q, V) = N(s, V) + In(Stray, V)
      BY <1>1, <1>3, <2>0, NInsert
    <3>2. In(Stray, V) = 0
      BY <2>0 DEF Bit, In
    <3> QED
      BY <1>0, <3>1, <3>2
  <2>3. ASSUME NEW V \in SUBSET Tokens, NEW W \in SUBSET Tokens, NoneAfter(s, V, W)
        PROVE  NoneAfter(q, V, W)
    <3>1. Stray \notin V /\ Stray \notin W
      BY <2>0
    <3> QED
      BY <1>1, <1>3, <2>0, <2>3, <3>1, AfterInsert
  <2>4. Shrunk(q, s) /\ N(q, Spoilt) <= N(s, Spoilt)
    BY <2>1, <2>2, <2>3, ShrunkIf
  <2>5. N(s, Spoilt) \in Nat /\ N(q, Spoilt) \in Nat
    BY <1>0, <2>1, HitsFinite
  <2> QED
    BY <2>4, <2>5
<1>4. CASE s[i].op = "blk" /\ q = [s EXCEPT ![i].ok = FALSE]
  <2>1. PICK m \in Items : m = s[i]
    BY <1>1
  <2>2. PICK e : e = [m EXCEPT !.ok = FALSE]
    OBVIOUS
  <2>3. q = [s EXCEPT ![i] = e]
    BY <1>4, <2>1, <2>2
  <2>4. m.op = "blk"
    BY <1>4, <2>1
  <2>5. /\ e \in Items /\ e \in Tokens /\ m \in Tokens /\ val(e) = val(m)
        /\ e \in WithCrc <=> m \in WithCrc
        /\ e \in WithSum <=> m \in WithSum
    BY <2>2, <2>4, SpoiltItem
  <2>6. q \in Seq(Items)
    BY <1>1, <2>3, <2>5, NReplace
  <2>7. ASSUME NEW V PROVE N(q, V) = N(s, V) - In(m, V) + In(e, V)
    <3>1. e \in Items
      BY <2>5
    <3>2. N([s EXCEPT ![i] = e], V) = N(s, V) - In(s[i], V) + In(e, V)
      BY <1>1, <3>1, NReplace
    <3> QED
      BY <2>1, <2>3, <3>2, Zenon
  <2>8. ASSUME NEW V, e \in V <=> m \in V PROVE N(q, V) <= N(s, V)
    BY <1>0, <2>7, <2>8 DEF Bit, In
  <2>9. ASSUME NEW V, NEW W, e \in V <=> m \in V, e \in W <=> m \in W, NoneAfter(s, V, W)
        PROVE  NoneAfter(q, V, W)
    <3>1. e \in Items /\ (e \in V => s[i] \in V) /\ (e \in W => s[i] \in W)
      BY <2>1, <2>5, <2>9, Zenon
    <3>2. NoneAfter([s EXCEPT ![i] = e], V, W)
      BY <1>1, <2>9, <3>1, AfterReplace
    <3> QED
      BY <2>3, <3>2, Zenon
  <2>10. ASSUME NEW v PROVE /\ e \in UpTo(v) <=> m \in UpTo(v)
                            /\ e \in Above(v) <=> m \in Above(v)
                            /\ e \in Copies(v) <=> m \in Copies(v)
    BY <2>5 DEF UpTo, Above, Copies
  <2>11. N(q, Spoilt) <= N(s, Spoilt) + 1
    BY <1>0, <2>7 DEF Bit, In
  <2>12. N(q, Tokens) <= N(s, Tokens) /\ N(q, WithCrc) <= N(s, WithCrc) /\ N(q, WithSum) <= N(s, WithSum)
    BY <2>5, <2>8
  <2>13. NoneAfter(s, WithSum, WithCrc) => NoneAfter(q, WithSum, WithCrc)
    BY <2>5, <2>9
  <2>14. ASSUME NEW v \in Int
         PROVE  /\ N(q, UpTo(v)) <= N(s, UpTo(v)) /\ N(q, Above(v)) <= N(s, Above(v))
                /\ N(q, Copies(v)) <= N(s, Copies(v))
                /\ NoneAfter(s, Above(v), UpTo(v)) => NoneAfter(q, Above(v), UpTo(v))
    BY <2>8, <2>9, <2>10
  <2> QED
    BY <2>6, <2>11, <2>12, <2>13, <2>14 DEF Shrunk
<1> QED
  BY <1>2, <1>3, <1>4

-----------------------------------------------------------------------------
(* The queue to the sender. *)

Is(e, c) == IF e = c THEN 1 ELSE 0

\* t is not more than s; t is not more than s with e behind it.
Less(t, s) ==
  /\ t \in Seq(Signals) /\ Len(t) <= Len(s) /\ Ackd(t) <= Ackd(s) /\ Cs(t) <= Cs(s)
  /\ Naks(t) <= Naks(s) /\ Asked(t) <= Asked(s)
  /\ NakLast(s) => NakLast(t)
Says(t, s, e) ==
  /\ t \in Seq(Signals) /\ Len(t) <= Len(s) + 1
  /\ Ackd(t) <= Ackd(s) + Is(e, "ACK") /\ Cs(t) <= Cs(s) + Is(e, "C")
  /\ Naks(t) <= Naks(s) + Is(e, "NAK") /\ Asked(t) <= Asked(s) + Is(e, "C") + Is(e, "NAK")
  /\ NakLast(s) /\ (e = "C" => Naks(s) = 0) => NakLast(t)

LEMMA SignalCounts ==
  ASSUME NEW s \in Seq(Signals)
  PROVE  /\ Len(s) \in Nat /\ Ackd(s) \in Nat /\ Cs(s) \in Nat /\ Naks(s) \in Nat
         /\ Asked(s) \in Nat /\ Ackd(s) <= Len(s) /\ Asked(s) <= Len(s)
BY HitsFinite, LenProperties DEF Ackd, Cs, Naks, Asked

LEMMA Quiet ==
  /\ <<>> \in Seq(Signals) /\ Len(<<>>) = 0 /\ Ackd(<<>>) = 0 /\ Cs(<<>>) = 0
  /\ Naks(<<>>) = 0 /\ Asked(<<>>) = 0 /\ NakLast(<<>>)
<1>0. <<>> \in Seq(Signals) /\ Len(<<>>) = 0
  OBVIOUS
<1>1. PICK s \in Seq(Signals) : s = <<>> /\ Len(s) = 0
  BY <1>0
<1>2. ASSUME NEW V PROVE N(s, V) = 0
  <2>1. N(s, V) \in Nat /\ N(s, V) <= Len(s)
    BY HitsFinite
  <2> QED
    BY <1>1, <2>1
<1>3. NakLast(s)
  BY <1>1 DEF NoneAfter, NakLast
<1> QED
  BY <1>1, <1>2, <1>3 DEF Ackd, Cs, Naks, Asked

LEMMA Spoken ==
  ASSUME NEW s \in Seq(Signals), NEW e \in Signals, NEW t, t = Append(s, e)
  PROVE  /\ t \in Seq(Signals) /\ Len(t) = Len(s) + 1
         /\ Ackd(t) = Ackd(s) + Is(e, "ACK")
         /\ Cs(t) = Cs(s) + Is(e, "C")
         /\ Naks(t) = Naks(s) + Is(e, "NAK")
         /\ Asked(t) = Asked(s) + Is(e, "C") + Is(e, "NAK")
         /\ NakLast(s) /\ (e = "C" => Naks(s) = 0) => NakLast(t)
<1>1. Append(s, e) \in Seq(Signals) /\ Len(Append(s, e)) = Len(s) + 1
  BY NAppend
<1>2. ASSUME NEW V PROVE N(t, V) = N(s, V) + In(e, V) /\ N(s, V) \in Nat
  BY NAppend, HitsFinite
<1>3. /\ In(e, {"ACK"}) = Is(e, "ACK") /\ In(e, {"C"}) = Is(e, "C")
      /\ In(e, {"NAK"}) = Is(e, "NAK")
      /\ In(e, {"C", "NAK"}) = Is(e, "C") + Is(e, "NAK")
  BY DEF Signals, In, Is
<1>4. NakLast(s) /\ (e = "C" => Naks(s) = 0) => NakLast(t)
  <2>1. e \in {"C"} => e = "C"
    OBVIOUS
  <2> QED
    BY <2>1, AfterAppend DEF NakLast, Naks
<1>5. /\ Ackd(t) = Ackd(s) + Is(e, "ACK")
      /\ Cs(t) = Cs(s) + Is(e, "C")
      /\ Naks(t) = Naks(s) + Is(e, "NAK")
  BY <1>2, <1>3 DEF Ackd, Cs, Naks
<1>6. Asked(t) = Asked(s) + (Is(e, "C") + Is(e, "NAK"))
  BY <1>2, <1>3 DEF Asked
<1>7. Asked(s) \in Nat /\ Is(e, "C") \in Nat /\ Is(e, "NAK") \in Nat
  BY <1>2 DEF Asked, Is
<1>8. Asked(t) = Asked(s) + Is(e, "C") + Is(e, "NAK")
  BY <1>6, <1>7
<1> QED
  BY <1>1, <1>4, <1>5, <1>8

LEMMA Heard ==
  ASSUME NEW s \in Seq(Signals), s # <<>>, NEW c, c = Head(s), NEW t, t = Tail(s)
  PROVE  /\ c \in Signals /\ t \in Seq(Signals) /\ Len(t) = Len(s) - 1
         /\ Ackd(t) = Ackd(s) - Is(c, "ACK")
         /\ Cs(t) = Cs(s) - Is(c, "C")
         /\ Naks(t) = Naks(s) - Is(c, "NAK")
         /\ Asked(t) = Asked(s) - (Is(c, "C") + Is(c, "NAK"))
         /\ NakLast(s) => NakLast(t) /\ (c = "NAK" => Cs(t) = 0)
<1>1. c \in Signals /\ t \in Seq(Signals) /\ Len(t) = Len(s) - 1
  BY HeadTailProperties
<1>2. ASSUME NEW V PROVE N(t, V) = N(s, V) - In(c, V)
  BY NTail
<1>3. /\ In(c, {"ACK"}) = Is(c, "ACK") /\ In(c, {"C"}) = Is(c, "C")
      /\ In(c, {"NAK"}) = Is(c, "NAK")
      /\ In(c, {"C", "NAK"}) = Is(c, "C") + Is(c, "NAK")
  BY <1>1 DEF Signals, In, Is
<1>4. NakLast(s) => NakLast(t) /\ (c = "NAK" => Cs(t) = 0)
  <2>1. c = "NAK" => c \in {"NAK"}
    OBVIOUS
  <2> QED
    BY <2>1, AfterHead DEF NakLast, Cs
<1> QED
  BY <1>1, <1>2, <1>3, <1>4 DEF Ackd, Cs, Naks, Asked

\* A character to the sender is lost.
LEMMA Lost ==
  ASSUME NEW s \in Seq(Signals), NEW i \in DOMAIN s, NEW t, t = RemoveAt(s, i)
  PROVE  Less(t, s)
<1>1. i \in 1 .. Len(s) /\ Len(s) \in Nat
  BY LenProperties
<1>2. t \in Seq(Signals) /\ Len(t) = Len(s) - 1
  BY <1>1, NRemove
<1>3. ASSUME NEW V PROVE N(t, V) <= N(s, V)
  <2>1. N(t, V) = N(s, V) - In(s[i], V)
    BY <1>1, NRemove
  <2>2. N(s, V) \in Nat
    BY HitsFinite
  <2> QED
    BY <2>1, <2>2 DEF In
<1>4. NakLast(s) => NakLast(t)
  BY <1>1, AfterRemove DEF NakLast
<1>5. Len(t) <= Len(s)
  BY <1>1, <1>2
<1> QED
  BY <1>2, <1>3, <1>4, <1>5 DEF Less, Ackd, Cs, Naks, Asked

LEMMA LessSame ==
  ASSUME NEW s \in Seq(Signals)
  PROVE  Less(s, s)
<1>1. /\ Len(s) \in Nat /\ Ackd(s) \in Nat /\ Cs(s) \in Nat /\ Naks(s) \in Nat
      /\ Asked(s) \in Nat
  BY SignalCounts
<1> QED
  BY <1>1 DEF Less

LEMMA LessQuiet ==
  ASSUME NEW s \in Seq(Signals)
  PROVE  Less(<<>>, s)
<1>1. /\ Len(s) \in Nat /\ Ackd(s) \in Nat /\ Cs(s) \in Nat /\ Naks(s) \in Nat
      /\ Asked(s) \in Nat
  BY SignalCounts
<1> QED
  BY <1>1, Quiet DEF Less

LEMMA LessSays ==
  ASSUME NEW s \in Seq(Signals), NEW t, Less(t, s), NEW e \in Signals
  PROVE  Says(t, s, e)
<1>1. /\ Len(s) \in Nat /\ Ackd(s) \in Nat /\ Cs(s) \in Nat /\ Naks(s) \in Nat
      /\ Asked(s) \in Nat
  BY SignalCounts
<1>2. t \in Seq(Signals)
  BY DEF Less
<1>3. /\ Len(t) \in Nat /\ Ackd(t) \in Nat /\ Cs(t) \in Nat /\ Naks(t) \in Nat
      /\ Asked(t) \in Nat
  BY <1>2, SignalCounts
<1>4. Is(e, "ACK") \in Nat /\ Is(e, "C") \in Nat /\ Is(e, "NAK") \in Nat
  BY DEF Is
<1>5. /\ Len(t) <= Len(s) /\ Ackd(t) <= Ackd(s) /\ Cs(t) <= Cs(s) /\ Naks(t) <= Naks(s)
      /\ Asked(t) <= Asked(s) /\ (NakLast(s) => NakLast(t))
  BY DEF Less
<1>6. /\ Len(t) <= Len(s) + 1
      /\ Ackd(t) <= Ackd(s) + Is(e, "ACK") /\ Cs(t) <= Cs(s) + Is(e, "C")
      /\ Naks(t) <= Naks(s) + Is(e, "NAK") /\ Asked(t) <= Asked(s) + Is(e, "C") + Is(e, "NAK")
  BY <1>1, <1>3, <1>4, <1>5, SMTT(30)
<1> QED
  BY <1>2, <1>5, <1>6 DEF Says

\* What PUTC does with one character, with none and with any.
LEMMA PutOne ==
  ASSUME toSender \in Seq(Signals), NEW e \in Signals, PUTC(<<e>>)
  PROVE  /\ Says(toSender', toSender, e)
         /\ Runs => toSender' = Append(toSender, e)
         /\ ~Runs => toSender' = <<>>
<1>1. CASE Runs
  <2>1. toSender' = toSender \o <<e>>
    BY <1>1 DEF PUTC
  <2>2. toSender' = Append(toSender, e)
    BY <2>1, AppendIsConcat
  <2>3. PICK t : t = toSender'
    OBVIOUS
  <2>4. /\ t \in Seq(Signals) /\ Len(t) = Len(toSender) + 1
        /\ Ackd(t) = Ackd(toSender) + Is(e, "ACK")
        /\ Cs(t) = Cs(toSender) + Is(e, "C")
        /\ Naks(t) = Naks(toSender) + Is(e, "NAK")
        /\ Asked(t) = Asked(toSender) + Is(e, "C") + Is(e, "NAK")
        /\ NakLast(toSender) /\ (e = "C" => Naks(toSender) = 0) => NakLast(t)
    BY <2>2, <2>3, Spoken
  <2>5. /\ Len(t) \in Nat /\ Ackd(t) \in Nat /\ Cs(t) \in Nat /\ Naks(t) \in Nat
        /\ Asked(t) \in Nat
    BY <2>4, SignalCounts
  <2>6. Says(t, toSender, e)
    BY <2>4, <2>5 DEF Says
  <2> QED
    BY <1>1, <2>2, <2>3, <2>6
<1>2. CASE ~Runs
  <2>1. toSender' = <<>>
    BY <1>2 DEF PUTC
  <2>2. Says(<<>>, toSender, e)
    BY LessQuiet, LessSays
  <2> QED
    BY <1>2, <2>1, <2>2
<1> QED
  BY <1>1, <1>2

LEMMA PutNone ==
  ASSUME toSender \in Seq(Signals), PUTC(<<>>)
  PROVE  /\ Less(toSender', toSender)
         /\ Runs => toSender' = toSender
         /\ ~Runs => toSender' = <<>>
BY LessSame, LessQuiet DEF PUTC

LEMMA PutAny ==
  ASSUME toSender \in Seq(Signals), NEW s \in Seq(Signals), PUTC(s)
  PROVE  toSender' \in Seq(Signals) /\ (~Runs => toSender' = <<>>)
<1>1. toSender \o s \in Seq(Signals)
  BY ConcatProperties
<1> QED
  BY <1>1, Quiet DEF PUTC

-----------------------------------------------------------------------------
(* The invariant read off in parts. *)

LEMMA Types ==
  ASSUME TypeInv
  PROVE  /\ in_hdr \in BOOLEAN /\ hdr_chars \in BOOLEAN /\ crc_mode \in BOOLEAN
         /\ tx_ack \in BOOLEAN /\ at_eof \in BOOLEAN /\ hold \in BOOLEAN /\ started \in BOOLEAN
         /\ announces \in BOOLEAN /\ scrc \in BOOLEAN /\ cancelled \in BOOLEAN
         /\ retries \in Int /\ at \in Int /\ at \in Steps /\ read_length \in Nat
         /\ noise \in Nat /\ cross \in Nat /\ cross <= MaxCross /\ noise <= MaxNoise
BY Constants, BlocksFacts DEF TypeInv, TypeOK, Steps

LEMMA StepsInt == \A v \in Steps : v \in Int
BY BlocksFacts DEF Steps

LEMMA BType ==
  ASSUME read_length \in Nat
  PROVE  B \in Nat
<1>1. BLOCK \in Nat \ {0}
  BY Constants
<1> QED
  BY <1>1 DEF B

LEMMA Counts ==
  ASSUME TypeInv, LineInv
  PROVE  /\ B \in Nat /\ Acks \in Nat /\ Asks \in Nat /\ T \in Nat /\ Bit(tx_ack) \in {0, 1}
         /\ Ackd(toSender) \in Nat /\ Len(toSender) \in Nat
         /\ N(toBoard, Tokens) \in Nat /\ N(toBoard, Spoilt) \in Nat
         /\ Acks <= Len(toSender) + Bit(tx_ack) /\ Asks <= Len(toSender)
         /\ T = N(toBoard, Tokens) + Len(toSender) + Bit(tx_ack)
<1>1. B \in Nat
  BY Types, BType
<1>2. /\ Len(toSender) \in Nat /\ Ackd(toSender) \in Nat /\ Asked(toSender) \in Nat
      /\ Ackd(toSender) <= Len(toSender) /\ Asked(toSender) <= Len(toSender)
  BY SignalCounts DEF LineInv
<1>3. N(toBoard, Tokens) \in Nat /\ N(toBoard, Spoilt) \in Nat
  BY HitsFinite DEF LineInv
<1>4. Bit(tx_ack) \in {0, 1}
  BY DEF Bit
<1> QED
  BY <1>1, <1>2, <1>3, <1>4 DEF Acks, Asks, T

\* The same after a step, as numbers.
LEMMA CountsNext ==
  ASSUME toBoard' \in Seq(Items), toSender' \in Seq(Signals)
  PROVE  \E t, a, k, x, y, z, l \in Nat :
           /\ T' = t /\ Acks' = a /\ Asks' = k /\ N(toBoard', Tokens) = x
           /\ Bit(tx_ack') = y /\ Ackd(toSender') = z /\ Len(toSender') = l
           /\ t = x + l + y /\ a = z + y /\ Asked(toSender') = k
<1>1. PICK q \in Seq(Items) : q = toBoard'
  OBVIOUS
<1>2. PICK s \in Seq(Signals) : s = toSender'
  OBVIOUS
<1>3. PICK x \in Nat : N(q, Tokens) = x
  BY HitsFinite
<1>4. PICK y \in Nat : Bit(tx_ack') = y
  BY DEF Bit
<1>5. PICK z \in Nat : Ackd(s) = z
  BY SignalCounts
<1>6. PICK l \in Nat : Len(s) = l
  BY SignalCounts
<1>7. PICK k \in Nat : Asked(s) = k
  BY SignalCounts
<1>8. T' = x + l + y /\ Acks' = z + y /\ Asks' = k
  BY <1>1, <1>2, <1>3, <1>4, <1>5, <1>6, <1>7 DEF T, Acks, Asks
<1>9. x + l + y \in Nat /\ z + y \in Nat
  OBVIOUS
<1>10. PICK t \in Nat : T' = t /\ t = x + l + y
  BY <1>8, <1>9
<1>11. PICK a \in Nat : Acks' = a /\ a = z + y
  BY <1>8, <1>9
<1> QED
  BY <1>1, <1>2, <1>3, <1>4, <1>5, <1>6, <1>7, <1>8, <1>10, <1>11, Zenon

\* A step of the board, or of the line: the sender does nothing.
LEMMA BoardLine ==
  ASSUME TypeInv, LineInv, UNCHANGED sender,
         Shrunk(toBoard', toBoard), NEW n \in Nat, noise' = n,
         N(toBoard', Spoilt) <= N(toBoard, Spoilt) + (n - noise),
         toSender' \in Seq(Signals), in_hdr' => ~tx_ack',
         pc' \in {"open", "read", "final"} => ~at_eof' /\ len' = 0,
         ~started => toSender' = <<>> /\ toBoard' = <<>> /\ pc' \in {"open", "done"}
  PROVE  LineInv'
<1>1. at \in Int /\ noise \in Nat /\ \A v \in Steps : v \in Int
  BY Types, StepsInt
<1>2. toBoard' \in Seq(Items)
  BY DEF Shrunk
<1>3. at' = at /\ hold' = hold /\ started' = started /\ cancelled' = cancelled
  BY DEF sender
<1>4. ASSUME NEW v \in Steps PROVE NoneAfter(toBoard', Above(v), UpTo(v))
  BY <1>1 DEF Shrunk, LineInv
<1>5. N(toBoard', Above(at)) = 0
  <2>1. N(toBoard', Above(at)) <= N(toBoard, Above(at)) /\ N(toBoard, Above(at)) = 0
    BY <1>1 DEF Shrunk, LineInv
  <2>2. N(toBoard', Above(at)) \in Nat
    BY <1>2, HitsFinite
  <2> QED
    BY <2>1, <2>2
<1>6. hold /\ at <= 1 => N(toBoard', Copies(at)) = 0
  <2>1. N(toBoard', Copies(at)) <= N(toBoard, Copies(at))
    BY <1>1 DEF Shrunk
  <2>2. hold /\ at <= 1 => N(toBoard, Copies(at)) = 0
    BY DEF LineInv
  <2>3. N(toBoard', Copies(at)) \in Nat
    BY <1>2, HitsFinite
  <2> QED
    BY <2>1, <2>2, <2>3
<1>7. N(toBoard', Spoilt) <= n
  <2>1. N(toBoard, Spoilt) <= noise /\ N(toBoard, Spoilt) \in Nat /\ N(toBoard', Spoilt) \in Nat
    BY <1>2, HitsFinite DEF LineInv
  <2> QED
    BY <1>1, <2>1
<1>8. /\ hold => at \in {0, 1, FinStep, FinStep + 1}
      /\ cancelled => at = FinStep + 1
      /\ ~started => at = 0 /\ hold
  BY DEF LineInv
<1> QED
  BY <1>2, <1>3, <1>4, <1>5, <1>6, <1>7, <1>8 DEF LineInv

LEMMA BoardCrc ==
  ASSUME TypeInv, LineInv, CrcInv, UNCHANGED sender, Live' => Live,
         Shrunk(toBoard', toBoard), NEW e \in Signals, Says(toSender', toSender, e),
         crc_mode' => crc_mode, e = "C" => crc_mode', e = "NAK" => ~crc_mode',
         Live' /\ pc' # "open" /\ ~crc_mode' =>
           (pc # "open" /\ ~crc_mode) \/ (~scrc /\ N(toBoard', WithCrc) = 0)
  PROVE  CrcInv'
<1> SUFFICES ASSUME Live'
             PROVE  /\ crc_mode' => scrc /\ Naks(toSender') = 0 /\ N(toBoard', WithSum) = 0
                    /\ ~scrc => Cs(toSender') = 0
                    /\ NakLast(toSender')
                    /\ NoneAfter(toBoard', WithSum, WithCrc)
                    /\ N(toBoard', WithSum) >= 1 => ~scrc
                    /\ pc' # "open" /\ ~crc_mode' => ~scrc /\ N(toBoard', WithCrc) = 0
  <2>1. scrc' = scrc
    BY DEF sender
  <2> QED
    BY <2>1 DEF CrcInv
<1>1. /\ crc_mode => scrc /\ Naks(toSender) = 0 /\ N(toBoard, WithSum) = 0
      /\ ~scrc => Cs(toSender) = 0
      /\ NakLast(toSender)
      /\ NoneAfter(toBoard, WithSum, WithCrc)
      /\ N(toBoard, WithSum) >= 1 => ~scrc
      /\ pc # "open" /\ ~crc_mode => ~scrc /\ N(toBoard, WithCrc) = 0
  BY DEF CrcInv
<1>2. /\ N(toBoard', WithSum) <= N(toBoard, WithSum)
      /\ N(toBoard', WithCrc) <= N(toBoard, WithCrc)
      /\ NoneAfter(toBoard', WithSum, WithCrc)
  BY <1>1 DEF Shrunk
<1>3. /\ N(toBoard', WithSum) \in Nat /\ N(toBoard', WithCrc) \in Nat
      /\ N(toBoard, WithSum) \in Nat /\ N(toBoard, WithCrc) \in Nat
  BY HitsFinite DEF LineInv, Shrunk
<1>4. /\ Cs(toSender') \in Nat /\ Naks(toSender') \in Nat
      /\ Cs(toSender) \in Nat /\ Naks(toSender) \in Nat
  BY SignalCounts DEF LineInv, Says
<1>5. /\ Cs(toSender') <= Cs(toSender) + Is(e, "C")
      /\ Naks(toSender') <= Naks(toSender) + Is(e, "NAK")
      /\ NakLast(toSender) /\ (e = "C" => Naks(toSender) = 0) => NakLast(toSender')
  BY DEF Says
<1>6. (e # "C" => Is(e, "C") = 0) /\ (e # "NAK" => Is(e, "NAK") = 0)
  BY DEF Is
<1>7. crc_mode' => scrc /\ Naks(toSender') = 0 /\ N(toBoard', WithSum) = 0
  BY <1>1, <1>2, <1>3, <1>4, <1>5, <1>6
<1>8. ~scrc => Cs(toSender') = 0
  BY <1>1, <1>4, <1>5, <1>6
<1>9. N(toBoard', WithSum) >= 1 => ~scrc
  BY <1>1, <1>2, <1>3
<1>10. pc' # "open" /\ ~crc_mode' => ~scrc /\ N(toBoard', WithCrc) = 0
  BY <1>1, <1>2, <1>3
<1>11. NakLast(toSender')
  BY <1>1, <1>5
<1> QED
  BY <1>2, <1>7, <1>8, <1>9, <1>10, <1>11

\* No block is taken: the counts go down, or a late answer makes one more.
LEMMA BoardCount ==
  ASSUME TypeInv, LineInv, CountInv, UNCHANGED sender, Live' => Live,
         read_length' = read_length, Shrunk(toBoard', toBoard),
         Live' => (pc' = "open" <=> pc = "open"),
         NEW c \in Nat, cross' = c, c >= cross,
         NEW t \in Nat, T' = t, t <= 1 + c, NEW a \in Nat, Acks' = a, a <= Acks
  PROVE  CountInv'
<1> SUFFICES ASSUME Live' PROVE CountInv'
  BY DEF CountInv
<1>0. Live
  OBVIOUS
<1>1. B' = B /\ at' = at /\ cancelled' = cancelled /\ started' = started /\ hold' = hold
  BY DEF B, sender
<1>2. /\ B \in 0 .. Blocks /\ at >= B
      /\ N(toBoard, UpTo(B - 1)) = 0 /\ N(toBoard, Above(B + 1 + cross)) = 0
      /\ ~cancelled => at + Acks <= B + 1 + cross
      /\ ~cancelled => \A v \in Steps : N(toBoard, UpTo(v)) >= 1 =>
                         N(toBoard, UpTo(v)) + at + Acks <= v + 1 + cross
      /\ pc = "open" => (cancelled \/ at = 0) /\ Acks = 0 /\ B = 0 /\ N(toBoard, Above(0)) = 0
      /\ pc # "open" => started /\ ~(hold /\ at <= B)
  BY <1>0 DEF CountInv
<1>3. at \in Int /\ cross \in Nat /\ Acks \in Nat /\ B \in Nat
  BY Types, Counts
<1>4. toBoard' \in Seq(Items) /\ toBoard \in Seq(Items)
  BY DEF Shrunk, LineInv
<1>5. ASSUME NEW v \in Int
      PROVE  /\ N(toBoard', UpTo(v)) \in Nat /\ N(toBoard', Above(v)) \in Nat
             /\ N(toBoard, UpTo(v)) \in Nat /\ N(toBoard, Above(v)) \in Nat
             /\ N(toBoard', UpTo(v)) <= N(toBoard, UpTo(v))
             /\ N(toBoard', Above(v)) <= N(toBoard, Above(v))
  BY <1>4, HitsFinite DEF Shrunk
<1>6. N(toBoard', UpTo(B - 1)) = 0
  <2>1. B - 1 \in Int
    BY <1>3
  <2> QED
    BY <1>2, <1>5, <2>1
<1>7. N(toBoard', Above(B + 1 + c)) = 0
  <2>1. PICK v \in Int : v = B + 1 + cross
    BY <1>3
  <2>2. PICK w \in Int : w = B + 1 + c /\ v <= w
    BY <1>3, <2>1
  <2>3. N(toBoard', Above(w)) <= N(toBoard', Above(v))
    BY <1>4, <2>2, SetOrder
  <2>4. N(toBoard', Above(v)) <= N(toBoard, Above(v)) /\ N(toBoard, Above(v)) = 0
    BY <1>2, <1>5, <2>1
  <2>5. N(toBoard', Above(w)) \in Nat /\ N(toBoard', Above(v)) \in Nat
    BY <1>5
  <2>6. N(toBoard', Above(w)) = 0
    BY <2>3, <2>4, <2>5
  <2> QED
    BY <2>2, <2>6
<1>8. ~cancelled => at + a <= B + 1 + c
  BY <1>2, <1>3
<1>9. ASSUME ~cancelled, NEW v \in Steps, N(toBoard', UpTo(v)) >= 1
      PROVE  N(toBoard', UpTo(v)) + at + a <= v + 1 + c
  <2>1. v \in Int
    BY StepsInt
  <2>2. /\ N(toBoard', UpTo(v)) \in Nat /\ N(toBoard, UpTo(v)) \in Nat
        /\ N(toBoard', UpTo(v)) <= N(toBoard, UpTo(v))
    BY <1>5, <2>1
  <2>3. N(toBoard, UpTo(v)) >= 1
    BY <1>9, <2>2
  <2>4. N(toBoard, UpTo(v)) + at + Acks <= v + 1 + cross
    BY <1>2, <1>9, <2>3
  <2> QED
    BY <1>3, <2>1, <2>2, <2>4
<1>10. pc' = "open" => (cancelled \/ at = 0) /\ a = 0 /\ B = 0 /\ N(toBoard', Above(0)) = 0
  <2>1. /\ N(toBoard', Above(0)) \in Nat /\ N(toBoard, Above(0)) \in Nat
        /\ N(toBoard', Above(0)) <= N(toBoard, Above(0))
    BY <1>5
  <2> QED
    BY <1>2, <2>1
<1>11. pc' # "open" => started /\ ~(hold /\ at <= B)
  BY <1>2
<1> QED
  BY <1>1, <1>2, <1>6, <1>7, <1>8, <1>9, <1>10, <1>11 DEF CountInv

LEMMA PaidStill ==
  ASSUME NEW r \in Int, NEW a \in Int, NEW b \in Int, NEW c \in Nat, NEW d \in Nat,
         NEW s \in Nat, NEW z \in Nat, NEW k \in Nat, NEW l \in Nat, NEW t \in Nat, NEW u \in Nat,
         NEW n \in Nat, NEW m \in Nat, NEW x \in Nat,
         d <= c, z <= s + (m - n), m >= n, l <= k, u = 0 => z = 0, a = b /\ u = 0 => t = 0 \/ m > n,
         Paid(r, c, s, k, a, b, t, n, x)
  PROVE  Paid(r, d, z, l, a, b, u, m, x)
<1>1. MAX_RETRIES \in Nat
  BY Constants
<1>2. PICK e \in Nat : e = (IF a = b THEN k ELSE 0)
  OBVIOUS
<1>3. PICK f \in Nat : f = (IF a = b THEN l ELSE 0) /\ f <= e
  BY <1>2
<1>4. PICK g \in Nat : g = (IF a = b /\ t = 0 THEN 2 ELSE 0)
  OBVIOUS
<1>5. PICK h \in Nat : h = (IF a = b /\ u = 0 THEN 2 ELSE 0) /\ h <= g + 2 * (m - n)
  BY <1>4
<1>6. MAX_RETRIES - r + c + s + e + g <= 2 * (n + x)
  BY <1>2, <1>4 DEF Paid
<1>7. MAX_RETRIES - r + d + z + f + h <= 2 * (m + x)
  <2>1. CASE u = 0
    <3>1. z = 0 /\ h <= g + 2 * (m - n)
      BY <1>5, <2>1
    <3> QED
      BY <1>1, <1>3, <1>6, <3>1
  <2>2. CASE u # 0
    <3>1. h = 0
      BY <1>5, <2>2
    <3> QED
      BY <1>1, <1>3, <1>6, <3>1
  <2> QED
    BY <2>1, <2>2
<1> QED
  BY <1>3, <1>5, <1>7 DEF Paid

\* Steps that take nothing from the line but strays, and those of noise.
LEMMA BoardQuiet ==
  ASSUME TypeInv, LineInv, CrcInv, CountInv, RetryInv,
         UNCHANGED <<pc, retries, crc_mode, read_length, at_eof, len, sender, cross>>,
         Shrunk(toBoard', toBoard), NEW n \in Nat, noise' = n, n >= noise,
         N(toBoard', Spoilt) <= N(toBoard, Spoilt) + (n - noise),
         Says(toSender', toSender, "ACK"),
         Asked(toSender') <= Asked(toSender),
         NEW t \in Nat, T' = t, t <= T, NEW a \in Nat, Acks' = a, a <= Acks,
         started /\ at <= Blocks /\ t = 0 => T = 0 \/ n > noise
  PROVE  CrcInv' /\ CountInv' /\ RetryInv'
<1>1. Live' <=> Live
  BY DEF Live
<1>2. toBoard' \in Seq(Items) /\ toSender' \in Seq(Signals)
  BY DEF Shrunk, Says
<1>4. B \in Nat /\ Acks \in Nat /\ Asks \in Nat /\ T \in Nat /\ N(toBoard, Spoilt) \in Nat
  BY Counts
<1>6. cross \in Nat /\ at \in Int /\ retries \in Int /\ noise \in Nat
  BY Types
<1>7. CountInv'
  <2>1. CASE Live
    <3>1. T <= 1 + cross
      BY <2>1 DEF CountInv
    <3>2. t <= 1 + cross
      BY <1>4, <1>6, <3>1
    <3>3. cross' = cross /\ cross >= cross
      BY <1>6
    <3> QED
      BY <1>1, <1>6, <3>2, <3>3, BoardCount
  <2>2. CASE ~Live
    BY <1>1, <2>2 DEF CountInv
  <2> QED
    BY <2>1, <2>2
<1>8. CrcInv'
  <2>1. "ACK" \in Signals
    BY DEF Signals
  <2> QED
    BY <1>1, <2>1, BoardCrc
<1>9. RetryInv'
  <2> SUFFICES ASSUME Live', pc' # "open", Danger' 
             PROVE  Paid(retries, N(toBoard', Copies(B)), N(toBoard', Spoilt), Asks', at, B, t, n, cross)
    <3>1. B' = B /\ at' = at
      BY DEF B, sender
    <3> QED
      BY <3>1 DEF RetryInv
  <2>1. B' = B /\ at' = at /\ retries' = retries
    BY DEF B, sender
  <2>2. PICK c \in Nat : N(toBoard, Copies(B)) = c
    BY HitsFinite DEF LineInv
  <2>3. PICK d \in Nat : N(toBoard', Copies(B)) = d
    BY <1>2, HitsFinite
  <2>4. d <= c
    BY <1>4, <2>2, <2>3 DEF Shrunk
  <2>5. PICK s \in Nat : N(toBoard, Spoilt) = s
    BY <1>4
  <2>6. PICK z \in Nat : N(toBoard', Spoilt) = z /\ z <= s + (n - noise)
    BY <1>2, <2>5, HitsFinite
  <2>7. PICK k \in Nat : Asks = k
    BY <1>4
  <2>8. PICK l \in Nat : Asks' = l /\ l <= k
    <3>1. Asked(toSender') \in Nat
      BY <1>2, SignalCounts
    <3> QED
      BY <2>7, <3>1 DEF Asks
  <2>9. Danger
    BY <1>4, <1>6, <2>1, <2>2, <2>3, <2>4 DEF Danger
  <2>10. Paid(retries, c, s, k, at, B, T, noise, cross)
    BY <1>1, <2>2, <2>5, <2>7, <2>9 DEF RetryInv
  <2>11. B <= Blocks /\ started
    BY <1>1 DEF CountInv
  <2>12. at = B /\ t = 0 => T = 0 \/ n > noise
    BY <2>11
  <2>13. t = 0 => z = 0
    <3>1. Spoilt \subseteq Tokens
      BY DEF Spoilt
    <3>2. N(toBoard', Spoilt) <= N(toBoard', Tokens)
      BY <1>2, <3>1, NMono
    <3>3. PICK x, y, w \in Nat : N(toBoard', Tokens) = x /\ t = x + y + w
      BY <1>2, CountsNext
    <3> QED
      BY <2>6, <3>2, <3>3
  <2>15. B \in Int
    BY <1>4
  <2>16. Paid(retries, d, z, l, at, B, t, n, cross)
    BY <1>4, <1>6, <2>4, <2>6, <2>8, <2>10, <2>12, <2>13, <2>15, PaidStill, Zenon
  <2> QED
    BY <2>3, <2>6, <2>8, <2>16
<1> QED
  BY <1>7, <1>8, <1>9

\* Nothing is loaded.
LEMMA SameLoaded ==
  ASSUME Loaded' = Loaded, announces' = announces
  PROVE  Wanted' = Wanted /\ (InSequence => InSequence')
<1>1. Wanted' = Wanted
  BY DEF Wanted
<1> QED
  BY <1>1 DEF InSequence

\* Steps that leave the board's data alone.
LEMMA SameData ==
  ASSUME TypeInv, InSequence, DataInv,
         UNCHANGED <<pc, retries, crc_retries, crc_mode, next_blk, file_length, read_length,
                     at_eof, len, buf, mem, announces>>,
         in_hdr' \in BOOLEAN, hdr_chars' \in BOOLEAN, tx_ack' \in BOOLEAN, hold' \in BOOLEAN,
         started' \in BOOLEAN, scrc' \in BOOLEAN, cancelled' \in BOOLEAN,
         at' \in 0 .. FinStep + 1, noise' \in 0 .. MaxNoise, cross' \in 0 .. MaxCross
  PROVE  TypeInv' /\ InSequence' /\ DataInv'
<1>1. TypeInv'
  BY DEF TypeInv, TypeOK
<1>2. Loaded' = Loaded
  BY DEF Loaded
<1>3. Wanted' = Wanted /\ InSequence'
  BY <1>2, SameLoaded
<1>4. DataInv'
  BY <1>2, <1>3 DEF DataInv, Live, B
<1> QED
  BY <1>1, <1>3, <1>4

LEMMA GetHdrStep ==
  ASSUME Inv, GetHdr
  PROVE  Inv'
<1> USE DEF Inv
<1>1. /\ in_hdr' = TRUE /\ hdr_chars' = FALSE /\ tx_ack' = FALSE /\ toBoard' = toBoard
      /\ UNCHANGED <<pc, retries, crc_retries, crc_mode, next_blk, file_length, read_length,
                     at_eof, len, buf, mem, sender, noise, cross>>
  BY DEF GetHdr
<1>2. /\ hold' = hold /\ started' = started /\ scrc' = scrc /\ cancelled' = cancelled
      /\ at' = at /\ announces' = announces
  BY <1>1 DEF sender
<1>3. TypeInv' /\ InSequence' /\ DataInv'
  <2>1. at' \in 0 .. FinStep + 1 /\ noise' \in 0 .. MaxNoise /\ cross' \in 0 .. MaxCross
    BY <1>1, <1>2 DEF TypeInv, TypeOK
  <2>2. hold' \in BOOLEAN /\ started' \in BOOLEAN /\ scrc' \in BOOLEAN /\ cancelled' \in BOOLEAN
    BY <1>2, Types
  <2> QED
    BY <1>1, <1>2, <2>1, <2>2, SameData
<1>4. toBoard \in Seq(Items) /\ toSender \in Seq(Signals) /\ Shrunk(toBoard', toBoard)
  BY <1>1, ShrunkSame DEF LineInv
<1>5. "ACK" \in Signals /\ Is("ACK", "C") = 0 /\ Is("ACK", "NAK") = 0 /\ Is("ACK", "ACK") = 1
  BY DEF Signals, Is
<1>6. tx_ack => PUTC(<<"ACK">>)
  BY DEF GetHdr
<1>7. ~tx_ack => PUTC(<<>>)
  BY DEF GetHdr
<1>8. Says(toSender', toSender, "ACK")
  BY <1>4, <1>5, <1>6, <1>7, PutOne, PutNone, LessSays
<1>9. toSender' \in Seq(Signals)
  BY <1>8 DEF Says
<1>10. PICK t, a, k, x, y, z, l \in Nat :
           /\ T' = t /\ Acks' = a /\ Asks' = k /\ N(toBoard', Tokens) = x
           /\ Bit(tx_ack') = y /\ Ackd(toSender') = z /\ Len(toSender') = l
           /\ t = x + l + y /\ a = z + y /\ Asked(toSender') = k
  BY <1>1, <1>4, <1>9, CountsNext
<1>11. y = 0
  BY <1>1, <1>10 DEF Bit
<1>12. PICK b \in {0, 1} : Bit(tx_ack) = b /\ (tx_ack <=> b = 1)
  BY Types DEF Bit
<1>13. /\ Ackd(toSender) \in Nat /\ Len(toSender) \in Nat /\ N(toBoard, Tokens) = x
       /\ Asked(toSender) \in Nat /\ T = x + Len(toSender) + b /\ Acks = Ackd(toSender) + b
  BY <1>1, <1>4, <1>10, <1>12, SignalCounts DEF T, Acks
<1>14. /\ l <= Len(toSender) + b /\ z <= Ackd(toSender) + b /\ k <= Asked(toSender)
       /\ Runs => l = Len(toSender) + b
  <2>1. CASE tx_ack
    <3>1. /\ Says(toSender', toSender, "ACK")
          /\ Runs => toSender' = Append(toSender, "ACK")
      BY <1>4, <1>5, <1>6, <2>1, PutOne
    <3>2. Runs => Len(toSender') = Len(toSender) + 1
      BY <1>4, <1>5, <3>1, Spoken
    <3>3. /\ Len(toSender') <= Len(toSender) + 1
          /\ Ackd(toSender') <= Ackd(toSender) + Is("ACK", "ACK")
          /\ Asked(toSender') <= Asked(toSender) + Is("ACK", "C") + Is("ACK", "NAK")
      BY <1>8 DEF Says
    <3> QED
      BY <1>5, <1>10, <1>12, <1>13, <2>1, <3>2, <3>3
  <2>2. CASE ~tx_ack
    <3>1. Less(toSender', toSender) /\ (Runs => toSender' = toSender)
      BY <1>4, <1>7, <2>2, PutNone
    <3>2. /\ Len(toSender') <= Len(toSender) /\ Ackd(toSender') <= Ackd(toSender)
          /\ Asked(toSender') <= Asked(toSender)
      BY <3>1 DEF Less
    <3>3. Runs => Len(toSender') = Len(toSender)
      BY <3>1
    <3>4. b = 0
      BY <1>12, <2>2
    <3> QED
      BY <1>10, <1>13, <3>2, <3>3, <3>4
  <2> QED
    BY <2>1, <2>2
<1>15. t <= T /\ a <= Acks /\ (Runs => t = T)
  BY <1>10, <1>11, <1>13, <1>14
<1>16. noise \in Nat /\ noise' = noise /\ noise >= noise /\ at \in Int
  BY <1>1, Types
<1>17. N(toBoard', Spoilt) <= N(toBoard, Spoilt) + (noise - noise)
  <2>1. N(toBoard, Spoilt) \in Nat
    BY <1>4, HitsFinite
  <2> QED
    BY <1>1, <1>16, <2>1
<1>18. started /\ at <= Blocks => Runs
  BY <1>16, BlocksFacts DEF Runs
<1>19. Asked(toSender') <= Asked(toSender)
  BY <1>10, <1>14
<1>20. started /\ at <= Blocks /\ t = 0 => T = 0 \/ noise > noise
  BY <1>15, <1>18
<1>21. CrcInv' /\ CountInv' /\ RetryInv'
  BY <1>1, <1>4, <1>8, <1>10, <1>15, <1>16, <1>17, <1>19, <1>20, BoardQuiet
<1>22. LineInv'
  <2>1. ~started => ~Runs
    BY DEF Runs
  <2>2. ~started => toSender' = <<>>
    BY <1>4, <1>5, <1>6, <1>7, <2>1, PutOne, PutNone
  <2>3. ~started => toBoard' = <<>> /\ pc' \in {"open", "done"}
    BY <1>1 DEF LineInv
  <2>4. pc' \in {"open", "read", "final"} => ~at_eof' /\ len' = 0
    BY <1>1 DEF LineInv
  <2> QED
    BY <1>1, <1>4, <1>9, <1>16, <1>17, <2>2, <2>3, <2>4, BoardLine
<1> QED
  BY <1>3, <1>21, <1>22

LEMMA HdrSkipsStep ==
  ASSUME Inv, HdrSkips
  PROVE  Inv'
<1> USE DEF Inv
<1>0. toBoard # <<>> /\ toBoard' = Tail(toBoard) /\ Skipped(Head(toBoard))
  BY DEF HdrSkips
<1>1. /\ hdr_chars' = TRUE /\ in_hdr' = in_hdr
      /\ UNCHANGED <<pc, retries, crc_retries, crc_mode, tx_ack, next_blk, file_length,
                     read_length, at_eof, len, buf, mem, sender, toSender, noise, cross>>
  BY DEF HdrSkips
<1>2. /\ hold' = hold /\ started' = started /\ scrc' = scrc /\ cancelled' = cancelled
      /\ at' = at /\ announces' = announces
  BY <1>1 DEF sender
<1>3. TypeInv' /\ InSequence' /\ DataInv'
  <2>1. at' \in 0 .. FinStep + 1 /\ noise' \in 0 .. MaxNoise /\ cross' \in 0 .. MaxCross
    BY <1>1, <1>2 DEF TypeInv, TypeOK
  <2>2. /\ hold' \in BOOLEAN /\ started' \in BOOLEAN /\ scrc' \in BOOLEAN
        /\ cancelled' \in BOOLEAN /\ in_hdr' \in BOOLEAN /\ tx_ack' \in BOOLEAN
    BY <1>1, <1>2, Types
  <2> QED
    BY <1>1, <1>2, <2>1, <2>2, SameData
<1>4. toBoard \in Seq(Items) /\ toSender \in Seq(Signals) /\ toSender' = toSender
  BY <1>1 DEF LineInv
<1>5. PICK m : m = Head(toBoard)
  BY Zenon
<1>6. /\ m \in Items /\ toBoard' \in Seq(Items)
      /\ \A V \in SUBSET Tokens : N(toBoard', V) = N(toBoard, V) - In(m, V)
  <2>1. Drawn(toBoard', toBoard, m)
    BY <1>0, <1>4, <1>5, TakenDrawn
  <2> QED
    BY <2>1 DEF Drawn
<1>7. Shrunk(toBoard', toBoard) /\ N(toBoard', Spoilt) <= N(toBoard, Spoilt)
  BY <1>0, <1>4, ShrunkTaken
<1>8. "ACK" \in Signals /\ Says(toSender', toSender, "ACK") /\ Asked(toSender') <= Asked(toSender)
  <2>1. "ACK" \in Signals
    BY DEF Signals
  <2>2. Asked(toSender) \in Nat
    BY <1>4, SignalCounts
  <2> QED
    BY <1>4, <2>1, <2>2, LessSame, LessSays
<1>9. noise \in Nat /\ noise' = noise /\ noise >= noise /\ at \in Int
  BY <1>1, Types
<1>10. PICK t, a, k, x, y, z, l \in Nat :
           /\ T' = t /\ Acks' = a /\ Asks' = k /\ N(toBoard', Tokens) = x
           /\ Bit(tx_ack') = y /\ Ackd(toSender') = z /\ Len(toSender') = l
           /\ t = x + l + y /\ a = z + y /\ Asked(toSender') = k
  BY <1>4, <1>6, CountsNext
<1>11. /\ N(toBoard, Tokens) \in Nat /\ x = N(toBoard, Tokens) - In(m, Tokens)
       /\ T = N(toBoard, Tokens) + l + y /\ Acks = z + y
  BY <1>1, <1>4, <1>6, <1>10, HitsFinite DEF T, Acks
<1>12. t <= T /\ a <= Acks /\ (m \notin Tokens => t = T)
  BY <1>10, <1>11, SMTT(30) DEF In
<1>13. at <= Blocks => m \notin Tokens
  <2>1. SUFFICES ASSUME at <= Blocks, m \in Tokens PROVE FALSE
    OBVIOUS
  <2>2. m.op = "EOT"
    BY <1>0, <1>5, <1>6, <2>1, Sets DEF Skipped
  <2>3. val(m) = Blocks + 1
    BY <2>2, BlocksFacts DEF val
  <2>4. m \in Above(at)
    BY <1>6, <1>9, <2>1, <2>3, BlocksFacts, Sets
  <2>5. Above(at) \in SUBSET Tokens
    BY DEF Above
  <2>6. N(toBoard', Above(at)) = N(toBoard, Above(at)) - 1 /\ N(toBoard', Above(at)) \in Nat
    BY <1>6, <2>4, <2>5, HitsFinite DEF In
  <2> QED
    BY <2>6 DEF LineInv
<1>14. started /\ at <= Blocks /\ t = 0 => T = 0 \/ noise > noise
  BY <1>12, <1>13
<1>15. N(toBoard', Spoilt) <= N(toBoard, Spoilt) + (noise - noise)
  <2>1. N(toBoard, Spoilt) \in Nat /\ N(toBoard', Spoilt) \in Nat
    BY <1>4, <1>6, HitsFinite
  <2> QED
    BY <1>7, <1>9, <2>1
<1>16. CrcInv' /\ CountInv' /\ RetryInv'
  BY <1>1, <1>7, <1>8, <1>9, <1>10, <1>12, <1>14, <1>15, BoardQuiet
<1>17. LineInv'
  <2>1. started
    BY <1>0 DEF LineInv
  <2>2. pc' \in {"open", "read", "final"} => ~at_eof' /\ len' = 0
    BY <1>1 DEF LineInv
  <2>3. in_hdr' => ~tx_ack'
    BY <1>1 DEF LineInv
  <2> QED
    BY <1>1, <1>4, <1>7, <1>9, <1>15, <2>1, <2>2, <2>3, BoardLine
<1> QED
  BY <1>3, <1>16, <1>17

LEMMA NoiseStep ==
  ASSUME Inv, Noise
  PROVE  Inv'
<1> USE DEF Inv
<1>1. noise < MaxNoise /\ UNCHANGED <<board, sender, cross>>
  BY DEF Noise
<1>2. /\ hold' = hold /\ started' = started /\ scrc' = scrc /\ cancelled' = cancelled
      /\ at' = at /\ announces' = announces
      /\ UNCHANGED <<pc, in_hdr, hdr_chars, retries, crc_retries, crc_mode, tx_ack, next_blk,
                     file_length, read_length, at_eof, len, buf, mem, cross>>
  BY <1>1 DEF sender, board
<1>3. PICK n \in Nat : noise' = n /\ n = noise + 1 /\ noise \in Nat /\ n > noise /\ n \in 0 .. MaxNoise
  BY <1>1, Types, Constants DEF Noise
<1>4. TypeInv' /\ InSequence' /\ DataInv'
  <2>1. at' \in 0 .. FinStep + 1 /\ noise' \in 0 .. MaxNoise /\ cross' \in 0 .. MaxCross
    BY <1>1, <1>2, <1>3 DEF TypeInv, TypeOK
  <2>2. /\ hold' \in BOOLEAN /\ started' \in BOOLEAN /\ scrc' \in BOOLEAN /\ hdr_chars' \in BOOLEAN
        /\ cancelled' \in BOOLEAN /\ in_hdr' \in BOOLEAN /\ tx_ack' \in BOOLEAN
    BY <1>2, Types
  <2> QED
    BY <1>2, <2>1, <2>2, SameData
<1>5. toBoard \in Seq(Items) /\ toSender \in Seq(Signals) /\ N(toBoard, Spoilt) \in Nat
  BY HitsFinite DEF LineInv
<1> DEFINE Spoils ==
      /\ Shrunk(toBoard', toBoard) /\ N(toBoard', Spoilt) <= N(toBoard, Spoilt) + (n - noise)
      /\ Less(toSender', toSender) /\ (~started => toSender' = <<>> /\ toBoard' = <<>>)
<1>6. Spoils
  <2>1. ASSUME NEW i \in DOMAIN toSender, toSender' = RemoveAt(toSender, i), toBoard' = toBoard
        PROVE  Spoils
    <3>1. Less(toSender', toSender)
      BY <1>5, <2>1, Lost
    <3>2. Shrunk(toBoard', toBoard)
      BY <1>5, <2>1, ShrunkSame
    <3>3. N(toBoard', Spoilt) <= N(toBoard, Spoilt) + (n - noise)
      BY <1>3, <1>5, <2>1
    <3>4. started
      BY <2>1 DEF LineInv
    <3> QED
      BY <3>1, <3>2, <3>3, <3>4
  <2>2. ASSUME NEW i \in DOMAIN toBoard, toSender' = toSender,
               \/ toBoard' = RemoveAt(toBoard, i)
               \/ toBoard' = InsertAt(toBoard, i, Stray)
               \/ toBoard[i].op = "blk" /\ toBoard' = [toBoard EXCEPT ![i].ok = FALSE]
        PROVE  Spoils
    <3>1. Less(toSender', toSender)
      BY <1>5, <2>2, LessSame
    <3>2. Shrunk(toBoard', toBoard) /\ N(toBoard', Spoilt) <= N(toBoard, Spoilt) + 1
      BY <1>5, <2>2, ShrunkNoise
    <3>3. N(toBoard', Spoilt) <= N(toBoard, Spoilt) + (n - noise)
      <4>1. n - noise = 1
        BY <1>3
      <4> QED
        BY <3>2, <4>1
    <3>4. started
      BY <2>2 DEF LineInv
    <3> QED
      BY <3>1, <3>2, <3>3, <3>4
  <2> QED
    BY <2>1, <2>2 DEF Noise
<1>7. "ACK" \in Signals /\ Says(toSender', toSender, "ACK") /\ Asked(toSender') <= Asked(toSender)
  <2>1. "ACK" \in Signals
    BY DEF Signals
  <2>2. Asked(toSender') <= Asked(toSender)
    BY <1>6 DEF Less
  <2> QED
    BY <1>5, <1>6, <2>1, <2>2, LessSays
<1>8. toSender' \in Seq(Signals) /\ toBoard' \in Seq(Items)
  BY <1>6 DEF Less, Shrunk
<1>9. PICK t, a, k, x, y, z, l \in Nat :
           /\ T' = t /\ Acks' = a /\ Asks' = k /\ N(toBoard', Tokens) = x
           /\ Bit(tx_ack') = y /\ Ackd(toSender') = z /\ Len(toSender') = l
           /\ t = x + l + y /\ a = z + y /\ Asked(toSender') = k
  BY <1>8, CountsNext
<1>10. /\ N(toBoard, Tokens) \in Nat /\ x <= N(toBoard, Tokens) /\ l <= Len(toSender)
       /\ z <= Ackd(toSender) /\ Len(toSender) \in Nat /\ Ackd(toSender) \in Nat
  BY <1>5, <1>6, <1>9, HitsFinite, SignalCounts DEF Shrunk, Less
<1>11. T = N(toBoard, Tokens) + Len(toSender) + y /\ Acks = Ackd(toSender) + y
  BY <1>2, <1>9 DEF T, Acks
<1>12. t <= T /\ a <= Acks
  BY <1>9, <1>10, <1>11
<1>13. n >= noise /\ (started /\ at <= Blocks /\ t = 0 => T = 0 \/ n > noise)
  BY <1>3
<1>14. CrcInv' /\ CountInv' /\ RetryInv'
  BY <1>1, <1>2, <1>3, <1>6, <1>7, <1>9, <1>12, <1>13, BoardQuiet
<1>15. LineInv'
  <2>1. pc' \in {"open", "read", "final"} => ~at_eof' /\ len' = 0
    BY <1>2 DEF LineInv
  <2>2. in_hdr' => ~tx_ack'
    BY <1>2 DEF LineInv
  <2>3. ~started => pc' \in {"open", "done"}
    BY <1>2 DEF LineInv
  <2> QED
    BY <1>1, <1>3, <1>6, <1>8, <2>1, <2>2, <2>3, BoardLine
<1> QED
  BY <1>4, <1>14, <1>15

-----------------------------------------------------------------------------
(* Steps of the sender, and load_serial_ymodem. *)

\* q is s with m behind it.
Joined(q, s, m) ==
  /\ m \in Items /\ q \in Seq(Items)
  /\ \A V \in SUBSET Tokens : N(q, V) = N(s, V) + In(m, V)
  /\ \A V, W \in SUBSET Tokens :
       NoneAfter(s, V, W) /\ (N(s, V) = 0 \/ m \notin W) => NoneAfter(q, V, W)

LEMMA AppendJoined ==
  ASSUME NEW s \in Seq(Items), NEW m \in Items, NEW q, q = Append(s, m)
  PROVE  Joined(q, s, m)
<1>1. Append(s, m) \in Seq(Items) /\ \A V \in SUBSET Tokens : N(Append(s, m), V) = N(s, V) + In(m, V)
  BY NAppend
<1>2. ASSUME NEW V \in SUBSET Tokens, NEW W \in SUBSET Tokens,
             NoneAfter(s, V, W), N(s, V) = 0 \/ m \notin W
      PROVE  NoneAfter(Append(s, m), V, W)
  BY <1>2, AfterAppend
<1>3. q \in Seq(Items) /\ \A V \in SUBSET Tokens : N(q, V) = N(s, V) + In(m, V)
  BY <1>1, Zenon
<1>4. \A V, W \in SUBSET Tokens :
        NoneAfter(s, V, W) /\ (N(s, V) = 0 \/ m \notin W) => NoneAfter(q, V, W)
  BY <1>2, Zenon
<1> QED
  BY <1>3, <1>4 DEF Joined

LEMMA StartsStep ==
  ASSUME Inv, SenderStarts
  PROVE  Inv'
<1> USE DEF Inv
<1>1. UNCHANGED <<board, at, hold, announces, scrc, cancelled, toSender, toBoard, noise, cross>>
  BY DEF SenderStarts
<1>2. /\ hold' = hold /\ started' = TRUE /\ scrc' = scrc /\ cancelled' = cancelled
      /\ at' = at /\ announces' = announces
      /\ UNCHANGED <<pc, in_hdr, hdr_chars, retries, crc_retries, crc_mode, tx_ack, next_blk,
                     file_length, read_length, at_eof, len, buf, mem, cross, noise, toSender, toBoard>>
  BY <1>1 DEF board, SenderStarts
<1>3. TypeInv' /\ InSequence' /\ DataInv'
  <2>1. at' \in 0 .. FinStep + 1 /\ noise' \in 0 .. MaxNoise /\ cross' \in 0 .. MaxCross
    BY <1>2 DEF TypeInv, TypeOK
  <2>2. /\ hold' \in BOOLEAN /\ started' \in BOOLEAN /\ scrc' \in BOOLEAN /\ hdr_chars' \in BOOLEAN
        /\ cancelled' \in BOOLEAN /\ in_hdr' \in BOOLEAN /\ tx_ack' \in BOOLEAN
    BY <1>2, Types
  <2> QED
    BY <1>2, <2>1, <2>2, SameData
<1>4. LineInv'
  BY <1>2 DEF LineInv
<1>5. CrcInv'
  BY <1>2 DEF CrcInv, Live
<1>6. pc' = "open"
  BY <1>2 DEF LineInv, SenderStarts
<1>7. RetryInv'
  BY <1>6 DEF RetryInv
<1>8. Live' = Live /\ T' = T /\ B' = B /\ Acks' = Acks
  BY <1>2 DEF Live, T, B, Acks
<1>9. CountInv'
  BY <1>2, <1>6, <1>8 DEF CountInv
<1> QED
  BY <1>3, <1>4, <1>5, <1>7, <1>9

LEMMA CancelsStep ==
  ASSUME Inv, SenderCancels
  PROVE  Inv'
<1> USE DEF Inv
<1>1. /\ Runs /\ at' = FinStep + 1 /\ toBoard' = Append(toBoard, CAN)
      /\ UNCHANGED <<board, hold, started, announces, scrc, toSender, noise, cross>>
  BY DEF SenderCancels
<1>0. cancelled' = TRUE
  BY DEF SenderCancels
<1>2. /\ hold' = hold /\ started' = started /\ scrc' = scrc /\ announces' = announces
      /\ UNCHANGED <<pc, in_hdr, hdr_chars, retries, crc_retries, crc_mode, tx_ack, next_blk,
                     file_length, read_length, at_eof, len, buf, mem, cross, noise, toSender>>
  BY <1>1 DEF board
<1>3. TypeInv' /\ InSequence' /\ DataInv'
  <2>1. at' \in 0 .. FinStep + 1 /\ noise' \in 0 .. MaxNoise /\ cross' \in 0 .. MaxCross
    BY <1>1, <1>2, BlocksFacts DEF TypeInv, TypeOK
  <2>2. /\ hold' \in BOOLEAN /\ started' \in BOOLEAN /\ scrc' \in BOOLEAN /\ hdr_chars' \in BOOLEAN
        /\ cancelled' \in BOOLEAN /\ in_hdr' \in BOOLEAN /\ tx_ack' \in BOOLEAN
    BY <1>0, <1>2, Types
  <2> QED
    BY <1>2, <2>1, <2>2, SameData
<1>4. toBoard \in Seq(Items) /\ toSender \in Seq(Signals)
  BY DEF LineInv
<1>5. Joined(toBoard', toBoard, CAN) /\ CAN \notin Tokens
  BY <1>1, <1>4, ItemTypes, AppendJoined
<1>6. toBoard' \in Seq(Items) /\ \A V \in SUBSET Tokens : N(toBoard', V) = N(toBoard, V)
  <2>1. ASSUME NEW V \in SUBSET Tokens PROVE N(toBoard', V) = N(toBoard, V)
    <3>1. N(toBoard', V) = N(toBoard, V) + In(CAN, V) /\ N(toBoard, V) \in Nat /\ CAN \notin V
      BY <1>4, <1>5, HitsFinite DEF Joined
    <3> QED
      BY <3>1 DEF In
  <2> QED
    BY <1>5, <2>1 DEF Joined
<1>7. \A V, W \in SUBSET Tokens : NoneAfter(toBoard, V, W) => NoneAfter(toBoard', V, W)
  <2>1. \A W \in SUBSET Tokens : CAN \notin W
    BY <1>5
  <2> QED
    BY <1>5, <2>1 DEF Joined
<1>8. /\ \A v : UpTo(v) \in SUBSET Tokens /\ Above(v) \in SUBSET Tokens /\ Copies(v) \in SUBSET Tokens
      /\ Spoilt \in SUBSET Tokens /\ WithCrc \in SUBSET Tokens /\ WithSum \in SUBSET Tokens
      /\ Tokens \in SUBSET Tokens
  BY DEF UpTo, Above, Copies, Spoilt, WithCrc, WithSum
<1>9. /\ \A v : /\ N(toBoard', UpTo(v)) = N(toBoard, UpTo(v))
                /\ N(toBoard', Above(v)) = N(toBoard, Above(v))
                /\ N(toBoard', Copies(v)) = N(toBoard, Copies(v))
      /\ N(toBoard', Spoilt) = N(toBoard, Spoilt) /\ N(toBoard', WithCrc) = N(toBoard, WithCrc)
      /\ N(toBoard', WithSum) = N(toBoard, WithSum) /\ N(toBoard', Tokens) = N(toBoard, Tokens)
  BY <1>6, <1>8
<1>10. Live' = Live /\ T' = T /\ B' = B /\ Acks' = Acks /\ Asks' = Asks
  BY <1>2, <1>9 DEF Live, T, B, Acks, Asks
<1>11. at \in Int /\ started /\ at <= FinStep
  BY <1>1, Types DEF Runs
<1>12. LineInv'
  <2>1. ASSUME NEW v \in Steps PROVE NoneAfter(toBoard', Above(v), UpTo(v))
    BY <1>7, <1>8 DEF LineInv
  <2>2. N(toBoard', Above(FinStep + 1)) = 0
    <3>1. FinStep + 1 \in Int /\ at <= FinStep + 1
      BY <1>11, BlocksFacts
    <3>2. N(toBoard, Above(FinStep + 1)) <= N(toBoard, Above(at)) /\ N(toBoard, Above(FinStep + 1)) \in Nat
      BY <1>4, <1>11, <3>1, SetOrder
    <3>3. N(toBoard, Above(at)) = 0
      BY DEF LineInv
    <3> QED
      BY <1>9, <3>2, <3>3
  <2>3. N(toBoard', Spoilt) <= noise
    BY <1>9 DEF LineInv
  <2>4. ~(at' <= 1)
    BY <1>1, BlocksFacts
  <2>5. at' \in {0, 1, FinStep, FinStep + 1}
    BY <1>1
  <2>6. in_hdr => ~tx_ack
    BY DEF LineInv
  <2>7. pc \in {"open", "read", "final"} => ~at_eof /\ len = 0
    BY DEF LineInv
  <2> QED
    BY <1>1, <1>2, <1>4, <1>6, <1>11, <2>1, <2>2, <2>3, <2>4, <2>5, <2>6, <2>7 DEF LineInv
<1>13. CrcInv'
  <2>1. NoneAfter(toBoard, WithSum, WithCrc) => NoneAfter(toBoard', WithSum, WithCrc)
    BY <1>7, <1>8
  <2> QED
    BY <1>2, <1>9, <1>10, <2>1 DEF CrcInv
<1>14. B \in Nat
  BY Counts
<1>15. Live => at' >= B /\ ~(at' <= B) /\ at' # B
  <2>1. Live => B <= Blocks
    BY DEF CountInv
  <2> QED
    BY <1>1, <1>14, <2>1, BlocksFacts
<1>16. CountInv'
  <2> SUFFICES ASSUME Live PROVE CountInv'
    BY <1>10 DEF CountInv
  <2>1. /\ T <= 1 + cross /\ B \in 0 .. Blocks
        /\ N(toBoard, UpTo(B - 1)) = 0 /\ N(toBoard, Above(B + 1 + cross)) = 0
        /\ pc = "open" => Acks = 0 /\ B = 0 /\ N(toBoard, Above(0)) = 0
    BY DEF CountInv
  <2> QED
    BY <1>0, <1>2, <1>9, <1>10, <1>11, <1>15, <2>1 DEF CountInv
<1>17. RetryInv'
  <2> SUFFICES ASSUME Live, pc # "open", Danger'
               PROVE  Paid(retries, N(toBoard, Copies(B)), N(toBoard, Spoilt), Asks', at', B', T', noise, cross)
    BY <1>2, <1>9, <1>10 DEF RetryInv
  <2>1. Danger
    BY <1>9, <1>10, <1>15 DEF Danger
  <2>2. PICK c, s, k \in Nat : N(toBoard, Copies(B)) = c /\ N(toBoard, Spoilt) = s /\ Asks = k
    BY <1>4, Counts, HitsFinite
  <2>3. Paid(retries, c, s, k, at, B, T, noise, cross)
    BY <2>1, <2>2 DEF RetryInv
  <2>4. retries \in Int /\ noise \in Nat /\ cross \in Nat /\ MAX_RETRIES \in Nat
    BY Types, Constants
  <2>5. MAX_RETRIES - retries + c + s <= 2 * (noise + cross)
    BY <2>2, <2>3, <2>4 DEF Paid
  <2>6. PICK a \in Int : at' = a /\ a # B
    BY <1>1, <1>15, BlocksFacts
  <2>7. \A k1, t1 : Paid(retries, c, s, k1, a, B, t1, noise, cross)
    BY <2>2, <2>4, <2>5, <2>6 DEF Paid
  <2> QED
    BY <1>10, <2>2, <2>6, <2>7, Zenon
<1> QED
  BY <1>3, <1>12, <1>13, <1>16, <1>17

LEMMA Associates ==
  ASSUME NEW a \in Seq(Nat), NEW b \in Seq(Nat), NEW c \in Seq(Nat)
  PROVE  (a \o b) \o c = a \o (b \o c)
BY ConcatAssociative, SMTT(30)

\* What is stored and what is left for the next call are what was there.
LEMMA SplitAt ==
  ASSUME NEW m \in Seq(Nat), NEW s \in Seq(Nat), NEW n \in Nat, n <= Len(s)
  PROVE  /\ m \o SubSeq(s, 1, n) \in Seq(Nat)
         /\ SubSeq(s, n + 1, Len(s)) \in Seq(Nat)
         /\ Len(SubSeq(s, n + 1, Len(s))) = Len(s) - n
         /\ (m \o SubSeq(s, 1, n)) \o SubSeq(s, n + 1, Len(s)) = m \o s
<1>1. PICK l \in Nat : Len(s) = l
  BY LenProperties
<1>2. \A i \in 1 .. l : s[i] \in Nat
  BY <1>1, ElementOfSeq
<1>3. SubSeq(s, 1, n) \in Seq(Nat)
  <2>1. \A i \in 1 .. n : s[i] \in Nat
    BY <1>1, <1>2
  <2> QED
    BY <2>1, SubSeqProperties
<1>4. /\ SubSeq(s, n + 1, l) \in Seq(Nat)
      /\ Len(SubSeq(s, n + 1, l)) = l - n
  <2>1. PICK a \in Int : a = n + 1
    OBVIOUS
  <2>2. \A i \in a .. l : s[i] \in Nat
    BY <1>1, <1>2, <2>1
  <2>3. /\ SubSeq(s, a, l) \in Seq(Nat)
        /\ Len(SubSeq(s, a, l)) = IF a <= l THEN l - a + 1 ELSE 0
    BY <1>1, <2>2, SubSeqProperties
  <2>4. (IF a <= l THEN l - a + 1 ELSE 0) = l - n
    BY <1>1, <2>1
  <2> QED
    BY <2>1, <2>3, <2>4
<1>5. SubSeq(s, 1, n) \o SubSeq(s, n + 1, Len(s)) = s
  <2>1. 1 \in 1 .. Len(s) + 1 /\ n \in 1 - 1 .. Len(s) /\ Len(s) \in n .. Len(s)
    BY <1>1
  <2>2. SubSeq(s, 1, n) \o SubSeq(s, n + 1, Len(s)) = SubSeq(s, 1, Len(s))
    BY <2>1, ConcatAdjacentSubSeq
  <2> QED
    BY <2>2, SubSeqFull
<1>6. (m \o SubSeq(s, 1, n)) \o SubSeq(s, n + 1, Len(s))
        = m \o (SubSeq(s, 1, n) \o SubSeq(s, n + 1, Len(s)))
  <2>1. PICK a, b \in Seq(Nat) : a = SubSeq(s, 1, n) /\ b = SubSeq(s, n + 1, Len(s))
    BY <1>1, <1>3, <1>4
  <2>2. (m \o a) \o b = m \o (a \o b)
    BY Associates, Zenon
  <2> QED
    BY <2>1, <2>2, Zenon
<1>7. m \o SubSeq(s, 1, n) \in Seq(Nat)
  BY <1>3, ConcatProperties
<1> QED
  BY <1>1, <1>4, <1>5, <1>6, <1>7

LEMMA StoreStep ==
  ASSUME Inv, Store
  PROVE  Inv'
<1> USE DEF Inv
<1>1. /\ pc = "store" /\ retries' = MAX_RETRIES
      /\ mem' = mem \o SubSeq(buf, 1, Returned) /\ buf' = SubSeq(buf, Returned + 1, Len(buf))
      /\ pc' = IF at_eof THEN "done" ELSE IF len = -1 THEN "overrun" ELSE "read"
  BY DEF Store
<1>2. UNCHANGED <<in_hdr, hdr_chars, crc_retries, crc_mode, tx_ack, next_blk, file_length,
                  read_length, at_eof, len, sender, toSender, toBoard, noise, cross>>
  BY DEF Store
<1>3. /\ hold' = hold /\ started' = started /\ scrc' = scrc /\ cancelled' = cancelled
      /\ at' = at /\ announces' = announces
  BY <1>2 DEF sender
<1>4. mem \in Seq(Nat) /\ buf \in Seq(Nat) /\ len \in {0, -1} /\ at_eof \in BOOLEAN
  BY Types DEF TypeInv, TypeOK
<1>5. /\ mem' \in Seq(Nat) /\ buf' \in Seq(Nat) /\ mem' \o buf' = mem \o buf
      /\ Len(buf') \in 0 .. BUFFER + BLOCK - 1 /\ Len(buf') < BUFFER
  <2>1. PICK l \in Nat : Len(buf) = l /\ l <= BUFFER + BLOCK - 1
    BY <1>4, LenProperties DEF TypeInv, TypeOK
  <2>2. BUFFER \in Nat \ {0} /\ BLOCK \in Nat \ {0} /\ BLOCK <= BUFFER
    BY Constants
  <2>3. PICK n \in Nat : Returned = n /\ n <= l /\ n = IF l < BUFFER THEN l ELSE BUFFER
    BY <2>1, <2>2 DEF Returned
  <2>4. /\ mem' \in Seq(Nat) /\ buf' \in Seq(Nat) /\ mem' \o buf' = mem \o buf
        /\ Len(buf') = l - n
    <3>1. mem' = mem \o SubSeq(buf, 1, n) /\ buf' = SubSeq(buf, n + 1, Len(buf))
      BY <1>1, <2>3, Zenon
    <3>2. n <= Len(buf)
      BY <2>1, <2>3, Zenon
    <3>3. /\ mem \o SubSeq(buf, 1, n) \in Seq(Nat)
          /\ SubSeq(buf, n + 1, Len(buf)) \in Seq(Nat)
          /\ Len(SubSeq(buf, n + 1, Len(buf))) = Len(buf) - n
          /\ (mem \o SubSeq(buf, 1, n)) \o SubSeq(buf, n + 1, Len(buf)) = mem \o buf
      BY <1>4, <3>2, SplitAt, Zenon
    <3> QED
      BY <2>1, <3>1, <3>3, Zenon
  <2>5. l - n \in 0 .. BUFFER + BLOCK - 1 /\ l - n < BUFFER
    BY <2>1, <2>2, <2>3
  <2> QED
    BY <2>4, <2>5
<1>6. Live' => Live /\ pc' = "read"
  BY <1>1, <1>2, <1>4 DEF Live
<1>7. TypeInv'
  <2>1. pc' \in {"open", "read", "final", "store", "done", "overrun"}
    BY <1>1
  <2>2. MAX_RETRIES \in 0 .. MAX_RETRIES
    BY Constants
  <2>3. Len(buf') \in 0 .. BUFFER + BLOCK - 1 /\ buf' \in Seq(Nat) /\ mem' \in Seq(Nat)
    BY <1>5
  <2>4. retries' \in 0 .. MAX_RETRIES
    BY <1>1, <2>2
  <2>5. /\ {in_hdr', hdr_chars', crc_mode', tx_ack', at_eof'} \subseteq BOOLEAN
        /\ {hold', started', announces', scrc', cancelled'} \subseteq BOOLEAN
    BY <1>2, <1>3, Types
  <2>6. /\ next_blk' \in 0 .. SeqSize - 1
        /\ file_length' \in {0, FileLen} /\ len' \in {0, -1}
        /\ read_length' \in Nat /\ read_length' % BLOCK = 0
        /\ at' \in 0 .. FinStep + 1 /\ noise' \in 0 .. MaxNoise /\ cross' \in 0 .. MaxCross
        /\ crc_retries' \in Int
    BY <1>2, <1>3 DEF TypeInv, TypeOK
  <2> QED
    BY <2>1, <2>3, <2>4, <2>5, <2>6 DEF TypeInv, TypeOK
<1>8. Loaded' = Loaded /\ Wanted' = Wanted /\ InSequence'
  <2>1. Loaded' = Loaded
    BY <1>5 DEF Loaded
  <2> QED
    BY <1>3, <2>1, SameLoaded
<1>9. toBoard \in Seq(Items) /\ toSender \in Seq(Signals) /\ Shrunk(toBoard', toBoard)
      /\ toSender' = toSender /\ toBoard' = toBoard
  BY <1>2, ShrunkSame DEF LineInv
<1>10. noise \in Nat /\ noise' = noise /\ cross \in Nat /\ cross' = cross /\ cross >= cross
       /\ N(toBoard, Spoilt) \in Nat /\ retries \in Int /\ MAX_RETRIES \in Nat
  BY <1>2, <1>9, Types, Constants, HitsFinite
<1>11. LineInv'
  <2>1. N(toBoard', Spoilt) <= N(toBoard, Spoilt) + (noise - noise)
    BY <1>9, <1>10
  <2>2. pc' \in {"open", "read", "final"} => ~at_eof' /\ len' = 0
    BY <1>1, <1>2, <1>4
  <2>3. (in_hdr' => ~tx_ack') /\ started
    BY <1>1, <1>2 DEF LineInv
  <2> QED
    BY <1>2, <1>9, <1>10, <2>1, <2>2, <2>3, BoardLine
<1>12. CrcInv'
  <2>1. "ACK" \in Signals /\ Says(toSender', toSender, "ACK")
    BY <1>9, LessSame, LessSays DEF Signals
  <2> QED
    BY <1>1, <1>2, <1>6, <1>9, <2>1, BoardCrc
<1>13. T' = T /\ Acks' = Acks /\ Asks' = Asks /\ B' = B
  BY <1>2 DEF T, Acks, Asks, B
<1>14. T \in Nat /\ Acks \in Nat /\ Asks \in Nat
  BY Counts
<1>15. CountInv'
  <2> SUFFICES ASSUME Live' PROVE CountInv'
    BY DEF CountInv
  <2>1. T <= 1 + cross /\ Acks <= Acks
    BY <1>6, <1>14 DEF CountInv
  <2> QED
    BY <1>1, <1>2, <1>6, <1>9, <1>10, <1>13, <1>14, <2>1, BoardCount
<1>16. RetryInv'
  <2> SUFFICES ASSUME Live, Danger
               PROVE  Paid(MAX_RETRIES, N(toBoard, Copies(B)), N(toBoard, Spoilt), Asks, at, B, T, noise, cross)
    <3>1. Danger' <=> Danger
      BY <1>3, <1>9, <1>13 DEF Danger
    <3> QED
      BY <1>1, <1>3, <1>6, <1>9, <1>10, <1>13, <3>1 DEF RetryInv
  <2>1. PICK c, s, k \in Nat : N(toBoard, Copies(B)) = c /\ N(toBoard, Spoilt) = s /\ Asks = k
    BY <1>9, <1>14, HitsFinite
  <2>2. Paid(retries, c, s, k, at, B, T, noise, cross)
    BY <1>1, <2>1 DEF RetryInv
  <2>3. retries <= MAX_RETRIES
    BY <1>10 DEF TypeInv, TypeOK
  <2>4. Paid(MAX_RETRIES, c, s, k, at, B, T, noise, cross)
    BY <1>10, <1>14, <2>1, <2>2, <2>3 DEF Paid
  <2> QED
    BY <2>1, <2>4
<1>17. DataInv'
  <2> SUFFICES ASSUME Live' PROVE DataInv'
    BY DEF DataInv
  <2>1. /\ next_blk = (B + 1) % SeqSize /\ read_length = B * BLOCK
        /\ file_length = IF announces THEN FileLen ELSE 0
        /\ FirstOf(Loaded, Wanted, read_length)
    BY <1>1, <1>6 DEF DataInv
  <2>2. retries' > 0
    BY <1>1, Constants
  <2> QED
    BY <1>2, <1>3, <1>5, <1>6, <1>8, <1>13, <2>1, <2>2 DEF DataInv
<1> QED
  BY <1>7, <1>8, <1>11, <1>12, <1>15, <1>16, <1>17

\* What the sender puts on the line: a token m of its step w, with check d.
Sent(q, s, w) ==
  /\ q \in Seq(Items) /\ N(q, Tokens) = N(s, Tokens) + 1 /\ N(q, Spoilt) = N(s, Spoilt)
  /\ \A v \in Int :
       /\ w <= v => N(q, UpTo(v)) = N(s, UpTo(v)) + 1 /\ N(q, Above(v)) = N(s, Above(v))
       /\ w > v => N(q, UpTo(v)) = N(s, UpTo(v))
       /\ w = v => N(q, Copies(v)) = N(s, Copies(v)) + 1
       /\ w # v => N(q, Copies(v)) = N(s, Copies(v))
       /\ NoneAfter(s, Above(v), UpTo(v)) /\ (w <= v => N(s, Above(v)) = 0) =>
            NoneAfter(q, Above(v), UpTo(v))

LEMMA SentCounts ==
  ASSUME NEW s \in Seq(Items), NEW q, NEW m, Joined(q, s, m), m \in Tokens,
         NEW w \in Int, val(m) = w, m \notin Spoilt
  PROVE  Sent(q, s, w)
<1>1. /\ \A v : UpTo(v) \in SUBSET Tokens /\ Above(v) \in SUBSET Tokens /\ Copies(v) \in SUBSET Tokens
      /\ Spoilt \in SUBSET Tokens /\ Tokens \in SUBSET Tokens
  BY DEF UpTo, Above, Copies, Spoilt
<1>2. m \in Items /\ q \in Seq(Items) /\ \A V \in SUBSET Tokens : N(s, V) \in Nat
  BY HitsFinite DEF Joined
<1>3. \A V \in SUBSET Tokens : m \in V => N(q, V) = N(s, V) + 1
  BY DEF Joined, In
<1>4. \A V \in SUBSET Tokens : m \notin V => N(q, V) = N(s, V)
  BY <1>2 DEF Joined, In
<1>5. N(q, Tokens) = N(s, Tokens) + 1 /\ N(q, Spoilt) = N(s, Spoilt)
  BY <1>1, <1>3, <1>4
<1>6. ASSUME NEW v \in Int
      PROVE  /\ w <= v => N(q, UpTo(v)) = N(s, UpTo(v)) + 1 /\ N(q, Above(v)) = N(s, Above(v))
             /\ w > v => N(q, UpTo(v)) = N(s, UpTo(v))
             /\ w = v => N(q, Copies(v)) = N(s, Copies(v)) + 1
             /\ w # v => N(q, Copies(v)) = N(s, Copies(v))
  <2>1. /\ m \in UpTo(v) <=> w <= v
        /\ m \in Above(v) <=> w > v
        /\ m \in Copies(v) <=> w = v
    BY <1>2, Sets
  <2> QED
    BY <1>1, <1>3, <1>4, <2>1
<1>7. ASSUME NEW v \in Int, NoneAfter(s, Above(v), UpTo(v)), w <= v => N(s, Above(v)) = 0
      PROVE  NoneAfter(q, Above(v), UpTo(v))
  <2>1. m \in UpTo(v) <=> w <= v
    BY <1>2, Sets
  <2>2. N(s, Above(v)) = 0 \/ m \notin UpTo(v)
    BY <1>7, <2>1
  <2> QED
    BY <1>1, <1>7, <2>2 DEF Joined
<1> QED
  BY <1>2, <1>5, <1>6, <1>7 DEF Sent

LEMMA SentLine ==
  ASSUME TypeInv, LineInv, UNCHANGED board, noise' = noise, started', ~hold', ~cancelled',
         NEW w \in Int, at' = w, w >= at, NEW m, Joined(toBoard', toBoard, m), m \in Tokens,
         val(m) = w, m \notin Spoilt, toSender' \in Seq(Signals)
  PROVE  LineInv'
<1>1. toBoard \in Seq(Items) /\ at \in Int /\ \A v \in Steps : v \in Int
  BY Types, StepsInt DEF LineInv
<1>2. N(toBoard, Above(at)) = 0
  BY DEF LineInv
<1>3. ASSUME NEW v \in Int, w <= v PROVE N(toBoard, Above(v)) = 0
  <2>1. at <= v
    BY <1>1, <1>3
  <2>2. N(toBoard, Above(v)) <= N(toBoard, Above(at)) /\ N(toBoard, Above(v)) \in Nat
    BY <1>1, <2>1, SetOrder
  <2> QED
    BY <1>2, <2>2
<1>4. /\ toBoard' \in Seq(Items) /\ N(toBoard', Spoilt) = N(toBoard, Spoilt)
      /\ \A v \in Int :
           /\ w <= v => N(toBoard', Above(v)) = N(toBoard, Above(v))
           /\ NoneAfter(toBoard, Above(v), UpTo(v)) /\ (w <= v => N(toBoard, Above(v)) = 0) =>
                NoneAfter(toBoard', Above(v), UpTo(v))
  BY <1>1, SentCounts DEF Sent
<1>5. ASSUME NEW v \in Steps PROVE NoneAfter(toBoard', Above(v), UpTo(v))
  <2>1. v \in Int /\ NoneAfter(toBoard, Above(v), UpTo(v))
    BY <1>1 DEF LineInv
  <2> QED
    BY <1>3, <1>4, <2>1
<1>6. N(toBoard', Above(w)) = 0
  BY <1>3, <1>4
<1>7. N(toBoard', Spoilt) <= noise
  BY <1>4 DEF LineInv
<1>8. (in_hdr => ~tx_ack) /\ (pc \in {"open", "read", "final"} => ~at_eof /\ len = 0)
  BY DEF LineInv
<1>9. in_hdr' = in_hdr /\ tx_ack' = tx_ack /\ pc' = pc /\ at_eof' = at_eof /\ len' = len
  BY DEF board
<1> QED
  BY <1>4, <1>5, <1>6, <1>7, <1>8, <1>9 DEF LineInv

LEMMA SentCrc ==
  ASSUME TypeInv, LineInv, CrcInv, UNCHANGED board,
         NEW w \in 0 .. FinStep, NEW d \in BOOLEAN, scrc' = d,
         Joined(toBoard', toBoard, Item(w, d)), toSender' \in Seq(Signals),
         Naks(toSender') <= Naks(toSender), NakLast(toSender) => NakLast(toSender'),
         Live => (crc_mode => d) /\ (~scrc => ~d) /\ (~d => Cs(toSender') = 0)
  PROVE  CrcInv'
<1>1. crc_mode' = crc_mode /\ pc' = pc /\ at_eof' = at_eof /\ len' = len
  BY DEF board
<1> SUFFICES ASSUME Live PROVE CrcInv'
  BY <1>1 DEF CrcInv, Live
<1>2. /\ crc_mode => scrc /\ Naks(toSender) = 0 /\ N(toBoard, WithSum) = 0
      /\ NakLast(toSender)
      /\ NoneAfter(toBoard, WithSum, WithCrc)
      /\ N(toBoard, WithSum) >= 1 => ~scrc
      /\ pc # "open" /\ ~crc_mode => ~scrc /\ N(toBoard, WithCrc) = 0
  BY DEF CrcInv
<1>3. PICK m : m = Item(w, d)
  BY Zenon
<1>4. (d => m \notin WithSum) /\ (~d => m \notin WithCrc)
  BY <1>3, ItemIs
<1>5. WithCrc \in SUBSET Tokens /\ WithSum \in SUBSET Tokens
  BY DEF WithCrc, WithSum
<1>6. Joined(toBoard', toBoard, m)
  BY <1>3
<1>7. /\ N(toBoard', WithSum) = N(toBoard, WithSum) + In(m, WithSum)
      /\ N(toBoard', WithCrc) = N(toBoard, WithCrc) + In(m, WithCrc)
      /\ N(toBoard, WithSum) = 0 \/ m \notin WithCrc => NoneAfter(toBoard', WithSum, WithCrc)
  BY <1>2, <1>5, <1>6 DEF Joined
<1>8. N(toBoard, WithSum) \in Nat /\ N(toBoard, WithCrc) \in Nat
  BY HitsFinite DEF LineInv
<1>9. (d => In(m, WithSum) = 0) /\ (~d => In(m, WithCrc) = 0)
  BY <1>4 DEF In
<1>10. NoneAfter(toBoard', WithSum, WithCrc)
  BY <1>2, <1>4, <1>7, <1>8
<1>11. d => N(toBoard', WithSum) = N(toBoard, WithSum)
  BY <1>7, <1>8, <1>9
<1>12. ~d => N(toBoard', WithCrc) = N(toBoard, WithCrc)
  BY <1>7, <1>8, <1>9
<1>13. crc_mode => d /\ Naks(toSender') = 0 /\ N(toBoard', WithSum) = 0
  <2>1. Naks(toSender') \in Nat
    BY SignalCounts
  <2> QED
    BY <1>2, <1>11, <2>1
<1>14. N(toBoard', WithSum) >= 1 => ~d
  BY <1>2, <1>11
<1>15. pc # "open" /\ ~crc_mode => ~d /\ N(toBoard', WithCrc) = 0
  BY <1>2, <1>12
<1>16. ~d => Cs(toSender') = 0
  OBVIOUS
<1>17. NakLast(toSender')
  BY <1>2
<1> QED
  BY <1>1, <1>10, <1>13, <1>14, <1>15, <1>16, <1>17 DEF CrcInv

\* Without the terms of a sender that is at the block before.
LEMMA PaidAhead ==
  ASSUME NEW r \in Int, NEW c \in Nat, NEW s \in Nat, NEW k \in Nat, NEW a, NEW b \in Int, NEW t,
         NEW n \in Nat, NEW x \in Nat, Paid(r, c, s, k, a, b, t, n, x), NEW w \in Int, w # b
  PROVE  \A l, u : Paid(r, c, s, l, w, b, u, n, x)
<1>1. MAX_RETRIES \in Nat
  BY Constants
<1>2. MAX_RETRIES - r + c + s <= 2 * (n + x)
  BY <1>1 DEF Paid
<1> QED
  BY <1>2, <1>1 DEF Paid

LEMMA RetryAhead ==
  ASSUME TypeInv, LineInv, RetryInv, Live, UNCHANGED board, noise' = noise, cross' = cross,
         NEW w \in Int, at' = w, w # B,
         N(toBoard', Copies(B)) = N(toBoard, Copies(B)), N(toBoard', Spoilt) = N(toBoard, Spoilt)
  PROVE  RetryInv'
<1>1. B' = B /\ pc' = pc /\ retries' = retries /\ at_eof' = at_eof /\ len' = len
  BY DEF B, board
<1> SUFFICES ASSUME pc # "open", Danger'
             PROVE  Paid(retries, N(toBoard, Copies(B)), N(toBoard, Spoilt), Asks', w, B, T', noise, cross)
  BY <1>1 DEF RetryInv
<1>2. Danger
  BY <1>1 DEF Danger
<1>3. PICK c, s, k \in Nat : N(toBoard, Copies(B)) = c /\ N(toBoard, Spoilt) = s /\ Asks = k
  BY Counts, HitsFinite DEF LineInv
<1>4. Paid(retries, c, s, k, at, B, T, noise, cross)
  BY <1>2, <1>3 DEF RetryInv
<1>5. retries \in Int /\ noise \in Nat /\ cross \in Nat /\ B \in Int
  BY Types, Counts
<1>6. \A l, u : Paid(retries, c, s, l, w, B, u, noise, cross)
  BY <1>3, <1>4, <1>5, PaidAhead
<1> QED
  BY <1>3, <1>6, Zenon

LEMMA DeadStill ==
  ASSUME ~Live, UNCHANGED board
  PROVE  CrcInv' /\ CountInv' /\ RetryInv'
<1>1. ~Live'
  BY DEF Live, board
<1> QED
  BY <1>1 DEF CrcInv, CountInv, RetryInv

\* t is s without an ACK, or a request c, at its head.
AckHeard(t, s) ==
  /\ t \in Seq(Signals) /\ Len(t) = Len(s) - 1
  /\ Ackd(t) = Ackd(s) - 1 /\ Cs(t) = Cs(s) /\ Naks(t) = Naks(s) /\ Asked(t) = Asked(s)
  /\ NakLast(s) => NakLast(t)
AskHeard(t, s, c) ==
  /\ t \in Seq(Signals) /\ Len(t) = Len(s) - 1
  /\ Ackd(t) = Ackd(s) /\ Cs(t) = Cs(s) - Is(c, "C") /\ Naks(t) = Naks(s) - Is(c, "NAK")
  /\ Asked(t) = Asked(s) - 1
  /\ NakLast(s) => NakLast(t) /\ (c = "NAK" => Cs(t) = 0)

LEMMA HeardEither ==
  ASSUME NEW s \in Seq(Signals), s # <<>>, NEW c, c = Head(s), NEW t, t = Tail(s)
  PROVE  /\ c \in Signals
         /\ c = "ACK" => AckHeard(t, s)
         /\ c # "ACK" => AskHeard(t, s, c)
<1>1. /\ Cs(s) \in Nat /\ Naks(s) \in Nat /\ Asked(s) \in Nat /\ Ackd(s) \in Nat
  BY SignalCounts
<1>2. /\ c \in Signals /\ t \in Seq(Signals) /\ Len(t) = Len(s) - 1
      /\ Ackd(t) = Ackd(s) - Is(c, "ACK")
      /\ Cs(t) = Cs(s) - Is(c, "C")
      /\ Naks(t) = Naks(s) - Is(c, "NAK")
      /\ Asked(t) = Asked(s) - (Is(c, "C") + Is(c, "NAK"))
      /\ NakLast(s) => NakLast(t) /\ (c = "NAK" => Cs(t) = 0)
  BY Heard
<1>3. CASE c = "ACK"
  <2>1. Is(c, "ACK") = 1 /\ Is(c, "C") = 0 /\ Is(c, "NAK") = 0
    BY <1>3 DEF Is
  <2>2. /\ t \in Seq(Signals) /\ Len(t) = Len(s) - 1
        /\ Ackd(t) = Ackd(s) - 1 /\ Cs(t) = Cs(s) /\ Naks(t) = Naks(s) /\ Asked(t) = Asked(s)
        /\ NakLast(s) => NakLast(t)
    BY <1>1, <1>2, <2>1
  <2> QED
    BY <1>2, <1>3, <2>2 DEF AckHeard
<1>4. CASE c # "ACK"
  <2>1. Is(c, "ACK") = 0 /\ Is(c, "C") + Is(c, "NAK") = 1
    BY <1>2, <1>4 DEF Is, Signals
  <2>2. Ackd(t) = Ackd(s) /\ Asked(t) = Asked(s) - 1
    BY <1>1, <1>2, <2>1
  <2> QED
    BY <1>2, <1>4, <2>2 DEF AskHeard
<1> QED
  BY <1>3, <1>4

\* An ACK that it does not answer: w is the step it comes to, or stays at.
LEMMA AckUnanswered ==
  ASSUME TypeInv, LineInv, CrcInv, CountInv, RetryInv, UNCHANGED board,
         noise' = noise, cross' = cross, toBoard' = toBoard, scrc' = scrc, started,
         started', ~cancelled, ~cancelled', hold',
         AckHeard(toSender', toSender),
         NEW w \in Int, at' = w,
         (hold /\ w = at) \/ (~hold /\ w = at + 1 /\ w \in {1, FinStep, FinStep + 1})
  PROVE  LineInv' /\ CrcInv' /\ CountInv' /\ RetryInv'
<1>1. toBoard \in Seq(Items) /\ toSender \in Seq(Signals)
  BY DEF LineInv
<1>2. /\ toSender' \in Seq(Signals) /\ Len(toSender') = Len(toSender) - 1
      /\ Ackd(toSender') = Ackd(toSender) - 1 /\ Cs(toSender') = Cs(toSender)
      /\ Naks(toSender') = Naks(toSender) /\ (NakLast(toSender) => NakLast(toSender'))
  BY DEF AckHeard
<1>3. at \in Int /\ cross \in Nat /\ at >= 0
  BY Types, BlocksFacts DEF TypeInv, TypeOK
<1>4. in_hdr' = in_hdr /\ tx_ack' = tx_ack /\ pc' = pc /\ at_eof' = at_eof /\ len' = len
      /\ crc_mode' = crc_mode
  BY DEF board
<1>5. B' = B /\ (Live' <=> Live)
  BY DEF board, B, Live
<1>6. LineInv'
  <2>1. N(toBoard, Above(w)) = 0
    <3>1. at <= w
      BY <1>3
    <3>2. N(toBoard, Above(w)) <= N(toBoard, Above(at)) /\ N(toBoard, Above(w)) \in Nat
      BY <1>1, <1>3, <3>1, SetOrder
    <3>3. N(toBoard, Above(at)) = 0
      BY DEF LineInv
    <3> QED
      BY <3>2, <3>3
  <2>2. w <= 1 => N(toBoard, Copies(w)) = 0
    <3>1. CASE hold
      BY <3>1 DEF LineInv
    <3>2. CASE ~hold /\ w <= 1
      <4>1. w = at + 1
        BY <3>2
      <4>2. at < w
        BY <1>3, <4>1
      <4>3. N(toBoard, Copies(w)) <= N(toBoard, Above(at)) /\ N(toBoard, Copies(w)) \in Nat
        BY <1>1, <1>3, <4>2, SetOrder
      <4>4. N(toBoard, Above(at)) = 0
        BY DEF LineInv
      <4> QED
        BY <4>3, <4>4
    <3> QED
      BY <3>1, <3>2
  <2>3. w \in {0, 1, FinStep, FinStep + 1}
    <3>1. hold => at \in {0, 1, FinStep, FinStep + 1}
      BY DEF LineInv
    <3> QED
      BY <3>1
  <2>4. (in_hdr => ~tx_ack) /\ (pc \in {"open", "read", "final"} => ~at_eof /\ len = 0)
    BY DEF LineInv
  <2>5. N(toBoard, Spoilt) <= noise /\ \A v \in Steps : NoneAfter(toBoard, Above(v), UpTo(v))
    BY DEF LineInv
  <2> QED
    BY <1>1, <1>2, <1>4, <2>1, <2>2, <2>3, <2>4, <2>5 DEF LineInv
<1>7. CASE ~Live
  BY <1>6, <1>7, DeadStill
<1>8. CASE Live
  <2>1. CrcInv'
    BY <1>2, <1>4, <1>5, <1>8 DEF CrcInv
  <2>2. PICK t, a, k, x, y, z, l \in Nat :
           /\ T' = t /\ Acks' = a /\ Asks' = k /\ N(toBoard', Tokens) = x
           /\ Bit(tx_ack') = y /\ Ackd(toSender') = z /\ Len(toSender') = l
           /\ t = x + l + y /\ a = z + y /\ Asked(toSender') = k
    BY <1>1, <1>2, CountsNext
  <2>3. /\ T = x + Len(toSender) + y /\ Acks = Ackd(toSender) + y
        /\ Len(toSender) \in Nat /\ Ackd(toSender) \in Nat
    BY <1>1, <1>4, <2>2, SignalCounts DEF T, Acks
  <2>4. T = t + 1 /\ Acks = a + 1
    BY <1>2, <2>2, <2>3, SMTT(30)
  <2>5. /\ T <= 1 + cross
        /\ B \in 0 .. Blocks /\ at >= B
        /\ N(toBoard, UpTo(B - 1)) = 0 /\ N(toBoard, Above(B + 1 + cross)) = 0
        /\ at + Acks <= B + 1 + cross
        /\ pc = "open" => Acks = 0
        /\ pc # "open" => ~(hold /\ at <= B)
    BY <1>8 DEF CountInv
  <2>6. B \in Nat /\ pc # "open"
    BY <2>2, <2>4, <2>5, Counts
  <2>7. w > B /\ w + a <= at + Acks
    BY <1>3, <2>2, <2>4, <2>5, <2>6
  <2>8. t <= 1 + cross /\ w >= B /\ w + a <= B + 1 + cross /\ ~(w <= B)
    BY <1>3, <2>2, <2>4, <2>5, <2>6, <2>7
  <2>9. ASSUME NEW v \in Steps, N(toBoard, UpTo(v)) >= 1
        PROVE  N(toBoard, UpTo(v)) + w + a <= v + 1 + cross
    <3>1. N(toBoard, UpTo(v)) \in Nat /\ v \in Int
      BY <1>1, HitsFinite, StepsInt
    <3>2. N(toBoard, UpTo(v)) + at + Acks <= v + 1 + cross
      BY <1>8, <2>9 DEF CountInv
    <3> QED
      BY <1>3, <2>2, <2>4, <2>7, <3>1, <3>2
  <2>10. CountInv'
    BY <1>4, <1>5, <2>2, <2>5, <2>6, <2>8, <2>9 DEF CountInv
  <2>11. w # B
    BY <2>6, <2>7
  <2>12. RetryInv'
    BY <1>8, <2>11, RetryAhead
  <2> QED
    BY <1>6, <2>1, <2>10, <2>12
<1> QED
  BY <1>7, <1>8

LEMMA NoAbove ==
  ASSUME NEW s \in Seq(Items), NEW v \in Int, NEW w \in Int, N(s, Above(v)) = 0
  PROVE  N(s, UpTo(w)) <= N(s, UpTo(v))
<1>1. \A i \in 1 .. Len(s) : s[i] \notin Above(v)
  BY HitsFinite
<1>2. DOMAIN s = 1 .. Len(s) /\ \A i \in 1 .. Len(s) : s[i] \in Items
  BY LenProperties, ElementOfSeq
<1>3. ASSUME NEW i \in Hits(s, UpTo(w)) PROVE i \in Hits(s, UpTo(v))
  <2>1. i \in 1 .. Len(s) /\ s[i] \in UpTo(w) /\ i \in DOMAIN s
    BY <1>2 DEF Hits
  <2>2. PICK m \in Items : m = s[i]
    BY <1>2, <2>1
  <2>3. m \in Tokens /\ m \notin Above(v)
    BY <1>1, <2>1, <2>2 DEF UpTo
  <2>4. val(m) \in 0 .. FinStep
    BY <2>3, Sets
  <2>5. val(m) \in Int
    BY <2>4, BlocksFacts
  <2>6. m \in UpTo(v)
    BY <2>3, <2>5 DEF UpTo, Above
  <2> QED
    BY <2>1, <2>2, <2>6 DEF Hits
<1>4. Hits(s, UpTo(w)) \in SUBSET Hits(s, UpTo(v))
  BY <1>3
<1> QED
  BY <1>4, HitsFinite, FS_Subset DEF N

\* An ACK that is answered by the next block.
LEMMA AckAnswered ==
  ASSUME TypeInv, LineInv, CrcInv, CountInv, RetryInv, UNCHANGED board,
         noise' = noise, cross' = cross, scrc' = scrc, started,
         started', ~cancelled, ~cancelled', ~hold', ~hold,
         AckHeard(toSender', toSender),
         NEW w \in 0 .. FinStep, at' = w, w = at + 1,
         Joined(toBoard', toBoard, Item(w, scrc))
  PROVE  LineInv' /\ CrcInv' /\ CountInv' /\ RetryInv'
<1>1. toBoard \in Seq(Items) /\ toSender \in Seq(Signals) /\ w \in Int /\ scrc \in BOOLEAN
  BY Types, BlocksFacts DEF LineInv
<1>2. /\ toSender' \in Seq(Signals) /\ Len(toSender') = Len(toSender) - 1
      /\ Ackd(toSender') = Ackd(toSender) - 1 /\ Cs(toSender') = Cs(toSender)
      /\ Naks(toSender') = Naks(toSender) /\ (NakLast(toSender) => NakLast(toSender'))
  BY DEF AckHeard
<1>3. at \in Int /\ cross \in Nat /\ at >= 0 /\ w >= at
  BY <1>1, Types, BlocksFacts DEF TypeInv, TypeOK
<1>4. tx_ack' = tx_ack /\ pc' = pc
  BY DEF board
<1>5. B' = B /\ (Live' <=> Live)
  BY DEF board, B, Live
<1>6. PICK m : m = Item(w, scrc)
  BY Zenon
<1>7. m \in Tokens /\ m \in Items /\ val(m) = w /\ m \notin Spoilt
  BY <1>1, <1>6, ItemIs
<1>8. Joined(toBoard', toBoard, m)
  BY <1>6
<1>9. LineInv'
  BY <1>1, <1>2, <1>3, <1>7, <1>8, SentLine
<1>10. CASE ~Live
  BY <1>9, <1>10, DeadStill
<1>11. CASE Live
  <2>1. CrcInv'
    <3>1. Joined(toBoard', toBoard, Item(w, scrc))
      BY <1>6, <1>8
    <3>2. Naks(toSender') <= Naks(toSender)
      <4>1. Naks(toSender) \in Nat
        BY <1>1, SignalCounts
      <4> QED
        BY <1>2, <4>1
    <3>3. (crc_mode => scrc) /\ (~scrc => Cs(toSender') = 0)
      BY <1>2, <1>11 DEF CrcInv
    <3> QED
      BY <1>1, <1>2, <3>1, <3>2, <3>3, SentCrc
  <2>2. PICK t, a, k, x, y, z, l \in Nat :
           /\ T' = t /\ Acks' = a /\ Asks' = k /\ N(toBoard', Tokens) = x
           /\ Bit(tx_ack') = y /\ Ackd(toSender') = z /\ Len(toSender') = l
           /\ t = x + l + y /\ a = z + y /\ Asked(toSender') = k
    BY <1>2, <1>9, CountsNext DEF LineInv
  <2>0. Sent(toBoard', toBoard, w)
    BY <1>1, <1>7, <1>8, SentCounts
  <2>3. /\ toBoard' \in Seq(Items) /\ N(toBoard', Tokens) = N(toBoard, Tokens) + 1
        /\ N(toBoard', Spoilt) = N(toBoard, Spoilt)
        /\ \A v \in Int :
              /\ w <= v => N(toBoard', UpTo(v)) = N(toBoard, UpTo(v)) + 1
                           /\ N(toBoard', Above(v)) = N(toBoard, Above(v))
              /\ w > v => N(toBoard', UpTo(v)) = N(toBoard, UpTo(v))
              /\ w # v => N(toBoard', Copies(v)) = N(toBoard, Copies(v))
    BY <2>0 DEF Sent
  <2>4. /\ T = N(toBoard, Tokens) + Len(toSender) + y /\ Acks = Ackd(toSender) + y
        /\ Len(toSender) \in Nat /\ Ackd(toSender) \in Nat /\ N(toBoard, Tokens) \in Nat
    BY <1>1, <1>4, <2>2, SignalCounts, HitsFinite DEF T, Acks
  <2>15. x = N(toBoard, Tokens) + 1
    BY <2>2, <2>3
  <2>16. l = Len(toSender) - 1 /\ z = Ackd(toSender) - 1 /\ t = x + l + y /\ a = z + y
    BY <1>2, <2>2
  <2>17. PICK n, i, j \in Nat : N(toBoard, Tokens) = n /\ Len(toSender) = j /\ Ackd(toSender) = i
    BY <2>4
  <2>18. T = n + j + y /\ Acks = i + y /\ x = n + 1 /\ l = j - 1 /\ z = i - 1
    BY <2>4, <2>15, <2>16, <2>17
  <2>19. t = x + l + y /\ a = z + y
    BY <2>2
  <2>5. t = T /\ Acks = a + 1
    BY <2>18, <2>19
  <2>6. /\ T <= 1 + cross
        /\ B \in 0 .. Blocks /\ at >= B
        /\ N(toBoard, UpTo(B - 1)) = 0 /\ N(toBoard, Above(B + 1 + cross)) = 0
        /\ at + Acks <= B + 1 + cross
        /\ pc = "open" => Acks = 0
    BY <1>11 DEF CountInv
  <2>7. B \in Nat /\ pc # "open"
    BY <2>2, <2>5, <2>6, Counts
  <2>8. t <= 1 + cross /\ w >= B /\ w + a <= B + 1 + cross /\ ~(w <= B) /\ w # B
    BY <1>1, <1>3, <2>2, <2>5, <2>6, <2>7
  <2>9. N(toBoard', UpTo(B - 1)) = 0
    <3>1. B - 1 \in Int /\ w > B - 1
      BY <1>1, <2>7, <2>8
    <3> QED
      BY <2>3, <2>6, <3>1
  <2>10. N(toBoard', Above(B + 1 + cross)) = 0
    <3>1. B + 1 + cross \in Int /\ w <= B + 1 + cross
      BY <1>1, <1>3, <2>2, <2>7, <2>8
    <3> QED
      BY <2>3, <2>6, <3>1
  <2>11. ASSUME NEW v \in Steps, N(toBoard', UpTo(v)) >= 1
         PROVE  N(toBoard', UpTo(v)) + w + a <= v + 1 + cross
    <3>1. N(toBoard, UpTo(v)) \in Nat /\ v \in Int
      BY <1>1, HitsFinite, StepsInt
    <3>2. CASE w > v
      <4>1. N(toBoard', UpTo(v)) = N(toBoard, UpTo(v))
        BY <2>3, <3>1, <3>2
      <4>2. N(toBoard, UpTo(v)) + at + Acks <= v + 1 + cross
        BY <1>11, <2>11, <4>1 DEF CountInv
      <4> QED
        BY <1>3, <2>2, <2>5, <3>1, <4>1, <4>2
    <3>3. CASE w <= v
      <4>1. N(toBoard', UpTo(v)) = N(toBoard, UpTo(v)) + 1
        BY <2>3, <3>1, <3>3
      <4>2. PICK u \in Int : u = v - 1
        BY <3>1
      <4>3. u >= at /\ u \in Steps
        <5>1. v \in 0 .. FinStep + 1
          BY DEF Steps
        <5>2. u \in 0 .. FinStep + 1 /\ u >= at
          BY <1>1, <1>3, <3>1, <3>3, <4>2, <5>1, BlocksFacts
        <5> QED
          BY <5>2 DEF Steps
      <4>4. N(toBoard, Above(u)) = 0
        <5>1. N(toBoard, Above(at)) = 0
          BY DEF LineInv
        <5>2. N(toBoard, Above(u)) <= N(toBoard, Above(at)) /\ N(toBoard, Above(u)) \in Nat
          BY <1>1, <1>3, <4>3, SetOrder
        <5> QED
          BY <5>1, <5>2
      <4>5. N(toBoard, UpTo(v)) <= N(toBoard, UpTo(u)) /\ N(toBoard, UpTo(u)) \in Nat
        BY <1>1, <3>1, <4>4, NoAbove, HitsFinite
      <4>6. CASE N(toBoard, UpTo(u)) >= 1
        <5>1. N(toBoard, UpTo(u)) + at + Acks <= u + 1 + cross
          BY <1>11, <4>3, <4>6 DEF CountInv
        <5>2. PICK e, f \in Nat : N(toBoard, UpTo(v)) = e /\ N(toBoard, UpTo(u)) = f
          BY <3>1, <4>5
        <5>3. e <= f /\ f + at + (a + 1) <= u + 1 + cross
          BY <2>5, <4>5, <5>1, <5>2
        <5>4. (e + 1) + w + a <= v + 1 + cross
          BY <1>3, <3>1, <4>2, <5>3
        <5> QED
          BY <4>1, <5>2, <5>4
      <4>7. CASE N(toBoard, UpTo(u)) = 0
        <5>1. N(toBoard', UpTo(v)) = 1
          BY <3>1, <4>1, <4>5, <4>7
        <5> QED
          BY <1>1, <1>3, <2>2, <2>5, <2>6, <2>7, <3>1, <3>3, <5>1
      <4> QED
        BY <4>5, <4>6, <4>7
    <3> QED
      BY <1>1, <3>1, <3>2, <3>3
  <2>12. CountInv'
    BY <1>4, <1>5, <2>2, <2>6, <2>7, <2>8, <2>9, <2>10, <2>11 DEF CountInv
  <2>13. N(toBoard', Copies(B)) = N(toBoard, Copies(B))
    BY <2>3, <2>7, <2>8
  <2>14. RetryInv'
    BY <1>1, <1>11, <2>3, <2>8, <2>13, RetryAhead
  <2> QED
    BY <1>9, <2>1, <2>12, <2>14
<1> QED
  BY <1>10, <1>11

\* A request, answered by the block that the sender is at, in the mode it asks for.
LEMMA AskAnswered ==
  ASSUME TypeInv, LineInv, CrcInv, CountInv, RetryInv, UNCHANGED board,
         noise' = noise, cross' = cross, started,
         started', ~cancelled, ~cancelled', ~hold',
         NEW c \in {"C", "NAK"}, AskHeard(toSender', toSender, c),
         NEW w \in 0 .. FinStep, at = w, at' = w, NEW d \in BOOLEAN, scrc' = d,
         w = 0 => (d <=> c = "C"), w # 0 => (d <=> scrc),
         Joined(toBoard', toBoard, Item(w, d))
  PROVE  LineInv' /\ CrcInv' /\ CountInv' /\ RetryInv'
<1>1. toBoard \in Seq(Items) /\ toSender \in Seq(Signals) /\ w \in Int /\ scrc \in BOOLEAN
  BY Types, BlocksFacts DEF LineInv
<1>2. /\ toSender' \in Seq(Signals) /\ Len(toSender') = Len(toSender) - 1
      /\ Ackd(toSender') = Ackd(toSender) /\ Asked(toSender') = Asked(toSender) - 1
      /\ Cs(toSender') = Cs(toSender) - Is(c, "C") /\ Naks(toSender') = Naks(toSender) - Is(c, "NAK")
      /\ NakLast(toSender) => NakLast(toSender') /\ (c = "NAK" => Cs(toSender') = 0)
  BY DEF AskHeard
<1>3. cross \in Nat /\ w >= w
  BY <1>1, Types
<1>4. tx_ack' = tx_ack /\ pc' = pc
  BY DEF board
<1>5. B' = B /\ (Live' <=> Live) /\ retries' = retries
  BY DEF board, B, Live
<1>6. PICK m : m = Item(w, d)
  BY Zenon
<1>7. m \in Tokens /\ m \in Items /\ val(m) = w /\ m \notin Spoilt
  BY <1>1, <1>6, ItemIs
<1>8. Joined(toBoard', toBoard, m)
  BY <1>6
<1>9. LineInv'
  BY <1>1, <1>2, <1>3, <1>7, <1>8, SentLine
<1>10. CASE ~Live
  BY <1>9, <1>10, DeadStill
<1>11. CASE Live
  <2>1. CrcInv'
    <3>1. /\ Naks(toSender) \in Nat /\ Naks(toSender') \in Nat
          /\ Cs(toSender) \in Nat /\ Cs(toSender') \in Nat
      BY <1>1, <1>2, SignalCounts
    <3>2. Is(c, "NAK") \in {0, 1} /\ (c = "NAK" => Is(c, "NAK") = 1)
          /\ Is(c, "C") \in {0, 1} /\ (c = "C" => Is(c, "C") = 1)
      BY DEF Is
    <3>3. Naks(toSender') <= Naks(toSender) /\ Cs(toSender') <= Cs(toSender)
      BY <1>2, <3>1, <3>2
    <3>4. Naks(toSender) = 0 => c = "C"
      BY <1>2, <3>1, <3>2
    <3>5. Cs(toSender) = 0 => c = "NAK" /\ Cs(toSender') = 0
      BY <1>2, <3>1, <3>2
    <3>6. (crc_mode => scrc /\ Naks(toSender) = 0) /\ (~scrc => Cs(toSender) = 0) /\ NakLast(toSender)
      BY <1>11 DEF CrcInv
    <3>7. crc_mode => d
      BY <3>4, <3>6
    <3>8. ~scrc => ~d
      BY <3>5, <3>6
    <3>9. ~d => Cs(toSender') = 0
      BY <1>2, <3>5, <3>6
    <3>10. NakLast(toSender) => NakLast(toSender')
      BY <1>2
    <3> QED
      BY <1>2, <3>3, <3>7, <3>8, <3>9, <3>10, SentCrc
  <2>2. PICK t, a, k, x, y, z, l \in Nat :
           /\ T' = t /\ Acks' = a /\ Asks' = k /\ N(toBoard', Tokens) = x
           /\ Bit(tx_ack') = y /\ Ackd(toSender') = z /\ Len(toSender') = l
           /\ t = x + l + y /\ a = z + y /\ Asked(toSender') = k
    BY <1>2, <1>9, CountsNext DEF LineInv
  <2>0. Sent(toBoard', toBoard, w)
    BY <1>1, <1>7, <1>8, SentCounts
  <2>3. /\ toBoard' \in Seq(Items) /\ N(toBoard', Tokens) = N(toBoard, Tokens) + 1
        /\ N(toBoard', Spoilt) = N(toBoard, Spoilt)
        /\ \A v \in Int :
              /\ w <= v => N(toBoard', UpTo(v)) = N(toBoard, UpTo(v)) + 1
                           /\ N(toBoard', Above(v)) = N(toBoard, Above(v))
              /\ w > v => N(toBoard', UpTo(v)) = N(toBoard, UpTo(v))
              /\ w = v => N(toBoard', Copies(v)) = N(toBoard, Copies(v)) + 1
              /\ w # v => N(toBoard', Copies(v)) = N(toBoard, Copies(v))
    BY <2>0 DEF Sent
  <2>4. /\ T = N(toBoard, Tokens) + Len(toSender) + y /\ Acks = Ackd(toSender) + y
        /\ Len(toSender) \in Nat /\ Ackd(toSender) \in Nat /\ N(toBoard, Tokens) \in Nat
        /\ Asks = Asked(toSender) /\ Asked(toSender) \in Nat
    BY <1>1, <1>4, <2>2, SignalCounts, HitsFinite DEF T, Acks, Asks
  <2>5. PICK n, j, o \in Nat : N(toBoard, Tokens) = n /\ Len(toSender) = j /\ Asked(toSender) = o
    BY <2>4
  <2>6. T = n + j + y /\ Acks = z + y /\ x = n + 1 /\ l = j - 1 /\ k = o - 1 /\ Asks = o
    BY <1>2, <2>2, <2>3, <2>4, <2>5
  <2>7. t = x + l + y /\ a = z + y
    BY <2>2
  <2>8. z <= l
    BY <1>2, <2>2, SignalCounts
  <2>9. t = T /\ Acks = a /\ n + 1 + a <= T /\ T > 0 /\ Asks = k + 1
    BY <2>6, <2>7, <2>8
  <2>10. /\ T <= 1 + cross
         /\ B \in 0 .. Blocks /\ w >= B
         /\ N(toBoard, UpTo(B - 1)) = 0 /\ N(toBoard, Above(B + 1 + cross)) = 0
         /\ w + Acks <= B + 1 + cross
         /\ pc = "open" => w = 0 /\ Acks = 0 /\ B = 0 /\ N(toBoard, Above(0)) = 0
         /\ pc # "open" => started
    BY <1>11 DEF CountInv
  <2>11. B \in Nat
    BY Counts
  <2>12. t <= 1 + cross /\ w + a <= B + 1 + cross
    BY <2>9, <2>10
  <2>13. N(toBoard', UpTo(B - 1)) = 0
    <3>1. B - 1 \in Int /\ w > B - 1
      BY <1>1, <2>10, <2>11
    <3> QED
      BY <2>3, <2>10, <3>1
  <2>14. N(toBoard', Above(B + 1 + cross)) = 0
    <3>1. B + 1 + cross \in Int /\ w <= B + 1 + cross
      BY <1>1, <1>3, <2>2, <2>11, <2>12
    <3> QED
      BY <2>3, <2>10, <3>1
  <2>15. ASSUME NEW v \in Steps, N(toBoard', UpTo(v)) >= 1
         PROVE  N(toBoard', UpTo(v)) + w + a <= v + 1 + cross
    <3>1. v \in Int
      BY StepsInt
    <3>2. PICK e \in Nat : N(toBoard, UpTo(v)) = e /\ e <= n
      BY <1>1, <2>5, <3>1, SetOrder
    <3>3. CASE w > v
      <4>1. N(toBoard', UpTo(v)) = e
        BY <2>3, <3>1, <3>2, <3>3
      <4>2. e + w + Acks <= v + 1 + cross
        BY <1>11, <2>15, <3>2, <4>1 DEF CountInv
      <4> QED
        BY <2>9, <4>1, <4>2
    <3>4. CASE w <= v
      <4>1. N(toBoard', UpTo(v)) = e + 1
        BY <2>3, <3>1, <3>2, <3>4
      <4>2. n + 1 + a <= 1 + cross
        <5>1. T \in Nat
          BY Counts
        <5> QED
          BY <1>3, <2>9, <2>10, <5>1
      <4>3. (e + 1) + w + a <= v + 1 + cross
        BY <1>1, <1>3, <3>1, <3>2, <3>4, <4>2
      <4> QED
        BY <4>1, <4>3
    <3> QED
      BY <1>1, <3>1, <3>3, <3>4
  <2>16. pc = "open" => a = 0 /\ N(toBoard', Above(0)) = 0
    BY <1>1, <2>3, <2>9, <2>10
  <2>17. CountInv'
    BY <1>4, <1>5, <2>2, <2>10, <2>12, <2>13, <2>14, <2>15, <2>16 DEF CountInv
  <2>18. RetryInv'
    <3>1. CASE w # B
      <4>1. N(toBoard', Copies(B)) = N(toBoard, Copies(B))
        BY <2>3, <2>11, <3>1
      <4> QED
        BY <1>1, <1>11, <2>3, <3>1, <4>1, RetryAhead
    <3>2. CASE w = B
      <4> SUFFICES ASSUME pc # "open"
                   PROVE  Paid(retries, N(toBoard', Copies(B)), N(toBoard', Spoilt), k, w, B, t, noise, cross)
        BY <1>4, <1>5, <2>2 DEF RetryInv
      <4>1. PICK f, s \in Nat : N(toBoard, Copies(B)) = f /\ N(toBoard, Spoilt) = s
        BY <1>1, HitsFinite
      <4>2. N(toBoard', Copies(B)) = f + 1 /\ N(toBoard', Spoilt) = s
        BY <2>3, <2>11, <3>2, <4>1
      <4>3. Danger
        BY <3>2 DEF Danger
      <4>4. Paid(retries, f, s, Asks, w, B, T, noise, cross)
        BY <1>11, <4>1, <4>3 DEF RetryInv
      <4>5. retries \in Int /\ noise \in Nat /\ MAX_RETRIES \in Nat
        BY Types, Constants
      <4>6. MAX_RETRIES - retries + f + s + (k + 1) <= 2 * (noise + cross)
        BY <1>3, <2>9, <3>2, <4>4, <4>5 DEF Paid
      <4>7. t # 0
        BY <2>9
      <4>8. Paid(retries, f + 1, s, k, w, B, t, noise, cross)
        BY <1>3, <3>2, <4>1, <4>5, <4>6, <4>7 DEF Paid
      <4> QED
        BY <4>2, <4>8
    <3> QED
      BY <3>1, <3>2
  <2> QED
    BY <1>9, <2>1, <2>17, <2>18
<1> QED
  BY <1>10, <1>11

LEMMA SenderStepsStep ==
  ASSUME Inv, SenderSteps
  PROVE  Inv'
<1> USE DEF Inv
<1>1. /\ toSender # <<>> /\ Runs /\ toSender' = Tail(toSender)
      /\ UNCHANGED <<board, announces, noise, cross>>
  BY DEF SenderSteps
<1>2. PICK c : c = Head(toSender)
  BY Zenon
<1>3. toBoard \in Seq(Items) /\ toSender \in Seq(Signals)
  BY DEF LineInv
<1>4. /\ c \in Signals
      /\ c = "ACK" => AckHeard(toSender', toSender)
      /\ c # "ACK" => AskHeard(toSender', toSender, c)
  BY <1>1, <1>2, <1>3, HeardEither
<1>5. at \in 0 .. FinStep /\ FinStep \in Nat /\ hold \in BOOLEAN /\ scrc \in BOOLEAN
  BY <1>1, BlocksFacts, Types DEF Runs, TypeInv, TypeOK
<1>6. started /\ ~cancelled
  <2>1. cancelled => at = FinStep + 1
    BY DEF LineInv
  <2>2. started
    BY <1>1 DEF Runs
  <2>3. at # FinStep + 1
    BY <1>5
  <2> QED
    BY <2>1, <2>2, <2>3
<1>7. started' /\ ~cancelled'
  BY <1>6 DEF SenderSteps
<1>8. UNCHANGED board /\ noise' = noise /\ cross' = cross /\ announces' = announces
  BY <1>1
<1> DEFINE Stay == LineInv' /\ CrcInv' /\ CountInv' /\ RetryInv'
                   /\ at' \in 0 .. FinStep + 1 /\ hold' \in BOOLEAN /\ scrc' \in BOOLEAN
<1>9. ASSUME c = "ACK" PROVE Stay
  <2>1. /\ at' = (IF hold THEN at ELSE at + 1)
        /\ hold' = (hold \/ at' \in {1, FinStep, FinStep + 1})
        /\ toBoard' = IF hold' THEN toBoard ELSE Append(toBoard, Item(at', scrc))
        /\ scrc' = scrc
    BY <1>2, <1>9 DEF SenderSteps
  <2>2. PICK w \in Int : at' = w /\ w \in 0 .. FinStep + 1 /\ (hold => w = at) /\ (~hold => w = at + 1)
    <3>1. at' = (IF hold THEN at ELSE at + 1)
      BY <2>1
    <3>2. PICK w \in Int : w = (IF hold THEN at ELSE at + 1)
      BY <1>5
    <3>3. w \in 0 .. FinStep + 1 /\ (hold => w = at) /\ (~hold => w = at + 1)
      BY <1>5, <3>2
    <3> QED
      BY <3>1, <3>2, <3>3, Zenon
  <2>3. AckHeard(toSender', toSender)
    BY <1>4, <1>9
  <2>4. hold' \in BOOLEAN /\ (hold' <=> hold \/ w \in {1, FinStep, FinStep + 1})
    BY <2>1, <2>2
  <2>5. scrc' = scrc
    BY <2>1
  <2>6. CASE hold'
    <3>1. toBoard' = toBoard
      BY <2>1, <2>6
    <3>2. (hold /\ w = at) \/ (~hold /\ w = at + 1 /\ w \in {1, FinStep, FinStep + 1})
      BY <1>5, <2>2, <2>4, <2>6
    <3>3. LineInv' /\ CrcInv' /\ CountInv' /\ RetryInv'
      BY <1>6, <1>7, <1>8, <2>2, <2>3, <2>5, <2>6, <3>1, <3>2, AckUnanswered
    <3> QED
      BY <1>5, <2>2, <2>4, <2>5, <3>3
  <2>7. CASE ~hold'
    <3>1. ~hold /\ w \in 0 .. FinStep /\ w = at + 1
      <4>1. ~hold /\ w # FinStep + 1
        BY <2>4, <2>7
      <4>2. w = at + 1
        BY <2>2, <4>1
      <4>3. w \in 0 .. FinStep
        BY <1>5, <2>2, <4>1
      <4> QED
        BY <4>1, <4>2, <4>3
    <3>2. toBoard' = Append(toBoard, Item(w, scrc))
      BY <2>1, <2>2, <2>7, Zenon
    <3>3. Joined(toBoard', toBoard, Item(w, scrc))
      <4>1. Item(w, scrc) \in Items
        BY <1>5, <3>1, ItemIs
      <4> QED
        BY <1>3, <3>2, <4>1, AppendJoined
    <3>4. LineInv' /\ CrcInv' /\ CountInv' /\ RetryInv'
      BY <1>6, <1>7, <1>8, <2>2, <2>3, <2>5, <2>7, <3>1, <3>3, AckAnswered
    <3> QED
      BY <1>5, <2>2, <2>4, <2>5, <3>4
  <2> QED
    BY <2>4, <2>6, <2>7
<1>10. ASSUME c # "ACK" PROVE Stay
  <2>1. /\ hold' = FALSE /\ at' = at
        /\ scrc' = (IF at = 0 THEN c = "C" ELSE scrc)
        /\ toBoard' = Append(toBoard, Item(at, scrc'))
    BY <1>2, <1>10 DEF SenderSteps
  <2>2. c \in {"C", "NAK"} /\ AskHeard(toSender', toSender, c)
    BY <1>4, <1>10 DEF Signals
  <2>3. PICK d \in BOOLEAN : scrc' = d
    BY <1>5, <2>1
  <2>4. (at = 0 => (d <=> c = "C")) /\ (at # 0 => (d <=> scrc))
    BY <2>1, <2>3
  <2>5. PICK w \in 0 .. FinStep : at = w /\ at' = w
    BY <1>5, <2>1
  <2>6. Joined(toBoard', toBoard, Item(w, d))
    <3>1. Item(w, d) \in Items
      BY ItemIs
    <3>2. toBoard' = Append(toBoard, Item(w, d))
      BY <2>1, <2>3, <2>5, Zenon
    <3> QED
      BY <1>3, <3>1, <3>2, AppendJoined
  <2>7. ~hold'
    BY <2>1
  <2>8. (w = 0 => (d <=> c = "C")) /\ (w # 0 => (d <=> scrc))
    BY <2>4, <2>5, Zenon
  <2>9. LineInv' /\ CrcInv' /\ CountInv' /\ RetryInv'
    BY <1>6, <1>7, <1>8, <2>2, <2>3, <2>5, <2>6, <2>7, <2>8, AskAnswered
  <2>10. at' \in 0 .. FinStep + 1
    BY <1>5, <2>1
  <2> QED
    BY <2>1, <2>3, <2>9, <2>10
<1>11. Stay
  BY <1>9, <1>10
<1>12. TypeInv' /\ InSequence' /\ DataInv'
  <2>1. UNCHANGED <<pc, in_hdr, hdr_chars, retries, crc_retries, crc_mode, tx_ack, next_blk,
                    file_length, read_length, at_eof, len, buf, mem>>
    BY <1>8 DEF board
  <2>2. noise' \in 0 .. MaxNoise /\ cross' \in 0 .. MaxCross
    BY <1>8 DEF TypeInv, TypeOK
  <2>3. in_hdr' \in BOOLEAN /\ hdr_chars' \in BOOLEAN /\ tx_ack' \in BOOLEAN
    BY <2>1, Types
  <2>4. started' \in BOOLEAN /\ cancelled' \in BOOLEAN
    <3>1. started' = started /\ cancelled' = cancelled
      BY DEF SenderSteps
    <3> QED
      BY <3>1, Types
  <2> QED
    BY <1>8, <1>11, <2>1, <2>2, <2>3, <2>4, SameData
<1> QED
  BY <1>11, <1>12

-----------------------------------------------------------------------------
(* Block numbers. *)

LEMMA DivIs ==
  ASSUME NEW a \in Int, NEW b \in Nat \ {0}
  PROVE  a \div b \in Int /\ a % b \in 0 .. b - 1 /\ a = b * (a \div b) + (a % b)
OBVIOUS

LEMMA TimesLess ==
  ASSUME NEW m \in Int, NEW n \in Int, NEW b \in Nat \ {0}, b * m < b * n
  PROVE  m < n
OBVIOUS

LEMMA TimesLe ==
  ASSUME NEW m \in Int, NEW n \in Int, NEW b \in Nat, m <= n
  PROVE  b * m <= b * n
OBVIOUS

LEMMA DivModIs ==
  ASSUME NEW a \in Int, NEW b \in Nat \ {0}, NEW q \in Int, NEW r \in 0 .. b - 1, a = b * q + r
  PROVE  a \div b = q /\ a % b = r
<1>1. PICK d \in Int, e \in 0 .. b - 1 : d = a \div b /\ e = a % b /\ a = b * d + e
  BY DivIs
<1>2. b * q < b * (d + 1) /\ b * d < b * (q + 1)
  <2>1. b * (d + 1) = b * d + b /\ b * (q + 1) = b * q + b
    OBVIOUS
  <2>2. PICK x, y \in Int : x = b * q /\ y = b * d
    OBVIOUS
  <2>3. x < y + b /\ y < x + b
    BY <1>1, <2>2
  <2> QED
    BY <2>1, <2>2, <2>3
<1>3. q < d + 1 /\ d < q + 1
  BY <1>2, TimesLess
<1>4. d = q
  BY <1>3
<1>5. e = r
  BY <1>1, <1>4
<1> QED
  BY <1>1, <1>4, <1>5

\* Numbers that agree modulo s and are less than s apart are the same.
LEMMA ModSame ==
  ASSUME NEW x \in Int, NEW y \in Int, NEW s \in Nat \ {0}, x % s = y % s, x < y + s, y < x + s
  PROVE  x = y
<1>1. PICK p \in Int, r \in 0 .. s - 1 : x = s * p + r /\ r = x % s
  BY DivIs
<1>2. PICK q \in Int : y = s * q + r
  <2>1. PICK u \in 0 .. s - 1, q \in Int : y = s * q + u /\ u = y % s
    BY DivIs
  <2>2. u = r
    BY <1>1, <2>1
  <2> QED
    BY <2>1, <2>2
<1>3. s * p < s * (q + 1) /\ s * q < s * (p + 1)
  <2>1. PICK g, h \in Int : g = s * p /\ h = s * q
    OBVIOUS
  <2>2. g < h + s /\ h < g + s
    BY <1>1, <1>2, <2>1
  <2>3. s * (q + 1) = h + s /\ s * (p + 1) = g + s
    BY <2>1
  <2> QED
    BY <2>1, <2>2, <2>3
<1>4. p < q + 1 /\ q < p + 1
  BY <1>3, TimesLess
<1>5. p = q
  BY <1>4
<1> QED
  BY <1>1, <1>2, <1>5

LEMMA ModSteps ==
  ASSUME NEW x \in Int, NEW s \in Nat \ {0}
  PROVE  /\ ((x % s) + 1) % s = (x + 1) % s
         /\ ((x % s) - 1) % s = (x - 1) % s
         /\ x % s \in 0 .. s - 1
<1>1. PICK p \in Int, r \in 0 .. s - 1 : x = s * p + r /\ r = x % s
  BY DivIs
<1>6. x = s * p + r
  BY <1>1
<1>2. PICK y, u \in Int : y = x + 1 /\ u = r + 1
  OBVIOUS
<1>3. y % s = u % s
  <2>1. CASE r = s - 1
    <3>1. PICK g \in Int : g = p + 1
      OBVIOUS
    <3>2. y = s * g + 0 /\ u = s * 1 + 0 /\ 0 \in 0 .. s - 1 /\ 1 \in Int
      BY <1>6, <1>2, <2>1, <3>1
    <3>3. y % s = 0
      BY <3>2, DivModIs, Zenon
    <3>4. u % s = 0
      BY <3>2, DivModIs, Zenon
    <3> QED
      BY <3>3, <3>4
  <2>2. CASE r < s - 1
    <3>1. y = s * p + u /\ u = s * 0 + u /\ u \in 0 .. s - 1 /\ 0 \in Int
      <4>1. PICK f \in Int : f = s * p /\ s * 0 = 0
        OBVIOUS
      <4>2. y = f + u /\ u = 0 + u /\ u \in 0 .. s - 1
        BY <1>2, <1>6, <2>2, <4>1
      <4> QED
        BY <4>1, <4>2
    <3>2. y % s = u
      BY <3>1, DivModIs, Zenon
    <3>3. u % s = u
      BY <3>1, DivModIs, Zenon
    <3> QED
      BY <3>2, <3>3
  <2> QED
    BY <2>1, <2>2
<1>4. PICK z, w \in Int : z = x - 1 /\ w = r - 1
  OBVIOUS
<1>5. z % s = w % s
  <2>1. CASE r = 0
    <3>1. PICK g, h, n \in Int : g = p - 1 /\ h = s - 1 /\ n = -1
      OBVIOUS
    <3>2. z = s * g + h /\ w = s * n + h /\ h \in 0 .. s - 1
      BY <1>6, <1>4, <2>1, <3>1
    <3>3. z % s = h
      BY <3>2, DivModIs, Zenon
    <3>4. w % s = h
      BY <3>2, DivModIs, Zenon
    <3> QED
      BY <3>3, <3>4
  <2>2. CASE r > 0
    <3>1. z = s * p + w /\ w = s * 0 + w /\ w \in 0 .. s - 1 /\ 0 \in Int
      <4>1. PICK f \in Int : f = s * p /\ s * 0 = 0
        OBVIOUS
      <4>2. z = f + w /\ w = 0 + w /\ w \in 0 .. s - 1
        BY <1>4, <1>6, <2>2, <4>1
      <4> QED
        BY <4>1, <4>2
    <3>2. z % s = w
      BY <3>1, DivModIs, Zenon
    <3>3. w % s = w
      BY <3>1, DivModIs, Zenon
    <3> QED
      BY <3>2, <3>3
  <2> QED
    BY <2>1, <2>2
<1> QED
  BY <1>1, <1>2, <1>3, <1>4, <1>5

\* The item that the board takes lies between the block before and the one that
\* the sender is at.
LEMMA HeadPlace ==
  ASSUME TypeInv, LineInv, CountInv, Live, NEW m, Drawn(toBoard', toBoard, m), m \in Tokens
  PROVE  /\ val(m) \in Int /\ val(m) >= B /\ val(m) <= at /\ val(m) <= B + 1 + cross
         /\ pc = "open" => val(m) = 0
<1>1. toBoard \in Seq(Items) /\ toBoard' \in Seq(Items) /\ m \in Items
  BY DEF LineInv, Drawn
<1>2. val(m) \in Int /\ val(m) >= 0
  <2>1. val(m) \in 0 .. FinStep
    BY <1>1, Sets
  <2> QED
    BY <2>1, BlocksFacts
<1>3. at \in Int /\ cross \in Nat /\ B \in Nat
  BY Types, Counts
<1>4. ASSUME NEW V \in SUBSET Tokens, N(toBoard, V) = 0 PROVE m \notin V
  <2>1. N(toBoard', V) = N(toBoard, V) - In(m, V) /\ N(toBoard', V) \in Nat
    BY <1>1, HitsFinite DEF Drawn
  <2> QED
    BY <1>4, <2>1 DEF In
<1>5. \A v : UpTo(v) \in SUBSET Tokens /\ Above(v) \in SUBSET Tokens
  BY DEF UpTo, Above
<1>6. \A v : N(toBoard, UpTo(v)) = 0 => ~(val(m) <= v)
  <2> SUFFICES ASSUME NEW v, N(toBoard, UpTo(v)) = 0 PROVE ~(val(m) <= v)
    OBVIOUS
  <2>1. m \notin UpTo(v)
    BY <1>4, <1>5
  <2> QED
    BY <1>1, <2>1, Sets
<1>7. \A v : N(toBoard, Above(v)) = 0 => ~(val(m) > v)
  <2> SUFFICES ASSUME NEW v, N(toBoard, Above(v)) = 0 PROVE ~(val(m) > v)
    OBVIOUS
  <2>1. m \notin Above(v)
    BY <1>4, <1>5
  <2> QED
    BY <1>1, <2>1, Sets
<1>8. /\ N(toBoard, UpTo(B - 1)) = 0 /\ N(toBoard, Above(B + 1 + cross)) = 0
      /\ N(toBoard, Above(at)) = 0 /\ (pc = "open" => N(toBoard, Above(0)) = 0)
  BY DEF LineInv, CountInv
<1>9. ~(val(m) <= B - 1) /\ ~(val(m) > B + 1 + cross) /\ ~(val(m) > at)
      /\ (pc = "open" => ~(val(m) > 0))
  BY <1>6, <1>7, <1>8
<1> QED
  BY <1>2, <1>3, <1>9

\* The number tells whether the block is the one that is due or the one before.
LEMMA BlockIs ==
  ASSUME TypeInv, LineInv, CountInv, DataInv, Live, pc # "open", NumbersTell, FinApart,
         NEW m, Drawn(toBoard', toBoard, m), m.op = "blk"
  PROVE  /\ m.k \in Int /\ m \in Tokens /\ val(m) = m.k
         /\ blk(m) = next_blk => m.k = B + 1 /\ m.k <= Blocks
         /\ blk(m) = (next_blk - 1) % SeqSize => m.k = B
         /\ blk(m) \notin {next_blk, (next_blk - 1) % SeqSize} => m.k > B
<1>1. m \in Items
  BY DEF Drawn
<1>2. m \in Tokens /\ val(m) = m.k /\ m.k \in (0 .. Blocks) \cup {FinStep}
  BY <1>1, ItemCases, Sets
<1>3. PICK k \in Int : k = m.k /\ k >= B /\ k <= B + 1 + cross
  BY <1>2, HeadPlace
<1>4. B \in Nat /\ B <= Blocks /\ cross \in Nat /\ cross <= MaxCross /\ MaxCross \in Nat
      /\ SeqSize \in Nat /\ SeqSize > 1 /\ MaxCross < SeqSize - 1
  BY Types, Counts, Constants DEF CountInv, NumbersTell
<1>5. next_blk = (B + 1) % SeqSize
  BY DEF DataInv
<1>6. (next_blk - 1) % SeqSize = B % SeqSize
  <2>1. PICK x \in Int : x = B + 1 /\ x - 1 = B
    BY <1>4
  <2>3. SeqSize \in Nat \ {0}
    BY <1>4
  <2>2. ((x % SeqSize) - 1) % SeqSize = (x - 1) % SeqSize
    BY <2>3, ModSteps, Zenon
  <2> QED
    BY <1>5, <2>1, <2>2
<1>7. CASE k = FinStep
  <2>1. blk(m) = 0
    BY <1>3, <1>7 DEF blk
  <2>2. /\ B + 1 \in (Blocks + 1 - MaxCross) .. (Blocks + 1)
        /\ B \in (Blocks + 1 - MaxCross) .. (Blocks + 1) /\ k > B
    BY <1>3, <1>4, <1>7, BlocksFacts
  <2>3. (B + 1) % SeqSize # 0 /\ B % SeqSize # 0
    BY <2>2 DEF FinApart
  <2> QED
    BY <1>2, <1>3, <1>5, <1>6, <2>1, <2>2, <2>3
<1>8. CASE k # FinStep
  <2>1. blk(m) = k % SeqSize /\ k <= Blocks
    BY <1>2, <1>3, <1>8, BlocksFacts DEF blk
  <2>2. B + 1 \in Int /\ k < (B + 1) + SeqSize /\ B + 1 < k + SeqSize /\ k < B + SeqSize /\ B < k + SeqSize
    BY <1>3, <1>4
  <2>3. k % SeqSize = (B + 1) % SeqSize => k = B + 1
    <3>1. PICK j \in Int : j = B + 1
      BY <2>2
    <3>2. k < j + SeqSize /\ j < k + SeqSize /\ SeqSize \in Nat \ {0}
      BY <1>4, <2>2, <3>1
    <3>3. k % SeqSize = j % SeqSize => k = j
      BY <3>2, ModSame, Zenon
    <3> QED
      BY <3>1, <3>3
  <2>4. k % SeqSize = B % SeqSize => k = B
    <3>1. k < B + SeqSize /\ B < k + SeqSize /\ SeqSize \in Nat \ {0} /\ B \in Int
      BY <1>4, <2>2
    <3> QED
      BY <3>1, ModSame, Zenon
  <2>5. k # B => k > B
    BY <1>3, <1>4
  <2>6. k = B => k % SeqSize = B % SeqSize
    OBVIOUS
  <2> QED
    BY <1>2, <1>3, <1>5, <1>6, <2>1, <2>3, <2>4, <2>5, <2>6
<1> QED
  BY <1>7, <1>8

-----------------------------------------------------------------------------
(* What the callers of xyzModem_get_hdr do. *)

\* A block that is acknowledged: the one that is due, or the one before.
LEMMA TakenCount ==
  ASSUME TypeInv, LineInv, CountInv, Live, started, UNCHANGED sender, cross' = cross,
         NEW m, Drawn(toBoard', toBoard, m), m \in Tokens, NEW b \in 0 .. Blocks, val(m) = b,
         B' = b, b \in {B, B + 1}, pc' # "open",
         NEW t \in Nat, T' = t, t <= 1 + cross, NEW a \in Nat, Acks' = a, a <= Acks + 1
  PROVE  CountInv'
<1>1. toBoard \in Seq(Items) /\ toBoard' \in Seq(Items) /\ m \in Items
  BY DEF LineInv, Drawn
<1>2. at \in Int /\ cross \in Nat /\ B \in Nat /\ Acks \in Nat /\ b \in Int
  BY Types, Counts, BlocksFacts
<1>3. b <= at
  BY HeadPlace
<1>4. at' = at /\ cancelled' = cancelled /\ started' = started /\ hold' = hold
  BY DEF sender
<1>5. ASSUME NEW v \in Int
      PROVE  /\ N(toBoard', UpTo(v)) \in Nat /\ N(toBoard, UpTo(v)) \in Nat
             /\ b <= v => N(toBoard, UpTo(v)) = N(toBoard', UpTo(v)) + 1
             /\ N(toBoard', UpTo(v)) <= N(toBoard, UpTo(v))
             /\ N(toBoard', Above(v)) <= N(toBoard, Above(v))
             /\ N(toBoard', Above(v)) \in Nat /\ N(toBoard, Above(v)) \in Nat
  <2>1. UpTo(v) \in SUBSET Tokens /\ Above(v) \in SUBSET Tokens
    BY DEF UpTo, Above
  <2>2. /\ N(toBoard', UpTo(v)) \in Nat /\ N(toBoard, UpTo(v)) \in Nat
        /\ N(toBoard', Above(v)) \in Nat /\ N(toBoard, Above(v)) \in Nat
    BY <1>1, HitsFinite
  <2>3. /\ N(toBoard', UpTo(v)) = N(toBoard, UpTo(v)) - In(m, UpTo(v))
        /\ N(toBoard', Above(v)) = N(toBoard, Above(v)) - In(m, Above(v))
    BY <2>1 DEF Drawn
  <2>4. b <= v => m \in UpTo(v)
    BY <1>1, Sets
  <2>5. In(m, UpTo(v)) \in {0, 1} /\ In(m, Above(v)) \in {0, 1} /\ (b <= v => In(m, UpTo(v)) = 1)
    BY <2>4 DEF In
  <2> QED
    BY <2>2, <2>3, <2>5
<1>6. N(toBoard', UpTo(b - 1)) = 0
  <2>1. CASE b = B
    <3>1. N(toBoard, UpTo(B - 1)) = 0 /\ b - 1 \in Int
      BY <1>2 DEF CountInv
    <3> QED
      BY <1>5, <2>1, <3>1
  <2>2. CASE b = B + 1
    <3>1. b - 1 = B /\ b > B /\ B \in Steps
      <4>1. B \in 0 .. FinStep + 1
        BY <1>2, <2>2, BlocksFacts DEF CountInv
      <4> QED
        BY <1>2, <2>2, <4>1 DEF Steps
    <3>2. m \in Above(B)
      BY <1>1, <3>1, Sets
    <3>3. NoneAfter(toBoard, Above(B), UpTo(B)) /\ UpTo(B) \in SUBSET Tokens /\ Above(B) \in SUBSET Tokens
      BY <3>1 DEF LineInv, UpTo, Above
    <3>4. N(toBoard', UpTo(B)) = 0
      BY <3>2, <3>3 DEF Drawn
    <3> QED
      BY <3>1, <3>4
  <2> QED
    BY <2>1, <2>2
<1>7. N(toBoard', Above(b + 1 + cross)) = 0
  <2>1. PICK v, w \in Int : v = B + 1 + cross /\ w = b + 1 + cross /\ v <= w
    BY <1>2
  <2>2. N(toBoard', Above(w)) <= N(toBoard', Above(v))
    BY <1>1, <2>1, SetOrder
  <2>3. N(toBoard', Above(v)) <= N(toBoard, Above(v)) /\ N(toBoard, Above(v)) = 0
    BY <1>5, <2>1 DEF CountInv
  <2>4. N(toBoard', Above(w)) \in Nat /\ N(toBoard', Above(v)) \in Nat
    BY <1>5
  <2>5. N(toBoard', Above(w)) = 0
    BY <2>2, <2>3, <2>4
  <2> QED
    BY <2>1, <2>5
<1>8. ASSUME ~cancelled, NEW v \in Steps, b <= v
      PROVE  N(toBoard', UpTo(v)) + at + a <= v + 1 + cross
  <2>1. v \in Int
    BY StepsInt
  <2>2. PICK e \in Nat : N(toBoard', UpTo(v)) = e /\ N(toBoard, UpTo(v)) = e + 1
    BY <1>5, <1>8, <2>1
  <2>3. N(toBoard, UpTo(v)) >= 1
    BY <2>2
  <2>4. N(toBoard, UpTo(v)) + at + Acks <= v + 1 + cross
    BY <1>8, <2>3 DEF CountInv
  <2>5. (e + 1) + at + Acks <= v + 1 + cross
    BY <2>2, <2>4
  <2>6. e + at + a <= v + 1 + cross
    BY <1>2, <2>1, <2>5
  <2> QED
    BY <2>2, <2>6
<1>9. ~cancelled => at + a <= b + 1 + cross
  <2>1. b \in Steps /\ b <= b
    BY <1>2, BlocksFacts DEF Steps
  <2>2. N(toBoard', UpTo(b)) \in Nat
    BY <1>2, <1>5
  <2>3. ~cancelled => N(toBoard', UpTo(b)) + at + a <= b + 1 + cross
    BY <1>8, <2>1
  <2> QED
    BY <1>2, <2>2, <2>3
<1>10. ASSUME ~cancelled, NEW v \in Steps, N(toBoard', UpTo(v)) >= 1
       PROVE  N(toBoard', UpTo(v)) + at + a <= v + 1 + cross
  <2>1. v \in Int /\ b - 1 \in Int
    BY <1>2, StepsInt
  <2>2. CASE b <= v
    BY <1>8, <1>10, <2>2
  <2>3. CASE v <= b - 1
    <3>1. N(toBoard', UpTo(v)) <= N(toBoard', UpTo(b - 1))
      BY <1>1, <2>1, <2>3, SetOrder
    <3> QED
      BY <1>5, <1>6, <1>10, <2>1, <3>1
  <2> QED
    BY <1>2, <2>1, <2>2, <2>3
<1>11. ~(hold /\ at <= b)
  <2>1. SUFFICES ASSUME hold, at <= b PROVE FALSE
    OBVIOUS
  <2>2. at = b
    BY <1>2, <1>3, <2>1
  <2>3. at \in {0, 1, FinStep, FinStep + 1}
    BY <2>1 DEF LineInv
  <2>4. at <= 1
    BY <1>2, <2>2, <2>3, BlocksFacts
  <2>5. N(toBoard, Copies(b)) = 0
    BY <2>1, <2>2, <2>4 DEF LineInv
  <2>6. m \in Copies(b) /\ Copies(b) \in SUBSET Tokens
    BY <1>1, Sets DEF Copies
  <2>7. N(toBoard', Copies(b)) = N(toBoard, Copies(b)) - In(m, Copies(b)) /\ In(m, Copies(b)) = 1
    BY <2>6 DEF Drawn, In
  <2>8. N(toBoard', Copies(b)) \in Nat
    BY <1>1, HitsFinite
  <2> QED
    BY <2>5, <2>7, <2>8
<1>12. at >= b
  BY <1>2, <1>3
<1> QED
  BY <1>4, <1>6, <1>7, <1>9, <1>10, <1>11, <1>12 DEF CountInv

\* After a block that is new: the retries begin again, and the acknowledgement is
\* under way.
LEMMA TakenRetry ==
  ASSUME TypeInv', LineInv', retries' = MAX_RETRIES, tx_ack',
         NEW t \in Nat, T' = t, NEW c \in Nat, cross' = c, t <= 1 + c,
         NEW n \in Nat, noise' = n
  PROVE  RetryInv'
<1>1. toBoard' \in Seq(Items) /\ toSender' \in Seq(Signals)
  BY DEF LineInv
<1>2. PICK b \in Nat : B' = b
  <2>1. read_length' \in Nat
    BY DEF TypeInv, TypeOK
  <2>2. BLOCK \in Nat \ {0}
    BY Constants
  <2>3. B' = read_length' \div BLOCK
    BY DEF B
  <2>4. PICK r \in Nat : read_length' = r
    BY <2>1
  <2>5. r \div BLOCK \in Nat
    BY <2>2
  <2> QED
    BY <2>3, <2>4, <2>5, Zenon
<1>3. PICK u, a, k, x, y, z, l \in Nat :
           /\ T' = u /\ Acks' = a /\ Asks' = k /\ N(toBoard', Tokens) = x
           /\ Bit(tx_ack') = y /\ Ackd(toSender') = z /\ Len(toSender') = l
           /\ u = x + l + y /\ a = z + y /\ Asked(toSender') = k
  BY <1>1, CountsNext
<1>4. y = 1 /\ k <= l
  BY <1>1, <1>3, SignalCounts DEF Bit
<1>5. PICK e, s \in Nat : N(toBoard', Copies(b)) = e /\ N(toBoard', Spoilt) = s /\ e <= x
  <2>1. N(toBoard', Copies(b)) \in Nat /\ N(toBoard', Spoilt) \in Nat
    BY <1>1, HitsFinite
  <2>2. b \in Int
    OBVIOUS
  <2>3. N(toBoard', Copies(b)) <= N(toBoard', Tokens)
    BY <1>1, <2>2, SetOrder, Zenon
  <2> QED
    BY <1>3, <2>1, <2>3
<1>6. s <= n
  BY <1>5 DEF LineInv
<1>7. u = t /\ u = x + l + y
  BY <1>3
<1>8. e + k <= c /\ u # 0
  BY <1>4, <1>5, <1>7
<1>9. MAX_RETRIES \in Nat
  BY Constants
<1>10. \A w : Paid(MAX_RETRIES, e, s, k, w, b, u, n, c)
  BY <1>5, <1>6, <1>8, <1>9 DEF Paid
<1> QED
  BY <1>2, <1>3, <1>5, <1>10 DEF RetryInv

\* A call returns: m has come, or nothing has, in time; x late answers by then.
Calls(x) ==
  /\ in_hdr /\ in_hdr' = FALSE /\ hdr_chars' = hdr_chars /\ mem' = mem
  /\ UNCHANGED sender /\ noise' = noise /\ cross' = x /\ x \in Nat /\ x <= MaxCross /\ x >= cross
  /\ Shrunk(toBoard', toBoard) /\ N(toBoard', Spoilt) <= N(toBoard, Spoilt)
  /\ ~started => toBoard' = <<>>
Came(m, x) == Drawn(toBoard', toBoard, m) /\ m \in Tokens /\ x = cross /\ started
Idle(x) ==
  /\ toBoard = <<>> /\ toBoard' = <<>>
  /\ ((toSender = <<>> \/ ~Runs) /\ x = cross) \/ x = cross + 1

LEMMA CalledFacts ==
  ASSUME TypeInv, LineInv, NEW x, Calls(x)
  PROVE  /\ ~tx_ack /\ in_hdr' = FALSE /\ hdr_chars' = hdr_chars /\ mem' = mem
         /\ UNCHANGED sender /\ noise' = noise /\ cross' = x /\ x \in Nat /\ x <= MaxCross
         /\ x >= cross /\ Shrunk(toBoard', toBoard) /\ toBoard' \in Seq(Items)
         /\ toBoard \in Seq(Items) /\ toSender \in Seq(Signals)
         /\ N(toBoard', Spoilt) <= N(toBoard, Spoilt) /\ (~started => toBoard' = <<>>)
<1>1. toBoard \in Seq(Items) /\ toSender \in Seq(Signals) /\ (in_hdr => ~tx_ack)
  BY DEF LineInv
<1>2. toBoard' \in Seq(Items)
  BY DEF Calls, Shrunk
<1> QED
  BY <1>1, <1>2 DEF Calls

LEMMA CalledLine ==
  ASSUME TypeInv, LineInv, NEW x, Calls(x), toSender' \in Seq(Signals),
         ~Runs => toSender' = <<>>,
         pc' \in {"open", "read", "final"} => ~at_eof' /\ len' = 0,
         ~started => pc' \in {"open", "done"}
  PROVE  LineInv'
<1>1. noise \in Nat /\ noise' = noise
  BY Types, CalledFacts
<1>2. N(toBoard', Spoilt) <= N(toBoard, Spoilt) + (noise - noise)
  <2>1. N(toBoard, Spoilt) \in Nat /\ N(toBoard', Spoilt) \in Nat
    BY CalledFacts, HitsFinite
  <2>2. N(toBoard', Spoilt) <= N(toBoard, Spoilt)
    BY CalledFacts
  <2> QED
    BY <1>1, <2>1, <2>2
<1>3. UNCHANGED sender /\ Shrunk(toBoard', toBoard) /\ (~started => toBoard' = <<>>) /\ in_hdr' = FALSE
  BY CalledFacts
<1>4. ~started => toSender' = <<>>
  BY DEF Runs
<1> QED
  BY <1>1, <1>2, <1>3, <1>4, BoardLine

\* Nothing is copied to the buffer.
LEMMA CalledData ==
  ASSUME TypeInv, LineInv, InSequence, NEW x, Calls(x), buf' = buf, read_length' = read_length,
         pc' \in {"open", "read", "final", "store", "done"}, retries' \in 0 .. MAX_RETRIES,
         crc_retries' \in Int, crc_mode' \in BOOLEAN, tx_ack' \in BOOLEAN, at_eof' \in BOOLEAN,
         next_blk' \in 0 .. SeqSize - 1, file_length' \in {0, FileLen}, len' \in {0, -1}
  PROVE  TypeInv' /\ InSequence'
<1>1. /\ in_hdr' = FALSE /\ hdr_chars' = hdr_chars /\ mem' = mem /\ UNCHANGED sender
      /\ noise' = noise /\ cross' = x /\ x \in Nat /\ x <= MaxCross
  BY CalledFacts
<1>2. /\ hold' = hold /\ started' = started /\ scrc' = scrc /\ cancelled' = cancelled
      /\ at' = at /\ announces' = announces
  BY <1>1 DEF sender
<1>3. InSequence'
  <2>1. Loaded' = Loaded
    BY <1>1 DEF Loaded
  <2> QED
    BY <1>2, <2>1, SameLoaded
<1>4. /\ in_hdr' \in BOOLEAN /\ hdr_chars' \in BOOLEAN /\ hold' \in BOOLEAN /\ started' \in BOOLEAN
      /\ scrc' \in BOOLEAN /\ cancelled' \in BOOLEAN /\ announces' \in BOOLEAN
  BY <1>1, <1>2, Types
<1>5. /\ Len(buf') \in 0 .. BUFFER + BLOCK - 1 /\ mem' \in Seq(Nat) /\ buf' \in Seq(Nat)
      /\ read_length' \in Nat /\ read_length' % BLOCK = 0
      /\ at' \in 0 .. FinStep + 1 /\ noise' \in 0 .. MaxNoise
  BY <1>1, <1>2 DEF TypeInv, TypeOK
<1>6. cross' \in 0 .. MaxCross
  BY <1>1, Constants
<1>7. TypeInv'
  BY <1>4, <1>5, <1>6 DEF TypeInv, TypeOK
<1> QED
  BY <1>3, <1>7

LEMMA CalledDead ==
  ASSUME ~Live'
  PROVE  CrcInv' /\ CountInv' /\ RetryInv' /\ DataInv'
BY DEF CrcInv, CountInv, RetryInv, DataInv

\* One character for the item that has come, or for a time-out.
LEMMA TalkCount ==
  ASSUME TypeInv, LineInv, CountInv, Live, NEW x, Calls(x), NEW m, Came(m, x) \/ Idle(x),
         ~tx_ack', toSender' \in Seq(Signals),
         Len(toSender') <= Len(toSender) + 1, ~Runs => toSender' = <<>>
  PROVE  \E t \in Nat : T' = t /\ t <= 1 + x
<1>1. toBoard' \in Seq(Items) /\ toBoard \in Seq(Items) /\ ~tx_ack /\ x \in Nat /\ x >= cross
      /\ toSender \in Seq(Signals)
  BY CalledFacts
<1>2. PICK t, a, k, y, b, z, l \in Nat :
           /\ T' = t /\ Acks' = a /\ Asks' = k /\ N(toBoard', Tokens) = y
           /\ Bit(tx_ack') = b /\ Ackd(toSender') = z /\ Len(toSender') = l
           /\ t = y + l + b /\ a = z + b /\ Asked(toSender') = k
  BY <1>1, CountsNext
<1>3. T' = t /\ t = y + l + b /\ b = 0
  BY <1>2 DEF Bit
<1>4. PICK n, j \in Nat : N(toBoard, Tokens) = n /\ Len(toSender) = j
  BY <1>1, HitsFinite, SignalCounts
<1>5. cross \in Nat
  BY Types
<1>6. n + j <= 1 + cross
  <2>1. Bit(tx_ack) = 0
    BY <1>1 DEF Bit
  <2>2. N(toBoard, Tokens) + Len(toSender) + Bit(tx_ack) <= 1 + cross
    BY DEF CountInv, T
  <2> QED
    BY <1>4, <2>1, <2>2
<1>7. l <= j + 1
  BY <1>2, <1>4
<1>8. CASE Came(m, x)
  <2>1. y = n - 1
    <3>1. Drawn(toBoard', toBoard, m) /\ m \in Tokens
      BY <1>8 DEF Came
    <3>2. Tokens \in SUBSET Tokens
      OBVIOUS
    <3>3. N(toBoard', Tokens) = N(toBoard, Tokens) - In(m, Tokens) /\ In(m, Tokens) = 1
      BY <3>1, <3>2 DEF Drawn, In
    <3> QED
      BY <1>2, <1>4, <3>3
  <2>2. t <= 1 + x
    BY <1>1, <1>3, <1>5, <1>6, <1>7, <2>1
  <2> QED
    BY <1>3, <2>2
<1>9. CASE Idle(x)
  <2>1. y = 0
    <3>1. toBoard' = <<>>
      BY <1>9 DEF Idle
    <3>2. <<>> \in Seq(Items) /\ Len(<<>>) = 0
      OBVIOUS
    <3>3. N(<<>>, Tokens) \in Nat /\ N(<<>>, Tokens) <= Len(<<>>)
      BY <3>2, HitsFinite
    <3>4. N(<<>>, Tokens) = 0
      BY <3>2, <3>3
    <3> QED
      BY <1>2, <3>1, <3>4
  <2>2. CASE toSender = <<>>
    <3>1. j = 0
      BY <1>4, <2>2
    <3>2. t <= 1 + x
      BY <1>1, <1>3, <1>7, <2>1, <3>1
    <3> QED
      BY <1>3, <3>2
  <2>3. CASE ~Runs
    <3>1. l = 0
      BY <1>2, <2>3
    <3>2. t <= 1 + x
      BY <1>1, <1>3, <2>1, <3>1
    <3> QED
      BY <1>3, <3>2
  <2>4. CASE x = cross + 1
    <3>2. t <= 1 + x
      BY <1>1, <1>3, <1>5, <1>6, <1>7, <2>1, <2>4
    <3> QED
      BY <1>3, <3>2
  <2> QED
    BY <1>9, <2>2, <2>3, <2>4 DEF Idle
<1> QED
  BY <1>8, <1>9

\* What the board asks for a block with.
LEMMA Pleased ==
  ASSUME toSender \in Seq(Signals), NEW d \in BOOLEAN, crc_mode' = d,
         PUTC(Please) \/ PUTC(<<>>)
  PROVE  \E e \in {"C", "NAK"} :
           /\ Says(toSender', toSender, e) /\ e \in Signals
           /\ e = "C" => d
           /\ e = "NAK" => ~d
           /\ Runs /\ PUTC(Please) => toSender' = Append(toSender, e)
           /\ ~Runs => toSender' = <<>>
           /\ Is(e, "ACK") = 0
<1>1. PICK e \in {"C", "NAK"} : e = (IF d THEN "C" ELSE "NAK")
  OBVIOUS
<1>2. /\ e \in Signals /\ Is(e, "ACK") = 0
      /\ e = "C" => d
      /\ e = "NAK" => ~d
  BY <1>1 DEF Signals, Is
<1>3. Please = <<e>>
  BY <1>1 DEF Please
<1>4. CASE PUTC(Please)
  <2>1. PUTC(<<e>>)
    BY <1>3, <1>4
  <2>2. /\ Says(toSender', toSender, e)
        /\ Runs => toSender' = Append(toSender, e)
        /\ ~Runs => toSender' = <<>>
    BY <1>2, <2>1, PutOne
  <2> QED
    BY <1>2, <2>2
<1>5. CASE ~PUTC(Please)
  <2>1. Less(toSender', toSender) /\ (~Runs => toSender' = <<>>)
    BY <1>5, PutNone
  <2>2. Says(toSender', toSender, e)
    BY <1>2, <2>1, LessSays
  <2> QED
    BY <1>2, <1>5, <2>1, <2>2
<1> QED
  BY <1>4, <1>5

LEMMA OpenGoesOnStep ==
  ASSUME Inv, NEW x, Calls(x), NEW r, NEW m, pc = "open", OpenGoesOn(r),
         UNCHANGED <<read_length, at_eof, len, buf>>,
         r # "eof", r = "cancel" \/ Came(m, x) \/ Idle(x)
  PROVE  Inv'
<1> USE DEF Inv
<1>1. /\ tx_ack' = tx_ack /\ file_length' = file_length /\ next_blk' = next_blk
      /\ read_length' = read_length /\ at_eof' = at_eof /\ len' = len /\ buf' = buf
  BY DEF OpenGoesOn
<1>2. retries' = retries - 1 /\ pc' = IF r = "cancel" \/ retries' = 0 THEN "done" ELSE "open"
  BY DEF OpenGoesOn
<1>3. crc_retries' = IF r = "timeout" THEN crc_retries - 1 ELSE crc_retries
  BY DEF OpenGoesOn
<1>4. PICK q \in Int : crc_retries' = q
  <2>1. crc_retries \in Int
    BY DEF TypeInv
  <2> QED
    BY <1>3, <2>1
<1>5. PICK d \in BOOLEAN : crc_mode' = d /\ (d => crc_mode)
  BY DEF OpenGoesOn
<1>6. /\ ~tx_ack /\ mem' = mem /\ UNCHANGED sender /\ noise' = noise /\ cross' = x /\ x \in Nat
      /\ x >= cross /\ Shrunk(toBoard', toBoard) /\ toSender \in Seq(Signals)
      /\ toBoard' \in Seq(Items)
  BY CalledFacts
<1>7. PUTC(Please) \/ PUTC(<<>>)
  BY DEF OpenGoesOn
<1>8. PICK e \in {"C", "NAK"} :
           /\ Says(toSender', toSender, e) /\ e \in Signals
           /\ e = "C" => d
           /\ e = "NAK" => ~d
           /\ ~Runs => toSender' = <<>>
           /\ Is(e, "ACK") = 0
  BY <1>5, <1>6, <1>7, Pleased
<1>9. toSender' \in Seq(Signals) /\ Len(toSender') <= Len(toSender) + 1
      /\ Ackd(toSender') <= Ackd(toSender) + Is(e, "ACK")
  BY <1>8 DEF Says
<1>10. ~at_eof /\ len = 0
  BY DEF LineInv
<1>11. Live
  BY <1>10 DEF Live
<1>12. retries \in Int /\ retries > 0 /\ retries <= MAX_RETRIES
  BY <1>11, Constants DEF DataInv, TypeInv, TypeOK
<1>13. PICK p \in 0 .. MAX_RETRIES : retries' = p
  BY <1>2, <1>12, Constants
<1>14. pc' \in {"open", "done"} /\ (pc' = "open" => r # "cancel" /\ p # 0)
  BY <1>2, <1>13
<1>15. TypeInv' /\ InSequence'
  <2>1. /\ tx_ack' \in BOOLEAN /\ at_eof' \in BOOLEAN /\ next_blk' \in 0 .. SeqSize - 1
        /\ file_length' \in {0, FileLen} /\ len' \in {0, -1}
    BY <1>1, Types DEF TypeInv, TypeOK
  <2>2. pc' \in {"open", "read", "final", "store", "done"}
    BY <1>14
  <2> QED
    BY <1>1, <1>4, <1>5, <1>13, <2>1, <2>2, CalledData
<1>16. LineInv'
  <2>1. ~started => pc' \in {"open", "done"}
    BY <1>14
  <2>2. pc' \in {"open", "read", "final"} => ~at_eof' /\ len' = 0
    BY <1>1, <1>10
  <2> QED
    BY <1>8, <1>9, <2>1, <2>2, CalledLine
<1>17. CASE pc' = "done"
  <2>1. ~Live'
    BY <1>17 DEF Live
  <2> QED
    BY <1>15, <1>16, <2>1, CalledDead
<1>18. CASE pc' = "open"
  <2>1. Came(m, x) \/ Idle(x)
    BY <1>14, <1>18
  <2>2. ~tx_ack'
    BY <1>1, <1>6
  <2>3. PICK t \in Nat : T' = t /\ t <= 1 + x
    BY <1>8, <1>9, <1>11, <2>1, <2>2, TalkCount
  <2>4. PICK a \in Nat : Acks' = a /\ a <= Acks
    <3>1. PICK u, a, k, y, b, z, l \in Nat :
             /\ T' = u /\ Acks' = a /\ Asks' = k /\ N(toBoard', Tokens) = y
             /\ Bit(tx_ack') = b /\ Ackd(toSender') = z /\ Len(toSender') = l
             /\ u = y + l + b /\ a = z + b /\ Asked(toSender') = k
      BY <1>6, <1>9, CountsNext
    <3>2. b = 0 /\ Bit(tx_ack) = 0
      BY <1>6, <2>2, <3>1 DEF Bit
    <3>3. PICK i \in Nat : Ackd(toSender) = i
      BY <1>6, SignalCounts
    <3>4. Acks = i
      BY <3>2, <3>3 DEF Acks
    <3>5. z <= i
      BY <1>8, <1>9, <3>1, <3>3
    <3>6. Acks' = a /\ a = z + b
      BY <3>1
    <3>7. a <= i
      BY <3>2, <3>5, <3>6
    <3> QED
      BY <3>4, <3>6, <3>7
  <2>5. CountInv'
    BY <1>1, <1>6, <1>11, <1>18, <2>3, <2>4, BoardCount
  <2>6. CrcInv'
    <3>1. crc_mode' => crc_mode
      BY <1>5
    <3>2. (e = "C" => crc_mode') /\ (e = "NAK" => ~crc_mode')
      BY <1>5, <1>8
    <3> QED
      BY <1>6, <1>8, <1>11, <1>18, <3>1, <3>2, BoardCrc
  <2>7. RetryInv'
    BY <1>18 DEF RetryInv
  <2>8. DataInv'
    <3>1. B' = B
      BY <1>1 DEF B
    <3>2. /\ next_blk = 0 /\ read_length = B * BLOCK /\ file_length = 0 /\ buf = <<>> /\ mem = <<>>
          /\ FirstOf(Loaded, Wanted, read_length)
      BY <1>11 DEF DataInv
    <3>3. p > 0
      BY <1>13, <1>14, <1>18
    <3>4. Loaded' = Loaded /\ announces' = announces
      BY <1>1, <1>6 DEF Loaded, sender
    <3>5. Wanted' = Wanted
      BY <3>4, SameLoaded
    <3> QED
      BY <1>1, <1>6, <1>13, <1>18, <3>1, <3>2, <3>3, <3>4, <3>5 DEF DataInv
  <2> QED
    BY <1>15, <1>16, <2>5, <2>6, <2>7, <2>8
<1> QED
  BY <1>14, <1>17, <1>18

\* The block is taken, its acknowledgement not yet sent.
LEMMA TakenTalk ==
  ASSUME TypeInv, LineInv, CountInv, Live, NEW x, Calls(x), NEW m, Came(m, x), tx_ack',
         Less(toSender', toSender)
  PROVE  \E t, a \in Nat : T' = t /\ t <= 1 + x /\ Acks' = a /\ a <= Acks + 1
<1>1. toBoard' \in Seq(Items) /\ toBoard \in Seq(Items) /\ ~tx_ack /\ x \in Nat /\ x >= cross
      /\ toSender \in Seq(Signals)
  BY CalledFacts
<1>2. toSender' \in Seq(Signals) /\ Len(toSender') <= Len(toSender) /\ Ackd(toSender') <= Ackd(toSender)
  BY DEF Less
<1>3. PICK t, a, k, y, b, z, l \in Nat :
           /\ T' = t /\ Acks' = a /\ Asks' = k /\ N(toBoard', Tokens) = y
           /\ Bit(tx_ack') = b /\ Ackd(toSender') = z /\ Len(toSender') = l
           /\ t = y + l + b /\ a = z + b /\ Asked(toSender') = k
  BY <1>1, <1>2, CountsNext
<1>4. b = 1 /\ Bit(tx_ack) = 0
  BY <1>1, <1>3 DEF Bit
<1>5. PICK n, j, i \in Nat : N(toBoard, Tokens) = n /\ Len(toSender) = j /\ Ackd(toSender) = i
  BY <1>1, HitsFinite, SignalCounts
<1>6. cross \in Nat
  BY Types
<1>7. n + j <= 1 + cross /\ Acks = i
  <2>1. N(toBoard, Tokens) + Len(toSender) + Bit(tx_ack) <= 1 + cross
    BY DEF CountInv, T
  <2> QED
    BY <1>4, <1>5, <2>1 DEF Acks
<1>8. l <= j /\ z <= i
  BY <1>2, <1>3, <1>5
<1>9. y = n - 1
  <2>1. Drawn(toBoard', toBoard, m) /\ m \in Tokens
    BY DEF Came
  <2>2. Tokens \in SUBSET Tokens
    OBVIOUS
  <2>3. N(toBoard', Tokens) = N(toBoard, Tokens) - In(m, Tokens) /\ In(m, Tokens) = 1
    BY <2>1, <2>2 DEF Drawn, In
  <2> QED
    BY <1>3, <1>5, <2>3
<1>10. T' = t /\ Acks' = a /\ t = y + l + b /\ a = z + b
  BY <1>3
<1>11. t <= 1 + x /\ a <= i + 1
  BY <1>1, <1>4, <1>6, <1>7, <1>8, <1>9, <1>10
<1> QED
  BY <1>7, <1>10, <1>11

LEMMA OpenedStep ==
  ASSUME Inv, NEW x, Calls(x), NEW m, Came(m, x), m.op = "blk", m.crc = crc_mode,
         pc = "open", Opened("ok", m), UNCHANGED <<read_length, at_eof, len, buf>>
  PROVE  Inv'
<1> USE DEF Inv
<1>1. ~at_eof /\ len = 0
  BY DEF LineInv
<1>2. Live
  BY <1>1 DEF Live
<1>3. Drawn(toBoard', toBoard, m) /\ m \in Tokens /\ started /\ x = cross
  BY DEF Came
<1>4. m \in Items /\ val(m) = 0 /\ m.k = 0
  <2>1. m \in Items
    BY <1>3 DEF Drawn
  <2>2. val(m) = 0
    BY <1>2, <1>3, HeadPlace
  <2> QED
    BY <2>1, <2>2, Sets
<1>5. blk(m) = 0
  <2>1. FinStep # 0 /\ SeqSize \in Nat \ {0}
    BY BlocksFacts, Constants
  <2>2. 0 % SeqSize = 0
    BY <2>1
  <2> QED
    BY <1>4, <2>1, <2>2 DEF blk
<1>6. /\ pc' = "read" /\ retries' = MAX_RETRIES /\ next_blk' = 1 /\ PUTC(<<>>)
      /\ file_length' = (IF announces THEN FileLen ELSE file_length)
      /\ crc_retries' = crc_retries /\ crc_mode' = crc_mode
  BY <1>5 DEF Opened
<1>7. tx_ack'
  BY <1>5 DEF Opened
<1>8. /\ mem' = mem /\ UNCHANGED sender /\ noise' = noise /\ cross' = x /\ x \in Nat
      /\ Shrunk(toBoard', toBoard) /\ toSender \in Seq(Signals)
      /\ toBoard' \in Seq(Items) /\ toBoard \in Seq(Items)
  BY CalledFacts
<1>9. Less(toSender', toSender) /\ (~Runs => toSender' = <<>>)
  BY <1>6, <1>8, PutNone
<1>10. toSender' \in Seq(Signals)
  BY <1>9 DEF Less
<1>11. /\ next_blk = 0 /\ read_length = B * BLOCK /\ file_length = 0 /\ buf = <<>> /\ mem = <<>>
       /\ FirstOf(Loaded, Wanted, read_length)
  BY <1>2 DEF DataInv
<1>12. B = 0 /\ B' = B /\ announces' = announces /\ at' = at
  BY <1>2, <1>8 DEF CountInv, B, sender
<1>13. TypeInv' /\ InSequence'
  <2>1. /\ at_eof' \in BOOLEAN /\ len' \in {0, -1} /\ crc_retries' \in Int /\ crc_mode' \in BOOLEAN
    BY <1>6, Types DEF TypeInv, TypeOK
  <2>2. next_blk' \in 0 .. SeqSize - 1 /\ retries' \in 0 .. MAX_RETRIES
    BY <1>6, Constants
  <2>3. file_length' \in {0, FileLen}
    BY <1>6, <1>11
  <2>4. tx_ack' \in BOOLEAN
    BY <1>5 DEF Opened
  <2>5. pc' \in {"open", "read", "final", "store", "done"} /\ buf' = buf /\ read_length' = read_length
    BY <1>6
  <2> QED
    BY <2>1, <2>2, <2>3, <2>4, <2>5, CalledData
<1>14. LineInv'
  <2>1. pc' \in {"open", "read", "final"} => ~at_eof' /\ len' = 0
    BY <1>1
  <2> QED
    BY <1>3, <1>9, <1>10, <2>1, CalledLine
<1>15. PICK t, a \in Nat : T' = t /\ t <= 1 + x /\ Acks' = a /\ a <= Acks + 1
  BY <1>2, <1>7, <1>9, TakenTalk
<1>16. CountInv'
  <2>1. 0 \in 0 .. Blocks /\ 0 \in {B, B + 1} /\ B' = 0 /\ pc' # "open"
    BY <1>6, <1>12, BlocksFacts
  <2>2. cross' = cross /\ t <= 1 + cross
    BY <1>3, <1>8, <1>15
  <2> QED
    BY <1>2, <1>3, <1>4, <1>8, <1>15, <2>1, <2>2, TakenCount
<1>17. RetryInv'
  <2>1. noise \in Nat
    BY Types
  <2> QED
    BY <1>6, <1>7, <1>8, <1>13, <1>14, <1>15, <2>1, TakenRetry
<1>18. CrcInv'
  <2>1. ~crc_mode => ~scrc /\ N(toBoard', WithCrc) = 0
    <3> SUFFICES ASSUME ~crc_mode PROVE ~scrc /\ N(toBoard', WithCrc) = 0
      OBVIOUS
    <3>1. m \in WithSum
      BY <1>4, Sets
    <3>2. WithSum \in SUBSET Tokens /\ WithCrc \in SUBSET Tokens
      BY DEF WithSum, WithCrc
    <3>3. /\ N(toBoard', WithSum) = N(toBoard, WithSum) - In(m, WithSum)
          /\ NoneAfter(toBoard, WithSum, WithCrc) => N(toBoard', WithCrc) = 0
      BY <1>3, <3>1, <3>2 DEF Drawn
    <3>4. N(toBoard', WithSum) \in Nat /\ N(toBoard, WithSum) \in Nat /\ In(m, WithSum) = 1
      BY <1>8, <3>1, HitsFinite DEF In
    <3>5. N(toBoard, WithSum) >= 1
      BY <3>3, <3>4
    <3> QED
      BY <1>2, <3>3, <3>5 DEF CrcInv
  <2>2. "ACK" \in Signals /\ Says(toSender', toSender, "ACK")
    BY <1>8, <1>9, LessSays DEF Signals
  <2> QED
    BY <1>2, <1>6, <1>8, <2>1, <2>2, BoardCrc
<1>19. DataInv'
  <2>1. (B + 1) % SeqSize = 1
    <3>1. PICK u, z \in Int : u = 1 /\ z = 0
      OBVIOUS
    <3>2. u = SeqSize * z + u /\ u \in 0 .. SeqSize - 1 /\ SeqSize \in Nat \ {0}
      BY <3>1, Constants
    <3>3. u % SeqSize = u
      BY <3>2, DivModIs, Zenon
    <3> QED
      BY <1>12, <3>1, <3>3
  <2>2. file_length' = IF announces THEN FileLen ELSE 0
    BY <1>6, <1>11
  <2>3. MAX_RETRIES > 0 /\ Len(buf) < BUFFER
    BY <1>11, Constants
  <2>4. Loaded' = Loaded
    BY <1>8 DEF Loaded
  <2>5. Wanted' = Wanted
    BY <1>12, <2>4, SameLoaded
  <2> QED
    BY <1>6, <1>8, <1>11, <1>12, <2>1, <2>2, <2>3, <2>4, <2>5 DEF DataInv
<1> QED
  BY <1>13, <1>14, <1>16, <1>17, <1>18, <1>19

\* A retry is paid for by the item that has come for it.
LEMMA PaidRetry ==
  ASSUME NEW r \in Int, NEW p \in Int, p = r - 1, NEW a \in Int, NEW b \in Int,
         NEW c \in Nat, NEW d \in Nat, NEW s \in Nat, NEW z \in Nat, NEW k \in Nat, NEW l \in Nat,
         NEW t \in Nat, NEW u \in Nat, NEW n \in Nat, NEW x \in Nat,
         d <= c, z <= s, a = b => d + 1 <= c /\ u # 0 /\ l <= k + 1,
         z + 1 <= s \/ (d + 1 <= c /\ l <= k),
         Paid(r, c, s, k, a, b, t, n, x)
  PROVE  Paid(p, d, z, l, a, b, u, n, x)
<1>1. MAX_RETRIES \in Nat
  BY Constants
<1>2. CASE a = b
  <2>1. PICK g \in Nat : g = (IF a = b /\ t = 0 THEN 2 ELSE 0)
    OBVIOUS
  <2>2. MAX_RETRIES - r + c + s + k + g <= 2 * (n + x)
    BY <1>2, <2>1 DEF Paid
  <2>3. (MAX_RETRIES - p) + d + z + l + 0 <= 2 * (n + x)
    BY <1>1, <1>2, <2>2
  <2> QED
    BY <1>2, <2>3 DEF Paid
<1>3. CASE a # b
  <2>1. MAX_RETRIES - r + c + s + 0 + 0 <= 2 * (n + x)
    BY <1>3 DEF Paid
  <2>2. (MAX_RETRIES - p) + d + z + 0 + 0 <= 2 * (n + x)
    BY <1>1, <2>1
  <2> QED
    BY <1>3, <2>2 DEF Paid
<1> QED
  BY <1>2, <1>3

\* What RetryInv speaks of, after a step that takes no block.
LEMMA RetryNext ==
  ASSUME toBoard' \in Seq(Items), toSender' \in Seq(Signals)
  PROVE  \E d, z, l, u \in Nat :
           /\ N(toBoard', Copies(B)) = d /\ N(toBoard', Spoilt) = z /\ Asked(toSender') = l
           /\ Asks' = l /\ T' = u /\ Len(toSender') <= u
<1>1. PICK u, a, l, y, b, w, i \in Nat :
         /\ T' = u /\ Acks' = a /\ Asks' = l /\ N(toBoard', Tokens) = y
         /\ Bit(tx_ack') = b /\ Ackd(toSender') = w /\ Len(toSender') = i
         /\ u = y + i + b /\ a = w + b /\ Asked(toSender') = l
  BY CountsNext
<1>2. PICK d, z \in Nat : N(toBoard', Copies(B)) = d /\ N(toBoard', Spoilt) = z
  BY HitsFinite
<1>3. Len(toSender') <= u
  BY <1>1
<1> QED
  BY <1>1, <1>2, <1>3, Zenon

LEMMA CameRetry ==
  ASSUME TypeInv, LineInv, CountInv, RetryInv, Live, pc = "read", NEW x, Calls(x),
         NEW m, Came(m, x), read_length' = read_length, NEW p \in Int, retries' = p,
         p = retries - 1, NEW e \in Signals, Says(toSender', toSender, e),
         Runs => toSender' = Append(toSender, e),
         m \in Spoilt \/ (val(m) = B /\ e = "ACK")
  PROVE  RetryInv'
<1>1. /\ UNCHANGED sender /\ noise' = noise /\ cross' = x
      /\ toBoard' \in Seq(Items) /\ toBoard \in Seq(Items) /\ toSender \in Seq(Signals)
  BY CalledFacts
<1>2. Drawn(toBoard', toBoard, m) /\ m \in Tokens /\ started /\ x = cross
  BY DEF Came
<1>3. B' = B /\ at' = at
  BY <1>1 DEF B, sender
<1>4. B \in Nat /\ Asks \in Nat /\ T \in Nat /\ at \in Int /\ retries \in Int /\ noise \in Nat /\ cross \in Nat
  BY Counts, Types
<1>5. toSender' \in Seq(Signals) /\ Asked(toSender') <= Asked(toSender) + Is(e, "C") + Is(e, "NAK")
  BY DEF Says
<1>6. PICK d, z, l, u \in Nat :
           /\ N(toBoard', Copies(B)) = d /\ N(toBoard', Spoilt) = z /\ Asked(toSender') = l
           /\ Asks' = l /\ T' = u /\ Len(toSender') <= u
  BY <1>1, <1>5, RetryNext
<1>7. PICK c, s, k \in Nat : N(toBoard, Copies(B)) = c /\ N(toBoard, Spoilt) = s /\ Asks = k
  BY <1>1, <1>4, HitsFinite
<1>8. l <= k + 1 /\ (e = "ACK" => l <= k)
  <2>1. Is(e, "C") + Is(e, "NAK") \in {0, 1} /\ Is(e, "C") \in {0, 1} /\ Is(e, "NAK") \in {0, 1}
        /\ (e = "ACK" => Is(e, "C") = 0 /\ Is(e, "NAK") = 0)
    BY DEF Is
  <2>2. l <= k + Is(e, "C") + Is(e, "NAK")
    BY <1>5, <1>6, <1>7 DEF Asks
  <2> QED
    BY <2>1, <2>2
<1>9. /\ d = c - In(m, Copies(B)) /\ z = s - In(m, Spoilt)
  <2>1. Copies(B) \in SUBSET Tokens /\ Spoilt \in SUBSET Tokens
    BY DEF Copies, Spoilt
  <2> QED
    BY <1>2, <1>6, <1>7, <2>1 DEF Drawn
<1>10. val(m) = B => In(m, Copies(B)) = 1
  BY <1>2 DEF Copies, In
<1>11. In(m, Copies(B)) \in {0, 1} /\ In(m, Spoilt) \in {0, 1} /\ (m \in Spoilt => In(m, Spoilt) = 1)
  BY DEF In
<1>12. d <= c /\ z <= s /\ (val(m) = B => d + 1 <= c) /\ (m \in Spoilt => z + 1 <= s)
  BY <1>9, <1>10, <1>11
<1>13. at = B => val(m) = B
  <2>1. val(m) \in Int /\ val(m) >= B /\ val(m) <= at
    BY <1>2, HeadPlace
  <2> QED
    BY <1>4, <2>1
<1>14. at = B => u # 0
  <2> SUFFICES ASSUME at = B PROVE u # 0
    OBVIOUS
  <2>1. Runs
    BY <1>2, <1>4, BlocksFacts DEF Runs, CountInv
  <2>2. toSender' = Append(toSender, e)
    BY <2>1
  <2>3. Len(toSender') = Len(toSender) + 1 /\ Len(toSender) \in Nat
    BY <1>1, <2>2, Spoken, SignalCounts
  <2> QED
    BY <1>6, <2>3
<1>15. SUFFICES ASSUME Danger' PROVE Paid(p, d, z, l, at, B, u, noise, x)
  BY <1>1, <1>3, <1>6 DEF RetryInv
<1>16. Danger
  BY <1>3, <1>6, <1>7, <1>12, <1>15 DEF Danger
<1>17. Paid(retries, c, s, k, at, B, T, noise, cross)
  BY <1>7, <1>16 DEF RetryInv
<1>18. z + 1 <= s \/ (d + 1 <= c /\ l <= k)
  BY <1>8, <1>12
<1>19. at = B => d + 1 <= c /\ u # 0 /\ l <= k + 1
  BY <1>8, <1>12, <1>13, <1>14
<1>20. B \in Int
  BY <1>4
<1>21. Paid(p, d, z, l, at, B, u, noise, cross)
  BY <1>4, <1>12, <1>17, <1>18, <1>19, <1>20, PaidRetry, Zenon
<1> QED
  BY <1>2, <1>21

LEMMA IdleRetry ==
  ASSUME TypeInv, LineInv, CountInv, RetryInv, Live, pc = "read", NEW x, Calls(x), Idle(x),
         read_length' = read_length, NEW p \in Int, retries' = p, p = retries - 1,
         NEW e \in Signals, Says(toSender', toSender, e), Runs => toSender' = Append(toSender, e)
  PROVE  RetryInv'
<1>1. /\ UNCHANGED sender /\ noise' = noise /\ cross' = x /\ x \in Nat /\ ~tx_ack
      /\ toBoard' \in Seq(Items) /\ toBoard \in Seq(Items) /\ toSender \in Seq(Signals)
  BY CalledFacts
<1>2. toBoard = <<>> /\ toBoard' = <<>>
  BY DEF Idle
<1>3. B' = B /\ at' = at
  BY <1>1 DEF B, sender
<1>4. B \in Nat /\ Asks \in Nat /\ T \in Nat /\ at \in Int /\ retries \in Int /\ noise \in Nat /\ cross \in Nat
  BY Counts, Types
<1>5. toSender' \in Seq(Signals) /\ Asked(toSender') <= Asked(toSender) + Is(e, "C") + Is(e, "NAK")
  BY DEF Says
<1>6. PICK d, z, l, u \in Nat :
           /\ N(toBoard', Copies(B)) = d /\ N(toBoard', Spoilt) = z /\ Asked(toSender') = l
           /\ Asks' = l /\ T' = u /\ Len(toSender') <= u
  BY <1>1, <1>5, RetryNext
<1>7. PICK c, s, k \in Nat : N(toBoard, Copies(B)) = c /\ N(toBoard, Spoilt) = s /\ Asks = k
  BY <1>1, <1>4, HitsFinite
<1>8. l <= k + 1
  <2>1. Is(e, "C") + Is(e, "NAK") \in {0, 1} /\ Is(e, "C") \in {0, 1} /\ Is(e, "NAK") \in {0, 1}
    BY DEF Is
  <2>2. l <= k + Is(e, "C") + Is(e, "NAK")
    BY <1>5, <1>6, <1>7 DEF Asks
  <2> QED
    BY <2>1, <2>2
<1>9. c = 0 /\ s = 0 /\ d = 0 /\ z = 0
  <2>1. PICK q \in Seq(Items) : q = <<>> /\ Len(q) = 0
    BY <1>1, <1>2
  <2>2. ASSUME NEW V PROVE N(q, V) = 0
    <3>1. N(q, V) \in Nat /\ N(q, V) <= Len(q)
      BY HitsFinite
    <3> QED
      BY <2>1, <3>1
  <2> QED
    BY <1>2, <1>6, <1>7, <2>1, <2>2
<1>10. SUFFICES ASSUME Danger' PROVE Paid(p, d, z, l, at, B, u, noise, x)
  BY <1>1, <1>3, <1>6 DEF RetryInv
<1>11. at = B
  BY <1>3, <1>6, <1>9, <1>10 DEF Danger
<1>12. Runs
  BY <1>4, <1>11, BlocksFacts DEF Runs, CountInv
<1>13. u # 0
  <2>2. toSender' = Append(toSender, e)
    BY <1>12
  <2>3. Len(toSender') = Len(toSender) + 1 /\ Len(toSender) \in Nat
    BY <1>1, <2>2, Spoken, SignalCounts
  <2> QED
    BY <1>6, <2>3
<1>14. Paid(retries, c, s, k, at, B, T, noise, cross)
  BY <1>7, <1>11 DEF RetryInv, Danger
<1>15. PICK t, g \in Nat : t = T /\ g = (IF at = B /\ t = 0 THEN 2 ELSE 0)
  BY <1>4
<1>16. (MAX_RETRIES - retries) + 0 + 0 + k + g <= 2 * (noise + cross)
  BY <1>9, <1>11, <1>14, <1>15 DEF Paid
<1>17. MAX_RETRIES \in Nat
  BY Constants
<1>18. (MAX_RETRIES - p) + 0 + 0 + l + 0 <= 2 * (noise + x)
  <2>1. CASE x = cross + 1
    BY <1>1, <1>4, <1>8, <1>16, <1>17, <2>1
  <2>2. CASE x # cross + 1
    <3>1. toSender = <<>> /\ x = cross
      BY <1>12, <2>2 DEF Idle
    <3>2. t = 0 /\ k = 0
      <4>1. N(toBoard, Tokens) = 0
        <5>1. N(toBoard, Tokens) \in Nat /\ N(toBoard, Tokens) <= Len(toBoard) /\ Len(toBoard) = 0
          BY <1>1, <1>2, HitsFinite
        <5> QED
          BY <5>1
      <4>2. Len(toSender) = 0 /\ Asked(toSender) = 0 /\ Bit(tx_ack) = 0
        BY <1>1, <3>1, Quiet DEF Bit
      <4> QED
        BY <1>7, <1>15, <4>1, <4>2 DEF T, Asks
    <3>3. g = 2
      BY <1>11, <1>15, <3>2
    <3> QED
      BY <1>4, <1>8, <1>16, <1>17, <3>1, <3>2, <3>3
  <2> QED
    BY <2>1, <2>2
<1> QED
  BY <1>9, <1>11, <1>13, <1>18 DEF Paid

\* stream_read goes on to another call with nothing copied.
LEMMA StaysStep ==
  ASSUME Inv, NEW x, Calls(x), pc = "read", pc' = "read",
         UNCHANGED <<crc_mode, crc_retries, file_length, next_blk, tx_ack, read_length, at_eof,
                     len, buf>>,
         NEW p \in 1 .. MAX_RETRIES, retries' = p,
         NEW e \in Signals, Says(toSender', toSender, e), ~Runs => toSender' = <<>>,
         e = "C" => crc_mode, e = "NAK" => ~crc_mode
  PROVE  TypeInv' /\ InSequence' /\ LineInv' /\ DataInv' /\ CrcInv'
<1> USE DEF Inv
<1>1. ~at_eof /\ len = 0
  BY DEF LineInv
<1>2. Live
  BY <1>1 DEF Live
<1>3. started
  BY <1>2 DEF CountInv
<1>4. TypeInv' /\ InSequence'
  <2>1. /\ tx_ack' \in BOOLEAN /\ at_eof' \in BOOLEAN /\ next_blk' \in 0 .. SeqSize - 1
        /\ file_length' \in {0, FileLen} /\ len' \in {0, -1} /\ crc_retries' \in Int
        /\ crc_mode' \in BOOLEAN
    BY Types DEF TypeInv, TypeOK
  <2>2. retries' \in 0 .. MAX_RETRIES
    BY Constants
  <2>3. pc' \in {"open", "read", "final", "store", "done"}
    OBVIOUS
  <2>4. buf' = buf /\ read_length' = read_length
    OBVIOUS
  <2> QED
    BY <2>1, <2>2, <2>3, <2>4, CalledData
<1>5. toSender' \in Seq(Signals)
  BY DEF Says
<1>6. LineInv'
  <2>1. pc' \in {"open", "read", "final"} => ~at_eof' /\ len' = 0
    BY <1>1
  <2> QED
    BY <1>3, <1>5, <2>1, CalledLine
<1>7. Shrunk(toBoard', toBoard) /\ UNCHANGED sender /\ mem' = mem
  BY CalledFacts
<1>8. CrcInv'
  BY <1>2, <1>7, BoardCrc
<1>9. DataInv'
  <2>1. B' = B /\ announces' = announces
    BY <1>7 DEF B, sender
  <2>2. p > 0
    BY Constants
  <2>3. Loaded' = Loaded
    BY <1>7 DEF Loaded
  <2>4. Wanted' = Wanted
    BY <2>1, <2>3, SameLoaded
  <2> QED
    BY <1>2, <1>7, <2>1, <2>2, <2>3, <2>4 DEF DataInv
<1> QED
  BY <1>4, <1>6, <1>8, <1>9

LEMMA ReadAgainStep ==
  ASSUME Inv, FewFaults, NumbersTell, FinApart, NEW x, Calls(x), NEW m, Came(m, x), m.op = "blk",
         pc = "read", UNCHANGED <<crc_mode, crc_retries, file_length>>, ReadAgain(m)
  PROVE  Inv'
<1> USE DEF Inv
<1>1. ~at_eof /\ len = 0
  BY DEF LineInv
<1>2. Live
  BY <1>1 DEF Live
<1>3. Drawn(toBoard', toBoard, m) /\ m \in Tokens /\ started /\ x = cross
  BY DEF Came
<1>4. val(m) = B
  <2>1. blk(m) = (next_blk - 1) % SeqSize
    BY DEF ReadAgain
  <2> QED
    BY <1>2, <1>3, <2>1, BlockIs
<1>5. /\ UNCHANGED sender /\ noise' = noise /\ cross' = x /\ x \in Nat /\ ~tx_ack
      /\ toBoard' \in Seq(Items) /\ toBoard \in Seq(Items) /\ toSender \in Seq(Signals)
  BY CalledFacts
<1>6. /\ B \in Nat /\ Asks \in Nat /\ T \in Nat /\ at \in Int /\ retries \in Int /\ noise \in Nat
      /\ cross \in Nat /\ noise <= MaxNoise /\ cross <= MaxCross
  BY Counts, Types
<1>7. retries # 1
  <2>1. PICK c, s, k, t \in Nat : /\ N(toBoard, Copies(B)) = c /\ N(toBoard, Spoilt) = s
                                  /\ Asks = k /\ T = t
    BY <1>5, <1>6, HitsFinite
  <2>2. c >= 1
    <3>1. Copies(B) \in SUBSET Tokens /\ m \in Copies(B)
      BY <1>3, <1>4 DEF Copies
    <3>2. N(toBoard', Copies(B)) = N(toBoard, Copies(B)) - In(m, Copies(B)) /\ In(m, Copies(B)) = 1
      BY <1>3, <3>1 DEF Drawn, In
    <3>3. N(toBoard', Copies(B)) \in Nat
      BY <1>5, HitsFinite
    <3> QED
      BY <2>1, <3>2, <3>3
  <2>3. Paid(retries, c, s, k, at, B, t, noise, cross)
    BY <1>2, <2>1, <2>2 DEF RetryInv, Danger
  <2>4. PICK f, g \in Nat : f = (IF at = B THEN k ELSE 0) /\ g = (IF at = B /\ t = 0 THEN 2 ELSE 0)
    OBVIOUS
  <2>5. (MAX_RETRIES - retries) + c + s + f + g <= 2 * (noise + cross)
    BY <2>3, <2>4 DEF Paid
  <2>6. MAX_RETRIES > 2 * (MaxNoise + MaxCross) /\ MAX_RETRIES \in Nat /\ MaxNoise \in Nat
        /\ MaxCross \in Nat
    BY Constants DEF FewFaults
  <2> QED
    BY <1>6, <2>2, <2>5, <2>6
<1>8. /\ PUTC(<<"ACK">>) /\ retries > 1 /\ retries' = retries - 1 /\ pc' = pc /\ buf' = buf
      /\ UNCHANGED <<tx_ack, next_blk, read_length, at_eof, len>>
  BY <1>7 DEF ReadAgain
<1>9. "ACK" \in Signals
  BY DEF Signals
<1>10. /\ Says(toSender', toSender, "ACK")
       /\ Runs => toSender' = Append(toSender, "ACK")
       /\ ~Runs => toSender' = <<>>
  BY <1>5, <1>8, <1>9, PutOne
<1>11. PICK p \in 1 .. MAX_RETRIES : p \in Int /\ p = retries - 1 /\ retries' = p
  BY <1>6, <1>8, Constants DEF TypeInv, TypeOK
<1>12. TypeInv' /\ InSequence' /\ LineInv' /\ DataInv' /\ CrcInv'
  BY <1>8, <1>9, <1>10, <1>11, StaysStep
<1>13. RetryInv'
  BY <1>2, <1>4, <1>8, <1>9, <1>10, <1>11, CameRetry
<1>14. ~tx_ack'
  BY <1>5, <1>8
<1>15. /\ toSender' \in Seq(Signals) /\ Len(toSender') <= Len(toSender) + 1
       /\ Ackd(toSender') <= Ackd(toSender) + 1
  <2>1. Is("ACK", "ACK") = 1
    BY DEF Is
  <2> QED
    BY <1>10, <2>1 DEF Says
<1>16. PICK t \in Nat : T' = t /\ t <= 1 + x
  BY <1>2, <1>10, <1>14, <1>15, TalkCount
<1>17. PICK a \in Nat : Acks' = a /\ a <= Acks + 1
  <2>1. PICK u, a, k, y, b, z, l \in Nat :
             /\ T' = u /\ Acks' = a /\ Asks' = k /\ N(toBoard', Tokens) = y
             /\ Bit(tx_ack') = b /\ Ackd(toSender') = z /\ Len(toSender') = l
             /\ u = y + l + b /\ a = z + b /\ Asked(toSender') = k
    BY <1>5, <1>15, CountsNext
  <2>2. b = 0 /\ Bit(tx_ack) = 0
    BY <1>5, <1>14, <2>1 DEF Bit
  <2>3. PICK i \in Nat : Ackd(toSender) = i
    BY <1>5, SignalCounts
  <2>4. Acks = i
    BY <2>2, <2>3 DEF Acks
  <2>5. z <= i + 1
    BY <1>15, <2>1, <2>3
  <2>6. Acks' = a /\ a = z + b
    BY <2>1
  <2>7. a <= i + 1
    BY <2>2, <2>5, <2>6
  <2> QED
    BY <2>4, <2>6, <2>7
<1>18. CountInv'
  <2>1. B' = B /\ B \in 0 .. Blocks /\ B \in {B, B + 1} /\ pc' # "open"
    BY <1>2, <1>8 DEF B, CountInv
  <2>2. cross' = cross /\ t <= 1 + cross
    BY <1>3, <1>5, <1>16
  <2> QED
    BY <1>2, <1>3, <1>4, <1>5, <1>16, <1>17, <2>1, <2>2, TakenCount
<1> QED
  BY <1>12, <1>13, <1>18

LEMMA ReadRetriesStep ==
  ASSUME Inv, NEW x, Calls(x), NEW m, NEW r, pc = "read",
         UNCHANGED <<crc_mode, crc_retries, file_length>>, ReadRetries(r),
         r = "cancel" \/ Idle(x) \/ (Came(m, x) /\ (val(m) > B \/ m \in Spoilt))
  PROVE  Inv'
<1> USE DEF Inv
<1>1. ~at_eof /\ len = 0
  BY DEF LineInv
<1>2. Live
  BY <1>1 DEF Live
<1>3. started
  BY <1>2 DEF CountInv
<1>4. /\ UNCHANGED sender /\ noise' = noise /\ cross' = x /\ x \in Nat /\ ~tx_ack /\ x >= cross
      /\ toBoard' \in Seq(Items) /\ toBoard \in Seq(Items) /\ toSender \in Seq(Signals)
      /\ Shrunk(toBoard', toBoard)
  BY CalledFacts
<1>5. /\ retries' = retries - 1 /\ buf' = buf
      /\ UNCHANGED <<tx_ack, next_blk, read_length, at_eof>>
      /\ IF r = "cancel" \/ retries' = 0 THEN ReadFails ELSE UNCHANGED <<len, pc>>
  BY DEF ReadRetries
<1>6. PICK d \in BOOLEAN : crc_mode' = d /\ (d <=> crc_mode)
  BY Types
<1>7. r # "cancel" => PUTC(Please)
  BY DEF ReadRetries
<1>8. PUTC(Please) \/ PUTC(<<>>)
  BY DEF ReadRetries
<1>9. PICK e \in {"C", "NAK"} :
           /\ Says(toSender', toSender, e) /\ e \in Signals
           /\ e = "C" => d
           /\ e = "NAK" => ~d
           /\ Runs /\ PUTC(Please) => toSender' = Append(toSender, e)
           /\ ~Runs => toSender' = <<>>
           /\ Is(e, "ACK") = 0
  BY <1>4, <1>6, <1>8, Pleased
<1>10. /\ toSender' \in Seq(Signals) /\ Len(toSender') <= Len(toSender) + 1
       /\ Ackd(toSender') <= Ackd(toSender) + Is(e, "ACK")
  BY <1>9 DEF Says
<1>11. PICK p \in 0 .. MAX_RETRIES : p \in Int /\ p = retries - 1 /\ retries' = p
  <2>1. retries \in Int /\ retries > 0 /\ retries <= MAX_RETRIES
    BY <1>2, Constants DEF DataInv, TypeInv, TypeOK
  <2> QED
    BY <1>5, <2>1, Constants
<1>12. CASE r = "cancel" \/ p = 0
  <2>1. len' = -1 /\ pc' \in {"done", "store"}
    BY <1>5, <1>11, <1>12 DEF ReadFails
  <2>2. TypeInv' /\ InSequence'
    <3>1. /\ tx_ack' \in BOOLEAN /\ at_eof' \in BOOLEAN /\ next_blk' \in 0 .. SeqSize - 1
          /\ file_length' \in {0, FileLen} /\ crc_retries' \in Int /\ crc_mode' \in BOOLEAN
      BY <1>5, Types DEF TypeInv, TypeOK
    <3>2. pc' \in {"open", "read", "final", "store", "done"} /\ len' \in {0, -1}
      BY <2>1
    <3>3. read_length' = read_length /\ buf' = buf
      BY <1>5
    <3> QED
      BY <1>11, <3>1, <3>2, <3>3, CalledData
  <2>3. LineInv'
    <3>1. pc' \in {"open", "read", "final"} => ~at_eof' /\ len' = 0
      BY <2>1
    <3> QED
      BY <1>3, <1>9, <1>10, <3>1, CalledLine
  <2>4. ~Live'
    BY <2>1 DEF Live
  <2> QED
    BY <2>2, <2>3, <2>4, CalledDead
<1>13. CASE r # "cancel" /\ p # 0
  <2>1. len' = len /\ pc' = pc
    BY <1>5, <1>11, <1>13
  <2>2. Runs => toSender' = Append(toSender, e)
    BY <1>7, <1>9, <1>13
  <2>3. p \in 1 .. MAX_RETRIES
    <3>1. MAX_RETRIES \in Nat
      BY Constants
    <3>2. p # 0
      BY <1>13
    <3> QED
      BY <3>1, <3>2
  <2>4. TypeInv' /\ InSequence' /\ LineInv' /\ DataInv' /\ CrcInv'
    <3>1. /\ e = "C" => crc_mode
          /\ e = "NAK" => ~crc_mode
      BY <1>6, <1>9
    <3> QED
      BY <1>5, <1>9, <1>11, <2>1, <2>3, <3>1, StaysStep
  <2>5. ~tx_ack'
    BY <1>4, <1>5
  <2>6. PICK t \in Nat : T' = t /\ t <= 1 + x
    <3>1. Came(m, x) \/ Idle(x)
      BY <1>13
    <3> QED
      BY <1>2, <1>9, <1>10, <2>5, <3>1, TalkCount
  <2>7. PICK a \in Nat : Acks' = a /\ a <= Acks
    <3>1. PICK u, a, k, y, b, z, l \in Nat :
             /\ T' = u /\ Acks' = a /\ Asks' = k /\ N(toBoard', Tokens) = y
             /\ Bit(tx_ack') = b /\ Ackd(toSender') = z /\ Len(toSender') = l
             /\ u = y + l + b /\ a = z + b /\ Asked(toSender') = k
      BY <1>4, <1>10, CountsNext
    <3>2. b = 0 /\ Bit(tx_ack) = 0
      BY <1>4, <2>5, <3>1 DEF Bit
    <3>3. PICK i \in Nat : Ackd(toSender) = i
      BY <1>4, SignalCounts
    <3>4. Acks = i
      BY <3>2, <3>3 DEF Acks
    <3>5. z <= i
      BY <1>9, <1>10, <3>1, <3>3
    <3>6. Acks' = a /\ a = z + b
      BY <3>1
    <3>7. a <= i
      BY <3>2, <3>5, <3>6
    <3> QED
      BY <3>4, <3>6, <3>7
  <2>8. CountInv'
    <3>1. Live' => (pc' = "open" <=> pc = "open")
      BY <2>1
    <3> QED
      BY <1>2, <1>4, <1>5, <2>6, <2>7, <3>1, BoardCount
  <2>9. RetryInv'
    <3>1. CASE Idle(x)
      BY <1>2, <1>5, <1>9, <1>11, <2>2, <3>1, IdleRetry
    <3>2. CASE Came(m, x) /\ m \in Spoilt
      BY <1>2, <1>5, <1>9, <1>11, <2>2, <3>2, CameRetry
    <3>3. CASE Came(m, x) /\ val(m) > B
      <4>1. Drawn(toBoard', toBoard, m) /\ m \in Tokens
        BY <3>3 DEF Came
      <4>2. val(m) \in Int /\ val(m) <= at
        BY <1>2, <4>1, HeadPlace
      <4>3. B \in Nat /\ at \in Int /\ B \in Int
        BY Counts, Types
      <4>4. at # B
        BY <3>3, <4>2, <4>3
      <4>5. B \in Steps
        BY <1>2, <4>3, BlocksFacts DEF Steps, CountInv
      <4>6. /\ NoneAfter(toBoard, Above(B), UpTo(B)) /\ m \in Above(B)
            /\ UpTo(B) \in SUBSET Tokens /\ Above(B) \in SUBSET Tokens
        BY <3>3, <4>1, <4>5 DEF LineInv, UpTo, Above
      <4>7. N(toBoard', UpTo(B)) = 0
        BY <4>1, <4>6 DEF Drawn
      <4>8. N(toBoard', Copies(B)) \in Nat /\ N(toBoard', Copies(B)) <= N(toBoard', UpTo(B))
        BY <1>4, <4>3, SetOrder, HitsFinite
      <4>9. B' = B /\ at' = at
        BY <1>4, <1>5 DEF B, sender
      <4> QED
        BY <4>4, <4>7, <4>8, <4>9 DEF RetryInv, Danger
    <3> QED
      BY <1>13, <3>1, <3>2, <3>3
  <2> QED
    BY <2>4, <2>8, <2>9
<1> QED
  BY <1>12, <1>13

-----------------------------------------------------------------------------
(* The block that is due. *)

\* A set of numbers that is not empty has a least one.
LEMMA LeastOf ==
  ASSUME NEW K \in SUBSET Nat, K # {}
  PROVE  Min(K) \in K /\ \A y \in K : Min(K) <= y
<1>1. PICK R : R = {ss \in Nat \X Nat : ss[1] < ss[2]} /\ IsWellFoundedOn(R, Nat)
  BY NatLessThanWellFounded, Zenon DEF OpToRel
<1>2. PICK x \in K : \A y \in K : ~(<<y, x>> \in R)
  BY <1>1, WFMin, Zenon
<1>3. \A y \in K : x <= y
  <2> SUFFICES ASSUME NEW y \in K PROVE x <= y
    OBVIOUS
  <2>1. y < x => <<y, x>> \in R
    BY <1>1
  <2> QED
    BY <1>2, <2>1
<1> QED
  BY <1>3 DEF Min

\* A position belongs to one block.
LEMMA BlockOf ==
  ASSUME NEW b \in Nat, NEW k \in Nat, NEW r \in Nat, NEW w \in Nat, w = r + BLOCK,
         w = BLOCK * b, NEW i \in 1 .. BLOCK, (k - 1) * BLOCK < r + i, r + i <= k * BLOCK
  PROVE  k = b
<1>1. BLOCK \in Nat \ {0}
  BY Constants
<1>2. PICK g, h, d, e \in Int : g = k * BLOCK /\ h = (k - 1) * BLOCK /\ d = b - 1 /\ e = k - 1
  BY <1>1
<1>3. BLOCK * k = g /\ BLOCK * e = h /\ BLOCK * d = r
  <2>1. BLOCK * (b - 1) = BLOCK * b - BLOCK
    BY <1>1
  <2> QED
    BY <1>1, <1>2, <2>1
<1>4. BLOCK * d < BLOCK * k
  <2>1. r < g
    BY <1>1, <1>2
  <2> QED
    BY <1>3, <2>1
<1>5. BLOCK * e < BLOCK * b
  <2>1. h < w
    BY <1>1, <1>2
  <2> QED
    BY <1>3, <2>1
<1>6. d < k /\ e < b
  BY <1>1, <1>2, <1>4, <1>5, TimesLess
<1> QED
  BY <1>2, <1>6

\* What Stripped says of the block behind r.
LEMMA StrippedIs ==
  ASSUME NEW b \in 1 .. Blocks, NEW r \in Nat, NEW w \in Nat, w = r + BLOCK, w = BLOCK * b,
         NEW i \in 1 .. BLOCK
  PROVE  Stripped(r + i) <=>
           \A q \in (r + i .. w) \cup (w - PadMin + 1 .. w) : IsEof(q)
<1>1. BLOCK \in Nat \ {0} /\ Blocks \in Nat /\ PadMin \in Nat
  BY Constants, BlocksFacts
<1>2. b * BLOCK = w /\ (b - 1) * BLOCK = r
  <2>1. (b - 1) * BLOCK = BLOCK * b - BLOCK
    BY <1>1
  <2> QED
    BY <1>1, <2>1
<1>3. PICK p \in Nat : p = r + i
  OBVIOUS
<1>4. ASSUME NEW k \in 1 .. Blocks, p \in (k - 1) * BLOCK + 1 .. k * BLOCK
      PROVE  k = b
  <2>1. PICK g, h \in Int : g = k * BLOCK /\ h = (k - 1) * BLOCK
    BY <1>1
  <2>2. h < p /\ p <= g
    BY <1>3, <1>4, <2>1
  <2>3. k \in Nat /\ b \in Nat
    BY <1>1
  <2> QED
    BY <1>3, <2>1, <2>2, <2>3, BlockOf
<1>5. p \in (b - 1) * BLOCK + 1 .. b * BLOCK
  BY <1>1, <1>2, <1>3
<1>6. Stripped(p) <=>
        \E k \in 1 .. Blocks :
          /\ p \in (k - 1) * BLOCK + 1 .. k * BLOCK
          /\ \A q \in (p .. k * BLOCK) \cup (k * BLOCK - PadMin + 1 .. k * BLOCK) : IsEof(q)
  BY DEF Stripped
<1>7. Stripped(p) <=>
        \A q \in (p .. b * BLOCK) \cup (b * BLOCK - PadMin + 1 .. b * BLOCK) : IsEof(q)
  BY <1>4, <1>5, <1>6, Zenon
<1> QED
  BY <1>2, <1>3, <1>7

\* A block loses what is behind the file, if its length is known, and its trailing
\* ^Z, if there are PadMin of them, if not.
LEMMA CutIs ==
  ASSUME NEW m, NEW b \in 1 .. Blocks, m.k = b, NEW r \in Nat, NEW w \in Nat, w = r + BLOCK,
         w = BLOCK * b, file_length = IF announces THEN FileLen ELSE 0
  PROVE  \E n \in 0 .. BLOCK :
           /\ Cut(m, w) = n
           /\ \A i \in 1 .. BLOCK : (r + i \in Wanted) <=> i <= n
<1>1. /\ BLOCK \in Nat \ {0} /\ FileLen \in Nat \ {0} /\ PadMin \in Nat \ {0} /\ Blocks \in Nat
      /\ PadMin <= BLOCK
  BY Constants, BlocksFacts
<1>2. PICK z \in Nat : z = Blocks * BLOCK /\ z >= FileLen /\ z < FileLen + BLOCK
  <2>1. Blocks * BLOCK \in Nat
    BY <1>1
  <2> QED
    BY <2>1, BlocksCover
<1>3. w <= z
  <2>1. BLOCK * b <= BLOCK * Blocks
    BY <1>1, TimesLe
  <2>2. BLOCK * Blocks = z
    BY <1>1, <1>2
  <2> QED
    BY <2>1, <2>2
<1>4. \A i \in 1 .. BLOCK : (r + i \in Wanted) <=> IF announces THEN r + i <= FileLen ELSE ~Stripped(r + i)
  <2> SUFFICES ASSUME NEW i \in 1 .. BLOCK
               PROVE  (r + i \in Wanted) <=> IF announces THEN r + i <= FileLen ELSE ~Stripped(r + i)
    OBVIOUS
  <2>1. r + i \in 1 .. z
    BY <1>1, <1>2, <1>3
  <2>2. r + i \in 1 .. Blocks * BLOCK
    BY <1>2, <2>1
  <2> QED
    BY <2>2 DEF Wanted
<1>5. CASE announces
  <2>1. file_length = FileLen /\ file_length # 0
    BY <1>1, <1>5
  <2>2. Cut(m, w) = BLOCK - (IF w > FileLen THEN w - FileLen ELSE 0)
    BY <2>1 DEF Cut
  <2>3. r < FileLen
    <3>1. BLOCK * b <= BLOCK * Blocks
      BY <1>1, TimesLe
    <3> QED
      BY <1>1, <1>2, <1>3
  <2>4. PICK n \in 0 .. BLOCK : n = BLOCK - (IF w > FileLen THEN w - FileLen ELSE 0)
    BY <1>1, <2>3
  <2>5. \A i \in 1 .. BLOCK : r + i <= FileLen <=> i <= n
    BY <1>1, <2>4
  <2> QED
    BY <1>4, <1>5, <2>2, <2>4, <2>5
<1>6. CASE ~announces
  <2>1. file_length = 0
    BY <1>6
  <2> DEFINE K == {n \in 0 .. BLOCK : \A i \in n + 1 .. BLOCK :
                      m.k \in 1 .. Blocks /\ IsEof((m.k - 1) * BLOCK + i)}
  <2>2. (m.k - 1) * BLOCK = r
    <3>1. (b - 1) * BLOCK = BLOCK * b - BLOCK
      BY <1>1
    <3> QED
      BY <1>1, <3>1
  <2>3. \A n \in 0 .. BLOCK : n \in K <=> \A i \in n + 1 .. BLOCK : IsEof(r + i)
    BY <2>2
  <2>4. Kept(m) = Min(K)
    BY DEF Kept
  <2>5. K \in SUBSET Nat /\ \A n \in K : n \in 0 .. BLOCK
    BY <1>1
  <2> HIDE DEF K
  <2>6. BLOCK \in K
    <3>1. BLOCK \in 0 .. BLOCK /\ \A i \in BLOCK + 1 .. BLOCK : IsEof(r + i)
      BY <1>1
    <3> QED
      BY <2>3, <3>1
  <2>7. Min(K) \in K /\ \A y \in K : Min(K) <= y
    BY <2>5, <2>6, LeastOf
  <2>8. PICK c \in 0 .. BLOCK : c = Kept(m) /\ c \in K /\ \A y \in K : c <= y
    BY <2>4, <2>5, <2>7
  <2>9. \A n \in 0 .. BLOCK : n \in K <=> c <= n
    <3> SUFFICES ASSUME NEW n \in 0 .. BLOCK, c <= n PROVE n \in K
      BY <2>8
    <3>1. \A i \in c + 1 .. BLOCK : IsEof(r + i)
      BY <2>3, <2>8
    <3>2. \A i \in n + 1 .. BLOCK : i \in c + 1 .. BLOCK
      BY <1>1
    <3> QED
      BY <2>3, <3>1, <3>2
  <2>10. Cut(m, w) = IF BLOCK - c >= PadMin THEN c ELSE BLOCK
    BY <2>1, <2>8 DEF Cut
  <2>11. PICK n \in 0 .. BLOCK : n = IF BLOCK - c >= PadMin THEN c ELSE BLOCK
    BY <1>1
  <2>12. ASSUME NEW i \in 1 .. BLOCK
         PROVE  Stripped(r + i) <=> c <= i - 1 /\ c <= BLOCK - PadMin
    <3>1. Stripped(r + i) <=> \A q \in (r + i .. w) \cup (w - PadMin + 1 .. w) : IsEof(q)
      BY StrippedIs
    <3>2. PICK a, d \in 0 .. BLOCK : a = i - 1 /\ d = BLOCK - PadMin
      BY <1>1
    <3>3. (\A q \in r + i .. w : IsEof(q)) <=> a \in K
      <4>1. (\A j \in a + 1 .. BLOCK : IsEof(r + j)) <=> \A q \in r + i .. w : IsEof(q)
        <5>1. ASSUME \A j \in a + 1 .. BLOCK : IsEof(r + j), NEW q \in r + i .. w
              PROVE  IsEof(q)
          <6>1. PICK j \in a + 1 .. BLOCK : q = r + j
            <7>1. q - r \in a + 1 .. BLOCK /\ q = r + (q - r)
              BY <1>1, <3>2
            <7> QED
              BY <7>1
          <6> QED
            BY <5>1, <6>1
        <5>2. ASSUME \A q \in r + i .. w : IsEof(q), NEW j \in a + 1 .. BLOCK
              PROVE  IsEof(r + j)
          <6>1. r + j \in r + i .. w
            BY <1>1, <3>2
          <6> QED
            BY <5>2, <6>1
        <5> QED
          BY <5>1, <5>2
      <4> QED
        BY <2>3, <4>1
    <3>4. (\A q \in w - PadMin + 1 .. w : IsEof(q)) <=> d \in K
      <4>1. (\A j \in d + 1 .. BLOCK : IsEof(r + j)) <=> \A q \in w - PadMin + 1 .. w : IsEof(q)
        <5>1. ASSUME \A j \in d + 1 .. BLOCK : IsEof(r + j), NEW q \in w - PadMin + 1 .. w
              PROVE  IsEof(q)
          <6>1. PICK j \in d + 1 .. BLOCK : q = r + j
            <7>1. q - r \in d + 1 .. BLOCK /\ q = r + (q - r)
              BY <1>1, <3>2
            <7> QED
              BY <7>1
          <6> QED
            BY <5>1, <6>1
        <5>2. ASSUME \A q \in w - PadMin + 1 .. w : IsEof(q), NEW j \in d + 1 .. BLOCK
              PROVE  IsEof(r + j)
          <6>1. r + j \in w - PadMin + 1 .. w
            BY <1>1, <3>2
          <6> QED
            BY <5>2, <6>1
        <5> QED
          BY <5>1, <5>2
      <4> QED
        BY <2>3, <4>1
    <3>5. Stripped(r + i) <=> a \in K /\ d \in K
      BY <3>1, <3>3, <3>4
    <3>6. a \in K <=> c <= a
      BY <2>9
    <3>7. d \in K <=> c <= d
      BY <2>9
    <3> QED
      BY <3>2, <3>5, <3>6, <3>7
  <2>13. \A i \in 1 .. BLOCK : ~Stripped(r + i) <=> i <= n
    <3> SUFFICES ASSUME NEW i \in 1 .. BLOCK PROVE ~Stripped(r + i) <=> i <= n
      OBVIOUS
    <3>1. ~(c <= i - 1 /\ c <= BLOCK - PadMin) <=> i <= n
      BY <1>1, <2>11
    <3> QED
      BY <2>12, <3>1
  <2> QED
    BY <1>4, <1>6, <2>10, <2>11, <2>13
<1> QED
  BY <1>5, <1>6

\* w is s and then t; the elements of s count on from r.
JoinOf(w, s, t, j, k) ==
  /\ w \in Seq(Nat) /\ Len(w) = j + k
  /\ \A i \in 1 .. j : w[i] = s[i]
  /\ \A i \in 1 .. k : w[j + i] = t[i]
Counting(s, r, n) == s \in Seq(Nat) /\ Len(s) = n /\ \A i \in 1 .. n : s[i] = r + i

LEMMA Joins ==
  ASSUME NEW s \in Seq(Nat), NEW t \in Seq(Nat), NEW j \in Nat, NEW k \in Nat,
         Len(s) = j, Len(t) = k
  PROVE  JoinOf(s \o t, s, t, j, k)
<1>1. PICK w : w = s \o t
  BY Zenon
<1>2. /\ w \in Seq(Nat) /\ Len(w) = j + k
      /\ \A i \in 1 .. j + k : w[i] = IF i <= j THEN s[i] ELSE t[i - j]
  BY <1>1, ConcatProperties
<1>3. ASSUME NEW i \in 1 .. j PROVE w[i] = s[i]
  BY <1>2
<1>4. ASSUME NEW i \in 1 .. k PROVE w[j + i] = t[i]
  <2>1. j + i \in 1 .. j + k /\ ~(j + i <= j) /\ (j + i) - j = i
    OBVIOUS
  <2> QED
    BY <1>2, <2>1
<1> QED
  BY <1>1, <1>2, <1>3, <1>4 DEF JoinOf

LEMMA CountingFrom ==
  ASSUME NEW r \in Nat, NEW n \in Nat
  PROVE  Counting([i \in 1 .. n |-> r + i], r, n)
BY DEF Counting

\* The elements of W up to r, and behind them those up to r + c.
LEMMA GoesOn ==
  ASSUME NEW W \in SUBSET Nat, NEW r \in Nat, NEW n \in Nat, NEW c \in Nat, n <= c,
         NEW j \in Nat, NEW s, Len(s) = j, FirstOf(s, W, r), NEW d, Counting(d, r, n),
         NEW z, JoinOf(z, s, d, j, n), \A i \in 1 .. c : (r + i \in W) <=> i <= n
  PROVE  FirstOf(z, W, r + c)
<1>1. z \in Seq(Nat) /\ Len(z) = j + n
  BY DEF JoinOf
<1>2. ASSUME NEW i \in 1 .. j PROVE z[i] = s[i] /\ s[i] \in W /\ s[i] <= r /\ s[i] \in Nat
  <2>1. s[i] \in W /\ s[i] <= r
    BY DEF FirstOf
  <2> QED
    BY <2>1 DEF JoinOf
<1>3. ASSUME NEW i \in 1 .. n PROVE z[j + i] = r + i /\ r + i \in W
  <2>1. i \in 1 .. c /\ i <= n
    OBVIOUS
  <2> QED
    BY <2>1 DEF JoinOf, Counting
<1>4. ASSUME NEW i \in 1 .. j + n, i > j PROVE \E e \in 1 .. n : i = j + e
  <2>1. i - j \in 1 .. n /\ i = j + (i - j)
    BY <1>4
  <2> QED
    BY <2>1
<1>5. ASSUME NEW i \in 1 .. j + n PROVE z[i] \in W /\ z[i] <= r + c
  <2>1. CASE i <= j
    <3>1. i \in 1 .. j
      BY <2>1
    <3> QED
      BY <1>2, <3>1
  <2>2. CASE i > j
    <3>1. PICK e \in 1 .. n : i = j + e
      BY <1>4, <2>2
    <3> QED
      BY <1>3, <3>1
  <2> QED
    BY <2>1, <2>2
<1>6. ASSUME NEW i \in 1 .. j + n, NEW k \in 1 .. j + n, i < k PROVE z[i] < z[k]
  <2>1. CASE k <= j
    <3>1. i \in 1 .. j /\ k \in 1 .. j
      BY <1>6, <2>1
    <3>2. s[i] < s[k]
      BY <1>6, <3>1 DEF FirstOf
    <3> QED
      BY <1>2, <3>1, <3>2
  <2>2. CASE k > j
    <3>1. PICK e \in 1 .. n : k = j + e
      BY <1>4, <2>2
    <3>2. z[k] = r + e
      BY <1>3, <3>1
    <3>3. CASE i <= j
      <4>1. i \in 1 .. j
        BY <3>3
      <4>2. PICK f \in Nat : f = z[i] /\ f <= r
        BY <1>2, <4>1
      <4> QED
        BY <3>2, <4>2
    <3>4. CASE i > j
      <4>1. PICK f \in 1 .. n : i = j + f
        BY <1>4, <3>4
      <4>2. z[i] = r + f /\ f < e
        BY <1>3, <1>6, <3>1, <4>1
      <4> QED
        BY <3>2, <4>2
    <3> QED
      BY <3>3, <3>4
  <2> QED
    BY <2>1, <2>2
<1>7. ASSUME NEW p \in W, p <= r + c PROVE \E i \in 1 .. j + n : z[i] = p
  <2>1. CASE p <= r
    <3>1. PICK i \in 1 .. j : s[i] = p
      BY <2>1 DEF FirstOf
    <3>2. i \in 1 .. j + n
      OBVIOUS
    <3> QED
      BY <1>2, <3>1, <3>2
  <2>2. CASE p > r
    <3>1. PICK e \in 1 .. c : p = r + e
      <4>1. p - r \in 1 .. c /\ p = r + (p - r)
        BY <1>7, <2>2
      <4> QED
        BY <4>1
    <3>2. e <= n
      BY <3>1
    <3>3. e \in 1 .. n /\ j + e \in 1 .. j + n
      BY <3>2
    <3> QED
      BY <1>3, <3>1, <3>3
  <2> QED
    BY <2>1, <2>2
<1> QED
  BY <1>1, <1>5, <1>6, <1>7 DEF FirstOf

\* The elements of W up to r are the first ones of W.
LEMMA FirstAre ==
  ASSUME NEW W \in SUBSET Nat, NEW r \in Nat, NEW s, FirstOf(s, W, r)
  PROVE  /\ \A i, j \in DOMAIN s : i < j => s[i] < s[j]
         /\ ToSet(s) \subseteq W
         /\ \A q \in ToSet(s), p \in W : p < q => p \in ToSet(s)
<1>1. s \in Seq(Nat) /\ DOMAIN s = 1 .. Len(s)
  <2>1. s \in Seq(Nat)
    BY DEF FirstOf
  <2> QED
    BY <2>1, LenProperties
<1>2. \A q : q \in ToSet(s) <=> \E i \in 1 .. Len(s) : s[i] = q
  BY <1>1 DEF ToSet
<1>3. \A i, j \in DOMAIN s : i < j => s[i] < s[j]
  BY <1>1 DEF FirstOf
<1>4. \A q \in ToSet(s) : q \in W /\ q <= r
  BY <1>2 DEF FirstOf
<1>5. ASSUME NEW q \in ToSet(s), NEW p \in W, p < q PROVE p \in ToSet(s)
  <2>1. q \in Nat /\ p \in Nat /\ q <= r
    BY <1>4
  <2>2. p <= r
    BY <1>5, <2>1
  <2>3. \E i \in 1 .. Len(s) : s[i] = p
    BY <2>2 DEF FirstOf
  <2> QED
    BY <1>2, <2>3
<1> QED
  BY <1>3, <1>4, <1>5

LEMMA MultipleDiv ==
  ASSUME NEW w \in Int, NEW s \in Nat \ {0}, NEW b \in Int, w = s * b
  PROVE  w \div s = b /\ w % s = 0
<1>1. PICK z \in Int : z = 0
  OBVIOUS
<1>2. w = s * b + z /\ z \in 0 .. s - 1
  BY <1>1
<1>3. w \div s = b /\ w % s = z
  BY <1>2, DivModIs, Zenon
<1> QED
  BY <1>1, <1>3

\* What is loaded, when the n bytes of the block behind r that count are behind it.
LEMMA LoadedNext ==
  ASSUME TypeInv, NEW n \in Nat, NEW r \in Nat, n <= BLOCK, FirstOf(Loaded, Wanted, r),
         mem' = mem, buf' = buf \o [i \in 1 .. n |-> r + i], announces' = announces,
         \A i \in 1 .. BLOCK : (r + i \in Wanted) <=> i <= n
  PROVE  /\ FirstOf(Loaded', Wanted', r + BLOCK) /\ InSequence'
         /\ buf' \in Seq(Nat) /\ Len(buf') = Len(buf) + n
<1>1. mem \in Seq(Nat) /\ buf \in Seq(Nat) /\ BLOCK \in Nat
  BY Constants DEF TypeInv, TypeOK
<1>2. PICK k \in Nat : Len(buf) = k
  BY <1>1, LenProperties
<1>3. PICK W \in SUBSET Nat : W = Wanted /\ W = Wanted'
  <2>1. Wanted \in SUBSET Nat
    <3>1. PICK z \in Int : z = Blocks * BLOCK
      BY <1>1, BlocksFacts
    <3>2. 1 .. z \subseteq Nat
      OBVIOUS
    <3> QED
      BY <3>1, <3>2 DEF Wanted
  <2>2. Wanted' = Wanted
    BY DEF Wanted
  <2> QED
    BY <2>1, <2>2, Zenon
<1>4. PICK d : d = [i \in 1 .. n |-> r + i]
  BY Zenon
<1>5. Counting(d, r, n)
  BY <1>4, CountingFrom
<1>6. d \in Seq(Nat) /\ Len(d) = n
  BY <1>5 DEF Counting
<1>7. PICK s : s = Loaded /\ FirstOf(s, W, r)
  BY <1>3, Zenon
<1>8. s \in Seq(Nat)
  BY <1>7 DEF FirstOf
<1>9. PICK j \in Nat : Len(s) = j
  BY <1>8, LenProperties
<1>10. PICK z : z = s \o d
  BY Zenon
<1>11. JoinOf(z, s, d, j, n)
  BY <1>6, <1>8, <1>9, <1>10, Joins, Zenon
<1>12. \A i \in 1 .. BLOCK : (r + i \in W) <=> i <= n
  BY <1>3, Zenon
<1>13. FirstOf(z, W, r + BLOCK)
  BY <1>1, <1>5, <1>7, <1>9, <1>11, <1>12, GoesOn, Zenon
<1>14. Loaded' = z
  <2>1. buf' = buf \o d
    BY <1>4, Zenon
  <2>2. (mem \o buf) \o d = mem \o (buf \o d)
    BY <1>1, <1>6, Associates, Zenon
  <2> QED
    BY <1>7, <1>10, <2>1, <2>2, Zenon DEF Loaded
<1>15. InSequence'
  <2>1. PICK e \in Nat : e = r + BLOCK
    BY <1>1
  <2>2. FirstOf(z, W, e)
    BY <1>13, <2>1, Zenon
  <2>3. /\ \A i, k1 \in DOMAIN z : i < k1 => z[i] < z[k1]
        /\ ToSet(z) \subseteq W
        /\ \A q \in ToSet(z), p \in W : p < q => p \in ToSet(z)
    BY <2>2, FirstAre, Zenon
  <2> QED
    BY <1>3, <1>14, <2>3, Zenon DEF InSequence
<1>16. buf' \in Seq(Nat) /\ Len(buf') = Len(buf) + n
  <2>1. buf' = buf \o d
    BY <1>4, Zenon
  <2>2. JoinOf(buf \o d, buf, d, k, n)
    BY <1>1, <1>2, <1>6, Joins, Zenon
  <2>3. buf \o d \in Seq(Nat) /\ Len(buf \o d) = k + n
    BY <2>2 DEF JoinOf
  <2> QED
    BY <1>2, <2>1, <2>3
<1>17. FirstOf(Loaded', Wanted', r + BLOCK)
  BY <1>3, <1>13, <1>14, Zenon
<1> QED
  BY <1>15, <1>16, <1>17, Zenon

LEMMA ReadNextStep ==
  ASSUME Inv, NumbersTell, FinApart, NEW x, Calls(x), NEW m, Came(m, x), m.op = "blk",
         pc = "read", UNCHANGED <<crc_mode, crc_retries, file_length>>, ReadNext(m)
  PROVE  Inv'
<1> USE DEF Inv
<1>1. ~at_eof /\ len = 0
  BY DEF LineInv
<1>2. Live
  BY <1>1 DEF Live
<1>3. Drawn(toBoard', toBoard, m) /\ m \in Tokens /\ started /\ x = cross
  BY DEF Came
<1>4. /\ UNCHANGED sender /\ noise' = noise /\ cross' = x /\ x \in Nat /\ ~tx_ack
      /\ toBoard' \in Seq(Items) /\ toBoard \in Seq(Items) /\ toSender \in Seq(Signals)
      /\ Shrunk(toBoard', toBoard) /\ mem' = mem
  BY CalledFacts
<1>5. /\ next_blk' = After(next_blk) /\ read_length' = read_length + BLOCK
      /\ Copied(m, Cut(m, read_length')) /\ PUTC(<<>>) /\ at_eof' = at_eof /\ len' = len
  BY DEF ReadNext
<1>6. tx_ack' /\ tx_ack' \in BOOLEAN
  BY DEF ReadNext
<1>7. m.k = B + 1 /\ m.k <= Blocks /\ val(m) = m.k
  <2>1. blk(m) = next_blk
    BY DEF ReadNext
  <2> QED
    BY <1>2, <1>3, <2>1, BlockIs
<1>8. B \in Nat /\ read_length \in Nat /\ Blocks \in Nat /\ FinStep = Blocks + 2
  BY Counts, Types, BlocksFacts
<1>9. PICK b \in 1 .. Blocks : b = B + 1 /\ m.k = b /\ val(m) = b /\ B < Blocks /\ b \in Int
  BY <1>7, <1>8
<1>10. BLOCK \in Nat \ {0} /\ BUFFER \in Nat /\ MAX_RETRIES \in Nat \ {0} /\ SeqSize \in Nat \ {0}
  BY Constants
<1>11. /\ read_length = B * BLOCK /\ file_length = (IF announces THEN FileLen ELSE 0)
       /\ FirstOf(Loaded, Wanted, read_length) /\ Len(buf) < BUFFER
       /\ next_blk = (B + 1) % SeqSize
  BY <1>2, <1>9 DEF DataInv
<1>12. PICK w \in Nat : read_length' = w /\ w = read_length + BLOCK /\ w = BLOCK * b
  <2>1. BLOCK * b = B * BLOCK + BLOCK
    BY <1>8, <1>9, <1>10
  <2> QED
    BY <1>5, <1>8, <1>10, <1>11, <2>1
<1>13. PICK n \in 0 .. BLOCK :
           /\ Cut(m, w) = n
           /\ \A i \in 1 .. BLOCK : (read_length + i \in Wanted) <=> i <= n
  BY <1>8, <1>9, <1>11, <1>12, CutIs
<1>14. n \in Nat /\ n <= BLOCK
  BY <1>10
<1>15. /\ buf' = buf \o Data(m, n) /\ retries' = MAX_RETRIES
       /\ pc' = IF n < 0 THEN "overrun" ELSE IF Len(buf') >= BUFFER THEN "store" ELSE "read"
  BY <1>5, <1>12, <1>13 DEF Copied
<1>16. ~(n < 0)
  BY <1>14
<1>17. /\ pc' \in {"store", "read"}
       /\ pc' = "read" => ~(Len(buf') >= BUFFER)
  BY <1>15, <1>16
<1>18. Data(m, n) = [i \in 1 .. n |-> read_length + i]
  <2>1. (m.k - 1) * BLOCK = read_length
    <3>1. m.k - 1 = B
      BY <1>8, <1>9
    <3> QED
      BY <1>11, <3>1
  <2> QED
    BY <2>1 DEF Data
<1>19. announces' = announces /\ at' = at
  BY <1>4 DEF sender
<1>20. /\ FirstOf(Loaded', Wanted', read_length + BLOCK) /\ InSequence'
       /\ buf' \in Seq(Nat) /\ Len(buf') = Len(buf) + n
  <2>1. buf' = buf \o [i \in 1 .. n |-> read_length + i]
    BY <1>15, <1>18
  <2> QED
    BY <1>4, <1>8, <1>11, <1>13, <1>14, <1>19, <2>1, LoadedNext
<1>21. PICK k, l \in Nat : Len(buf) = k /\ Len(buf') = l /\ l = k + n
  <2>1. Len(buf) \in Nat
    BY LenProperties DEF TypeInv
  <2> QED
    BY <1>14, <1>20, <2>1
<1>22. l \in 0 .. BUFFER + BLOCK - 1
  <2>1. k < BUFFER
    BY <1>11, <1>21
  <2> QED
    BY <1>10, <1>14, <1>21, <2>1
<1>23. w \div BLOCK = b /\ w % BLOCK = 0
  <2>1. w \in Int /\ w = BLOCK * b
    BY <1>12
  <2> QED
    BY <1>9, <1>10, <2>1, MultipleDiv, Zenon
<1>24. B' = b
  BY <1>12, <1>23 DEF B
<1>25. PICK v \in 0 .. SeqSize - 1 : next_blk' = v /\ v = (b + 1) % SeqSize
  <2>1. ((b % SeqSize) + 1) % SeqSize = (b + 1) % SeqSize
    BY <1>9, <1>10, ModSteps, Zenon
  <2>2. PICK g \in Int : g = b + 1
    BY <1>9
  <2>3. g % SeqSize \in 0 .. SeqSize - 1
    BY <1>10, <2>2, ModSteps, Zenon
  <2>4. next_blk' = ((b % SeqSize) + 1) % SeqSize
    BY <1>5, <1>9, <1>11 DEF After
  <2> QED
    BY <2>1, <2>2, <2>3, <2>4
<1>26. TypeInv'
  <2>1. /\ in_hdr' = FALSE /\ hdr_chars' = hdr_chars /\ x <= MaxCross
    BY CalledFacts
  <2>2. /\ hold' = hold /\ started' = started /\ scrc' = scrc /\ cancelled' = cancelled
    BY <1>4 DEF sender
  <2>3. /\ in_hdr' \in BOOLEAN /\ hdr_chars' \in BOOLEAN /\ hold' \in BOOLEAN /\ started' \in BOOLEAN
        /\ scrc' \in BOOLEAN /\ cancelled' \in BOOLEAN /\ announces' \in BOOLEAN
        /\ crc_mode' \in BOOLEAN /\ at_eof' \in BOOLEAN
    BY <1>5, <1>19, <2>1, <2>2, Types
  <2>4. /\ file_length' \in {0, FileLen} /\ len' \in {0, -1} /\ mem' \in Seq(Nat)
        /\ crc_retries' \in Int /\ at' \in 0 .. FinStep + 1 /\ noise' \in 0 .. MaxNoise
    BY <1>4, <1>5, <1>19 DEF TypeInv, TypeOK
  <2>5. Len(buf') \in 0 .. BUFFER + BLOCK - 1
    BY <1>21, <1>22
  <2>6. read_length' \in Nat /\ read_length' % BLOCK = 0
    BY <1>12, <1>23
  <2>7. cross' \in 0 .. MaxCross
    BY <1>4, <2>1, Constants
  <2>8. retries' \in 0 .. MAX_RETRIES
    BY <1>10, <1>15
  <2>9. pc' \in {"open", "read", "final", "store", "done", "overrun"} /\ next_blk' \in 0 .. SeqSize - 1
    BY <1>17, <1>25
  <2> QED
    BY <1>6, <1>20, <2>3, <2>4, <2>5, <2>6, <2>7, <2>8, <2>9 DEF TypeInv, TypeOK
<1>27. Less(toSender', toSender) /\ (~Runs => toSender' = <<>>)
  BY <1>4, <1>5, PutNone
<1>28. toSender' \in Seq(Signals)
  BY <1>27 DEF Less
<1>29. LineInv'
  <2>1. pc' \in {"open", "read", "final"} => ~at_eof' /\ len' = 0
    BY <1>1, <1>5
  <2> QED
    BY <1>3, <1>27, <1>28, <2>1, CalledLine
<1>30. PICK t, a \in Nat : T' = t /\ t <= 1 + x /\ Acks' = a /\ a <= Acks + 1
  BY <1>2, <1>6, <1>27, TakenTalk
<1>31. CountInv'
  <2>1. b \in 0 .. Blocks /\ b \in {B, B + 1} /\ pc' # "open"
    BY <1>8, <1>9, <1>17
  <2>2. cross' = cross /\ t <= 1 + cross
    BY <1>3, <1>4, <1>30
  <2> QED
    BY <1>2, <1>3, <1>4, <1>9, <1>24, <1>30, <2>1, <2>2, TakenCount
<1>32. RetryInv'
  <2>1. noise \in Nat
    BY Types
  <2> QED
    BY <1>4, <1>6, <1>15, <1>26, <1>29, <1>30, <2>1, TakenRetry
<1>33. CrcInv'
  <2>1. "ACK" \in Signals /\ Says(toSender', toSender, "ACK")
    BY <1>4, <1>27, LessSays DEF Signals
  <2> QED
    BY <1>2, <1>4, <2>1, BoardCrc
<1>34. DataInv'
  <2>1. next_blk' = (b + 1) % SeqSize
    BY <1>25
  <2>2. w = b * BLOCK
    BY <1>9, <1>10, <1>12
  <2>3. FirstOf(Loaded', Wanted', read_length')
    BY <1>12, <1>20
  <2>4. pc' = "read" => Len(buf') < BUFFER
    BY <1>10, <1>17, <1>21
  <2>5. MAX_RETRIES > 0
    BY <1>10
  <2> QED
    BY <1>4, <1>11, <1>12, <1>15, <1>17, <1>19, <1>21, <1>24, <2>1, <2>2, <2>3, <2>4, <2>5 DEF DataInv
<1> QED
  BY <1>20, <1>26, <1>29, <1>31, <1>32, <1>33, <1>34

LEMMA PleaseIs ==
  ASSUME crc_mode' \in BOOLEAN
  PROVE  Please \in Seq(Signals)
<1>1. "C" \in Signals /\ "NAK" \in Signals
  BY DEF Signals
<1>2. <<"C">> \in Seq(Signals) /\ <<"NAK">> \in Seq(Signals)
  BY <1>1
<1> QED
  BY <1>2 DEF Please

LEMMA ReadEOTStep ==
  ASSUME Inv, NEW x, Calls(x), pc = "read", UNCHANGED <<crc_mode, crc_retries, file_length>>,
         ReadEOT
  PROVE  Inv'
<1> USE DEF Inv
<1>1. ~at_eof /\ len = 0
  BY DEF LineInv
<1>2. Live
  BY <1>1 DEF Live
<1>3. started
  BY <1>2 DEF CountInv
<1>4. /\ PUTC(<<"ACK", "ACK">> \o Please) /\ pc' = "final"
      /\ UNCHANGED <<retries, tx_ack, next_blk, read_length, at_eof, len, buf>>
  BY DEF ReadEOT
<1>5. TypeInv' /\ InSequence'
  <2>1. /\ tx_ack' \in BOOLEAN /\ at_eof' \in BOOLEAN /\ next_blk' \in 0 .. SeqSize - 1
        /\ file_length' \in {0, FileLen} /\ crc_retries' \in Int /\ crc_mode' \in BOOLEAN
        /\ len' \in {0, -1} /\ retries' \in 0 .. MAX_RETRIES
    BY <1>4, Types DEF TypeInv, TypeOK
  <2>2. pc' \in {"open", "read", "final", "store", "done"} /\ read_length' = read_length /\ buf' = buf
    BY <1>4
  <2> QED
    BY <2>1, <2>2, CalledData
<1>6. toSender' \in Seq(Signals) /\ (~Runs => toSender' = <<>>)
  <2>1. crc_mode' \in BOOLEAN
    BY Types
  <2>2. PICK s \in Seq(Signals) : s = Please
    BY <2>1, PleaseIs
  <2>3. <<"ACK", "ACK">> \in Seq(Signals)
    <3>1. "ACK" \in Signals
      BY DEF Signals
    <3> QED
      BY <3>1
  <2>4. <<"ACK", "ACK">> \o s \in Seq(Signals)
    BY <2>3, ConcatProperties
  <2>5. toSender \in Seq(Signals)
    BY DEF LineInv
  <2>6. <<"ACK", "ACK">> \o Please \in Seq(Signals)
    BY <2>2, <2>4, Zenon
  <2> QED
    BY <1>4, <2>5, <2>6, PutAny
<1>7. LineInv'
  <2>1. pc' \in {"open", "read", "final"} => ~at_eof' /\ len' = 0
    BY <1>1, <1>4
  <2> QED
    BY <1>3, <1>6, <2>1, CalledLine
<1>8. ~Live'
  BY <1>4 DEF Live
<1> QED
  BY <1>5, <1>7, <1>8, CalledDead

LEMMA FinalStep ==
  ASSUME Inv, NEW x, Calls(x), NEW m, NEW r, Final(r, m)
  PROVE  Inv'
<1> USE DEF Inv
<1>1. pc = "final" /\ pc' \in {"done", "store"} /\ len' \in {len, -1}
  BY DEF Final
<1>2. UNCHANGED <<retries, crc_retries, crc_mode, tx_ack, next_blk, file_length, read_length, buf>>
  BY DEF Final
<1>3. at_eof'
  BY DEF Final
<1>4. started
  BY <1>1, Types DEF LineInv
<1>5. TypeInv' /\ InSequence'
  <2>1. /\ tx_ack' \in BOOLEAN /\ next_blk' \in 0 .. SeqSize - 1
        /\ file_length' \in {0, FileLen} /\ crc_retries' \in Int /\ crc_mode' \in BOOLEAN
        /\ len' \in {0, -1} /\ retries' \in 0 .. MAX_RETRIES
    BY <1>1, <1>2, Types DEF TypeInv, TypeOK
  <2>2. pc' \in {"open", "read", "final", "store", "done"} /\ read_length' = read_length /\ buf' = buf
    BY <1>1, <1>2
  <2>3. at_eof' \in BOOLEAN
    BY DEF Final
  <2> QED
    BY <2>1, <2>2, <2>3, CalledData
<1>6. toSender' \in Seq(Signals) /\ (~Runs => toSender' = <<>>)
  <2>1. "ACK" \in Signals
    BY DEF Signals
  <2>2. <<"ACK", "ACK">> \in Seq(Signals) /\ <<"ACK">> \in Seq(Signals)
    BY <2>1
  <2>3. toSender \in Seq(Signals)
    BY DEF LineInv
  <2>4. PUTC(<<"ACK", "ACK">>) \/ PUTC(<<"ACK">>)
    BY DEF Final
  <2> QED
    BY <2>2, <2>3, <2>4, PutAny
<1>7. LineInv'
  <2>1. pc' \in {"open", "read", "final"} => ~at_eof' /\ len' = 0
    BY <1>1
  <2> QED
    BY <1>4, <1>6, <2>1, CalledLine
<1>8. ~Live'
  BY <1>3 DEF Live
<1> QED
  BY <1>5, <1>7, <1>8, CalledDead

\* A block that comes after the transfer is open is in the mode of the board.
LEMMA SameMode ==
  ASSUME TypeInv, LineInv, CrcInv, Live, pc # "open", NEW m, Drawn(toBoard', toBoard, m), m.op = "blk"
  PROVE  m.crc \in BOOLEAN /\ (m.crc <=> crc_mode) /\ m.ok \in BOOLEAN /\ (~m.ok => m \in Spoilt)
         /\ m \in Tokens
<1>1. m \in Items /\ toBoard \in Seq(Items) /\ toBoard' \in Seq(Items)
  BY DEF LineInv, Drawn
<1>2. m.crc \in BOOLEAN /\ m.ok \in BOOLEAN
  BY <1>1, ItemCases
<1>3. /\ m \in Spoilt <=> ~m.ok
      /\ m \in WithCrc <=> m.crc
      /\ m \in WithSum <=> ~m.crc
      /\ m \in Tokens
  BY <1>1, Sets
<1>4. ASSUME NEW V \in SUBSET Tokens, N(toBoard, V) = 0 PROVE m \notin V
  <2>1. N(toBoard', V) = N(toBoard, V) - In(m, V) /\ N(toBoard', V) \in Nat
    BY <1>1, HitsFinite DEF Drawn
  <2> QED
    BY <1>4, <2>1 DEF In
<1>5. WithCrc \in SUBSET Tokens /\ WithSum \in SUBSET Tokens
  BY DEF WithCrc, WithSum
<1>6. ASSUME crc_mode PROVE m \notin WithSum
  <2>1. N(toBoard, WithSum) = 0
    BY <1>6 DEF CrcInv
  <2> QED
    BY <1>4, <1>5, <2>1
<1>7. ASSUME ~crc_mode PROVE m \notin WithCrc
  <2>1. N(toBoard, WithCrc) = 0
    BY <1>7 DEF CrcInv
  <2> QED
    BY <1>4, <1>5, <2>1
<1> QED
  BY <1>2, <1>3, <1>6, <1>7

LEMMA HdrReturnsStep ==
  ASSUME Inv, FewFaults, NumbersTell, FinApart, HdrReturns
  PROVE  Inv'
<1>0. TypeInv /\ LineInv /\ CrcInv /\ CountInv
  BY DEF Inv
<1>1. PICK m : m = Head(toBoard)
  BY Zenon
<1>2. toBoard \in Seq(Items) /\ toBoard # <<>> /\ in_hdr
  BY <1>0 DEF LineInv, HdrReturns
<1>3. ~Skipped(m) /\ Caller(stat(m), m) /\ toBoard' = Rest(m) \o Tail(toBoard)
      /\ UNCHANGED <<sender, noise, cross>>
  BY <1>1 DEF HdrReturns
<1>4. toBoard' = Tail(toBoard) \/ toBoard' = <<Stray>> \o Tail(toBoard)
  <2>1. Tail(toBoard) \in Seq(Items)
    BY <1>2, HeadTailProperties
  <2>2. <<>> \o Tail(toBoard) = Tail(toBoard)
    BY <2>1, ConcatEmptySeq
  <2>3. Rest(m) \in {<<>>, <<Stray>>}
    BY DEF Rest
  <2> QED
    BY <1>3, <2>2, <2>3
<1>5. Drawn(toBoard', toBoard, m)
  BY <1>1, <1>2, <1>4, TakenDrawn
<1>6. Shrunk(toBoard', toBoard) /\ N(toBoard', Spoilt) <= N(toBoard, Spoilt)
  BY <1>2, <1>4, ShrunkTaken
<1>7. started
  BY <1>0, <1>2, Types DEF LineInv
<1>8. PICK x \in Nat : x = cross /\ x <= MaxCross /\ x >= cross
  BY <1>0, Types
<1>9. Calls(x)
  BY <1>2, <1>3, <1>6, <1>7, <1>8 DEF Calls, Caller
<1>10. m \in Items
  BY <1>5 DEF Drawn
<1>11. m.op \in {"EOT", "CAN", "blk"}
  <2>1. m.op # "stray"
    BY <1>3 DEF Skipped
  <2> QED
    BY <1>10, <2>1, ItemCases
<1>12. m.op \in {"EOT", "blk"} => Came(m, x)
  <2>1. m.op \in {"EOT", "blk"} => m \in Tokens
    BY <1>10, Sets
  <2> QED
    BY <1>5, <1>7, <1>8, <2>1 DEF Came
<1>13. CASE Open(stat(m), m)
  <2>1. pc = "open" /\ UNCHANGED <<read_length, at_eof, len, buf>>
    BY <1>13 DEF Open
  <2>2. CASE OpenGoesOn(stat(m))
    <3>1. m.op = "CAN" => stat(m) = "cancel"
      BY DEF stat
    <3>2. m.op # "EOT"
      <4> SUFFICES ASSUME m.op = "EOT" PROVE FALSE
        OBVIOUS
      <4>1. Live /\ Came(m, x)
        BY <1>0, <1>12, <2>1 DEF Live, LineInv
      <4>2. Drawn(toBoard', toBoard, m) /\ m \in Tokens
        BY <4>1 DEF Came
      <4>3. val(m) = 0
        BY <1>0, <2>1, <4>1, <4>2, HeadPlace
      <4> QED
        BY <4>3, BlocksFacts DEF val
    <3>3. stat(m) # "eof"
      BY <1>11, <3>2 DEF stat
    <3> QED
      BY <1>9, <1>11, <1>12, <2>1, <2>2, <3>1, <3>3, OpenGoesOnStep
  <2>3. CASE Opened(stat(m), m)
    <3>1. stat(m) = "ok"
      BY <2>3 DEF Opened
    <3>2. m.op = "blk"
      BY <1>11, <3>1 DEF stat
    <3>3. m.crc = crc_mode
      BY <3>1, <3>2 DEF stat
    <3>4. Opened("ok", m)
      BY <2>3, <3>1
    <3> QED
      BY <1>9, <1>12, <2>1, <3>2, <3>3, <3>4, OpenedStep
  <2> QED
    BY <1>13, <2>2, <2>3 DEF Open
<1>14. CASE Read(stat(m), m)
  <2>1. pc = "read" /\ UNCHANGED <<crc_mode, crc_retries, file_length>>
    BY <1>14 DEF Read
  <2>2. Live /\ pc # "open"
    BY <1>0, <2>1 DEF Live, LineInv
  <2>3. CASE m.op = "EOT"
    <3>1. stat(m) = "eof"
      BY <2>3 DEF stat
    <3>2. ReadEOT
      BY <1>14, <3>1 DEF Read
    <3> QED
      BY <1>9, <2>1, <3>2, ReadEOTStep
  <2>4. CASE m.op = "CAN"
    <3>1. stat(m) = "cancel"
      BY <2>4 DEF stat
    <3>2. ReadRetries("cancel")
      BY <1>14, <3>1 DEF Read
    <3> QED
      BY <1>9, <2>1, <3>2, ReadRetriesStep
  <2>5. CASE m.op = "blk"
    <3>1. m.crc \in BOOLEAN /\ (m.crc <=> crc_mode) /\ m.ok \in BOOLEAN /\ (~m.ok => m \in Spoilt)
      BY <1>0, <1>5, <2>2, <2>5, SameMode
    <3>2. crc_mode \in BOOLEAN
      BY <1>0, Types
    <3>3. stat(m) = IF m.ok THEN "ok" ELSE "cksum"
      BY <2>5, <3>1, <3>2 DEF stat
    <3>4. CASE ~m.ok
      <4>1. ReadRetries("cksum")
        BY <1>14, <3>3, <3>4 DEF Read
      <4>2. Came(m, x) /\ m \in Spoilt
        BY <1>12, <2>5, <3>1, <3>4
      <4> QED
        BY <1>9, <2>1, <4>1, <4>2, ReadRetriesStep
    <3>5. CASE m.ok
      <4>1. stat(m) = "ok"
        BY <3>3, <3>5
      <4>2. CASE ReadNext(m)
        BY <1>9, <1>12, <2>1, <2>5, <4>2, ReadNextStep
      <4>3. CASE ReadAgain(m)
        BY <1>9, <1>12, <2>1, <2>5, <4>3, ReadAgainStep
      <4>4. CASE /\ blk(m) \notin {next_blk, (next_blk - 1) % SeqSize}
                 /\ ReadRetries("sequence")
        <5>1. val(m) > B
          <6>1. DataInv
            BY DEF Inv
          <6>2. m.k > B /\ val(m) = m.k
            BY <1>0, <1>5, <2>2, <2>5, <4>4, <6>1, BlockIs
          <6> QED
            BY <6>2
        <5> QED
          BY <1>9, <1>12, <2>1, <2>5, <4>4, <5>1, ReadRetriesStep
      <4>5. \/ ReadNext(m) \/ ReadAgain(m)
            \/ /\ blk(m) \notin {next_blk, (next_blk - 1) % SeqSize}
               /\ ReadRetries("sequence")
        BY <1>14, <4>1 DEF Read
      <4> QED
        BY <4>2, <4>3, <4>4, <4>5
    <3> QED
      BY <3>1, <3>4, <3>5
  <2> QED
    BY <1>11, <2>3, <2>4, <2>5
<1>15. CASE Final(stat(m), m)
  BY <1>9, <1>15, FinalStep
<1> QED
  BY <1>3, <1>13, <1>14, <1>15 DEF Caller

LEMMA HdrTimesOutStep ==
  ASSUME Inv, HdrTimesOut
  PROVE  Inv'
<1>0. TypeInv /\ LineInv /\ CountInv
  BY DEF Inv
<1>1. /\ in_hdr /\ toBoard = <<>> /\ toBoard' = <<>> /\ toBoard' = toBoard
      /\ Caller("timeout", Stray) /\ UNCHANGED sender /\ noise' = noise
  BY DEF HdrTimesOut
<1>2. PICK x \in Nat : /\ cross' = x /\ x <= MaxCross /\ x >= cross
                       /\ ((toSender = <<>> \/ ~Runs) /\ x = cross) \/ x = cross + 1
  <2>1. cross \in Nat /\ cross <= MaxCross /\ MaxCross \in Nat
    BY <1>0, Types, Constants
  <2>2. CASE toSender = <<>> \/ ~Runs
    <3>1. cross' = cross
      BY <2>2 DEF HdrTimesOut
    <3> QED
      BY <2>1, <2>2, <3>1
  <2>3. CASE ~(toSender = <<>> \/ ~Runs)
    <3>1. cross < MaxCross /\ cross' = cross + 1
      BY <2>3 DEF HdrTimesOut
    <3>2. cross + 1 \in Nat /\ cross + 1 <= MaxCross /\ cross + 1 >= cross
      BY <2>1, <3>1
    <3> QED
      BY <3>1, <3>2
  <2> QED
    BY <2>2, <2>3
<1>3. toBoard \in Seq(Items)
  BY <1>0 DEF LineInv
<1>4. Shrunk(toBoard', toBoard) /\ N(toBoard', Spoilt) <= N(toBoard, Spoilt)
  <2>1. Shrunk(toBoard, toBoard)
    BY <1>3, ShrunkSame
  <2>2. N(toBoard, Spoilt) \in Nat
    BY <1>3, HitsFinite
  <2>3. N(toBoard, Spoilt) <= N(toBoard, Spoilt)
    BY <2>2
  <2> QED
    BY <1>1, <2>1, <2>3
<1>5. Calls(x)
  BY <1>1, <1>2, <1>4 DEF Calls, Caller
<1>6. Idle(x)
  BY <1>1, <1>2 DEF Idle
<1>7. CASE Open("timeout", Stray)
  <2>1. OpenGoesOn("timeout") /\ pc = "open" /\ UNCHANGED <<read_length, at_eof, len, buf>>
    BY <1>7 DEF Open, Opened
  <2> QED
    BY <1>5, <1>6, <2>1, OpenGoesOnStep
<1>8. CASE Read("timeout", Stray)
  <2>1. ReadRetries("timeout") /\ pc = "read" /\ UNCHANGED <<crc_mode, crc_retries, file_length>>
    BY <1>8 DEF Read
  <2> QED
    BY <1>5, <1>6, <2>1, ReadRetriesStep
<1>9. CASE Final("timeout", Stray)
  BY <1>5, <1>9, FinalStep
<1> QED
  BY <1>1, <1>7, <1>8, <1>9 DEF Caller

-----------------------------------------------------------------------------
(* The theorems. *)

LEMMA InitInv ==
  ASSUME Init
  PROVE  Inv
<1>1. /\ pc = "open" /\ in_hdr = FALSE /\ hdr_chars = FALSE
      /\ retries = MAX_RETRIES /\ crc_retries = MAX_RETRIES_WITH_CRC
      /\ crc_mode = TRUE /\ tx_ack = FALSE /\ next_blk = 0
      /\ file_length = 0 /\ read_length = 0 /\ at_eof = FALSE
      /\ len = 0 /\ buf = <<>> /\ mem = <<>>
      /\ at = 0 /\ hold = TRUE /\ started \in BOOLEAN /\ announces \in Announced /\ scrc = TRUE
      /\ toBoard = <<>> /\ noise = 0 /\ cross = 0 /\ cancelled = FALSE
      /\ toSender = IF started THEN <<"C">> ELSE <<>>
  BY DEF Init
<1>2. /\ BLOCK \in Nat \ {0} /\ BUFFER \in Nat /\ BUFFER > 0 /\ MAX_RETRIES \in Nat \ {0}
      /\ SeqSize \in Nat \ {0} /\ FileLen \in Nat \ {0} /\ PadMin \in Nat \ {0}
      /\ MaxNoise \in Nat /\ MaxCross \in Nat /\ Blocks \in Nat \ {0} /\ FinStep = Blocks + 2
      /\ MAX_RETRIES_WITH_CRC \in Int
  BY Constants, BlocksFacts
<1>3. announces \in BOOLEAN
  BY <1>1, LoadyAssumption
<1>4. 0 % BLOCK = 0 /\ 0 \div BLOCK = 0
  <2>1. PICK z \in Int : z = 0
    OBVIOUS
  <2>2. z = BLOCK * z
    BY <1>2, <2>1
  <2>3. z \div BLOCK = z /\ z % BLOCK = 0
    BY <1>2, <2>2, MultipleDiv, Zenon
  <2> QED
    BY <2>1, <2>3
<1>5. <<>> \in Seq(Nat) /\ Len(<<>>) = 0 /\ <<>> \in Seq(Items)
  OBVIOUS
<1>6. B = 0
  BY <1>1, <1>4 DEF B
<1>7. \A V : N(toBoard, V) = 0
  <2>1. toBoard \in Seq(Items) /\ Len(toBoard) = 0
    BY <1>1, <1>5
  <2> SUFFICES ASSUME NEW V PROVE N(toBoard, V) = 0
    OBVIOUS
  <2>2. N(toBoard, V) \in Nat /\ N(toBoard, V) <= Len(toBoard)
    BY <2>1, HitsFinite
  <2> QED
    BY <2>1, <2>2
<1>8. \A V, W : NoneAfter(toBoard, V, W)
  BY <1>1 DEF NoneAfter
<1>9. /\ toSender \in Seq(Signals) /\ Len(toSender) \in {0, 1} /\ Ackd(toSender) = 0
      /\ Naks(toSender) = 0 /\ NakLast(toSender)
  <2>1. CASE started
    <3>1. "C" \in Signals /\ Is("C", "ACK") = 0 /\ Is("C", "NAK") = 0
      BY DEF Signals, Is
    <3>2. PICK s, t : s = <<>> /\ t = Append(s, "C")
      BY Zenon
    <3>3. /\ s \in Seq(Signals) /\ Len(s) = 0 /\ Ackd(s) = 0 /\ Naks(s) = 0 /\ NakLast(s)
      BY <3>2, Quiet
    <3>4. /\ t \in Seq(Signals) /\ Len(t) = Len(s) + 1 /\ Ackd(t) = Ackd(s) + Is("C", "ACK")
          /\ Naks(t) = Naks(s) + Is("C", "NAK") /\ NakLast(t)
      BY <3>1, <3>2, <3>3, Spoken
    <3>5. toSender = t
      BY <1>1, <2>1, <3>2
    <3> QED
      BY <3>1, <3>3, <3>4, <3>5
  <2>2. CASE ~started
    BY <1>1, <2>2, Quiet
  <2> QED
    BY <2>1, <2>2
<1>10. TypeInv
  <2>1. 0 \in 0 .. SeqSize - 1 /\ 0 \in 0 .. BUFFER + BLOCK - 1 /\ 0 \in 0 .. FinStep + 1 /\ 0 \in 0 .. MaxNoise
        /\ 0 \in 0 .. MaxCross /\ MAX_RETRIES \in 0 .. MAX_RETRIES
    BY <1>2
  <2> QED
    BY <1>1, <1>2, <1>3, <1>4, <1>5, <2>1 DEF TypeInv, TypeOK
<1>11. InSequence
  <2>1. Loaded = <<>>
    <3>1. <<>> \o <<>> = <<>>
      BY <1>5, ConcatEmptySeq
    <3> QED
      BY <1>1, <3>1 DEF Loaded
  <2>2. ToSet(<<>>) = {} /\ DOMAIN <<>> = {}
    BY DEF ToSet
  <2> QED
    BY <2>1, <2>2 DEF InSequence
<1>12. LineInv
  <2>1. ~started => toSender = <<>>
    BY <1>1
  <2>2. toBoard \in Seq(Items) /\ N(toBoard, Spoilt) <= noise
    BY <1>1, <1>5, <1>7
  <2> QED
    BY <1>1, <1>7, <1>8, <1>9, <2>1, <2>2 DEF LineInv
<1>13. CrcInv
  BY <1>1, <1>7, <1>8, <1>9 DEF CrcInv
<1>14. CountInv
  <2>1. Bit(tx_ack) = 0
    BY <1>1 DEF Bit
  <2>2. Acks = 0 /\ T <= 1 + cross
    BY <1>1, <1>7, <1>9, <2>1 DEF Acks, T
  <2>3. B \in 0 .. Blocks /\ at >= B /\ at + Acks <= B + 1 + cross
    BY <1>1, <1>2, <1>6, <2>2
  <2>4. \A v : ~(N(toBoard, UpTo(v)) >= 1)
    BY <1>7
  <2> QED
    BY <1>1, <1>6, <1>7, <2>2, <2>3, <2>4 DEF CountInv
<1>15. RetryInv
  BY <1>1 DEF RetryInv
<1>16. DataInv
  <2>1. 0 = 0 * BLOCK /\ MAX_RETRIES > 0
    BY <1>2
  <2>2. Loaded = <<>>
    <3>1. <<>> \o <<>> = <<>>
      BY <1>5, ConcatEmptySeq
    <3> QED
      BY <1>1, <3>1 DEF Loaded
  <2>3. PICK W : W = Wanted
    BY Zenon
  <2>4. \A p \in W : p \in Nat /\ ~(p <= 0)
    <3>1. PICK z \in Nat : z = Blocks * BLOCK
      BY <1>2
    <3>2. \A p \in W : p \in 1 .. z
      BY <2>3, <3>1 DEF Wanted
    <3> QED
      BY <3>2
  <2>5. FirstOf(<<>>, W, 0)
    BY <1>5, <2>4 DEF FirstOf
  <2> QED
    BY <1>1, <1>4, <1>5, <1>6, <2>1, <2>2, <2>3, <2>5 DEF DataInv
<1> QED
  BY <1>10, <1>11, <1>12, <1>13, <1>14, <1>15, <1>16 DEF Inv

LEMMA StutterInv ==
  ASSUME Inv, UNCHANGED vars
  PROVE  Inv'
<1>1. /\ UNCHANGED <<pc, in_hdr, hdr_chars, retries, crc_retries, crc_mode, tx_ack, next_blk,
                     file_length, read_length, at_eof, len, buf, mem>>
      /\ UNCHANGED <<at, hold, started, announces, scrc, cancelled, toSender, toBoard, noise, cross>>
  BY DEF vars, board, sender
<1>2. Loaded' = Loaded /\ Wanted' = Wanted /\ InSequence'
  BY <1>1, SameLoaded DEF Loaded, Inv
<1>3. TypeInv' /\ LineInv' /\ CrcInv' /\ CountInv' /\ RetryInv'
  BY <1>1 DEF Inv, TypeInv, TypeOK, LineInv, CrcInv, CountInv, RetryInv, Live, T, Acks, Asks, B, Danger
<1>4. DataInv'
  BY <1>1, <1>2 DEF Inv, DataInv, Live, B
<1> QED
  BY <1>2, <1>3, <1>4 DEF Inv

LEMMA NextInv ==
  ASSUME Inv, FewFaults, NumbersTell, FinApart, [Next]_vars
  PROVE  Inv'
<1>1. CASE GetHdr
  BY <1>1, GetHdrStep
<1>2. CASE HdrSkips
  BY <1>2, HdrSkipsStep
<1>3. CASE HdrReturns
  BY <1>3, HdrReturnsStep
<1>4. CASE HdrTimesOut
  BY <1>4, HdrTimesOutStep
<1>5. CASE Store
  BY <1>5, StoreStep
<1>6. CASE SenderStarts
  BY <1>6, StartsStep
<1>7. CASE SenderSteps
  BY <1>7, SenderStepsStep
<1>8. CASE SenderCancels
  BY <1>8, CancelsStep
<1>9. CASE Noise
  BY <1>9, NoiseStep
<1>10. CASE UNCHANGED vars
  BY <1>10, StutterInv
<1> QED
  BY <1>1, <1>2, <1>3, <1>4, <1>5, <1>6, <1>7, <1>8, <1>9, <1>10 DEF Next, Board

\* The invariant holds: what the two ends of the line say about each other's place,
\* for any number of blocks, any width of their numbers and any length of the buffer.
THEOREM LoadyInvariant ==
  ASSUME FewFaults, NumbersTell, FinApart
  PROVE  Spec => []Inv
<1>1. Init => Inv
  BY InitInv
<1>2. Inv /\ [Next]_vars => Inv'
  BY NextInv
<1> QED
  BY <1>1, <1>2, PTL DEF Spec

\* Every variable keeps its type: the block number its width, the retries of
\* stream_read their range, and ymodemBuf and pkt together hold less than what was
\* asked for and a block more.
THEOREM LoadyTypeCorrect ==
  ASSUME FewFaults, NumbersTell, FinApart
  PROVE  Spec => []TypeOK
<1>1. Inv => TypeOK
  BY DEF Inv, TypeInv
<1>2. Spec => []Inv
  BY LoadyInvariant
<1> QED
  BY <1>1, <1>2, PTL

\* What xyzModem_stream_read hands on is the beginning of the file, every byte once,
\* whatever the line loses, spoils or delays within the number of faults that the
\* retries outlast: all bytes of it, whatever they are, if the length is known; if
\* not, those that are left when every block has lost its trailing ^Z, in the middle
\* of the file too, and less than three bytes of padding.  For any file, any length
\* of the buffer and wherever a shortened block makes its end fall.
THEOREM LoadyInSequence ==
  ASSUME FewFaults, NumbersTell, FinApart
  PROVE  Spec => []InSequence
<1>1. Inv => InSequence
  BY DEF Inv
<1>2. Spec => []Inv
  BY LoadyInvariant
<1> QED
  BY <1>1, <1>2, PTL
=============================================================================
