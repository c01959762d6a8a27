---------------------------- MODULE ElfLoadProofs ---------------------------
(***************************************************************************)
(* Proofs about Initrd and ElfLoad: the walk over the archive, the lookup  *)
(* of a file and the loading of a program.                                 *)
(***************************************************************************)
EXTENDS ElfLoad, WellFoundedInduction, TLAPS

(***************************************************************************)
(* Numbers                                                                 *)
(***************************************************************************)

(* A set of numbers that is not empty has a least one.                     *)
LEMMA LeastNat ==
    ASSUME NEW T \in SUBSET Nat, T # {}
    PROVE  \E m \in T : \A k \in T : m <= k
<1>1. PICK m \in T : \A y \in T : ~ (<<y, m>> \in OpToRel(<, Nat))
  BY NatLessThanWellFounded, WFMin
<1>2. \A y \in T : ~ (y < m)
  BY <1>1 DEF OpToRel
<1> QED
  BY <1>2

(* The loop of parse_hex(), round by round.                                *)
LEMMA HexLoop ==
    /\ \A s \in Digits8 : val[0][s] = 0
    /\ \A i \in 1..8 : \A s \in Digits8 : val[i][s] = val[i - 1][s] * 16 + s[i]
<1> DEFINE Round(f, i) == [s \in Digits8 |-> IF i = 0 THEN 0
                                            ELSE f[i - 1][s] * 16 + s[i]]
           g0 == [s \in Digits8 |-> 0]
           g1 == [s \in Digits8 |-> g0[s] * 16 + s[1]]
           g2 == [s \in Digits8 |-> g1[s] * 16 + s[2]]
           g3 == [s \in Digits8 |-> g2[s] * 16 + s[3]]
           g4 == [s \in Digits8 |-> g3[s] * 16 + s[4]]
           g5 == [s \in Digits8 |-> g4[s] * 16 + s[5]]
           g6 == [s \in Digits8 |-> g5[s] * 16 + s[6]]
           g7 == [s \in Digits8 |-> g6[s] * 16 + s[7]]
           g8 == [s \in Digits8 |-> g7[s] * 16 + s[8]]
           g == [i \in 0..8 |-> IF i = 0 THEN g0
                                ELSE IF i = 1 THEN g1
                                ELSE IF i = 2 THEN g2
                                ELSE IF i = 3 THEN g3
                                ELSE IF i = 4 THEN g4
                                ELSE IF i = 5 THEN g5
                                ELSE IF i = 6 THEN g6
                                ELSE IF i = 7 THEN g7
                                ELSE g8]
<1>1. ASSUME NEW i \in 0..8 PROVE g[i] = Round(g, i)
  <2>0. CASE i = 0
    BY <2>0
  <2>1. CASE i = 1
    <3>1. g[1] = g1 /\ g[0] = g0
      OBVIOUS
    <3> QED
      BY <2>1, <3>1
  <2>2. CASE i = 2
    <3>1. g[2] = g2 /\ g[1] = g1
      OBVIOUS
    <3> QED
      BY <2>2, <3>1
  <2>3. CASE i = 3
    <3>1. g[3] = g3 /\ g[2] = g2
      OBVIOUS
    <3> QED
      BY <2>3, <3>1
  <2>4. CASE i = 4
    <3>1. g[4] = g4 /\ g[3] = g3
      OBVIOUS
    <3> QED
      BY <2>4, <3>1
  <2>5. CASE i = 5
    <3>1. g[5] = g5 /\ g[4] = g4
      OBVIOUS
    <3> QED
      BY <2>5, <3>1
  <2>6. CASE i = 6
    <3>1. g[6] = g6 /\ g[5] = g5
      OBVIOUS
    <3> QED
      BY <2>6, <3>1
  <2>7. CASE i = 7
    <3>1. g[7] = g7 /\ g[6] = g6
      OBVIOUS
    <3> QED
      BY <2>7, <3>1
  <2>8. CASE i = 8
    <3>1. g[8] = g8 /\ g[7] = g7
      OBVIOUS
    <3> QED
      BY <2>8, <3>1
  <2>9. i \in {0, 1, 2, 3, 4, 5, 6, 7, 8}
    OBVIOUS
  <2> HIDE DEF g, Round
  <2> QED
    BY <2>0, <2>1, <2>2, <2>3, <2>4, <2>5, <2>6, <2>7, <2>8, <2>9
<1>2. g = [i \in 0..8 |-> Round(g, i)]
  <2> DEFINE h == [i \in 0..8 |-> Round(g, i)]
  <2>1. \A i \in 0..8 : g[i] = h[i]
    BY <1>1
  <2>2. DOMAIN g = 0..8 /\ DOMAIN h = 0..8
    OBVIOUS
  <2>3. g = h
    <3> HIDE DEF g
    <3>1. g = [i \in 0..8 |-> g[i]]
      BY <2>2 DEF g
    <3> QED
      BY <2>1, <3>1
  <2> QED
    BY <2>3
<1>3. val = [i \in 0..8 |-> Round(val, i)]
  <2> HIDE DEF g
  <2>1. val = CHOOSE f : f = [i \in 0..8 |-> Round(f, i)]
    BY DEF val
  <2> QED
    BY <1>2, <2>1
<1>4. ASSUME NEW i \in 0..8 PROVE val[i] = Round(val, i)
  BY <1>3
<1> QED
  BY <1>4

(* What parse_hex() reads of eight digits is the number cpio wrote.        *)
LEMMA HexRoundTrip ==
    ASSUME NEW n, FitsHeader(n)
    PROVE  parse_hex(Hex8(n)) = n
<1> DEFINE s == Hex8(n)
<1>1. n \in Nat /\ n \div 65536 < 65536
  BY DEF FitsHeader
<1>2. s \in Digits8
  <2>1. \A d \in 1..8 : PowersOf16[d] \in Nat \ {0}
    BY DEF PowersOf16
  <2>2. \A d \in 1..8 : n \div PowersOf16[d] \in Nat
    BY <1>1, <2>1
  <2>3. \A d \in 1..8 : (n \div PowersOf16[d]) % 16 \in 0..15
    BY <2>2
  <2> QED
    BY <2>3 DEF Hex8, Digits8
<1>3. s[1] = (n \div 268435456) % 16
  BY DEF Hex8, PowersOf16
<1>4. s[2] = (n \div 16777216) % 16
  BY DEF Hex8, PowersOf16
<1>5. s[3] = (n \div 1048576) % 16
  BY DEF Hex8, PowersOf16
<1>6. s[4] = (n \div 65536) % 16
  BY DEF Hex8, PowersOf16
<1>7. s[5] = (n \div 4096) % 16
  BY DEF Hex8, PowersOf16
<1>8. s[6] = (n \div 256) % 16
  BY DEF Hex8, PowersOf16
<1>9. s[7] = (n \div 16) % 16
  BY DEF Hex8, PowersOf16
<1>10. s[8] = (n \div 1) % 16
  BY DEF Hex8, PowersOf16
<1> HIDE DEF s
<1>20. val[0][s] = 0
  BY <1>2, HexLoop
<1>21. val[1][s] = n \div 268435456
  <2>1. val[1][s] = val[1-1][s] * 16 + s[1]
    BY <1>2, HexLoop
  <2> QED
    BY <1>1, <1>3, <1>20, <2>1
<1>22. val[2][s] = n \div 16777216
  <2>1. val[2][s] = val[2-1][s] * 16 + s[2]
    BY <1>2, HexLoop
  <2> QED
    BY <1>1, <1>4, <1>21, <2>1
<1>23. val[3][s] = n \div 1048576
  <2>1. val[3][s] = val[3-1][s] * 16 + s[3]
    BY <1>2, HexLoop
  <2> QED
    BY <1>1, <1>5, <1>22, <2>1
<1>24. val[4][s] = n \div 65536
  <2>1. val[4][s] = val[4-1][s] * 16 + s[4]
    BY <1>2, HexLoop
  <2> QED
    BY <1>1, <1>6, <1>23, <2>1
<1>25. val[5][s] = n \div 4096
  <2>1. val[5][s] = val[5-1][s] * 16 + s[5]
    BY <1>2, HexLoop
  <2> QED
    BY <1>1, <1>7, <1>24, <2>1
<1>26. val[6][s] = n \div 256
  <2>1. val[6][s] = val[6-1][s] * 16 + s[6]
    BY <1>2, HexLoop
  <2> QED
    BY <1>1, <1>8, <1>25, <2>1
<1>27. val[7][s] = n \div 16
  <2>1. val[7][s] = val[7-1][s] * 16 + s[7]
    BY <1>2, HexLoop
  <2> QED
    BY <1>1, <1>9, <1>26, <2>1
<1>28. val[8][s] = n \div 1
  <2>1. val[8][s] = val[8-1][s] * 16 + s[8]
    BY <1>2, HexLoop
  <2> QED
    BY <1>1, <1>10, <1>27, <2>1
<1> QED
  BY <1>1, <1>28 DEF parse_hex, s
(***************************************************************************)
(* The archive: entries as cpio writes them, the last one the trailer, and *)
(* where they are.                                                         *)
(***************************************************************************)
Trailing == [name |-> TRAILER, namesize |-> 11, file |-> NULL]

Stored == \E a \in Archives : archive = Append(a, Trailing)

(* The sizes of an entry can be written to its header.                     *)
EntryFits(e) == FitsHeader(e.namesize) /\ FitsHeader(SizeOf(e.file))

LEMMA StoredShape ==
    ASSUME Stored
    PROVE  /\ Len(archive) \in Nat \ {0} /\ DOMAIN archive = 1..Len(archive)
           /\ \A i \in 1..Len(archive) : EntryFits(archive[i])
           /\ archive[Len(archive)] = Trailing
<1>1. PICK a \in Archives : archive = Append(a, Trailing)
  BY DEF Stored
<1>2. a \in Seq(Range(a)) /\ \A i \in DOMAIN a : EntryFits(a[i])
  BY InitrdAssumption DEF EntryFits
<1>3. Len(a) \in Nat /\ DOMAIN a = 1..Len(a)
  BY <1>2
<1>4. /\ Len(archive) = Len(a) + 1 /\ DOMAIN archive = 1..(Len(a) + 1)
      /\ archive[Len(a) + 1] = Trailing
      /\ \A i \in 1..Len(a) : archive[i] = a[i]
  <2> HIDE DEF Trailing
  <2>1. archive \in Seq(Range(a) \union {Trailing})
    BY <1>1, <1>2
  <2> QED
    BY <1>1, <1>2, <1>3
<1>5. EntryFits(Trailing)
  BY InitrdAssumption DEF EntryFits, Trailing, FitsHeader
<1> HIDE DEF Trailing, EntryFits
<1>6. \A i \in 1..Len(archive) : EntryFits(archive[i])
  <2> SUFFICES ASSUME NEW i \in 1..Len(archive) PROVE EntryFits(archive[i])
    OBVIOUS
  <2>1. CASE i = Len(a) + 1
    BY <1>4, <1>5, <2>1
  <2>2. CASE i \in 1..Len(a)
    <3>1. archive[i] = a[i] /\ EntryFits(a[i])
      BY <1>2, <1>3, <1>4, <2>2
    <3> QED
      BY <3>1
  <2> QED
    BY <1>3, <1>4, <2>1, <2>2
<1> QED
  BY <1>3, <1>4, <1>6

(* Filling up, from a given place on.                                      *)
LEMMA UpFour ==
    ASSUME NEW n \in Nat
    PROVE  /\ Up4(n) \in Nat /\ n <= Up4(n) /\ Up4(n) <= n + 3
           /\ Up4(n) % 4 = 0
BY DEF Up4

LEMMA AlignFour ==
    ASSUME NEW n \in Nat
    PROVE  /\ align4(n) \in Nat /\ n <= align4(n) /\ align4(n) <= n + 3
           /\ align4(n) % 4 = 0
BY DEF align4

(* From an address that is a multiple of 4 the kernel rounds as cpio does. *)
LEMMA AlignAsCpio ==
    ASSUME NEW m \in Nat, NEW n \in Nat, m % 4 = 0
    PROVE  align4(m + n) = m + Up4(n)
BY DEF align4, Up4

(* Where entry i ends, if it starts at x.                                  *)
NextOffset(i, x) == Up4(Up4(x + CPIO_HEADER_SIZE + archive[i].namesize)
                        + SizeOf(archive[i].file))

(* The recursion of Layout has a solution.                                 *)
LEMMA LayoutExists ==
    ASSUME Len(archive) \in Nat
    PROVE  Layout = [i \in 1..(Len(archive) + 1) |->
                         IF i = 1 THEN 0 ELSE NextOffset(i - 1, Layout[i - 1])]
<1> DEFINE N == Len(archive) + 1
           Step(f, i) == IF i = 1 THEN 0 ELSE NextOffset(i - 1, f[i - 1])
           Solves(f, m) == f = [i \in 1..m |-> Step(f, i)]
           Bad == {m \in 1..N : ~ \E f : Solves(f, m)}
<1>1. N \in Nat \ {0}
  OBVIOUS
<1>2. Bad = {}
  <2>1. SUFFICES ASSUME Bad # {} PROVE FALSE
    OBVIOUS
  <2>2. PICK m \in Bad : \A k \in Bad : m <= k
    <3>1. Bad \in SUBSET Nat
      OBVIOUS
    <3> QED
      BY <2>1, <3>1, LeastNat
  <2>3. m \in 1..N /\ ~ \E f : Solves(f, m)
    BY <2>2
  <2>4. CASE m = 1
    <3> DEFINE g == [i \in 1..1 |-> 0]
    <3>1. Solves(g, 1)
      OBVIOUS
    <3> QED
      BY <2>3, <2>4, <3>1
  <2>5. CASE m # 1
    <3>0. m - 1 \in 1..N /\ ~(m <= m - 1)
      BY <1>1, <2>3, <2>5
    <3>1. m - 1 \in 1..N /\ m - 1 \notin Bad
      <4> HIDE DEF Bad
      <4> QED
        BY <2>2, <3>0
    <3>2. PICK f : Solves(f, m - 1)
      BY <3>1
    <3> DEFINE g == [i \in 1..m |-> IF i = m THEN NextOffset(m - 1, f[m - 1])
                                    ELSE f[i]]
    <3>3. ASSUME NEW i \in 1..m PROVE g[i] = Step(g, i)
      <4>1. CASE i = m
        <5>1. g[m] = NextOffset(m - 1, f[m - 1]) /\ g[m - 1] = f[m - 1]
          BY <1>1, <2>3, <2>5
        <5> QED
          BY <4>1, <5>1, <2>5
      <4>2. CASE i # m
        <5>1. i \in 1..(m - 1) /\ g[i] = f[i] /\ f[i] = Step(f, i)
          BY <2>3, <3>2, <4>2
        <5>2. i # 1 => g[i - 1] = f[i - 1]
          BY <5>1, <2>3
        <5> QED
          BY <5>1, <5>2
      <4> QED
        BY <4>1, <4>2
    <3>4. Solves(g, m)
      <4> DEFINE h == [i \in 1..m |-> Step(g, i)]
      <4>1. g = [i \in 1..m |-> g[i]]
        OBVIOUS
      <4> HIDE DEF g
      <4> QED
        BY <3>3, <4>1
    <3> QED
      BY <2>3, <3>4
  <2> QED
    BY <2>4, <2>5
<1>3. PICK f : Solves(f, N)
  BY <1>1, <1>2
<1>4. Layout = CHOOSE g : g = [i \in 1..N |-> Step(g, i)]
  BY DEF Layout, NextOffset
<1>5. Layout = [i \in 1..N |-> Step(Layout, i)]
  BY <1>3, <1>4
<1> QED
  BY <1>5

(* What the layout of the archive is: the entries follow each other, each  *)
(* at a multiple of 4 from the start and at least a header away from the   *)
(* one before.                                                             *)
LEMMA LayoutStep ==
    ASSUME Stored
    PROVE  /\ Layout[1] = 0
           /\ \A i \in 1..Len(archive) : Layout[i + 1] = NextOffset(i, Layout[i])
<1>1. Len(archive) \in Nat \ {0}
  BY StoredShape
<1>2. \A i \in 1..(Len(archive) + 1) :
         Layout[i] = IF i = 1 THEN 0 ELSE NextOffset(i - 1, Layout[i - 1])
  BY <1>1, LayoutExists
<1>3. Layout[1] = 0
  BY <1>1, <1>2
<1>4. ASSUME NEW i \in 1..Len(archive)
      PROVE  Layout[i + 1] = NextOffset(i, Layout[i])
  <2>1. i + 1 \in 1..(Len(archive) + 1) /\ i + 1 # 1 /\ (i + 1) - 1 = i
    BY <1>1
  <2> QED
    BY <1>2, <2>1
<1> QED
  BY <1>3, <1>4

(* The contents of entry i, from the start of the archive on.              *)
DataOffset(i) == Up4(Layout[i] + CPIO_HEADER_SIZE + archive[i].namesize)

Spaced(i) ==
    /\ DataOffset(i) \in Nat /\ DataOffset(i) % 4 = 0
    /\ Layout[i] + CPIO_HEADER_SIZE + archive[i].namesize <= DataOffset(i)
    /\ Layout[i + 1] = Up4(DataOffset(i) + SizeOf(archive[i].file))
    /\ DataOffset(i) + SizeOf(archive[i].file) <= Layout[i + 1]

LEMMA LayoutSpaced ==
    ASSUME Stored, NEW i \in 1..Len(archive), Layout[i] \in Nat
    PROVE  Spaced(i) /\ Layout[i + 1] \in Nat /\ Layout[i + 1] % 4 = 0
<1>1. archive[i].namesize \in Nat /\ SizeOf(archive[i].file) \in Nat
  BY StoredShape DEF EntryFits, FitsHeader
<1> DEFINE x == Layout[i] + CPIO_HEADER_SIZE + archive[i].namesize
<1>2. x \in Nat
  BY <1>1 DEF CPIO_HEADER_SIZE
<1>3. DataOffset(i) = Up4(x)
  BY DEF DataOffset
<1> HIDE DEF x
<1>4. DataOffset(i) \in Nat /\ DataOffset(i) % 4 = 0 /\ x <= DataOffset(i)
  BY <1>2, <1>3, UpFour
<1> DEFINE y == DataOffset(i) + SizeOf(archive[i].file)
<1>5. y \in Nat
  BY <1>1, <1>4
<1>6. Layout[i + 1] = Up4(y)
  BY LayoutStep DEF NextOffset, DataOffset
<1> HIDE DEF y
<1>7. Layout[i + 1] \in Nat /\ y <= Layout[i + 1] /\ Layout[i + 1] % 4 = 0
  BY <1>5, <1>6, UpFour
<1> QED
  BY <1>4, <1>6, <1>7 DEF Spaced, x, y

LEMMA LayoutNat ==
    ASSUME Stored
    PROVE  \A i \in 1..(Len(archive) + 1) : Layout[i] \in Nat /\ Layout[i] % 4 = 0
<1> DEFINE N == Len(archive)
           Bad == {i \in 1..(N + 1) : ~(Layout[i] \in Nat /\ Layout[i] % 4 = 0)}
<1>1. N \in Nat \ {0}
  BY StoredShape
<1>2. Bad = {}
  <2>1. SUFFICES ASSUME Bad # {} PROVE FALSE
    OBVIOUS
  <2>2. PICK m \in Bad : \A k \in Bad : m <= k
    <3>1. Bad \in SUBSET Nat
      BY <1>1
    <3> QED
      BY <2>1, <3>1, LeastNat
  <2>3. m \in 1..(N + 1) /\ ~(Layout[m] \in Nat /\ Layout[m] % 4 = 0)
    BY <2>2
  <2>4. m # 1
    BY <2>3, LayoutStep
  <2>5. m - 1 \in 1..N /\ m - 1 \in 1..(N + 1) /\ ~(m <= m - 1) /\ (m - 1) + 1 = m
    BY <1>1, <2>3, <2>4
  <2>6. m - 1 \notin Bad
    <3> HIDE DEF Bad
    <3> QED
      BY <2>2, <2>5
  <2>7. Layout[m - 1] \in Nat
    BY <2>5, <2>6
  <2>8. Layout[(m - 1) + 1] \in Nat /\ Layout[(m - 1) + 1] % 4 = 0
    BY <2>5, <2>7, LayoutSpaced
  <2> QED
    BY <2>3, <2>5, <2>8
<1> QED
  BY <1>2

LEMMA EntriesSpaced ==
    ASSUME Stored, NEW i \in 1..Len(archive)
    PROVE  Spaced(i)
<1>1. i \in 1..(Len(archive) + 1)
  BY StoredShape
<1> QED
  BY <1>1, LayoutNat, LayoutSpaced

LEMMA Farther ==
    ASSUME NEW a \in Nat, NEW n \in Nat, NEW d \in Nat, NEW s \in Nat,
           NEW e \in Nat, a + CPIO_HEADER_SIZE + n <= d, d + s <= e
    PROVE  a + CPIO_HEADER_SIZE <= e /\ a <= e
BY DEF CPIO_HEADER_SIZE

(* Later entries are farther from the start.                               *)
LEMMA LayoutGrows ==
    ASSUME Stored, NEW i \in 1..(Len(archive) + 1), NEW j \in 1..(Len(archive) + 1),
           i < j
    PROVE  DataOffset(i) + SizeOf(archive[i].file) <= Layout[j]
           /\ Layout[i] + CPIO_HEADER_SIZE <= Layout[j]
<1> DEFINE N == Len(archive)
           F(k) == /\ DataOffset(i) + SizeOf(archive[i].file) <= Layout[k]
                   /\ Layout[i] + CPIO_HEADER_SIZE <= Layout[k]
           Bad == {k \in (i + 1)..(N + 1) : ~F(k)}
<1>1. N \in Nat \ {0} /\ i \in 1..N /\ i \in Nat
  BY StoredShape
<1>2. /\ archive[i].namesize \in Nat /\ SizeOf(archive[i].file) \in Nat
      /\ Layout[i] \in Nat /\ Layout[i + 1] \in Nat /\ Spaced(i)
  <2>1. i + 1 \in 1..(N + 1)
    BY <1>1
  <2> QED
    BY <1>1, <2>1, StoredShape, LayoutNat, EntriesSpaced DEF EntryFits, FitsHeader
<1>3. F(i + 1)
  <2>1. DataOffset(i) + SizeOf(archive[i].file) <= Layout[i + 1]
    BY <1>2 DEF Spaced
  <2>2. /\ DataOffset(i) \in Nat
        /\ Layout[i] + CPIO_HEADER_SIZE + archive[i].namesize <= DataOffset(i)
    BY <1>2 DEF Spaced
  <2>3. Layout[i] + CPIO_HEADER_SIZE <= Layout[i + 1]
    BY <1>2, <2>1, <2>2, Farther
  <2> QED
    BY <2>1, <2>3
<1>4. Bad = {}
  <2>1. SUFFICES ASSUME Bad # {} PROVE FALSE
    OBVIOUS
  <2>2. PICK m \in Bad : \A k \in Bad : m <= k
    <3>1. Bad \in SUBSET Nat
      BY <1>1
    <3> QED
      BY <2>1, <3>1, LeastNat
  <2>3. m \in (i + 1)..(N + 1) /\ ~F(m)
    BY <2>2
  <2>4. m # i + 1
    <3> HIDE DEF F
    <3> QED
      BY <2>3, <1>3
  <2>5. /\ m - 1 \in (i + 1)..(N + 1) /\ m - 1 \in 1..N /\ ~(m <= m - 1)
        /\ (m - 1) + 1 = m /\ m \in 1..(N + 1) /\ m - 1 \in 1..(N + 1)
    BY <1>1, <2>3, <2>4
  <2>6. m - 1 \notin Bad
    <3> HIDE DEF Bad
    <3> QED
      BY <2>2, <2>5
  <2>7. F(m - 1)
    <3> HIDE DEF F
    <3> QED
      BY <2>5, <2>6
  <2>8. /\ Layout[m - 1] \in Nat /\ Layout[m] \in Nat
        /\ archive[m - 1].namesize \in Nat /\ SizeOf(archive[m - 1].file) \in Nat
    <3>1. Layout[m - 1] \in Nat /\ Layout[m] \in Nat
      BY <2>5, LayoutNat
    <3>2. EntryFits(archive[m - 1])
      BY <2>5, StoredShape
    <3> QED
      BY <3>1, <3>2 DEF EntryFits, FitsHeader
  <2>9. Layout[m - 1] <= Layout[m]
    <3>1. Spaced(m - 1)
      BY <2>5, EntriesSpaced
    <3>2. /\ DataOffset(m - 1) \in Nat
          /\ Layout[m - 1] + CPIO_HEADER_SIZE + archive[m - 1].namesize
                 <= DataOffset(m - 1)
          /\ DataOffset(m - 1) + SizeOf(archive[m - 1].file) <= Layout[m]
      BY <2>5, <3>1 DEF Spaced
    <3> QED
      BY <2>8, <3>2, Farther
  <2>10. DataOffset(i) \in Nat
    BY <1>2 DEF Spaced
  <2>11. F(m)
    <3>1. /\ Layout[i] \in Nat /\ SizeOf(archive[i].file) \in Nat
          /\ Layout[m - 1] \in Nat /\ Layout[m] \in Nat
      BY <1>2, <2>8
    <3> QED
      BY <3>1, <2>7, <2>9, <2>10 DEF CPIO_HEADER_SIZE
  <2> QED
    BY <2>3, <2>11
<1>5. j \in (i + 1)..(N + 1)
  BY <1>1
<1> QED
  BY <1>4, <1>5

(* The archive and its place do not change.                                *)
LEMMA SamePlaces ==
    ASSUME archive' = archive, start' = start
    PROVE  /\ Layout' = Layout /\ Stored' = Stored /\ initrd_end' = initrd_end
           /\ \A i : HeaderOf(i)' = HeaderOf(i) /\ DataOf(i)' = DataOf(i)
<1>1. Layout' = Layout
  BY DEF Layout
<1> QED
  BY <1>1 DEF Stored, initrd_end, Total, HeaderOf, DataOf, Trailing

(***************************************************************************)
(* The walk                                                                *)
(***************************************************************************)
LEMMA EntrySizes ==
    ASSUME Stored, NEW i \in 1..Len(archive)
    PROVE  /\ namesize(archive[i]) = archive[i].namesize
           /\ filesize(archive[i]) = SizeOf(archive[i].file)
           /\ archive[i].namesize \in Nat /\ SizeOf(archive[i].file) \in Nat
<1>1. FitsHeader(archive[i].namesize) /\ FitsHeader(SizeOf(archive[i].file))
  BY StoredShape DEF EntryFits
<1> QED
  BY <1>1, HexRoundTrip DEF namesize, filesize, FitsHeader

(* An entry that is not skipped, and what the list holds of it.            *)
Kept(i) == archive[i].name # "." /\ archive[i].namesize < 64

Listed(i, data) == [name |-> archive[i].name, namesize |-> archive[i].namesize,
                    len |-> IF archive[i].namesize < 64
                            THEN archive[i].namesize ELSE 63,
                    data |-> data, size |-> SizeOf(archive[i].file)]

LEMMA KeptIsNotSkipped ==
    ASSUME Stored, NEW i \in 1..Len(archive)
    PROVE  Skipped(archive[i]) <=> ~Kept(i)
BY EntrySizes DEF Skipped, Kept

(* The archive ends behind its last entry.                                 *)
LEMMA EndBehind ==
    ASSUME Stored, start \in Nat
    PROVE  /\ initrd_end \in Nat
           /\ HeaderOf(Len(archive) + 1) <= initrd_end
           /\ HeaderOf(Len(archive) + 1) \in Nat
<1> DEFINE n == Layout[Len(archive) + 1]
<1>1. n \in Nat
  BY StoredShape, LayoutNat
<1>2. initrd_end = start + (n + ((-n) % 512)) /\ HeaderOf(Len(archive) + 1) = start + n
  BY DEF initrd_end, Total, HeaderOf, BLOCK
<1> HIDE DEF n
<1>3. (-n) % 512 \in Nat
  BY <1>1
<1> QED
  BY <1>1, <1>2, <1>3

LEMMA Shifted ==
    ASSUME NEW s \in Nat, NEW a \in Nat, NEW c \in Nat, NEW n \in Nat,
           NEW d \in Nat, a + c + n <= d
    PROVE  (s + a) + c + n <= s + d
OBVIOUS

(* Addresses in the archive.                                               *)
LEMMA PlacesInArchive ==
    ASSUME Stored, start \in Nat, NEW i \in 1..Len(archive)
    PROVE  /\ HeaderOf(i) \in Nat /\ DataOf(i) \in Nat /\ start <= HeaderOf(i)
           /\ HeaderOf(i) + CPIO_HEADER_SIZE <= initrd_end
           /\ HeaderOf(i) + CPIO_HEADER_SIZE + archive[i].namesize <= DataOf(i)
           /\ DataOf(i) + SizeOf(archive[i].file) <= initrd_end
<1> DEFINE N == Len(archive)
<1>1. N \in Nat \ {0} /\ i \in 1..(N + 1) /\ N + 1 \in 1..(N + 1) /\ i < N + 1
  BY StoredShape
<1>2. archive[i].namesize \in Nat /\ SizeOf(archive[i].file) \in Nat
  BY EntrySizes
<1>3. Layout[i] \in Nat /\ Layout[N + 1] \in Nat
  BY <1>1, LayoutNat
<1>4. Spaced(i)
  BY EntriesSpaced
<1>5. /\ DataOffset(i) + SizeOf(archive[i].file) <= Layout[N + 1]
      /\ Layout[i] + CPIO_HEADER_SIZE <= Layout[N + 1]
  BY <1>1, LayoutGrows
<1>6. /\ HeaderOf(i) = start + Layout[i] /\ DataOf(i) = start + DataOffset(i)
      /\ HeaderOf(N + 1) = start + Layout[N + 1]
  BY DEF HeaderOf, DataOf, DataOffset
<1>7. initrd_end \in Nat /\ HeaderOf(N + 1) <= initrd_end
  BY EndBehind
<1>8. /\ DataOffset(i) \in Nat
      /\ Layout[i] + CPIO_HEADER_SIZE + archive[i].namesize <= DataOffset(i)
  BY <1>4 DEF Spaced
<1>9. CPIO_HEADER_SIZE \in Nat
  BY DEF CPIO_HEADER_SIZE
<1> HIDE DEF N
<1>10. HeaderOf(i) \in Nat /\ DataOf(i) \in Nat /\ start <= HeaderOf(i)
  BY <1>3, <1>6, <1>8
<1>11. HeaderOf(i) + CPIO_HEADER_SIZE <= initrd_end
  BY <1>3, <1>5, <1>6, <1>7, <1>9
<1>12. HeaderOf(i) + CPIO_HEADER_SIZE + archive[i].namesize <= DataOf(i)
  BY <1>2, <1>3, <1>6, <1>8, <1>9, Shifted
<1>13. DataOf(i) + SizeOf(archive[i].file) <= initrd_end
  BY <1>2, <1>3, <1>5, <1>6, <1>7, <1>8
<1> QED
  BY <1>10, <1>11, <1>12, <1>13

(* Headers, and contents, are at different places for different entries.   *)
LEMMA HeadersGrow ==
    ASSUME Stored, start \in Nat, NEW i \in 1..(Len(archive) + 1),
           NEW j \in 1..(Len(archive) + 1), i < j
    PROVE  /\ HeaderOf(i) < HeaderOf(j)
           /\ j \in 1..Len(archive) => DataOf(i) < DataOf(j)
<1>1. i \in 1..Len(archive) /\ Layout[i] \in Nat /\ Layout[j] \in Nat
  BY StoredShape, LayoutNat
<1>2. Layout[i] + CPIO_HEADER_SIZE <= Layout[j]
  BY LayoutGrows
<1>3. HeaderOf(i) < HeaderOf(j)
  BY <1>1, <1>2 DEF HeaderOf, CPIO_HEADER_SIZE
<1>4. ASSUME j \in 1..Len(archive) PROVE DataOf(i) < DataOf(j)
  <2>1. DataOffset(i) + SizeOf(archive[i].file) <= Layout[j]
    BY LayoutGrows
  <2>2. SizeOf(archive[i].file) \in Nat /\ archive[j].namesize \in Nat
    BY <1>1, <1>4, EntrySizes
  <2>3. /\ DataOffset(i) \in Nat /\ DataOffset(j) \in Nat
        /\ Layout[j] + CPIO_HEADER_SIZE + archive[j].namesize <= DataOffset(j)
    BY <1>1, <1>4, EntriesSpaced DEF Spaced
  <2>4. DataOf(i) = start + DataOffset(i) /\ DataOf(j) = start + DataOffset(j)
    BY DEF DataOf, DataOffset
  <2>5. DataOffset(i) < DataOffset(j)
    BY <1>1, <2>1, <2>2, <2>3 DEF CPIO_HEADER_SIZE
  <2> QED
    BY <2>3, <2>4, <2>5
<1> QED
  BY <1>3, <1>4

(* The entry whose header is at an address is the only one there.          *)
LEMMA EntryAtHeader ==
    ASSUME Stored, start \in Nat, NEW k \in 1..Len(archive)
    PROVE  EntriesAt(HeaderOf(k)) = {k}
<1>1. k \in 1..(Len(archive) + 1) /\ DOMAIN archive = 1..Len(archive)
      /\ Len(archive) \in Nat
  BY StoredShape
<1>2. ASSUME NEW i \in 1..Len(archive), HeaderOf(i) = HeaderOf(k) PROVE i = k
  <2>1. /\ i \in 1..(Len(archive) + 1)
        /\ HeaderOf(i) \in Nat /\ HeaderOf(k) \in Nat
    BY <1>1, PlacesInArchive
  <2>2. ~(HeaderOf(i) < HeaderOf(k)) /\ ~(HeaderOf(k) < HeaderOf(i))
    BY <1>2, <2>1
  <2>3. ~(i < k) /\ ~(k < i)
    BY <1>1, <2>1, <2>2, HeadersGrow
  <2> QED
    BY <1>1, <2>3
<1> QED
  BY <1>1, <1>2 DEF EntriesAt

(* There is none where the archive's entries end.                          *)
LEMMA NoEntryAtEnd ==
    ASSUME Stored, start \in Nat
    PROVE  EntriesAt(HeaderOf(Len(archive) + 1)) = {}
<1> DEFINE N == Len(archive)
<1>1. N \in Nat /\ N + 1 \in 1..(N + 1) /\ DOMAIN archive = 1..N
  BY StoredShape
<1>2. ASSUME NEW i \in 1..N PROVE HeaderOf(i) # HeaderOf(N + 1)
  <2>1. i \in 1..(N + 1) /\ i < N + 1 /\ HeaderOf(i) \in Nat
        /\ HeaderOf(N + 1) \in Nat
    BY <1>1, PlacesInArchive, EndBehind
  <2>2. HeaderOf(i) < HeaderOf(N + 1)
    BY <1>1, <2>1, HeadersGrow
  <2> QED
    BY <2>1, <2>2
<1> QED
  BY <1>1, <1>2 DEF EntriesAt

(* Linked at a multiple of 4: what the walk does at an entry.              *)
LEMMA AtEntry ==
    ASSUME Stored, start \in Nat, start % 4 = 0,
           NEW k \in 1..Len(archive), pos = HeaderOf(k)
    PROVE  /\ EntriesAt(pos) = {k}
           /\ pos + CPIO_HEADER_SIZE <= initrd_end
           /\ Data(archive[k]) = DataOf(k)
           /\ After(archive[k]) = HeaderOf(k + 1)
<1>1. k \in 1..(Len(archive) + 1) /\ DOMAIN archive = 1..Len(archive)
      /\ Len(archive) \in Nat
  BY StoredShape
<1>2. EntriesAt(pos) = {k}
  BY EntryAtHeader
<1>3. pos + CPIO_HEADER_SIZE <= initrd_end
  BY PlacesInArchive
<1> DEFINE e == archive[k]
<1>4. /\ namesize(e) = e.namesize /\ filesize(e) = SizeOf(e.file)
      /\ e.namesize \in Nat /\ SizeOf(e.file) \in Nat
  BY EntrySizes
<1>5. Layout[k] \in Nat
  BY <1>1, LayoutNat
<1>6. Data(e) = DataOf(k)
  <2> DEFINE x == Layout[k] + CPIO_HEADER_SIZE + e.namesize
  <2>1. x \in Nat /\ (start + Layout[k]) + CPIO_HEADER_SIZE + e.namesize = start + x
    BY <1>4, <1>5 DEF CPIO_HEADER_SIZE
  <2>2. Data(e) = align4((start + Layout[k]) + CPIO_HEADER_SIZE + e.namesize)
    BY <1>4 DEF Data, HeaderOf
  <2>3. DataOf(k) = start + Up4(x)
    BY DEF DataOf
  <2> HIDE DEF x, e
  <2> QED
    BY <2>1, <2>2, <2>3, AlignAsCpio
<1>7. After(e) = HeaderOf(k + 1)
  <2>1. Spaced(k)
    BY EntriesSpaced
  <2>2. /\ DataOffset(k) \in Nat
        /\ Layout[k + 1] = Up4(DataOffset(k) + SizeOf(e.file))
    BY <2>1 DEF Spaced
  <2>3. DataOf(k) = start + DataOffset(k) /\ HeaderOf(k + 1) = start + Layout[k + 1]
    BY DEF DataOf, DataOffset, HeaderOf
  <2>4. After(e) = align4((start + DataOffset(k)) + SizeOf(e.file))
    BY <1>4, <1>6, <2>3 DEF After
  <2> DEFINE y == DataOffset(k) + SizeOf(e.file)
  <2>5. y \in Nat /\ (start + DataOffset(k)) + SizeOf(e.file) = start + y
    BY <1>4, <2>2
  <2>6. Layout[k + 1] = Up4(y)
    BY <2>2
  <2> HIDE DEF y, e
  <2> QED
    BY <2>3, <2>4, <2>5, <2>6, AlignAsCpio
<1> QED
  BY <1>2, <1>3, <1>6, <1>7

(* The list holds the kept ones of the entries before k, later ones first. *)
Lists(k) ==
    /\ \A m \in DOMAIN file_list : \E i \in 1..(k - 1) :
           Kept(i) /\ file_list[m] = Listed(i, DataOf(i))
    /\ \A i \in 1..(k - 1) : Kept(i) =>
           \E m \in DOMAIN file_list : file_list[m] = Listed(i, DataOf(i))
    /\ \A m, n \in DOMAIN file_list :
           m < n => file_list[n].data < file_list[m].data

AlignedWalk ==
    start % 4 = 0 =>
        \E k \in 1..(Len(archive) + 1) :
            /\ pos = HeaderOf(k)
            /\ walk = "done" => k = Len(archive) + 1
            /\ Lists(k)

(* Linked elsewhere, the walk takes the first entry and then finds none.   *)
First == Listed(1, align4(start + CPIO_HEADER_SIZE + archive[1].namesize))

MisalignedWalk ==
    start % 4 # 0 =>
        \/ pos = start /\ file_list = << >>
        \/ /\ pos \in Nat /\ pos >= start /\ pos % 4 = 0
           /\ file_list = << >> \/ (Kept(1) /\ file_list = <<First>>)

InitrdInv ==
    /\ Stored
    /\ start \in Nat
    /\ walk \in {"on", "done", "oom"}
    /\ file_list \in Seq({Listed(i, DataOf(i)) : i \in 1..Len(archive)}
                             \union {First})
    /\ AlignedWalk
    /\ MisalignedWalk

LEMMA SameEntries ==
    ASSUME archive' = archive, start' = start
    PROVE  /\ First' = First
           /\ \A i : Kept(i)' = Kept(i)
           /\ \A i : Listed(i, DataOf(i))' = Listed(i, DataOf(i))
<1>1. \A i : DataOf(i)' = DataOf(i)
  BY SamePlaces
<1> QED
  BY <1>1 DEF First, Kept, Listed

LEMMA SameLists ==
    ASSUME archive' = archive, start' = start, file_list' = file_list, NEW k
    PROVE  Lists(k)' = Lists(k)
<1>1. /\ \A i : Kept(i)' = Kept(i)
      /\ \A i : Listed(i, DataOf(i))' = Listed(i, DataOf(i))
  BY SameEntries
<1> QED
  BY <1>1 DEF Lists

LEMMA InitrdInvInit == InitrdInit => InitrdInv
<1> SUFFICES ASSUME InitrdInit PROVE InitrdInv
  OBVIOUS
<1>1. /\ Stored /\ start \in Nat /\ pos = start /\ file_list = << >>
      /\ walk = "on"
  BY InitrdAssumption DEF InitrdInit, Stored, Trailing
<1>2. file_list \in Seq({Listed(i, DataOf(i)) : i \in 1..Len(archive)}
                            \union {First})
  BY <1>1
<1>3. AlignedWalk
  <2>1. HeaderOf(1) = start
    BY <1>1, LayoutStep DEF HeaderOf
  <2>2. 1 \in 1..(Len(archive) + 1)
    BY <1>1, StoredShape
  <2>3. Lists(1)
    BY <1>1 DEF Lists
  <2> QED
    BY <1>1, <2>1, <2>2, <2>3 DEF AlignedWalk
<1>4. MisalignedWalk
  BY <1>1 DEF MisalignedWalk
<1> QED
  BY <1>1, <1>2, <1>3, <1>4 DEF InitrdInv

(* Other steps leave the archive and the list alone.                       *)
LEMMA InitrdInvUnchanged ==
    ASSUME InitrdInv, UNCHANGED initrdVars
    PROVE  InitrdInv'
<1>1. /\ archive' = archive /\ start' = start /\ pos' = pos
      /\ file_list' = file_list /\ walk' = walk
  BY DEF initrdVars
<1>2. Stored' /\ \A i : HeaderOf(i)' = HeaderOf(i)
  BY <1>1, SamePlaces DEF InitrdInv
<1>3. /\ First' = First /\ \A i : Kept(i)' = Kept(i)
      /\ \A i : Listed(i, DataOf(i))' = Listed(i, DataOf(i))
  BY <1>1, SameEntries
<1>4. (file_list \in Seq({Listed(i, DataOf(i)) : i \in 1..Len(archive)}
                             \union {First}))'
  <2> DEFINE R == {Listed(i, DataOf(i)) : i \in 1..Len(archive)} \union {First}
  <2>1. R' = R
    BY <1>1, <1>3
  <2>2. file_list \in Seq(R)
    BY DEF InitrdInv
  <2> HIDE DEF R
  <2>3. (file_list \in Seq(R))'
    BY <1>1, <2>1, <2>2
  <2> QED
    BY <2>3 DEF R
<1>5. AlignedWalk'
  <2>1. \A k : Lists(k)' = Lists(k)
    BY <1>1, SameLists
  <2> QED
    BY <1>1, <1>2, <2>1 DEF AlignedWalk, InitrdInv
<1>6. MisalignedWalk'
  BY <1>1, <1>3 DEF MisalignedWalk, InitrdInv
<1>7. start' \in Nat /\ walk' \in {"on", "done", "oom"}
  BY <1>1 DEF InitrdInv
<1> QED
  BY <1>2, <1>4, <1>5, <1>6, <1>7 DEF InitrdInv

(* The list stays one of entries of the archive.                           *)
ListType == {Listed(i, DataOf(i)) : i \in 1..Len(archive)} \union {First}

LEMMA SameListType ==
    ASSUME archive' = archive, start' = start
    PROVE  ListType' = ListType
BY SameEntries DEF ListType

(* A step of the walk in an archive linked at a multiple of 4.             *)
LEMMA AlignedStep ==
    ASSUME InitrdInv, initrd_init, start % 4 = 0
    PROVE  AlignedWalk' /\ file_list' \in Seq(ListType)
<1> DEFINE N == Len(archive)
<1>1. archive' = archive /\ start' = start /\ walk = "on"
  BY DEF initrd_init, walk_ends, skip_entry, add_file, out_of_memory
<1>2. Stored /\ start \in Nat /\ file_list \in Seq(ListType)
  BY DEF InitrdInv, ListType
<1>3. N \in Nat \ {0} /\ DOMAIN archive = 1..N
  BY <1>2, StoredShape
<1>4. PICK k \in 1..(N + 1) : pos = HeaderOf(k) /\ Lists(k)
  BY DEF InitrdInv, AlignedWalk
<1>5. /\ N' = N /\ \A i : HeaderOf(i)' = HeaderOf(i)
      /\ \A i : Kept(i)' = Kept(i)
      /\ \A i : Listed(i, DataOf(i))' = Listed(i, DataOf(i))
  BY <1>1, SamePlaces, SameEntries
<1>6. k # N + 1 => k \in 1..N /\ k + 1 \in 1..(N + 1) /\ (k + 1) - 1 = k
  BY <1>3
<1>7. SUFFICES /\ file_list' \in Seq(ListType)
               /\ \E l \in 1..(N + 1) : /\ pos' = HeaderOf(l)
                                        /\ walk' = "done" => l = N + 1
                                        /\ Lists(l)'
  BY <1>1, <1>5 DEF AlignedWalk
<1> HIDE DEF N
<1>8. CASE walk_ends
  <2>1. k = N + 1
    <3>1. SUFFICES ASSUME k # N + 1 PROVE FALSE
      OBVIOUS
    <3>2. EntriesAt(pos) = {k} /\ pos + CPIO_HEADER_SIZE <= initrd_end
          /\ pos \in Nat /\ initrd_end \in Nat
      BY <1>2, <1>4, <1>6, <3>1, AtEntry, PlacesInArchive, EndBehind DEF N
    <3>3. pos + CPIO_HEADER_SIZE > initrd_end \/ EntriesAt(pos) = {}
      BY <1>8 DEF walk_ends
    <3> QED
      BY <3>2, <3>3 DEF CPIO_HEADER_SIZE
  <2>2. pos' = pos /\ file_list' = file_list
    BY <1>8 DEF walk_ends
  <2>3. Lists(k)'
    BY <1>1, <1>4, <2>2, SameLists
  <2> QED
    BY <1>2, <1>4, <2>1, <2>2, <2>3
<1>9. CASE out_of_memory
  <2>2. pos' = pos /\ file_list' = file_list /\ walk' = "oom"
    BY <1>9 DEF out_of_memory
  <2>3. Lists(k)'
    BY <1>1, <1>4, <2>2, SameLists
  <2> QED
    BY <1>2, <1>4, <2>2, <2>3
<1>10. ASSUME skip_entry \/ add_file
       PROVE  /\ k \in 1..N /\ k + 1 \in 1..(N + 1) /\ (k + 1) - 1 = k
              /\ EntriesAt(pos) = {k} /\ Data(archive[k]) = DataOf(k)
              /\ After(archive[k]) = HeaderOf(k + 1)
  <2>1. EntriesAt(pos) # {}
    BY <1>10 DEF skip_entry, add_file
  <2>2. k # N + 1
    BY <1>2, <1>4, <2>1, NoEntryAtEnd DEF N
  <2>3. k \in 1..N /\ k + 1 \in 1..(N + 1) /\ (k + 1) - 1 = k
    BY <1>6, <2>2
  <2> QED
    BY <1>2, <1>4, <2>3, AtEntry DEF N
<1>11. CASE skip_entry
  <2>1. /\ k \in 1..N /\ k + 1 \in 1..(N + 1) /\ (k + 1) - 1 = k
        /\ EntriesAt(pos) = {k} /\ After(archive[k]) = HeaderOf(k + 1)
    BY <1>10, <1>11
  <2>2. /\ Skipped(archive[k]) /\ pos' = HeaderOf(k + 1)
        /\ file_list' = file_list /\ walk' = "on"
    BY <1>1, <1>11, <2>1 DEF skip_entry
  <2>3. ~Kept(k)
    BY <1>2, <2>1, <2>2, KeptIsNotSkipped DEF N
  <2>4. Lists(k + 1)
    <3>1. \A i \in 1..k : i = k \/ i \in 1..(k - 1)
      BY <2>1, <1>3
    <3>2. 1..(k - 1) \subseteq 1..k
      BY <2>1, <1>3
    <3> QED
      BY <1>4, <2>1, <2>3, <3>1, <3>2 DEF Lists
  <2>5. Lists(k + 1)'
    BY <1>1, <2>2, <2>4, SameLists
  <2> QED
    BY <1>2, <2>1, <2>2, <2>5
<1>12. CASE add_file
  <2>1. /\ k \in 1..N /\ k + 1 \in 1..(N + 1) /\ (k + 1) - 1 = k
        /\ EntriesAt(pos) = {k} /\ Data(archive[k]) = DataOf(k)
        /\ After(archive[k]) = HeaderOf(k + 1)
    BY <1>10, <1>12
  <2>2. /\ ~Skipped(archive[k]) /\ pos' = HeaderOf(k + 1) /\ walk' = "on"
        /\ file_list' = Added(archive[k])
    BY <1>1, <1>12, <2>1 DEF add_file
  <2>3. Kept(k)
    BY <1>2, <2>1, <2>2, KeptIsNotSkipped DEF N
  <2> DEFINE r == Listed(k, DataOf(k))
  <2>4. file_list' = <<r>> \o file_list
    BY <1>2, <2>1, <2>2, EntrySizes DEF N, Added, NewEntry, Listed
  <2>5. r \in ListType /\ r.data = DataOf(k)
    BY <2>1 DEF ListType, N, Listed
  <2> DEFINE L == Len(file_list)
  <2>6. L \in Nat /\ DOMAIN file_list = 1..L
    BY <1>2
  <2>7. /\ file_list' \in Seq(ListType)
        /\ DOMAIN file_list' = 1..(L + 1)
        /\ file_list'[1] = r
        /\ \A m \in 1..L : file_list'[m + 1] = file_list[m]
    <3> HIDE DEF r, ListType
    <3> QED
      BY <1>2, <2>4, <2>5
  <2> HIDE DEF L, r
  <2>8. \A m \in 1..(L + 1) : m = 1 \/ (m - 1 \in 1..L /\ file_list'[m] = file_list[m - 1])
    <3> SUFFICES ASSUME NEW m \in 1..(L + 1), m # 1
                 PROVE  m - 1 \in 1..L /\ file_list'[m] = file_list[m - 1]
      OBVIOUS
    <3>1. m - 1 \in 1..L /\ (m - 1) + 1 = m
      BY <2>6
    <3> QED
      BY <2>7, <3>1
  <2>9. \A m \in 1..L : m + 1 \in 1..(L + 1)
    BY <2>6
  <2>10. 1 \in 1..(L + 1)
    BY <2>6
  <2>11. 1..(k - 1) \subseteq 1..k /\ k \in 1..k /\ \A i \in 1..k : i = k \/ i \in 1..(k - 1)
    BY <1>3, <2>1
  <2>12. \A m \in DOMAIN file_list' : \E i \in 1..k :
             Kept(i) /\ file_list'[m] = Listed(i, DataOf(i))
    <3> SUFFICES ASSUME NEW m \in 1..(L + 1)
                 PROVE  \E i \in 1..k :
                            Kept(i) /\ file_list'[m] = Listed(i, DataOf(i))
      BY <2>7
    <3>1. CASE m = 1
      BY <2>3, <2>7, <2>11, <3>1 DEF r
    <3>2. CASE m # 1
      <4>1. m - 1 \in DOMAIN file_list /\ file_list'[m] = file_list[m - 1]
        BY <2>6, <2>8, <3>2
      <4>2. \E i \in 1..(k - 1) : Kept(i) /\ file_list[m - 1] = Listed(i, DataOf(i))
        BY <1>4, <4>1 DEF Lists
      <4> QED
        BY <2>11, <4>1, <4>2
    <3> QED
      BY <3>1, <3>2
  <2>13. \A i \in 1..k : Kept(i) =>
             \E m \in DOMAIN file_list' : file_list'[m] = Listed(i, DataOf(i))
    <3> SUFFICES ASSUME NEW i \in 1..k, Kept(i)
                 PROVE  \E m \in 1..(L + 1) : file_list'[m] = Listed(i, DataOf(i))
      BY <2>7
    <3>1. CASE i = k
      BY <2>7, <2>10, <3>1 DEF r
    <3>2. CASE i \in 1..(k - 1)
      <4>1. PICK m \in 1..L : file_list[m] = Listed(i, DataOf(i))
        BY <1>4, <2>6, <3>2 DEF Lists
      <4> QED
        BY <2>7, <2>9, <4>1
    <3> QED
      BY <2>11, <3>1, <3>2
  <2>14. \A m, n \in DOMAIN file_list' :
             m < n => file_list'[n].data < file_list'[m].data
    <3> SUFFICES ASSUME NEW m \in 1..(L + 1), NEW n \in 1..(L + 1), m < n
                 PROVE  file_list'[n].data < file_list'[m].data
      BY <2>7
    <3>1. n # 1 /\ n - 1 \in 1..L /\ file_list'[n] = file_list[n - 1]
      BY <2>6, <2>8
    <3>2. CASE m = 1
      <4>1. PICK i \in 1..(k - 1) : file_list[n - 1] = Listed(i, DataOf(i))
        BY <1>4, <2>6, <3>1 DEF Lists
      <4>2. file_list'[n].data = DataOf(i)
        BY <3>1, <4>1 DEF Listed
      <4>3. i \in 1..(N + 1) /\ k \in 1..(N + 1) /\ i < k
        BY <1>3, <2>1
      <4>4. DataOf(i) < DataOf(k)
        BY <1>2, <2>1, <4>3, HeadersGrow DEF N
      <4> QED
        BY <2>5, <2>7, <3>2, <4>2, <4>4
    <3>3. CASE m # 1
      <4>1. m - 1 \in 1..L /\ file_list'[m] = file_list[m - 1] /\ m - 1 < n - 1
        BY <2>6, <2>8, <3>3
      <4> QED
        BY <1>4, <2>6, <3>1, <4>1 DEF Lists
    <3> QED
      BY <3>2, <3>3
  <2>15. Lists(k + 1)'
    BY <1>5, <2>1, <2>12, <2>13, <2>14 DEF Lists
  <2> QED
    BY <2>1, <2>2, <2>7, <2>15
<1> QED
  BY <1>8, <1>9, <1>11, <1>12 DEF initrd_init

(* A step of the walk in an archive linked elsewhere.                      *)
LEMMA MisalignedStep ==
    ASSUME InitrdInv, initrd_init, start % 4 # 0
    PROVE  MisalignedWalk' /\ file_list' \in Seq(ListType)
<1> DEFINE N == Len(archive)
<1>1. archive' = archive /\ start' = start /\ walk = "on"
  BY DEF initrd_init, walk_ends, skip_entry, add_file, out_of_memory
<1>2. Stored /\ start \in Nat /\ file_list \in Seq(ListType)
  BY DEF InitrdInv, ListType
<1>3. N \in Nat \ {0} /\ DOMAIN archive = 1..N /\ 1 \in 1..N /\ 1 \in 1..(N + 1)
  BY <1>2, StoredShape
<1>4. First' = First /\ Kept(1)' = Kept(1)
  BY <1>1, SameEntries
<1>5. HeaderOf(1) = start
  BY <1>2, LayoutStep DEF HeaderOf
<1>6. EntriesAt(start) = {1}
  BY <1>2, <1>3, <1>5, EntryAtHeader
<1>7. CASE walk_ends \/ out_of_memory
  <2>1. pos' = pos /\ file_list' = file_list
    BY <1>7 DEF walk_ends, out_of_memory
  <2> QED
    BY <1>1, <1>2, <1>4, <2>1 DEF MisalignedWalk, InitrdInv
<1>8. CASE skip_entry \/ add_file
  <2>1. PICK i \in EntriesAt(pos) :
            /\ pos' = After(archive[i])
            /\ \/ file_list' = file_list
               \/ ~Skipped(archive[i]) /\ file_list' = Added(archive[i])
    BY <1>8 DEF skip_entry, add_file
  <2>2. i \in 1..N /\ HeaderOf(i) = pos
    BY <1>3, <2>1 DEF EntriesAt
  <2>3. pos = start /\ file_list = << >>
    <3>1. SUFFICES ASSUME pos % 4 = 0 PROVE FALSE
      BY DEF InitrdInv, MisalignedWalk
    <3>2. i \in 1..(N + 1)
      BY <1>3, <2>2
    <3>3. Layout[i] \in Nat /\ Layout[i] % 4 = 0
      BY <1>2, <3>2, LayoutNat
    <3>4. pos = start + Layout[i]
      BY <2>2 DEF HeaderOf
    <3> QED
      BY <1>2, <3>1, <3>3, <3>4
  <2>4. i = 1
    BY <1>6, <2>1, <2>3
  <2>5. /\ namesize(archive[1]) = archive[1].namesize
        /\ filesize(archive[1]) = SizeOf(archive[1].file)
        /\ archive[1].namesize \in Nat /\ SizeOf(archive[1].file) \in Nat
    BY <1>2, <1>3, EntrySizes
  <2> DEFINE x == start + CPIO_HEADER_SIZE + archive[1].namesize
  <2>6. x \in Nat /\ start <= x
    BY <1>2, <2>5 DEF CPIO_HEADER_SIZE
  <2>7. Data(archive[1]) = align4(x)
    BY <2>3, <2>5 DEF Data
  <2> DEFINE y == align4(x) + SizeOf(archive[1].file)
  <2>8. After(archive[1]) = align4(y)
    BY <2>5, <2>7 DEF After
  <2>9. First = Listed(1, align4(x))
    BY DEF First
  <2> HIDE DEF x
  <2>10. align4(x) \in Nat /\ x <= align4(x)
    BY <2>6, AlignFour
  <2>11. y \in Nat /\ start <= y
    BY <1>2, <2>5, <2>6, <2>10
  <2> HIDE DEF y
  <2>12. align4(y) \in Nat /\ align4(y) % 4 = 0 /\ y <= align4(y)
    BY <2>11, AlignFour
  <2>13. pos' \in Nat /\ pos' >= start /\ pos' % 4 = 0
    BY <1>2, <2>1, <2>4, <2>8, <2>11, <2>12
  <2>14. CASE file_list' = file_list
    BY <1>1, <1>2, <2>3, <2>13, <2>14 DEF MisalignedWalk
  <2>15. CASE ~Skipped(archive[i]) /\ file_list' = Added(archive[i])
    <3>1. Kept(1)
      BY <1>2, <1>3, <2>4, <2>15, KeptIsNotSkipped
    <3>2. Added(archive[1]) = <<First>> \o << >>
      BY <2>3, <2>5, <2>7, <2>9 DEF Added, NewEntry, Listed
    <3>3. First \in ListType
      BY DEF ListType
    <3>4. file_list' = <<First>>
      <4> HIDE DEF First
      <4> QED
        BY <2>4, <2>15, <3>2
    <3>5. file_list' \in Seq(ListType)
      <4> HIDE DEF First, ListType
      <4> QED
        BY <3>3, <3>4
    <3> QED
      BY <1>1, <1>4, <2>13, <3>1, <3>4, <3>5 DEF MisalignedWalk
  <2> QED
    BY <2>1, <2>14, <2>15
<1> QED
  BY <1>7, <1>8 DEF initrd_init

LEMMA InitrdInvStep ==
    ASSUME InitrdInv, initrd_init
    PROVE  InitrdInv'
<1>1. archive' = archive /\ start' = start
      /\ walk' \in {"on", "done", "oom"}
  BY DEF initrd_init, walk_ends, skip_entry, add_file, out_of_memory
<1>2. Stored' /\ (start \in Nat)'
  BY <1>1, SamePlaces DEF InitrdInv
<1>3. AlignedWalk' /\ MisalignedWalk' /\ file_list' \in Seq(ListType)
  <2>1. CASE start % 4 = 0
    BY <1>1, <2>1, AlignedStep DEF MisalignedWalk
  <2>2. CASE start % 4 # 0
    BY <1>1, <2>2, MisalignedStep DEF AlignedWalk
  <2> QED
    BY <2>1, <2>2
<1>4. (file_list \in Seq(ListType))'
  BY <1>1, <1>3, SameListType
<1> QED
  BY <1>1, <1>2, <1>3, <1>4 DEF InitrdInv, ListType

LEMMA FillBlock ==
    ASSUME NEW n \in Nat
    PROVE  (n + ((-n) % 512)) % 512 = 0 /\ (-n) % 512 \in 0..511
OBVIOUS

(* Inside the archive, wherever it is linked.                              *)
LEMMA FirstInside ==
    ASSUME Stored, start \in Nat
    PROVE  /\ First.data \in Nat
           /\ First.data - First.namesize >= start
           /\ First.data + First.size <= initrd_end
<1> DEFINE N == Len(archive)
           ns == archive[1].namesize
           sz == SizeOf(archive[1].file)
           x == start + CPIO_HEADER_SIZE + ns
<1>1. N \in Nat \ {0} /\ 1 \in 1..N /\ 1 \in 1..(N + 1) /\ N + 1 \in 1..(N + 1)
  BY StoredShape
<1>2. ns \in Nat /\ sz \in Nat
  BY <1>1, EntrySizes
<1>3. First.data = align4(x) /\ First.namesize = ns /\ First.size = sz
  BY DEF First, Listed
<1>4. Layout[1] = 0 /\ DataOffset(1) = Up4(CPIO_HEADER_SIZE + ns)
  <2>1. 0 + CPIO_HEADER_SIZE + ns = CPIO_HEADER_SIZE + ns
    BY <1>2 DEF CPIO_HEADER_SIZE
  <2> QED
    BY <2>1, LayoutStep DEF DataOffset
<1> DEFINE end == Layout[N + 1]
<1>5. end \in Nat /\ initrd_end = start + (end + ((-end) % 512))
  BY <1>1, LayoutNat DEF initrd_end, Total, BLOCK
<1> HIDE DEF end
<1>6. initrd_end \in Nat /\ start + end <= initrd_end
  BY <1>5
<1>7. CPIO_HEADER_SIZE + ns <= DataOffset(1) /\ DataOffset(1) \in Nat
  <2>1. CPIO_HEADER_SIZE + ns \in Nat
    BY <1>2 DEF CPIO_HEADER_SIZE
  <2> QED
    BY <1>4, <2>1, UpFour
<1>8. x \in Nat /\ align4(x) \in Nat /\ x <= align4(x) /\ align4(x) <= x + 3
  <2>1. x \in Nat
    BY <1>2 DEF CPIO_HEADER_SIZE
  <2> HIDE DEF x
  <2> QED
    BY <2>1, AlignFour
<1>9. align4(x) - ns >= start
  BY <1>2, <1>8 DEF CPIO_HEADER_SIZE
<1>10. align4(x) <= start + DataOffset(1) + 3
  BY <1>2, <1>7, <1>8 DEF CPIO_HEADER_SIZE
<1>11. CASE N = 1
  <2>1. archive[1] = Trailing
    BY <1>11, StoredShape
  <2>2. ns = 11 /\ sz = 0
    BY <2>1, InitrdAssumption DEF Trailing
  <2>3. DataOffset(1) = 124
    <3>1. DataOffset(1) = Up4(121)
      BY <1>4, <2>2 DEF CPIO_HEADER_SIZE
    <3>2. Up4(121) \in Nat /\ 121 <= Up4(121) /\ Up4(121) <= 124 /\ Up4(121) % 4 = 0
      BY UpFour
    <3> QED
      BY <3>1, <3>2
  <2>4. end = 124
    <3>1. Layout[1 + 1] = Up4(DataOffset(1) + sz)
      BY <1>1, EntriesSpaced DEF Spaced
    <3>2. Up4(124) = 124
      BY DEF Up4
    <3> QED
      BY <1>11, <2>2, <2>3, <3>1, <3>2 DEF end
  <2>5. initrd_end = start + 512
    <3> DEFINE r == (-end) % 512
    <3>1. (end + r) % 512 = 0 /\ r \in 0..511
      BY <1>5, FillBlock
    <3>2. initrd_end = start + (end + r)
      BY <1>5
    <3> HIDE DEF r
    <3>3. end + r = 512
      BY <2>4, <3>1
    <3> QED
      BY <3>2, <3>3
  <2>6. align4(x) + sz <= initrd_end
    BY <1>8, <1>10, <2>2, <2>3, <2>5
  <2> QED
    BY <1>3, <1>8, <1>9, <2>6
<1>12. CASE N # 1
  <2>1. 2 \in 1..(N + 1) /\ 2 < N + 1
    <3> HIDE DEF N
    <3>1. N \in Nat /\ N >= 2
      BY <1>1, <1>12
    <3> QED
      BY <3>1
  <2>2. Layout[2] \in Nat /\ DataOffset(1) + sz <= Layout[2]
    BY <1>1, <2>1, LayoutNat, LayoutGrows
  <2>3. Layout[2] + CPIO_HEADER_SIZE <= end
    BY <1>1, <2>1, LayoutGrows DEF end
  <2>4. align4(x) + sz <= start + Layout[2] + 3
    BY <1>2, <1>7, <1>8, <1>10, <2>2
  <2>5. align4(x) + sz <= initrd_end
    BY <1>2, <1>5, <1>6, <1>8, <2>2, <2>3, <2>4 DEF CPIO_HEADER_SIZE
  <2> QED
    BY <1>3, <1>8, <1>9, <2>5
<1> QED
  BY <1>11, <1>12

LEMMA InitrdInvInside == InitrdInv => WalkStaysInside /\ InitrdTypeOK
<1> SUFFICES ASSUME InitrdInv PROVE WalkStaysInside /\ InitrdTypeOK
  OBVIOUS
<1>1. Stored /\ start \in Nat /\ AlignedWalk /\ MisalignedWalk
  BY DEF InitrdInv
<1>2. Len(archive) \in Nat \ {0}
  BY <1>1, StoredShape
<1>3. CASE start % 4 = 0
  <2>1. PICK k \in 1..(Len(archive) + 1) : pos = HeaderOf(k) /\ Lists(k)
    BY <1>1, <1>3 DEF AlignedWalk
  <2>2. pos \in Nat /\ pos >= start
    <3>1. Layout[k] \in Nat
      BY <1>1, LayoutNat
    <3> QED
      BY <1>1, <2>1, <3>1 DEF HeaderOf
  <2>3. ASSUME NEW m \in DOMAIN file_list
        PROVE  /\ file_list[m].data \in Nat
               /\ file_list[m].data - file_list[m].namesize >= start
               /\ file_list[m].data + file_list[m].size <= initrd_end
               /\ file_list[m].namesize - 1 <= file_list[m].len
    <3>1. PICK i \in 1..(k - 1) : Kept(i) /\ file_list[m] = Listed(i, DataOf(i))
      BY <2>1 DEF Lists
    <3>2. i \in 1..Len(archive)
      BY <1>2
    <3>3. /\ file_list[m].data = DataOf(i) /\ file_list[m].size = SizeOf(archive[i].file)
          /\ file_list[m].namesize = archive[i].namesize
          /\ file_list[m].len = IF archive[i].namesize < 64
                                THEN archive[i].namesize ELSE 63
      BY <3>1 DEF Listed
    <3>4. archive[i].namesize < 64 /\ archive[i].namesize \in Nat
      BY <1>1, <3>1, <3>2, EntrySizes DEF Kept
    <3>5. /\ DataOf(i) \in Nat /\ HeaderOf(i) \in Nat /\ start <= HeaderOf(i)
          /\ DataOf(i) + SizeOf(archive[i].file) <= initrd_end
          /\ HeaderOf(i) + CPIO_HEADER_SIZE + archive[i].namesize <= DataOf(i)
      BY <1>1, <3>2, PlacesInArchive
    <3>6. DataOf(i) - archive[i].namesize >= start
      BY <1>1, <3>4, <3>5 DEF CPIO_HEADER_SIZE
    <3> QED
      BY <3>3, <3>4, <3>5, <3>6
  <2> QED
    BY <2>2, <2>3 DEF WalkStaysInside, InitrdTypeOK, InitrdInv
<1>4. CASE start % 4 # 0
  <2>1. pos \in Nat /\ pos >= start
    BY <1>1, <1>4 DEF MisalignedWalk
  <2>2. ASSUME NEW m \in DOMAIN file_list
        PROVE  /\ file_list[m].data \in Nat
               /\ file_list[m].data - file_list[m].namesize >= start
               /\ file_list[m].data + file_list[m].size <= initrd_end
               /\ file_list[m].namesize - 1 <= file_list[m].len
    <3>1. Kept(1) /\ file_list = <<First>>
      BY <1>1, <1>4, <2>2 DEF MisalignedWalk
    <3>2. file_list[m] = First
      <4> HIDE DEF First
      <4> QED
        BY <3>1
    <3>3. First.namesize - 1 <= First.len
      <4>1. /\ First.namesize = archive[1].namesize
            /\ First.len = IF archive[1].namesize < 64
                           THEN archive[1].namesize ELSE 63
        BY DEF First, Listed
      <4>2. archive[1].namesize \in Nat
        BY <1>1, <1>2, EntrySizes
      <4> QED
        BY <3>1, <4>1, <4>2 DEF Kept
    <3> QED
      BY <1>1, <3>2, <3>3, FirstInside
  <2> QED
    BY <2>1, <2>2 DEF WalkStaysInside, InitrdTypeOK, InitrdInv
<1> QED
  BY <1>3, <1>4

(***************************************************************************)
(* The lookup                                                              *)
(***************************************************************************)
LEMMA MinIs ==
    ASSUME NEW S \in SUBSET Nat, NEW m \in S, \A k \in S : m <= k
    PROVE  Min(S) = m
<1>1. \E x \in S : \A y \in S : x <= y
  OBVIOUS
<1>2. Min(S) \in S /\ \A y \in S : Min(S) <= y
  BY <1>1 DEF Min
<1>3. Min(S) \in Nat /\ m \in Nat /\ Min(S) <= m /\ m <= Min(S)
  BY <1>2
<1> QED
  BY <1>3

LEMMA MaxIs ==
    ASSUME NEW S \in SUBSET Nat, NEW m \in S, \A k \in S : k <= m
    PROVE  Max(S) = m
<1>1. \A y \in S : m >= y
  OBVIOUS
<1>2. Max(S) \in S /\ \A y \in S : Max(S) >= y
  BY <1>1 DEF Max
<1>3. Max(S) \in Nat /\ m \in Nat /\ Max(S) >= m /\ m >= Max(S)
  BY <1>1, <1>2
<1> QED
  BY <1>3

(* The entries that initrd_init() keeps under a name.                      *)
KeptAs(name) == {i \in 1..Len(archive) : archive[i].name = name /\ Kept(i)}

FoundAs(name, i) ==
    /\ i \in KeptAs(name) /\ \A j \in KeptAs(name) : j <= i
    /\ initrd_find(name).data = DataOf(i)
    /\ initrd_find(name).size = SizeOf(archive[i].file)

LEMMA FindsLast ==
    ASSUME InitrdInv, walk = "done", start % 4 = 0, NEW name
    PROVE  /\ KeptAs(name) = {} => initrd_find(name).data = 0
           /\ KeptAs(name) # {} => \E i \in 1..Len(archive) : FoundAs(name, i)
<1> DEFINE N == Len(archive)
           K == {m \in DOMAIN file_list : file_list[m].name = name}
<1>1. Stored /\ start \in Nat /\ file_list \in Seq(ListType)
  BY DEF InitrdInv, ListType
<1>2. N \in Nat \ {0} /\ (N + 1) - 1 = N
  BY <1>1, StoredShape
<1>3. Lists(N + 1)
  BY DEF InitrdInv, AlignedWalk
<1>4. ASSUME NEW m \in K
      PROVE  \E i \in KeptAs(name) : file_list[m] = Listed(i, DataOf(i))
  <2>1. PICK i \in 1..N : Kept(i) /\ file_list[m] = Listed(i, DataOf(i))
    BY <1>2, <1>3 DEF Lists
  <2>2. archive[i].name = name
    BY <2>1 DEF Listed
  <2> QED
    BY <2>1, <2>2 DEF KeptAs
<1>5. ASSUME NEW i \in KeptAs(name)
      PROVE  \E m \in K : file_list[m] = Listed(i, DataOf(i))
  <2>1. i \in 1..N /\ Kept(i) /\ archive[i].name = name
    BY DEF KeptAs
  <2>2. PICK m \in DOMAIN file_list : file_list[m] = Listed(i, DataOf(i))
    BY <1>2, <1>3, <2>1 DEF Lists
  <2>3. file_list[m].name = name
    BY <2>1, <2>2 DEF Listed
  <2> QED
    BY <2>2, <2>3
<1>6. ASSUME KeptAs(name) = {} PROVE initrd_find(name).data = 0
  <2>1. K = {}
    <3> HIDE DEF K
    <3> QED
      BY <1>4, <1>6
  <2> QED
    BY <2>1 DEF initrd_find
<1>7. ASSUME KeptAs(name) # {} PROVE \E i \in 1..N : FoundAs(name, i)
  <2>1. K # {}
    <3> HIDE DEF K
    <3> QED
      BY <1>5, <1>7
  <2>2. K \in SUBSET Nat
    BY <1>1
  <2>3. PICK m \in K : \A n \in K : m <= n
    <3> HIDE DEF K
    <3> QED
      BY <2>1, <2>2, LeastNat
  <2>4. Min(K) = m
    <3> HIDE DEF K
    <3> QED
      BY <2>2, <2>3, MinIs
  <2>5. PICK i \in KeptAs(name) : file_list[m] = Listed(i, DataOf(i))
    BY <1>4
  <2>6. /\ initrd_find(name).data = file_list[m].data
        /\ initrd_find(name).size = file_list[m].size
    BY <2>1, <2>4 DEF initrd_find
  <2>7. /\ initrd_find(name).data = DataOf(i)
        /\ initrd_find(name).size = SizeOf(archive[i].file)
    BY <2>5, <2>6 DEF Listed
  <2>8. ASSUME NEW j \in KeptAs(name) PROVE j <= i
    <3>1. i \in 1..N /\ j \in 1..N
      BY DEF KeptAs
    <3>2. PICK n \in K : file_list[n] = Listed(j, DataOf(j))
      BY <1>5
    <3>3. m <= n /\ m \in Nat /\ n \in Nat /\ m \in DOMAIN file_list
          /\ n \in DOMAIN file_list
      BY <2>2, <2>3
    <3>4. file_list[m].data = DataOf(i) /\ file_list[n].data = DataOf(j)
      BY <2>5, <3>2 DEF Listed
    <3>5. DataOf(i) \in Nat /\ DataOf(j) \in Nat
      BY <1>1, <3>1, PlacesInArchive
    <3>6. DataOf(j) <= DataOf(i)
      <4>1. CASE m = n
        BY <3>4, <3>5, <4>1
      <4>2. CASE m # n
        <5>1. m < n
          BY <3>3, <4>2
        <5>2. file_list[n].data < file_list[m].data
          BY <1>3, <3>3, <5>1 DEF Lists
        <5> QED
          BY <3>4, <3>5, <5>2
      <4> QED
        BY <4>1, <4>2
    <3>7. SUFFICES ASSUME i < j PROVE FALSE
      BY <3>1
    <3>8. i \in 1..(N + 1) /\ j \in 1..(N + 1)
      BY <1>2, <3>1
    <3>9. DataOf(i) < DataOf(j)
      BY <1>1, <3>1, <3>7, <3>8, HeadersGrow
    <3> QED
      BY <3>5, <3>6, <3>9
  <2>9. FoundAs(name, i)
    BY <2>7, <2>8 DEF FoundAs
  <2>10. i \in 1..N
    BY DEF KeptAs
  <2> QED
    BY <2>9, <2>10
<1> QED
  BY <1>6, <1>7

LEMMA InitrdInvFinds == InitrdInv => FindsFiles
<1> SUFFICES ASSUME InitrdInv, walk = "done", start % 4 = 0,
                    NEW name \in {archive[i].name : i \in DOMAIN archive} \ {TRAILER}
             PROVE  LET I == {i \in DOMAIN archive :
                                  archive[i].name = name /\ Proper(i)}
                        f == initrd_find(name)
                    IN  IF I = {} THEN f.data = 0
                        ELSE /\ f.data = DataOf(Max(I)) /\ f.data # 0
                             /\ f.size = SizeOf(archive[Max(I)].file)
  BY DEF FindsFiles
<1> DEFINE I == {i \in DOMAIN archive : archive[i].name = name /\ Proper(i)}
<1>1. Stored /\ start \in Nat
  BY DEF InitrdInv
<1>2. DOMAIN archive = 1..Len(archive)
  BY <1>1, StoredShape
<1>3. I = KeptAs(name)
  BY <1>2 DEF KeptAs, Kept, Proper
<1> HIDE DEF I
<1>4. CASE I = {}
  BY <1>3, <1>4, FindsLast DEF I
<1>5. CASE I # {}
  <2>1. PICK i \in 1..Len(archive) : FoundAs(name, i)
    BY <1>3, <1>5, FindsLast
  <2>2. i \in I /\ \A j \in I : j <= i
    BY <1>3, <2>1 DEF FoundAs
  <2>3. I \in SUBSET Nat
    BY <1>3 DEF KeptAs
  <2>4. Max(I) = i
    BY <2>2, <2>3, MaxIs
  <2>5. DataOf(i) # 0
    <3>1. HeaderOf(i) \in Nat /\ DataOf(i) \in Nat
          /\ HeaderOf(i) + CPIO_HEADER_SIZE + archive[i].namesize <= DataOf(i)
      BY <1>1, PlacesInArchive
    <3>2. archive[i].namesize \in Nat
      BY <1>1, EntrySizes
    <3> QED
      BY <3>1, <3>2 DEF CPIO_HEADER_SIZE
  <2> QED
    BY <1>5, <2>1, <2>4, <2>5 DEF FoundAs, I
<1> QED
  BY <1>4, <1>5

(***************************************************************************)
(* Pages and segments                                                      *)
(***************************************************************************)
LEMMA DivBounds ==
    ASSUME NEW P \in Nat \ {0}, NEW a \in Int
    PROVE  /\ a \div P \in Int
           /\ P * (a \div P) <= a /\ a < P * (a \div P) + P
OBVIOUS

LEMMA TimesMono ==
    ASSUME NEW P \in Nat, NEW x \in Int, NEW y \in Int, x <= y
    PROVE  P * x <= P * y
OBVIOUS

LEMMA DivIs ==
    ASSUME NEW P \in Nat \ {0}, NEW a \in Int, NEW q \in Int,
           P * q <= a, a < P * q + P
    PROVE  a \div P = q
<1> DEFINE d == a \div P
<1>1. d \in Int /\ P * d <= a /\ a < P * d + P
  BY DivBounds
<1> HIDE DEF d
<1>2. /\ P * q \in Int /\ P * d \in Int
      /\ P * (d + 1) = P * d + P /\ P * (q + 1) = P * q + P
  BY <1>1
<1>3. ASSUME d < q PROVE FALSE
  <2>1. P * (d + 1) <= P * q
    BY <1>1, <1>3, TimesMono
  <2> QED
    BY <1>1, <1>2, <2>1
<1>4. ASSUME q < d PROVE FALSE
  <2>1. P * (q + 1) <= P * d
    BY <1>1, <1>4, TimesMono
  <2> QED
    BY <1>1, <1>2, <2>1
<1> QED
  BY <1>1, <1>3, <1>4 DEF d

LEMMA DivMono ==
    ASSUME NEW P \in Nat \ {0}, NEW a \in Int, NEW b \in Int, a <= b
    PROVE  a \div P <= b \div P
<1> DEFINE d == a \div P
           e == b \div P
<1>1. /\ d \in Int /\ P * d <= a /\ a < P * d + P
      /\ e \in Int /\ P * e <= b /\ b < P * e + P
  BY DivBounds
<1> HIDE DEF d, e
<1>2. P * d \in Int /\ P * e \in Int /\ P * (e + 1) = P * e + P
  BY <1>1
<1>3. ASSUME e < d PROVE FALSE
  <2>1. P * (e + 1) <= P * d
    BY <1>1, <1>3, TimesMono
  <2> QED
    BY <1>1, <1>2, <2>1
<1> QED
  BY <1>1, <1>3 DEF d, e

LEMMA DivNat ==
    ASSUME NEW P \in Nat \ {0}, NEW a \in Nat
    PROVE  a \div P \in Nat
OBVIOUS

(* The byte b of page v is in page v.                                      *)
LEMMA ByteInPage ==
    ASSUME NEW v \in Int, NEW b \in 0..(PAGE_SIZE - 1)
    PROVE  (v * PAGE_SIZE + b) \div PAGE_SIZE = v /\ v * PAGE_SIZE + b \in Int
<1>1. PAGE_SIZE \in Nat \ {0}
  BY ElfAssumption
<1> DEFINE x == v * PAGE_SIZE
<1>2. x \in Int /\ PAGE_SIZE * v = x
  BY <1>1
<1> HIDE DEF x
<1>3. /\ x + b \in Int /\ PAGE_SIZE * v <= x + b
      /\ x + b < PAGE_SIZE * v + PAGE_SIZE
  BY <1>1, <1>2
<1>4. (x + b) \div PAGE_SIZE = v
  BY <1>1, <1>3, DivIs
<1> QED
  BY <1>3, <1>4 DEF x

(* A program header that the linker has written.                           *)
SegOK(s) ==
    /\ s.vaddr \in Nat /\ s.offset \in Nat /\ s.filesz \in Nat
    /\ s.memsz \in Nat /\ s.filesz <= s.memsz

FirstPage(s) == s.vaddr \div PAGE_SIZE

(* Where elf_load() places a segment: the pages it allocates are those the *)
(* segment covers.                                                         *)
LEMMA SegmentPages ==
    ASSUME NEW s, SegOK(s)
    PROVE  /\ FirstPage(s) \in Nat /\ nr_pages(s) \in Nat
           /\ va_start(s) = FirstPage(s) * PAGE_SIZE
           /\ va_start(s) \div PAGE_SIZE = FirstPage(s)
           /\ va_start(s) <= s.vaddr /\ s.vaddr < va_start(s) + PAGE_SIZE
           /\ Covers(s) = FirstPage(s)..(FirstPage(s) + nr_pages(s) - 1)
<1> DEFINE P == PAGE_SIZE
           B == s.vaddr \div P
           y == s.vaddr + s.memsz - 1
           T == y \div P
<1>1. P \in Nat \ {0} /\ s.vaddr \in Nat /\ s.memsz \in Nat
  BY ElfAssumption DEF SegOK
<1>2. y \in Int /\ y + P \in Nat /\ s.vaddr <= y + P /\ y + P \in Int
  BY <1>1
<1>3. B \in Nat /\ P * B <= s.vaddr /\ s.vaddr < P * B + P
  <2>1. s.vaddr \in Int
    BY <1>1
  <2>2. B \in Nat
    BY <1>1, DivNat
  <2>3. P * B <= s.vaddr /\ s.vaddr < P * B + P
    BY <1>1, <2>1, DivBounds
  <2> QED
    BY <2>2, <2>3
<1>4. (B * P) \div P = B /\ B * P = P * B /\ B * P \in Nat
  <2>1. B \in Int /\ 0 \in 0..(P - 1)
    BY <1>1, <1>3
  <2> HIDE DEF B
  <2>2. B * P = P * B /\ B * P \in Nat /\ B * P + 0 = B * P
    BY <1>1, <1>3
  <2>3. (B * P + 0) \div P = B
    BY <2>1, ByteInPage
  <2> QED
    BY <2>2, <2>3
<1>5. va_start(s) = B * P
  BY DEF va_start, align_down
<1>6. T \in Int /\ (y + P) \div P = T + 1
  <2>1. T \in Int /\ P * T <= y /\ y < P * T + P
    BY <1>1, <1>2, DivBounds
  <2> HIDE DEF T, y
  <2>2. T + 1 \in Int /\ P * (T + 1) = P * T + P /\ P * T \in Int
    BY <1>1, <2>1
  <2>3. P * (T + 1) <= y + P /\ y + P < P * (T + 1) + P
    BY <1>1, <1>2, <2>1, <2>2
  <2>4. (y + P) \div P = T + 1
    BY <1>1, <1>2, <2>2, <2>3, DivIs
  <2> QED
    BY <2>1, <2>4
<1>7. B <= T + 1
  <2>1. B <= (y + P) \div P
    <3> HIDE DEF y
    <3>1. s.vaddr \in Int
      BY <1>1
    <3> QED
      BY <1>1, <1>2, <3>1, DivMono
  <2> QED
    BY <1>6, <2>1
<1>8. align_up(s.vaddr + s.memsz) = (T + 1) * P
  <2>1. (s.vaddr + s.memsz) + P - 1 = y + P
    BY <1>1
  <2> QED
    BY <1>6, <2>1 DEF align_up, align_down
<1> HIDE DEF B, T, y
<1>9. (T + 1) * P - B * P = (T + 1 - B) * P
  BY <1>1, <1>3, <1>6
<1>10. T + 1 - B \in Nat
  BY <1>3, <1>6, <1>7
<1>11. nr_pages(s) = T + 1 - B
  <2> DEFINE n == T + 1 - B
  <2>1. n \in Int /\ 0 \in 0..(P - 1) /\ n * P + 0 = n * P
    BY <1>1, <1>10
  <2> HIDE DEF n
  <2>2. (n * P + 0) \div P = n
    BY <2>1, ByteInPage
  <2>3. (n * P) \div P = n
    BY <2>1, <2>2
  <2>4. nr_pages(s) = (n * P) \div P
    BY <1>5, <1>8, <1>9 DEF nr_pages, n
  <2> QED
    BY <2>3, <2>4 DEF n
<1>12. Covers(s) = B..T
  BY DEF Covers, B, T, y
<1>13. B + nr_pages(s) - 1 = T
  BY <1>3, <1>6, <1>11
<1>14. FirstPage(s) = B
  BY DEF FirstPage, B
<1> QED
  BY <1>3, <1>4, <1>5, <1>10, <1>11, <1>12, <1>13, <1>14

(* What belongs at address a of a segment.                                 *)
ByteAt(s, a) == IF a \in FileRange(s) THEN s.offset + a - s.vaddr ELSE 0

(* Nothing is copied beyond the end of the page.                           *)
LEMMA CopiedInside ==
    ASSUME NEW s, SegOK(s), NEW j \in Nat
    PROVE  /\ Copied(s, j) \subseteq 0..(PAGE_SIZE - 1)
           /\ copy_start(s, j) \in Nat
           /\ copy_end(s, j) \in Int /\ copy_end(s, j) <= PAGE_SIZE
<1> DEFINE P == PAGE_SIZE
           q == page_va(s, j)
           e == file_end(s)
<1>1. P \in Nat \ {0} /\ s.vaddr \in Nat /\ s.filesz \in Nat
  BY ElfAssumption DEF SegOK
<1>2. va_start(s) \in Int /\ va_start(s) <= s.vaddr
  BY <1>1, SegmentPages
<1>3. q \in Int /\ e \in Int
  BY <1>1, <1>2 DEF page_va, file_end
<1>4. copy_start(s, j) \in Nat
  BY <1>1, <1>2 DEF copy_start
<1>5. copy_end(s, j) = IF q + P < e THEN P ELSE e - q
  BY DEF copy_end
<1> HIDE DEF q, e
<1>6. copy_end(s, j) \in Int /\ copy_end(s, j) <= P
  BY <1>1, <1>3, <1>5
<1>7. Copied(s, j) \subseteq copy_start(s, j)..(copy_end(s, j) - 1)
  BY DEF Copied
<1> QED
  BY <1>1, <1>4, <1>6, <1>7

LEMMA FilledByte ==
    ASSUME NEW s, SegOK(s), NEW j \in Nat, NEW b \in 0..(PAGE_SIZE - 1)
    PROVE  LET q       == va_start(s) + j * PAGE_SIZE
               e       == s.vaddr + s.filesz
               touched == q + PAGE_SIZE > s.vaddr /\ q < e
               seg_off == IF q > s.vaddr THEN q - s.vaddr ELSE 0
               to      == IF q + PAGE_SIZE < e THEN PAGE_SIZE ELSE e - q
               from    == IF j = 0 THEN s.vaddr - va_start(s) ELSE 0
           IN  Filled(s, j)[b] =
                   IF touched /\ from <= b /\ b < to
                   THEN s.offset + seg_off + (b - from) ELSE 0
<1> DEFINE touched == /\ page_va(s, j) + PAGE_SIZE > s.vaddr
                      /\ page_va(s, j) < file_end(s)
           seg_off == IF page_va(s, j) > s.vaddr THEN page_va(s, j) - s.vaddr
                      ELSE 0
<1>1. b \in Copied(s, j)
          <=> touched /\ copy_start(s, j) <= b /\ b < copy_end(s, j)
  <2>1. copy_start(s, j) \in Nat /\ copy_end(s, j) \in Int /\ b \in Int
    <3>1. copy_start(s, j) \in Nat /\ copy_end(s, j) \in Int
      BY CopiedInside
    <3>2. PAGE_SIZE \in Nat
      BY ElfAssumption
    <3> QED
      BY <3>1, <3>2
  <2> QED
    BY <2>1 DEF Copied
<1>2. Filled(s, j)[b] = IF b \in Copied(s, j)
                        THEN s.offset + seg_off + (b - copy_start(s, j)) ELSE 0
  BY DEF Filled
<1>3. Filled(s, j)[b] =
          IF touched /\ copy_start(s, j) <= b /\ b < copy_end(s, j)
          THEN s.offset + seg_off + (b - copy_start(s, j)) ELSE 0
  BY <1>1, <1>2
<1> QED
  BY <1>3 DEF page_va, file_end, copy_start, copy_end

(* A page of a segment holds what belongs there.                           *)
LEMMA FilledIsWanted ==
    ASSUME NEW s, SegOK(s), NEW j \in Nat, NEW b \in 0..(PAGE_SIZE - 1)
    PROVE  Filled(s, j)[b] = ByteAt(s, (FirstPage(s) + j) * PAGE_SIZE + b)
<1> DEFINE P == PAGE_SIZE
           v == s.vaddr
           f == s.filesz
           B == FirstPage(s)
           w == va_start(s)
           q == w + j * P
<1>1. P \in Nat \ {0} /\ v \in Nat /\ f \in Nat /\ s.offset \in Nat
  BY ElfAssumption DEF SegOK
<1>2. B \in Nat /\ w = B * P /\ w <= v /\ v < w + P
  BY SegmentPages
<1>3. w \in Nat /\ j * P \in Nat /\ (B + j) * P = q
  <2> HIDE DEF B, w
  <2> QED
    BY <1>1, <1>2
<1>4. j = 0 => j * P = 0
  BY <1>1
<1>5. j # 0 => j * P >= P
  <2> SUFFICES ASSUME j # 0 PROVE j * P >= P
    OBVIOUS
  <2>1. P \in Nat /\ 1 \in Int /\ j \in Int /\ 1 <= j
    BY <1>1
  <2>2. P * 1 <= P * j
    BY <2>1, TimesMono
  <2> QED
    BY <2>1, <2>2
<1> DEFINE touched    == q + P > v /\ q < v + f
           seg_off    == IF q > v THEN q - v ELSE 0
           to         == IF q + P < v + f THEN P ELSE v + f - q
           from       == IF j = 0 THEN v - w ELSE 0
<1>6. Filled(s, j)[b] = IF touched /\ from <= b /\ b < to
                        THEN s.offset + seg_off + (b - from) ELSE 0
  BY <1>1, <1>3, FilledByte
<1>7. ByteAt(s, q + b) = IF v <= q + b /\ q + b <= v + f - 1
                         THEN s.offset + (q + b) - v ELSE 0
  <2>1. q + b \in Int /\ v + f - 1 \in Int
    BY <1>1, <1>3
  <2> HIDE DEF q
  <2> QED
    BY <1>1, <2>1 DEF ByteAt, FileRange
<1>8. b \in Int /\ 0 <= b /\ b < P
  BY <1>1
<1>9. CASE j = 0
  <2>1. q = w
    BY <1>3, <1>4, <1>9
  <2> HIDE DEF q, w, v, f, P
  <2>2. ~(q > v) \/ q = v
    BY <1>1, <1>2, <1>3, <2>1
  <2>3. (touched /\ from <= b /\ b < to)
            <=> (v <= q + b /\ q + b <= v + f - 1)
    BY <1>1, <1>2, <1>3, <1>8, <1>9, <2>1
  <2>4. seg_off + (b - from) = q + b - v
    BY <1>1, <1>2, <1>3, <1>8, <1>9, <2>1
  <2>5. s.offset + seg_off + (b - from) = s.offset + (q + b) - v
    BY <1>1, <1>2, <1>3, <1>8, <1>9, <2>1
  <2> HIDE DEF touched, seg_off, to, from
  <2>6. Filled(s, j)[b] = ByteAt(s, q + b)
    BY <1>6, <1>7, <2>3, <2>5
  <2> QED
    BY <1>3, <2>6 DEF P
<1>10. CASE j # 0
  <2>1. q > v
    BY <1>1, <1>2, <1>3, <1>5, <1>10
  <2>2. q \in Nat
    BY <1>3
  <2> HIDE DEF q, w, v, f, P
  <2>3. (touched /\ from <= b /\ b < to)
            <=> (v <= q + b /\ q + b <= v + f - 1)
    BY <1>1, <1>2, <1>3, <1>8, <1>10, <2>1, <2>2
  <2>5. s.offset + seg_off + (b - from) = s.offset + (q + b) - v
    BY <1>1, <1>2, <1>3, <1>8, <1>10, <2>1, <2>2
  <2> HIDE DEF touched, seg_off, to, from
  <2>6. Filled(s, j)[b] = ByteAt(s, q + b)
    BY <1>6, <1>7, <2>3, <2>5
  <2> QED
    BY <1>3, <2>6 DEF P
<1> QED
  BY <1>9, <1>10

LEMMA FilledType ==
    ASSUME NEW s, SegOK(s), NEW j \in Nat
    PROVE  Filled(s, j) \in [0..(PAGE_SIZE - 1) -> Nat]
<1>1. ASSUME NEW b \in 0..(PAGE_SIZE - 1) PROVE Filled(s, j)[b] \in Nat
  <2> DEFINE a == (FirstPage(s) + j) * PAGE_SIZE + b
  <2>1. a \in Int
    <3>1. FirstPage(s) + j \in Int
      BY SegmentPages
    <3> QED
      BY <3>1, ByteInPage
  <2>2. Filled(s, j)[b] = ByteAt(s, a)
    BY FilledIsWanted
  <2> HIDE DEF a
  <2>3. ByteAt(s, a) \in Nat
    BY <2>1 DEF ByteAt, FileRange, SegOK
  <2> QED
    BY <2>2, <2>3
<1> DEFINE F == Filled(s, j)
<1>2. F = [b \in 0..(PAGE_SIZE - 1) |-> F[b]]
  <2>1. (0..(PAGE_SIZE - 1)) \union Copied(s, j) = 0..(PAGE_SIZE - 1)
    BY CopiedInside
  <2>2. F = [b \in DOMAIN F |-> F[b]]
           /\ DOMAIN F = (0..(PAGE_SIZE - 1)) \union Copied(s, j)
    BY DEF Filled
  <2> HIDE DEF F
  <2> QED
    BY <2>1, <2>2
<1> HIDE DEF F
<1> QED
  BY <1>1, <1>2 DEF F

(* An address that a segment's bytes of the file are for is in one of the  *)
(* pages it covers.                                                        *)
LEMMA FileRangeCovered ==
    ASSUME NEW s, SegOK(s), NEW a \in FileRange(s)
    PROVE  a \div PAGE_SIZE \in Covers(s)
<1> DEFINE y == s.vaddr + s.memsz - 1
<1>1. PAGE_SIZE \in Nat \ {0} /\ s.vaddr \in Int /\ y \in Int
  BY ElfAssumption DEF SegOK
<1>2. a \in Int /\ s.vaddr <= a /\ a <= y
  BY DEF FileRange, SegOK
<1>3. Covers(s) = (s.vaddr \div PAGE_SIZE)..(y \div PAGE_SIZE)
  BY DEF Covers
<1> HIDE DEF y
<1>4. /\ s.vaddr \div PAGE_SIZE <= a \div PAGE_SIZE
      /\ a \div PAGE_SIZE <= y \div PAGE_SIZE
  BY <1>1, <1>2, DivMono
<1>5. /\ s.vaddr \div PAGE_SIZE \in Int /\ a \div PAGE_SIZE \in Int
      /\ y \div PAGE_SIZE \in Int
  BY <1>1, <1>2, DivBounds
<1> QED
  BY <1>3, <1>4, <1>5

(***************************************************************************)
(* What the page table maps                                                *)
(***************************************************************************)
SegsOK(file) == /\ Segments(file) \in Seq(Range(Segments(file)))
                /\ \A k \in DOMAIN Segments(file) : SegOK(Segments(file)[k])

Seg(file, k) == Segments(file)[k]

(* The byte of a page that one segment covers, or none.                    *)
LEMMA WantedIs ==
    ASSUME NEW file, SegsOK(file), NEW v \in Int, NEW b \in 0..(PAGE_SIZE - 1)
    PROVE  LET a == v * PAGE_SIZE + b
           IN  /\ (\A k \in Loadable(file) : v \notin Covers(Seg(file, k)))
                      => Wanted(file, a) = 0
               /\ \A k \in Loadable(file) :
                      (\A l \in Loadable(file) : v \in Covers(Seg(file, l)) => l = k)
                          => Wanted(file, a) = ByteAt(Seg(file, k), a)
<1> DEFINE a == v * PAGE_SIZE + b
           K == {k \in Loadable(file) : a \in FileRange(Segments(file)[k])}
<1>1. a \div PAGE_SIZE = v
  BY ByteInPage
<1>2. Wanted(file, a) = IF K = {} THEN 0
                        ELSE Seg(file, CHOOSE k \in K : TRUE).offset + a
                                - Seg(file, CHOOSE k \in K : TRUE).vaddr
  BY DEF Wanted, Seg
<1>3. ASSUME NEW k \in K PROVE k \in Loadable(file) /\ v \in Covers(Seg(file, k))
  <2>1. SegOK(Segments(file)[k]) /\ a \in FileRange(Segments(file)[k])
    BY DEF SegsOK, Loadable
  <2> HIDE DEF a
  <2> QED
    BY <1>1, <2>1, FileRangeCovered DEF Seg
<1> HIDE DEF a
<1>4. ASSUME \A k \in Loadable(file) : v \notin Covers(Seg(file, k))
      PROVE  Wanted(file, a) = 0
  <2>1. K = {}
    <3> HIDE DEF K
    <3> QED
      BY <1>3, <1>4
  <2> QED
    BY <1>2, <2>1
<1>5. ASSUME NEW k \in Loadable(file),
             \A l \in Loadable(file) : v \in Covers(Seg(file, l)) => l = k
      PROVE  Wanted(file, a) = ByteAt(Seg(file, k), a)
  <2>1. \A l \in K : l = k
    <3> HIDE DEF K
    <3> QED
      BY <1>3, <1>5
  <2>2. CASE a \in FileRange(Seg(file, k))
    <3>1. k \in K
      BY <2>2 DEF Seg
    <3>2. (CHOOSE l \in K : TRUE) = k /\ K # {}
      <4> HIDE DEF K
      <4> QED
        BY <2>1, <3>1
    <3> HIDE DEF K
    <3> QED
      BY <1>2, <2>2, <3>2 DEF ByteAt
  <2>3. CASE a \notin FileRange(Seg(file, k))
    <3>1. K = {}
      BY <2>1, <2>3 DEF Seg
    <3> QED
      BY <1>2, <2>3, <3>1 DEF ByteAt
  <2> QED
    BY <2>2, <2>3
<1> QED
  BY <1>4, <1>5 DEF a

(* While segment i is loaded and j of its pages are, this many of segment  *)
(* k's are; page p of segment k is this one.                               *)
DoneOf(file, i, j, k) == IF k < i THEN nr_pages(Seg(file, k))
                         ELSE IF k = i THEN j ELSE 0
PageNo(file, k, p)    == va_start(Seg(file, k)) \div PAGE_SIZE + p

(* The page table maps the pages loaded so far, each for one segment and   *)
(* filled from it, and none of the kernel's.                               *)
LoadedOnly(file, i, j, img) ==
    \A v \in DOMAIN img :
        /\ v \notin KernelPages
        /\ \E k \in Loadable(file) : \E p \in 0..(DoneOf(file, i, j, k) - 1) :
               v = PageNo(file, k, p) /\ img[v] = Filled(Seg(file, k), p)

LoadedAll(file, i, j, img) ==
    \A k \in Loadable(file) : \A p \in 0..(DoneOf(file, i, j, k) - 1) :
        PageNo(file, k, p) \in DOMAIN img

LoadedOnce(file, i, j) ==
    \A k, l \in Loadable(file) :
        \A p \in 0..(DoneOf(file, i, j, k) - 1), q \in 0..(DoneOf(file, i, j, l) - 1) :
            PageNo(file, k, p) = PageNo(file, l, q) => k = l

SoFar(file, i, j, img) ==
    /\ LoadedOnly(file, i, j, img)
    /\ LoadedAll(file, i, j, img)
    /\ LoadedOnce(file, i, j)

(* The loops of elf_load() are within their bounds.                        *)
Within(file, i, j) ==
    /\ i \in 1..(Len(Segments(file)) + 1) /\ j \in Nat
    /\ j # 0 => i \in Loadable(file) /\ j <= nr_pages(Seg(file, i))

LEMMA LoadableSegs ==
    ASSUME NEW file, SegsOK(file)
    PROVE  /\ Len(Segments(file)) \in Nat
           /\ DOMAIN Segments(file) = 1..Len(Segments(file))
           /\ \A k \in Loadable(file) :
                  /\ k \in 1..Len(Segments(file)) /\ SegOK(Seg(file, k))
                  /\ nr_pages(Seg(file, k)) \in Nat
                  /\ FirstPage(Seg(file, k)) \in Nat
<1>1. Len(Segments(file)) \in Nat /\ DOMAIN Segments(file) = 1..Len(Segments(file))
  BY DEF SegsOK
<1>2. ASSUME NEW k \in Loadable(file)
      PROVE  /\ k \in 1..Len(Segments(file)) /\ SegOK(Seg(file, k))
             /\ nr_pages(Seg(file, k)) \in Nat
             /\ FirstPage(Seg(file, k)) \in Nat
  <2>1. k \in 1..Len(Segments(file)) /\ SegOK(Seg(file, k))
    BY <1>1 DEF SegsOK, Loadable, Seg
  <2> QED
    BY <2>1, SegmentPages
<1> QED
  BY <1>1, <1>2

(* The pages of a segment are in order, and are the ones it covers.        *)
LEMMA PagesOfSegment ==
    ASSUME NEW file, SegsOK(file), NEW k \in Loadable(file)
    PROVE  /\ \A p \in Nat : /\ PageNo(file, k, p) = FirstPage(Seg(file, k)) + p
                             /\ PageNo(file, k, p) \in Nat
           /\ \A p \in 0..(nr_pages(Seg(file, k)) - 1) :
                  p \in Nat /\ PageNo(file, k, p) \in Covers(Seg(file, k))
           /\ \A v \in Covers(Seg(file, k)) :
                  \E p \in 0..(nr_pages(Seg(file, k)) - 1) :
                      v = PageNo(file, k, p)
<1> DEFINE s == Seg(file, k)
           B == FirstPage(s)
           n == nr_pages(s)
<1>1. /\ B \in Nat /\ n \in Nat /\ va_start(s) \div PAGE_SIZE = B
      /\ Covers(s) = B..(B + n - 1)
  BY LoadableSegs, SegmentPages
<1>2. \A p : PageNo(file, k, p) = B + p
  BY <1>1 DEF PageNo
<1> HIDE DEF s, B, n
<1>3. ASSUME NEW v \in Covers(s)
      PROVE  \E p \in 0..(n - 1) : v = PageNo(file, k, p)
  <2>1. v - B \in 0..(n - 1) /\ B + (v - B) = v
    BY <1>1
  <2> QED
    BY <1>2, <2>1
<1>4. ASSUME NEW p \in 0..(n - 1) PROVE p \in Nat /\ PageNo(file, k, p) \in Covers(s)
  BY <1>1, <1>2
<1>5. ASSUME NEW p \in Nat PROVE PageNo(file, k, p) = B + p /\ PageNo(file, k, p) \in Nat
  BY <1>1, <1>2
<1> QED
  BY <1>3, <1>4, <1>5 DEF s, B, n

LEMMA DoneBounds ==
    ASSUME NEW file, SegsOK(file), NEW i, NEW j, Within(file, i, j),
           NEW k \in Loadable(file)
    PROVE  DoneOf(file, i, j, k) \in 0..nr_pages(Seg(file, k))
<1>1. nr_pages(Seg(file, k)) \in Nat /\ k \in Nat
  BY LoadableSegs
<1> QED
  BY <1>1 DEF DoneOf, Within

(* Nothing is loaded when elf_load() starts.                               *)
LEMMA SoFarInit ==
    ASSUME NEW file, SegsOK(file)
    PROVE  SoFar(file, 1, 0, NoImage) /\ Within(file, 1, 0)
<1>1. ASSUME NEW k \in Loadable(file) PROVE 0..(DoneOf(file, 1, 0, k) - 1) = {}
  <2>1. k \in Nat \ {0}
    BY LoadableSegs
  <2>2. DoneOf(file, 1, 0, k) = 0
    BY <2>1 DEF DoneOf
  <2> QED
    BY <2>2
<1>2. DOMAIN NoImage = {}
  BY DEF NoImage
<1>3. Within(file, 1, 0)
  BY LoadableSegs DEF Within
<1> QED
  BY <1>1, <1>2, <1>3 DEF SoFar, LoadedOnly, LoadedAll, LoadedOnce

(* The next segment.                                                       *)
LEMMA SoFarNext ==
    ASSUME NEW file, SegsOK(file), NEW i, NEW j, NEW img,
           Within(file, i, j), SoFar(file, i, j, img),
           i <= Len(Segments(file)),
           i \notin Loadable(file) \/ j >= nr_pages(Seg(file, i))
    PROVE  SoFar(file, i + 1, 0, img) /\ Within(file, i + 1, 0)
<1>1. Len(Segments(file)) \in Nat /\ i \in Nat
  BY LoadableSegs DEF Within
<1>2. ASSUME NEW k \in Loadable(file)
      PROVE  DoneOf(file, i + 1, 0, k) = DoneOf(file, i, j, k)
  <2>1. nr_pages(Seg(file, k)) \in Nat /\ k \in Nat
    BY LoadableSegs
  <2>2. j \in Nat /\ (j # 0 => j <= nr_pages(Seg(file, i)))
    BY DEF Within
  <2>3. CASE k < i
    BY <1>1, <2>1, <2>3 DEF DoneOf
  <2>4. CASE k = i
    <3>1. j = nr_pages(Seg(file, k))
      BY <2>1, <2>2, <2>4
    <3> QED
      BY <1>1, <2>1, <2>4, <3>1 DEF DoneOf
  <2>5. CASE k > i
    BY <1>1, <2>1, <2>5 DEF DoneOf
  <2> QED
    BY <1>1, <2>1, <2>3, <2>4, <2>5
<1>3. Within(file, i + 1, 0)
  BY <1>1 DEF Within
<1>4. LoadedOnly(file, i + 1, 0, img)
  BY <1>2 DEF SoFar, LoadedOnly
<1>5. LoadedAll(file, i + 1, 0, img)
  BY <1>2 DEF SoFar, LoadedAll
<1>6. LoadedOnce(file, i + 1, 0)
  BY <1>2 DEF SoFar, LoadedOnce
<1> QED
  BY <1>3, <1>4, <1>5, <1>6 DEF SoFar

Mapped(img, v, page) == [u \in DOMAIN img \union {v} |-> IF u = v THEN page ELSE img[u]]

(* The next page.                                                          *)
LEMMA SoFarPage ==
    ASSUME NEW file, SegsOK(file), NEW i \in Loadable(file), NEW j, NEW img,
           Within(file, i, j), SoFar(file, i, j, img),
           j < nr_pages(Seg(file, i)),
           PageNo(file, i, j) \notin DOMAIN img \union KernelPages
    PROVE  /\ SoFar(file, i, j + 1, Mapped(img, PageNo(file, i, j), Filled(Seg(file, i), j)))
           /\ Within(file, i, j + 1)
<1> DEFINE v0 == PageNo(file, i, j)
           pg == Filled(Seg(file, i), j)
           new == Mapped(img, v0, pg)
           D(k) == DoneOf(file, i, j, k)
           E(k) == DoneOf(file, i, j + 1, k)
<1>1. j \in Nat /\ i \in Nat /\ nr_pages(Seg(file, i)) \in Nat
      /\ i \in 1..(Len(Segments(file)) + 1)
  BY LoadableSegs DEF Within
<1>2. Within(file, i, j + 1)
  BY <1>1 DEF Within
<1>3. D(i) = j /\ E(i) = j + 1 /\ \A k : k # i => E(k) = D(k)
  BY <1>1 DEF DoneOf
<1>4. \A k \in Loadable(file) : D(k) \in Nat
  BY DoneBounds
<1>5. /\ DOMAIN new = DOMAIN img \union {v0}
      /\ new[v0] = pg
      /\ \A u \in DOMAIN img : u # v0 => new[u] = img[u]
  BY DEF Mapped
<1>6. v0 \notin DOMAIN img /\ v0 \notin KernelPages
  OBVIOUS
<1> HIDE DEF new, D, E
<1>7. 0..(E(i) - 1) = 0..(D(i) - 1) \union {j} /\ j \notin 0..(D(i) - 1)
  BY <1>1, <1>3
<1>8. \A k \in Loadable(file) : 0..(D(k) - 1) \subseteq 0..(E(k) - 1)
  BY <1>3, <1>7
<1>9. /\ \A v \in DOMAIN img :
            /\ v \notin KernelPages
            /\ \E k \in Loadable(file) : \E p \in 0..(D(k) - 1) :
                   v = PageNo(file, k, p) /\ img[v] = Filled(Seg(file, k), p)
      /\ \A k \in Loadable(file) : \A p \in 0..(D(k) - 1) :
            PageNo(file, k, p) \in DOMAIN img
      /\ \A k, l \in Loadable(file) :
            \A p \in 0..(D(k) - 1), q \in 0..(D(l) - 1) :
                PageNo(file, k, p) = PageNo(file, l, q) => k = l
  BY DEF SoFar, LoadedOnly, LoadedAll, LoadedOnce, D
<1> HIDE DEF v0, pg
<1>10. ASSUME NEW v \in DOMAIN new
       PROVE  /\ v \notin KernelPages
              /\ \E k \in Loadable(file) : \E p \in 0..(E(k) - 1) :
                     v = PageNo(file, k, p) /\ new[v] = Filled(Seg(file, k), p)
  <2>1. CASE v = v0
    BY <1>5, <1>6, <1>7, <2>1 DEF v0, pg
  <2>2. CASE v # v0
    <3>1. v \in DOMAIN img /\ new[v] = img[v]
      BY <1>5, <2>2
    <3>0. PICK k \in Loadable(file) : \E p \in 0..(D(k) - 1) :
              v = PageNo(file, k, p) /\ img[v] = Filled(Seg(file, k), p)
      BY <1>9, <3>1
    <3>2. PICK p \in 0..(D(k) - 1) :
              v = PageNo(file, k, p) /\ img[v] = Filled(Seg(file, k), p)
      BY <3>0
    <3>3. p \in 0..(E(k) - 1)
      BY <1>8, <3>2
    <3> QED
      BY <1>9, <3>1, <3>2, <3>3
  <2> QED
    BY <2>1, <2>2
<1>11. ASSUME NEW k \in Loadable(file), NEW p \in 0..(E(k) - 1)
       PROVE  PageNo(file, k, p) \in DOMAIN new
  <2>1. CASE k = i /\ p = j
    BY <1>5, <2>1 DEF v0
  <2>2. CASE ~(k = i /\ p = j)
    <3>1. p \in 0..(D(k) - 1)
      BY <1>3, <1>7, <2>2
    <3> QED
      BY <1>5, <1>9, <3>1
  <2> QED
    BY <2>1, <2>2
<1>12. ASSUME NEW k \in Loadable(file), NEW p \in 0..(E(k) - 1), k # i
       PROVE  p \in 0..(D(k) - 1) /\ PageNo(file, k, p) # v0
  <2>1. p \in 0..(D(k) - 1)
    BY <1>3, <1>12
  <2> QED
    BY <1>6, <1>9, <2>1
<1>13. ASSUME NEW k \in Loadable(file), NEW l \in Loadable(file),
              NEW p \in 0..(E(k) - 1), NEW q \in 0..(E(l) - 1),
              PageNo(file, k, p) = PageNo(file, l, q)
       PROVE  k = l
  <2>1. CASE k # i /\ l # i
    <3>1. p \in 0..(D(k) - 1) /\ q \in 0..(D(l) - 1)
      BY <1>12, <2>1
    <3> QED
      BY <1>9, <1>13, <3>1
  <2>2. CASE k = i /\ l # i
    <3>1. q \in 0..(D(l) - 1) /\ PageNo(file, l, q) # v0
      BY <1>12, <2>2
    <3>2. p # j
      BY <1>13, <2>2, <3>1 DEF v0
    <3>3. p \in 0..(D(k) - 1)
      BY <1>7, <2>2, <3>2
    <3> QED
      BY <1>9, <1>13, <3>1, <3>3
  <2>3. CASE k # i /\ l = i
    <3>1. p \in 0..(D(k) - 1) /\ PageNo(file, k, p) # v0
      BY <1>12, <2>3
    <3>2. q # j
      BY <1>13, <2>3, <3>1 DEF v0
    <3>3. q \in 0..(D(l) - 1)
      BY <1>7, <2>3, <3>2
    <3> QED
      BY <1>9, <1>13, <3>1, <3>3
  <2> QED
    BY <2>1, <2>2, <2>3
<1>14. SoFar(file, i, j + 1, new)
  BY <1>10, <1>11, <1>13 DEF SoFar, LoadedOnly, LoadedAll, LoadedOnce, E
<1> QED
  BY <1>2, <1>14 DEF new, v0, pg

(***************************************************************************)
(* exec()                                                                  *)
(***************************************************************************)

(* The entries before the trailer are an archive's.                        *)
LEMMA StoredEntries ==
    ASSUME Stored
    PROVE  \E a \in Archives : \A i \in 1..Len(archive) :
               i # Len(archive) => i \in DOMAIN a /\ archive[i] = a[i]
<1>1. PICK a \in Archives : archive = Append(a, Trailing)
  BY DEF Stored
<1>2. a \in Seq(Range(a))
  BY InitrdAssumption
<1>3. Len(a) \in Nat /\ DOMAIN a = 1..Len(a)
  BY <1>2
<1>4. Len(archive) = Len(a) + 1 /\ \A i \in 1..Len(a) : archive[i] = a[i]
  <2> HIDE DEF Trailing
  <2> QED
    BY <1>1, <1>2, <1>3
<1> QED
  BY <1>3, <1>4

(* The file at an address is that of one entry, before the trailer.        *)
LEMMA FileFound ==
    ASSUME Stored, start \in Nat, NEW a, FileAt(a) # NULL
    PROVE  \E i \in 1..Len(archive) :
               /\ DataOf(i) = a /\ FileAt(a) = archive[i].file
               /\ i # Len(archive)
<1> DEFINE N == Len(archive)
           I == {i \in DOMAIN archive : DataOf(i) = a}
<1>1. N \in Nat \ {0} /\ DOMAIN archive = 1..N /\ archive[N] = Trailing
  BY StoredShape
<1>2. I # {} /\ FileAt(a) = archive[Max(I)].file
  BY DEF FileAt
<1>3. PICK i \in 1..N : DataOf(i) = a
  BY <1>1, <1>2
<1>4. ASSUME NEW j \in I PROVE j = i
  <2>1. j \in 1..N /\ DataOf(j) = DataOf(i)
    BY <1>1, <1>3
  <2>2. i \in 1..(N + 1) /\ j \in 1..(N + 1) /\ DataOf(i) \in Nat
    BY <1>1, <2>1, PlacesInArchive
  <2>3. ~(DataOf(j) < DataOf(i)) /\ ~(DataOf(i) < DataOf(j))
    BY <2>1, <2>2
  <2>4. ~(i < j) /\ ~(j < i)
    BY <1>3, <2>1, <2>2, <2>3, HeadersGrow
  <2> QED
    BY <1>1, <2>1, <2>4
<1>5. I \in SUBSET Nat /\ i \in I /\ \A j \in I : j <= i
  <2>1. i \in I /\ i \in Nat
    BY <1>1, <1>3
  <2> HIDE DEF I
  <2> QED
    BY <1>4, <2>1
<1>6. Max(I) = i
  <2> HIDE DEF I
  <2> QED
    BY <1>5, MaxIs
<1>7. FileAt(a) = archive[i].file
  BY <1>2, <1>6
<1>8. i # N
  <2> SUFFICES ASSUME i = N PROVE FALSE
    OBVIOUS
  <2>1. archive[i].file = NULL
    BY <1>1 DEF Trailing
  <2> QED
    BY <1>7, <2>1
<1> QED
  BY <1>3, <1>7, <1>8

(* A file that elf_verify() accepts has the headers of a program.          *)
LEMMA VerifiedFile ==
    ASSUME Stored, start \in Nat, NEW a, NEW size, elf_verify(FileAt(a), size)
    PROVE  SegsOK(FileAt(a)) /\ FileAt(a) # NULL
<1>1. FileAt(a) # NULL /\ IsElf(FileAt(a))
  BY DEF elf_verify
<1>2. PICK i \in 1..Len(archive) : FileAt(a) = archive[i].file /\ i # Len(archive)
  BY <1>1, FileFound
<1>3. PICK b \in Archives : i \in DOMAIN b /\ archive[i] = b[i]
  BY <1>2, StoredEntries
<1>4. FileAt(a) = b[i].file /\ IsElf(b[i].file)
  BY <1>1, <1>2, <1>3
<1>5. SegsOK(b[i].file)
  BY <1>3, <1>4, ElfAssumption DEF SegsOK, SegOK
<1> QED
  BY <1>1, <1>4, <1>5

Named(name) == {i \in DOMAIN archive : archive[i].name = name}

(* In an archive that is not linked at a multiple of 4 no file is found    *)
(* where it is: what the list says is a multiple of 4, and no file is.     *)
LEMMA NothingMisaligned ==
    ASSUME InitrdInv, NEW name, initrd_find(name).data # 0,
           FileAt(initrd_find(name).data) # NULL
    PROVE  start % 4 = 0
<1> SUFFICES ASSUME start % 4 # 0 PROVE FALSE
  OBVIOUS
<1> DEFINE K == {k \in DOMAIN file_list : file_list[k].name = name}
           a == initrd_find(name).data
<1>1. Stored /\ start \in Nat /\ MisalignedWalk
  BY DEF InitrdInv
<1>2. K # {} /\ a = file_list[Min(K)].data
  BY DEF initrd_find
<1>3. file_list = <<First>>
  <2>1. file_list # << >>
    BY <1>2
  <2> QED
    BY <1>1, <2>1 DEF MisalignedWalk
<1>4. a = First.data
  <2>1. DOMAIN file_list = {1} /\ file_list[1] = First
    <3> HIDE DEF First
    <3> QED
      BY <1>3
  <2>2. K \in SUBSET Nat /\ 1 \in K /\ \A k \in K : 1 <= k
    BY <1>2, <2>1
  <2>3. Min(K) = 1
    <3> HIDE DEF K
    <3> QED
      BY <2>2, MinIs
  <2> QED
    BY <1>2, <2>1, <2>3
<1>5. a \in Nat /\ a % 4 = 0
  <2> DEFINE x == start + CPIO_HEADER_SIZE + archive[1].namesize
  <2>1. archive[1].namesize \in Nat
    <3>1. 1 \in 1..Len(archive)
      BY <1>1, StoredShape
    <3> QED
      BY <1>1, <3>1, EntrySizes
  <2>2. x \in Nat
    BY <1>1, <2>1 DEF CPIO_HEADER_SIZE
  <2>3. First.data = align4(x)
    BY DEF First, Listed
  <2> HIDE DEF x, a
  <2> QED
    BY <1>4, <2>2, <2>3, AlignFour
<1>6. PICK l \in 1..Len(archive) : DataOf(l) = a
  BY <1>1, FileFound
<1>7. DataOf(l) = start + DataOffset(l)
  BY DEF DataOf, DataOffset
<1>8. DataOffset(l) \in Nat /\ DataOffset(l) % 4 = 0
  <2> DEFINE y == Layout[l] + CPIO_HEADER_SIZE + archive[l].namesize
  <2>1. Layout[l] \in Nat /\ archive[l].namesize \in Nat
    <3>1. l \in 1..(Len(archive) + 1)
      BY <1>1, StoredShape
    <3> QED
      BY <1>1, <3>1, LayoutNat, EntrySizes
  <2>2. y \in Nat
    BY <2>1 DEF CPIO_HEADER_SIZE
  <2>3. DataOffset(l) = Up4(y)
    BY DEF DataOffset
  <2> HIDE DEF y
  <2> QED
    BY <2>2, <2>3, UpFour
<1> HIDE DEF a
<1> QED
  BY <1>1, <1>5, <1>6, <1>7, <1>8

(* The program that is found is the one stored last under its name.        *)
LEMMA FoundIsLast ==
    ASSUME InitrdInv, walk = "done", NEW name,
           initrd_find(name).data # 0,
           FileAt(initrd_find(name).data) # NULL
    PROVE  FileAt(initrd_find(name).data) = archive[Max(Named(name))].file
<1> DEFINE N == Len(archive)
           a == initrd_find(name).data
<1>0. start % 4 = 0
  BY NothingMisaligned
<1>1. Stored /\ start \in Nat
  BY DEF InitrdInv
<1>2. N \in Nat \ {0} /\ DOMAIN archive = 1..N /\ archive[N] = Trailing
  BY <1>1, StoredShape
<1>3. PICK i \in 1..N : FoundAs(name, i)
  BY <1>0, FindsLast
<1>4. /\ a = DataOf(i) /\ archive[i].name = name /\ Kept(i)
      /\ \A j \in KeptAs(name) : j <= i
  BY <1>3 DEF FoundAs, KeptAs
<1>5. PICK l \in 1..N : DataOf(l) = a /\ FileAt(a) = archive[l].file /\ l # N
  BY <1>1, FileFound
<1> HIDE DEF a
<1>6. l = i
  <2>2. i \in 1..(N + 1) /\ l \in 1..(N + 1) /\ DataOf(i) \in Nat
    BY <1>1, <1>2, PlacesInArchive
  <2>3. ~(DataOf(l) < DataOf(i)) /\ ~(DataOf(i) < DataOf(l))
    BY <1>4, <1>5, <2>2
  <2>4. ~(i < l) /\ ~(l < i)
    BY <1>1, <2>2, <2>3, HeadersGrow
  <2> QED
    BY <1>2, <2>4
<1>7. ASSUME NEW j \in Named(name) PROVE j <= i
  <2>1. j \in 1..N /\ archive[j].name = name
    BY <1>2 DEF Named
  <2>2. SUFFICES Kept(j)
    BY <1>4, <2>1 DEF KeptAs
  <2>3. CASE j = N
    BY <1>2, <2>3 DEF Kept, Trailing, TRAILER
  <2>4. CASE j # N
    <3>1. PICK b \in Archives :
              /\ i \in DOMAIN b /\ archive[i] = b[i]
              /\ j \in DOMAIN b /\ archive[j] = b[j]
      BY <1>1, <1>5, <1>6, <2>1, <2>4, StoredEntries
    <3>2. b[j].namesize = b[i].namesize
      BY <1>4, <2>1, <3>1, InitrdAssumption
    <3> QED
      BY <1>4, <2>1, <3>1, <3>2 DEF Kept
  <2> QED
    BY <2>3, <2>4
<1>8. i \in Named(name) /\ Named(name) \in SUBSET Nat
  BY <1>2, <1>4 DEF Named
<1>9. Max(Named(name)) = i
  BY <1>7, <1>8, MaxIs
<1> QED
  BY <1>5, <1>6, <1>9 DEF a

(* The parts of the invariant.                                             *)
LoadShape ==
    /\ load = [at |-> load.at, name |-> load.name, file |-> load.file,
               i |-> load.i, j |-> load.j]
    /\ load.at \in {"idle", "not found", "invalid", "load", "map failed",
                    "assert", "no memory", "no entry", "stack", "done"}
    /\ load.i \in Nat \ {0} /\ load.j \in Nat
    /\ load.at # "idle" => walk # "on"

(* Past elf_verify(), the file is a program, and the one asked for.        *)
RightFile ==
    load.at \notin {"idle", "not found", "invalid"} =>
        /\ SegsOK(load.file)
        /\ walk = "done" => load.file = archive[Max(Named(load.name))].file

Loading ==
    /\ load.at \in {"load", "stack"} =>
           /\ Within(load.file, load.i, load.j)
           /\ SoFar(load.file, load.i, load.j, image)
    /\ load.at = "stack" => load.i = Len(Segments(load.file)) + 1

ImageType == \A v \in DOMAIN image : image[v] \in [0..(PAGE_SIZE - 1) -> Nat]

(* The pages of a file's segments, and what belongs in pages.              *)
PagesOf(file) == UNION {Covers(Segments(file)[k]) : k \in Loadable(file)}

Holds(file, img) == \A v \in DOMAIN img : \A b \in 0..(PAGE_SIZE - 1) :
                        img[v][b] = Wanted(file, v * PAGE_SIZE + b)

Loaded ==
    load.at = "done" => /\ DOMAIN image = PagesOf(load.file) \union {StackPage}
                        /\ Holds(load.file, image)

ElfInv ==
    /\ InitrdInv
    /\ LoadShape
    /\ RightFile
    /\ Loading
    /\ ImageType
    /\ Loaded
    /\ RefusesOnlyBadFiles

LEMMA ElfInvInit == Init => ElfInv
<1> SUFFICES ASSUME Init PROVE ElfInv
  OBVIOUS
<1>1. InitrdInv
  BY InitrdInvInit DEF Init
<1>2. load = NoLoad /\ image = NoImage /\ load.at = "idle"
  BY DEF Init, NoLoad
<1>3. LoadShape
  BY <1>2 DEF LoadShape, NoLoad
<1>4. RightFile /\ Loading /\ Loaded /\ RefusesOnlyBadFiles
  BY <1>2 DEF RightFile, Loading, Loaded, RefusesOnlyBadFiles
<1>5. ImageType
  BY <1>2 DEF ImageType, NoImage
<1> QED
  BY <1>1, <1>3, <1>4, <1>5 DEF ElfInv

LEMMA ElfInvImplies ==
    ElfInv => TypeOK /\ WalkStaysInside /\ FindsFiles /\ LoadsProgram
              /\ RefusesOnlyBadFiles
<1> SUFFICES ASSUME ElfInv
             PROVE  TypeOK /\ WalkStaysInside /\ FindsFiles /\ LoadsProgram
                    /\ RefusesOnlyBadFiles
  OBVIOUS
<1>1. InitrdInv /\ LoadShape /\ RightFile /\ ImageType /\ Loaded
      /\ RefusesOnlyBadFiles
  BY DEF ElfInv
<1>2. InitrdTypeOK /\ WalkStaysInside /\ FindsFiles
  BY <1>1, InitrdInvInside, InitrdInvFinds
<1>3. TypeOK
  BY <1>1, <1>2 DEF TypeOK, LoadShape, ImageType
<1>4. LoadsProgram
  <2>1. ASSUME load.at = "done", walk = "done"
        PROVE  load.file = archive[Max({i \in DOMAIN archive :
                                           archive[i].name = load.name})].file
    <3>1. load.file = archive[Max(Named(load.name))].file
      BY <1>1, <2>1 DEF RightFile
    <3> QED
      BY <3>1 DEF Named
  <2>2. ASSUME load.at = "done"
        PROVE  DOMAIN image = {StackPage} \union
                              (UNION {Covers(Segments(load.file)[k]) :
                                        k \in Loadable(load.file)})
    <3>1. DOMAIN image = PagesOf(load.file) \union {StackPage}
      BY <1>1, <2>2 DEF Loaded
    <3> QED
      BY <3>1 DEF PagesOf
  <2>3. ASSUME load.at = "done"
        PROVE  \A v \in DOMAIN image : \A b \in 0..(PAGE_SIZE - 1) :
                   image[v][b] = Wanted(load.file, v * PAGE_SIZE + b)
    <3>1. Holds(load.file, image)
      BY <1>1, <2>3 DEF Loaded
    <3> QED
      BY <3>1 DEF Holds
  <2> QED
    BY <2>1, <2>2, <2>3 DEF LoadsProgram
<1> QED
  BY <1>1, <1>2, <1>3, <1>4

(* Steps that leave the archive alone.                                     *)
LEMMA SameArchive ==
    ASSUME InitrdInv, UNCHANGED initrdVars
    PROVE  /\ InitrdInv' /\ start' = start /\ walk' = walk
           /\ archive' = archive /\ \A name : Named(name)' = Named(name)
BY InitrdInvUnchanged DEF initrdVars, Named

LEMMA WalkStep ==
    ASSUME ElfInv, initrd_init, UNCHANGED elfVars
    PROVE  ElfInv'
<1>1. /\ walk = "on" /\ load' = load /\ image' = image
  BY DEF initrd_init, walk_ends, skip_entry, add_file, out_of_memory, elfVars
<1>2. load.at = "idle"
  BY <1>1 DEF ElfInv, LoadShape
<1>3. InitrdInv'
  BY InitrdInvStep DEF ElfInv
<1>4. LoadShape'
  BY <1>1, <1>2 DEF ElfInv, LoadShape
<1>5. RightFile' /\ Loading' /\ Loaded' /\ RefusesOnlyBadFiles'
  BY <1>1, <1>2 DEF RightFile, Loading, Loaded, RefusesOnlyBadFiles
<1>6. ImageType'
  BY <1>1 DEF ElfInv, ImageType
<1> QED
  BY <1>3, <1>4, <1>5, <1>6 DEF ElfInv

LEMMA ExecStep ==
    ASSUME ElfInv, NEW name, sys_exec(name)
    PROVE  ElfInv'
<1> DEFINE f == initrd_find(name)
           file == FileAt(f.data)
<1>1. InitrdInv /\ Stored /\ start \in Nat /\ walk # "on"
  BY DEF ElfInv, InitrdInv, sys_exec
<1>2. /\ InitrdInv' /\ start' = start /\ walk' = walk
      /\ archive' = archive /\ \A nm : Named(nm)' = Named(nm)
  BY <1>1, SameArchive DEF sys_exec
<1>3. image' = NoImage
  BY DEF sys_exec
<1>4. ImageType'
  BY <1>3 DEF ImageType, NoImage
<1>5. CASE f.data = 0
  <2>1. load' = [NoLoad EXCEPT !.at = "not found", !.name = name]
    BY <1>5 DEF sys_exec
  <2> HIDE DEF file, f
  <2>2. LoadShape' /\ load'.at = "not found"
    <3>1. load' = [at |-> "not found", name |-> name, file |-> NULL, i |-> 1, j |-> 0]
      BY <2>1 DEF NoLoad
    <3>2. walk' # "on"
      BY <1>1, <1>2
    <3>3. /\ load'.at = "not found" /\ load'.name = name /\ load'.file = NULL
          /\ load'.i = 1 /\ load'.j = 0
      BY <3>1
    <3>4. load' = [at |-> load'.at, name |-> load'.name, file |-> load'.file,
                   i |-> load'.i, j |-> load'.j]
      BY <3>1, <3>3
    <3>5. load'.i \in Nat \ {0} /\ load'.j \in Nat
      <4>1. load'.i = 1 /\ load'.j = 0
        BY <3>3
      <4> QED
        BY <4>1
    <3>6. load'.at \in {"idle", "not found", "invalid", "load", "map failed",
                        "assert", "no memory", "no entry", "stack", "done"}
      <4>1. load'.at = "not found"
        BY <3>3
      <4> QED
        BY <4>1
    <3> QED
      BY <3>2, <3>3, <3>4, <3>5, <3>6 DEF LoadShape
  <2>3. RightFile' /\ Loading' /\ Loaded' /\ RefusesOnlyBadFiles'
    BY <2>2 DEF RightFile, Loading, Loaded, RefusesOnlyBadFiles
  <2> QED
    BY <1>2, <1>4, <2>2, <2>3 DEF ElfInv
<1>6. CASE f.data # 0 /\ ~elf_verify(file, f.size)
  <2>1. load' = [NoLoad EXCEPT !.at = "invalid", !.name = name, !.file = file]
    BY <1>6 DEF sys_exec
  <2> HIDE DEF file, f
  <2>2. LoadShape' /\ load'.at = "invalid"
    <3>1. load' = [at |-> "invalid", name |-> name, file |-> file, i |-> 1, j |-> 0]
      BY <2>1 DEF NoLoad
    <3>2. walk' # "on"
      BY <1>1, <1>2
    <3>3. /\ load'.at = "invalid" /\ load'.name = name /\ load'.file = file
          /\ load'.i = 1 /\ load'.j = 0
      BY <3>1
    <3>4. load' = [at |-> load'.at, name |-> load'.name, file |-> load'.file,
                   i |-> load'.i, j |-> load'.j]
      BY <3>1, <3>3
    <3> QED
      BY <3>2, <3>3, <3>4 DEF LoadShape
  <2>3. RightFile' /\ Loading' /\ Loaded' /\ RefusesOnlyBadFiles'
    BY <2>2 DEF RightFile, Loading, Loaded, RefusesOnlyBadFiles
  <2> QED
    BY <1>2, <1>4, <2>2, <2>3 DEF ElfInv
<1>7. CASE f.data # 0 /\ elf_verify(file, f.size)
  <2>1. load' = [NoLoad EXCEPT !.at = "load", !.name = name, !.file = file]
    BY <1>7 DEF sys_exec
  <2>2. SegsOK(file) /\ file # NULL
    BY <1>1, <1>7, VerifiedFile
  <2>3. walk = "done" => file = archive[Max(Named(name))].file
    BY <1>1, <1>7, <2>2, FoundIsLast
  <2> HIDE DEF file, f
  <2>4. /\ LoadShape' /\ load'.at = "load" /\ load'.file = file
        /\ load'.name = name /\ load'.i = 1 /\ load'.j = 0
    <3>1. load' = [at |-> "load", name |-> name, file |-> file, i |-> 1, j |-> 0]
      BY <2>1 DEF NoLoad
    <3>2. walk' # "on"
      BY <1>1, <1>2
    <3>3. /\ load'.at = "load" /\ load'.name = name /\ load'.file = file
          /\ load'.i = 1 /\ load'.j = 0
      BY <3>1
    <3>4. load' = [at |-> load'.at, name |-> load'.name, file |-> load'.file,
                   i |-> load'.i, j |-> load'.j]
      BY <3>1, <3>3
    <3> QED
      BY <3>2, <3>3, <3>4 DEF LoadShape
  <2>5. RightFile'
    BY <1>2, <2>2, <2>3, <2>4 DEF RightFile
  <2>6. Loading'
    BY <1>3, <2>2, <2>4, SoFarInit DEF Loading
  <2>7. Loaded' /\ RefusesOnlyBadFiles'
    BY <2>4 DEF Loaded, RefusesOnlyBadFiles
  <2> QED
    BY <1>2, <1>4, <2>4, <2>5, <2>6, <2>7 DEF ElfInv
<1> QED
  BY <1>5, <1>6, <1>7

(* What stays as it is while exec() goes on with a file.                   *)
LEMMA SameFile ==
    ASSUME ElfInv, UNCHANGED initrdVars,
           load.at \notin {"idle", "not found", "invalid"},
           load'.file = load.file, load'.name = load.name
    PROVE  InitrdInv' /\ RightFile' /\ SegsOK(load.file) /\ walk' # "on"
<1>1. InitrdInv /\ RightFile /\ LoadShape
  BY DEF ElfInv
<1>2. /\ InitrdInv' /\ start' = start /\ walk' = walk
      /\ archive' = archive /\ \A nm : Named(nm)' = Named(nm)
  BY <1>1, SameArchive
<1>3. RightFile' /\ SegsOK(load.file)
  BY <1>1, <1>2 DEF RightFile
<1> QED
  BY <1>1, <1>2, <1>3 DEF LoadShape

LEMMA NextStep ==
    ASSUME ElfInv, elf_load_next
    PROVE  ElfInv'
<1>1. /\ load.at = "load" /\ image' = image /\ UNCHANGED initrdVars
  BY DEF elf_load_next
<1>2. LoadShape /\ Loading /\ ImageType
  BY DEF ElfInv
<1> DEFINE file == load.file
           n == Len(Segments(file))
<1>3. Within(file, load.i, load.j) /\ SoFar(file, load.i, load.j, image)
  BY <1>1, <1>2 DEF Loading
<1>4. ImageType'
  BY <1>1, <1>2 DEF ImageType
<1>5. CASE load.i > n
  <2>1. load' = [load EXCEPT !.at = IF EntryOf(file) = 0 THEN "no entry" ELSE "stack"]
    <3>1. ~(load.i <= n)
      <4>1. load.i \in Nat /\ n \in Nat
        BY <1>1, <1>2, LoadableSegs DEF LoadShape, ElfInv, RightFile
      <4> QED
        BY <1>5, <4>1
    <3> QED
      BY <3>1 DEF elf_load_next
  <2>2. /\ load'.file = load.file /\ load'.name = load.name
        /\ load'.i = load.i /\ load'.j = load.j
        /\ load'.at \in {"no entry", "stack"}
        /\ load' = [at |-> load'.at, name |-> load'.name, file |-> load'.file,
                    i |-> load'.i, j |-> load'.j]
    BY <1>2, <2>1 DEF LoadShape
  <2>3. InitrdInv' /\ RightFile' /\ SegsOK(file) /\ walk' # "on"
    BY <1>1, <2>2, SameFile
  <2>4. LoadShape'
    BY <1>2, <2>2, <2>3 DEF LoadShape
  <2>5. Loading'
    <3>1. load.i = n + 1
      <4>1. n \in Nat /\ load.i \in 1..(n + 1)
        BY <1>3, <2>3, LoadableSegs DEF Within
      <4> QED
        BY <1>5, <4>1
    <3> QED
      BY <1>1, <1>3, <2>2, <3>1 DEF Loading
  <2>6. Loaded' /\ RefusesOnlyBadFiles'
    BY <2>2 DEF Loaded, RefusesOnlyBadFiles
  <2> QED
    BY <1>4, <2>3, <2>4, <2>5, <2>6 DEF ElfInv
<1>6. CASE ~(load.i > n)
  <2>1. /\ load.i <= n
        /\ Segment.type # "LOAD" \/ load.j >= nr_pages(Segment)
        /\ load' = [load EXCEPT !.i = @ + 1, !.j = 0]
    BY <1>6 DEF elf_load_next
  <2>2. /\ load'.file = load.file /\ load'.name = load.name
        /\ load'.i = load.i + 1 /\ load'.j = 0 /\ load'.at = "load"
        /\ load' = [at |-> load'.at, name |-> load'.name, file |-> load'.file,
                    i |-> load'.i, j |-> load'.j]
    BY <1>1, <1>2, <2>1 DEF LoadShape
  <2>3. InitrdInv' /\ RightFile' /\ SegsOK(file) /\ walk' # "on"
    BY <1>1, <2>2, SameFile
  <2>4. LoadShape'
    <3>0. load.i \in Nat
      BY <1>2 DEF LoadShape
    <3>1. load'.i \in Nat \ {0} /\ load'.j \in Nat
      BY <2>2, <3>0
    <3> QED
      BY <2>2, <2>3, <3>1 DEF LoadShape
  <2>5. Loading'
    <3>1. load.i \notin Loadable(file) \/ load.j >= nr_pages(Seg(file, load.i))
      BY <2>1 DEF Segment, Seg, Loadable
    <3>2. SoFar(file, load.i + 1, 0, image) /\ Within(file, load.i + 1, 0)
      BY <1>3, <2>1, <2>3, <3>1, SoFarNext
    <3> QED
      BY <1>1, <2>2, <3>2 DEF Loading
  <2>6. Loaded' /\ RefusesOnlyBadFiles'
    BY <2>2 DEF Loaded, RefusesOnlyBadFiles
  <2> QED
    BY <1>4, <2>3, <2>4, <2>5, <2>6 DEF ElfInv
<1> QED
  BY <1>5, <1>6

(* A page that cannot be mapped belongs to the segment being loaded.       *)
LEMMA AssertStep ==
    ASSUME ElfInv, elf_load_asserts
    PROVE  ElfInv'
<1> DEFINE file == load.file
           i == load.i
           j == load.j
           v == PageNo(file, i, j)
<1>1. /\ load.at = "load" /\ UNCHANGED initrdVars /\ i <= Len(Segments(file))
      /\ Seg(file, i).type = "LOAD" /\ j < nr_pages(Seg(file, i))
      /\ image' = image /\ load' = [load EXCEPT !.at = "assert"]
  BY DEF elf_load_asserts, Segment, Seg
<1>2. LoadShape /\ Loading /\ ImageType /\ SegsOK(file)
  BY <1>1 DEF ElfInv, RightFile
<1>3. Within(file, i, j) /\ j \in Nat
  BY <1>1, <1>2 DEF Loading, Within
<1>4. i \in Loadable(file)
  <2>1. /\ Len(Segments(file)) \in Nat
        /\ DOMAIN Segments(file) = 1..Len(Segments(file))
    BY <1>2, LoadableSegs
  <2>2. i \in 1..Len(Segments(file))
    BY <1>1, <1>3, <2>1 DEF Within
  <2> QED
    BY <1>1, <2>1, <2>2 DEF Loadable, Seg
<1>5. v \in Covers(Seg(file, i))
  <2>1. nr_pages(Seg(file, i)) \in Nat
    BY <1>2, <1>4, LoadableSegs
  <2>2. j \in 0..(nr_pages(Seg(file, i)) - 1)
    BY <1>1, <1>3, <2>1
  <2> QED
    BY <1>2, <1>3, <1>4, <2>2, PagesOfSegment
<1>6. ~InRange(v)
  <2>1. VPage = v
    BY DEF VPage, Segment, PageNo, Seg
  <2> QED
    BY <2>1 DEF elf_load_asserts
<1>7. /\ load'.file = load.file /\ load'.name = load.name
      /\ load'.i = load.i /\ load'.j = load.j /\ load'.at = "assert"
      /\ load' = [at |-> load'.at, name |-> load'.name, file |-> load'.file,
                  i |-> load'.i, j |-> load'.j]
  BY <1>1, <1>2 DEF LoadShape
<1>8. InitrdInv' /\ RightFile' /\ walk' # "on"
  BY <1>1, <1>7, SameFile
<1>9. LoadShape'
  BY <1>2, <1>7, <1>8 DEF LoadShape
<1>10. ImageType' /\ Loading' /\ Loaded'
  BY <1>1, <1>2, <1>7 DEF ImageType, Loading, Loaded
<1>11. RefusesOnlyBadFiles'
  <2> HIDE DEF v
  <2> QED
    BY <1>4, <1>5, <1>6, <1>7 DEF RefusesOnlyBadFiles, Seg
<1> QED
  BY <1>8, <1>9, <1>10, <1>11 DEF ElfInv

LEMMA PageStep ==
    ASSUME ElfInv, elf_load_page
    PROVE  ElfInv'
<1> DEFINE file == load.file
           i == load.i
           j == load.j
           pg == Filled(Seg(file, i), j)
<1>1. /\ load.at = "load" /\ UNCHANGED initrdVars /\ i <= Len(Segments(file))
      /\ Seg(file, i).type = "LOAD" /\ j < nr_pages(Seg(file, i))
  BY DEF elf_load_page, Segment, Seg
<1>2. LoadShape /\ Loading /\ ImageType /\ SegsOK(file)
  BY <1>1 DEF ElfInv, RightFile
<1>3. Within(file, i, j) /\ SoFar(file, i, j, image) /\ j \in Nat
  BY <1>1, <1>2 DEF Loading, Within
<1>4. i \in Loadable(file) /\ SegOK(Seg(file, i))
  <2>1. /\ Len(Segments(file)) \in Nat
        /\ DOMAIN Segments(file) = 1..Len(Segments(file))
    BY <1>2, LoadableSegs
  <2>2. i \in 1..Len(Segments(file))
    BY <1>1, <1>3, <2>1 DEF Within
  <2>3. i \in Loadable(file)
    BY <1>1, <2>1, <2>2 DEF Loadable, Seg
  <2> QED
    BY <1>2, <2>3, LoadableSegs
<1>5. VPage = PageNo(file, i, j) /\ Filled(Segment, load.j) = pg
  BY DEF VPage, Segment, PageNo, Seg
<1>6. CASE pgtable_map_ok(VPage)
  <2>1. load' = [load EXCEPT !.j = @ + 1] /\ image' = With(VPage, pg)
    BY <1>5, <1>6 DEF elf_load_page
  <2>2. /\ load'.file = load.file /\ load'.name = load.name
        /\ load'.i = load.i /\ load'.j = load.j + 1 /\ load'.at = "load"
        /\ load' = [at |-> load'.at, name |-> load'.name, file |-> load'.file,
                    i |-> load'.i, j |-> load'.j]
    BY <1>1, <1>2, <2>1 DEF LoadShape
  <2>3. InitrdInv' /\ RightFile' /\ walk' # "on"
    BY <1>1, <2>2, SameFile
  <2>4. LoadShape'
    <3>1. load'.i \in Nat \ {0} /\ load'.j \in Nat
      <4>1. load.i \in Nat \ {0} /\ load.j \in Nat
        BY <1>2 DEF LoadShape
      <4> QED
        BY <2>2, <4>1
    <3> QED
      BY <2>2, <2>3, <3>1 DEF LoadShape
  <2>5. image' = Mapped(image, PageNo(file, i, j), pg)
    BY <1>5, <2>1 DEF With, Mapped
  <2>6. Loading'
    <3>1. PageNo(file, i, j) \notin DOMAIN image \union KernelPages
      BY <1>5, <1>6 DEF pgtable_map_ok
    <3>2. SoFar(file, i, j + 1, image') /\ Within(file, i, j + 1)
      BY <1>1, <1>2, <1>3, <1>4, <2>5, <3>1, SoFarPage
    <3> QED
      BY <2>2, <3>2 DEF Loading
  <2>7. ImageType'
    <3>1. pg \in [0..(PAGE_SIZE - 1) -> Nat]
      BY <1>3, <1>4, FilledType
    <3> HIDE DEF pg
    <3> QED
      BY <1>2, <2>5, <3>1 DEF ImageType, Mapped
  <2>8. Loaded' /\ RefusesOnlyBadFiles'
    BY <2>2 DEF Loaded, RefusesOnlyBadFiles
  <2> QED
    BY <2>3, <2>4, <2>6, <2>7, <2>8 DEF ElfInv
<1>7. CASE ~pgtable_map_ok(VPage)
  <2>1. load' = [load EXCEPT !.at = "map failed"] /\ image' = image
    BY <1>7 DEF elf_load_page
  <2>2. /\ load'.file = load.file /\ load'.name = load.name
        /\ load'.i = load.i /\ load'.j = load.j /\ load'.at = "map failed"
        /\ load' = [at |-> load'.at, name |-> load'.name, file |-> load'.file,
                    i |-> load'.i, j |-> load'.j]
    BY <1>1, <1>2, <2>1 DEF LoadShape
  <2>3. InitrdInv' /\ RightFile' /\ walk' # "on"
    BY <1>1, <2>2, SameFile
  <2>4. LoadShape'
    BY <1>2, <2>2, <2>3 DEF LoadShape
  <2>5. ImageType' /\ Loading' /\ Loaded'
    BY <1>2, <2>1, <2>2 DEF ImageType, Loading, Loaded
  <2> DEFINE v == PageNo(file, i, j)
  <2>6. v \in Covers(Seg(file, i)) /\ v = FirstPage(Seg(file, i)) + j
    <3>1. nr_pages(Seg(file, i)) \in Nat
      BY <1>2, <1>4, LoadableSegs
    <3>2. j \in 0..(nr_pages(Seg(file, i)) - 1)
      BY <1>1, <1>3, <3>1
    <3> QED
      BY <1>2, <1>3, <1>4, <3>2, PagesOfSegment
  <2>7. CASE v \in KernelPages
    <3>1. Covers(Seg(file, i)) \intersect (KernelPages \union {StackPage}) # {}
      BY <2>6, <2>7
    <3> QED
      BY <1>4, <2>2, <2>3, <2>4, <2>5, <3>1 DEF ElfInv, RefusesOnlyBadFiles, Seg
  <2>8. CASE v \in DOMAIN image
    <3>1. PICK k \in Loadable(file) : \E p \in 0..(DoneOf(file, i, j, k) - 1) :
              v = PageNo(file, k, p)
      BY <1>3, <2>8 DEF SoFar, LoadedOnly
    <3>2. PICK p \in 0..(DoneOf(file, i, j, k) - 1) : v = PageNo(file, k, p)
      BY <3>1
    <3>3. /\ nr_pages(Seg(file, k)) \in Nat
          /\ DoneOf(file, i, j, k) \in 0..nr_pages(Seg(file, k))
      BY <1>2, <1>3, DoneBounds, LoadableSegs
    <3>4. p \in 0..(nr_pages(Seg(file, k)) - 1) /\ p \in Nat
      BY <3>3
    <3>5. v \in Covers(Seg(file, k)) /\ v = FirstPage(Seg(file, k)) + p
      BY <1>2, <3>2, <3>4, PagesOfSegment
    <3>6. k # i
      <4> SUFFICES ASSUME k = i PROVE FALSE
        OBVIOUS
      <4>0. i \in Nat
        BY <1>2 DEF LoadShape
      <4>1. DoneOf(file, i, j, i) = j
        BY <4>0 DEF DoneOf
      <4>2. FirstPage(Seg(file, i)) \in Nat /\ p < j
        BY <1>2, <1>3, <1>4, <4>1, LoadableSegs
      <4>3. FirstPage(Seg(file, i)) + p = FirstPage(Seg(file, i)) + j
        BY <2>6, <3>5
      <4> QED
        BY <1>3, <3>4, <4>2, <4>3
    <3>7. Covers(Seg(file, k)) \intersect Covers(Seg(file, i)) # {}
      BY <2>6, <3>5
    <3>8. RefusesOnlyBadFiles'
      BY <1>4, <2>2, <3>6, <3>7 DEF RefusesOnlyBadFiles, Seg
    <3> QED
      BY <2>3, <2>4, <2>5, <3>8 DEF ElfInv
  <2> QED
    BY <1>5, <1>7, <2>7, <2>8 DEF pgtable_map_ok
<1> QED
  BY <1>6, <1>7

(* When all segments are done, their pages are what is mapped.             *)
LEMMA AllSegments ==
    ASSUME NEW file, SegsOK(file), NEW j, NEW img,
           SoFar(file, Len(Segments(file)) + 1, j, img)
    PROVE  /\ DOMAIN img = PagesOf(file) /\ Holds(file, img)
           /\ \A v \in DOMAIN img : v \notin KernelPages
<1> DEFINE i == Len(Segments(file)) + 1
<1>1. \A k \in Loadable(file) : DoneOf(file, i, j, k) = nr_pages(Seg(file, k))
  <2> SUFFICES ASSUME NEW k \in Loadable(file)
               PROVE  DoneOf(file, i, j, k) = nr_pages(Seg(file, k))
    OBVIOUS
  <2>1. Len(Segments(file)) \in Nat /\ k \in 1..Len(Segments(file))
    BY LoadableSegs
  <2>2. k < i
    BY <2>1
  <2> QED
    BY <2>2 DEF DoneOf
<1> HIDE DEF i
<1>2. \A v \in DOMAIN img :
          /\ v \notin KernelPages
          /\ \E k \in Loadable(file) : \E p \in 0..(nr_pages(Seg(file, k)) - 1) :
                 v = PageNo(file, k, p) /\ img[v] = Filled(Seg(file, k), p)
  BY <1>1 DEF SoFar, LoadedOnly, i
<1>3. \A k \in Loadable(file) : \A p \in 0..(nr_pages(Seg(file, k)) - 1) :
          PageNo(file, k, p) \in DOMAIN img
  BY <1>1 DEF SoFar, LoadedAll, i
<1>4. \A k, l \in Loadable(file) :
          \A p \in 0..(nr_pages(Seg(file, k)) - 1),
             q \in 0..(nr_pages(Seg(file, l)) - 1) :
              PageNo(file, k, p) = PageNo(file, l, q) => k = l
  BY <1>1 DEF SoFar, LoadedOnce, i
<1>5. ASSUME NEW k \in Loadable(file), NEW v \in Covers(Seg(file, k))
      PROVE  v \in DOMAIN img
  BY <1>3, PagesOfSegment
<1>6. ASSUME NEW v \in DOMAIN img
      PROVE  \E k \in Loadable(file) : v \in Covers(Seg(file, k))
  BY <1>2, PagesOfSegment
<1>7. DOMAIN img = PagesOf(file)
  <2>1. \A v : v \in DOMAIN img <=>
            \E k \in Loadable(file) : v \in Covers(Segments(file)[k])
    BY <1>5, <1>6 DEF Seg
  <2> QED
    BY <2>1 DEF PagesOf
<1>8. ASSUME NEW v \in DOMAIN img, NEW b \in 0..(PAGE_SIZE - 1)
      PROVE  img[v][b] = Wanted(file, v * PAGE_SIZE + b)
  <2>1. PICK k \in Loadable(file) : \E p \in 0..(nr_pages(Seg(file, k)) - 1) :
            v = PageNo(file, k, p) /\ img[v] = Filled(Seg(file, k), p)
    BY <1>2
  <2>2. PICK p \in 0..(nr_pages(Seg(file, k)) - 1) :
            v = PageNo(file, k, p) /\ img[v] = Filled(Seg(file, k), p)
    BY <2>1
  <2>3. p \in Nat
    BY PagesOfSegment
  <2>4. v = FirstPage(Seg(file, k)) + p /\ v \in Nat
    BY <2>2, <2>3, PagesOfSegment
  <2>5. \A l \in Loadable(file) : v \in Covers(Seg(file, l)) => l = k
    <3> SUFFICES ASSUME NEW l \in Loadable(file), v \in Covers(Seg(file, l))
                 PROVE  l = k
      OBVIOUS
    <3>1. PICK q \in 0..(nr_pages(Seg(file, l)) - 1) : v = PageNo(file, l, q)
      BY PagesOfSegment
    <3> QED
      BY <1>4, <2>2, <3>1
  <2>6. SegOK(Seg(file, k)) /\ v \in Int
    BY <2>4, LoadableSegs
  <2>7. Filled(Seg(file, k), p)[b] = ByteAt(Seg(file, k), v * PAGE_SIZE + b)
    BY <2>3, <2>4, <2>6, FilledIsWanted
  <2>8. Wanted(file, v * PAGE_SIZE + b) = ByteAt(Seg(file, k), v * PAGE_SIZE + b)
    BY <2>5, <2>6, WantedIs
  <2> QED
    BY <2>2, <2>7, <2>8
<1>9. Holds(file, img)
  BY <1>8 DEF Holds
<1> QED
  BY <1>2, <1>7, <1>9

LEMMA StackStep ==
    ASSUME ElfInv, exec_stack
    PROVE  ElfInv'
<1> DEFINE file == load.file
           zero == [b \in 0..(PAGE_SIZE - 1) |-> 0]
<1>1. load.at = "stack" /\ UNCHANGED initrdVars
  BY DEF exec_stack
<1>2. LoadShape /\ Loading /\ ImageType /\ SegsOK(file)
  BY <1>1 DEF ElfInv, RightFile
<1>3. SoFar(file, Len(Segments(file)) + 1, load.j, image)
  BY <1>1, <1>2 DEF Loading
<1>4. /\ DOMAIN image = PagesOf(file) /\ Holds(file, image)
      /\ \A v \in DOMAIN image : v \notin KernelPages
  BY <1>2, <1>3, AllSegments
<1>5. StackPage \in Nat /\ StackPage \notin KernelPages
  BY ElfAssumption
<1>6. CASE pgtable_map_ok(StackPage)
  <2>1. load' = [load EXCEPT !.at = "done"] /\ image' = With(StackPage, zero)
    BY <1>6 DEF exec_stack
  <2>2. /\ load'.file = load.file /\ load'.name = load.name
        /\ load'.i = load.i /\ load'.j = load.j /\ load'.at = "done"
        /\ load' = [at |-> load'.at, name |-> load'.name, file |-> load'.file,
                    i |-> load'.i, j |-> load'.j]
    BY <1>1, <1>2, <2>1 DEF LoadShape
  <2>3. InitrdInv' /\ RightFile' /\ walk' # "on"
    BY <1>1, <2>2, SameFile
  <2>4. LoadShape'
    BY <1>2, <2>2, <2>3 DEF LoadShape
  <2>5. StackPage \notin DOMAIN image
    BY <1>6 DEF pgtable_map_ok
  <2>6. /\ DOMAIN image' = DOMAIN image \union {StackPage}
        /\ image'[StackPage] = zero
        /\ \A v \in DOMAIN image : image'[v] = image[v]
    BY <2>1, <2>5 DEF With
  <2>7. zero \in [0..(PAGE_SIZE - 1) -> Nat]
    OBVIOUS
  <2>8. ImageType'
    <3> HIDE DEF zero
    <3> QED
      BY <1>2, <2>6, <2>7 DEF ImageType
  <2>9. \A b \in 0..(PAGE_SIZE - 1) : Wanted(file, StackPage * PAGE_SIZE + b) = 0
    <3>1. \A k \in Loadable(file) : StackPage \notin Covers(Seg(file, k))
      BY <1>4, <2>5 DEF Seg, PagesOf
    <3>2. StackPage \in Int
      BY <1>5
    <3> QED
      BY <1>2, <3>1, <3>2, WantedIs
  <2>10. Loaded'
    <3>1. \A b \in 0..(PAGE_SIZE - 1) :
              image'[StackPage][b] = Wanted(file, StackPage * PAGE_SIZE + b)
      BY <2>6, <2>9
    <3>2. Holds(file, image')
      BY <1>4, <2>6, <3>1 DEF Holds
    <3> QED
      BY <1>4, <2>2, <2>6, <3>2 DEF Loaded
  <2>11. Loading' /\ RefusesOnlyBadFiles'
    BY <2>2 DEF Loading, RefusesOnlyBadFiles
  <2> QED
    BY <2>3, <2>4, <2>8, <2>10, <2>11 DEF ElfInv
<1>7. CASE ~pgtable_map_ok(StackPage)
  <2>1. load' = [load EXCEPT !.at = "map failed"] /\ image' = image
    BY <1>7 DEF exec_stack
  <2>2. /\ load'.file = load.file /\ load'.name = load.name
        /\ load'.i = load.i /\ load'.j = load.j /\ load'.at = "map failed"
        /\ load' = [at |-> load'.at, name |-> load'.name, file |-> load'.file,
                    i |-> load'.i, j |-> load'.j]
    BY <1>1, <1>2, <2>1 DEF LoadShape
  <2>3. InitrdInv' /\ RightFile' /\ walk' # "on"
    BY <1>1, <2>2, SameFile
  <2>4. LoadShape'
    BY <1>2, <2>2, <2>3 DEF LoadShape
  <2>5. ImageType' /\ Loading' /\ Loaded'
    BY <1>2, <2>1, <2>2 DEF ImageType, Loading, Loaded
  <2>6. PICK k \in Loadable(file) : StackPage \in Covers(Segments(file)[k])
    BY <1>4, <1>5, <1>7 DEF pgtable_map_ok, PagesOf
  <2>7. Covers(Segments(file)[k]) \intersect (KernelPages \union {StackPage}) # {}
    BY <2>6
  <2>8. RefusesOnlyBadFiles'
    BY <2>2, <2>7 DEF RefusesOnlyBadFiles
  <2> QED
    BY <2>3, <2>4, <2>5, <2>8 DEF ElfInv
<1> QED
  BY <1>6, <1>7

LEMMA NoMemoryStep ==
    ASSUME ElfInv, exec_out_of_memory
    PROVE  ElfInv'
<1>1. /\ load.at \in {"load", "stack"} /\ UNCHANGED initrdVars /\ image' = image
      /\ load' = [load EXCEPT !.at = "no memory"]
  BY DEF exec_out_of_memory
<1>2. LoadShape /\ ImageType
  BY DEF ElfInv
<1>3. /\ load'.file = load.file /\ load'.name = load.name
      /\ load'.i = load.i /\ load'.j = load.j /\ load'.at = "no memory"
      /\ load' = [at |-> load'.at, name |-> load'.name, file |-> load'.file,
                  i |-> load'.i, j |-> load'.j]
  BY <1>1, <1>2 DEF LoadShape
<1>4. InitrdInv' /\ RightFile' /\ walk' # "on"
  BY <1>1, <1>3, SameFile
<1>5. LoadShape'
  BY <1>2, <1>3, <1>4 DEF LoadShape
<1>6. ImageType' /\ Loading' /\ Loaded' /\ RefusesOnlyBadFiles'
  BY <1>1, <1>2, <1>3 DEF ImageType, Loading, Loaded, RefusesOnlyBadFiles
<1> QED
  BY <1>4, <1>5, <1>6 DEF ElfInv

LEMMA ReturnStep ==
    ASSUME ElfInv, exec_returns
    PROVE  ElfInv'
<1>1. load' = NoLoad /\ image' = NoImage /\ UNCHANGED initrdVars
  BY DEF exec_returns
<1>2. load'.at = "idle"
  BY <1>1 DEF NoLoad
<1>3. InitrdInv'
  BY <1>1, SameArchive DEF ElfInv
<1>4. LoadShape'
  BY <1>1 DEF LoadShape, NoLoad
<1>5. RightFile' /\ Loading' /\ Loaded' /\ RefusesOnlyBadFiles'
  BY <1>2 DEF RightFile, Loading, Loaded, RefusesOnlyBadFiles
<1>6. ImageType'
  BY <1>1 DEF ImageType, NoImage
<1> QED
  BY <1>3, <1>4, <1>5, <1>6 DEF ElfInv

LEMMA StutterStep ==
    ASSUME ElfInv, UNCHANGED vars
    PROVE  ElfInv'
<1>1. UNCHANGED initrdVars /\ load' = load /\ image' = image
  BY DEF vars, elfVars
<1>2. InitrdInv /\ LoadShape /\ RightFile
  BY DEF ElfInv
<1>3. /\ InitrdInv' /\ start' = start /\ walk' = walk
      /\ archive' = archive /\ \A nm : Named(nm)' = Named(nm)
  BY <1>1, <1>2, SameArchive
<1>4. LoadShape'
  BY <1>1, <1>2, <1>3 DEF LoadShape
<1>5. RightFile'
  BY <1>1, <1>2, <1>3 DEF RightFile
<1>6. ImageType' /\ Loading' /\ Loaded' /\ RefusesOnlyBadFiles'
  <2>1. ImageType /\ Loading /\ Loaded /\ RefusesOnlyBadFiles
    BY DEF ElfInv
  <2>2. ImageType'
    BY <1>1, <2>1 DEF ImageType
  <2>3. Loading'
    BY <1>1, <2>1 DEF Loading
  <2>4. Loaded'
    BY <1>1, <2>1 DEF Loaded
  <2>5. RefusesOnlyBadFiles'
    BY <1>1, <2>1 DEF RefusesOnlyBadFiles
  <2> QED
    BY <2>2, <2>3, <2>4, <2>5
<1> QED
  BY <1>3, <1>4, <1>5, <1>6 DEF ElfInv

(* The invariant that the other theorems rest on: the walk has come to the *)
(* header of an entry and has listed the entries before it, and while      *)
(* elf_load() runs the page table maps the pages of the segments so far,   *)
(* each once and filled from its segment.                                  *)
THEOREM ElfInvariant == Spec => []ElfInv
<1>1. ElfInv /\ [Next]_vars => ElfInv'
  <2> SUFFICES ASSUME ElfInv, [Next]_vars PROVE ElfInv'
    OBVIOUS
  <2>1. CASE initrd_init /\ UNCHANGED elfVars
    BY <2>1, WalkStep
  <2>2. ASSUME NEW i \in DOMAIN archive, sys_exec(archive[i].name) PROVE ElfInv'
    BY <2>2, ExecStep
  <2>3. CASE sys_exec("no such file")
    BY <2>3, ExecStep
  <2>4. CASE elf_load_next
    BY <2>4, NextStep
  <2>5. CASE elf_load_page
    BY <2>5, PageStep
  <2>10. CASE elf_load_asserts
    BY <2>10, AssertStep
  <2>11. CASE Stopped
    BY <2>11, StutterStep DEF Stopped
  <2>6. CASE exec_stack
    BY <2>6, StackStep
  <2>7. CASE exec_out_of_memory
    BY <2>7, NoMemoryStep
  <2>8. CASE exec_returns
    BY <2>8, ReturnStep
  <2>9. CASE UNCHANGED vars
    BY <2>9, StutterStep
  <2> QED
    BY <2>1, <2>2, <2>3, <2>4, <2>5, <2>6, <2>7, <2>8, <2>9, <2>10,
       <2>11 DEF Next
<1> QED
  BY <1>1, ElfInvInit, PTL DEF Spec

(* Every value is of its type; in particular elf_load() copies nothing     *)
(* beyond the end of a page.                                               *)
THEOREM ElfTypeCorrect == Spec => []TypeOK
BY ElfInvariant, ElfInvImplies, PTL

(* initrd_init() reads nothing outside the archive, for any archive that   *)
(* cpio may write and wherever it is linked, and stores no name that is    *)
(* too long.                                                               *)
THEOREM InitrdWalkStaysInside == Spec => []WalkStaysInside
BY ElfInvariant, ElfInvImplies, PTL

(* In an archive linked at a multiple of 4 initrd_find() finds what was    *)
(* stored last under a name, for any number of entries of any size.        *)
THEOREM InitrdFindsFiles == Spec => []FindsFiles
BY ElfInvariant, ElfInvImplies, PTL

(* exec() starts the program that the archive holds under the name, with   *)
(* every byte where it was linked, for any page size, number of segments   *)
(* and placement of them in their pages.                                   *)
THEOREM ExecLoadsProgram == Spec => []LoadsProgram
BY ElfInvariant, ElfInvImplies, PTL

(* Mapping a page fails only for a program whose segments overlap each     *)
(* other, the kernel or the stack, and the assertion of pgtable_walk()     *)
(* only for one that reaches beyond MAXVA.                                 *)
THEOREM ExecRefusesOnlyBadFiles == Spec => []RefusesOnlyBadFiles
BY ElfInvariant, ElfInvImplies, PTL
=============================================================================
