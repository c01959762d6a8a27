---------------------------- MODULE PgTableProofs ---------------------------
(***************************************************************************)
(* Proofs about the page tables, for tables and pages of any size and any  *)
(* calls.                                                                  *)
(***************************************************************************)
EXTENDS PgTable, FiniteSetTheorems, TLAPS

-----------------------------------------------------------------------------
(* The inductive invariant: the tables are trees of three levels.          *)

Ref(p) == mk_pte(p, {"V"})

(* The entries of the tables in S refer to the tables in T, each once.     *)
Level(tb, S, T) ==
    /\ \A t \in S : \A i \in Idx :
           tb[t][i] = pte_zero \/ \E p \in T : tb[t][i] = Ref(p)
    /\ \A p \in T : \E t \in S : \E i \in Idx : tb[t][i] = Ref(p)
    /\ \A p \in T : \A t, u \in S : \A i, j \in Idx :
           tb[t][i] = Ref(p) /\ tb[u][j] = Ref(p) => t = u /\ i = j

(* R: the roots, M: the tables of the next level, L: those of the last.    *)
Tree(tb, fr, R, M, L) ==
    /\ tb \in [Page -> [Idx -> Pte]]
    /\ fr \in [Page -> 0..1]
    /\ R \subseteq Page /\ M \subseteq Page /\ L \subseteq Page
    /\ R \intersect M = {} /\ R \intersect L = {} /\ M \intersect L = {}
    /\ \A p \in Page : fr[p] = 0 <=> p \in R \union M \union L
    /\ Level(tb, R, M)
    /\ Level(tb, M, L)
    /\ \A t \in L : \A i \in Idx : tb[t][i] = pte_zero \/ tb[t][i] \in LeafPte

(* The entry that the indices i, j and k lead to.                          *)
Lookup(tb, r, i, j, k) ==
    LET e2 == tb[r][i]
        e1 == tb[e2.pa][j]
    IN  IF pte_present(e2) /\ pte_present(e1) THEN tb[e1.pa][k] ELSE pte_zero

(* The operation under way serves a call c: it is at a page of its range,  *)
(* what is before it is mapped, or what is not is still there to unmap.    *)
OpServes(c) ==
    /\ op.root \in roots /\ op.va = c.va /\ op.size = c.size
    /\ op.addr \in Nat /\ op.addr % PAGE_SIZE = 0
    /\ align_down(c.va) <= op.addr /\ op.addr <= EndOf(c)
    /\ \/ /\ op.kind = "map" /\ op.flags = c.flags
          /\ op.pa = c.pa + op.addr - align_down(c.va)
          /\ \A a \in PagesOf(c) : a < op.addr =>
                 Translated(op.root, a \div PAGE_SIZE)
                     = mk_pte(c.pa + a - align_down(c.va), c.flags \union {"V"})
       \/ /\ op.kind = "unmap"
          /\ \A a \in PagesOf(c) : a >= op.addr =>
                 Translated(op.root, a \div PAGE_SIZE) # pte_zero

OpRec == [kind : {"none", "map", "unmap"}, root : Page \union {NULL}, va : Nat,
          size : Nat, addr : Nat, pa : Int, flags : SUBSET (RWX \union {"U"})]

IInv == /\ \E M, L \in SUBSET Page : Tree(tab, free, roots, M, L)
        /\ op \in OpRec
        /\ op = NoOp \/ \E c \in Calls : OpServes(c)
        /\ stopped = FALSE

-----------------------------------------------------------------------------
(* Entries.                                                                *)

LEMMA Entries ==
    /\ ~pte_present(pte_zero) /\ pte_zero.pa = 0
    /\ \A p : /\ pte_present(Ref(p)) /\ ~pte_leaf(Ref(p)) /\ Ref(p).pa = p
              /\ Ref(p) # pte_zero
    /\ \A e \in LeafPte : pte_present(e) /\ pte_leaf(e) /\ e # pte_zero
    /\ pte_zero \in Pte /\ \A p \in Page : Ref(p) \in Pte
<1>1. /\ pte_zero = [pa |-> 0, flags |-> {}]
      /\ \A p : Ref(p) = [pa |-> p, flags |-> {"V"}]
  BY DEF pte_zero, mk_pte, Ref
<1>2. ASSUME NEW e \in LeafPte PROVE pte_present(e) /\ pte_leaf(e)
  <2>1. PICK c \in Calls : \E a \in PagesOf(c) :
            e = mk_pte(c.pa + a - align_down(c.va), c.flags \union {"V"})
    BY DEF LeafPte
  <2>2. e.flags = c.flags \union {"V"} /\ c.flags \intersect RWX # {}
    BY <2>1, PgTableAssumption DEF mk_pte
  <2> QED
    BY <2>2 DEF pte_present, pte_leaf
<1>3. ~pte_present(pte_zero) /\ pte_zero.pa = 0
  BY <1>1 DEF pte_present
<1>4. ASSUME NEW p PROVE pte_present(Ref(p)) /\ ~pte_leaf(Ref(p)) /\ Ref(p).pa = p
  BY <1>1 DEF pte_present, pte_leaf, RWX
<1>5. pte_zero \in Pte /\ \A p \in Page : Ref(p) \in Pte
  BY <1>1 DEF Pte, Flags
<1> QED
  BY <1>2, <1>3, <1>4, <1>5

-----------------------------------------------------------------------------
(* Levels.                                                                 *)

LEMMA LevelSame ==
    ASSUME NEW tb, NEW tc, NEW S, NEW T, Level(tb, S, T),
           \A t \in S : \A i \in Idx : tc[t][i] = tb[t][i]
    PROVE  Level(tc, S, T)
BY DEF Level

(* A new table p is referred to by entry i of t.                           *)
LEMMA LevelGrows ==
    ASSUME NEW tb, NEW tc, NEW S, NEW T, Level(tb, S, T),
           NEW t \in S, NEW i \in Idx, tb[t][i] = pte_zero,
           NEW p, p \notin T, tc[t][i] = Ref(p),
           \A u \in S : \A j \in Idx :
               u # t \/ j # i => tc[u][j] = tb[u][j]
    PROVE  Level(tc, S, T \union {p})
<1>1. \A q : Ref(q) # pte_zero /\ (q # p => Ref(q) # Ref(p))
  BY Entries
<1>2. ASSUME NEW u \in S, NEW j \in Idx
      PROVE  tc[u][j] = pte_zero \/ \E q \in T \union {p} : tc[u][j] = Ref(q)
  BY DEF Level
<1>3. ASSUME NEW q \in T \union {p}
      PROVE  \E u \in S : \E j \in Idx : tc[u][j] = Ref(q)
  BY <1>1 DEF Level
<1>4. ASSUME NEW q \in T \union {p}, NEW u \in S, NEW v \in S, NEW j \in Idx,
             NEW k \in Idx, tc[u][j] = Ref(q), tc[v][k] = Ref(q)
      PROVE  u = v /\ j = k
  <2>1. CASE q = p
    <3>1. \A x \in S : \A y \in Idx : tb[x][y] # Ref(p)
      BY <1>1 DEF Level
    <3> QED
      BY <1>4, <2>1, <3>1
  <2>2. CASE q # p
    <3>1. tb[u][j] = Ref(q) /\ tb[v][k] = Ref(q) /\ q \in T
      BY <1>1, <1>4, <2>2
    <3> QED
      BY <3>1 DEF Level
  <2> QED
    BY <2>1, <2>2
<1> QED
  BY <1>2, <1>3, <1>4 DEF Level

(* A new, empty table.                                                     *)
LEMMA LevelNew ==
    ASSUME NEW tb, NEW tc, NEW S, NEW T, Level(tb, S, T), NEW p, p \notin S,
           \A t \in S : \A i \in Idx : tc[t][i] = tb[t][i],
           \A i \in Idx : tc[p][i] = pte_zero
    PROVE  Level(tc, S \union {p}, T)
<1>1. \A q : Ref(q) # pte_zero
  BY Entries
<1> QED
  BY <1>1 DEF Level

(* The tables in A go, and the ones they refer to.                         *)
Goes(tb, S, T, A, B) ==
    \A p \in T : p \in B <=>
        \E t \in S \intersect A : \E i \in Idx : tb[t][i] = Ref(p)

Agree(tb, tc, S) == \A t \in S : \A i \in Idx : tc[t][i] = tb[t][i]

LEMMA LevelShrinks ==
    ASSUME NEW tb, NEW tc, NEW S, NEW T, Level(tb, S, T), NEW A, NEW B,
           Goes(tb, S, T, A, B), Agree(tb, tc, S \ A)
    PROVE  Level(tc, S \ A, T \ B)
<1> USE DEF Goes, Agree
<1>1. ASSUME NEW u \in S \ A, NEW j \in Idx
      PROVE  tc[u][j] = pte_zero \/ \E q \in T \ B : tc[u][j] = Ref(q)
  <2>1. CASE tb[u][j] = pte_zero
    BY <2>1
  <2>2. ASSUME NEW q \in T, tb[u][j] = Ref(q)
        PROVE  q \notin B
    BY <2>2 DEF Level
  <2> QED
    BY <2>1, <2>2 DEF Level
<1>2. ASSUME NEW q \in T \ B
      PROVE  \E u \in S \ A : \E j \in Idx : tc[u][j] = Ref(q)
  <2>1. PICK u \in S : \E j \in Idx : tb[u][j] = Ref(q)
    BY DEF Level
  <2>2. u \notin A
    BY <2>1
  <2> QED
    BY <2>1, <2>2
<1>3. ASSUME NEW q \in T \ B, NEW u \in S \ A, NEW v \in S \ A, NEW j \in Idx,
             NEW k \in Idx, tc[u][j] = Ref(q), tc[v][k] = Ref(q)
      PROVE  u = v /\ j = k
  BY <1>3 DEF Level
<1> QED
  BY <1>1, <1>2, <1>3 DEF Level

-----------------------------------------------------------------------------
(* A walk goes down one level.                                             *)

WalkRec == [tab : [Page -> [Idx -> Pte]], free : [Page -> 0..1],
            table : Page \union {NULL}, ok : BOOLEAN]

(* The page of a new table: it is free, and cleared.                       *)
LEMMA CreatedFacts ==
    ASSUME NEW tb \in [Page -> [Idx -> Pte]], NEW fr \in [Page -> 0..1],
           Available(fr) # {}
    PROVE  LET p == page_alloc(Available(fr))
           IN  /\ p \in Page /\ fr[p] = 1 /\ p # NULL
               /\ [fr EXCEPT ![p] = @ - 1] \in [Page -> 0..1]
               /\ [fr EXCEPT ![p] = @ - 1][p] = 0
               /\ \A q \in Page : q # p => [fr EXCEPT ![p] = @ - 1][q] = fr[q]
<1>1. Available(fr) \in SUBSET Page
  BY DEF Available
<1>2. page_alloc(Available(fr)) \in Available(fr)
  BY <1>1, PgTableAssumption
<1> DEFINE p == page_alloc(Available(fr))
<1>3. p \in Page /\ fr[p] = 1 /\ p # NULL
  BY <1>2, PgTableAssumption DEF Available
<1> HIDE DEF p
<1>4. /\ [fr EXCEPT ![p] = @ - 1] \in [Page -> 0..1]
      /\ [fr EXCEPT ![p] = @ - 1][p] = 0
      /\ \A q \in Page : q # p => [fr EXCEPT ![p] = @ - 1][q] = fr[q]
  BY <1>3
<1> QED
  BY <1>3, <1>4 DEF p

(* What one level of a walk does to the memory: nothing, or entry i of the *)
(* table it is at refers to a new, empty table p.                          *)
Adds(tb, fr, tc, fc, t, i, p) ==
    /\ p \in Page /\ fr[p] = 1 /\ fc[p] = 0
    /\ \A q \in Page : q # p => fc[q] = fr[q]
    /\ tc \in [Page -> [Idx -> Pte]] /\ fc \in [Page -> 0..1]
    /\ tc[t][i] = Ref(p)
    /\ \A j \in Idx : tc[p][j] = pte_zero
    /\ \A u \in Page : \A j \in Idx :
           u # p /\ (u # t \/ j # i) => tc[u][j] = tb[u][j]

LEMMA DescendFacts ==
    ASSUME NEW w \in WalkRec, NEW i \in Idx, NEW alloc \in BOOLEAN,
           w.table \in Page, w.free[w.table] = 0,
           \/ w.tab[w.table][i] = pte_zero
           \/ \E p \in Page : w.tab[w.table][i] = Ref(p)
    PROVE  LET d == Descend(w, i, alloc)
           IN  /\ d \in WalkRec /\ d.ok = w.ok
               /\ \/ d.table = NULL /\ d.tab = w.tab /\ d.free = w.free
                  \/ /\ d.tab = w.tab /\ d.free = w.free
                     /\ w.tab[w.table][i] = Ref(d.table)
                  \/ /\ alloc /\ w.tab[w.table][i] = pte_zero
                     /\ Adds(w.tab, w.free, d.tab, d.free, w.table, i, d.table)
               /\ ~alloc /\ d.table = NULL => w.tab[w.table][i] = pte_zero
<1> DEFINE d == Descend(w, i, alloc)
           e == w.tab[w.table][i]
<1>1. /\ w.tab \in [Page -> [Idx -> Pte]] /\ w.free \in [Page -> 0..1]
      /\ w.ok \in BOOLEAN /\ w.table # NULL
  BY PgTableAssumption DEF WalkRec
<1>2. ASSUME NEW p \in Page, e = Ref(p)
      PROVE  d = [w EXCEPT !.table = p] /\ e = Ref(p)
  BY <1>1, <1>2, Entries DEF Descend
<1>3. CASE e = pte_zero /\ (~alloc \/ Available(w.free) = {})
  <2>1. d = [w EXCEPT !.table = NULL]
    BY <1>1, <1>3, Entries DEF Descend
  <2>2. /\ d \in WalkRec /\ d.table = NULL /\ d.tab = w.tab /\ d.free = w.free
        /\ d.ok = w.ok
    BY <2>1 DEF WalkRec
  <2> HIDE DEF d
  <2> QED
    BY <1>3, <2>2 DEF d
<1>4. ASSUME NEW p \in Page, e = Ref(p)
      PROVE  /\ d \in WalkRec /\ d.table = p /\ d.tab = w.tab /\ d.free = w.free
             /\ d.ok = w.ok
  <2>1. d = [w EXCEPT !.table = p]
    BY <1>2, <1>4
  <2> QED
    BY <2>1 DEF WalkRec
<1>5. CASE e = pte_zero /\ alloc /\ Available(w.free) # {}
  <2> DEFINE p == page_alloc(Available(w.free))
             z == [k \in Idx |-> pte_zero]
             fc == [w.free EXCEPT ![p] = @ - 1]
             tc == [[w.tab EXCEPT ![p] = z] EXCEPT ![w.table][i] = Ref(p)]
  <2>1. /\ p \in Page /\ w.free[p] = 1 /\ fc \in [Page -> 0..1] /\ fc[p] = 0
        /\ \A q \in Page : q # p => fc[q] = w.free[q]
    BY <1>1, <1>5, CreatedFacts
  <2>2. d = [w EXCEPT !.table = p, !.free = fc, !.tab = tc]
    <3>1. Created(w) = [w EXCEPT !.table = p, !.free = fc,
                                 !.tab = [w.tab EXCEPT ![p] = z]]
      BY DEF Created, WalkRec
    <3>2. d = [Created(w) EXCEPT !.tab[w.table][i] = mk_pte(Created(w).table, {"V"})]
      BY <1>1, <1>5, Entries DEF Descend
    <3> HIDE DEF p, fc, z
    <3>3. Created(w).table = p /\ Created(w).tab = [w.tab EXCEPT ![p] = z]
      BY <3>1 DEF WalkRec
    <3> QED
      BY <3>1, <3>2, <3>3 DEF WalkRec, Ref
  <2>3. w.table # p
    BY <2>1
  <2>4. z \in [Idx -> Pte] /\ Ref(p) \in Pte /\ \A k \in Idx : z[k] = pte_zero
    BY <2>1, Entries
  <2> HIDE DEF p, z, fc
  <2>5. /\ tc \in [Page -> [Idx -> Pte]] /\ tc[w.table][i] = Ref(p)
        /\ \A j \in Idx : tc[p][j] = pte_zero
        /\ \A u \in Page : \A j \in Idx :
               u # p /\ (u # w.table \/ j # i) => tc[u][j] = w.tab[u][j]
    BY <1>1, <2>1, <2>3, <2>4
  <2> HIDE DEF tc
  <2>6. /\ d \in WalkRec /\ d.table = p /\ d.tab = tc /\ d.free = fc
        /\ d.ok = w.ok
    BY <2>1, <2>2, <2>5 DEF WalkRec
  <2>7. Adds(w.tab, w.free, d.tab, d.free, w.table, i, d.table)
    BY <2>1, <2>5, <2>6 DEF Adds
  <2> HIDE DEF d
  <2> QED
    BY <1>5, <2>1, <2>6, <2>7, PgTableAssumption DEF d
<1> HIDE DEF d
<1> QED
  BY <1>1, <1>3, <1>4, <1>5, PgTableAssumption DEF d

-----------------------------------------------------------------------------
(* Trees.                                                                  *)

(* Where three lookups lead.                                               *)
LEMMA LookupFacts ==
    ASSUME NEW tb, NEW fr, NEW R, NEW M, NEW L, Tree(tb, fr, R, M, L),
           NEW r \in R, NEW i \in Idx, NEW j \in Idx, NEW k \in Idx
    PROVE  \/ tb[r][i] = pte_zero /\ Lookup(tb, r, i, j, k) = pte_zero
           \/ \E m \in M : /\ tb[r][i] = Ref(m) /\ tb[m][j] = pte_zero
                           /\ Lookup(tb, r, i, j, k) = pte_zero
           \/ \E m \in M, l \in L : /\ tb[r][i] = Ref(m) /\ tb[m][j] = Ref(l)
                                    /\ Lookup(tb, r, i, j, k) = tb[l][k]
<1>1. tb[r][i] = pte_zero \/ \E m \in M : tb[r][i] = Ref(m)
  BY DEF Tree, Level
<1>2. CASE tb[r][i] = pte_zero
  BY <1>2, Entries DEF Lookup
<1>3. ASSUME NEW m \in M, tb[r][i] = Ref(m)
      PROVE  \/ tb[m][j] = pte_zero /\ Lookup(tb, r, i, j, k) = pte_zero
             \/ \E l \in L : tb[m][j] = Ref(l) /\ Lookup(tb, r, i, j, k) = tb[l][k]
  <2>1. tb[m][j] = pte_zero \/ \E l \in L : tb[m][j] = Ref(l)
    BY DEF Tree, Level
  <2>2. tb[r][i].pa = m /\ pte_present(tb[r][i])
    BY <1>3, Entries
  <2> QED
    BY <2>1, <2>2, Entries DEF Lookup
<1> QED
  BY <1>1, <1>2, <1>3

(* Along a path the lookup is known.                                       *)
MidPath(tb, r, i, j, m) == tb[r][i] = Ref(m) /\ tb[m][j] = pte_zero

LeafPath(tb, r, i, j, m, l) == tb[r][i] = Ref(m) /\ tb[m][j] = Ref(l)

LEMMA LookupMid ==
    ASSUME NEW tb, NEW r, NEW i, NEW j, NEW k, NEW m, MidPath(tb, r, i, j, m)
    PROVE  Lookup(tb, r, i, j, k) = pte_zero
<1>1. tb[r][i].pa = m /\ pte_present(tb[r][i])
  BY Entries DEF MidPath
<1> QED
  BY <1>1, Entries DEF Lookup, MidPath

LEMMA LookupLeaf ==
    ASSUME NEW tb, NEW r, NEW i, NEW j, NEW k, NEW m, NEW l,
           LeafPath(tb, r, i, j, m, l)
    PROVE  Lookup(tb, r, i, j, k) = tb[l][k]
<1>1. tb[r][i].pa = m /\ pte_present(tb[r][i])
  BY Entries DEF LeafPath
<1> QED
  BY <1>1, Entries DEF Lookup, LeafPath

LEMMA LookupZero ==
    ASSUME NEW tb, NEW r, NEW i, NEW j, NEW k, tb[r][i] = pte_zero
    PROVE  Lookup(tb, r, i, j, k) = pte_zero
BY Entries DEF Lookup

SameLookups(tb, tc, R) ==
    \A r \in R : \A i, j, k \in Idx : Lookup(tc, r, i, j, k) = Lookup(tb, r, i, j, k)

(* A new table of the middle level.                                        *)
LEMMA TopAdds ==
    ASSUME NEW tb, NEW fr, NEW R, NEW M, NEW L, Tree(tb, fr, R, M, L),
           NEW t \in R, NEW i0 \in Idx, tb[t][i0] = pte_zero, NEW tc, NEW fc,
           NEW p, Adds(tb, fr, tc, fc, t, i0, p)
    PROVE  Tree(tc, fc, R, M \union {p}, L) /\ SameLookups(tb, tc, R)
<1>1. /\ p \in Page /\ p \notin R \union M \union L /\ t # p
      /\ R \subseteq Page /\ M \subseteq Page /\ L \subseteq Page
      /\ R \intersect M = {} /\ R \intersect L = {} /\ M \intersect L = {}
  BY DEF Tree, Adds
<1>2. /\ \A u \in R : \A j \in Idx : u # t \/ j # i0 => tc[u][j] = tb[u][j]
      /\ \A u \in M \union L : \A j \in Idx : tc[u][j] = tb[u][j]
      /\ tc[t][i0] = Ref(p) /\ \A j \in Idx : tc[p][j] = pte_zero
  BY <1>1 DEF Adds
<1>3. Level(tc, R, M \union {p})
  BY <1>1, <1>2, LevelGrows DEF Tree
<1>4. Level(tc, M \union {p}, L)
  BY <1>1, <1>2, LevelNew DEF Tree
<1>5. \A q \in Page : fc[q] = 0 <=> q \in R \union (M \union {p}) \union L
  BY <1>1 DEF Tree, Adds
<1>6. Tree(tc, fc, R, M \union {p}, L)
  BY <1>1, <1>2, <1>3, <1>4, <1>5 DEF Tree, Adds
<1>7. ASSUME NEW r \in R, NEW i \in Idx, NEW j \in Idx, NEW k \in Idx
      PROVE  Lookup(tc, r, i, j, k) = Lookup(tb, r, i, j, k)
  <2>1. CASE r = t /\ i = i0
    <3>1. Lookup(tb, r, i, j, k) = pte_zero
      BY <2>1, LookupZero
    <3>2. tc[r][i] = Ref(p) /\ tc[p][j] = pte_zero
      BY <1>2, <2>1
    <3>3. Lookup(tc, r, i, j, k) = pte_zero
      <4>1. MidPath(tc, r, i, j, p)
        BY <3>2 DEF MidPath
      <4> QED
        BY <4>1, LookupMid
    <3> QED
      BY <3>1, <3>3
  <2>2. CASE ~(r = t /\ i = i0)
    <3>1. tc[r][i] = tb[r][i]
      BY <1>2, <2>2
    <3>2. CASE tb[r][i] = pte_zero
      BY <3>1, <3>2, LookupZero
    <3>3. ASSUME NEW m \in M, tb[r][i] = Ref(m), tb[m][j] = pte_zero
          PROVE  Lookup(tc, r, i, j, k) = Lookup(tb, r, i, j, k)
      <4>1. tc[r][i] = Ref(m) /\ tc[m][j] = pte_zero
        BY <1>2, <3>1, <3>3
      <4>2. Lookup(tc, r, i, j, k) = pte_zero
        <5>1. MidPath(tc, r, i, j, m)
          BY <4>1 DEF MidPath
        <5> QED
          BY <5>1, LookupMid
      <4>3. Lookup(tb, r, i, j, k) = pte_zero
        <5>1. MidPath(tb, r, i, j, m)
          BY <3>3 DEF MidPath
        <5> QED
          BY <5>1, LookupMid
      <4> QED
        BY <4>2, <4>3
    <3>4. ASSUME NEW m \in M, NEW l \in L, tb[r][i] = Ref(m), tb[m][j] = Ref(l)
          PROVE  Lookup(tc, r, i, j, k) = Lookup(tb, r, i, j, k)
      <4>1. tc[m][j] = Ref(l) /\ tc[l][k] = tb[l][k] /\ tc[r][i] = Ref(m)
        BY <1>2, <3>1, <3>4
      <4>2. Lookup(tc, r, i, j, k) = tc[l][k]
        <5>1. LeafPath(tc, r, i, j, m, l)
          BY <4>1 DEF LeafPath
        <5> QED
          BY <5>1, LookupLeaf
      <4>3. Lookup(tb, r, i, j, k) = tb[l][k]
        <5>1. LeafPath(tb, r, i, j, m, l)
          BY <3>4 DEF LeafPath
        <5> QED
          BY <5>1, LookupLeaf
      <4> QED
        BY <4>1, <4>2, <4>3
    <3> QED
      BY <3>2, <3>3, <3>4, LookupFacts
  <2> QED
    BY <2>1, <2>2
<1> QED
  BY <1>6, <1>7 DEF SameLookups

(* A new table of the last level.                                          *)
LEMMA MidAdds ==
    ASSUME NEW tb, NEW fr, NEW R, NEW M, NEW L, Tree(tb, fr, R, M, L),
           NEW t \in M, NEW i0 \in Idx, tb[t][i0] = pte_zero, NEW tc, NEW fc,
           NEW p, Adds(tb, fr, tc, fc, t, i0, p)
    PROVE  Tree(tc, fc, R, M, L \union {p}) /\ SameLookups(tb, tc, R)
<1>1. /\ p \in Page /\ p \notin R \union M \union L /\ t # p
      /\ R \subseteq Page /\ M \subseteq Page /\ L \subseteq Page
      /\ R \intersect M = {} /\ R \intersect L = {} /\ M \intersect L = {}
  BY DEF Tree, Adds
<1>2. /\ \A u \in M : \A j \in Idx : u # t \/ j # i0 => tc[u][j] = tb[u][j]
      /\ \A u \in R \union L : \A j \in Idx : tc[u][j] = tb[u][j]
      /\ tc[t][i0] = Ref(p) /\ \A j \in Idx : tc[p][j] = pte_zero
  BY <1>1 DEF Adds
<1>3. Level(tc, R, M)
  BY <1>1, <1>2, LevelSame DEF Tree
<1>4. Level(tc, M, L \union {p})
  BY <1>1, <1>2, LevelGrows DEF Tree
<1>5. \A q \in Page : fc[q] = 0 <=> q \in R \union M \union (L \union {p})
  BY <1>1 DEF Tree, Adds
<1>6. Tree(tc, fc, R, M, L \union {p})
  BY <1>1, <1>2, <1>3, <1>4, <1>5 DEF Tree, Adds
<1>7. ASSUME NEW r \in R, NEW i \in Idx, NEW j \in Idx, NEW k \in Idx
      PROVE  Lookup(tc, r, i, j, k) = Lookup(tb, r, i, j, k)
  <2>1. tc[r][i] = tb[r][i]
    BY <1>2
  <2>2. CASE tb[r][i] = pte_zero
    BY <2>1, <2>2, LookupZero
  <2>3. ASSUME NEW m \in M, tb[r][i] = Ref(m), tb[m][j] = pte_zero
        PROVE  Lookup(tc, r, i, j, k) = Lookup(tb, r, i, j, k)
    <3>1. CASE m = t /\ j = i0
      <4>1. tc[r][i] = Ref(m) /\ tc[m][j] = Ref(p) /\ tc[p][k] = pte_zero
        BY <1>2, <2>1, <2>3, <3>1
      <4>2. Lookup(tc, r, i, j, k) = tc[p][k]
        <5>1. LeafPath(tc, r, i, j, m, p)
          BY <4>1 DEF LeafPath
        <5> QED
          BY <5>1, LookupLeaf
      <4>3. Lookup(tb, r, i, j, k) = pte_zero
        <5>1. MidPath(tb, r, i, j, m)
          BY <2>3 DEF MidPath
        <5> QED
          BY <5>1, LookupMid
      <4> QED
        BY <4>1, <4>2, <4>3
    <3>2. CASE ~(m = t /\ j = i0)
      <4>1. tc[r][i] = Ref(m) /\ tc[m][j] = pte_zero
        BY <1>2, <2>1, <2>3, <3>2
      <4>2. Lookup(tc, r, i, j, k) = pte_zero
        <5>1. MidPath(tc, r, i, j, m)
          BY <4>1 DEF MidPath
        <5> QED
          BY <5>1, LookupMid
      <4>3. Lookup(tb, r, i, j, k) = pte_zero
        <5>1. MidPath(tb, r, i, j, m)
          BY <2>3 DEF MidPath
        <5> QED
          BY <5>1, LookupMid
      <4> QED
        BY <4>2, <4>3
    <3> QED
      BY <3>1, <3>2
  <2>4. ASSUME NEW m \in M, NEW l \in L, tb[r][i] = Ref(m), tb[m][j] = Ref(l)
        PROVE  Lookup(tc, r, i, j, k) = Lookup(tb, r, i, j, k)
    <3>1. tc[m][j] = Ref(l) /\ tc[l][k] = tb[l][k] /\ tc[r][i] = Ref(m)
      BY <1>2, <2>1, <2>4, Entries
    <3>2. Lookup(tc, r, i, j, k) = tc[l][k]
      <4>1. LeafPath(tc, r, i, j, m, l)
        BY <3>1 DEF LeafPath
      <4> QED
        BY <4>1, LookupLeaf
    <3>3. Lookup(tb, r, i, j, k) = tb[l][k]
      <4>1. LeafPath(tb, r, i, j, m, l)
        BY <2>4 DEF LeafPath
      <4> QED
        BY <4>1, LookupLeaf
    <3> QED
      BY <3>1, <3>2, <3>3
  <2> QED
    BY <2>2, <2>3, <2>4, LookupFacts
<1> QED
  BY <1>6, <1>7 DEF SameLookups

(* An entry of a last-level table is written.                              *)
SetsOne(tb, tc, R, r0, i0, j0, k0, e) ==
    /\ Lookup(tc, r0, i0, j0, k0) = e
    /\ \A r \in R : \A i, j, k \in Idx :
           r # r0 \/ i # i0 \/ j # j0 \/ k # k0 =>
               Lookup(tc, r, i, j, k) = Lookup(tb, r, i, j, k)

LEMMA SetLeaf ==
    ASSUME NEW tb, NEW fr, NEW R, NEW M, NEW L, Tree(tb, fr, R, M, L),
           NEW r0 \in R, NEW m0 \in M, NEW l0 \in L, NEW i0 \in Idx,
           NEW j0 \in Idx, NEW k0 \in Idx,
           tb[r0][i0] = Ref(m0), tb[m0][j0] = Ref(l0),
           NEW e \in Pte, e = pte_zero \/ e \in LeafPte
    PROVE  LET tc == [tb EXCEPT ![l0][k0] = e]
           IN  /\ Tree(tc, fr, R, M, L)
               /\ SetsOne(tb, tc, R, r0, i0, j0, k0, e)
<1> DEFINE tc == [tb EXCEPT ![l0][k0] = e]
<1>1. /\ R \subseteq Page /\ M \subseteq Page /\ L \subseteq Page
      /\ R \intersect M = {} /\ R \intersect L = {} /\ M \intersect L = {}
      /\ tb \in [Page -> [Idx -> Pte]]
  BY DEF Tree
<1>2. /\ tc \in [Page -> [Idx -> Pte]]
      /\ \A u \in R \union M : \A j \in Idx : tc[u][j] = tb[u][j]
      /\ tc[l0][k0] = e
      /\ \A u \in L : \A j \in Idx : u # l0 \/ j # k0 => tc[u][j] = tb[u][j]
  BY <1>1
<1> HIDE DEF tc
<1>3. Level(tc, R, M) /\ Level(tc, M, L)
  BY <1>2, LevelSame DEF Tree
<1>4. \A t \in L : \A i \in Idx : tc[t][i] = pte_zero \/ tc[t][i] \in LeafPte
  BY <1>2 DEF Tree
<1>5. Tree(tc, fr, R, M, L)
  BY <1>2, <1>3, <1>4 DEF Tree
<1>6. Lookup(tc, r0, i0, j0, k0) = e
  <2>1. tc[r0][i0] = Ref(m0) /\ tc[m0][j0] = Ref(l0)
    BY <1>2
  <2>2. Lookup(tc, r0, i0, j0, k0) = tc[l0][k0]
    <3>1. LeafPath(tc, r0, i0, j0, m0, l0)
      BY <2>1 DEF LeafPath
    <3> QED
      BY <3>1, LookupLeaf
  <2> QED
    BY <1>2, <2>2
<1>7. ASSUME NEW r \in R, NEW i \in Idx, NEW j \in Idx, NEW k \in Idx,
             r # r0 \/ i # i0 \/ j # j0 \/ k # k0
      PROVE  Lookup(tc, r, i, j, k) = Lookup(tb, r, i, j, k)
  <2>1. tc[r][i] = tb[r][i]
    BY <1>2
  <2>2. CASE tb[r][i] = pte_zero
    BY <2>1, <2>2, LookupZero
  <2>3. ASSUME NEW m \in M, tb[r][i] = Ref(m), tb[m][j] = pte_zero
        PROVE  Lookup(tc, r, i, j, k) = Lookup(tb, r, i, j, k)
    <3>1. tc[r][i] = Ref(m) /\ tc[m][j] = pte_zero
      BY <1>2, <2>1, <2>3
    <3>2. Lookup(tc, r, i, j, k) = pte_zero
      <4>1. MidPath(tc, r, i, j, m)
        BY <3>1 DEF MidPath
      <4> QED
        BY <4>1, LookupMid
    <3>3. Lookup(tb, r, i, j, k) = pte_zero
      <4>1. MidPath(tb, r, i, j, m)
        BY <2>3 DEF MidPath
      <4> QED
        BY <4>1, LookupMid
    <3> QED
      BY <3>2, <3>3
  <2>4. ASSUME NEW m \in M, NEW l \in L, tb[r][i] = Ref(m), tb[m][j] = Ref(l)
        PROVE  Lookup(tc, r, i, j, k) = Lookup(tb, r, i, j, k)
    <3>1. tc[m][j] = Ref(l) /\ tc[r][i] = Ref(m)
      BY <1>2, <2>1, <2>4
    <3>2. l # l0 \/ k # k0
      <4> SUFFICES ASSUME l = l0, k = k0 PROVE FALSE
        OBVIOUS
      <4>1. m = m0 /\ j = j0
        BY <2>4 DEF Tree, Level
      <4>2. r = r0 /\ i = i0
        BY <2>4, <4>1 DEF Tree, Level
      <4> QED
        BY <1>7, <4>1, <4>2
    <3>3. tc[l][k] = tb[l][k]
      BY <1>2, <3>2
    <3>4. Lookup(tc, r, i, j, k) = tc[l][k]
      <4>1. LeafPath(tc, r, i, j, m, l)
        BY <3>1 DEF LeafPath
      <4> QED
        BY <4>1, LookupLeaf
    <3>5. Lookup(tb, r, i, j, k) = tb[l][k]
      <4>1. LeafPath(tb, r, i, j, m, l)
        BY <2>4 DEF LeafPath
      <4> QED
        BY <4>1, LookupLeaf
    <3> QED
      BY <3>3, <3>4, <3>5
  <2> QED
    BY <2>2, <2>3, <2>4, LookupFacts
<1> QED
  BY <1>5, <1>6, <1>7 DEF tc, SetsOne

(* The tree below r0 goes: the tables A and B.                             *)
Frees(tb, fr, tc, fc, M, L, r0, A, B) ==
    /\ A \subseteq M /\ B \subseteq L
    /\ \A p \in M : p \in A <=> \E i \in Idx : tb[r0][i] = Ref(p)
    /\ \A p \in L : p \in B <=> \E m \in A : \E i \in Idx : tb[m][i] = Ref(p)
    /\ tc \in [Page -> [Idx -> Pte]] /\ fc \in [Page -> 0..1]
    /\ \A p \in Page : /\ p \notin {r0} \union A \union B =>
                              tc[p] = tb[p] /\ fc[p] = fr[p]
                       /\ p \in {r0} \union A \union B => fc[p] = 1

LEMMA TreeShrinks ==
    ASSUME NEW tb, NEW fr, NEW R, NEW M, NEW L, Tree(tb, fr, R, M, L),
           NEW r0 \in R, NEW A, NEW B, NEW tc, NEW fc,
           Frees(tb, fr, tc, fc, M, L, r0, A, B)
    PROVE  /\ Tree(tc, fc, R \ {r0}, M \ A, L \ B)
           /\ SameLookups(tb, tc, R \ {r0})
<1> USE DEF Frees
<1>1. /\ R \subseteq Page /\ M \subseteq Page /\ L \subseteq Page
      /\ R \intersect M = {} /\ R \intersect L = {} /\ M \intersect L = {}
  BY DEF Tree
<1>2. /\ \A u \in R \ {r0} : tc[u] = tb[u]
      /\ \A u \in M \ A : tc[u] = tb[u]
      /\ \A u \in L \ B : tc[u] = tb[u]
  BY <1>1
<1>3. Level(tc, R \ {r0}, M \ A)
  <2>1. Goes(tb, R, M, {r0}, A)
    BY DEF Goes
  <2>2. Agree(tb, tc, R \ {r0})
    BY <1>2 DEF Agree
  <2>3. Level(tb, R, M)
    BY DEF Tree
  <2> QED
    BY <2>1, <2>2, <2>3, LevelShrinks
<1>4. Level(tc, M \ A, L \ B)
  <2>1. Goes(tb, M, L, A, B)
    <3>1. M \intersect A = A
      OBVIOUS
    <3> QED
      BY <3>1 DEF Goes
  <2>2. Agree(tb, tc, M \ A)
    BY <1>2 DEF Agree
  <2>3. Level(tb, M, L)
    BY DEF Tree
  <2> QED
    BY <2>1, <2>2, <2>3, LevelShrinks
<1>5. \A q \in Page : fc[q] = 0 <=> q \in (R \ {r0}) \union (M \ A) \union (L \ B)
  BY <1>1 DEF Tree
<1>6. Tree(tc, fc, R \ {r0}, M \ A, L \ B)
  BY <1>1, <1>2, <1>3, <1>4, <1>5 DEF Tree
<1>7. ASSUME NEW r \in R \ {r0}, NEW i \in Idx, NEW j \in Idx, NEW k \in Idx
      PROVE  Lookup(tc, r, i, j, k) = Lookup(tb, r, i, j, k)
  <2>1. tc[r][i] = tb[r][i]
    BY <1>2
  <2>2. CASE tb[r][i] = pte_zero
    BY <2>1, <2>2, LookupZero
  <2>3. ASSUME NEW m \in M, tb[r][i] = Ref(m)
        PROVE  m \notin A /\ tc[m] = tb[m]
    BY <1>2, <2>3 DEF Tree, Level
  <2>4. ASSUME NEW m \in M, tb[r][i] = Ref(m), tb[m][j] = pte_zero
        PROVE  Lookup(tc, r, i, j, k) = Lookup(tb, r, i, j, k)
    <3>1. tc[m][j] = pte_zero /\ tc[r][i] = Ref(m)
      BY <2>1, <2>3, <2>4
    <3>2. Lookup(tc, r, i, j, k) = pte_zero
      <4>1. MidPath(tc, r, i, j, m)
        BY <3>1 DEF MidPath
      <4> QED
        BY <4>1, LookupMid
    <3>3. Lookup(tb, r, i, j, k) = pte_zero
      <4>1. MidPath(tb, r, i, j, m)
        BY <2>4 DEF MidPath
      <4> QED
        BY <4>1, LookupMid
    <3> QED
      BY <3>2, <3>3
  <2>5. ASSUME NEW m \in M, NEW l \in L, tb[r][i] = Ref(m), tb[m][j] = Ref(l)
        PROVE  Lookup(tc, r, i, j, k) = Lookup(tb, r, i, j, k)
    <3>1. m \notin A /\ tc[m][j] = Ref(l) /\ tc[r][i] = Ref(m)
      BY <2>1, <2>3, <2>5
    <3>2. l \notin B
      BY <2>5, <3>1 DEF Tree, Level
    <3>3. tc[l][k] = tb[l][k]
      BY <1>2, <3>2
    <3>4. Lookup(tc, r, i, j, k) = tc[l][k]
      <4>1. LeafPath(tc, r, i, j, m, l)
        BY <3>1 DEF LeafPath
      <4> QED
        BY <4>1, LookupLeaf
    <3>5. Lookup(tb, r, i, j, k) = tb[l][k]
      <4>1. LeafPath(tb, r, i, j, m, l)
        BY <2>5 DEF LeafPath
      <4> QED
        BY <4>1, LookupLeaf
    <3> QED
      BY <3>3, <3>4, <3>5
  <2> QED
    BY <2>2, <2>4, <2>5, LookupFacts
<1> QED
  BY <1>6, <1>7 DEF SameLookups

-----------------------------------------------------------------------------
(* Division.                                                               *)

(* A number is as many times P as fit, and a rest.                         *)
LEMMA DivMod ==
    ASSUME NEW P \in Nat \ {0}, NEW a \in Nat
    PROVE  /\ a \div P \in Nat /\ a % P \in 0..(P - 1)
           /\ a = P * (a \div P) + (a % P)
OBVIOUS

LEMMA DivUnique ==
    ASSUME NEW P \in Nat \ {0}, NEW a \in Nat, NEW b \in Nat,
           a \div P = b \div P, a % P = b % P
    PROVE  a = b
<1>1. /\ a = P * (a \div P) + (a % P)
      /\ b = P * (b \div P) + (b % P)
  BY DivMod
<1> QED
  BY <1>1

LEMMA DivBelow ==
    ASSUME NEW P \in Nat \ {0}, NEW N \in Nat, NEW a \in Nat, a < N * P
    PROVE  a \div P < N
<1>1. (a \div P) * P <= a
  BY DivMod
<1>2. ASSUME a \div P >= N PROVE FALSE
  <2> DEFINE q == a \div P
  <2>1. q \in Nat /\ q >= N /\ q * P < N * P
    BY <1>1, <1>2, DivMod
  <2> HIDE DEF q
  <2>2. (q - N) * P >= 0
     BY <2>1
  <2> QED
    BY <2>1, <2>2
<1> QED
  BY <1>2, DivMod

LEMMA Multiple ==
    ASSUME NEW P \in Nat \ {0}, NEW a \in Nat, a % P = 0
    PROVE  (a \div P) * P = a
BY DivMod

LEMMA DivMultiple ==
    ASSUME NEW P \in Nat \ {0}, NEW k \in Nat
    PROVE  (k * P) \div P = k /\ (k * P) % P = 0
OBVIOUS

(* Multiples of P are P apart.                                              *)
LEMMA Spaced ==
    ASSUME NEW P \in Nat \ {0}, NEW a \in Nat, a % P = 0
    PROVE  /\ (a + P) % P = 0
           /\ \A b \in Nat : b % P = 0 /\ a < b => a + P <= b
<1> DEFINE k == a \div P
<1>1. k \in Nat /\ a = k * P
  BY Multiple, DivMod
<1> HIDE DEF k
<1>2. a + P = (k + 1) * P
  BY <1>1
<1>3. ((k + 1) * P) % P = 0
  BY <1>1, DivMultiple
<1>4. ASSUME NEW b \in Nat, b % P = 0, a < b
      PROVE  a + P <= b
  <2> DEFINE m == b \div P
  <2>1. m \in Nat /\ b = m * P
    BY <1>4, Multiple, DivMod
  <2> HIDE DEF m
  <2>2. CASE m <= k
    <3>1. m * P <= k * P
      BY <1>1, <2>1, <2>2
    <3> QED
      BY <1>1, <1>4, <2>1, <3>1
  <2>3. CASE m >= k + 1
    <3>1. m * P >= (k + 1) * P
      BY <1>1, <2>1, <2>3
    <3> QED
      BY <1>2, <2>1, <3>1
  <2> QED
    BY <1>1, <2>1, <2>2, <2>3
<1> QED
  BY <1>2, <1>3, <1>4

-----------------------------------------------------------------------------
(* Page addresses, and the indices of a virtual page.                      *)

LEMMA AlignDown ==
    ASSUME NEW a \in Nat
    PROVE  /\ align_down(a) \in Nat /\ align_down(a) % PAGE_SIZE = 0
           /\ align_down(a) <= a /\ a < align_down(a) + PAGE_SIZE
<1>1. PAGE_SIZE \in Nat \ {0}
  BY PgTableAssumption
<1> DEFINE q == a \div PAGE_SIZE
<1>2. q \in Nat /\ q * PAGE_SIZE <= a /\ a < q * PAGE_SIZE + PAGE_SIZE
  BY <1>1, DivMod
<1>3. align_down(a) = q * PAGE_SIZE
  BY DEF align_down
<1> HIDE DEF q
<1>4. (q * PAGE_SIZE) % PAGE_SIZE = 0 /\ q * PAGE_SIZE \in Nat
  BY <1>1, <1>2, DivMultiple
<1> QED
  BY <1>2, <1>3, <1>4

(* The range of a call starts and ends at pages, below MAXVA.              *)
LEMMA CallFacts ==
    ASSUME NEW c \in Calls
    PROVE  /\ c.va \in Nat /\ c.size \in Nat \ {0} /\ c.pa \in Nat
           /\ c.flags \in SUBSET (RWX \union {"U"})
           /\ align_down(c.va) \in Nat /\ align_down(c.va) % PAGE_SIZE = 0
           /\ EndOf(c) \in Nat /\ EndOf(c) % PAGE_SIZE = 0
           /\ align_down(c.va) <= EndOf(c) /\ EndOf(c) <= MAXVA
<1>1. /\ c.va \in Nat /\ c.size \in Nat \ {0} /\ c.va + c.size <= MAXVA
      /\ PAGE_SIZE \in Nat \ {0} /\ MAXVA \in Nat /\ MAXVA % PAGE_SIZE = 0
      /\ c.pa \in Nat /\ c.flags \in SUBSET (RWX \union {"U"})
  BY PgTableAssumption
<1> DEFINE x == c.va + c.size + PAGE_SIZE - 1
<1>2. x \in Nat /\ x < MAXVA + PAGE_SIZE /\ x - PAGE_SIZE >= c.va
  BY <1>1
<1>3. EndOf(c) = align_down(x)
  BY DEF EndOf, align_up
<1> HIDE DEF x
<1> DEFINE e == align_down(x)
           b == align_down(c.va)
<1>4. /\ e \in Nat /\ e % PAGE_SIZE = 0 /\ e <= x /\ x < e + PAGE_SIZE
      /\ b \in Nat /\ b % PAGE_SIZE = 0 /\ b <= c.va
  BY <1>1, <1>2, AlignDown
<1> HIDE DEF e, b
<1>5. e <= MAXVA
  <2>1. ASSUME MAXVA < e PROVE FALSE
    <3>1. MAXVA + PAGE_SIZE <= e
      BY <1>1, <1>4, <2>1, Spaced
    <3> QED
      BY <1>1, <1>2, <1>4, <3>1
  <2> QED
    BY <1>1, <1>4, <2>1
<1>6. b <= e
  BY <1>1, <1>2, <1>4
<1> QED
  BY <1>1, <1>3, <1>4, <1>5, <1>6 DEF e, b

LEMMA VpnIndex ==
    ASSUME NEW v \in Vpn
    PROVE  /\ vpn_index(0, v * PAGE_SIZE) = v % PTRS_PER_PT
           /\ vpn_index(1, v * PAGE_SIZE) = (v \div PTRS_PER_PT) % PTRS_PER_PT
           /\ vpn_index(2, v * PAGE_SIZE) = (v \div PTRS_PER_PT) \div PTRS_PER_PT
           /\ vpn_index(0, v * PAGE_SIZE) \in Idx
           /\ vpn_index(1, v * PAGE_SIZE) \in Idx
           /\ vpn_index(2, v * PAGE_SIZE) \in Idx
<1> DEFINE N == PTRS_PER_PT
           q == v \div N
           s == q \div N
<1>1. /\ N \in Nat \ {0} /\ PAGE_SIZE \in Nat \ {0} /\ v \in Nat
      /\ v < N * N * N
  <2>1. N \in Nat \ {0} /\ PAGE_SIZE \in Nat \ {0}
    BY PgTableAssumption
  <2>2. N * N * N \in Nat
    BY <2>1
  <2> QED
    BY <2>1, <2>2 DEF Vpn
<1>2. (v * PAGE_SIZE) \div PAGE_SIZE = v
  BY <1>1, DivMultiple
<1>3. /\ vpn_index(0, v * PAGE_SIZE) = v % N
      /\ vpn_index(1, v * PAGE_SIZE) = q % N
      /\ vpn_index(2, v * PAGE_SIZE) = s % N
  BY <1>2 DEF vpn_index
<1> HIDE DEF N
<1>4. q \in Nat /\ q < N * N
  <2>1. N * N \in Nat
    BY <1>1
  <2> QED
    BY <1>1, <2>1, DivMod, DivBelow
<1> HIDE DEF q
<1>5. s \in Nat /\ s < N
  BY <1>1, <1>4, DivMod, DivBelow
<1> HIDE DEF s
<1>6. s % N = s
  BY <1>1, <1>5
<1>7. v % N \in 0..(N - 1) /\ q % N \in 0..(N - 1) /\ s \in 0..(N - 1)
  BY <1>1, <1>4, <1>5, DivMod
<1> QED
  BY <1>3, <1>6, <1>7 DEF N, q, s, Idx

(* Two virtual pages differ at some level.                                 *)
LEMMA VpnUnique ==
    ASSUME NEW v \in Vpn, NEW u \in Vpn,
           \A l \in 0..2 : vpn_index(l, v * PAGE_SIZE) = vpn_index(l, u * PAGE_SIZE)
    PROVE  v = u
<1> DEFINE N == PTRS_PER_PT
<1>1. N \in Nat \ {0} /\ v \in Nat /\ u \in Nat
  BY PgTableAssumption DEF Vpn
<1>2. /\ v % N = u % N
      /\ (v \div N) % N = (u \div N) % N
      /\ (v \div N) \div N = (u \div N) \div N
  BY VpnIndex
<1> HIDE DEF N
<1>3. v \div N \in Nat /\ u \div N \in Nat
  BY <1>1, DivMod
<1>4. v \div N = u \div N
  BY <1>1, <1>2, <1>3, DivUnique
<1> QED
  BY <1>1, <1>2, <1>4, DivUnique

(* The virtual page of a page address.                                     *)
LEMMA PageOf ==
    ASSUME NEW a \in Nat, a % PAGE_SIZE = 0, a < MAXVA
    PROVE  a \div PAGE_SIZE \in Vpn /\ (a \div PAGE_SIZE) * PAGE_SIZE = a
<1> DEFINE N == PTRS_PER_PT
           T == N * N * N
<1>1. /\ N \in Nat \ {0} /\ PAGE_SIZE \in Nat \ {0} /\ MAXVA \in Nat
      /\ MAXVA <= T * PAGE_SIZE
  BY PgTableAssumption
<1> HIDE DEF N
<1>2. T \in Nat
  BY <1>1
<1> HIDE DEF T
<1>3. a < T * PAGE_SIZE
  BY <1>1, <1>2
<1>4. a \div PAGE_SIZE < T
  BY <1>1, <1>2, <1>3, DivBelow
<1>5. a \div PAGE_SIZE \in Nat /\ (a \div PAGE_SIZE) * PAGE_SIZE = a
  BY <1>1, DivMod, Multiple
<1>6. a \div PAGE_SIZE \in 0..(T - 1)
  BY <1>2, <1>4, <1>5
<1> QED
  BY <1>5, <1>6 DEF Vpn, T, N

(* The pages of a range.                                                   *)
LEMMA PagesOfCall ==
    ASSUME NEW c \in Calls, NEW a
    PROVE  a \in PagesOf(c) <=> /\ a \in Nat /\ a % PAGE_SIZE = 0
                                /\ align_down(c.va) <= a /\ a < EndOf(c)
<1> DEFINE b == align_down(c.va)
           e == EndOf(c)
<1>1. b \in Nat /\ e \in Nat
  BY CallFacts
<1>2. a \in PagesOf(c) <=> a \in b..(e - 1) /\ a % PAGE_SIZE = 0
  BY DEF PagesOf
<1> HIDE DEF b, e
<1>3. a \in b..(e - 1) <=> a \in Nat /\ b <= a /\ a < e
  BY <1>1
<1> QED
  BY <1>2, <1>3 DEF b, e

(* What is mapped at a virtual page, and how a step may change it: not at  *)
(* all, or one page of one page table.                                     *)
At(tb, r, v) == Lookup(tb, r, vpn_index(2, v * PAGE_SIZE),
                       vpn_index(1, v * PAGE_SIZE), vpn_index(0, v * PAGE_SIZE))

SameMaps(tb, tc, R) == \A r \in R : \A v \in Vpn : At(tc, r, v) = At(tb, r, v)

Writes(tb, tc, R, r, v, e) ==
    /\ At(tc, r, v) = e
    /\ \A s \in R : \A u \in Vpn : s # r \/ u # v => At(tc, s, u) = At(tb, s, u)

LEMMA TranslatedIs ==
    \A r, v : Translated(r, v) = At(tab, r, v)
BY DEF Translated, Lookup, At

LEMMA MapsOfLookups ==
    ASSUME NEW tb, NEW tc, NEW R, SameLookups(tb, tc, R)
    PROVE  SameMaps(tb, tc, R)
BY VpnIndex DEF SameLookups, SameMaps, At

LEMMA WritesOne ==
    ASSUME NEW tb, NEW tc, NEW R, NEW r \in R, NEW v \in Vpn, NEW e,
           Lookup(tc, r, vpn_index(2, v * PAGE_SIZE), vpn_index(1, v * PAGE_SIZE),
                  vpn_index(0, v * PAGE_SIZE)) = e,
           \A s \in R : \A i, j, k \in Idx :
               s # r \/ i # vpn_index(2, v * PAGE_SIZE)
                     \/ j # vpn_index(1, v * PAGE_SIZE)
                     \/ k # vpn_index(0, v * PAGE_SIZE) =>
                   Lookup(tc, s, i, j, k) = Lookup(tb, s, i, j, k)
    PROVE  Writes(tb, tc, R, r, v, e)
<1>1. ASSUME NEW s \in R, NEW u \in Vpn, s # r \/ u # v
      PROVE  At(tc, s, u) = At(tb, s, u)
  <2> DEFINE i == vpn_index(2, u * PAGE_SIZE)
             j == vpn_index(1, u * PAGE_SIZE)
             k == vpn_index(0, u * PAGE_SIZE)
  <2>1. i \in Idx /\ j \in Idx /\ k \in Idx
    BY VpnIndex
  <2>2. \/ s # r \/ i # vpn_index(2, v * PAGE_SIZE)
        \/ j # vpn_index(1, v * PAGE_SIZE) \/ k # vpn_index(0, v * PAGE_SIZE)
    <3>1. 0..2 = {0, 1, 2}
      OBVIOUS
    <3> QED
      BY <1>1, <3>1, VpnUnique
  <2> HIDE DEF i, j, k
  <2>3. Lookup(tc, s, i, j, k) = Lookup(tb, s, i, j, k)
    BY <2>1, <2>2
  <2> QED
    BY <2>3 DEF At, i, j, k
<1> QED
  BY <1>1 DEF Writes, At

-----------------------------------------------------------------------------
(* Walks.                                                                  *)

(* The walk d leaves the trees as they are, or adds tables to them; what   *)
(* is mapped does not change.                                              *)
Keeps(w, d, alloc, R) ==
    /\ d \in WalkRec /\ d.ok = w.ok
    /\ SameLookups(w.tab, d.tab, R)
    /\ ~alloc => d.tab = w.tab /\ d.free = w.free

LEMMA SameRefl ==
    ASSUME NEW tb, NEW R
    PROVE  SameLookups(tb, tb, R)
BY DEF SameLookups

LEMMA DescendTop ==
    ASSUME NEW w \in WalkRec, NEW R, NEW M, NEW L,
           Tree(w.tab, w.free, R, M, L), w.table \in R,
           NEW i \in Idx, NEW alloc \in BOOLEAN
    PROVE  LET d == Descend(w, i, alloc)
           IN  /\ Keeps(w, d, alloc, R)
               /\ d.table = NULL /\ ~alloc => w.tab[w.table][i] = pte_zero
               /\ \E M2 : /\ Tree(d.tab, d.free, R, M2, L)
                          /\ \/ d.table = NULL
                             \/ /\ d.table \in M2
                                /\ d.tab[w.table][i] = Ref(d.table)
<1> DEFINE d == Descend(w, i, alloc)
<1>1. /\ w.table \in Page /\ w.free[w.table] = 0
      /\ \/ w.tab[w.table][i] = pte_zero
         \/ \E p \in M : w.tab[w.table][i] = Ref(p)
      /\ M \subseteq Page
  BY DEF Tree, Level
<1>2. /\ d \in WalkRec /\ d.ok = w.ok
      /\ \/ d.table = NULL /\ d.tab = w.tab /\ d.free = w.free
         \/ /\ d.tab = w.tab /\ d.free = w.free
            /\ w.tab[w.table][i] = Ref(d.table)
         \/ /\ alloc /\ w.tab[w.table][i] = pte_zero
            /\ Adds(w.tab, w.free, d.tab, d.free, w.table, i, d.table)
      /\ ~alloc /\ d.table = NULL => w.tab[w.table][i] = pte_zero
  BY <1>1, DescendFacts
<1> HIDE DEF d
<1>3. CASE d.table = NULL /\ d.tab = w.tab /\ d.free = w.free
  <2>1. SameLookups(w.tab, d.tab, R)
    BY <1>3, SameRefl
  <2> QED
    BY <1>2, <1>3, <2>1 DEF Keeps, d
<1>4. CASE d.tab = w.tab /\ d.free = w.free /\ w.tab[w.table][i] = Ref(d.table)
  <2>1. d.table \in M
    BY <1>1, <1>4, Entries
  <2>2. SameLookups(w.tab, d.tab, R)
    BY <1>4, SameRefl
  <2> QED
    BY <1>2, <1>4, <2>1, <2>2 DEF Keeps, d
<1>5. CASE /\ alloc /\ w.tab[w.table][i] = pte_zero
           /\ Adds(w.tab, w.free, d.tab, d.free, w.table, i, d.table)
  <2>1. /\ Tree(d.tab, d.free, R, M \union {d.table}, L)
        /\ SameLookups(w.tab, d.tab, R)
    BY <1>5, TopAdds
  <2>2. d.tab[w.table][i] = Ref(d.table) /\ d.table \in M \union {d.table}
    BY <1>5 DEF Adds
  <2>3. Keeps(w, d, alloc, R)
    BY <1>2, <1>5, <2>1 DEF Keeps
  <2>4. \E M2 : /\ Tree(d.tab, d.free, R, M2, L)
                /\ \/ d.table = NULL
                   \/ d.table \in M2 /\ d.tab[w.table][i] = Ref(d.table)
    BY <2>1, <2>2
  <2> QED
    BY <1>2, <2>3, <2>4 DEF d
<1> QED
  BY <1>2, <1>3, <1>4, <1>5

(* What a walk has done after the second level.                            *)
MidDone(w, d, i, alloc, R, M) ==
    /\ Keeps(w, d, alloc, R)
    /\ \A r \in R : \A j \in Idx : d.tab[r][j] = w.tab[r][j]
    /\ d.table = NULL /\ ~alloc => w.tab[w.table][i] = pte_zero
    /\ \E L2 : /\ Tree(d.tab, d.free, R, M, L2)
               /\ \/ d.table = NULL
                  \/ d.table \in L2 /\ d.tab[w.table][i] = Ref(d.table)

LEMMA DescendMid ==
    ASSUME NEW w \in WalkRec, NEW R, NEW M, NEW L,
           Tree(w.tab, w.free, R, M, L), w.table \in M,
           NEW i \in Idx, NEW alloc \in BOOLEAN
    PROVE  MidDone(w, Descend(w, i, alloc), i, alloc, R, M)
<1> DEFINE d == Descend(w, i, alloc)
<1> USE DEF MidDone
<1>1. /\ w.table \in Page /\ w.free[w.table] = 0
      /\ \/ w.tab[w.table][i] = pte_zero
         \/ \E p \in L : w.tab[w.table][i] = Ref(p)
      /\ L \subseteq Page
  BY DEF Tree, Level
<1>2. /\ d \in WalkRec /\ d.ok = w.ok
      /\ \/ d.table = NULL /\ d.tab = w.tab /\ d.free = w.free
         \/ /\ d.tab = w.tab /\ d.free = w.free
            /\ w.tab[w.table][i] = Ref(d.table)
         \/ /\ alloc /\ w.tab[w.table][i] = pte_zero
            /\ Adds(w.tab, w.free, d.tab, d.free, w.table, i, d.table)
      /\ ~alloc /\ d.table = NULL => w.tab[w.table][i] = pte_zero
  BY <1>1, DescendFacts
<1> HIDE DEF d
<1>3. CASE d.table = NULL /\ d.tab = w.tab /\ d.free = w.free
  <2>1. SameLookups(w.tab, d.tab, R)
    BY <1>3, SameRefl
  <2> QED
    BY <1>2, <1>3, <2>1 DEF Keeps, d
<1>4. CASE d.tab = w.tab /\ d.free = w.free /\ w.tab[w.table][i] = Ref(d.table)
  <2>1. d.table \in L
    BY <1>1, <1>4, Entries
  <2>2. SameLookups(w.tab, d.tab, R)
    BY <1>4, SameRefl
  <2> QED
    BY <1>2, <1>4, <2>1, <2>2 DEF Keeps, d
<1>5. CASE /\ alloc /\ w.tab[w.table][i] = pte_zero
           /\ Adds(w.tab, w.free, d.tab, d.free, w.table, i, d.table)
  <2>1. /\ Tree(d.tab, d.free, R, M, L \union {d.table})
        /\ SameLookups(w.tab, d.tab, R)
    BY <1>5, MidAdds
  <2>2. d.tab[w.table][i] = Ref(d.table) /\ d.table \in L \union {d.table}
    BY <1>5 DEF Adds
  <2>3. Keeps(w, d, alloc, R)
    BY <1>2, <1>5, <2>1 DEF Keeps
  <2>4. \E L2 : /\ Tree(d.tab, d.free, R, M, L2)
                /\ \/ d.table = NULL
                   \/ d.table \in L2 /\ d.tab[w.table][i] = Ref(d.table)
    BY <2>1, <2>2
  <2>5. \A r \in R : \A j \in Idx : d.tab[r][j] = w.tab[r][j]
    BY <1>5 DEF Adds, Tree
  <2> QED
    BY <1>2, <2>3, <2>4, <2>5 DEF d
<1> QED
  BY <1>2, <1>3, <1>4, <1>5

(* The whole walk: its assertions hold, and it ends at the table that the  *)
(* indices of a lead to, or there is none.                                 *)
LEMMA WalkFacts ==
    ASSUME NEW M, NEW L, Tree(tab, free, roots, M, L), NEW r \in roots,
           NEW a, a < MAXVA, vpn_index(2, a) \in Idx, vpn_index(1, a) \in Idx,
           NEW alloc \in BOOLEAN
    PROVE  LET w == pgtable_walk(r, a, alloc)
           IN  /\ w \in WalkRec /\ w.ok = TRUE
               /\ SameLookups(tab, w.tab, roots)
               /\ ~alloc => w.tab = tab /\ w.free = free
               /\ w.table = NULL /\ ~alloc =>
                      \A k : Lookup(tab, r, vpn_index(2, a), vpn_index(1, a), k)
                                 = pte_zero
               /\ \E M2, L2 :
                      /\ Tree(w.tab, w.free, roots, M2, L2)
                      /\ \/ w.table = NULL
                         \/ /\ w.table \in L2
                            /\ \E m \in M2 :
                                   LeafPath(w.tab, r, vpn_index(2, a),
                                            vpn_index(1, a), m, w.table)
<1> DEFINE i == vpn_index(2, a)
           j == vpn_index(1, a)
           w0 == [tab |-> tab, free |-> free, table |-> r, ok |-> a < MAXVA]
           d == Descend(w0, i, alloc)
           w == Descend(d, j, alloc)
<1>1. w = pgtable_walk(r, a, alloc)
  BY DEF pgtable_walk
<1>2. /\ w0 \in WalkRec /\ w0.ok = TRUE /\ w0.table = r /\ w0.tab = tab
      /\ w0.free = free
  <2>1. tab \in [Page -> [Idx -> Pte]] /\ free \in [Page -> 0..1] /\ r \in Page
    BY DEF Tree
  <2>2. w0 = [tab |-> tab, free |-> free, table |-> r, ok |-> TRUE]
    OBVIOUS
  <2> QED
    BY <2>1, <2>2 DEF WalkRec
<1> HIDE DEF w0, i, j
<1>3. i \in Idx /\ j \in Idx
  BY DEF i, j
<1>4. /\ Keeps(w0, d, alloc, roots)
      /\ d.table = NULL /\ ~alloc => w0.tab[w0.table][i] = pte_zero
      /\ \E M2 : /\ Tree(d.tab, d.free, roots, M2, L)
                 /\ \/ d.table = NULL
                    \/ d.table \in M2 /\ d.tab[w0.table][i] = Ref(d.table)
  BY <1>2, <1>3, DescendTop
<1> HIDE DEF d
<1>5. PICK M2 : /\ Tree(d.tab, d.free, roots, M2, L)
                /\ \/ d.table = NULL
                   \/ d.table \in M2 /\ d.tab[r][i] = Ref(d.table)
  BY <1>2, <1>4
<1>6. /\ d \in WalkRec /\ d.ok = TRUE /\ SameLookups(tab, d.tab, roots)
      /\ ~alloc => d.tab = tab /\ d.free = free
  BY <1>2, <1>4 DEF Keeps
<1> DEFINE Goal ==
      /\ w \in WalkRec /\ w.ok = TRUE
      /\ SameLookups(tab, w.tab, roots)
      /\ ~alloc => w.tab = tab /\ w.free = free
      /\ w.table = NULL /\ ~alloc => \A k : Lookup(tab, r, i, j, k) = pte_zero
      /\ \E N2, L2 :
             /\ Tree(w.tab, w.free, roots, N2, L2)
             /\ \/ w.table = NULL
                \/ /\ w.table \in L2
                   /\ \E m \in N2 : LeafPath(w.tab, r, i, j, m, w.table)
<1>7. CASE d.table = NULL
  <2>1. w = d
    BY <1>7 DEF Descend
  <2>2. ASSUME ~alloc, NEW k PROVE Lookup(tab, r, i, j, k) = pte_zero
    BY <1>2, <1>4, <1>7, <2>2, LookupZero
  <2> HIDE DEF w
  <2>3. Goal
    BY <1>5, <1>6, <1>7, <2>1, <2>2
  <2> QED
    BY <1>1, <2>3 DEF i, j
<1>8. CASE d.table # NULL
  <2>1. d.table \in M2 /\ d.tab[r][i] = Ref(d.table)
    BY <1>5, <1>8
  <2>2. /\ Keeps(d, w, alloc, roots)
        /\ \A s \in roots : \A k \in Idx : w.tab[s][k] = d.tab[s][k]
        /\ w.table = NULL /\ ~alloc => d.tab[d.table][j] = pte_zero
        /\ \E L2 : /\ Tree(w.tab, w.free, roots, M2, L2)
                   /\ \/ w.table = NULL
                      \/ w.table \in L2 /\ w.tab[d.table][j] = Ref(w.table)
    <3>1. /\ d \in WalkRec /\ Tree(d.tab, d.free, roots, M2, L)
          /\ d.table \in M2 /\ j \in Idx
      BY <1>3, <1>5, <1>6, <2>1
    <3>2. MidDone(d, w, j, alloc, roots, M2)
      BY <3>1, DescendMid
    <3> QED
      BY <3>2 DEF MidDone
  <2> HIDE DEF w
  <2>3. PICK L2 : /\ Tree(w.tab, w.free, roots, M2, L2)
                  /\ \/ w.table = NULL
                     \/ w.table \in L2 /\ w.tab[d.table][j] = Ref(w.table)
    BY <2>2
  <2>4. /\ w \in WalkRec /\ w.ok = TRUE /\ SameLookups(d.tab, w.tab, roots)
        /\ ~alloc => w.tab = tab /\ w.free = free
    BY <1>6, <2>2 DEF Keeps
  <2>5. SameLookups(tab, w.tab, roots)
    BY <1>6, <2>4 DEF SameLookups
  <2>6. ASSUME ~alloc, w.table = NULL, NEW k
        PROVE  Lookup(tab, r, i, j, k) = pte_zero
    <3>1. MidPath(tab, r, i, j, d.table)
      BY <1>6, <2>1, <2>2, <2>6 DEF MidPath
    <3> QED
      BY <3>1, LookupMid
  <2>7. ASSUME w.table # NULL
        PROVE  /\ w.table \in L2
               /\ LeafPath(w.tab, r, i, j, d.table, w.table)
    BY <1>3, <2>1, <2>2, <2>3, <2>7 DEF LeafPath
  <2>8. Goal
    <3>1. \/ w.table = NULL
          \/ /\ w.table \in L2
             /\ \E m \in M2 : LeafPath(w.tab, r, i, j, m, w.table)
      BY <2>1, <2>7
    <3> QED
      BY <2>3, <2>4, <2>5, <2>6, <3>1
  <2> QED
    BY <1>1, <2>8 DEF i, j
<1> QED
  BY <1>7, <1>8

-----------------------------------------------------------------------------
(* The invariant holds initially.                                          *)

LEMMA NoOpRec == NoOp \in OpRec /\ NoOp.kind = "none" /\ NoOp.root = NULL
<1>1. NoOp = [kind |-> "none", root |-> NULL, va |-> 0, size |-> 0, addr |-> 0,
              pa |-> 0, flags |-> {}]
  BY DEF NoOp
<1> QED
  BY <1>1 DEF OpRec

LEMMA JunkType == Junk \in [Idx -> Pte]
<1>1. mk_pte(0, {"V", "R"}) = [pa |-> 0, flags |-> {"V", "R"}]
  BY DEF mk_pte
<1>2. mk_pte(0, {"V", "R"}) \in Pte
  BY <1>1 DEF Pte, Flags, RWX
<1> QED
  BY <1>2 DEF Junk

LEMMA InitIInv ==
    ASSUME Init
    PROVE  IInv
<1>1. Tree(tab, free, roots, {}, {})
  BY JunkType DEF Init, Tree, Level
<1> QED
  BY <1>1, NoOpRec DEF Init, IInv

(* pgtable_create(): an empty address space of its own.                    *)
LEMMA CreateStep ==
    ASSUME IInv, pgtable_create
    PROVE  /\ IInv'
           /\ SameMaps(tab, tab', roots)
           /\ \E p \in Page \ roots :
                  /\ roots' = roots \union {p}
                  /\ \A v \in Vpn : At(tab', p, v) = pte_zero
<1>1. PICK M \in SUBSET Page, L \in SUBSET Page : Tree(tab, free, roots, M, L)
  BY DEF IInv
<1> DEFINE p == page_alloc(Available(free))
           z == [i \in Idx |-> pte_zero]
           fc == [free EXCEPT ![p] = @ - 1]
           tc == [tab EXCEPT ![p] = z]
<1>2. /\ tab \in [Page -> [Idx -> Pte]] /\ free \in [Page -> 0..1]
      /\ Available(free) # {}
  BY <1>1 DEF Tree, pgtable_create
<1>3. /\ p \in Page /\ free[p] = 1 /\ fc \in [Page -> 0..1] /\ fc[p] = 0
      /\ \A q \in Page : q # p => fc[q] = free[q]
  BY <1>2, CreatedFacts
<1>4. tab' = tc /\ free' = fc /\ roots' = roots \union {p}
  <2> DEFINE w == [tab |-> tab, free |-> free, table |-> NULL]
  <2>1. Created(w) = [w EXCEPT !.table = p, !.free = fc, !.tab = tc]
    BY DEF Created
  <2>2. Created(w).tab = tc /\ Created(w).free = fc /\ Created(w).table = p
    BY <2>1
  <2> HIDE DEF p, fc, tc
  <2> QED
    BY <2>2 DEF pgtable_create
<1>5. z \in [Idx -> Pte] /\ \A i \in Idx : z[i] = pte_zero
  BY Entries
<1> HIDE DEF p, z, fc
<1>6. /\ tc \in [Page -> [Idx -> Pte]] /\ \A i \in Idx : tc[p][i] = pte_zero
      /\ \A q \in Page : q # p => tc[q] = tab[q]
  BY <1>2, <1>3, <1>5
<1> HIDE DEF tc
<1>7. /\ roots \subseteq Page /\ p \notin roots \union M \union L
      /\ roots \intersect M = {} /\ roots \intersect L = {} /\ M \intersect L = {}
  BY <1>1, <1>3 DEF Tree
<1>8. /\ \A t \in roots : \A i \in Idx : tc[t][i] = tab[t][i]
      /\ \A t \in M \union L : \A i \in Idx : tc[t][i] = tab[t][i]
  BY <1>6, <1>7
<1>9. Level(tc, roots \union {p}, M)
  BY <1>1, <1>6, <1>7, <1>8, LevelNew DEF Tree
<1>10. Level(tc, M, L)
  BY <1>1, <1>8, LevelSame DEF Tree
<1>11. Tree(tc, fc, roots \union {p}, M, L)
  <2>1. \A q \in Page : fc[q] = 0 <=> q \in (roots \union {p}) \union M \union L
    BY <1>1, <1>3 DEF Tree
  <2>2. \A t \in L : \A i \in Idx : tc[t][i] = pte_zero \/ tc[t][i] \in LeafPte
    BY <1>1, <1>8 DEF Tree
  <2> QED
    BY <1>3, <1>6, <1>7, <1>9, <1>10, <2>1, <2>2 DEF Tree
<1>12. IInv'
  <2>1. op' = op /\ op = NoOp /\ stopped' = stopped
    BY DEF pgtable_create
  <2>2. Tree(tab', free', roots', M, L)
    BY <1>4, <1>11
  <2> QED
    BY <2>1, <2>2 DEF IInv, NoOp
<1>13. ASSUME NEW r \in roots, NEW i \in Idx, NEW j \in Idx, NEW k \in Idx
       PROVE  Lookup(tc, r, i, j, k) = Lookup(tab, r, i, j, k)
  <2>1. tc[r][i] = tab[r][i]
    BY <1>8
  <2>2. CASE tab[r][i] = pte_zero
    BY <2>1, <2>2, LookupZero
  <2>3. ASSUME NEW m \in M, tab[r][i] = Ref(m), tab[m][j] = pte_zero
        PROVE  Lookup(tc, r, i, j, k) = Lookup(tab, r, i, j, k)
    <3>1. MidPath(tc, r, i, j, m) /\ MidPath(tab, r, i, j, m)
      BY <1>8, <2>1, <2>3 DEF MidPath
    <3> QED
      BY <3>1, LookupMid
  <2>4. ASSUME NEW m \in M, NEW l \in L, tab[r][i] = Ref(m), tab[m][j] = Ref(l)
        PROVE  Lookup(tc, r, i, j, k) = Lookup(tab, r, i, j, k)
    <3>1. LeafPath(tc, r, i, j, m, l) /\ LeafPath(tab, r, i, j, m, l)
      BY <1>8, <2>1, <2>4 DEF LeafPath
    <3>2. tc[l][k] = tab[l][k]
      BY <1>8
    <3> QED
      BY <3>1, <3>2, LookupLeaf
  <2> QED
    BY <1>1, <2>2, <2>3, <2>4, LookupFacts
<1>14. SameMaps(tab, tab', roots)
  BY <1>4, <1>13, MapsOfLookups DEF SameLookups
<1>15. ASSUME NEW v \in Vpn PROVE At(tab', p, v) = pte_zero
  BY <1>4, <1>6, VpnIndex, LookupZero DEF At
<1> QED
  BY <1>3, <1>4, <1>7, <1>12, <1>14, <1>15

-----------------------------------------------------------------------------
(* The operation under way.                                                *)

(* It is at a page of the range of its call, which is below MAXVA.         *)
LEMMA AtPage ==
    ASSUME NEW c \in Calls, OpServes(c), ~AtEnd
    PROVE  /\ op.addr \in PagesOf(c) /\ op.addr \in Nat /\ op.addr < MAXVA
           /\ op.addr \div PAGE_SIZE \in Vpn
           /\ (op.addr \div PAGE_SIZE) * PAGE_SIZE = op.addr
           /\ op.addr + PAGE_SIZE \in Nat
           /\ (op.addr + PAGE_SIZE) % PAGE_SIZE = 0
           /\ op.addr + PAGE_SIZE <= EndOf(c)
           /\ \A a \in PagesOf(c) : a < op.addr + PAGE_SIZE <=> a <= op.addr
<1> DEFINE e == EndOf(c)
<1>1. e \in Nat /\ e % PAGE_SIZE = 0 /\ e <= MAXVA /\ MAXVA \in Nat
  BY CallFacts, PgTableAssumption
<1>2. /\ op.addr \in Nat /\ op.addr % PAGE_SIZE = 0
      /\ align_down(c.va) <= op.addr
  BY DEF OpServes
<1>3. EndOf(op) = e
  BY DEF OpServes, EndOf
<1> HIDE DEF e
<1>4. op.addr < e
  BY <1>1, <1>2, <1>3 DEF AtEnd
<1>5. PAGE_SIZE \in Nat \ {0}
  BY PgTableAssumption
<1>6. op.addr \in PagesOf(c)
  BY <1>2, <1>4, PagesOfCall DEF e
<1>7. op.addr < MAXVA
  BY <1>1, <1>2, <1>4
<1>8. op.addr + PAGE_SIZE <= e /\ (op.addr + PAGE_SIZE) % PAGE_SIZE = 0
  BY <1>1, <1>2, <1>4, <1>5, Spaced
<1>9. ASSUME NEW a \in PagesOf(c)
      PROVE  a < op.addr + PAGE_SIZE <=> a <= op.addr
  <2>1. a \in Nat /\ a % PAGE_SIZE = 0
    BY PagesOfCall
  <2>2. op.addr < a => op.addr + PAGE_SIZE <= a
    BY <1>2, <1>5, <2>1, Spaced
  <2> QED
    BY <1>2, <1>5, <2>1, <2>2
<1>10. op.addr + PAGE_SIZE \in Nat
  BY <1>2, <1>5
<1> QED
  BY <1>2, <1>6, <1>7, <1>8, <1>9, <1>10, PageOf DEF e

LEMMA CallPage ==
    ASSUME NEW c \in Calls, NEW a \in PagesOf(c)
    PROVE  /\ a \in Nat /\ a % PAGE_SIZE = 0 /\ a < MAXVA
           /\ a \div PAGE_SIZE \in Vpn /\ (a \div PAGE_SIZE) * PAGE_SIZE = a
<1>1. a \in Nat /\ a % PAGE_SIZE = 0 /\ a < EndOf(c)
  BY PagesOfCall
<1>2. EndOf(c) \in Nat /\ EndOf(c) <= MAXVA /\ MAXVA \in Nat
  BY CallFacts, PgTableAssumption
<1>3. a < MAXVA
  BY <1>1, <1>2
<1> QED
  BY <1>1, <1>3, PageOf

(* The entry that pgtable_map() makes.                                     *)
LEMMA NewEntry ==
    ASSUME NEW c \in Calls, NEW a \in PagesOf(c)
    PROVE  LET e == mk_pte(c.pa + a - align_down(c.va), c.flags \union {"V"})
           IN  e \in LeafPte /\ e \in Pte
<1> DEFINE b == align_down(c.va)
           e == mk_pte(c.pa + a - b, c.flags \union {"V"})
<1>1. e \in LeafPte
  BY DEF LeafPte
<1>2. b \in Nat /\ c.pa \in Nat /\ a \in Nat /\ b <= a
  BY CallFacts, PagesOfCall
<1>3. c.pa + a - b \in Nat
  <2> HIDE DEF b
  <2> QED
    BY <1>2
<1>4. c.flags \union {"V"} \in Flags
  BY CallFacts DEF Flags
<1>5. e \in Pte
  <2> DEFINE x == c.pa + a - b
             f == c.flags \union {"V"}
  <2> HIDE DEF x, f
  <2>1. mk_pte(x, f) \in Pte
    BY <1>3, <1>4 DEF mk_pte, Pte, x, f
  <2> QED
    BY <2>1 DEF x, f
<1> QED
  BY <1>1, <1>5

(* The entry that a walk for v finds is what is mapped there, and writing  *)
(* it changes that mapping and no other.                                   *)
Found(w, r, v) ==
    /\ w.table \in Page
    /\ w.tab[w.table][vpn_index(0, v * PAGE_SIZE)] = At(tab, r, v)
    /\ At(tab, r, v) = pte_zero \/ At(tab, r, v) \in LeafPte

LEMMA WalkWrites ==
    ASSUME NEW M, NEW L, Tree(tab, free, roots, M, L), NEW r \in roots,
           NEW v \in Vpn, v * PAGE_SIZE < MAXVA, NEW alloc \in BOOLEAN,
           pgtable_walk(r, v * PAGE_SIZE, alloc).table # NULL
    PROVE  LET w == pgtable_walk(r, v * PAGE_SIZE, alloc)
           IN  /\ Found(w, r, v)
               /\ \A e \in Pte : e = pte_zero \/ e \in LeafPte =>
                      LET tc == [w.tab EXCEPT ![w.table][vpn_index(0, v * PAGE_SIZE)] = e]
                      IN  /\ Writes(tab, tc, roots, r, v, e)
                          /\ \E M2, L2 : Tree(tc, w.free, roots, M2, L2)
<1> DEFINE a == v * PAGE_SIZE
           w == pgtable_walk(r, a, alloc)
           i0 == vpn_index(2, a)
           j0 == vpn_index(1, a)
           k0 == vpn_index(0, a)
<1>1. i0 \in Idx /\ j0 \in Idx /\ k0 \in Idx
  BY VpnIndex
<1>2. /\ SameLookups(tab, w.tab, roots)
      /\ \E M2, L2 :
             /\ Tree(w.tab, w.free, roots, M2, L2)
             /\ \/ w.table = NULL
                \/ /\ w.table \in L2
                   /\ \E m \in M2 : LeafPath(w.tab, r, i0, j0, m, w.table)
  BY <1>1, WalkFacts
<1> HIDE DEF a, w, i0, j0, k0
<1>3. w.table # NULL
  BY DEF w, a
<1>4. PICK M2, L2 :
          /\ Tree(w.tab, w.free, roots, M2, L2)
          /\ w.table \in L2
          /\ \E m \in M2 : LeafPath(w.tab, r, i0, j0, m, w.table)
  BY <1>2, <1>3
<1>5. PICK m \in M2 : LeafPath(w.tab, r, i0, j0, m, w.table)
  BY <1>4
<1>6. Lookup(w.tab, r, i0, j0, k0) = w.tab[w.table][k0]
  BY <1>5, LookupLeaf
<1>7. At(tab, r, v) = w.tab[w.table][k0]
  <2>1. Lookup(w.tab, r, i0, j0, k0) = Lookup(tab, r, i0, j0, k0)
    BY <1>1, <1>2 DEF SameLookups
  <2> QED
    BY <1>6, <2>1 DEF At, i0, j0, k0, a
<1>8. w.table \in Page /\ (w.tab[w.table][k0] = pte_zero \/ w.tab[w.table][k0] \in LeafPte)
  BY <1>1, <1>4 DEF Tree
<1>9. ASSUME NEW e \in Pte, e = pte_zero \/ e \in LeafPte,
             NEW tc, tc = [w.tab EXCEPT ![w.table][k0] = e]
      PROVE  /\ Writes(tab, tc, roots, r, v, e)
             /\ \E M3, L3 : Tree(tc, w.free, roots, M3, L3)
  <2>1. w.tab[r][i0] = Ref(m) /\ w.tab[m][j0] = Ref(w.table)
    BY <1>5 DEF LeafPath
  <2>2. /\ Tree(tc, w.free, roots, M2, L2)
        /\ Lookup(tc, r, i0, j0, k0) = e
        /\ \A s \in roots : \A i, j, k \in Idx :
               s # r \/ i # i0 \/ j # j0 \/ k # k0 =>
                   Lookup(tc, s, i, j, k) = Lookup(w.tab, s, i, j, k)
    <3>1. Tree(tc, w.free, roots, M2, L2) /\ SetsOne(w.tab, tc, roots, r, i0, j0, k0, e)
      BY <1>1, <1>4, <1>9, <2>1, SetLeaf
    <3> QED
      BY <3>1 DEF SetsOne
  <2>3. \A s \in roots : \A i, j, k \in Idx :
            s # r \/ i # i0 \/ j # j0 \/ k # k0 =>
                Lookup(tc, s, i, j, k) = Lookup(tab, s, i, j, k)
    BY <1>2, <2>2 DEF SameLookups
  <2>4. Writes(tab, tc, roots, r, v, e)
    BY <2>2, <2>3, WritesOne DEF i0, j0, k0, a
  <2> QED
    BY <2>2, <2>4
<1>10. Found(w, r, v)
  BY <1>7, <1>8 DEF Found, k0, a
<1> QED
  BY <1>9, <1>10 DEF w, k0, a

-----------------------------------------------------------------------------
(* One lemma per action: it keeps the invariant, and what it does to the   *)
(* address spaces.                                                         *)

(* The part of OpServes that an iteration of pgtable_map() must restore.   *)
LEMMA MapAdvances ==
    ASSUME NEW c \in Calls, OpServes(c), op \in OpRec, op.kind = "map", ~AtEnd,
           Advance, roots' = roots,
           Writes(tab, tab', roots, op.root, op.addr \div PAGE_SIZE,
                  mk_pte(op.pa, op.flags \union {"V"}))
    PROVE  op' \in OpRec /\ OpServes(c)'
<1> DEFINE r == op.root
           E(a) == mk_pte(c.pa + a - align_down(c.va), c.flags \union {"V"})
<1>1. /\ r \in roots /\ op.va = c.va /\ op.size = c.size
      /\ op.addr \in Nat /\ op.addr % PAGE_SIZE = 0 /\ op.flags = c.flags
      /\ align_down(c.va) <= op.addr /\ op.addr <= EndOf(c)
      /\ op.pa = c.pa + op.addr - align_down(c.va)
      /\ \A a \in PagesOf(c) : a < op.addr => At(tab, r, a \div PAGE_SIZE) = E(a)
  BY TranslatedIs DEF OpServes
<1>2. /\ op'.kind = "map" /\ op'.root = r /\ op'.va = op.va /\ op'.size = op.size
      /\ op'.addr = op.addr + PAGE_SIZE /\ op'.pa = op.pa + PAGE_SIZE
      /\ op'.flags = op.flags
  BY DEF Advance, OpRec
<1>3. /\ PAGE_SIZE \in Nat \ {0} /\ c.pa \in Nat /\ align_down(c.va) \in Nat
      /\ EndOf(c) \in Nat
  BY PgTableAssumption, CallFacts
<1>4. op' \in OpRec
  <2>1. op.pa \in Int /\ op.pa + PAGE_SIZE \in Int /\ op.addr + PAGE_SIZE \in Nat
    BY <1>1, <1>3 DEF OpRec
  <2> QED
    BY <2>1 DEF Advance, OpRec
<1>5. /\ op.addr \in PagesOf(c) /\ op.addr + PAGE_SIZE \in Nat
      /\ (op.addr + PAGE_SIZE) % PAGE_SIZE = 0
      /\ op.addr + PAGE_SIZE <= EndOf(c)
      /\ \A a \in PagesOf(c) : a < op.addr + PAGE_SIZE <=> a <= op.addr
  BY AtPage
<1>6. /\ align_down(c.va) <= op'.addr
      /\ op'.pa = c.pa + op'.addr - align_down(c.va)
  <2> DEFINE b == align_down(c.va)
  <2> HIDE DEF b
  <2>1. b \in Nat /\ b <= op.addr /\ op.pa = c.pa + op.addr - b
    BY <1>1, <1>3 DEF b
  <2>2. b <= op'.addr /\ op'.pa = c.pa + op'.addr - b
    BY <1>1, <1>2, <1>3, <2>1
  <2> QED
    BY <2>2 DEF b
<1>7. ASSUME NEW a \in PagesOf(c), a < op'.addr
      PROVE  Translated(op.root, a \div PAGE_SIZE)' = E(a)
  <2>1. Translated(op.root, a \div PAGE_SIZE)' = At(tab', r, a \div PAGE_SIZE)
    BY <1>2 DEF Translated, Lookup, At
  <2>2. CASE a = op.addr
    BY <1>1, <2>1, <2>2 DEF Writes
  <2>3. CASE a # op.addr
    <3>1. a < op.addr
      BY <1>1, <1>2, <1>5, <1>7, <2>3, CallPage
    <3>2. a \div PAGE_SIZE # op.addr \div PAGE_SIZE /\ a \div PAGE_SIZE \in Vpn
      BY <1>5, <2>3, CallPage
    <3>3. At(tab', r, a \div PAGE_SIZE) = At(tab, r, a \div PAGE_SIZE)
      BY <1>1, <3>2 DEF Writes
    <3> QED
      BY <1>1, <2>1, <3>1, <3>3
  <2> QED
    BY <2>2, <2>3
<1>8. OpServes(c)'
  <2>1. /\ op'.root \in roots' /\ op'.va = c.va /\ op'.size = c.size
        /\ op'.addr \in Nat /\ op'.addr % PAGE_SIZE = 0
        /\ op'.addr <= EndOf(c) /\ op'.flags = c.flags
    BY <1>1, <1>2, <1>5
  <2> QED
    BY <1>2, <1>6, <1>7, <2>1 DEF OpServes
<1> QED
  BY <1>4, <1>8

LEMMA MapStep ==
    ASSUME IInv, pgtable_map
    PROVE  /\ IInv' /\ roots' = roots
           /\ \/ SameMaps(tab, tab', roots)
              \/ \E r \in roots : \E v \in Vpn : \E e \in LeafPte :
                     At(tab, r, v) = pte_zero /\ Writes(tab, tab', roots, r, v, e)
<1>1. PICK M \in SUBSET Page, L \in SUBSET Page : Tree(tab, free, roots, M, L)
  BY DEF IInv
<1>2. op.kind = "map" /\ ~AtEnd /\ op \in OpRec /\ roots' = roots
  BY DEF IInv, pgtable_map
<1>3. PICK c \in Calls : OpServes(c)
  BY <1>2, NoOpRec DEF IInv
<1> DEFINE r == op.root
           v == op.addr \div PAGE_SIZE
           w == pgtable_walk(op.root, op.addr, TRUE)
           i == vpn_index(0, op.addr)
           e == mk_pte(op.pa, op.flags \union {"V"})
<1>4. /\ v \in Vpn /\ v * PAGE_SIZE = op.addr /\ op.addr < MAXVA
      /\ op.addr \in PagesOf(c)
  BY <1>2, <1>3, AtPage
<1>5. /\ r \in roots /\ op.pa = c.pa + op.addr - align_down(c.va)
      /\ op.flags = c.flags
  BY <1>2, <1>3 DEF OpServes
<1>6. /\ w \in WalkRec /\ w.ok = TRUE /\ SameLookups(tab, w.tab, roots)
      /\ \E M2, L2 : Tree(w.tab, w.free, roots, M2, L2)
  <2>1. vpn_index(2, op.addr) \in Idx /\ vpn_index(1, op.addr) \in Idx
    BY <1>4, VpnIndex
  <2> QED
    BY <1>1, <1>4, <1>5, <2>1, WalkFacts
<1>7. /\ free' = w.free /\ stopped' = FALSE
      /\ IF Occupied(w, i) THEN tab' = w.tab /\ op' = NoOp
         ELSE tab' = [w.tab EXCEPT ![w.table][i] = e] /\ Advance
  BY <1>6 DEF pgtable_map
<1> HIDE DEF w
<1>8. CASE Occupied(w, i)
  <2>1. tab' = w.tab /\ op' = NoOp
    BY <1>7, <1>8
  <2>2. PICK M2, L2 : Tree(tab', free', roots', M2, L2)
    BY <1>2, <1>6, <1>7, <2>1
  <2>3. M2 \in SUBSET Page /\ L2 \in SUBSET Page
    BY <2>2 DEF Tree
  <2>4. IInv'
    BY <1>7, <2>1, <2>2, <2>3, NoOpRec DEF IInv, NoOp
  <2>5. SameMaps(tab, tab', roots)
    BY <1>6, <2>1, MapsOfLookups
  <2> QED
    BY <1>2, <2>4, <2>5
<1>9. CASE ~Occupied(w, i)
  <2>1. tab' = [w.tab EXCEPT ![w.table][i] = e] /\ Advance
    BY <1>7, <1>9
  <2>2. w.table # NULL /\ ~pte_present(w.tab[w.table][i])
    BY <1>9 DEF Occupied
  <2>3. e \in LeafPte /\ e \in Pte
    BY <1>3, <1>4, <1>5, NewEntry
  <2> HIDE DEF e
  <2>4. /\ Found(w, r, v)
        /\ Writes(tab, tab', roots, r, v, e)
        /\ \E M2, L2 : Tree(tab', w.free, roots, M2, L2)
    <3>1. w = pgtable_walk(r, v * PAGE_SIZE, TRUE) /\ v * PAGE_SIZE < MAXVA
      BY <1>4 DEF w
    <3>2. tab' = [w.tab EXCEPT ![w.table][vpn_index(0, v * PAGE_SIZE)] = e]
      BY <1>4, <2>1
    <3> HIDE DEF v, r
    <3> QED
      BY <1>1, <1>4, <1>5, <2>2, <2>3, <3>1, <3>2, WalkWrites
  <2>5. At(tab, r, v) = pte_zero
    <3>1. w.tab[w.table][i] = At(tab, r, v)
      BY <1>4, <2>4 DEF Found
    <3> QED
      BY <2>2, <2>4, <3>1, Entries DEF Found
  <2>6. op' \in OpRec /\ OpServes(c)'
    BY <1>2, <1>3, <2>1, <2>4, MapAdvances DEF e
  <2>7. PICK M2, L2 : Tree(tab', free', roots', M2, L2)
    BY <1>2, <1>7, <2>4
  <2>8. M2 \in SUBSET Page /\ L2 \in SUBSET Page
    BY <2>7 DEF Tree
  <2>9. IInv'
    BY <1>7, <2>6, <2>7, <2>8 DEF IInv
  <2> QED
    BY <1>2, <1>4, <1>5, <2>3, <2>4, <2>5, <2>9
<1> QED
  BY <1>8, <1>9

LEMMA CallMapStep ==
    ASSUME IInv, NEW r \in roots, NEW c \in Calls, CallMap(r, c)
    PROVE  IInv' /\ roots' = roots /\ tab' = tab
<1> DEFINE b == align_down(c.va)
<1>1. /\ tab' = tab /\ free' = free /\ roots' = roots /\ stopped' = stopped
      /\ op' = [kind |-> "map", root |-> r, va |-> c.va, size |-> c.size,
                addr |-> b, pa |-> c.pa, flags |-> c.flags]
  BY DEF CallMap
<1>2. /\ c.va \in Nat /\ c.size \in Nat \ {0} /\ c.pa \in Nat
      /\ c.flags \in SUBSET (RWX \union {"U"})
      /\ b \in Nat /\ b % PAGE_SIZE = 0 /\ b <= EndOf(c)
  BY CallFacts
<1>3. r \in Page
  BY DEF IInv, Tree
<1> HIDE DEF b
<1>4. /\ op'.kind = "map" /\ op'.root = r /\ op'.va = c.va /\ op'.size = c.size
      /\ op'.addr = b /\ op'.pa = c.pa /\ op'.flags = c.flags
      /\ op' \in OpRec
  BY <1>1, <1>2, <1>3 DEF OpRec
<1>5. op'.pa = c.pa + op'.addr - b /\ b <= op'.addr
  BY <1>2, <1>4
<1>6. \A a \in PagesOf(c) : ~(a < op'.addr)
  BY <1>2, <1>4, PagesOfCall DEF b
<1>7. OpServes(c)'
  BY <1>1, <1>2, <1>4, <1>5, <1>6 DEF OpServes, b
<1> QED
  BY <1>1, <1>4, <1>7 DEF IInv

LEMMA CallUnmapStep ==
    ASSUME IInv, NEW r \in roots, NEW c \in Calls, CallUnmap(r, c)
    PROVE  IInv' /\ roots' = roots /\ tab' = tab
<1> DEFINE b == align_down(c.va)
<1>1. /\ tab' = tab /\ free' = free /\ roots' = roots /\ stopped' = stopped
      /\ op' = [NoOp EXCEPT !.kind = "unmap", !.root = r, !.va = c.va,
                            !.size = c.size, !.addr = b]
      /\ \A a \in PagesOf(c) : Mapped(r, a)
  BY DEF CallUnmap
<1>2. /\ c.va \in Nat /\ c.size \in Nat \ {0}
      /\ b \in Nat /\ b % PAGE_SIZE = 0 /\ b <= EndOf(c)
  BY CallFacts
<1>3. r \in Page
  BY DEF IInv, Tree
<1>4. PICK M \in SUBSET Page, L \in SUBSET Page : Tree(tab, free, roots, M, L)
  BY DEF IInv
<1>5. ASSUME NEW a \in PagesOf(c)
      PROVE  Translated(r, a \div PAGE_SIZE) # pte_zero
  <2> DEFINE v == a \div PAGE_SIZE
             w == pgtable_walk(r, v * PAGE_SIZE, FALSE)
  <2>1. v \in Vpn /\ v * PAGE_SIZE = a /\ v * PAGE_SIZE < MAXVA
    BY CallPage
  <2>2. /\ w.table # NULL
        /\ pte_present(w.tab[w.table][vpn_index(0, v * PAGE_SIZE)])
    BY <1>1, <2>1 DEF Mapped
  <2> HIDE DEF v
  <2>3. Found(w, r, v)
    BY <1>4, <2>1, <2>2, WalkWrites
  <2> HIDE DEF w
  <2>4. At(tab, r, v) # pte_zero
    BY <2>2, <2>3, Entries DEF Found
  <2> QED
    BY <2>4, TranslatedIs DEF v
<1> HIDE DEF b
<1>6. /\ op'.kind = "unmap" /\ op'.root = r /\ op'.va = c.va /\ op'.size = c.size
      /\ op'.addr = b /\ op' \in OpRec
  BY <1>1, <1>2, <1>3, NoOpRec DEF OpRec
<1>7. \A a \in PagesOf(c) : Translated(op.root, a \div PAGE_SIZE)' # pte_zero
  BY <1>1, <1>5, <1>6 DEF Translated
<1>8. OpServes(c)'
  BY <1>1, <1>2, <1>6, <1>7 DEF OpServes, b
<1> QED
  BY <1>1, <1>6, <1>8 DEF IInv

(* What is still to be unmapped is there, so the assertions hold.          *)
LEMMA UnmapStep ==
    ASSUME IInv, pgtable_unmap
    PROVE  /\ IInv' /\ roots' = roots
           /\ \E r \in roots : \E v \in Vpn :
                  /\ At(tab, r, v) # pte_zero
                  /\ Writes(tab, tab', roots, r, v, pte_zero)
<1>1. PICK M \in SUBSET Page, L \in SUBSET Page : Tree(tab, free, roots, M, L)
  BY DEF IInv
<1>2. /\ op.kind = "unmap" /\ ~AtEnd /\ op \in OpRec /\ roots' = roots
      /\ free' = free
  BY DEF IInv, pgtable_unmap
<1>3. PICK c \in Calls : OpServes(c)
  BY <1>2, NoOpRec DEF IInv
<1> DEFINE r == op.root
           v == op.addr \div PAGE_SIZE
           w == pgtable_walk(op.root, op.addr, FALSE)
           i == vpn_index(0, op.addr)
<1>4. /\ v \in Vpn /\ v * PAGE_SIZE = op.addr /\ op.addr < MAXVA
      /\ op.addr \in PagesOf(c) /\ op.addr \in Nat
      /\ op.addr + PAGE_SIZE \in Nat /\ (op.addr + PAGE_SIZE) % PAGE_SIZE = 0
      /\ op.addr + PAGE_SIZE <= EndOf(c)
  BY <1>2, <1>3, AtPage
<1>5. /\ r \in roots /\ op.va = c.va /\ op.size = c.size
      /\ align_down(c.va) <= op.addr
      /\ \A a \in PagesOf(c) : a >= op.addr =>
             At(tab, r, a \div PAGE_SIZE) # pte_zero
  BY <1>2, <1>3, TranslatedIs DEF OpServes
<1>6. At(tab, r, v) # pte_zero
  BY <1>4, <1>5
<1>7. w.ok = TRUE /\ w.tab = tab /\ w.free = free /\ w.table # NULL
  <2>1. vpn_index(2, op.addr) \in Idx /\ vpn_index(1, op.addr) \in Idx
    BY <1>4, VpnIndex
  <2>2. /\ w.ok = TRUE /\ w.tab = tab /\ w.free = free
        /\ w.table = NULL =>
               \A k : Lookup(tab, r, vpn_index(2, op.addr), vpn_index(1, op.addr), k)
                          = pte_zero
    BY <1>1, <1>4, <1>5, <2>1, WalkFacts
  <2> HIDE DEF w, v
  <2> QED
    BY <1>4, <1>6, <2>2 DEF At
<1>8. /\ Found(w, r, v)
      /\ LET tc == [tab EXCEPT ![w.table][i] = pte_zero]
         IN  /\ Writes(tab, tc, roots, r, v, pte_zero)
             /\ \E M2, L2 : Tree(tc, free, roots, M2, L2)
  <2>1. w = pgtable_walk(r, v * PAGE_SIZE, FALSE) /\ v * PAGE_SIZE < MAXVA
    BY <1>4
  <2>2. i = vpn_index(0, v * PAGE_SIZE)
    BY <1>4
  <2> HIDE DEF v, r, w, i
  <2> QED
    BY <1>1, <1>4, <1>5, <1>7, <2>1, <2>2, Entries, WalkWrites
<1>9. pte_present(w.tab[w.table][i]) /\ pte_leaf(w.tab[w.table][i])
  <2> HIDE DEF w, v, r
  <2>1. w.tab[w.table][i] = At(tab, r, v) /\ At(tab, r, v) \in LeafPte
    BY <1>4, <1>6, <1>8 DEF Found
  <2> QED
    BY <2>1, Entries
<1>10. /\ stopped' = FALSE /\ tab' = [tab EXCEPT ![w.table][i] = pte_zero]
       /\ op' = [op EXCEPT !.addr = @ + PAGE_SIZE]
  BY <1>7, <1>9 DEF pgtable_unmap
<1> HIDE DEF w, i
<1>11. Writes(tab, tab', roots, r, v, pte_zero)
  BY <1>8, <1>10
<1>12. /\ op'.kind = "unmap" /\ op'.root = r /\ op'.va = op.va
       /\ op'.size = op.size /\ op'.addr = op.addr + PAGE_SIZE /\ op' \in OpRec
  BY <1>2, <1>4, <1>10 DEF OpRec
<1>13. ASSUME NEW a \in PagesOf(c), a >= op'.addr
       PROVE  Translated(op.root, a \div PAGE_SIZE)' # pte_zero
  <2>1. Translated(op.root, a \div PAGE_SIZE)' = At(tab', r, a \div PAGE_SIZE)
    BY <1>12 DEF Translated, Lookup, At
  <2>2. a \in Nat /\ a > op.addr
    BY <1>4, <1>12, <1>13, CallPage, PgTableAssumption
  <2>3. a \div PAGE_SIZE \in Vpn /\ a \div PAGE_SIZE # v
    BY <1>4, <2>2, CallPage
  <2>4. At(tab', r, a \div PAGE_SIZE) = At(tab, r, a \div PAGE_SIZE)
    BY <1>5, <1>11, <2>3 DEF Writes
  <2> QED
    BY <1>4, <1>5, <2>1, <2>2, <2>4
<1>14. OpServes(c)'
  <2>1. align_down(c.va) \in Nat /\ PAGE_SIZE \in Nat
    BY CallFacts, PgTableAssumption
  <2>2. align_down(c.va) <= op.addr + PAGE_SIZE
    BY <1>4, <1>5, <2>1
  <2> QED
    BY <1>2, <1>4, <1>5, <1>12, <1>13, <2>2 DEF OpServes
<1>15. PICK M2, L2 : Tree(tab', free', roots', M2, L2)
  BY <1>2, <1>8, <1>10
<1>16. M2 \in SUBSET Page /\ L2 \in SUBSET Page
  BY <1>15 DEF Tree
<1>17. IInv'
  BY <1>10, <1>12, <1>14, <1>15, <1>16 DEF IInv
<1> QED
  BY <1>2, <1>4, <1>5, <1>6, <1>11, <1>17

LEMMA ReturnStep ==
    ASSUME IInv, Return
    PROVE  IInv' /\ roots' = roots /\ tab' = tab
BY NoOpRec DEF IInv, Return, NoOp

(* The tables that the tables of a level refer to.                         *)
LEMMA BelowLevel ==
    ASSUME NEW S, NEW T, Level(tab, S, T), NEW X \in SUBSET S
    PROVE  Below(X) = {p \in T : \E t \in X : \E i \in Idx : tab[t][i] = Ref(p)}
<1>1. ASSUME NEW p \in Below(X)
      PROVE  p \in T /\ \E t \in X : \E i \in Idx : tab[t][i] = Ref(p)
  <2>1. PICK t \in X, i \in Idx : /\ pte_present(tab[t][i])
                                  /\ tab[t][i].pa = p
    BY DEF Below
  <2>2. PICK q \in T : tab[t][i] = Ref(q)
    BY <2>1, Entries DEF Level
  <2>3. q = p
    BY <2>1, <2>2, Entries
  <2> QED
    BY <2>2, <2>3
<1>2. ASSUME NEW p \in T, NEW t \in X, NEW i \in Idx, tab[t][i] = Ref(p)
      PROVE  p \in Below(X)
  <2>1. /\ pte_present(tab[t][i]) /\ ~pte_leaf(tab[t][i])
        /\ tab[t][i].pa = p
    BY <1>2, Entries
  <2> QED
    BY <2>1 DEF Below
<1> QED
  BY <1>1, <1>2

(* pgtable_free_walk() returns the tables of one tree, and no other.       *)
LEMMA FreeWalkStep ==
    ASSUME IInv, NEW r \in roots, pgtable_free_walk(r)
    PROVE  /\ IInv' /\ roots' = roots \ {r}
           /\ SameMaps(tab, tab', roots \ {r})
<1>1. PICK M \in SUBSET Page, L \in SUBSET Page : Tree(tab, free, roots, M, L)
  BY DEF IInv
<1>2. /\ op = NoOp /\ op' = op /\ stopped' = stopped /\ roots' = roots \ {r}
      /\ free' = [p \in Page |-> IF p \in Walked(r) THEN free[p] + 1 ELSE free[p]]
      /\ tab' = [p \in Page |-> IF p \in Walked(r) THEN Junk ELSE tab[p]]
  BY DEF pgtable_free_walk
<1> DEFINE A == Below({r})
           B == Below(A)
<1>3. A = {p \in M : \E i \in Idx : tab[r][i] = Ref(p)}
  <2>1. Level(tab, roots, M) /\ {r} \in SUBSET roots
    BY <1>1 DEF Tree
  <2>2. A = {p \in M : \E t \in {r} : \E i \in Idx : tab[t][i] = Ref(p)}
    BY <2>1, BelowLevel
  <2> QED
    BY <2>2
<1>4. A \in SUBSET M
  BY <1>3
<1>5. B = {p \in L : \E m \in A : \E i \in Idx : tab[m][i] = Ref(p)}
  <2>1. Level(tab, M, L)
    BY <1>1 DEF Tree
  <2> HIDE DEF A
  <2> QED
    BY <1>4, <2>1, BelowLevel
<1>6. Walked(r) = {r} \union A \union B
  BY DEF Walked
<1> HIDE DEF A, B
<1>7. B \in SUBSET L
  BY <1>5
<1>8. /\ tab \in [Page -> [Idx -> Pte]] /\ free \in [Page -> 0..1]
      /\ \A p \in {r} \union A \union B : p \in Page /\ free[p] = 0
  BY <1>1, <1>4, <1>7 DEF Tree
<1>9. tab' \in [Page -> [Idx -> Pte]]
  BY <1>2, <1>8, JunkType
<1>10. /\ free' \in [Page -> 0..1]
       /\ \A p \in Page : /\ p \notin {r} \union A \union B =>
                                 tab'[p] = tab[p] /\ free'[p] = free[p]
                          /\ p \in {r} \union A \union B => free'[p] = 1
  BY <1>2, <1>6, <1>8
<1>11. /\ Tree(tab', free', roots \ {r}, M \ A, L \ B)
       /\ SameLookups(tab, tab', roots \ {r})
  <2>1. Frees(tab, free, tab', free', M, L, r, A, B)
    BY <1>3, <1>4, <1>5, <1>7, <1>9, <1>10 DEF Frees
  <2> QED
    BY <1>1, <2>1, TreeShrinks
<1>12. IInv'
  <2>1. Tree(tab', free', roots', M \ A, L \ B)
    BY <1>2, <1>11
  <2>2. M \ A \in SUBSET Page /\ L \ B \in SUBSET Page
    OBVIOUS
  <2> QED
    BY <1>2, <2>1, <2>2 DEF IInv, NoOp
<1> QED
  BY <1>2, <1>11, <1>12, MapsOfLookups

LEMMA StutterStep ==
    ASSUME IInv, UNCHANGED vars
    PROVE  IInv' /\ roots' = roots /\ tab' = tab
<1>1. /\ tab' = tab /\ free' = free /\ roots' = roots /\ op' = op
      /\ stopped' = stopped
  BY DEF vars
<1>2. ASSUME NEW c \in Calls, OpServes(c)
      PROVE  OpServes(c)'
  BY <1>1, <1>2 DEF OpServes, Translated
<1> QED
  BY <1>1, <1>2 DEF IInv

-----------------------------------------------------------------------------
(* The invariant of every behaviour, and what follows from it.             *)

(* The page tables are trees of three levels, each table is referred to    *)
(* once, a page is free or in one of them, and the operation under way     *)
(* has done its part of the range: kernel/pgtable.c.                       *)
THEOREM PgTableInvariant == Spec => []IInv
<1>1. Init => IInv
  BY InitIInv
<1>2. IInv /\ [Next]_vars => IInv'
  <2> SUFFICES ASSUME IInv, [Next]_vars
               PROVE  IInv'
    OBVIOUS
  <2>1. CASE pgtable_create
    BY <2>1, CreateStep
  <2>2. ASSUME NEW r \in roots, NEW c \in Calls, CallMap(r, c)
        PROVE  IInv'
    BY <2>2, CallMapStep
  <2>3. ASSUME NEW r \in roots, NEW c \in Calls, CallUnmap(r, c)
        PROVE  IInv'
    BY <2>3, CallUnmapStep
  <2>4. ASSUME NEW r \in roots, pgtable_free_walk(r)
        PROVE  IInv'
    BY <2>4, FreeWalkStep
  <2>5. CASE pgtable_map
    BY <2>5, MapStep
  <2>6. CASE pgtable_unmap
    BY <2>6, UnmapStep
  <2>7. CASE Return
    BY <2>7, ReturnStep
  <2>8. CASE UNCHANGED vars
    BY <2>8, StutterStep
  <2> QED
    BY <2>1, <2>2, <2>3, <2>4, <2>5, <2>6, <2>7, <2>8 DEF Next
<1> QED
  BY <1>1, <1>2, PTL DEF Spec

(* The type invariant.                                                     *)
THEOREM PgTableTypeCorrect == Spec => []TypeOK
<1>1. IInv => TypeOK
  <2> SUFFICES ASSUME IInv
               PROVE  TypeOK
    OBVIOUS
  <2>1. /\ tab \in [Page -> [Idx -> Pte]] /\ free \in [Page -> 0..1]
        /\ roots \subseteq Page
    BY DEF IInv, Tree
  <2>2. op.kind \in {"none", "map", "unmap"} /\ stopped \in BOOLEAN
    BY DEF IInv, OpRec
  <2>3. op.root \in roots \union {NULL} /\ op.addr \in 0..MAXVA
    <3>1. CASE op = NoOp
      BY <3>1, PgTableAssumption DEF NoOp
    <3>2. ASSUME NEW c \in Calls, OpServes(c)
          PROVE  op.root \in roots /\ op.addr \in 0..MAXVA
      <4>1. /\ op.root \in roots /\ op.addr \in Nat /\ op.addr <= EndOf(c)
        BY <3>2 DEF OpServes
      <4>2. EndOf(c) \in Nat /\ EndOf(c) <= MAXVA /\ MAXVA \in Nat
        BY CallFacts, PgTableAssumption
      <4> QED
        BY <4>1, <4>2
    <3> QED
      BY <3>1, <3>2 DEF IInv
  <2> QED
    BY <2>1, <2>2, <2>3 DEF TypeOK
<1> QED
  BY <1>1, PgTableInvariant, PTL

(* No assertion of pgtable_walk() or pgtable_unmap() fails, with any       *)
(* number of page tables and any ranges below MAXVA.                       *)
THEOREM PgTableAssertsHold == Spec => []AssertsHold
<1>1. IInv => AssertsHold
  BY DEF IInv, AssertsHold
<1> QED
  BY <1>1, PgTableInvariant, PTL

(* The entries that refer to p.                                            *)
LEMMA RefsTo ==
    ASSUME NEW M, NEW L, Tree(tab, free, roots, M, L), NEW p, NEW x
    PROVE  x \in TableRef /\ tab[x[1]][x[2]].pa = p
               <=> /\ x \in (roots \union M) \X Idx
                   /\ tab[x[1]][x[2]] = Ref(p)
<1>1. Level(tab, roots, M) /\ Level(tab, M, L)
  BY DEF Tree
<1>2. Below(roots) = M
  <2>1. Below(roots) = {q \in M : \E t \in roots : \E i \in Idx : tab[t][i] = Ref(q)}
    BY <1>1, BelowLevel
  <2> QED
    BY <1>1, <2>1 DEF Level
<1>3. Below(M) = L
  <2>1. Below(M) = {q \in L : \E t \in M : \E i \in Idx : tab[t][i] = Ref(q)}
    BY <1>1, BelowLevel
  <2> QED
    BY <1>1, <2>1 DEF Level
<1>4. Tables = roots \union M \union L
  BY <1>2, <1>3 DEF Tables
<1>5. ASSUME NEW t, NEW i \in Idx
      PROVE  <<t, i>> \in TableRef /\ tab[t][i].pa = p
                 <=> t \in roots \union M /\ tab[t][i] = Ref(p)
  <2>1. <<t, i>> \in TableRef <=>
            t \in Tables /\ pte_present(tab[t][i]) /\ ~pte_leaf(tab[t][i])
    BY DEF TableRef
  <2>2. ASSUME t \in roots \union M
        PROVE  tab[t][i] = pte_zero \/ \E q : tab[t][i] = Ref(q)
    BY <1>1, <2>2 DEF Level
  <2>3. ASSUME t \in L, pte_present(tab[t][i])
        PROVE  pte_leaf(tab[t][i])
    BY <2>3, Entries DEF Tree
  <2> QED
    BY <1>4, <2>1, <2>2, <2>3, Entries
<1>6. ASSUME x \in TableRef
      PROVE  x = <<x[1], x[2]>> /\ x[2] \in Idx
  BY <1>6 DEF TableRef
<1>7. ASSUME x \in (roots \union M) \X Idx
      PROVE  x = <<x[1], x[2]>> /\ x[2] \in Idx /\ x[1] \in roots \union M
  BY <1>7
<1>8. ASSUME x \in TableRef, tab[x[1]][x[2]].pa = p
      PROVE  x \in (roots \union M) \X Idx /\ tab[x[1]][x[2]] = Ref(p)
  BY <1>5, <1>6, <1>8
<1>9. ASSUME x \in (roots \union M) \X Idx, tab[x[1]][x[2]] = Ref(p)
      PROVE  x \in TableRef /\ tab[x[1]][x[2]].pa = p
  BY <1>5, <1>7, <1>9
<1> QED
  BY <1>8, <1>9

(* Every page is free, a root, or referred to, and that once.              *)
LEMMA OneUse ==
    ASSUME IInv
    PROVE  TablesHaveOneUse
<1>1. PICK M \in SUBSET Page, L \in SUBSET Page : Tree(tab, free, roots, M, L)
  BY DEF IInv
<1>2. /\ Level(tab, roots, M) /\ Level(tab, M, L) /\ free \in [Page -> 0..1]
      /\ roots \intersect M = {} /\ roots \intersect L = {} /\ M \intersect L = {}
      /\ \A p \in Page : free[p] = 0 <=> p \in roots \union M \union L
  BY <1>1 DEF Tree
<1>3. SUFFICES ASSUME NEW p \in Page
               PROVE  free[p] + Cardinality(roots \intersect {p})
                        + Cardinality({x \in TableRef : tab[x[1]][x[2]].pa = p}) = 1
  BY DEF TablesHaveOneUse
<1> DEFINE Q == {x \in TableRef : tab[x[1]][x[2]].pa = p}
           S == roots \intersect {p}
<1>4. \A x : x \in Q <=> x \in (roots \union M) \X Idx /\ tab[x[1]][x[2]] = Ref(p)
  BY <1>1, RefsTo
<1> HIDE DEF Q
<1>5. Cardinality({}) = 0 /\ \A x : Cardinality({x}) = 1
  BY FS_EmptySet, FS_Singleton
<1>6. ASSUME NEW t \in roots \union M, NEW i \in Idx, tab[t][i] = Ref(p)
      PROVE  (t \in roots /\ p \in M) \/ (t \in M /\ p \in L)
  <2>1. \A q : Ref(q) = Ref(p) => q = p
    BY Entries
  <2>2. Ref(p) # pte_zero
    BY Entries
  <2>3. ASSUME t \in roots PROVE p \in M
    BY <1>2, <1>6, <2>1, <2>2, <2>3 DEF Level
  <2>4. ASSUME t \in M PROVE p \in L
    BY <1>2, <1>6, <2>1, <2>2, <2>4 DEF Level
  <2> QED
    BY <2>3, <2>4
<1>7. CASE p \notin M \union L
  <2>1. Q = {}
    BY <1>4, <1>6, <1>7
  <2>2. CASE p \in roots
    <3>1. S = {p} /\ free[p] = 0
      BY <1>2, <2>2
    <3>2. Cardinality(S) = 1 /\ Cardinality(Q) = 0
      BY <1>5, <2>1, <3>1
    <3> HIDE DEF S
    <3>3. free[p] + Cardinality(S) + Cardinality(Q) = 1
      BY <3>1, <3>2
    <3> QED
      BY <3>3 DEF S, Q
  <2>3. CASE p \notin roots
    <3>1. S = {} /\ free[p] = 1
      <4>1. free[p] # 0 /\ free[p] \in 0..1
        BY <1>2, <1>7, <2>3
      <4> QED
        BY <2>3, <4>1
    <3>2. Cardinality(S) = 0 /\ Cardinality(Q) = 0
      BY <1>5, <2>1, <3>1
    <3> HIDE DEF S
    <3>3. free[p] + Cardinality(S) + Cardinality(Q) = 1
      BY <3>1, <3>2
    <3> QED
      BY <3>3 DEF S, Q
  <2> QED
    BY <2>2, <2>3
<1>8. CASE p \in M \union L
  <2>1. S = {} /\ free[p] = 0
    BY <1>2, <1>8
  <2>2. PICK t \in roots \union M, i \in Idx : tab[t][i] = Ref(p)
    BY <1>2, <1>8 DEF Level
  <2>3. ASSUME NEW u \in roots \union M, NEW j \in Idx, tab[u][j] = Ref(p)
        PROVE  u = t /\ j = i
    <3>1. CASE p \in M
      <4>1. u \in roots /\ t \in roots
        BY <1>2, <1>6, <2>2, <2>3, <3>1
      <4> QED
        BY <1>2, <2>2, <2>3, <3>1, <4>1 DEF Level
    <3>2. CASE p \in L
      <4>1. u \in M /\ t \in M
        BY <1>2, <1>6, <2>2, <2>3, <3>2
      <4> QED
        BY <1>2, <2>2, <2>3, <3>2, <4>1 DEF Level
    <3> QED
      BY <1>8, <3>1, <3>2
  <2>4. Q = {<<t, i>>}
    <3>1. <<t, i>> \in Q
      BY <1>4, <2>2
    <3>2. ASSUME NEW x \in Q PROVE x = <<t, i>>
      <4>1. /\ x = <<x[1], x[2]>> /\ x[1] \in roots \union M /\ x[2] \in Idx
            /\ tab[x[1]][x[2]] = Ref(p)
        BY <1>4
      <4> QED
        BY <2>3, <4>1
    <3> QED
      BY <3>1, <3>2
  <2>5. Cardinality(S) = 0 /\ Cardinality(Q) = 1
    BY <1>5, <2>1, <2>4
  <2> HIDE DEF S
  <2>6. free[p] + Cardinality(S) + Cardinality(Q) = 1
    BY <2>1, <2>5
  <2> QED
    BY <2>6 DEF S, Q
<1> QED
  BY <1>7, <1>8

(* No page of the tables is lost, shared or returned twice, also when      *)
(* pgtable_map() fails after making some.                                  *)
THEOREM PgTableOneUse == Spec => []TablesHaveOneUse
BY OneUse, PgTableInvariant, PTL

(* When pgtable_map() returns 0 the whole range is mapped as asked for.    *)
THEOREM PgTableMapsRange == Spec => MapsRange
<1> DEFINE A == op.kind = "map" /\ AtEnd /\ op' = NoOp =>
                    \A a \in PagesOf(op) :
                        Translated(op.root, a \div PAGE_SIZE) =
                            mk_pte(op.pa - (op.addr - a), op.flags \union {"V"})
<1>1. IInv => A
  <2> SUFFICES ASSUME IInv, op.kind = "map", AtEnd, NEW a \in PagesOf(op)
               PROVE  Translated(op.root, a \div PAGE_SIZE) =
                          mk_pte(op.pa - (op.addr - a), op.flags \union {"V"})
    OBVIOUS
  <2>1. PICK c \in Calls : OpServes(c)
    BY NoOpRec DEF IInv
  <2>2. PagesOf(op) = PagesOf(c) /\ EndOf(op) = EndOf(c)
    BY <2>1 DEF OpServes, PagesOf, EndOf
  <2> DEFINE b == align_down(c.va)
  <2>3. /\ a \in Nat /\ a < EndOf(c) /\ EndOf(c) \in Nat /\ b \in Nat
        /\ c.pa \in Nat
    BY <2>2, PagesOfCall, CallFacts
  <2>4. /\ op.addr \in Nat /\ op.flags = c.flags /\ op.pa = c.pa + op.addr - b
        /\ a < op.addr => Translated(op.root, a \div PAGE_SIZE) =
                              mk_pte(c.pa + a - b, c.flags \union {"V"})
    BY <2>1, <2>2 DEF OpServes
  <2> HIDE DEF b
  <2>5. a < op.addr
    BY <2>2, <2>3, <2>4 DEF AtEnd
  <2>6. op.pa - (op.addr - a) = c.pa + a - b
    BY <2>3, <2>4
  <2> QED
    BY <2>4, <2>5, <2>6
<1>2. Spec => [][A]_vars
  <2>1. IInv => [A]_vars
    BY <1>1
  <2> HIDE DEF A
  <2> QED
    BY <2>1, PgTableInvariant, PTL
<1> QED
  BY <1>2 DEF MapsRange

-----------------------------------------------------------------------------
(* Each page table is an address space of its own.                         *)

Spaces(tb, R) == [r \in R |-> [v \in Vpn |-> At(tb, r, v)]]

LEMMA SpaceIs == Space = Spaces(tab, roots) /\ Space' = Spaces(tab', roots')
<1>1. Space = Spaces(tab, roots)
  BY TranslatedIs DEF Space, Spaces
<1>2. \A r, v : Translated(r, v)' = At(tab', r, v)
  BY DEF Translated, Lookup, At
<1>3. Space' = [r \in roots' |-> [v \in Vpn |-> Translated(r, v)']]
  BY DEF Space
<1> QED
  BY <1>1, <1>2, <1>3 DEF Spaces

LEMMA SpacesSame ==
    ASSUME NEW tb, NEW tc, NEW R, SameMaps(tb, tc, R)
    PROVE  Spaces(tc, R) = Spaces(tb, R)
BY DEF Spaces, SameMaps

(* The address spaces Y are X but for one page, which d was mapped at.     *)
Updated(X, Y, r, v, d, e) ==
    X[r][v] = d /\ Y[r][v] = e /\ Y = [X EXCEPT ![r][v] = e]

LEMMA SpacesWritten ==
    ASSUME NEW tb, NEW tc, NEW R, NEW r \in R, NEW v \in Vpn, NEW e,
           Writes(tb, tc, R, r, v, e)
    PROVE  Updated(Spaces(tb, R), Spaces(tc, R), r, v, At(tb, r, v), e)
<1>1. /\ At(tc, r, v) = e
      /\ \A s \in R : \A u \in Vpn : s # r \/ u # v => At(tc, s, u) = At(tb, s, u)
  BY DEF Writes
<1> DEFINE X == Spaces(tb, R)
           Y == Spaces(tc, R)
<1>2. /\ X = [s \in R |-> X[s]] /\ Y = [s \in R |-> Y[s]]
      /\ \A s \in R : /\ X[s] = [u \in Vpn |-> At(tb, s, u)]
                      /\ Y[s] = [u \in Vpn |-> At(tc, s, u)]
  BY DEF Spaces
<1> HIDE DEF X, Y
<1>3. \A s \in R : s # r => Y[s] = X[s]
  BY <1>1, <1>2
<1>4. Y[r] = [X[r] EXCEPT ![v] = e]
  BY <1>1, <1>2
<1>5. Y = [X EXCEPT ![r] = [X[r] EXCEPT ![v] = e]]
  BY <1>2, <1>3, <1>4
<1>6. X[r][v] = At(tb, r, v) /\ Y[r][v] = e
  BY <1>1, <1>2
<1>7. Updated(X, Y, r, v, At(tb, r, v), e)
  BY <1>5, <1>6 DEF Updated
<1> QED
  BY <1>7 DEF X, Y

(* A step that leaves the tables, or what they map, as it is.              *)
LEMMA SpaceUnchanged ==
    ASSUME roots' = roots, tab' = tab \/ SameMaps(tab, tab', roots)
    PROVE  Space' = Space
<1>1. SameMaps(tab, tab', roots)
  BY DEF SameMaps
<1>2. Spaces(tab', roots') = Spaces(tab, roots)
  BY <1>1, SpacesSame
<1> QED
  BY <1>2, SpaceIs

LEMMA CreateRefines ==
    ASSUME IInv, pgtable_create
    PROVE  AS!Next
<1>1. /\ SameMaps(tab, tab', roots)
      /\ \E p \in Page \ roots : /\ roots' = roots \union {p}
                                 /\ \A v \in Vpn : At(tab', p, v) = pte_zero
  BY CreateStep
<1>2. PICK p \in Page \ roots : /\ roots' = roots \union {p}
                                /\ \A v \in Vpn : At(tab', p, v) = pte_zero
  BY <1>1
<1>3. DOMAIN Space = roots /\ \A s \in roots : Space[s] = [v \in Vpn |-> At(tab, s, v)]
  BY SpaceIs DEF Spaces
<1>4. Space' = [s \in roots \union {p} |-> [v \in Vpn |-> At(tab', s, v)]]
  BY <1>2, SpaceIs DEF Spaces
<1>5. [v \in Vpn |-> At(tab', p, v)] = AS!Empty
  BY <1>2 DEF AS!Empty
<1>6. \A s \in roots : [v \in Vpn |-> At(tab', s, v)] = Space[s]
  BY <1>1, <1>3 DEF SameMaps
<1>7. Space' = [s \in DOMAIN Space \union {p} |->
                    IF s = p THEN AS!Empty ELSE Space[s]]
  BY <1>2, <1>3, <1>4, <1>5, <1>6
<1>8. AS!Create(p)
  BY <1>2, <1>3, <1>7 DEF AS!Create
<1> QED
  BY <1>8 DEF AS!Next

LEMMA FreeRefines ==
    ASSUME IInv, NEW r \in roots, pgtable_free_walk(r)
    PROVE  AS!Next
<1>1. roots' = roots \ {r} /\ SameMaps(tab, tab', roots \ {r})
  BY FreeWalkStep
<1>2. DOMAIN Space = roots /\ \A s \in roots : Space[s] = [v \in Vpn |-> At(tab, s, v)]
  BY SpaceIs DEF Spaces
<1>3. Space' = [s \in roots \ {r} |-> [v \in Vpn |-> At(tab', s, v)]]
  BY <1>1, SpaceIs DEF Spaces
<1>4. \A s \in roots \ {r} : [v \in Vpn |-> At(tab', s, v)] = Space[s]
  BY <1>1, <1>2 DEF SameMaps
<1>5. Space' = [s \in DOMAIN Space \ {r} |-> Space[s]]
  BY <1>2, <1>3, <1>4
<1>6. AS!Destroy(r)
  BY <1>5 DEF AS!Destroy
<1> QED
  BY <1>2, <1>6 DEF AS!Next

LEMMA MapRefines ==
    ASSUME IInv, pgtable_map
    PROVE  AS!Next \/ Space' = Space
<1>1. /\ roots' = roots
      /\ \/ SameMaps(tab, tab', roots)
         \/ \E r \in roots : \E v \in Vpn : \E e \in LeafPte :
                At(tab, r, v) = pte_zero /\ Writes(tab, tab', roots, r, v, e)
  BY MapStep
<1>2. CASE SameMaps(tab, tab', roots)
  BY <1>1, <1>2, SpaceUnchanged
<1>3. ASSUME NEW r \in roots, NEW v \in Vpn, NEW e \in LeafPte,
             At(tab, r, v) = pte_zero, Writes(tab, tab', roots, r, v, e)
      PROVE  AS!Next
  <2>1. /\ Space[r][v] = pte_zero /\ Space'[r][v] = e
        /\ Space' = [Space EXCEPT ![r][v] = e]
    <3> DEFINE X == Spaces(tab, roots)
               Y == Spaces(tab', roots)
    <3>1. /\ X[r][v] = pte_zero /\ Y[r][v] = e
          /\ Y = [X EXCEPT ![r][v] = e]
      <4>1. Updated(X, Y, r, v, At(tab, r, v), e)
        BY <1>3, SpacesWritten
      <4> QED
        BY <1>3, <4>1 DEF Updated
    <3>2. Space = X /\ Space' = Y
      BY <1>1, SpaceIs
    <3> HIDE DEF X, Y
    <3> QED
      BY <3>1, <3>2
  <2>2. AS!Map(r, v)
    BY <2>1 DEF AS!Map
  <2>3. DOMAIN Space = roots
    BY DEF Space
  <2> QED
    BY <2>2, <2>3 DEF AS!Next
<1> QED
  BY <1>1, <1>2, <1>3

LEMMA UnmapRefines ==
    ASSUME IInv, pgtable_unmap
    PROVE  AS!Next
<1>1. PICK r \in roots, v \in Vpn : /\ At(tab, r, v) # pte_zero
                                    /\ Writes(tab, tab', roots, r, v, pte_zero)
  BY UnmapStep
<1>2. roots' = roots
  BY UnmapStep
<1>3. /\ Space[r][v] # pte_zero
      /\ Space' = [Space EXCEPT ![r][v] = pte_zero]
  <2> DEFINE X == Spaces(tab, roots)
             Y == Spaces(tab', roots)
  <2>1. /\ X[r][v] # pte_zero
        /\ Y = [X EXCEPT ![r][v] = pte_zero]
    <3>1. Updated(X, Y, r, v, At(tab, r, v), pte_zero)
      BY <1>1, SpacesWritten
    <3> QED
      BY <1>1, <3>1 DEF Updated
  <2>2. Space = X /\ Space' = Y
    BY <1>2, SpaceIs
  <2> HIDE DEF X, Y
  <2> QED
    BY <2>1, <2>2
<1>4. AS!Unmap(r, v)
  BY <1>3 DEF AS!Unmap
<1>5. DOMAIN Space = roots
  BY DEF Space
<1> QED
  BY <1>4, <1>5 DEF AS!Next

(* Every step maps or unmaps one virtual page of one address space, makes  *)
(* an empty one or removes one, and leaves the others alone: adding tables *)
(* and giving up halfway change no mapping, and what is mapped is never    *)
(* overwritten.                                                            *)
THEOREM PgTableImplementsSpaces == Spec => ImplementsSpaces
<1>1. Init => AS!Init
  <2> SUFFICES ASSUME Init PROVE AS!Init
    OBVIOUS
  <2>1. Space = [r \in {} |-> AS!Empty]
    BY DEF Init, Space
  <2> QED
    BY <2>1 DEF AS!Init
<1>2. IInv /\ [Next]_vars => [AS!Next]_Space
  <2> SUFFICES ASSUME IInv, [Next]_vars
               PROVE  AS!Next \/ Space' = Space
    OBVIOUS
  <2>1. CASE pgtable_create
    BY <2>1, CreateRefines
  <2>2. ASSUME NEW r \in roots, NEW c \in Calls, CallMap(r, c)
        PROVE  Space' = Space
    BY <2>2, CallMapStep, SpaceUnchanged
  <2>3. ASSUME NEW r \in roots, NEW c \in Calls, CallUnmap(r, c)
        PROVE  Space' = Space
    BY <2>3, CallUnmapStep, SpaceUnchanged
  <2>4. ASSUME NEW r \in roots, pgtable_free_walk(r)
        PROVE  AS!Next
    BY <2>4, FreeRefines
  <2>5. CASE pgtable_map
    BY <2>5, MapRefines
  <2>6. CASE pgtable_unmap
    BY <2>6, UnmapRefines
  <2>7. CASE Return
    BY <2>7, ReturnStep, SpaceUnchanged
  <2>8. CASE UNCHANGED vars
    BY <2>8, StutterStep, SpaceUnchanged
  <2> QED
    BY <2>1, <2>2, <2>3, <2>4, <2>5, <2>6, <2>7, <2>8 DEF Next
<1> QED
  BY <1>1, <1>2, PgTableInvariant, PTL DEF Spec, ImplementsSpaces, AS!Spec
=============================================================================
