-------------------------- MODULE PageAllocProofs ---------------------------
(***************************************************************************)
(* Proofs about the page allocator, for memories and pages of any size.    *)
(***************************************************************************)
EXTENDS PageAlloc, FiniteSetTheorems, WellFoundedInduction, TLAPS

(* The pages on the list, by the history of the list.                      *)
ListedPages == {order[i] : i \in DOMAIN order}

(* The loop of page_init_range() is at a page boundary, and has not come   *)
(* to any page that is beyond it.                                          *)
ScanAhead ==
    /\ scan % PAGE_SIZE = 0
    /\ scan >= align_up(Start, PAGE_SIZE)
    /\ \A p \in Page : p < scan <=> p \in ListedPages \union held

(* The counters are those of the list and of the pages in use.             *)
Counted ==
    /\ nr_free_pages = Len(order)
    /\ IsFiniteSet(held)
    /\ nr_total_pages = Len(order) + Cardinality(held)

PageInv == PageTypeOK /\ FreeListIntact /\ ScanAhead /\ Counted

-----------------------------------------------------------------------------
(* Arithmetic of page boundaries.                                          *)

LEMMA MultipleMod ==
    ASSUME NEW P \in Nat \ {0}, NEW k \in Nat
    PROVE  (k * P) % P = 0
BY SMTT(30)

LEMMA ModMultiple ==
    ASSUME NEW P \in Nat \ {0}, NEW a \in Nat, a % P = 0
    PROVE  \E k \in Nat : a = k * P
BY SMTT(30)

(* The boundary after a boundary is one page further.                      *)
LEMMA NextBoundary ==
    ASSUME NEW P \in Nat \ {0}, NEW a \in Nat, a % P = 0
    PROVE  /\ (a + P) % P = 0
           /\ \A b \in Nat : b % P = 0 /\ b < a + P => b <= a
<1>1. PICK k \in Nat : a = k * P
  BY ModMultiple
<1>2. a + P = (k + 1) * P
  BY <1>1
<1>3. ((k + 1) * P) % P = 0
  BY MultipleMod
<1>4. ASSUME NEW b \in Nat, b % P = 0, b < a + P
      PROVE  b <= a
  <2>1. PICK m \in Nat : b = m * P
    BY <1>4, ModMultiple
  <2>2. CASE m <= k
    BY <1>1, <2>1, <2>2
  <2>3. CASE m >= k + 1
    <3>1. m * P >= (k + 1) * P
      BY <2>3
    <3> QED
      BY <1>2, <1>4, <2>1, <3>1
  <2> QED
    BY <2>2, <2>3
<1> QED
  BY <1>2, <1>3, <1>4

(* The first page starts at a boundary.                                    *)
LEMMA FirstBoundary ==
    /\ align_up(Start, PAGE_SIZE) \in Nat
    /\ align_up(Start, PAGE_SIZE) % PAGE_SIZE = 0
<1> DEFINE k == (Start + PAGE_SIZE - 1) \div PAGE_SIZE
<1>1. k \in Nat
  BY PageAssumption
<1>2. align_up(Start, PAGE_SIZE) = k * PAGE_SIZE
  BY DEF align_up
<1>3. (k * PAGE_SIZE) % PAGE_SIZE = 0
  BY <1>1, MultipleMod, PageAssumption
<1>4. k * PAGE_SIZE \in Nat
  BY <1>1, PageAssumption
<1> QED
  BY <1>2, <1>3, <1>4

LEMMA PagesAreNodes ==
    /\ Page \subseteq Node /\ HEAD \in Node
    /\ HEAD \notin Page /\ JUNK \notin Page
    /\ Page \subseteq Nat
BY FirstBoundary, PageAssumption DEF Page, Node

(* What the positions of the list hold.                                    *)
LEMMA Positions ==
    ASSUME PageTypeOK, FreeListIntact
    PROVE  /\ Len(order) \in Nat /\ DOMAIN order = 1..Len(order)
           /\ At(0) = HEAD /\ At(Len(order) + 1) = HEAD
           /\ \A i \in 1..Len(order) : At(i) = order[i] /\ At(i) \in Page
           /\ \A i, j \in 1..(Len(order) + 1) : At(i) = At(j) => i = j
           /\ \A i \in 0..(Len(order) + 1) : At(i) \in Node
<1>1. Len(order) \in Nat /\ DOMAIN order = 1..Len(order)
  BY DEF PageTypeOK
<1>2. At(0) = HEAD /\ At(Len(order) + 1) = HEAD
  BY <1>1 DEF At
<1>3. \A i \in 1..Len(order) : At(i) = order[i] /\ At(i) \in Page
  BY <1>1 DEF At, PageTypeOK
<1>4. \A i, j \in 1..Len(order) : At(i) = At(j) => i = j
  BY <1>1, <1>3 DEF FreeListIntact
<1>5. ASSUME NEW i \in 1..(Len(order) + 1), NEW j \in 1..(Len(order) + 1),
             At(i) = At(j)
      PROVE  i = j
  <2>1. CASE i \in 1..Len(order) /\ j \in 1..Len(order)
    BY <1>4, <1>5, <2>1
  <2>2. CASE i = Len(order) + 1 /\ j \in 1..Len(order)
    BY <1>2, <1>3, <1>5, <2>2, PagesAreNodes
  <2>3. CASE i \in 1..Len(order) /\ j = Len(order) + 1
    BY <1>2, <1>3, <1>5, <2>3, PagesAreNodes
  <2> QED
    BY <1>1, <2>1, <2>2, <2>3
<1>6. ASSUME NEW i \in 0..(Len(order) + 1)
      PROVE  At(i) \in Node
  <2>1. i = 0 \/ i = Len(order) + 1 \/ i \in 1..Len(order)
    BY <1>1
  <2> QED
    BY <1>2, <1>3, <2>1, PagesAreNodes
<1> QED
  BY <1>1, <1>2, <1>3, <1>5, <1>6

-----------------------------------------------------------------------------
(* The two list operations on the list of free pages.                      *)

(* page_free(): a page that is not on the list becomes the first one.      *)
LEMMA AddFirst ==
    ASSUME PageTypeOK, FreeListIntact,
           NEW p \in Page, p \notin ListedPages,
           page_free(p)
    PROVE  /\ next' \in [Node -> Node \union {JUNK}]
           /\ prev' \in [Node -> Node \union {JUNK}]
           /\ order' \in Seq(Page)
           /\ Len(order') = Len(order) + 1
           /\ ListedPages' = ListedPages \union {p}
           /\ \A i \in 0..Len(order') : /\ next'[At(i)'] = At(i + 1)'
                                        /\ prev'[At(i + 1)'] = At(i)'
           /\ \A i, j \in DOMAIN order' : order'[i] = order'[j] => i = j
<1> DEFINE n == Len(order)
           NewAt(i) == IF i \in DOMAIN order' THEN order'[i] ELSE HEAD
<1>0. n \in Nat /\ DOMAIN order = 1..n
  BY Positions
<1>1. /\ At(0) = HEAD
      /\ \A i \in 1..n : At(i) = order[i] /\ At(i) \in Page
      /\ \A i, j \in 1..(n + 1) : At(i) = At(j) => i = j
      /\ \A i \in 0..(n + 1) : At(i) \in Node
      /\ At(n + 1) = HEAD
  BY Positions
<1>2. /\ order' \in Seq(Page) /\ Len(order') = n + 1
      /\ DOMAIN order' = 1..(n + 1)
      /\ order'[1] = p
      /\ \A i \in 2..(n + 1) : order'[i] = order[i - 1]
  BY <1>0 DEF page_free, PageTypeOK
<1>3. \A i \in 1..n : At(i) # p
  BY <1>0, <1>1 DEF ListedPages
<1>4. p # HEAD /\ p \in Node /\ HEAD \in Node
  BY PagesAreNodes
<1>5. \A i \in 1..(n + 1) : At(i) # p
  BY <1>0, <1>1, <1>3, <1>4
<1>6. /\ NewAt(0) = HEAD /\ NewAt(1) = p
      /\ \A i \in 2..(n + 2) : NewAt(i) = At(i - 1)
  <2>1. NewAt(0) = HEAD /\ NewAt(1) = p
    BY <1>0, <1>2
  <2>2. ASSUME NEW i \in 2..(n + 1) PROVE NewAt(i) = At(i - 1)
    BY <1>0, <1>1, <1>2
  <2>3. NewAt(n + 2) = At(n + 1)
    BY <1>0, <1>1, <1>2
  <2> QED
    BY <1>0, <2>1, <2>2, <2>3
<1>7. next[HEAD] = At(1)
  BY <1>0, <1>1 DEF FreeListIntact
<1>8. /\ next' = [next EXCEPT ![p] = At(1), ![HEAD] = p]
      /\ prev' = [prev EXCEPT ![At(1)] = p, ![p] = HEAD]
  BY <1>7 DEF page_free, list_add
<1>9. next \in [Node -> Node \union {JUNK}] /\ prev \in [Node -> Node \union {JUNK}]
  BY DEF PageTypeOK
<1>10. At(1) \in Node
  BY <1>0, <1>1
<1>11. /\ next'[HEAD] = p /\ next'[p] = At(1)
       /\ \A a \in Node : a # p /\ a # HEAD => next'[a] = next[a]
       /\ prev'[p] = HEAD /\ prev'[At(1)] = p
       /\ \A a \in Node : a # p /\ a # At(1) => prev'[a] = prev[a]
  <2>1. At(1) # p
    BY <1>0, <1>5
  <2> HIDE DEF n
  <2> QED
    BY <1>4, <1>8, <1>9, <1>10, <2>1
<1>12. /\ next' \in [Node -> Node \union {JUNK}]
       /\ prev' \in [Node -> Node \union {JUNK}]
  BY <1>4, <1>8, <1>9, <1>10
<1>13. ASSUME NEW i \in 0..(n + 1)
       PROVE  next'[NewAt(i)] = NewAt(i + 1) /\ prev'[NewAt(i + 1)] = NewAt(i)
  <2>1. CASE i = 0
    BY <1>6, <1>11, <2>1
  <2>2. CASE i = 1
    <3>1. NewAt(2) = At(1)
      BY <1>0, <1>6
    <3> HIDE DEF NewAt
    <3> QED
      BY <1>6, <1>11, <2>2, <3>1
  <2>3. CASE i >= 2
    <3>1. i - 1 \in 1..n /\ i \in 1..(n + 1) /\ i + 1 \in 2..(n + 2)
      BY <1>0, <2>3
    <3>2. NewAt(i) = At(i - 1) /\ NewAt(i + 1) = At(i)
      <4>1. (i + 1) - 1 = i /\ i \in 2..(n + 2)
        BY <1>0, <2>3
      <4> HIDE DEF NewAt
      <4> QED
        BY <1>6, <3>1, <4>1
    <3>3. At(i - 1) # p /\ At(i - 1) # HEAD /\ At(i - 1) \in Node
      BY <1>1, <1>5, <3>1, PagesAreNodes
    <3>4. At(i) # p /\ At(i) # At(1) /\ At(i) \in Node
      BY <1>0, <1>1, <1>5, <2>3, <3>1
    <3>5. next[At(i - 1)] = At(i) /\ prev[At(i)] = At(i - 1)
      <4>1. i - 1 \in 0..Len(order) /\ (i - 1) + 1 = i
        BY <1>0, <3>1
      <4> QED
        BY <4>1 DEF FreeListIntact
    <3> HIDE DEF NewAt
    <3> QED
      BY <1>11, <3>2, <3>3, <3>4, <3>5
  <2> QED
    BY <1>0, <2>1, <2>2, <2>3
<1>14. \A i \in 0..(n + 1) : At(i)' = NewAt(i) /\ At(i + 1)' = NewAt(i + 1)
  BY DEF At
<1>15. \A i, j \in DOMAIN order' : order'[i] = order'[j] => i = j
  <2> SUFFICES ASSUME NEW i \in 1..(n + 1), NEW j \in 1..(n + 1),
                      order'[i] = order'[j]
               PROVE  i = j
    BY <1>2
  <2>1. \A k \in 2..(n + 1) : order'[k] = At(k - 1) /\ k - 1 \in 1..n
    BY <1>0, <1>1, <1>2
  <2>2. CASE i = 1 \/ j = 1
    BY <1>0, <1>2, <1>3, <2>1, <2>2
  <2>3. CASE i # 1 /\ j # 1
    <3>1. At(i - 1) = At(j - 1) /\ i - 1 \in 1..(n + 1) /\ j - 1 \in 1..(n + 1)
      BY <1>0, <2>1, <2>3
    <3>2. i - 1 = j - 1
      BY <1>1, <3>1
    <3> QED
      BY <1>0, <3>2
  <2> QED
    BY <2>2, <2>3
<1>16. ListedPages' = ListedPages \union {p}
  <2>1. ASSUME NEW q \in ListedPages PROVE q \in ListedPages'
    <3>1. PICK i \in 1..n : q = order[i]
      BY <1>0, <2>1 DEF ListedPages
    <3>2. i + 1 \in DOMAIN order' /\ order'[i + 1] = q
      BY <1>0, <1>2, <3>1
    <3> QED
      BY <3>2 DEF ListedPages
  <2>2. p \in ListedPages'
    BY <1>0, <1>2 DEF ListedPages
  <2>3. ASSUME NEW q \in ListedPages' PROVE q \in ListedPages \union {p}
    <3>1. PICK i \in 1..(n + 1) : q = order'[i]
      BY <1>2, <2>3 DEF ListedPages
    <3>2. CASE i = 1
      BY <1>2, <3>1, <3>2
    <3>3. CASE i # 1
      BY <1>0, <1>2, <3>1, <3>3 DEF ListedPages
    <3> QED
      BY <3>2, <3>3
  <2> QED
    BY <2>1, <2>2, <2>3
<1>17. \A i \in 0..Len(order') : /\ next'[At(i)'] = At(i + 1)'
                                 /\ prev'[At(i + 1)'] = At(i)'
  <2> HIDE DEF NewAt
  <2> QED
    BY <1>2, <1>13, <1>14
<1> QED
  BY <1>2, <1>12, <1>15, <1>16, <1>17

(* page_alloc(): the first page leaves the list.                           *)
LEMMA RemoveFirst ==
    ASSUME PageTypeOK, FreeListIntact,
           NEW p \in Page, page_alloc(p)
    PROVE  /\ next' \in [Node -> Node \union {JUNK}]
           /\ prev' \in [Node -> Node \union {JUNK}]
           /\ order' \in Seq(Page)
           /\ Len(order) >= 1 /\ Len(order') = Len(order) - 1
           /\ p \in ListedPages /\ ListedPages' = ListedPages \ {p}
           /\ \A i \in 0..Len(order') : /\ next'[At(i)'] = At(i + 1)'
                                        /\ prev'[At(i + 1)'] = At(i)'
           /\ \A i, j \in DOMAIN order' : order'[i] = order'[j] => i = j
<1> DEFINE n == Len(order)
           NewAt(i) == IF i \in DOMAIN order' THEN order'[i] ELSE HEAD
<1>0. n \in Nat /\ DOMAIN order = 1..n
  BY Positions
<1>1. /\ At(0) = HEAD
      /\ \A i \in 1..n : At(i) = order[i] /\ At(i) \in Page
      /\ \A i, j \in 1..(n + 1) : At(i) = At(j) => i = j
      /\ \A i \in 0..(n + 1) : At(i) \in Node
      /\ At(n + 1) = HEAD
  BY Positions
<1>2. next[HEAD] = At(1) /\ prev[At(1)] = HEAD
  BY <1>0, <1>1 DEF FreeListIntact
<1>3. p = At(1) /\ p # HEAD
  BY <1>2 DEF page_alloc, list_empty
<1>4. n >= 1
  BY <1>0, <1>1, <1>3
<1>5. next[p] = At(2)
  BY <1>0, <1>3, <1>4 DEF FreeListIntact
<1>6. /\ order' \in Seq(Page) /\ Len(order') = n - 1
      /\ DOMAIN order' = 1..(n - 1)
      /\ \A i \in 1..(n - 1) : order'[i] = order[i + 1]
  <2>1. order' = Tail(order) /\ order \in Seq(Page) /\ order # << >>
    BY <1>0, <1>4 DEF page_alloc, PageTypeOK
  <2> QED
    BY <1>0, <1>4, <2>1
<1>7. /\ NewAt(0) = HEAD
      /\ \A i \in 1..n : NewAt(i) = At(i + 1)
  <2>1. NewAt(0) = HEAD
    BY <1>0, <1>6
  <2>2. ASSUME NEW i \in 1..(n - 1) PROVE NewAt(i) = At(i + 1)
    BY <1>0, <1>1, <1>6
  <2>3. NewAt(n) = At(n + 1)
    BY <1>0, <1>1, <1>6
  <2> QED
    BY <1>0, <2>1, <2>2, <2>3
<1>8. /\ next' = [next EXCEPT ![HEAD] = At(2), ![p] = p]
      /\ prev' = [prev EXCEPT ![At(2)] = HEAD, ![p] = p]
  <2>1. prev[p] = HEAD
    BY <1>2, <1>3
  <2> QED
    BY <1>5, <2>1 DEF page_alloc, list_del
<1>9. next \in [Node -> Node \union {JUNK}] /\ prev \in [Node -> Node \union {JUNK}]
  BY DEF PageTypeOK
<1>10. At(2) \in Node /\ At(2) # p /\ p \in Node /\ HEAD \in Node
  BY <1>0, <1>1, <1>3, <1>4, PagesAreNodes
<1>11. /\ next'[HEAD] = At(2)
       /\ \A a \in Node : a # p /\ a # HEAD => next'[a] = next[a]
       /\ prev'[At(2)] = HEAD
       /\ \A a \in Node : a # p /\ a # At(2) => prev'[a] = prev[a]
  BY <1>3, <1>8, <1>9, <1>10
<1>12. /\ next' \in [Node -> Node \union {JUNK}]
       /\ prev' \in [Node -> Node \union {JUNK}]
  BY <1>8, <1>9, <1>10
<1>13. ASSUME NEW i \in 0..(n - 1)
       PROVE  next'[NewAt(i)] = NewAt(i + 1) /\ prev'[NewAt(i + 1)] = NewAt(i)
  <2>1. CASE i = 0
    <3>1. NewAt(1) = At(2)
      BY <1>0, <1>4, <1>7
    <3> HIDE DEF NewAt
    <3> QED
      BY <1>7, <1>11, <2>1, <3>1
  <2>2. CASE i >= 1
    <3>1. i \in 1..n /\ i + 1 \in 1..n /\ i + 2 \in 1..(n + 1)
      BY <1>0, <2>2
    <3>2. NewAt(i) = At(i + 1) /\ NewAt(i + 1) = At(i + 2)
      <4>1. (i + 1) + 1 = i + 2
        BY <3>1
      <4> HIDE DEF NewAt
      <4> QED
        BY <1>7, <3>1, <4>1
    <3>3. At(i + 1) # p /\ At(i + 1) # HEAD /\ At(i + 1) \in Node
      BY <1>0, <1>1, <1>3, <2>2, <3>1, PagesAreNodes
    <3>4. At(i + 2) # p /\ At(i + 2) # At(2) /\ At(i + 2) \in Node
      BY <1>0, <1>1, <1>3, <1>4, <2>2, <3>1
    <3>5. next[At(i + 1)] = At(i + 2) /\ prev[At(i + 2)] = At(i + 1)
      <4>1. i + 1 \in 0..Len(order) /\ (i + 1) + 1 = i + 2
        BY <1>0, <3>1
      <4> QED
        BY <4>1 DEF FreeListIntact
    <3> HIDE DEF NewAt
    <3> QED
      BY <1>11, <3>2, <3>3, <3>4, <3>5
  <2> QED
    BY <1>0, <2>1, <2>2
<1>14. \A i \in 0..(n - 1) : At(i)' = NewAt(i) /\ At(i + 1)' = NewAt(i + 1)
  BY DEF At
<1>15. \A i, j \in DOMAIN order' : order'[i] = order'[j] => i = j
  <2> SUFFICES ASSUME NEW i \in 1..(n - 1), NEW j \in 1..(n - 1),
                      order'[i] = order'[j]
               PROVE  i = j
    BY <1>6
  <2>1. /\ At(i + 1) = At(j + 1)
        /\ i + 1 \in 1..(n + 1) /\ j + 1 \in 1..(n + 1)
    BY <1>0, <1>1, <1>6
  <2>2. i + 1 = j + 1
    BY <1>1, <2>1
  <2> QED
    BY <1>0, <2>2
<1>16. p \in ListedPages
  BY <1>0, <1>1, <1>3, <1>4 DEF ListedPages
<1>17. ListedPages' = ListedPages \ {p}
  <2>1. ASSUME NEW q \in ListedPages, q # p PROVE q \in ListedPages'
    <3>1. PICK i \in 1..n : q = order[i]
      BY <1>0, <2>1 DEF ListedPages
    <3>2. i # 1
      BY <1>0, <1>1, <1>3, <2>1, <3>1
    <3>3. i - 1 \in DOMAIN order' /\ order'[i - 1] = q
      BY <1>0, <1>6, <3>1, <3>2
    <3> QED
      BY <3>3 DEF ListedPages
  <2>2. ASSUME NEW q \in ListedPages' PROVE q \in ListedPages /\ q # p
    <3>1. PICK i \in 1..(n - 1) : q = order'[i]
      BY <1>6, <2>2 DEF ListedPages
    <3>2. /\ i + 1 \in 1..n /\ i + 1 # 1
          /\ q = order[i + 1] /\ q = At(i + 1)
      BY <1>0, <1>1, <1>6, <3>1
    <3>3. q # p
      BY <1>0, <1>1, <1>3, <3>2
    <3> QED
      BY <1>0, <3>2, <3>3 DEF ListedPages
  <2> QED
    BY <2>1, <2>2
<1>18. \A i \in 0..Len(order') : /\ next'[At(i)'] = At(i + 1)'
                                 /\ prev'[At(i + 1)'] = At(i)'
  <2> HIDE DEF NewAt
  <2> QED
    BY <1>6, <1>13, <1>14
<1> QED
  BY <1>4, <1>6, <1>12, <1>15, <1>16, <1>17, <1>18

-----------------------------------------------------------------------------
LEMMA PageInvInit ==
    PageInit => PageInv
<1> SUFFICES ASSUME PageInit PROVE PageInv
  OBVIOUS
<1> USE DEF PageInit
<1>1. order = << >> /\ Len(order) = 0 /\ DOMAIN order = {} /\ held = {}
  OBVIOUS
<1>2. PageTypeOK
  BY <1>1, FirstBoundary, PagesAreNodes DEF PageTypeOK
<1>3. FreeListIntact
  <2>1. At(0) = HEAD /\ At(1) = HEAD
    BY <1>1 DEF At
  <2>2. next[HEAD] = HEAD /\ prev[HEAD] = HEAD
    BY PagesAreNodes
  <2>3. \A i \in 0..Len(order) :
            next[At(i)] = At(i + 1) /\ prev[At(i + 1)] = At(i)
    <3> SUFFICES ASSUME NEW i \in 0..Len(order)
                 PROVE  next[At(i)] = At(i + 1) /\ prev[At(i + 1)] = At(i)
      OBVIOUS
    <3>1. i = 0 /\ i + 1 = 1
      BY <1>1
    <3> QED
      BY <2>1, <2>2, <3>1
  <2> QED
    BY <1>1, <2>3 DEF FreeListIntact
<1>4. ScanAhead
  BY <1>1, FirstBoundary DEF ScanAhead, ListedPages, Page
<1>5. Counted
  BY <1>1, FS_EmptySet DEF Counted
<1> QED
  BY <1>2, <1>3, <1>4, <1>5 DEF PageInv

(* The loop comes to a page that is neither on the list nor in use.        *)
LEMMA InitRangeStep ==
    ASSUME PageInv, page_init_range
    PROVE  /\ PageInv'
           /\ scan \in Page /\ scan \notin ListedPages \union held
           /\ ListedPages' = ListedPages \union {scan}
<1> USE DEF PageInv
<1>1. scan \in Nat /\ scan + PAGE_SIZE <= End /\ scan' = scan + PAGE_SIZE
      /\ held' = held /\ page_free(scan) /\ nr_total_pages' = nr_total_pages + 1
  BY DEF page_init_range, PageTypeOK
<1>2. scan \in Page
  BY <1>1, FirstBoundary, PageAssumption DEF ScanAhead, Page
<1>3. scan \notin ListedPages \union held
  BY <1>1, <1>2 DEF ScanAhead
<1>4. /\ next' \in [Node -> Node \union {JUNK}]
      /\ prev' \in [Node -> Node \union {JUNK}]
      /\ order' \in Seq(Page)
      /\ Len(order') = Len(order) + 1
      /\ ListedPages' = ListedPages \union {scan}
      /\ \A i \in 0..Len(order') : /\ next'[At(i)'] = At(i + 1)'
                                   /\ prev'[At(i + 1)'] = At(i)'
      /\ \A i, j \in DOMAIN order' : order'[i] = order'[j] => i = j
  BY <1>1, <1>2, <1>3, AddFirst
<1>5. Len(order) \in Nat /\ nr_free_pages' = nr_free_pages + 1
  BY <1>1 DEF PageTypeOK, page_free
<1>6. PageTypeOK'
  BY <1>1, <1>4, <1>5, PageAssumption DEF PageTypeOK
<1>7. FreeListIntact'
  <2>1. \A i \in DOMAIN order' : order'[i] \notin held'
    <3> SUFFICES ASSUME NEW i \in DOMAIN order' PROVE order'[i] \notin held'
      OBVIOUS
    <3>1. order'[i] \in ListedPages \union {scan}
      BY <1>4 DEF ListedPages
    <3> QED
      BY <1>1, <1>3, <3>1 DEF ListedPages, FreeListIntact
  <2> QED
    BY <1>4, <2>1 DEF FreeListIntact
<1>8. ScanAhead'
  <2>1. /\ (scan + PAGE_SIZE) % PAGE_SIZE = 0
        /\ \A b \in Nat : b % PAGE_SIZE = 0 /\ b < scan + PAGE_SIZE => b <= scan
    BY <1>1, NextBoundary, PageAssumption DEF ScanAhead
  <2>2. scan' >= align_up(Start, PAGE_SIZE)
    BY <1>1, FirstBoundary, PageAssumption DEF ScanAhead
  <2>3. ASSUME NEW p \in Page
        PROVE  p < scan' <=> p \in ListedPages' \union held'
    <3>1. p \in Nat /\ p % PAGE_SIZE = 0
      BY PagesAreNodes DEF Page
    <3>2. p < scan' <=> p < scan \/ p = scan
      BY <1>1, <2>1, <3>1, PageAssumption
    <3> QED
      BY <1>1, <1>4, <3>2 DEF ScanAhead
  <2> QED
    BY <1>1, <2>1, <2>2, <2>3 DEF ScanAhead
<1>9. Counted'
  <2>1. Cardinality(held) \in Nat
    BY FS_CardinalityType DEF Counted
  <2> QED
    BY <1>1, <1>4, <1>5, <2>1 DEF Counted
<1> QED
  BY <1>2, <1>3, <1>4, <1>6, <1>7, <1>8, <1>9

LEMMA AllocStep ==
    ASSUME PageInv, NEW p \in Page, page_alloc(p)
    PROVE  /\ PageInv'
           /\ p \in ListedPages /\ ListedPages' = ListedPages \ {p}
<1> USE DEF PageInv
<1>1. /\ nr_free_pages' = nr_free_pages - 1 /\ held' = held \union {p}
      /\ nr_total_pages' = nr_total_pages /\ scan' = scan
  BY DEF page_alloc
<1>2. /\ next' \in [Node -> Node \union {JUNK}]
      /\ prev' \in [Node -> Node \union {JUNK}]
      /\ order' \in Seq(Page)
      /\ Len(order) >= 1 /\ Len(order') = Len(order) - 1
      /\ p \in ListedPages /\ ListedPages' = ListedPages \ {p}
      /\ \A i \in 0..Len(order') : /\ next'[At(i)'] = At(i + 1)'
                                   /\ prev'[At(i + 1)'] = At(i)'
      /\ \A i, j \in DOMAIN order' : order'[i] = order'[j] => i = j
  BY RemoveFirst
<1>3. Len(order) \in Nat
  BY DEF PageTypeOK
<1>4. PageTypeOK'
  BY <1>1, <1>2, <1>3 DEF PageTypeOK, Counted
<1>5. p \notin held
  BY <1>2 DEF ListedPages, FreeListIntact
<1>6. FreeListIntact'
  <2>1. \A i \in DOMAIN order' : order'[i] \notin held'
    <3> SUFFICES ASSUME NEW i \in DOMAIN order' PROVE order'[i] \notin held'
      OBVIOUS
    <3>1. order'[i] \in ListedPages \ {p}
      BY <1>2 DEF ListedPages
    <3> QED
      BY <1>1, <3>1 DEF ListedPages, FreeListIntact
  <2> QED
    BY <1>2, <2>1 DEF FreeListIntact
<1>7. ScanAhead'
  BY <1>1, <1>2 DEF ScanAhead
<1>8. Counted'
  <2>1. IsFiniteSet(held') /\ Cardinality(held') = Cardinality(held) + 1
    BY <1>1, <1>5, FS_AddElement DEF Counted
  <2>2. Cardinality(held) \in Nat
    BY FS_CardinalityType DEF Counted
  <2> QED
    BY <1>1, <1>2, <1>3, <2>1, <2>2 DEF Counted
<1> QED
  BY <1>2, <1>4, <1>6, <1>7, <1>8

LEMMA GiveBackStep ==
    ASSUME PageInv, NEW p \in Page, GiveBack(p)
    PROVE  /\ PageInv'
           /\ ListedPages' = ListedPages \union {p}
<1> USE DEF PageInv
<1>1. /\ page_free(p) /\ p \in held /\ held' = held \ {p}
      /\ nr_free_pages' = nr_free_pages + 1
      /\ nr_total_pages' = nr_total_pages /\ scan' = scan
  BY DEF GiveBack, page_free
<1>2. p \notin ListedPages
  BY <1>1 DEF ListedPages, FreeListIntact
<1>3. /\ next' \in [Node -> Node \union {JUNK}]
      /\ prev' \in [Node -> Node \union {JUNK}]
      /\ order' \in Seq(Page)
      /\ Len(order') = Len(order) + 1
      /\ ListedPages' = ListedPages \union {p}
      /\ \A i \in 0..Len(order') : /\ next'[At(i)'] = At(i + 1)'
                                   /\ prev'[At(i + 1)'] = At(i)'
      /\ \A i, j \in DOMAIN order' : order'[i] = order'[j] => i = j
  BY <1>1, <1>2, AddFirst
<1>4. Len(order) \in Nat
  BY DEF PageTypeOK
<1>5. PageTypeOK'
  BY <1>1, <1>3 DEF PageTypeOK
<1>6. FreeListIntact'
  <2>1. \A i \in DOMAIN order' : order'[i] \notin held'
    BY <1>1, <1>3 DEF ListedPages, FreeListIntact
  <2> QED
    BY <1>3, <2>1 DEF FreeListIntact
<1>7. ScanAhead'
  BY <1>1, <1>3 DEF ScanAhead
<1>8. Counted'
  <2>1. /\ IsFiniteSet(held') /\ Cardinality(held') = Cardinality(held) - 1
        /\ Cardinality(held) \in Nat
    BY <1>1, FS_RemoveElement, FS_CardinalityType DEF Counted
  <2> QED
    BY <1>1, <1>3, <1>4, <2>1 DEF Counted
<1> QED
  BY <1>3, <1>5, <1>6, <1>7, <1>8

(* What a holder writes is not on the list.                                *)
LEMMA HolderStep ==
    ASSUME PageInv, NEW p \in Page, HolderWrites(p)
    PROVE  PageInv'
<1> USE DEF PageInv
<1>1. /\ p \in held /\ next' = [next EXCEPT ![p] = JUNK]
      /\ prev' = [prev EXCEPT ![p] = JUNK]
      /\ UNCHANGED <<nr_total_pages, nr_free_pages, scan, held, order>>
  BY DEF HolderWrites
<1>2. PageTypeOK'
  BY <1>1, PagesAreNodes DEF PageTypeOK
<1>3. ASSUME NEW i \in 0..Len(order)
      PROVE  /\ next'[At(i)] = At(i + 1)
             /\ prev'[At(i + 1)] = At(i)
  <2>1. Len(order) \in Nat /\ DOMAIN order = 1..Len(order)
    BY Positions
  <2>2. ASSUME NEW j \in 0..(Len(order) + 1)
        PROVE  At(j) \in Node /\ At(j) # p
    <3>1. At(j) = HEAD \/ (j \in DOMAIN order /\ At(j) = order[j])
      BY DEF At
    <3>2. At(j) # p
      BY <1>1, <3>1, PagesAreNodes DEF FreeListIntact
    <3>3. At(j) \in Node
      BY Positions
    <3> QED
      BY <3>2, <3>3
  <2>3. i \in 0..(Len(order) + 1) /\ i + 1 \in 0..(Len(order) + 1)
    BY <2>1
  <2>4. next[At(i)] = At(i + 1) /\ prev[At(i + 1)] = At(i)
    BY DEF FreeListIntact
  <2>5. next'[At(i)] = next[At(i)] /\ prev'[At(i + 1)] = prev[At(i + 1)]
    <3>1. At(i) \in Node /\ At(i) # p /\ At(i + 1) \in Node /\ At(i + 1) # p
      BY <2>2, <2>3
    <3> QED
      BY <1>1, <3>1 DEF PageTypeOK
  <2> QED
    BY <2>4, <2>5
<1>4. FreeListIntact'
  <2>1. \A i : At(i)' = At(i)
    BY <1>1 DEF At
  <2> QED
    BY <1>1, <1>3, <2>1 DEF FreeListIntact
<1>5. ScanAhead'
  BY <1>1 DEF ScanAhead, ListedPages
<1>6. Counted'
  BY <1>1 DEF Counted
<1> QED
  BY <1>2, <1>4, <1>5, <1>6

-----------------------------------------------------------------------------
(* The pool whose free pages are those on the list, by its history.        *)
ListPool == INSTANCE PagePool WITH
                free <- ListedPages, used <- held, count <- nr_free_pages

(* Each step keeps the invariant and is a step of the pool, or none.       *)
LEMMA PageStep ==
    ASSUME PageInv, [PageNext]_pageVars
    PROVE  PageInv' /\ [ListPool!Next]_<<ListedPages, held, nr_free_pages>>
<1>1. CASE page_init_range
  <2>1. /\ PageInv'
        /\ scan \in Page /\ scan \notin ListedPages \union held
        /\ ListedPages' = ListedPages \union {scan}
    BY <1>1, InitRangeStep
  <2>2. ListPool!Join(scan)
    BY <1>1, <2>1 DEF page_init_range, page_free, ListPool!Join
  <2> QED
    BY <2>1, <2>2 DEF ListPool!Next
<1>2. ASSUME NEW p \in Page, page_alloc(p)
      PROVE  PageInv' /\ ListPool!Alloc(p)
  <2>1. /\ PageInv'
        /\ p \in ListedPages /\ ListedPages' = ListedPages \ {p}
    BY <1>2, AllocStep
  <2> QED
    BY <1>2, <2>1 DEF page_alloc, ListPool!Alloc
<1>3. ASSUME NEW p \in Page, GiveBack(p)
      PROVE  PageInv' /\ ListPool!Free(p)
  <2>1. PageInv' /\ ListedPages' = ListedPages \union {p}
    BY <1>3, GiveBackStep
  <2> QED
    BY <1>3, <2>1 DEF GiveBack, page_free, ListPool!Free
<1>4. ASSUME NEW p \in Page, HolderWrites(p)
      PROVE  PageInv' /\ UNCHANGED <<ListedPages, held, nr_free_pages>>
  <2>1. PageInv'
    BY <1>4, HolderStep
  <2> QED
    BY <1>4, <2>1 DEF HolderWrites, ListedPages
<1>5. CASE UNCHANGED pageVars
  BY <1>5 DEF pageVars, PageInv, PageTypeOK, FreeListIntact, At, ScanAhead,
              ListedPages, Counted
<1> QED
  BY <1>1, <1>2, <1>3, <1>4, <1>5 DEF PageNext, ListPool!Next

(* PageInv is inductive: the list, the scan and the counters stay in step. *)
THEOREM PageInvariance == PageSpec => []PageInv
<1>1. PageInv /\ [PageNext]_pageVars => PageInv'
  BY PageStep
<1> QED
  BY <1>1, PageInvInit, PTL DEF PageSpec

(* page_alloc() and page_free() keep the counters in Nat and the links in  *)
(* memory.                                                                 *)
THEOREM PageTypeCorrect == PageSpec => []PageTypeOK
<1>1. PageInv => PageTypeOK
  BY DEF PageInv
<1> QED
  BY <1>1, PageInvariance, PTL

(* The links of list.h form one cycle through the free pages, in a memory  *)
(* of any size and whatever is written to the pages handed out.            *)
THEOREM FreeListCorrect == PageSpec => []FreeListIntact
<1>1. PageInv => FreeListIntact
  BY DEF PageInv
<1> QED
  BY <1>1, PageInvariance, PTL

(* page_free_count() and page_used_count() are right, and no page is lost. *)
THEOREM CountsCorrect == PageSpec => []PagesAccounted
<1>1. PageInv => PagesAccounted
  <2> SUFFICES ASSUME PageInv PROVE PagesAccounted
    OBVIOUS
  <2>1. ListedPages \union held \subseteq Page
    BY DEF PageInv, PageTypeOK, ListedPages
  <2>2. ListedPages \union held = {p \in Page : p < scan}
    BY <2>1 DEF PageInv, ScanAhead
  <2>3. Cardinality(held) \in Nat /\ Len(order) \in Nat
    BY FS_CardinalityType DEF PageInv, Counted, PageTypeOK
  <2>4. nr_total_pages - nr_free_pages = Cardinality(held)
    BY <2>3 DEF PageInv, Counted
  <2> QED
    BY <2>2, <2>4 DEF PagesAccounted, ListedPages, PageInv, Counted
<1> QED
  BY <1>1, PageInvariance, PTL

(* The allocator implements a pool of pages: page_alloc() takes one that   *)
(* is free, page_free() returns one, and the count is that of the free.    *)
THEOREM ListImplementsPool == PageSpec => ListPool!Spec
<1>1. PageInit => ListPool!Init
  BY DEF PageInit, ListPool!Init, ListedPages
<1>2. PageInv /\ [PageNext]_pageVars
          => [ListPool!Next]_<<ListedPages, held, nr_free_pages>>
  BY PageStep
<1> QED
  BY <1>1, <1>2, PageInvariance, PTL DEF PageSpec, ListPool!Spec

-----------------------------------------------------------------------------
(* What the links lead to is what the history says.                        *)

(* A set of numbers has a least one, so what fails somewhere fails for a   *)
(* first time.                                                             *)
LEMMA LeastNat ==
    ASSUME NEW T \in SUBSET Nat, T # {}
    PROVE  \E m \in T : \A k \in T : m <= k
<1>1. PICK m \in T : \A y \in T : ~ (<<y, m>> \in OpToRel(<, Nat))
  BY NatLessThanWellFounded, WFMin
<1>2. \A y \in T : ~ (y < m)
  BY <1>1 DEF OpToRel
<1> QED
  BY <1>2

LEMMA FollowedIs ==
    ASSUME PageTypeOK, FreeListIntact, NEW k \in Nat
    PROVE  Followed[k] = IF k < Len(order) THEN order[k + 1] ELSE HEAD
<1> DEFINE L == Len(order)
           Step(f, i) == IF i = 0 THEN next[HEAD]
                         ELSE IF f[i - 1] \in Page THEN next[f[i - 1]]
                         ELSE f[i - 1]
           g == [i \in Nat |-> IF i < L THEN order[i + 1] ELSE HEAD]
<1>1. /\ L \in Nat /\ DOMAIN order = 1..L
      /\ At(0) = HEAD /\ At(L + 1) = HEAD
      /\ \A i \in 1..L : At(i) = order[i] /\ At(i) \in Page
      /\ \A i \in 0..L : next[At(i)] = At(i + 1)
  BY Positions DEF FreeListIntact
<1> HIDE DEF L
<1>2. \A i \in Nat : g[i] = IF i < L THEN At(i + 1) ELSE HEAD
  BY <1>1
<1>3. ASSUME NEW i \in Nat
      PROVE  g[i] = Step(g, i)
  <2>1. CASE i = 0
    <3>1. next[HEAD] = At(1)
      BY <1>1
    <3>2. g[0] = At(1)
      BY <1>1, <1>2
    <3> QED
      BY <2>1, <3>1, <3>2
  <2>2. CASE i # 0 /\ i - 1 < L
    <3>1. i - 1 \in Nat /\ i \in 1..L /\ g[i - 1] = At(i)
      BY <1>1, <1>2, <2>2
    <3>2. g[i - 1] \in Page /\ next[g[i - 1]] = At(i + 1)
      BY <1>1, <3>1
    <3>3. g[i] = At(i + 1)
      BY <1>1, <1>2, <3>1
    <3> HIDE DEF g
    <3> QED
      BY <2>2, <3>2, <3>3
  <2>3. CASE i # 0 /\ ~(i - 1 < L)
    <3>1. i - 1 \in Nat /\ g[i - 1] = HEAD /\ g[i] = HEAD
      BY <1>1, <1>2, <2>3
    <3> HIDE DEF g
    <3> QED
      BY <2>3, <3>1, PagesAreNodes
  <2> QED
    BY <2>1, <2>2, <2>3
<1>4. g = [i \in Nat |-> Step(g, i)]
  <2> DEFINE h == [i \in Nat |-> Step(g, i)]
  <2>1. \A i \in Nat : g[i] = h[i]
    BY <1>3
  <2> QED
    BY <2>1
<1>5. Followed = [i \in Nat |-> Step(Followed, i)]
  <2> HIDE DEF g
  <2>1. Followed = CHOOSE f : f = [i \in Nat |-> Step(f, i)]
    BY DEF Followed
  <2> QED
    BY <1>4, <2>1
<1>6. ASSUME NEW i \in Nat PROVE Followed[i] = g[i]
  <2> DEFINE Bad == {j \in Nat : Followed[j] # g[j]}
  <2>1. ASSUME Bad # {} PROVE FALSE
    <3>1. PICK m \in Bad : \A j \in Bad : m <= j
      BY <2>1, LeastNat
    <3>2. m \in Nat /\ Followed[m] # g[m]
      BY <3>1
    <3>3. m # 0 => m - 1 \in Nat /\ Followed[m - 1] = g[m - 1]
      BY <3>1, <3>2
    <3> HIDE DEF g, Bad
    <3>4. Followed[m] = Step(Followed, m) /\ g[m] = Step(g, m)
      BY <1>4, <1>5, <3>2
    <3> QED
      BY <3>2, <3>3, <3>4
  <2> QED
    BY <2>1
<1> QED
  BY <1>6 DEF L


ListFollowed == FreePages = ListedPages

LEMMA FreePagesAre == PageInv => ListFollowed
<1> SUFFICES ASSUME PageInv PROVE FreePages = ListedPages
  BY DEF ListFollowed
<1> DEFINE L == Len(order)
           C == Cardinality(Page)
<1>1. /\ L \in Nat /\ DOMAIN order = 1..L
      /\ \A i \in 1..L : order[i] \in Page
      /\ \A i, j \in 1..L : order[i] = order[j] => i = j
  BY DEF PageInv, PageTypeOK, FreeListIntact
<1>2. C \in Nat /\ L <= C
  <2>1. IsFiniteSet(Page)
    <3>1. Page \subseteq align_up(Start, PAGE_SIZE)..End
      BY DEF Page
    <3>2. IsFiniteSet(align_up(Start, PAGE_SIZE)..End)
      BY FirstBoundary, PageAssumption, FS_Interval
    <3> QED
      BY <3>1, <3>2, FS_Subset
  <2>2. order \in Injection(1..L, Page)
    <3>1. order \in [1..L -> Page]
      BY <1>1 DEF PageInv, PageTypeOK
    <3> QED
      BY <1>1, <3>1 DEF Injection, IsInjective
  <2>3. Cardinality(1..L) = L
    BY <1>1, FS_Interval
  <2>4. Cardinality(1..L) <= C
    BY <2>1, <2>2, FS_Injection
  <2> QED
    BY <2>1, <2>3, <2>4, FS_CardinalityType
<1> HIDE DEF C
<1>3. ASSUME NEW k \in Nat
      PROVE  Followed[k] = IF k < L THEN order[k + 1] ELSE HEAD
  BY FollowedIs DEF PageInv
<1> HIDE DEF L
<1>4. ASSUME NEW k \in 0..C, Followed[k] \in Page
      PROVE  \E i \in 1..L : Followed[k] = order[i]
  <2>1. k \in Nat /\ k < L
    BY <1>2, <1>3, <1>4, PagesAreNodes
  <2>2. k + 1 \in 1..L
    BY <1>1, <2>1
  <2> QED
    BY <1>3, <2>1, <2>2
<1>5. ASSUME NEW i \in 1..L
      PROVE  order[i] \in Page /\ \E k \in 0..C : Followed[k] = order[i]
  <2>1. i - 1 \in 0..C /\ i - 1 \in Nat /\ i - 1 < L /\ (i - 1) + 1 = i
    BY <1>1, <1>2
  <2>2. Followed[i - 1] = order[i]
    BY <1>3, <2>1
  <2> QED
    BY <1>1, <2>1, <2>2
<1>6. FreePages = {Followed[k] : k \in 0..C} \intersect Page
  BY DEF FreePages, C
<1>7. ListedPages = {order[i] : i \in 1..L}
  BY <1>1 DEF ListedPages
<1> QED
  BY <1>4, <1>5, <1>6, <1>7

LEMMA FreePagesAreNext == PageInv' => ListFollowed'
BY FreePagesAre, PTL

(* The links themselves implement a pool of pages, with no help from the   *)
(* history: page.c and list.h, for a memory and pages of any size.         *)
THEOREM LinksImplementPool == PageSpec => ImplementsPool
<1>1. PageInit => Pool!Init
  <2> SUFFICES ASSUME PageInit PROVE Pool!Init
    OBVIOUS
  <2>1. FreePages = ListedPages
    BY PageInvInit, FreePagesAre DEF ListFollowed
  <2> QED
    BY <2>1 DEF PageInit, Pool!Init, ListedPages
<1>2. PageInv /\ [PageNext]_pageVars
          => [Pool!Next]_<<FreePages, held, nr_free_pages>>
  <2> SUFFICES ASSUME PageInv, [PageNext]_pageVars
               PROVE  [Pool!Next]_<<FreePages, held, nr_free_pages>>
    OBVIOUS
  <2>1. PageInv' /\ [ListPool!Next]_<<ListedPages, held, nr_free_pages>>
    BY PageStep
  <2>2. FreePages = ListedPages /\ FreePages' = ListedPages'
    BY <2>1, FreePagesAre, FreePagesAreNext DEF ListFollowed
  <2> QED
    BY <2>1, <2>2 DEF Pool!Next, Pool!Join, Pool!Alloc, Pool!Free, ListPool!Next,
                      ListPool!Join, ListPool!Alloc, ListPool!Free
<1> QED
  BY <1>1, <1>2, PageInvariance, PTL DEF PageSpec, ImplementsPool, Pool!Spec
=============================================================================
