--------------------------- MODULE KmallocProofs ----------------------------
(***************************************************************************)
(* Proofs about the kernel heap together with the page allocator.          *)
(***************************************************************************)
EXTENDS Kmalloc, PageAllocProofs

(* Each step is a page_alloc() or leaves the free list alone, or is one of *)
(* the rest of the kernel.                                                 *)
LEMMA PagesStep == [Next]_vars => [PageNext]_pageVars
<1> SUFFICES ASSUME [Next]_vars PROVE [PageNext]_pageVars
  OBVIOUS
<1>1. ASSUME NEW size \in Request, kmalloc(size)
      PROVE  UNCHANGED pageVars
  BY <1>1 DEF kmalloc
<1>2. ASSUME NEW size \in Request, kmalloc_grows(size)
      PROVE  PageNext
  <2>1. PICK p \in Page : page_alloc(p)
    BY <1>2 DEF kmalloc_grows
  <2> QED
    BY <2>1 DEF PageNext
<1>3. ASSUME NEW ptr \in DOMAIN live, kfree(ptr)
      PROVE  UNCHANGED pageVars
  BY <1>3 DEF kfree
<1>4. CASE PageUser
  BY <1>4 DEF PageUser, PageNext
<1>5. CASE UNCHANGED vars
  BY <1>5 DEF vars
<1> QED
  BY <1>1, <1>2, <1>3, <1>4, <1>5 DEF Next

(* To the page allocator the heap is one more user.                        *)
THEOREM HeapUsesPages == Spec => PageSpec
<1>1. Init => PageInit
  BY DEF Init
<1> QED
  BY <1>1, PagesStep, PTL DEF Spec, PageSpec

(* The free list stays whole, and the counters right, however the heap and *)
(* the rest of the kernel use the pages.                                   *)
THEOREM FreeListUnderHeap == Spec => [](FreeListIntact /\ PagesAccounted)
<1> QED
  BY HeapUsesPages, FreeListCorrect, CountsCorrect, PTL

(* The links of the free list implement a pool of pages under the heap.    *)
THEOREM PoolUnderHeap == Spec => ImplementsPool
<1> QED
  BY HeapUsesPages, LinksImplementPool, PTL

-----------------------------------------------------------------------------
(* The heap, block by block.                                               *)

(* What a heap is made of.                                                 *)
Formed(h) ==
    /\ DOMAIN h = {"blk", "head", "tail"}
    /\ \A a \in DOMAIN h.blk :
           /\ a \in Nat \ {0} /\ a % KMALLOC_ALIGN = 0
           /\ h.blk[a] \in [size : Nat, free : BOOLEAN, prev : Nat, next : Nat]
           /\ h.blk[a].size % KMALLOC_ALIGN = 0

(* No two blocks overlap.                                                  *)
Apart(h) ==
    \A a, b \in DOMAIN h.blk : a # b => EndOf(h, a) <= b \/ EndOf(h, b) <= a

(* The bytes of the blocks are those of the pages of G.                    *)
Covers(h, G) ==
    \A x \in Nat : (\E a \in DOMAIN h.blk : a <= x /\ x < EndOf(h, a))
                       <=> (\E p \in G : p <= x /\ x < p + PAGE_SIZE)

(* The list goes through the n blocks of s in turn, both ways.             *)
Chain(h, n, s) ==
    /\ n \in Nat /\ s \in [1..n -> DOMAIN h.blk]
    /\ \A i, j \in 1..n : s[i] = s[j] => i = j
    /\ \A a \in DOMAIN h.blk : \E i \in 1..n : s[i] = a
    /\ h.head = IF n = 0 THEN 0 ELSE s[1]
    /\ h.tail = IF n = 0 THEN 0 ELSE s[n]
    /\ \A i \in 1..n : /\ h.blk[s[i]].next = IF i = n THEN 0 ELSE s[i + 1]
                       /\ h.blk[s[i]].prev = IF i = 1 THEN 0 ELSE s[i - 1]

Chained(h) == \E n, s : Chain(h, n, s)

Whole(h, G) == Formed(h) /\ Apart(h) /\ Covers(h, G) /\ Chained(h)

-----------------------------------------------------------------------------
(* Multiples of the alignment.                                             *)

LEMMA MultiplesAdd ==
    ASSUME NEW P \in Nat \ {0}, NEW a \in Nat, NEW b \in Nat,
           a % P = 0, b % P = 0
    PROVE  /\ (a + b) % P = 0
           /\ b <= a => (a - b) % P = 0
<1>1. PICK k \in Nat : a = k * P
  BY ModMultiple
<1>2. PICK m \in Nat : b = m * P
  BY ModMultiple
<1>3. a + b = (k + m) * P /\ a - b = (k - m) * P
  BY <1>1, <1>2
<1>4. ((k + m) * P) % P = 0
  BY MultipleMod
<1>5. ASSUME b <= a PROVE ((k - m) * P) % P = 0
  <2>1. k - m \in Nat
    <3>1. CASE m > k
      <4>1. m * P >= (k + 1) * P
        BY <3>1
      <4>2. (k + 1) * P = k * P + P
        OBVIOUS
      <4> QED
        BY <1>1, <1>2, <1>5, <4>1, <4>2
    <3> QED
      BY <3>1
  <2> QED
    BY <2>1, MultipleMod
<1> QED
  BY <1>3, <1>4, <1>5

(* align_up() returns the next multiple.                                   *)
LEMMA AlignUpIs ==
    ASSUME NEW value \in Nat, NEW P \in Nat \ {0}
    PROVE  /\ align_up(value, P) \in Nat
           /\ align_up(value, P) >= value
           /\ align_up(value, P) % P = 0
<1> DEFINE x == value + P - 1
           q == x \div P
<1>1. x \in Nat /\ x = value + P - 1
  OBVIOUS
<1> HIDE DEF x
<1>2. q \in Nat /\ x % P \in 0..(P - 1) /\ x = P * q + (x % P)
  BY <1>1
<1> HIDE DEF q
<1>3. q * P \in Nat /\ q * P >= value
  BY <1>1, <1>2
<1>4. (q * P) % P = 0
  BY <1>2, MultipleMod
<1>5. align_up(value, P) = q * P
  BY DEF align_up, q, x
<1> QED
  BY <1>3, <1>4, <1>5

LEMMA AlignedSize ==
    ASSUME NEW size \in Nat
    PROVE  /\ align_up(size, KMALLOC_ALIGN) \in Nat
           /\ align_up(size, KMALLOC_ALIGN) >= size
           /\ align_up(size, KMALLOC_ALIGN) % KMALLOC_ALIGN = 0
BY AlignUpIs, KmallocAssumption

(* Where pages are.                                                        *)
LEMMA PageFacts ==
    ASSUME NEW p \in Page
    PROVE  /\ p \in Nat \ {0} /\ p % PAGE_SIZE = 0 /\ p % KMALLOC_ALIGN = 0
           /\ \A q \in Page : p # q => p + PAGE_SIZE <= q \/ q + PAGE_SIZE <= p
<1>1. \A q \in Page : q \in Nat \ {0} /\ q % PAGE_SIZE = 0
  <2>1. align_up(Start, PAGE_SIZE) \in Nat /\ align_up(Start, PAGE_SIZE) >= Start
    BY AlignUpIs, PageAssumption
  <2> QED
    BY <2>1, PageAssumption DEF Page
<1>2. ASSUME NEW q \in Page, NEW r \in Page, q < r
      PROVE  q + PAGE_SIZE <= r
  <2>1. ~(r < q + PAGE_SIZE)
    BY <1>1, <1>2, NextBoundary, PageAssumption
  <2> QED
    BY <1>1, <2>1, PageAssumption
<1>3. p % KMALLOC_ALIGN = 0
  <2>1. PICK k \in Nat : p = k * PAGE_SIZE
    BY <1>1, ModMultiple, PageAssumption
  <2>2. PICK m \in Nat : PAGE_SIZE = m * KMALLOC_ALIGN
    BY ModMultiple, PageAssumption, KmallocAssumption
  <2>3. p = (k * m) * KMALLOC_ALIGN
    <3>1. KMALLOC_ALIGN \in Nat
      BY KmallocAssumption
    <3> QED
      BY <2>1, <2>2, <3>1
  <2>4. k * m \in Nat
    OBVIOUS
  <2> QED
    BY <2>3, <2>4, MultipleMod, KmallocAssumption
<1>4. ASSUME NEW q \in Page, p # q
      PROVE  p + PAGE_SIZE <= q \/ q + PAGE_SIZE <= p
  <2>1. p < q \/ q < p
    BY <1>1, <1>4
  <2> QED
    BY <1>2, <2>1
<1> QED
  BY <1>1, <1>3, <1>4

LEMMA MinIs ==
    ASSUME NEW T \in SUBSET Nat, T # {}
    PROVE  Min(T) \in T
BY LeastNat DEF Min

-----------------------------------------------------------------------------
(* The operations on the heap, field by field.                             *)

(* g is h with the flag of the block at a set to v.                        *)
Marked(h, g, a, v) ==
    /\ DOMAIN g = {"blk", "head", "tail"} /\ DOMAIN g.blk = DOMAIN h.blk
    /\ g.head = h.head /\ g.tail = h.tail
    /\ \A x \in DOMAIN h.blk :
           /\ g.blk[x] \in [size : Nat, free : BOOLEAN, prev : Nat, next : Nat]
           /\ g.blk[x].size = h.blk[x].size
           /\ g.blk[x].free = IF x = a THEN v ELSE h.blk[x].free
           /\ g.blk[x].prev = h.blk[x].prev
           /\ g.blk[x].next = h.blk[x].next

LEMMA MarkFields ==
    ASSUME NEW h, Formed(h), NEW a \in DOMAIN h.blk, NEW v \in BOOLEAN
    PROVE  Marked(h, [h EXCEPT !.blk[a].free = v], a, v)
<1> DEFINE g == [h EXCEPT !.blk[a].free = v]
<1>1. DOMAIN h = {"blk", "head", "tail"}
  BY DEF Formed
<1>2. \A x \in DOMAIN h.blk :
         h.blk[x] \in [size : Nat, free : BOOLEAN, prev : Nat, next : Nat]
  BY DEF Formed
<1>3. /\ DOMAIN g = {"blk", "head", "tail"}
      /\ g.blk = [h.blk EXCEPT ![a].free = v]
      /\ g.head = h.head /\ g.tail = h.tail
  BY <1>1
<1> HIDE DEF g
<1>4. /\ DOMAIN g.blk = DOMAIN h.blk
      /\ g.blk[a] = [h.blk[a] EXCEPT !.free = v]
      /\ \A x \in DOMAIN h.blk : x # a => g.blk[x] = h.blk[x]
  BY <1>3
<1>5. Marked(h, g, a, v)
  BY <1>2, <1>3, <1>4 DEF Marked
<1> QED
  BY <1>5 DEF g

(* g is h with the block at a split after size bytes, and n the new block. *)
Split(h, g, a, size, n) ==
    /\ DOMAIN g = {"blk", "head", "tail"}
    /\ DOMAIN g.blk = DOMAIN h.blk \union {n}
    /\ g.head = h.head
    /\ g.tail = IF h.blk[a].next = 0 THEN n ELSE h.tail
    /\ \A x \in DOMAIN h.blk :
           /\ g.blk[x] \in [size : Nat, free : BOOLEAN, prev : Nat, next : Nat]
           /\ g.blk[x].size = IF x = a THEN size ELSE h.blk[x].size
           /\ g.blk[x].free = h.blk[x].free
           /\ g.blk[x].prev = IF x # a /\ x = h.blk[a].next
                              THEN n ELSE h.blk[x].prev
           /\ g.blk[x].next = IF x = a THEN n ELSE h.blk[x].next
    /\ g.blk[n] = [size |-> h.blk[a].size - size - HEADER, free |-> TRUE,
                   prev |-> a, next |-> h.blk[a].next]

LEMMA CarveFields ==
    ASSUME NEW h, Formed(h), NEW a \in DOMAIN h.blk, NEW size \in Nat,
           a + HEADER + size \notin DOMAIN h.blk
    PROVE  Split(h, Carved(h, a, size), a, size, a + HEADER + size)
<1> DEFINE n == a + HEADER + size
           b == h.blk[a]
           g == Carved(h, a, size)
           F == [x \in DOMAIN h.blk |->
                   IF x = a THEN [b EXCEPT !.size = size, !.next = n]
                   ELSE IF x = b.next THEN [h.blk[x] EXCEPT !.prev = n]
                   ELSE h.blk[x]]
           e == [size |-> b.size - size - HEADER, free |-> TRUE,
                 prev |-> a, next |-> b.next]
<1>1. \A x \in DOMAIN h.blk :
         h.blk[x] \in [size : Nat, free : BOOLEAN, prev : Nat, next : Nat]
  BY DEF Formed
<1>2. n \in Nat /\ n \notin DOMAIN h.blk
  BY KmallocAssumption DEF Formed
<1>3. /\ DOMAIN g = {"blk", "head", "tail"}
      /\ g.blk = With(F, n, e)
      /\ g.head = h.head
      /\ g.tail = IF b.next = 0 THEN n ELSE h.tail
  BY DEF Carved
<1> HIDE DEF g, n
<1>4. /\ DOMAIN g.blk = DOMAIN h.blk \union {n}
      /\ g.blk[n] = e
      /\ \A x \in DOMAIN h.blk : g.blk[x] = F[x]
  <2>1. DOMAIN F = DOMAIN h.blk
    OBVIOUS
  <2> HIDE DEF F, e
  <2>2. /\ DOMAIN With(F, n, e) = DOMAIN F \union {n}
        /\ With(F, n, e)[n] = e
        /\ \A x \in DOMAIN F : x # n => With(F, n, e)[x] = F[x]
    BY DEF With
  <2> QED
    BY <1>2, <1>3, <2>1, <2>2
<1>5. \A x \in DOMAIN h.blk :
         /\ g.blk[x] = IF x = a THEN [b EXCEPT !.size = size, !.next = n]
                       ELSE IF x = b.next THEN [h.blk[x] EXCEPT !.prev = n]
                       ELSE h.blk[x]
  BY <1>4
<1>6. ASSUME NEW x \in DOMAIN h.blk
      PROVE  /\ g.blk[x] \in [size : Nat, free : BOOLEAN, prev : Nat, next : Nat]
             /\ g.blk[x].size = IF x = a THEN size ELSE h.blk[x].size
             /\ g.blk[x].free = h.blk[x].free
             /\ g.blk[x].prev = IF x # a /\ x = h.blk[a].next
                                THEN n ELSE h.blk[x].prev
             /\ g.blk[x].next = IF x = a THEN n ELSE h.blk[x].next
  <2>1. CASE x = a
    <3>1. g.blk[x] = [h.blk[x] EXCEPT !.size = size, !.next = n]
      BY <1>5, <2>1
    <3> QED
      BY <1>1, <1>2, <2>1, <3>1
  <2>2. CASE x # a /\ x = b.next
    <3>1. g.blk[x] = [h.blk[x] EXCEPT !.prev = n]
      BY <1>5, <2>2
    <3> QED
      BY <1>1, <1>2, <2>2, <3>1
  <2>3. CASE x # a /\ x # b.next
    <3>1. g.blk[x] = h.blk[x]
      BY <1>5, <2>3
    <3> QED
      BY <1>1, <2>3, <3>1
  <2> QED
    BY <2>1, <2>2, <2>3
<1>7. Split(h, g, a, size, n)
  BY <1>3, <1>4, <1>6 DEF Split
<1> QED
  BY <1>7 DEF g, n

(* g is h with the block at n taken in by the one at a.                    *)
Joined(h, g, a, n) ==
    /\ DOMAIN g = {"blk", "head", "tail"}
    /\ DOMAIN g.blk = DOMAIN h.blk \ {n}
    /\ g.head = h.head
    /\ g.tail = IF h.blk[n].next = 0 THEN a ELSE h.tail
    /\ \A x \in DOMAIN h.blk \ {n} :
           /\ g.blk[x] \in [size : Nat, free : BOOLEAN, prev : Nat, next : Nat]
           /\ g.blk[x].size = IF x = a THEN h.blk[a].size + HEADER + h.blk[n].size
                              ELSE h.blk[x].size
           /\ g.blk[x].free = h.blk[x].free
           /\ g.blk[x].prev = IF x # a /\ x = h.blk[n].next
                              THEN a ELSE h.blk[x].prev
           /\ g.blk[x].next = IF x = a THEN h.blk[n].next ELSE h.blk[x].next

LEMMA TakeFields ==
    ASSUME NEW h, Formed(h), NEW a \in DOMAIN h.blk, NEW n \in DOMAIN h.blk
    PROVE  Joined(h, TakenIn(h, a, n), a, n)
<1> DEFINE g == TakenIn(h, a, n)
<1>1. \A x \in DOMAIN h.blk :
         /\ h.blk[x] \in [size : Nat, free : BOOLEAN, prev : Nat, next : Nat]
         /\ x \in Nat
  BY DEF Formed
<1>2. /\ DOMAIN g = {"blk", "head", "tail"}
      /\ DOMAIN g.blk = DOMAIN h.blk \ {n}
      /\ g.head = h.head
      /\ g.tail = IF h.blk[n].next = 0 THEN a ELSE h.tail
      /\ \A x \in DOMAIN h.blk \ {n} :
             g.blk[x] = IF x = a
                  THEN [h.blk[a] EXCEPT !.size = @ + HEADER + h.blk[n].size,
                                        !.next = h.blk[n].next]
                  ELSE IF x = h.blk[n].next THEN [h.blk[x] EXCEPT !.prev = a]
                  ELSE h.blk[x]
  BY DEF TakenIn
<1> HIDE DEF g
<1>3. HEADER \in Nat
  BY KmallocAssumption
<1>4. ASSUME NEW x \in DOMAIN h.blk \ {n}
      PROVE  /\ g.blk[x] \in [size : Nat, free : BOOLEAN, prev : Nat, next : Nat]
             /\ g.blk[x].size = IF x = a
                                THEN h.blk[a].size + HEADER + h.blk[n].size
                                ELSE h.blk[x].size
             /\ g.blk[x].free = h.blk[x].free
             /\ g.blk[x].prev = IF x # a /\ x = h.blk[n].next
                                THEN a ELSE h.blk[x].prev
             /\ g.blk[x].next = IF x = a THEN h.blk[n].next ELSE h.blk[x].next
  <2>1. CASE x = a
    <3> DEFINE sum == h.blk[a].size + HEADER + h.blk[n].size
    <3>1. g.blk[x] = [h.blk[x] EXCEPT !.size = sum, !.next = h.blk[n].next]
      BY <1>2, <2>1
    <3>2. sum \in Nat /\ h.blk[n].next \in Nat
      BY <1>1, <1>3
    <3>3. /\ g.blk[x] \in [size : Nat, free : BOOLEAN, prev : Nat, next : Nat]
          /\ g.blk[x].size = sum
          /\ g.blk[x].free = h.blk[x].free
          /\ g.blk[x].prev = h.blk[x].prev
          /\ g.blk[x].next = h.blk[n].next
      <4> HIDE DEF sum
      <4> QED
        BY <1>1, <3>1, <3>2
    <3> QED
      BY <2>1, <3>3
  <2>2. CASE x # a /\ x = h.blk[n].next
    <3>1. g.blk[x] = [h.blk[x] EXCEPT !.prev = a]
      BY <1>2, <2>2
    <3> QED
      BY <1>1, <2>2, <3>1
  <2>3. CASE x # a /\ x # h.blk[n].next
    <3>1. g.blk[x] = h.blk[x]
      BY <1>2, <2>3
    <3> QED
      BY <1>1, <2>3, <3>1
  <2> QED
    BY <2>1, <2>2, <2>3
<1>5. Joined(h, g, a, n)
  BY <1>2, <1>4 DEF Joined
<1> QED
  BY <1>5 DEF g

(* g is h with page p as one free block at the end of the list.            *)
Grown(h, g, p) ==
    /\ DOMAIN g = {"blk", "head", "tail"}
    /\ DOMAIN g.blk = DOMAIN h.blk \union {p}
    /\ g.head = IF h.tail = 0 THEN p ELSE h.head
    /\ g.tail = p
    /\ \A x \in DOMAIN h.blk :
           /\ g.blk[x] \in [size : Nat, free : BOOLEAN, prev : Nat, next : Nat]
           /\ g.blk[x].size = h.blk[x].size
           /\ g.blk[x].free = h.blk[x].free
           /\ g.blk[x].prev = h.blk[x].prev
           /\ g.blk[x].next = IF x = h.tail THEN p ELSE h.blk[x].next
    /\ g.blk[p] = [size |-> Max_size, free |-> TRUE, prev |-> h.tail, next |-> 0]

LEMMA GrowFields ==
    ASSUME NEW h, Formed(h), NEW p \in Nat, p \notin DOMAIN h.blk
    PROVE  Grown(h, heap_grow(h, p), p)
<1> DEFINE g == heap_grow(h, p)
           F == [a \in DOMAIN h.blk |-> IF a = h.tail
                                        THEN [h.blk[a] EXCEPT !.next = p]
                                        ELSE h.blk[a]]
           e == [size |-> Max_size, free |-> TRUE, prev |-> h.tail, next |-> 0]
<1>1. \A x \in DOMAIN h.blk :
         h.blk[x] \in [size : Nat, free : BOOLEAN, prev : Nat, next : Nat]
  BY DEF Formed
<1>2. /\ DOMAIN g = {"blk", "head", "tail"}
      /\ g.blk = With(F, p, e)
      /\ g.head = IF h.tail = 0 THEN p ELSE h.head
      /\ g.tail = p
  BY DEF heap_grow
<1> HIDE DEF g
<1>3. /\ DOMAIN g.blk = DOMAIN h.blk \union {p}
      /\ g.blk[p] = e
      /\ \A x \in DOMAIN h.blk : g.blk[x] = F[x]
  <2>1. DOMAIN F = DOMAIN h.blk
    OBVIOUS
  <2> HIDE DEF F, e
  <2>2. /\ DOMAIN With(F, p, e) = DOMAIN F \union {p}
        /\ With(F, p, e)[p] = e
        /\ \A x \in DOMAIN F : x # p => With(F, p, e)[x] = F[x]
    BY DEF With
  <2> QED
    BY <1>2, <2>1, <2>2
<1>4. \A x \in DOMAIN h.blk :
         g.blk[x] = IF x = h.tail THEN [h.blk[x] EXCEPT !.next = p] ELSE h.blk[x]
  BY <1>3
<1>5. ASSUME NEW x \in DOMAIN h.blk
      PROVE  /\ g.blk[x] \in [size : Nat, free : BOOLEAN, prev : Nat, next : Nat]
             /\ g.blk[x].size = h.blk[x].size
             /\ g.blk[x].free = h.blk[x].free
             /\ g.blk[x].prev = h.blk[x].prev
             /\ g.blk[x].next = IF x = h.tail THEN p ELSE h.blk[x].next
  <2>1. CASE x = h.tail
    <3>1. g.blk[x] = [h.blk[x] EXCEPT !.next = p]
      BY <1>4, <2>1
    <3> QED
      BY <1>1, <2>1, <3>1
  <2>2. CASE x # h.tail
    BY <1>1, <1>4, <2>2
  <2> QED
    BY <2>1, <2>2
<1>6. Grown(h, g, p)
  BY <1>2, <1>3, <1>5 DEF Grown
<1> QED
  BY <1>6 DEF g

-----------------------------------------------------------------------------
(* The list of the blocks.                                                 *)

(* What the links of single blocks say of each other.                      *)
Linked(h) ==
    /\ \A x \in DOMAIN h.blk :
           /\ h.blk[x].next \in DOMAIN h.blk \union {0}
           /\ h.blk[x].prev \in DOMAIN h.blk \union {0}
           /\ h.blk[x].next # 0 => h.blk[h.blk[x].next].prev = x
           /\ h.blk[x].prev # 0 => h.blk[h.blk[x].prev].next = x
           /\ h.blk[x].next = 0 => x = h.tail
    /\ h.head \in DOMAIN h.blk \union {0} /\ h.tail \in DOMAIN h.blk \union {0}
    /\ DOMAIN h.blk = {} => h.head = 0 /\ h.tail = 0
    /\ DOMAIN h.blk # {} => /\ h.head # 0 /\ h.blk[h.head].prev = 0
                            /\ h.tail # 0 /\ h.blk[h.tail].next = 0

LEMMA ChainLinks ==
    ASSUME NEW h, Formed(h), Chained(h)
    PROVE  Linked(h)
<1> DEFINE B == DOMAIN h.blk
<1>1. PICK n, s : Chain(h, n, s)
  BY DEF Chained
<1>2. /\ n \in Nat /\ s \in [1..n -> B]
      /\ \A i, j \in 1..n : s[i] = s[j] => i = j
      /\ \A a \in B : \E i \in 1..n : s[i] = a
      /\ h.head = IF n = 0 THEN 0 ELSE s[1]
      /\ h.tail = IF n = 0 THEN 0 ELSE s[n]
      /\ \A i \in 1..n : /\ h.blk[s[i]].next = IF i = n THEN 0 ELSE s[i + 1]
                         /\ h.blk[s[i]].prev = IF i = 1 THEN 0 ELSE s[i - 1]
  BY <1>1 DEF Chain
<1>3. \A x \in B : x # 0
  BY DEF Formed
<1> HIDE DEF B
<1>4. ASSUME NEW x \in B
      PROVE  /\ h.blk[x].next \in B \union {0}
             /\ h.blk[x].prev \in B \union {0}
             /\ h.blk[x].next # 0 => h.blk[h.blk[x].next].prev = x
             /\ h.blk[x].prev # 0 => h.blk[h.blk[x].prev].next = x
             /\ h.blk[x].next = 0 => x = h.tail
  <2>1. PICK i \in 1..n : s[i] = x
    BY <1>2
  <2>2. /\ h.blk[x].next = IF i = n THEN 0 ELSE s[i + 1]
        /\ h.blk[x].prev = IF i = 1 THEN 0 ELSE s[i - 1]
    BY <1>2, <2>1
  <2>3. i # n => /\ i + 1 \in 1..n /\ s[i + 1] \in B /\ s[i + 1] # 0
                 /\ h.blk[s[i + 1]].prev = s[i]
    <3>1. ASSUME i # n PROVE i + 1 \in 1..n /\ i + 1 # 1 /\ (i + 1) - 1 = i
      BY <1>2, <3>1
    <3> QED
      BY <1>2, <1>3, <3>1
  <2>4. i # 1 => /\ i - 1 \in 1..n /\ s[i - 1] \in B /\ s[i - 1] # 0
                 /\ h.blk[s[i - 1]].next = s[i]
    <3>1. ASSUME i # 1 PROVE i - 1 \in 1..n /\ i - 1 # n /\ (i - 1) + 1 = i
      BY <1>2, <3>1
    <3> QED
      BY <1>2, <1>3, <3>1
  <2>5. h.blk[x].next = 0 => x = h.tail
    BY <1>2, <2>1, <2>2, <2>3
  <2> QED
    BY <2>1, <2>2, <2>3, <2>4, <2>5
<1>5. /\ n # 0 <=> B # {}
      /\ n # 0 => /\ s[1] \in B /\ s[n] \in B
                  /\ h.blk[s[1]].prev = 0 /\ h.blk[s[n]].next = 0
  <2>1. n # 0 => 1 \in 1..n /\ n \in 1..n
    BY <1>2
  <2> QED
    BY <1>2, <2>1
<1>6. /\ h.head \in B \union {0} /\ h.tail \in B \union {0}
      /\ B = {} => h.head = 0 /\ h.tail = 0
      /\ B # {} => /\ h.head # 0 /\ h.blk[h.head].prev = 0
                   /\ h.tail # 0 /\ h.blk[h.tail].next = 0
  BY <1>2, <1>3, <1>5
<1> QED
  BY <1>4, <1>6 DEF Linked, B

(* A flag is no part of the list.                                          *)
LEMMA MarkChained ==
    ASSUME NEW h, NEW g, NEW a, NEW v, Marked(h, g, a, v), Formed(h), Chained(h)
    PROVE  Chained(g)
<1>1. PICK n, s : Chain(h, n, s)
  BY DEF Chained
<1>2. /\ DOMAIN g.blk = DOMAIN h.blk /\ g.head = h.head /\ g.tail = h.tail
      /\ \A x \in DOMAIN h.blk : /\ g.blk[x].prev = h.blk[x].prev
                                 /\ g.blk[x].next = h.blk[x].next
  BY DEF Marked
<1>3. Chain(g, n, s)
  BY <1>1, <1>2 DEF Chain
<1> QED
  BY <1>3 DEF Chained

(* split_block() puts the new block after the one it splits.               *)
LEMMA SplitChained ==
    ASSUME NEW h, NEW g, NEW a \in DOMAIN h.blk, NEW size, NEW d \in Nat \ {0},
           d \notin DOMAIN h.blk,
           Split(h, g, a, size, d), Formed(h), Chained(h)
    PROVE  Chained(g)
<1> DEFINE B == DOMAIN h.blk
<1>1. PICK n, s : Chain(h, n, s)
  BY DEF Chained
<1>2. /\ n \in Nat /\ s \in [1..n -> B]
      /\ \A i, j \in 1..n : s[i] = s[j] => i = j
      /\ \A x \in B : \E i \in 1..n : s[i] = x
      /\ h.head = IF n = 0 THEN 0 ELSE s[1]
      /\ h.tail = IF n = 0 THEN 0 ELSE s[n]
      /\ \A i \in 1..n : /\ h.blk[s[i]].next = IF i = n THEN 0 ELSE s[i + 1]
                         /\ h.blk[s[i]].prev = IF i = 1 THEN 0 ELSE s[i - 1]
  BY <1>1 DEF Chain
<1>3. \A x \in B : x # 0
  BY DEF Formed
<1>4. /\ DOMAIN g.blk = B \union {d}
      /\ g.head = h.head
      /\ g.tail = IF h.blk[a].next = 0 THEN d ELSE h.tail
      /\ \A x \in B :
             /\ g.blk[x].prev = IF x # a /\ x = h.blk[a].next
                                THEN d ELSE h.blk[x].prev
             /\ g.blk[x].next = IF x = a THEN d ELSE h.blk[x].next
      /\ g.blk[d].prev = a /\ g.blk[d].next = h.blk[a].next
  BY DEF Split
<1> HIDE DEF B
<1>5. PICK j \in 1..n : s[j] = a
  BY <1>2 DEF B
<1>5a. \A i, k \in 1..n : s[i] = s[k] => i = k
  BY <1>2
<1>5b. \A i \in 1..n : s[i] \in B
  BY <1>2
<1>5c. n \in Nat /\ j \in Nat
  BY <1>2
<1>6. h.blk[a].next = IF j = n THEN 0 ELSE s[j + 1]
  BY <1>2, <1>5
<1> DEFINE t == [i \in 1..(n + 1) |-> IF i <= j THEN s[i]
                                      ELSE IF i = j + 1 THEN d ELSE s[i - 1]]
<1>7. /\ \A i \in 1..j : t[i] = s[i] /\ i \in 1..n
      /\ t[j + 1] = d
      /\ \A i \in (j + 2)..(n + 1) : t[i] = s[i - 1] /\ i - 1 \in 1..n
      /\ \A i \in 1..(n + 1) : i \in 1..j \/ i = j + 1 \/ i \in (j + 2)..(n + 1)
      /\ j + 1 \in 1..(n + 1)
  BY <1>2, <1>5
<1>8. t \in [1..(n + 1) -> B \union {d}]
  <2>1. \A i \in 1..(n + 1) : t[i] \in B \union {d}
    <3> HIDE DEF t
    <3> QED
      BY <1>2, <1>7
  <2> QED
    BY <2>1
<1> HIDE DEF t
<1>9. ASSUME NEW i \in 1..(n + 1), NEW k \in 1..(n + 1), t[i] = t[k]
      PROVE  i = k
  <2>1. d \notin B
    BY DEF B
  <2>2. CASE i \in 1..j
    <3>1. t[i] = s[i] /\ i \in 1..n /\ s[i] \in B
      BY <1>2, <1>7, <2>2
    <3>2. k # j + 1
      BY <1>7, <1>9, <2>1, <3>1
    <3>3. CASE k \in (j + 2)..(n + 1)
      <4>1. t[k] = s[k - 1] /\ k - 1 \in 1..n
        BY <1>7, <3>3
      <4>2. i = k - 1
        BY <1>9, <1>5a, <3>1, <4>1
      <4> QED
        BY <1>2, <1>5, <2>2, <3>3, <4>2
    <3>4. CASE k \in 1..j
      BY <1>7, <1>9, <1>5a, <3>1, <3>4
    <3> QED
      BY <1>7, <3>2, <3>3, <3>4
  <2>3. CASE i = j + 1
    <3>1. t[k] \notin B
      BY <1>7, <1>9, <2>1, <2>3
    <3> QED
      BY <1>7, <1>5b, <2>3, <3>1
  <2>4. CASE i \in (j + 2)..(n + 1)
    <3>1. t[i] = s[i - 1] /\ i - 1 \in 1..n /\ s[i - 1] \in B
      BY <1>2, <1>7, <2>4
    <3>2. k # j + 1
      BY <1>7, <1>9, <2>1, <3>1
    <3>3. CASE k \in (j + 2)..(n + 1)
      <4>1. t[k] = s[k - 1] /\ k - 1 \in 1..n
        BY <1>7, <3>3
      <4>2. i - 1 = k - 1
        BY <1>9, <1>5a, <3>1, <4>1
      <4> QED
        BY <4>2
    <3>4. CASE k \in 1..j
      <4>1. t[k] = s[k] /\ k \in 1..n
        BY <1>7, <3>4
      <4>2. i - 1 = k
        BY <1>9, <1>5a, <3>1, <4>1
      <4> QED
        BY <1>2, <1>5, <2>4, <3>4, <4>2
    <3> QED
      BY <1>7, <3>2, <3>3, <3>4
  <2> QED
    BY <1>7, <2>2, <2>3, <2>4
<1>10. ASSUME NEW x \in B \union {d}
       PROVE  \E i \in 1..(n + 1) : t[i] = x
  <2>1. CASE x = d
    BY <1>7, <2>1
  <2>2. CASE x \in B
    <3>1. PICK k \in 1..n : s[k] = x
      BY <1>2, <2>2
    <3>2. CASE k <= j
      <4>1. k \in 1..j /\ k \in 1..(n + 1)
        BY <1>2, <1>5, <3>2
      <4> QED
        BY <1>7, <3>1, <4>1
    <3>3. CASE k > j
      <4>1. k + 1 \in (j + 2)..(n + 1) /\ k + 1 \in 1..(n + 1) /\ (k + 1) - 1 = k
        BY <1>2, <1>5, <3>3
      <4> QED
        BY <1>7, <3>1, <4>1
    <3> QED
      BY <1>2, <1>5, <3>2, <3>3
  <2> QED
    BY <2>1, <2>2
<1>11. /\ g.head = t[1]
       /\ g.tail = t[n + 1]
  <2>1. 1 \in 1..j /\ n # 0
    BY <1>2, <1>5
  <2>2. j = n => t[n + 1] = d
    BY <1>7
  <2>3. j # n => t[n + 1] = s[n] /\ j + 1 \in 1..n
    <3>1. ASSUME j # n PROVE n + 1 \in (j + 2)..(n + 1) /\ (n + 1) - 1 = n
      BY <1>2, <1>5, <3>1
    <3> QED
      BY <1>2, <1>5, <1>7, <3>1
  <2>4. j # n => s[j + 1] # 0
    BY <1>2, <1>3, <2>3
  <2> QED
    BY <1>2, <1>4, <1>6, <1>7, <2>1, <2>2, <2>3, <2>4
<1>12. ASSUME NEW i \in 1..(n + 1)
       PROVE  g.blk[t[i]].next = IF i = n + 1 THEN 0 ELSE t[i + 1]
  <2>1. CASE i \in 1..j /\ i # j
    <3>0. i # n /\ i # n + 1 /\ i + 1 \in 1..j /\ i \in 1..j
      BY <1>5c, <2>1
    <3>1. i \in 1..n /\ t[i] = s[i] /\ t[i + 1] = s[i + 1] /\ s[i] \in B
      BY <1>7, <1>5b, <3>0
    <3>2. s[i] # a
      BY <1>2, <1>5, <2>1, <3>1
    <3> QED
      BY <1>2, <1>4, <3>0, <3>1, <3>2
  <2>2. CASE i = j
    <3>1. t[i] = a /\ a \in B /\ i # n + 1
      BY <1>2, <1>5, <1>7, <2>2
    <3> QED
      BY <1>4, <1>7, <2>2, <3>1
  <2>3. CASE i = j + 1
    <3>1. g.blk[t[i]].next = IF j = n THEN 0 ELSE s[j + 1]
      BY <1>4, <1>6, <1>7, <2>3
    <3>2. j # n => t[i + 1] = s[j + 1] /\ i # n + 1
      <4>1. ASSUME j # n
            PROVE  i + 1 \in (j + 2)..(n + 1) /\ (i + 1) - 1 = j + 1 /\ i # n + 1
        BY <1>2, <1>5, <2>3, <4>1
      <4> QED
        BY <1>7, <4>1
    <3> QED
      BY <1>2, <1>5, <2>3, <3>1, <3>2
  <2>4. CASE i \in (j + 2)..(n + 1)
    <3>1. t[i] = s[i - 1] /\ i - 1 \in 1..n /\ s[i - 1] \in B
      BY <1>2, <1>7, <2>4
    <3>2. s[i - 1] # a
      BY <1>2, <1>5, <2>4, <3>1
    <3>3. i # n + 1 => t[i + 1] = s[i]
      <4>1. ASSUME i # n + 1
            PROVE  i + 1 \in (j + 2)..(n + 1) /\ (i + 1) - 1 = i
        BY <1>5c, <2>4, <4>1
      <4> QED
        BY <1>7, <4>1
    <3>4. h.blk[s[i - 1]].next = IF i - 1 = n THEN 0 ELSE s[i]
      <4>1. (i - 1) + 1 = i
        BY <1>2, <1>5, <2>4
      <4> QED
        BY <1>2, <3>1, <4>1
    <3>5. i - 1 = n <=> i = n + 1
      BY <1>2, <1>5, <2>4
    <3> QED
      BY <1>4, <3>1, <3>2, <3>3, <3>4, <3>5
  <2> QED
    BY <1>7, <2>1, <2>2, <2>3, <2>4
<1>13. ASSUME NEW i \in 1..(n + 1)
       PROVE  g.blk[t[i]].prev = IF i = 1 THEN 0 ELSE t[i - 1]
  <2>0. ASSUME NEW k \in 1..n
        PROVE  /\ s[k] \in B /\ s[k] # 0
               /\ s[k] # a /\ s[k] = h.blk[a].next => k = j + 1
    <3>1. s[k] \in B /\ s[k] # 0
      BY <1>2, <1>3
    <3>2. j # n => j + 1 \in 1..n
      BY <1>2, <1>5
    <3> QED
      BY <1>2, <1>6, <3>1, <3>2
  <2>1. CASE i \in 1..j
    <3>1. /\ i \in 1..n /\ t[i] = s[i] /\ i # j + 1
          /\ i # 1 => i - 1 \in 1..j
      BY <1>2, <1>5, <1>7, <2>1
    <3>2. i # 1 => t[i - 1] = s[i - 1]
      BY <1>7, <3>1
    <3>3. g.blk[s[i]].prev = h.blk[s[i]].prev
      BY <1>4, <2>0, <3>1
    <3> QED
      BY <1>2, <3>1, <3>2, <3>3
  <2>2. CASE i = j + 1
    <3>1. i # 1 /\ i - 1 = j /\ j \in 1..j
      BY <1>5, <2>2
    <3>2. t[i - 1] = a
      BY <1>5, <1>7, <3>1
    <3> QED
      BY <1>4, <1>7, <2>2, <3>1, <3>2
  <2>3. CASE i = j + 2
    <3>1. /\ i \in (j + 2)..(n + 1) /\ i - 1 = j + 1 /\ j + 1 \in 1..n
          /\ i # 1 /\ j # n /\ j + 1 # j
      BY <1>2, <1>5, <2>3
    <3>2. t[i] = s[j + 1] /\ s[j + 1] = h.blk[a].next /\ s[j + 1] \in B
      BY <1>2, <1>6, <1>7, <3>1
    <3>3. s[j + 1] # a
      BY <1>2, <1>5, <3>1
    <3> QED
      BY <1>4, <1>7, <3>1, <3>2, <3>3
  <2>4. CASE i \in (j + 3)..(n + 1)
    <3>1. /\ i \in (j + 2)..(n + 1) /\ i - 1 \in 1..n /\ i - 1 # j + 1
          /\ i # 1 /\ i - 1 # 1 /\ i - 1 \in (j + 2)..(n + 1)
          /\ (i - 1) - 1 = i - 2
      BY <1>5c, <2>4
    <3>2. t[i] = s[i - 1] /\ t[i - 1] = s[i - 2]
      BY <1>7, <3>1
    <3>3. g.blk[s[i - 1]].prev = h.blk[s[i - 1]].prev
      BY <1>4, <2>0, <3>1
    <3>4. h.blk[s[i - 1]].prev = s[i - 2]
      BY <1>2, <3>1
    <3> QED
      BY <3>1, <3>2, <3>3, <3>4
  <2>5. i \in 1..j \/ i = j + 1 \/ i = j + 2 \/ i \in (j + 3)..(n + 1)
    BY <1>2, <1>5
  <2> QED
    BY <2>1, <2>2, <2>3, <2>4, <2>5
<1>14. Chain(g, n + 1, t)
  <2>1. n + 1 \in Nat /\ n + 1 # 0
    BY <1>2
  <2> QED
    BY <1>4, <1>8, <1>9, <1>10, <1>11, <1>12, <1>13, <2>1 DEF Chain
<1> QED
  BY <1>14 DEF Chained

(* merge_with_next() takes the block after the one that grows off the list.*)
LEMMA JoinChained ==
    ASSUME NEW h, NEW g, NEW a \in DOMAIN h.blk, NEW d \in DOMAIN h.blk,
           d = h.blk[a].next,
           Joined(h, g, a, d), Formed(h), Chained(h)
    PROVE  Chained(g)
<1> DEFINE B == DOMAIN h.blk
<1>1. PICK n, s : Chain(h, n, s)
  BY DEF Chained
<1>2. /\ n \in Nat /\ s \in [1..n -> B]
      /\ \A i, j \in 1..n : s[i] = s[j] => i = j
      /\ \A x \in B : \E i \in 1..n : s[i] = x
      /\ h.head = IF n = 0 THEN 0 ELSE s[1]
      /\ h.tail = IF n = 0 THEN 0 ELSE s[n]
      /\ \A i \in 1..n : /\ h.blk[s[i]].next = IF i = n THEN 0 ELSE s[i + 1]
                         /\ h.blk[s[i]].prev = IF i = 1 THEN 0 ELSE s[i - 1]
  BY <1>1 DEF Chain
<1>3. \A x \in B : x # 0
  BY DEF Formed
<1>4. /\ DOMAIN g.blk = B \ {d}
      /\ g.head = h.head
      /\ g.tail = IF h.blk[d].next = 0 THEN a ELSE h.tail
      /\ \A x \in B \ {d} :
             /\ g.blk[x].prev = IF x # a /\ x = h.blk[d].next
                                THEN a ELSE h.blk[x].prev
             /\ g.blk[x].next = IF x = a THEN h.blk[d].next ELSE h.blk[x].next
  BY DEF Joined
<1>5. a \in B /\ d \in B /\ d = h.blk[a].next
  OBVIOUS
<1> HIDE DEF B
<1>6. \A i, k \in 1..n : s[i] = s[k] => i = k
  BY <1>2
<1>6a. \A i \in 1..n : h.blk[s[i]].next = IF i = n THEN 0 ELSE s[i + 1]
  BY <1>2
<1>7. \A i \in 1..n : s[i] \in B /\ s[i] # 0
  BY <1>2, <1>3
<1>8. PICK j \in 1..n : s[j] = a
  BY <1>2, <1>5
<1>9. n \in Nat /\ j \in Nat /\ j >= 1 /\ j <= n
  BY <1>2
<1>10. j # n /\ d = s[j + 1]
  <2>1. h.blk[a].next = IF j = n THEN 0 ELSE s[j + 1]
    BY <1>2, <1>8
  <2> QED
    BY <1>3, <1>5, <2>1
<1>11. j + 1 \in 1..n /\ j < n
  BY <1>9, <1>10
<1>12. h.blk[d].next = IF j + 1 = n THEN 0 ELSE s[j + 2]
  <2>1. (j + 1) + 1 = j + 2
    BY <1>9
  <2> QED
    BY <1>6a, <1>10, <1>11, <2>1
<1> DEFINE t == [i \in 1..(n - 1) |-> IF i <= j THEN s[i] ELSE s[i + 1]]
<1>13. /\ \A i \in 1..j : t[i] = s[i] /\ i \in 1..n
       /\ \A i \in (j + 1)..(n - 1) : t[i] = s[i + 1] /\ i + 1 \in 1..n
       /\ \A i \in 1..(n - 1) : i \in 1..j \/ i \in (j + 1)..(n - 1)
  BY <1>9, <1>11
<1>14. \A i \in 1..n : i # j + 1 => s[i] \in B \ {d}
  BY <1>6, <1>7, <1>10, <1>11
<1>15. t \in [1..(n - 1) -> B \ {d}]
  <2>1. ASSUME NEW i \in 1..(n - 1) PROVE t[i] \in B \ {d}
    <3>1. CASE i \in 1..j
      <4>1. i # j + 1 /\ i \in 1..n /\ t[i] = s[i]
        BY <1>9, <1>13, <3>1
      <4> QED
        BY <1>14, <4>1
    <3>2. CASE i \in (j + 1)..(n - 1)
      <4>1. i + 1 # j + 1 /\ i + 1 \in 1..n /\ t[i] = s[i + 1]
        BY <1>9, <1>13, <3>2
      <4> QED
        BY <1>14, <4>1
    <3> QED
      BY <1>13, <3>1, <3>2
  <2> QED
    BY <2>1
<1> HIDE DEF t
<1>16. ASSUME NEW i \in 1..(n - 1), NEW k \in 1..(n - 1), t[i] = t[k]
       PROVE  i = k
  <2> DEFINE Old(m) == IF m <= j THEN m ELSE m + 1
  <2>1. ASSUME NEW m \in 1..(n - 1) PROVE t[m] = s[Old(m)] /\ Old(m) \in 1..n
    <3>1. CASE m \in 1..j
      BY <1>9, <1>13, <3>1
    <3>2. CASE m \in (j + 1)..(n - 1)
      BY <1>9, <1>13, <3>2
    <3> QED
      BY <1>13, <3>1, <3>2
  <2>2. Old(i) = Old(k)
    <3>1. s[Old(i)] = s[Old(k)] /\ Old(i) \in 1..n /\ Old(k) \in 1..n
      BY <1>16, <2>1
    <3> HIDE DEF Old
    <3> QED
      BY <1>6, <3>1
  <2> QED
    BY <1>9, <2>2
<1>17. ASSUME NEW x \in B \ {d}
       PROVE  \E i \in 1..(n - 1) : t[i] = x
  <2>1. PICK k \in 1..n : s[k] = x
    BY <1>2
  <2>2. k # j + 1
    BY <1>10, <2>1
  <2>3. CASE k <= j
    <3>1. k \in 1..j /\ k \in 1..(n - 1)
      BY <1>9, <1>11, <2>3
    <3> QED
      BY <1>13, <2>1, <3>1
  <2>4. CASE k > j + 1
    <3>1. k - 1 \in (j + 1)..(n - 1) /\ k - 1 \in 1..(n - 1) /\ (k - 1) + 1 = k
      BY <1>9, <1>11, <2>4
    <3> QED
      BY <1>13, <2>1, <3>1
  <2> QED
    BY <1>9, <2>2, <2>3, <2>4
<1>18. g.head = t[1] /\ g.tail = t[n - 1]
  <2>1. 1 \in 1..j /\ n # 0
    BY <1>9
  <2>2. CASE j + 1 = n
    <3>1. n - 1 = j /\ j \in 1..j
      BY <1>9, <2>2
    <3> QED
      BY <1>2, <1>4, <1>8, <1>12, <1>13, <2>1, <2>2, <3>1
  <2>3. CASE j + 1 # n
    <3>1. n - 1 \in (j + 1)..(n - 1) /\ (n - 1) + 1 = n /\ j + 2 \in 1..n
      BY <1>9, <1>11, <2>3
    <3>2. h.blk[d].next # 0
      BY <1>7, <1>12, <2>3, <3>1
    <3> QED
      BY <1>2, <1>4, <1>13, <2>1, <3>1, <3>2
  <2> QED
    BY <2>2, <2>3
<1>19. ASSUME NEW i \in 1..(n - 1)
       PROVE  g.blk[t[i]].next = IF i = n - 1 THEN 0 ELSE t[i + 1]
  <2>1. CASE i \in 1..j /\ i # j
    <3>1. i # n /\ i # n - 1 /\ i + 1 \in 1..j /\ i \in 1..j /\ i # j + 1
      BY <1>9, <1>11, <2>1
    <3>2. i \in 1..n /\ t[i] = s[i] /\ t[i + 1] = s[i + 1] /\ s[i] \in B \ {d}
      BY <1>13, <1>14, <3>1
    <3>3. s[i] # a
      BY <1>6, <1>8, <2>1, <3>2
    <3> QED
      BY <1>2, <1>4, <3>1, <3>2, <3>3
  <2>2. CASE i = j
    <3>1. j \in 1..j /\ j # j + 1
      BY <1>9
    <3>2. t[i] = a /\ a \in B \ {d}
      BY <1>8, <1>13, <1>14, <2>2, <3>1
    <3>3. g.blk[t[i]].next = IF j + 1 = n THEN 0 ELSE s[j + 2]
      BY <1>4, <1>12, <3>2
    <3>4. j + 1 # n => t[i + 1] = s[j + 2]
      <4>1. ASSUME j + 1 # n
            PROVE  i + 1 \in (j + 1)..(n - 1) /\ (i + 1) + 1 = j + 2
        BY <1>9, <1>11, <2>2, <4>1
      <4> QED
        BY <1>13, <4>1
    <3>5. j + 1 = n <=> i = n - 1
      BY <1>9, <2>2
    <3> QED
      BY <3>3, <3>4, <3>5
  <2>3. CASE i \in (j + 1)..(n - 1)
    <3>1. i + 1 \in 1..n /\ i + 1 # j + 1 /\ i + 1 # j /\ (i + 1) + 1 = i + 2
      BY <1>9, <2>3
    <3>2. t[i] = s[i + 1] /\ s[i + 1] \in B \ {d} /\ s[i + 1] # a
      BY <1>6, <1>8, <1>13, <1>14, <2>3, <3>1
    <3>3. i # n - 1 => t[i + 1] = s[i + 2]
      <4>1. ASSUME i # n - 1 PROVE i + 1 \in (j + 1)..(n - 1)
        BY <1>9, <2>3, <4>1
      <4> QED
        BY <1>13, <3>1, <4>1
    <3>4. h.blk[s[i + 1]].next = IF i + 1 = n THEN 0 ELSE s[i + 2]
      BY <1>6a, <3>1
    <3>5. i + 1 = n <=> i = n - 1
      BY <1>9, <2>3
    <3> QED
      BY <1>4, <3>2, <3>3, <3>4, <3>5
  <2> QED
    BY <1>13, <2>1, <2>2, <2>3
<1>20. ASSUME NEW i \in 1..(n - 1)
       PROVE  g.blk[t[i]].prev = IF i = 1 THEN 0 ELSE t[i - 1]
  <2>0. ASSUME NEW k \in 1..n, k # j + 1
        PROVE  /\ s[k] \in B \ {d}
               /\ s[k] # a /\ s[k] = h.blk[d].next => k = j + 2
    <3>1. s[k] \in B \ {d} /\ s[k] # 0
      BY <1>7, <1>14, <2>0
    <3>2. j + 1 # n => j + 2 \in 1..n
      BY <1>9, <1>11
    <3> QED
      BY <1>6, <1>12, <3>1, <3>2
  <2>1. CASE i \in 1..j
    <3>1. /\ i \in 1..n /\ i # j + 1 /\ i # j + 2
          /\ i # 1 => i - 1 \in 1..j
      BY <1>9, <2>1
    <3>2. t[i] = s[i] /\ (i # 1 => t[i - 1] = s[i - 1])
      BY <1>13, <2>1, <3>1
    <3>3. g.blk[s[i]].prev = h.blk[s[i]].prev
      BY <1>4, <2>0, <3>1
    <3> QED
      BY <1>2, <3>1, <3>2, <3>3
  <2>2. CASE i = j + 1
    <3>1. /\ i \in (j + 1)..(n - 1) /\ i + 1 = j + 2 /\ i # 1 /\ i - 1 = j
          /\ j \in 1..j /\ j + 2 \in 1..n /\ j + 2 # j /\ j + 2 # j + 1 /\ j + 1 # n
      BY <1>9, <1>11, <2>2
    <3>2. t[i] = s[j + 2] /\ t[i - 1] = a /\ h.blk[d].next = s[j + 2]
      BY <1>8, <1>12, <1>13, <3>1
    <3>3. s[j + 2] \in B \ {d} /\ s[j + 2] # a
      BY <1>6, <1>8, <2>0, <3>1
    <3> QED
      BY <1>4, <3>1, <3>2, <3>3
  <2>3. CASE i \in (j + 2)..(n - 1)
    <3>1. /\ i \in (j + 1)..(n - 1) /\ i - 1 \in (j + 1)..(n - 1)
          /\ i + 1 \in 1..n /\ i + 1 # j + 1 /\ i + 1 # j + 2 /\ i # 1 /\ i + 1 # 1
          /\ (i + 1) - 1 = i /\ (i - 1) + 1 = i
      BY <1>9, <2>3
    <3>2. t[i] = s[i + 1] /\ t[i - 1] = s[i]
      BY <1>13, <3>1
    <3>3. g.blk[s[i + 1]].prev = h.blk[s[i + 1]].prev
      BY <1>4, <2>0, <3>1
    <3>4. h.blk[s[i + 1]].prev = s[i]
      BY <1>2, <3>1
    <3> QED
      BY <3>1, <3>2, <3>3, <3>4
  <2>4. i \in 1..j \/ i = j + 1 \/ i \in (j + 2)..(n - 1)
    BY <1>9
  <2> QED
    BY <2>1, <2>2, <2>3, <2>4
<1>21. Chain(g, n - 1, t)
  <2>1. n - 1 \in Nat /\ n - 1 # 0
    BY <1>9, <1>11
  <2> QED
    BY <1>4, <1>15, <1>16, <1>17, <1>18, <1>19, <1>20, <2>1 DEF Chain
<1> QED
  BY <1>21 DEF Chained

(* heap_append() puts the new page at the end.                             *)
LEMMA GrowChained ==
    ASSUME NEW h, NEW g, NEW p \in Nat \ {0}, p \notin DOMAIN h.blk,
           Grown(h, g, p), Formed(h), Chained(h)
    PROVE  Chained(g)
<1> DEFINE B == DOMAIN h.blk
<1>1. PICK n, s : Chain(h, n, s)
  BY DEF Chained
<1>2. /\ n \in Nat /\ s \in [1..n -> B]
      /\ \A i, j \in 1..n : s[i] = s[j] => i = j
      /\ \A x \in B : \E i \in 1..n : s[i] = x
      /\ h.head = IF n = 0 THEN 0 ELSE s[1]
      /\ h.tail = IF n = 0 THEN 0 ELSE s[n]
      /\ \A i \in 1..n : /\ h.blk[s[i]].next = IF i = n THEN 0 ELSE s[i + 1]
                         /\ h.blk[s[i]].prev = IF i = 1 THEN 0 ELSE s[i - 1]
  BY <1>1 DEF Chain
<1>3. \A x \in B : x # 0
  BY DEF Formed
<1>4. /\ DOMAIN g.blk = B \union {p}
      /\ g.head = IF h.tail = 0 THEN p ELSE h.head
      /\ g.tail = p
      /\ \A x \in B :
             /\ g.blk[x].prev = h.blk[x].prev
             /\ g.blk[x].next = IF x = h.tail THEN p ELSE h.blk[x].next
      /\ g.blk[p].prev = h.tail /\ g.blk[p].next = 0
  BY DEF Grown
<1>5. p \notin B
  OBVIOUS
<1> HIDE DEF B
<1>6. \A i, k \in 1..n : s[i] = s[k] => i = k
  BY <1>2
<1>7. \A i \in 1..n : s[i] \in B /\ s[i] # 0
  BY <1>2, <1>3
<1>8. n \in Nat
  BY <1>2
<1> DEFINE t == [i \in 1..(n + 1) |-> IF i = n + 1 THEN p ELSE s[i]]
<1>9. /\ \A i \in 1..n : t[i] = s[i] /\ i # n + 1
      /\ t[n + 1] = p /\ n + 1 \in 1..(n + 1)
      /\ \A i \in 1..(n + 1) : i \in 1..n \/ i = n + 1
  BY <1>8
<1>10. t \in [1..(n + 1) -> B \union {p}]
  <2>1. \A i \in 1..(n + 1) : t[i] \in B \union {p}
    <3> HIDE DEF t
    <3> QED
      BY <1>7, <1>9
  <2> QED
    BY <2>1
<1> HIDE DEF t
<1>11. \A i, k \in 1..(n + 1) : t[i] = t[k] => i = k
  BY <1>5, <1>6, <1>7, <1>9
<1>12. ASSUME NEW x \in B \union {p}
       PROVE  \E i \in 1..(n + 1) : t[i] = x
  <2>1. CASE x = p
    BY <1>9, <2>1
  <2>2. CASE x \in B
    <3>1. PICK k \in 1..n : s[k] = x
      BY <1>2, <2>2
    <3>2. k \in 1..(n + 1)
      BY <1>8
    <3> QED
      BY <1>9, <3>1, <3>2
  <2> QED
    BY <2>1, <2>2
<1>13. /\ n # 0 => n \in 1..n /\ 1 \in 1..n /\ h.tail = s[n] /\ h.tail # 0
       /\ n = 0 => h.tail = 0
  <2>1. n # 0 => n \in 1..n /\ 1 \in 1..n
    BY <1>8
  <2> QED
    BY <1>2, <1>7, <2>1
<1>14. g.head = t[1] /\ g.tail = t[n + 1]
  <2>1. n = 0 => n + 1 = 1
    OBVIOUS
  <2> QED
    BY <1>2, <1>4, <1>9, <1>13, <2>1
<1>15. ASSUME NEW i \in 1..(n + 1)
       PROVE  /\ g.blk[t[i]].next = IF i = n + 1 THEN 0 ELSE t[i + 1]
              /\ g.blk[t[i]].prev = IF i = 1 THEN 0 ELSE t[i - 1]
  <2>1. CASE i = n + 1
    <3>1. t[i] = p
      BY <1>9, <2>1
    <3>2. n # 0 => i # 1 /\ i - 1 = n
      BY <1>8, <2>1
    <3>3. n = 0 => i = 1
      BY <2>1
    <3> QED
      BY <1>4, <1>9, <1>13, <2>1, <3>1, <3>2, <3>3
  <2>2. CASE i = n /\ i \in 1..n
    <3>1. t[i] = s[i] /\ s[i] = h.tail /\ s[i] \in B /\ i # n + 1 /\ n # 0
      BY <1>7, <1>8, <1>9, <1>13, <2>2
    <3>2. i # 1 => i - 1 \in 1..n
      BY <1>8, <2>2
    <3>3. i # 1 => t[i - 1] = s[i - 1]
      BY <1>9, <3>2
    <3>4. t[i + 1] = p
      BY <1>9, <2>2
    <3> QED
      BY <1>2, <1>4, <2>2, <3>1, <3>3, <3>4
  <2>3. CASE i # n /\ i \in 1..n
    <3>1. i + 1 \in 1..n /\ n # 0 /\ (i # 1 => i - 1 \in 1..n)
      BY <1>8, <2>3
    <3>2. t[i] = s[i] /\ s[i] \in B /\ t[i + 1] = s[i + 1] /\ i # n + 1
      BY <1>7, <1>9, <2>3, <3>1
    <3>3. s[i] # h.tail
      BY <1>6, <1>13, <2>3, <3>1
    <3>4. i # 1 => t[i - 1] = s[i - 1]
      BY <1>9, <3>1
    <3> QED
      BY <1>2, <1>4, <2>3, <3>2, <3>3, <3>4
  <2> QED
    BY <1>9, <2>1, <2>2, <2>3
<1>16. Chain(g, n + 1, t)
  <2>1. n + 1 \in Nat /\ n + 1 # 0
    BY <1>8
  <2> QED
    BY <1>4, <1>10, <1>11, <1>12, <1>14, <1>15, <2>1 DEF Chain
<1> QED
  BY <1>16 DEF Chained

-----------------------------------------------------------------------------
(* The operations keep the heap whole.                                     *)

LEMMA EndFacts ==
    ASSUME NEW h, Formed(h), NEW a \in DOMAIN h.blk
    PROVE  /\ a \in Nat /\ a > 0 /\ a % KMALLOC_ALIGN = 0
           /\ h.blk[a].size \in Nat /\ h.blk[a].size % KMALLOC_ALIGN = 0
           /\ h.blk[a].free \in BOOLEAN
           /\ EndOf(h, a) = a + HEADER + h.blk[a].size
           /\ EndOf(h, a) \in Nat /\ EndOf(h, a) > a
<1>1. /\ a \in Nat \ {0} /\ a % KMALLOC_ALIGN = 0
      /\ h.blk[a] \in [size : Nat, free : BOOLEAN, prev : Nat, next : Nat]
      /\ h.blk[a].size % KMALLOC_ALIGN = 0
  BY DEF Formed
<1>2. h.blk[a].size \in Nat /\ h.blk[a].free \in BOOLEAN
  BY <1>1
<1> QED
  BY <1>1, <1>2, KmallocAssumption DEF EndOf

LEMMA MarkWhole ==
    ASSUME NEW h, NEW g, NEW G, NEW a, NEW v, Marked(h, g, a, v), Whole(h, G)
    PROVE  Whole(g, G)
<1>1. /\ DOMAIN g = {"blk", "head", "tail"} /\ DOMAIN g.blk = DOMAIN h.blk
      /\ \A x \in DOMAIN h.blk :
           /\ g.blk[x] \in [size : Nat, free : BOOLEAN, prev : Nat, next : Nat]
           /\ g.blk[x].size = h.blk[x].size
  BY DEF Marked
<1>2. \A x \in DOMAIN h.blk : EndOf(g, x) = EndOf(h, x)
  BY <1>1 DEF EndOf
<1>3. Formed(g)
  BY <1>1 DEF Whole, Formed
<1>4. Apart(g)
  BY <1>1, <1>2 DEF Whole, Apart
<1>5. Covers(g, G)
  BY <1>1, <1>2 DEF Whole, Covers
<1>6. Chained(g)
  BY MarkChained DEF Whole
<1> QED
  BY <1>3, <1>4, <1>5, <1>6 DEF Whole

LEMMA SplitWhole ==
    ASSUME NEW h, NEW G, NEW a \in DOMAIN h.blk, NEW size \in Nat,
           size % KMALLOC_ALIGN = 0, h.blk[a].size >= size + HEADER,
           Whole(h, G)
    PROVE  /\ a + HEADER + size \notin DOMAIN h.blk
           /\ Split(h, Carved(h, a, size), a, size, a + HEADER + size)
           /\ Whole(Carved(h, a, size), G)
<1> DEFINE d == a + HEADER + size
           g == Carved(h, a, size)
           B == DOMAIN h.blk
           P == KMALLOC_ALIGN
<1>0. /\ HEADER \in Nat /\ HEADER > 0 /\ HEADER % P = 0 /\ P \in Nat \ {0}
      /\ size % P = 0
  BY KmallocAssumption
<1>1. Formed(h) /\ Apart(h) /\ Covers(h, G) /\ Chained(h)
  BY DEF Whole
<1>2. /\ a \in Nat /\ a > 0 /\ a % P = 0
      /\ h.blk[a].size \in Nat /\ h.blk[a].size % P = 0
      /\ EndOf(h, a) = a + HEADER + h.blk[a].size
  BY <1>1, EndFacts
<1> HIDE DEF P
<1>3. d \in Nat \ {0} /\ d % P = 0 /\ a < d /\ d + HEADER <= EndOf(h, a)
  <2>1. (a + HEADER) % P = 0
    BY <1>0, <1>2, MultiplesAdd
  <2>2. (a + HEADER + size) % P = 0
    BY <1>0, <1>2, <2>1, MultiplesAdd
  <2> QED
    BY <1>0, <1>2, <2>2
<1> DEFINE rest == h.blk[a].size - size - HEADER
<1>4. rest \in Nat /\ rest % P = 0
  <2>0. size <= h.blk[a].size /\ h.blk[a].size - size \in Nat
    BY <1>0, <1>2
  <2>1. (h.blk[a].size - size) % P = 0
    <3> DEFINE z == h.blk[a].size
    <3>1. z \in Nat /\ z % P = 0 /\ size <= z
      BY <1>2, <2>0
    <3> HIDE DEF z
    <3>2. (z - size) % P = 0
      BY <1>0, <3>1, MultiplesAdd
    <3> QED
      BY <3>2 DEF z
  <2>2. HEADER <= h.blk[a].size - size
    BY <1>0, <1>2
  <2>3. (h.blk[a].size - size - HEADER) % P = 0
    BY <1>0, <2>0, <2>1, <2>2, MultiplesAdd
  <2> QED
    BY <1>0, <2>0, <2>2, <2>3
<1>5. d \notin B
  <2> SUFFICES ASSUME d \in B PROVE FALSE
    OBVIOUS
  <2>1. EndOf(h, d) \in Nat /\ EndOf(h, d) > d /\ EndOf(h, a) \in Nat
    BY <1>1, EndFacts
  <2>2. EndOf(h, a) <= d \/ EndOf(h, d) <= a
    BY <1>1, <1>3 DEF Apart
  <2> HIDE DEF d
  <2> QED
    BY <1>0, <1>2, <1>3, <2>1, <2>2
<1>6. Split(h, g, a, size, d)
  BY <1>1, <1>5, CarveFields
<1> HIDE DEF g, d
<1>7. /\ DOMAIN g = {"blk", "head", "tail"}
      /\ DOMAIN g.blk = B \union {d}
      /\ \A x \in B :
           /\ g.blk[x] \in [size : Nat, free : BOOLEAN, prev : Nat, next : Nat]
           /\ g.blk[x].size = IF x = a THEN size ELSE h.blk[x].size
      /\ g.blk[d] = [size |-> rest, free |-> TRUE,
                     prev |-> a, next |-> h.blk[a].next]
  BY <1>6 DEF Split
<1>8. h.blk[a].next \in Nat
  BY <1>1 DEF Formed
<1>9. \A x \in B : x \in Nat \ {0} /\ x % P = 0 /\ h.blk[x].size % P = 0
  BY <1>1 DEF Formed, P
<1>10. /\ g.blk[d] \in [size : Nat, free : BOOLEAN, prev : Nat, next : Nat]
       /\ g.blk[d].size = rest
  BY <1>2, <1>4, <1>7, <1>8
<1>11. Formed(g)
  <2>1. ASSUME NEW x \in B \union {d}
        PROVE  /\ x \in Nat \ {0} /\ x % P = 0
               /\ g.blk[x] \in [size : Nat, free : BOOLEAN, prev : Nat, next : Nat]
               /\ g.blk[x].size % P = 0
    <3> HIDE DEF rest
    <3>1. CASE x = d
      BY <1>3, <1>4, <1>10, <3>1
    <3>2. CASE x \in B /\ x # d
      BY <1>0, <1>7, <1>9, <3>2
    <3> QED
      BY <3>1, <3>2
  <2> QED
    BY <1>7, <2>1 DEF Formed, P
<1>12. /\ EndOf(g, a) = d
       /\ EndOf(g, d) = EndOf(h, a)
       /\ \A x \in B : x # a => EndOf(g, x) = EndOf(h, x)
  <2>1. EndOf(g, a) = d
    BY <1>7 DEF EndOf, d
  <2>2. EndOf(g, d) = EndOf(h, a)
    <3>1. d = a + HEADER + size
      BY DEF d
    <3> QED
      BY <1>0, <1>2, <1>10, <3>1 DEF EndOf
  <2>3. \A x \in B : x # a => EndOf(g, x) = EndOf(h, x)
    BY <1>7 DEF EndOf
  <2> QED
    BY <2>1, <2>2, <2>3
<1>13. \A x \in B : x \in Nat /\ EndOf(h, x) \in Nat /\ x < EndOf(h, x)
  BY <1>1, EndFacts
<1>14. ASSUME NEW x \in B, x # a
       PROVE  EndOf(h, a) <= x \/ EndOf(h, x) <= a
  BY <1>1, <1>14 DEF Apart
<1>15. Apart(g)
  <2> SUFFICES ASSUME NEW x \in B \union {d}, NEW y \in B \union {d}, x # y
               PROVE  EndOf(g, x) <= y \/ EndOf(g, y) <= x
    BY <1>7 DEF Apart
  <2>1. \A z \in B : z # a => EndOf(h, a) <= z \/ EndOf(h, z) <= a
    BY <1>14
  <2>2. a \in B
    OBVIOUS
  <2> HIDE DEF B
  <2>3. CASE x = d
    BY <1>0, <1>3, <1>12, <1>13, <2>1, <2>2, <2>3
  <2>4. CASE y = d
    BY <1>0, <1>3, <1>12, <1>13, <2>1, <2>2, <2>4
  <2>5. CASE x = a /\ y # d
    BY <1>0, <1>3, <1>12, <1>13, <2>1, <2>2, <2>5
  <2>6. CASE y = a /\ x # d
    BY <1>0, <1>3, <1>12, <1>13, <2>1, <2>2, <2>6
  <2>7. CASE x # a /\ y # a /\ x # d /\ y # d
    <3>1. EndOf(h, x) <= y \/ EndOf(h, y) <= x
      BY <1>1, <2>7 DEF Apart, B
    <3> QED
      BY <1>12, <2>7, <3>1
  <2> QED
    BY <2>3, <2>4, <2>5, <2>6, <2>7
<1>16. Covers(g, G)
  <2>1. ASSUME NEW x \in Nat
        PROVE  (\E z \in B : z <= x /\ x < EndOf(h, z))
                   <=> (\E z \in B \union {d} : z <= x /\ x < EndOf(g, z))
    <3>1. a \in B
      OBVIOUS
    <3> HIDE DEF B
    <3>2. ASSUME NEW z \in B, z <= x, x < EndOf(h, z)
          PROVE  \E y \in B \union {d} : y <= x /\ x < EndOf(g, y)
      <4>1. CASE z # a
        BY <1>12, <3>2, <4>1
      <4>2. CASE z = a /\ x < d
        BY <1>12, <3>2, <4>2
      <4>3. CASE z = a /\ d <= x
        BY <1>12, <3>2, <4>3
      <4> QED
        BY <1>3, <4>1, <4>2, <4>3
    <3>3. ASSUME NEW z \in B \union {d}, z <= x, x < EndOf(g, z)
          PROVE  \E y \in B : y <= x /\ x < EndOf(h, y)
      <4>1. CASE z \in B /\ z # a
        BY <1>12, <3>3, <4>1
      <4>2. CASE z = a
        BY <1>0, <1>2, <1>3, <1>12, <1>13, <3>1, <3>3, <4>2
      <4>3. CASE z = d
        BY <1>0, <1>2, <1>3, <1>12, <1>13, <3>1, <3>3, <4>3
      <4> QED
        BY <4>1, <4>2, <4>3
    <3> QED
      BY <3>2, <3>3
  <2> QED
    BY <1>1, <1>7, <2>1 DEF Covers
<1>17. Chained(g)
  BY <1>1, <1>3, <1>5, <1>6, SplitChained
<1>18. Whole(g, G)
  BY <1>11, <1>15, <1>16, <1>17 DEF Whole
<1> QED
  BY <1>5, <1>6, <1>18 DEF g, d

LEMMA JoinWhole ==
    ASSUME NEW h, NEW G, NEW a \in DOMAIN h.blk, NEW d \in DOMAIN h.blk,
           d = h.blk[a].next, block_adjacent(h, a, d), Whole(h, G)
    PROVE  /\ a < d /\ Joined(h, TakenIn(h, a, d), a, d)
           /\ Whole(TakenIn(h, a, d), G)
           /\ EndOf(TakenIn(h, a, d), a) = EndOf(h, d)
           /\ \A x \in DOMAIN h.blk \ {a, d} :
                  EndOf(TakenIn(h, a, d), x) = EndOf(h, x)
<1> DEFINE g == TakenIn(h, a, d)
           B == DOMAIN h.blk
           P == KMALLOC_ALIGN
<1>0. HEADER \in Nat /\ HEADER > 0 /\ HEADER % P = 0 /\ P \in Nat \ {0}
  BY KmallocAssumption
<1>1. Formed(h) /\ Apart(h) /\ Covers(h, G) /\ Chained(h)
  BY DEF Whole
<1>2. Joined(h, g, a, d)
  BY <1>1, TakeFields
<1> HIDE DEF g
<1>3. /\ DOMAIN g = {"blk", "head", "tail"}
      /\ DOMAIN g.blk = B \ {d}
      /\ \A x \in B \ {d} :
           /\ g.blk[x] \in [size : Nat, free : BOOLEAN, prev : Nat, next : Nat]
           /\ g.blk[x].size = IF x = a THEN h.blk[a].size + HEADER + h.blk[d].size
                              ELSE h.blk[x].size
  BY <1>2 DEF Joined
<1>4. \A x \in B : /\ x \in Nat /\ x > 0 /\ x % P = 0
                   /\ h.blk[x].size \in Nat /\ h.blk[x].size % P = 0
                   /\ EndOf(h, x) = x + HEADER + h.blk[x].size
                   /\ EndOf(h, x) \in Nat /\ x < EndOf(h, x)
  BY <1>1, EndFacts
<1>5. EndOf(h, a) = d /\ a < d /\ a # d /\ a \in B /\ d \in B
  BY <1>4 DEF block_adjacent
<1> HIDE DEF B, P
<1>6. (h.blk[a].size + HEADER + h.blk[d].size) % P = 0
  <2>1. /\ h.blk[a].size \in Nat /\ h.blk[a].size % P = 0
        /\ h.blk[d].size \in Nat /\ h.blk[d].size % P = 0
    BY <1>4, <1>5
  <2>2. h.blk[a].size + HEADER \in Nat /\ (h.blk[a].size + HEADER) % P = 0
    BY <1>0, <2>1, MultiplesAdd
  <2> QED
    BY <1>0, <2>1, <2>2, MultiplesAdd
<1>7. Formed(g)
  <2>1. \A x \in B \ {d} : x \in Nat \ {0} /\ x % P = 0 /\ g.blk[x].size % P = 0
    BY <1>3, <1>4, <1>6
  <2> QED
    BY <1>3, <2>1 DEF Formed, P
<1>8. EndOf(g, a) = EndOf(h, d)
  <2>1. g.blk[a].size = h.blk[a].size + HEADER + h.blk[d].size
    BY <1>3, <1>5
  <2>2. EndOf(g, a) = a + HEADER + g.blk[a].size
    BY DEF EndOf
  <2>3. /\ EndOf(h, a) = a + HEADER + h.blk[a].size
        /\ EndOf(h, d) = d + HEADER + h.blk[d].size
        /\ h.blk[a].size \in Nat /\ h.blk[d].size \in Nat /\ a \in Nat
    BY <1>4, <1>5
  <2> QED
    BY <1>0, <1>5, <2>1, <2>2, <2>3
<1>9. \A x \in B \ {a, d} : EndOf(g, x) = EndOf(h, x)
  BY <1>3 DEF EndOf
<1>10. Apart(g)
  <2> SUFFICES ASSUME NEW x \in B \ {d}, NEW y \in B \ {d}, x # y
               PROVE  EndOf(g, x) <= y \/ EndOf(g, y) <= x
    BY <1>3 DEF Apart
  <2>1. \A u, v \in B : u # v => EndOf(h, u) <= v \/ EndOf(h, v) <= u
    BY <1>1 DEF Apart, B
  <2>2. ASSUME NEW z \in B \ {a, d}
        PROVE  EndOf(h, d) <= z \/ EndOf(h, z) <= a
    <3>1. EndOf(h, a) <= z \/ EndOf(h, z) <= a
      BY <1>5, <2>1
    <3>2. EndOf(h, d) <= z \/ EndOf(h, z) <= d
      BY <1>5, <2>1
    <3> QED
      BY <1>4, <1>5, <3>1, <3>2
  <2>3. CASE x = a
    BY <1>8, <1>9, <2>2, <2>3
  <2>4. CASE y = a
    BY <1>8, <1>9, <2>2, <2>4
  <2>5. CASE x # a /\ y # a
    BY <1>9, <2>1, <2>5
  <2> QED
    BY <2>3, <2>4, <2>5
<1>11. Covers(g, G)
  <2>1. ASSUME NEW x \in Nat
        PROVE  (\E z \in B : z <= x /\ x < EndOf(h, z))
                   <=> (\E z \in B \ {d} : z <= x /\ x < EndOf(g, z))
    <3>1. a \in Nat /\ d \in Nat /\ EndOf(h, d) \in Nat /\ d < EndOf(h, d)
      BY <1>4, <1>5
    <3>2. ASSUME NEW z \in B, z <= x, x < EndOf(h, z)
          PROVE  \E y \in B \ {d} : y <= x /\ x < EndOf(g, y)
      <4>1. CASE z # a /\ z # d
        BY <1>9, <3>2, <4>1
      <4>2. CASE z = a \/ z = d
        <5>1. a <= x /\ x < EndOf(g, a)
          BY <1>5, <1>8, <3>1, <3>2, <4>2
        <5> QED
          BY <1>5, <5>1
      <4> QED
        BY <4>1, <4>2
    <3>3. ASSUME NEW z \in B \ {d}, z <= x, x < EndOf(g, z)
          PROVE  \E y \in B : y <= x /\ x < EndOf(h, y)
      <4>1. CASE z # a
        BY <1>9, <3>3, <4>1
      <4>2. CASE z = a /\ x < d
        BY <1>5, <3>3, <4>2
      <4>3. CASE z = a /\ d <= x
        BY <1>5, <1>8, <3>3, <4>3
      <4> QED
        BY <3>1, <4>1, <4>2, <4>3
    <3> QED
      BY <3>2, <3>3
  <2> QED
    BY <1>1, <1>3, <2>1 DEF Covers, B
<1>12. Chained(g)
  BY <1>1, <1>2, JoinChained
<1>13. Whole(g, G)
  BY <1>7, <1>10, <1>11, <1>12 DEF Whole
<1> QED
  BY <1>2, <1>5, <1>8, <1>9, <1>13 DEF g, B

(* A page that is new to the heap becomes one block.                       *)
LEMMA GrowWhole ==
    ASSUME NEW h, NEW G \in SUBSET Page, NEW p \in Page, p \notin G, Whole(h, G)
    PROVE  /\ p \notin DOMAIN h.blk
           /\ Grown(h, heap_grow(h, p), p)
           /\ Whole(heap_grow(h, p), G \union {p})
           /\ \A x \in DOMAIN h.blk : EndOf(heap_grow(h, p), x) = EndOf(h, x)
<1> DEFINE g == heap_grow(h, p)
           B == DOMAIN h.blk
           P == KMALLOC_ALIGN
<1>0. /\ HEADER \in Nat /\ HEADER > 0 /\ HEADER % P = 0 /\ P \in Nat \ {0}
      /\ PAGE_SIZE \in Nat /\ PAGE_SIZE % P = 0 /\ HEADER + P <= PAGE_SIZE
  BY KmallocAssumption, PageAssumption
<1>1. Formed(h) /\ Apart(h) /\ Covers(h, G) /\ Chained(h)
  BY DEF Whole
<1>2. /\ p \in Nat /\ p > 0 /\ p % P = 0
      /\ \A q \in G : q \in Nat /\ (p + PAGE_SIZE <= q \/ q + PAGE_SIZE <= p)
  BY PageFacts
<1> HIDE DEF P
<1>3. Max_size \in Nat /\ Max_size % P = 0 /\ HEADER + Max_size = PAGE_SIZE
  <2>1. HEADER <= PAGE_SIZE
    BY <1>0
  <2>2. (PAGE_SIZE - HEADER) % P = 0
    BY <1>0, <2>1, MultiplesAdd
  <2> QED
    BY <1>0, <2>1, <2>2 DEF Max_size
<1>4. \A x \in B : /\ x \in Nat /\ x > 0 /\ x % P = 0
                   /\ h.blk[x].size \in Nat /\ h.blk[x].size % P = 0
                   /\ EndOf(h, x) \in Nat /\ x < EndOf(h, x)
  BY <1>1, EndFacts DEF P
<1>5. ASSUME NEW x \in Nat, p <= x, x < p + PAGE_SIZE, NEW b \in B,
             b <= x, x < EndOf(h, b)
      PROVE  FALSE
  <2>1. PICK q \in G : q <= x /\ x < q + PAGE_SIZE
    BY <1>1, <1>5 DEF Covers
  <2> QED
    BY <1>0, <1>2, <1>5, <2>1
<1>6. ASSUME NEW b \in B
      PROVE  EndOf(h, b) <= p \/ p + PAGE_SIZE <= b
  <2>1. CASE b <= p
    <3>1. ~(p < EndOf(h, b))
      BY <1>0, <1>2, <1>3, <1>5, <2>1
    <3> QED
      BY <1>2, <1>4, <3>1
  <2>2. CASE p < b
    <3>1. ~(b < p + PAGE_SIZE)
      BY <1>2, <1>4, <1>5, <2>2
    <3> QED
      BY <1>0, <1>2, <1>4, <3>1
  <2> QED
    BY <1>2, <1>4, <2>1, <2>2
<1>7. p \notin B
  <2> SUFFICES ASSUME p \in B PROVE FALSE
    OBVIOUS
  <2> QED
    BY <1>0, <1>2, <1>4, <1>6
<1>8. Grown(h, g, p)
  BY <1>1, <1>2, <1>7, GrowFields
<1> HIDE DEF g
<1>9. /\ DOMAIN g = {"blk", "head", "tail"}
      /\ DOMAIN g.blk = B \union {p}
      /\ \A x \in B :
           /\ g.blk[x] \in [size : Nat, free : BOOLEAN, prev : Nat, next : Nat]
           /\ g.blk[x].size = h.blk[x].size
      /\ g.blk[p] = [size |-> Max_size, free |-> TRUE, prev |-> h.tail, next |-> 0]
  BY <1>8 DEF Grown
<1>10. h.tail \in Nat
  <2>1. h.tail \in B \union {0}
    BY <1>1, ChainLinks DEF Linked
  <2> QED
    BY <1>4, <2>1
<1> HIDE DEF B
<1>11. /\ g.blk[p] \in [size : Nat, free : BOOLEAN, prev : Nat, next : Nat]
       /\ g.blk[p].size = Max_size
  BY <1>3, <1>9, <1>10
<1>12. Formed(g)
  <2>1. ASSUME NEW x \in B \union {p}
        PROVE  /\ x \in Nat \ {0} /\ x % P = 0
               /\ g.blk[x] \in [size : Nat, free : BOOLEAN, prev : Nat, next : Nat]
               /\ g.blk[x].size % P = 0
    <3>1. CASE x = p
      BY <1>2, <1>3, <1>11, <3>1
    <3>2. CASE x \in B
      <4>1. g.blk[x].size = h.blk[x].size
        BY <1>9, <3>2
      <4> QED
        BY <1>4, <1>9, <3>2, <4>1
    <3> QED
      BY <3>1, <3>2
  <2> QED
    BY <1>9, <2>1 DEF Formed, P
<1>13. /\ EndOf(g, p) = p + PAGE_SIZE
       /\ \A x \in B : EndOf(g, x) = EndOf(h, x)
  <2>1. EndOf(g, p) = p + HEADER + Max_size
    BY <1>11 DEF EndOf
  <2>2. \A x \in B : EndOf(g, x) = EndOf(h, x)
    BY <1>9 DEF EndOf
  <2> QED
    BY <1>0, <1>2, <1>3, <2>1, <2>2
<1>14. Apart(g)
  <2>1. \A x, y \in B : x # y => EndOf(h, x) <= y \/ EndOf(h, y) <= x
    BY <1>1 DEF Apart, B
  <2>2. \A x, y \in B \union {p} : x # y => EndOf(g, x) <= y \/ EndOf(g, y) <= x
    BY <1>6, <1>13, <2>1
  <2> QED
    BY <1>9, <2>2 DEF Apart
<1>15. Covers(g, G \union {p})
  <2>1. ASSUME NEW x \in Nat
        PROVE  (\E z \in B \union {p} : z <= x /\ x < EndOf(g, z))
                  <=> (\E q \in G \union {p} : q <= x /\ x < q + PAGE_SIZE)
    <3>1. (\E z \in B : z <= x /\ x < EndOf(h, z))
              <=> (\E q \in G : q <= x /\ x < q + PAGE_SIZE)
      BY <1>1 DEF Covers, B
    <3> QED
      BY <1>13, <3>1
  <2> QED
    BY <1>9, <2>1 DEF Covers
<1>16. Chained(g)
  <2>1. p \in Nat \ {0} /\ p \notin DOMAIN h.blk
    BY <1>2, <1>7 DEF B
  <2> QED
    BY <1>1, <1>8, <2>1, GrowChained
<1>17. Whole(g, G \union {p})
  BY <1>12, <1>14, <1>15, <1>16 DEF Whole
<1> QED
  BY <1>7, <1>8, <1>13, <1>17 DEF g, B

-----------------------------------------------------------------------------
(* The scan of kmalloc().                                                  *)

LEMMA ChainCounted ==
    ASSUME NEW h, NEW n, NEW s, Chain(h, n, s)
    PROVE  IsFiniteSet(DOMAIN h.blk) /\ Cardinality(DOMAIN h.blk) = n
<1>1. n \in Nat
  BY DEF Chain
<1>2. s \in [1..n -> DOMAIN h.blk]
  BY DEF Chain
<1>3. \A i, j \in 1..n : s[i] = s[j] => i = j
  BY DEF Chain
<1>4. \A a \in DOMAIN h.blk : \E i \in 1..n : s[i] = a
  BY DEF Chain
<1>5. s \in Bijection(1..n, DOMAIN h.blk)
  BY <1>2, <1>3, <1>4 DEF Bijection, Injection, Surjection, IsInjective
<1>6. ExistsBijection(1..n, DOMAIN h.blk)
  BY <1>5 DEF ExistsBijection
<1>7. IsFiniteSet(1..n) /\ Cardinality(1..n) = n
  BY <1>1, FS_Interval
<1> QED
  BY <1>6, <1>7, FS_Bijection

LEMMA NthIs ==
    ASSUME NEW h, Formed(h), NEW n, NEW s, Chain(h, n, s), NEW k \in Nat
    PROVE  Nth(h)[k] = IF k < n THEN s[k + 1] ELSE 0
<1> DEFINE B == DOMAIN h.blk
           Step(f, i) == IF i = 0 THEN h.head
                         ELSE IF f[i - 1] \in B THEN h.blk[f[i - 1]].next
                         ELSE 0
           g == [i \in Nat |-> IF i < n THEN s[i + 1] ELSE 0]
<1>1. /\ n \in Nat
      /\ h.head = IF n = 0 THEN 0 ELSE s[1]
      /\ \A i \in 1..n : /\ s[i] \in B
                         /\ h.blk[s[i]].next = IF i = n THEN 0 ELSE s[i + 1]
  BY DEF Chain
<1>2. 0 \notin B
  BY DEF Formed
<1> HIDE DEF B
<1>3. \A i \in Nat : g[i] = IF i < n THEN s[i + 1] ELSE 0
  OBVIOUS
<1> HIDE DEF g
<1>4. ASSUME NEW i \in Nat
      PROVE  g[i] = Step(g, i)
  <2>1. CASE i = 0
    BY <1>1, <1>3, <2>1
  <2>2. CASE i # 0 /\ i - 1 < n
    <3>1. i - 1 \in Nat /\ i \in 1..n /\ (i - 1) + 1 = i
      BY <1>1, <2>2
    <3>2. g[i - 1] = s[i]
      BY <1>3, <2>2, <3>1
    <3>3. g[i] = IF i = n THEN 0 ELSE s[i + 1]
      BY <1>1, <1>3, <3>1
    <3> QED
      BY <1>1, <2>2, <3>1, <3>2, <3>3
  <2>3. CASE i # 0 /\ ~(i - 1 < n)
    <3>1. i - 1 \in Nat /\ g[i - 1] = 0 /\ g[i] = 0
      BY <1>1, <1>3, <2>3
    <3> QED
      BY <1>2, <2>3, <3>1
  <2> QED
    BY <2>1, <2>2, <2>3
<1>5. g = [i \in Nat |-> Step(g, i)]
  <2> DEFINE w == [i \in Nat |-> Step(g, i)]
  <2>1. \A i \in Nat : g[i] = w[i]
    BY <1>4
  <2> QED
    BY <2>1 DEF g
<1>6. Nth(h) = [i \in Nat |-> Step(Nth(h), i)]
  <2>1. Nth(h) = CHOOSE f : f = [i \in Nat |-> Step(f, i)]
    BY DEF Nth, B
  <2> QED
    BY <1>5, <2>1
<1>7. ASSUME NEW i \in Nat PROVE Nth(h)[i] = g[i]
  <2> DEFINE Bad == {j \in Nat : Nth(h)[j] # g[j]}
  <2>1. ASSUME Bad # {} PROVE FALSE
    <3>1. PICK m \in Bad : \A j \in Bad : m <= j
      BY <2>1, LeastNat
    <3>2. m \in Nat /\ Nth(h)[m] # g[m]
      BY <3>1
    <3>3. m # 0 => m - 1 \in Nat /\ Nth(h)[m - 1] = g[m - 1]
      BY <3>1, <3>2
    <3> HIDE DEF Bad
    <3>4. Nth(h)[m] = Step(Nth(h), m) /\ g[m] = Step(g, m)
      BY <1>5, <1>6, <3>2
    <3> QED
      BY <3>2, <3>3, <3>4
  <2> QED
    BY <2>1
<1> QED
  BY <1>3, <1>7

(* The scan comes to every block and to nothing else.                      *)
Scanned(h) ==
    /\ \A k \in Listed(h) : k \in Nat /\ Nth(h)[k] \in DOMAIN h.blk
    /\ \A a \in DOMAIN h.blk : \E k \in Listed(h) : Nth(h)[k] = a

LEMMA ScanIsWhole ==
    ASSUME NEW h, Formed(h), Chained(h)
    PROVE  Scanned(h)
<1>1. PICK n, s : Chain(h, n, s)
  BY DEF Chained
<1>2. Listed(h) = 0..(n - 1)
  BY <1>1, ChainCounted DEF Listed
<1>3. /\ n \in Nat
      /\ \A i \in 1..n : s[i] \in DOMAIN h.blk
      /\ \A a \in DOMAIN h.blk : \E i \in 1..n : s[i] = a
  BY <1>1 DEF Chain
<1>4. ASSUME NEW k \in 0..(n - 1)
      PROVE  k \in Nat /\ Nth(h)[k] \in DOMAIN h.blk
  <2>1. k \in Nat /\ k < n /\ k + 1 \in 1..n
    BY <1>3
  <2>2. Nth(h)[k] = s[k + 1]
    BY <1>1, <2>1, NthIs
  <2> QED
    BY <1>3, <2>1, <2>2
<1>5. ASSUME NEW a \in DOMAIN h.blk
      PROVE  \E k \in 0..(n - 1) : Nth(h)[k] = a
  <2>1. PICK i \in 1..n : s[i] = a
    BY <1>3
  <2>2. i - 1 \in 0..(n - 1) /\ i - 1 \in Nat /\ i - 1 < n /\ (i - 1) + 1 = i
    BY <1>3
  <2>3. Nth(h)[i - 1] = s[i]
    BY <1>1, <2>2, NthIs
  <2> QED
    BY <2>1, <2>2, <2>3
<1> QED
  BY <1>2, <1>4, <1>5 DEF Scanned

(* kmalloc() finds a block that is free and large enough, if there is one. *)
LEMMA ScanFinds ==
    ASSUME NEW h, Formed(h), Chained(h), NEW size \in Nat, Fits(h, size) # {}
    PROVE  LET a == Nth(h)[Min(Fits(h, size))]
           IN  a \in DOMAIN h.blk /\ h.blk[a].free /\ h.blk[a].size >= size
<1> DEFINE K == Fits(h, size)
<1>1. K \in SUBSET Nat
  BY ScanIsWhole DEF Fits, Scanned
<1>2. Min(K) \in K
  BY <1>1, MinIs
<1> QED
  BY <1>2 DEF Fits

LEMMA ScanMisses ==
    ASSUME NEW h, Formed(h), Chained(h), NEW size \in Nat, NEW a \in DOMAIN h.blk,
           h.blk[a].free, h.blk[a].size >= size
    PROVE  Fits(h, size) # {}
<1>1. PICK k \in Listed(h) : Nth(h)[k] = a
  BY ScanIsWhole DEF Scanned
<1> QED
  BY <1>1 DEF Fits

-----------------------------------------------------------------------------
(* Blocks to merge, and blocks in use.                                     *)

(* The blocks at x and after it are free and could be merged.              *)
Loose(h, x) ==
    /\ x \in DOMAIN h.blk /\ h.blk[x].free
    /\ h.blk[x].next # 0
    /\ h.blk[h.blk[x].next].free
    /\ block_adjacent(h, x, h.blk[x].next)

(* Nothing is left to merge; nothing but the block at a, into the one      *)
(* before it.                                                              *)
Tight(h) == \A x \in DOMAIN h.blk : ~Loose(h, x)
TightBut(h, a) == \A x \in DOMAIN h.blk : Loose(h, x) => h.blk[x].next = a

(* Apart from the one at a, g has the blocks in use that h has.            *)
SameUsed(h, g, a) ==
    /\ \A x \in DOMAIN h.blk : ~h.blk[x].free /\ x # a =>
           x \in DOMAIN g.blk /\ ~g.blk[x].free /\ g.blk[x].size = h.blk[x].size
    /\ \A x \in DOMAIN g.blk : ~g.blk[x].free /\ x # a =>
           x \in DOMAIN h.blk /\ ~h.blk[x].free

(* kmalloc() has used the block at a.                                      *)
Used(h, g, G, a, size) ==
    /\ Whole(g, G) /\ Tight(g) /\ SameUsed(h, g, a)
    /\ a \in DOMAIN g.blk /\ ~g.blk[a].free /\ g.blk[a].size >= size

LEMMA UseStep ==
    ASSUME NEW h, NEW G, Whole(h, G), NEW a \in DOMAIN h.blk, NEW size \in Nat,
           h.blk[a].free, h.blk[a].size >= align_up(size, KMALLOC_ALIGN),
           TightBut(h, a)
    PROVE  Used(h, Use(h, size, a), G, a, size)
<1> DEFINE z == align_up(size, KMALLOC_ALIGN)
           d == a + HEADER + z
           s == split_block(h, a, z)
           g == [s EXCEPT !.blk[a].free = FALSE]
<1>1. z \in Nat /\ z >= size /\ z % KMALLOC_ALIGN = 0
  BY AlignedSize
<1>2. h.blk[a].size >= z
  OBVIOUS
<1> HIDE DEF z
<1>3. HEADER \in Nat /\ HEADER > 0 /\ KMALLOC_ALIGN \in Nat
  BY KmallocAssumption
<1>4. Formed(h) /\ Apart(h) /\ Linked(h)
  BY ChainLinks DEF Whole
<1>5. \A x \in DOMAIN h.blk :
         /\ x \in Nat /\ x > 0 /\ h.blk[x].size \in Nat
         /\ h.blk[x].free \in BOOLEAN
         /\ EndOf(h, x) = x + HEADER + h.blk[x].size
         /\ EndOf(h, x) \in Nat /\ x < EndOf(h, x)
  BY <1>4, EndFacts
<1>6. Use(h, size, a) = g
  BY DEF Use, z
<1>7. CASE h.blk[a].size < z + HEADER + KMALLOC_ALIGN
  <2>1. s = h
    BY <1>7 DEF split_block
  <2> HIDE DEF s
  <2>2. Marked(h, g, a, FALSE)
    BY <1>4, <2>1, MarkFields
  <2> HIDE DEF g
  <2>3. Whole(g, G)
    BY <2>2, MarkWhole
  <2>4. /\ DOMAIN g.blk = DOMAIN h.blk
        /\ \A x \in DOMAIN h.blk :
             /\ g.blk[x].size = h.blk[x].size
             /\ g.blk[x].free = IF x = a THEN FALSE ELSE h.blk[x].free
             /\ g.blk[x].next = h.blk[x].next
    BY <2>2 DEF Marked
  <2>5. Tight(g)
    <3> SUFFICES ASSUME NEW x \in DOMAIN h.blk, Loose(g, x) PROVE FALSE
      BY <2>4 DEF Tight
    <3>1. x # a /\ h.blk[x].free /\ h.blk[x].next # 0
      BY <2>4 DEF Loose
    <3>2. h.blk[x].next \in DOMAIN h.blk
      BY <1>4, <3>1 DEF Linked
    <3>3. h.blk[x].next # a /\ h.blk[h.blk[x].next].free
      BY <2>4, <3>2 DEF Loose
    <3>4. block_adjacent(h, x, h.blk[x].next)
      BY <2>4 DEF Loose, block_adjacent, EndOf
    <3> QED
      BY <3>1, <3>3, <3>4 DEF Loose, TightBut
  <2>6. SameUsed(h, g, a)
    BY <2>4 DEF SameUsed
  <2>7. a \in DOMAIN g.blk /\ ~g.blk[a].free /\ g.blk[a].size >= size
    <3>1. /\ a \in DOMAIN g.blk /\ ~g.blk[a].free
          /\ g.blk[a].size = h.blk[a].size
      BY <2>4
    <3>2. h.blk[a].size \in Nat
      BY <1>5
    <3> QED
      BY <1>1, <1>2, <3>1, <3>2
  <2> QED
    BY <1>6, <2>3, <2>5, <2>6, <2>7 DEF Used
<1>8. CASE ~(h.blk[a].size < z + HEADER + KMALLOC_ALIGN)
  <2>1. s = Carved(h, a, z)
    BY <1>8 DEF split_block
  <2>2. h.blk[a].size >= z + HEADER
    BY <1>1, <1>3, <1>5, <1>8
  <2>3. d \notin DOMAIN h.blk /\ Split(h, s, a, z, d) /\ Whole(s, G)
    BY <1>1, <2>1, <2>2, SplitWhole
  <2> HIDE DEF s, d
  <2>4. /\ DOMAIN s.blk = DOMAIN h.blk \union {d}
        /\ \A x \in DOMAIN h.blk :
             /\ s.blk[x].size = IF x = a THEN z ELSE h.blk[x].size
             /\ s.blk[x].free = h.blk[x].free
             /\ s.blk[x].next = IF x = a THEN d ELSE h.blk[x].next
        /\ s.blk[d].size = h.blk[a].size - z - HEADER
        /\ s.blk[d].free = TRUE
        /\ s.blk[d].next = h.blk[a].next
    BY <2>3 DEF Split
  <2>5. Marked(s, g, a, FALSE)
    BY <2>3, <2>4, MarkFields DEF Whole
  <2> HIDE DEF g
  <2>6. Whole(g, G)
    BY <2>3, <2>5, MarkWhole
  <2>7. /\ DOMAIN g.blk = DOMAIN h.blk \union {d}
        /\ \A x \in DOMAIN h.blk :
             /\ g.blk[x].size = IF x = a THEN z ELSE h.blk[x].size
             /\ g.blk[x].free = IF x = a THEN FALSE ELSE h.blk[x].free
             /\ g.blk[x].next = IF x = a THEN d ELSE h.blk[x].next
        /\ g.blk[d].size = h.blk[a].size - z - HEADER
        /\ g.blk[d].free = TRUE
        /\ g.blk[d].next = h.blk[a].next
    <3>1. /\ DOMAIN g.blk = DOMAIN s.blk
          /\ \A x \in DOMAIN s.blk :
               /\ g.blk[x].size = s.blk[x].size
               /\ g.blk[x].free = IF x = a THEN FALSE ELSE s.blk[x].free
               /\ g.blk[x].next = s.blk[x].next
      BY <2>5 DEF Marked
    <3>2. d # a
      BY <2>3
    <3> QED
      BY <2>4, <3>1, <3>2
  <2>8. Tight(g)
    <3> SUFFICES ASSUME NEW x \in DOMAIN h.blk \union {d}, Loose(g, x) PROVE FALSE
      BY <2>7 DEF Tight
    <3>0. /\ g.blk[x].free /\ g.blk[x].next # 0 /\ g.blk[g.blk[x].next].free
          /\ EndOf(g, x) = g.blk[x].next
      BY DEF Loose, block_adjacent
    <3>1. CASE x \in DOMAIN h.blk
      <4>1. /\ x # a /\ h.blk[x].free /\ g.blk[x].next = h.blk[x].next
            /\ g.blk[x].size = h.blk[x].size
        BY <2>7, <3>0, <3>1
      <4>2. h.blk[x].next \in DOMAIN h.blk
        BY <1>4, <3>0, <3>1, <4>1 DEF Linked
      <4>3. h.blk[x].next # a /\ h.blk[h.blk[x].next].free
        BY <2>7, <3>0, <4>1, <4>2
      <4>4. block_adjacent(h, x, h.blk[x].next)
        BY <3>0, <4>1 DEF block_adjacent, EndOf
      <4> QED
        BY <3>0, <3>1, <4>1, <4>3, <4>4 DEF Loose, TightBut
    <3>2. CASE x = d
      <4>1. h.blk[a].next # 0 /\ g.blk[d].next = h.blk[a].next
        BY <2>7, <3>0, <3>2
      <4>2. h.blk[a].next \in DOMAIN h.blk
        BY <1>4, <4>1 DEF Linked
      <4>3. EndOf(g, d) = EndOf(h, a)
        <5>1. EndOf(g, d) = d + HEADER + g.blk[d].size
          BY DEF EndOf
        <5>2. d = a + HEADER + z
          BY DEF d
        <5> QED
          BY <1>1, <1>3, <1>5, <2>7, <5>1, <5>2
      <4>4. EndOf(h, a) = h.blk[a].next
        BY <3>0, <3>2, <4>1, <4>3
      <4>5. h.blk[a].next # a
        BY <1>5, <4>4
      <4>6. h.blk[h.blk[a].next].free
        BY <2>7, <3>0, <3>2, <4>1, <4>2, <4>5
      <4> QED
        BY <4>1, <4>4, <4>5, <4>6 DEF Loose, TightBut, block_adjacent
    <3> QED
      BY <3>1, <3>2
  <2>9. SameUsed(h, g, a)
    BY <2>7 DEF SameUsed
  <2>10. a \in DOMAIN g.blk /\ ~g.blk[a].free /\ g.blk[a].size >= size
    BY <1>1, <2>7
  <2> QED
    BY <1>6, <2>6, <2>8, <2>9, <2>10 DEF Used
<1> QED
  BY <1>7, <1>8

(* g is h once merge_with_next() has looked at the block at a: what is     *)
(* left to merge in g was there in h, and not at a.                        *)
Merges(h, g, G, a) ==
    /\ Whole(g, G) /\ SameUsed(h, g, 0)
    /\ a \in DOMAIN g.blk /\ g.blk[a].free /\ g.blk[a].prev = h.blk[a].prev
    /\ \A x \in DOMAIN g.blk :
           Loose(g, x) => \E y \in DOMAIN h.blk : /\ Loose(h, y) /\ y # a
                                                  /\ h.blk[y].next = g.blk[x].next

LEMMA MergeStep ==
    ASSUME NEW h, NEW G, Whole(h, G), NEW a \in DOMAIN h.blk, h.blk[a].free
    PROVE  Merges(h, merge_with_next(h, a), G, a)
<1> DEFINE d == h.blk[a].next
           g == merge_with_next(h, a)
<1>1. Formed(h) /\ Linked(h)
  BY ChainLinks DEF Whole
<1>2. CASE d = 0 \/ ~h.blk[d].free \/ ~block_adjacent(h, a, d)
  <2>1. g = h
    BY <1>2 DEF merge_with_next
  <2>2. ~Loose(h, a)
    BY <1>2 DEF Loose
  <2>3. SameUsed(h, h, 0)
    BY DEF SameUsed
  <2>4. Merges(h, h, G, a)
    BY <2>2, <2>3 DEF Merges
  <2> QED
    BY <2>1, <2>4
<1>3. CASE d # 0 /\ h.blk[d].free /\ block_adjacent(h, a, d)
  <2>1. g = TakenIn(h, a, d)
    BY <1>3 DEF merge_with_next
  <2>2. d \in DOMAIN h.blk
    BY <1>1, <1>3 DEF Linked
  <2>3. /\ a < d /\ Joined(h, g, a, d) /\ Whole(g, G)
        /\ EndOf(g, a) = EndOf(h, d)
        /\ \A x \in DOMAIN h.blk \ {a, d} : EndOf(g, x) = EndOf(h, x)
    BY <1>3, <2>1, <2>2, JoinWhole
  <2> HIDE DEF g
  <2>4. /\ DOMAIN g.blk = DOMAIN h.blk \ {d}
        /\ \A x \in DOMAIN h.blk \ {d} :
             /\ g.blk[x].size = IF x = a THEN h.blk[a].size + HEADER + h.blk[d].size
                                ELSE h.blk[x].size
             /\ g.blk[x].free = h.blk[x].free
             /\ g.blk[x].prev = IF x # a /\ x = h.blk[d].next
                                THEN a ELSE h.blk[x].prev
             /\ g.blk[x].next = IF x = a THEN h.blk[d].next ELSE h.blk[x].next
    BY <2>3 DEF Joined
  <2>5. /\ \A x \in DOMAIN h.blk : x \in Nat /\ x > 0
        /\ EndOf(h, d) \in Nat /\ d < EndOf(h, d)
    BY <1>1, <2>2, EndFacts
  <2>6. a # d /\ a \in DOMAIN g.blk
    BY <2>2, <2>3, <2>4, <2>5
  <2>7. SameUsed(h, g, 0)
    BY <1>3, <2>4, <2>6 DEF SameUsed
  <2>8. g.blk[a].free /\ g.blk[a].prev = h.blk[a].prev
    BY <2>4, <2>6
  <2>9. Linked(g)
    BY <2>3, ChainLinks DEF Whole
  <2>10. ASSUME NEW x \in DOMAIN g.blk, Loose(g, x)
         PROVE  \E y \in DOMAIN h.blk : /\ Loose(h, y) /\ y # a
                                        /\ h.blk[y].next = g.blk[x].next
    <3>1. /\ g.blk[x].free /\ g.blk[x].next # 0 /\ g.blk[g.blk[x].next].free
          /\ EndOf(g, x) = g.blk[x].next
      BY <2>10 DEF Loose, block_adjacent
    <3>2. g.blk[x].next \in DOMAIN h.blk \ {d}
      BY <2>4, <2>9, <3>1 DEF Linked
    <3>3. h.blk[g.blk[x].next].free
      BY <2>4, <3>1, <3>2
    <3>4. CASE x = a
      <4>1. g.blk[x].next = h.blk[d].next /\ EndOf(h, d) = h.blk[d].next
        BY <2>3, <2>4, <2>6, <3>1, <3>4
      <4>2. Loose(h, d)
        BY <1>3, <2>2, <3>1, <3>3, <4>1 DEF Loose, block_adjacent
      <4> QED
        BY <2>2, <2>6, <4>1, <4>2
    <3>5. CASE x # a
      <4>1. /\ x \in DOMAIN h.blk \ {a, d} /\ g.blk[x].next = h.blk[x].next
            /\ h.blk[x].free /\ EndOf(h, x) = h.blk[x].next
        BY <2>3, <2>4, <3>1, <3>5
      <4>2. Loose(h, x)
        BY <3>1, <3>3, <4>1 DEF Loose, block_adjacent
      <4> QED
        BY <3>5, <4>1, <4>2
    <3> QED
      BY <3>4, <3>5
  <2>11. Merges(h, g, G, a)
    BY <2>3, <2>6, <2>7, <2>8, <2>10 DEF Merges
  <2> QED
    BY <2>11 DEF g
<1> QED
  BY <1>2, <1>3

(* kfree() has freed the block at a.                                       *)
Released(h, g, G, a) ==
    /\ Whole(g, G) /\ Tight(g) /\ SameUsed(h, g, a)
    /\ a \in DOMAIN g.blk => g.blk[a].free

LEMMA FreeStep ==
    ASSUME NEW h, NEW G, Whole(h, G), Tight(h), NEW a \in DOMAIN h.blk,
           ~h.blk[a].free
    PROVE  Released(h, Freed(h, a), G, a)
<1> DEFINE f == [h EXCEPT !.blk[a].free = TRUE]
           g == merge_with_next(f, a)
           p == g.blk[a].prev
           e == IF p # 0 /\ g.blk[p].free THEN merge_with_next(g, p) ELSE g
<1>1. Freed(h, a) = e
  BY DEF Freed
<1>2. Formed(h) /\ Linked(h)
  BY ChainLinks DEF Whole
<1>3. Marked(h, f, a, TRUE)
  BY <1>2, MarkFields
<1> HIDE DEF f
<1>4. Whole(f, G)
  BY <1>3, MarkWhole
<1>5. /\ DOMAIN f.blk = DOMAIN h.blk
      /\ \A x \in DOMAIN h.blk :
             /\ f.blk[x].size = h.blk[x].size
             /\ f.blk[x].free = IF x = a THEN TRUE ELSE h.blk[x].free
             /\ f.blk[x].prev = h.blk[x].prev
             /\ f.blk[x].next = h.blk[x].next
  BY <1>3 DEF Marked
<1>6. ASSUME NEW x \in DOMAIN f.blk, Loose(f, x)
      PROVE  x = a \/ f.blk[x].next = a
  <2> SUFFICES ASSUME x # a, f.blk[x].next # a PROVE FALSE
    OBVIOUS
  <2>1. h.blk[x].next \in DOMAIN h.blk
    BY <1>2, <1>5, <1>6 DEF Loose, Linked
  <2>2. h.blk[x].free /\ h.blk[h.blk[x].next].free /\ h.blk[x].next # 0
    BY <1>5, <1>6, <2>1 DEF Loose
  <2>3. block_adjacent(h, x, h.blk[x].next)
    BY <1>5, <1>6 DEF Loose, block_adjacent, EndOf
  <2> QED
    BY <1>5, <2>2, <2>3 DEF Loose, Tight
<1>7. Merges(f, g, G, a)
  BY <1>4, <1>5, MergeStep
<1> HIDE DEF g
<1>8. /\ Whole(g, G) /\ SameUsed(f, g, 0)
      /\ a \in DOMAIN g.blk /\ g.blk[a].free
  BY <1>7 DEF Merges
<1>9. TightBut(g, a)
  BY <1>6, <1>7 DEF Merges, TightBut
<1>10. Linked(g) /\ Formed(g)
  BY <1>8, ChainLinks DEF Whole
<1>11. ASSUME NEW x \in DOMAIN g.blk, Loose(g, x)
       PROVE  x = p /\ p # 0
  <2>1. g.blk[x].next = a /\ g.blk[x].next # 0
    BY <1>9, <1>11 DEF TightBut, Loose
  <2>2. x = p
    BY <1>10, <2>1 DEF Linked
  <2>3. x # 0
    BY <1>10 DEF Formed
  <2> QED
    BY <2>2, <2>3
<1>12. p # 0 => p \in DOMAIN g.blk
  BY <1>8, <1>10 DEF Linked
<1>13. Whole(e, G) /\ Tight(e) /\ SameUsed(g, e, 0)
  <2>1. CASE p # 0 /\ g.blk[p].free
    <3>1. e = merge_with_next(g, p)
      BY <2>1
    <3>2. Merges(g, e, G, p)
      BY <1>8, <1>12, <2>1, <3>1, MergeStep
    <3> HIDE DEF e, p
    <3> QED
      BY <1>11, <3>2 DEF Merges, Tight
  <2>2. CASE ~(p # 0 /\ g.blk[p].free)
    <3>1. e = g
      BY <2>2
    <3>2. Tight(g)
      BY <1>11, <2>2 DEF Tight, Loose
    <3>3. SameUsed(g, g, 0)
      BY DEF SameUsed
    <3> HIDE DEF e
    <3> QED
      BY <1>8, <3>1, <3>2, <3>3
  <2> QED
    BY <2>1, <2>2
<1> HIDE DEF e
<1>14. \A x \in DOMAIN h.blk \union DOMAIN g.blk \union DOMAIN e.blk : x # 0
  BY <1>2, <1>10, <1>13 DEF Formed, Whole
<1>15. SameUsed(h, e, a)
  <2>1. ASSUME NEW x \in DOMAIN h.blk, ~h.blk[x].free, x # a
        PROVE  x \in DOMAIN e.blk /\ ~e.blk[x].free /\ e.blk[x].size = h.blk[x].size
    <3>1. x \in DOMAIN f.blk /\ ~f.blk[x].free /\ f.blk[x].size = h.blk[x].size
      BY <1>5, <2>1
    <3>2. x \in DOMAIN g.blk /\ ~g.blk[x].free /\ g.blk[x].size = h.blk[x].size
      BY <1>8, <1>14, <3>1 DEF SameUsed
    <3> QED
      BY <1>13, <1>14, <3>2 DEF SameUsed
  <2>2. ASSUME NEW x \in DOMAIN e.blk, ~e.blk[x].free, x # a
        PROVE  x \in DOMAIN h.blk /\ ~h.blk[x].free
    <3>1. x \in DOMAIN g.blk /\ ~g.blk[x].free
      BY <1>13, <1>14, <2>2 DEF SameUsed
    <3>2. x \in DOMAIN f.blk /\ ~f.blk[x].free
      BY <1>8, <1>14, <3>1 DEF SameUsed
    <3> QED
      BY <1>5, <2>2, <3>2
  <2> QED
    BY <2>1, <2>2 DEF SameUsed
<1>16. ASSUME a \in DOMAIN e.blk, ~e.blk[a].free PROVE FALSE
  BY <1>8, <1>13, <1>14, <1>16 DEF SameUsed
<1> QED
  BY <1>1, <1>13, <1>15, <1>16 DEF Released

(* The page that heap_grow() adds may only be merged with the block before *)
(* it, and no block in use is touched.                                     *)
LEMMA GrowTight ==
    ASSUME NEW h, NEW G \in SUBSET Page, NEW p \in Page, p \notin G,
           Whole(h, G), Tight(h)
    PROVE  /\ TightBut(heap_grow(h, p), p)
           /\ SameUsed(h, heap_grow(h, p), p)
<1> DEFINE g == heap_grow(h, p)
<1>1. /\ p \notin DOMAIN h.blk
      /\ Grown(h, g, p)
      /\ \A x \in DOMAIN h.blk : EndOf(g, x) = EndOf(h, x)
  BY GrowWhole
<1> HIDE DEF g
<1>2. /\ DOMAIN g.blk = DOMAIN h.blk \union {p}
      /\ \A x \in DOMAIN h.blk :
             /\ g.blk[x].size = h.blk[x].size
             /\ g.blk[x].free = h.blk[x].free
             /\ g.blk[x].next = IF x = h.tail THEN p ELSE h.blk[x].next
      /\ g.blk[p].free = TRUE /\ g.blk[p].next = 0
  BY <1>1 DEF Grown
<1>3. Linked(h)
  BY ChainLinks DEF Whole
<1>4. ASSUME NEW x \in DOMAIN g.blk, Loose(g, x), g.blk[x].next # p
      PROVE  FALSE
  <2>1. g.blk[x].next # 0 /\ g.blk[x].free /\ g.blk[g.blk[x].next].free
    BY <1>4 DEF Loose
  <2>2. x \in DOMAIN h.blk
    BY <1>2, <2>1
  <2>3. g.blk[x].next = h.blk[x].next
    BY <1>2, <1>4, <2>2
  <2>4. h.blk[x].next \in DOMAIN h.blk
    BY <1>3, <2>1, <2>2, <2>3 DEF Linked
  <2>5. h.blk[x].free /\ h.blk[h.blk[x].next].free
    BY <1>2, <2>1, <2>2, <2>3, <2>4
  <2>6. block_adjacent(h, x, h.blk[x].next)
    BY <1>1, <1>4, <2>2, <2>3 DEF Loose, block_adjacent
  <2> QED
    BY <2>1, <2>2, <2>3, <2>5, <2>6 DEF Loose, Tight
<1>5. TightBut(g, p)
  BY <1>4 DEF TightBut
<1>6. SameUsed(h, g, p)
  BY <1>2 DEF SameUsed
<1> QED
  BY <1>5, <1>6 DEF g

(* kmalloc() takes a page only if no block fits, so the second scan finds  *)
(* the new page.                                                           *)
LEMMA SecondScan ==
    ASSUME NEW h, NEW G \in SUBSET Page, NEW p \in Page, p \notin G,
           Whole(h, G), NEW z \in Nat, z <= Max_size, Fits(h, z) = {}
    PROVE  /\ Nth(heap_grow(h, p))[Min(Fits(heap_grow(h, p), z))] = p
           /\ p \in DOMAIN heap_grow(h, p).blk
           /\ heap_grow(h, p).blk[p].free /\ heap_grow(h, p).blk[p].size >= z
<1> DEFINE g == heap_grow(h, p)
           a == Nth(g)[Min(Fits(g, z))]
<1>1. Grown(h, g, p) /\ Whole(g, G \union {p})
  BY GrowWhole
<1> HIDE DEF g
<1>2. Formed(g) /\ Chained(g) /\ Formed(h) /\ Chained(h)
  BY <1>1 DEF Whole
<1>3. /\ DOMAIN g.blk = DOMAIN h.blk \union {p}
      /\ \A x \in DOMAIN h.blk : /\ g.blk[x].size = h.blk[x].size
                                 /\ g.blk[x].free = h.blk[x].free
      /\ g.blk[p].free = TRUE /\ g.blk[p].size = Max_size
  BY <1>1 DEF Grown
<1>4. p \in DOMAIN g.blk /\ g.blk[p].free /\ g.blk[p].size >= z
  <2>1. Max_size \in Nat
    BY KmallocAssumption, PageAssumption DEF Max_size
  <2> QED
    BY <1>3, <2>1
<1>5. Fits(g, z) # {}
  BY <1>2, <1>4, ScanMisses
<1>6. a \in DOMAIN g.blk /\ g.blk[a].free /\ g.blk[a].size >= z
  BY <1>2, <1>5, ScanFinds
<1> HIDE DEF a
<1>7. a = p
  <2> SUFFICES ASSUME a # p PROVE FALSE
    OBVIOUS
  <2>1. a \in DOMAIN h.blk /\ h.blk[a].free /\ h.blk[a].size >= z
    BY <1>3, <1>6
  <2> QED
    BY <1>2, <2>1, ScanMisses
<1> QED
  BY <1>4, <1>7 DEF a, g

-----------------------------------------------------------------------------
(* The pointers that kmalloc() returned.                                   *)

(* The pointers in lv are those of the blocks in use.                      *)
Owners(h, lv) ==
    /\ \A ptr \in DOMAIN lv :
           /\ ptr \in Nat /\ ptr % KMALLOC_ALIGN = 0
           /\ ptr - HEADER \in DOMAIN h.blk
           /\ ~h.blk[ptr - HEADER].free
           /\ h.blk[ptr - HEADER].size >= lv[ptr]
           /\ lv[ptr] \in Request
    /\ \A a \in DOMAIN h.blk : ~h.blk[a].free => a + HEADER \in DOMAIN lv

(* The blocks of the pointers in Ptr are the same in g as in h.            *)
Stable(h, g, Ptr) ==
    \A ptr \in Ptr :
        /\ ptr - HEADER \in DOMAIN g.blk
        /\ g.blk[ptr - HEADER].size = h.blk[ptr - HEADER].size

LEMMA OwnersAlloc ==
    ASSUME NEW h, NEW g, NEW G, NEW lv, NEW a, NEW size \in Request,
           Owners(h, lv), Used(h, g, G, a, size),
           a \in DOMAIN h.blk => h.blk[a].free
    PROVE  /\ Owners(g, With(lv, a + HEADER, size))
           /\ Stable(h, g, DOMAIN lv)
<1> DEFINE l == With(lv, a + HEADER, size)
<1>1. /\ HEADER \in Nat /\ HEADER % KMALLOC_ALIGN = 0
      /\ KMALLOC_ALIGN \in Nat \ {0}
  BY KmallocAssumption
<1>2. /\ Formed(g) /\ SameUsed(h, g, a)
      /\ a \in DOMAIN g.blk /\ ~g.blk[a].free /\ g.blk[a].size >= size
  BY DEF Used, Whole
<1>3. a \in Nat /\ a % KMALLOC_ALIGN = 0
  BY <1>2, EndFacts
<1>4. /\ a + HEADER \in Nat /\ (a + HEADER) - HEADER = a
      /\ (a + HEADER) % KMALLOC_ALIGN = 0
  <2>1. (a + HEADER) % KMALLOC_ALIGN = 0
    BY <1>1, <1>3, MultiplesAdd
  <2> QED
    BY <1>1, <1>3, <2>1
<1>5. /\ DOMAIN l = DOMAIN lv \union {a + HEADER}
      /\ l[a + HEADER] = size
      /\ \A q \in DOMAIN lv : q # a + HEADER => l[q] = lv[q]
  BY DEF With
<1> HIDE DEF l
<1>6. ASSUME NEW ptr \in DOMAIN lv
      PROVE  /\ ptr \in Nat /\ ptr % KMALLOC_ALIGN = 0
             /\ ptr - HEADER \in DOMAIN g.blk
             /\ ~g.blk[ptr - HEADER].free
             /\ g.blk[ptr - HEADER].size = h.blk[ptr - HEADER].size
             /\ g.blk[ptr - HEADER].size >= lv[ptr]
             /\ lv[ptr] \in Request
  <2>1. /\ ptr \in Nat /\ ptr % KMALLOC_ALIGN = 0
        /\ ptr - HEADER \in DOMAIN h.blk
        /\ ~h.blk[ptr - HEADER].free
        /\ h.blk[ptr - HEADER].size >= lv[ptr]
        /\ lv[ptr] \in Request
    BY DEF Owners
  <2>2. ptr - HEADER # a
    BY <2>1
  <2>3. /\ ptr - HEADER \in DOMAIN g.blk
        /\ ~g.blk[ptr - HEADER].free
        /\ g.blk[ptr - HEADER].size = h.blk[ptr - HEADER].size
    BY <1>2, <2>1, <2>2 DEF SameUsed
  <2> QED
    BY <2>1, <2>3
<1>7. ASSUME NEW ptr \in DOMAIN l
      PROVE  /\ ptr \in Nat /\ ptr % KMALLOC_ALIGN = 0
             /\ ptr - HEADER \in DOMAIN g.blk
             /\ ~g.blk[ptr - HEADER].free
             /\ g.blk[ptr - HEADER].size >= l[ptr]
             /\ l[ptr] \in Request
  <2>1. CASE ptr = a + HEADER
    BY <1>2, <1>4, <1>5, <2>1
  <2>2. CASE ptr # a + HEADER
    BY <1>5, <1>6, <2>2
  <2> QED
    BY <2>1, <2>2
<1>8. ASSUME NEW x \in DOMAIN g.blk, ~g.blk[x].free
      PROVE  x + HEADER \in DOMAIN l
  <2>1. CASE x = a
    BY <1>5, <2>1
  <2>2. CASE x # a
    <3>1. x \in DOMAIN h.blk /\ ~h.blk[x].free
      BY <1>2, <1>8, <2>2 DEF SameUsed
    <3> QED
      BY <1>5, <3>1 DEF Owners
  <2> QED
    BY <2>1, <2>2
<1>9. Owners(g, l)
  BY <1>7, <1>8 DEF Owners
<1>10. Stable(h, g, DOMAIN lv)
  BY <1>6 DEF Stable
<1> QED
  BY <1>9, <1>10 DEF l

LEMMA OwnersFree ==
    ASSUME NEW h, NEW g, NEW G, NEW lv, NEW p \in DOMAIN lv,
           Formed(h), Owners(h, lv), Released(h, g, G, p - HEADER)
    PROVE  /\ Owners(g, [q \in DOMAIN lv \ {p} |-> lv[q]])
           /\ Stable(h, g, DOMAIN lv \ {p})
<1> DEFINE l == [q \in DOMAIN lv \ {p} |-> lv[q]]
           a == p - HEADER
<1>1. HEADER \in Nat
  BY KmallocAssumption
<1>2. /\ SameUsed(h, g, a) /\ Formed(g)
      /\ a \in DOMAIN g.blk => g.blk[a].free
  BY DEF Released, Whole
<1>3. /\ DOMAIN l = DOMAIN lv \ {p}
      /\ \A q \in DOMAIN lv \ {p} : l[q] = lv[q]
  OBVIOUS
<1>4. p \in Nat
  BY DEF Owners
<1> HIDE DEF l
<1>5. ASSUME NEW ptr \in DOMAIN lv \ {p}
      PROVE  /\ ptr \in Nat /\ ptr % KMALLOC_ALIGN = 0
             /\ ptr - HEADER \in DOMAIN g.blk
             /\ ~g.blk[ptr - HEADER].free
             /\ g.blk[ptr - HEADER].size = h.blk[ptr - HEADER].size
             /\ g.blk[ptr - HEADER].size >= lv[ptr]
             /\ lv[ptr] \in Request
  <2>1. /\ ptr \in Nat /\ ptr % KMALLOC_ALIGN = 0
        /\ ptr - HEADER \in DOMAIN h.blk
        /\ ~h.blk[ptr - HEADER].free
        /\ h.blk[ptr - HEADER].size >= lv[ptr]
        /\ lv[ptr] \in Request
    BY DEF Owners
  <2>2. ptr - HEADER # a
    BY <1>1, <1>4, <2>1
  <2> HIDE DEF a
  <2>3. /\ ptr - HEADER \in DOMAIN g.blk
        /\ ~g.blk[ptr - HEADER].free
        /\ g.blk[ptr - HEADER].size = h.blk[ptr - HEADER].size
    BY <1>2, <2>1, <2>2 DEF SameUsed
  <2> QED
    BY <2>1, <2>3
<1>6. ASSUME NEW x \in DOMAIN g.blk, ~g.blk[x].free
      PROVE  x + HEADER \in DOMAIN lv \ {p}
  <2>1. x # a
    BY <1>2, <1>6
  <2>2. x \in Nat /\ x \in DOMAIN h.blk /\ ~h.blk[x].free
    <3>1. x \in Nat
      BY <1>2 DEF Formed
    <3> HIDE DEF a
    <3> QED
      BY <1>2, <1>6, <2>1, <3>1 DEF SameUsed
  <2>3. x + HEADER # p
    BY <1>1, <1>4, <2>1, <2>2
  <2> QED
    BY <2>2, <2>3 DEF Owners
<1>7. Owners(g, l)
  BY <1>3, <1>5, <1>6 DEF Owners
<1>8. Stable(h, g, DOMAIN lv \ {p})
  BY <1>5 DEF Stable
<1> QED
  BY <1>7, <1>8 DEF l

-----------------------------------------------------------------------------
(* The heap as a whole.                                                    *)

HeapInv ==
    /\ PageInv
    /\ grown \subseteq held
    /\ Whole(heap, grown)
    /\ Tight(heap)
    /\ Owners(heap, live)
    /\ stopped = FALSE

(* What a step may not do to the blocks of pointers that stay live.        *)
KeepsLive == Stable(heap, heap', DOMAIN live \intersect DOMAIN live')

HeapKept ==
    /\ grown' \subseteq held' /\ Whole(heap', grown') /\ Tight(heap')
    /\ Owners(heap', live') /\ stopped' = FALSE /\ KeepsLive

LEMMA HeapInit == Init => HeapInv
<1> SUFFICES ASSUME Init PROVE HeapInv
  OBVIOUS
<1>1. /\ DOMAIN heap = {"blk", "head", "tail"}
      /\ DOMAIN heap.blk = {} /\ heap.head = 0 /\ heap.tail = 0
      /\ grown = {} /\ DOMAIN live = {} /\ stopped = FALSE
  BY DEF Init
<1>2. PageInv
  BY PageInvInit DEF Init
<1>3. Formed(heap) /\ Apart(heap) /\ Covers(heap, grown)
  BY <1>1 DEF Formed, Apart, Covers
<1>4. Chained(heap)
  <2> DEFINE s == [i \in 1..0 |-> 0]
  <2>1. \A i \in 1..0 : FALSE
    OBVIOUS
  <2>2. s \in [1..0 -> DOMAIN heap.blk]
    BY <2>1
  <2> HIDE DEF s
  <2>3. Chain(heap, 0, s)
    BY <1>1, <2>1, <2>2 DEF Chain
  <2> QED
    BY <2>3 DEF Chained
<1>5. Tight(heap) /\ Owners(heap, live)
  BY <1>1 DEF Tight, Owners
<1> QED
  BY <1>1, <1>2, <1>3, <1>4, <1>5 DEF HeapInv, Whole

LEMMA RequestFacts ==
    ASSUME NEW size \in Request, Legal(size)
    PROVE  /\ size \in Nat
           /\ align_up(size, KMALLOC_ALIGN) \in Nat
           /\ align_up(size, KMALLOC_ALIGN) <= Max_size
BY KmallocAssumption, AlignedSize DEF Legal

LEMMA KmallocKeeps ==
    ASSUME HeapInv, NEW size \in Request, kmalloc(size)
    PROVE  HeapKept
<1> DEFINE z == align_up(size, KMALLOC_ALIGN)
           a == Nth(heap)[Min(Fits(heap, z))]
<1>1. /\ Legal(size) /\ Fits(heap, z) # {}
      /\ heap' = Use(heap, size, a)
      /\ live' = With(live, a + HEADER, size)
      /\ stopped' = stopped /\ grown' = grown /\ held' = held
  BY DEF kmalloc, Returns, pageVars
<1>2. /\ grown \subseteq held /\ Whole(heap, grown) /\ Tight(heap)
      /\ Owners(heap, live) /\ stopped = FALSE
  BY DEF HeapInv
<1>3. size \in Nat /\ z \in Nat
  BY <1>1, RequestFacts
<1>4. a \in DOMAIN heap.blk /\ heap.blk[a].free /\ heap.blk[a].size >= z
  BY <1>1, <1>2, <1>3, ScanFinds DEF Whole
<1> HIDE DEF a
<1>5. TightBut(heap, a)
  BY <1>2 DEF Tight, TightBut
<1>6. Used(heap, heap', grown, a, size)
  BY <1>1, <1>2, <1>3, <1>4, <1>5, UseStep
<1>7. Owners(heap', live') /\ Stable(heap, heap', DOMAIN live)
  BY <1>1, <1>2, <1>4, <1>6, OwnersAlloc
<1>8. KeepsLive
  BY <1>7 DEF KeepsLive, Stable
<1> QED
  BY <1>1, <1>2, <1>6, <1>7, <1>8 DEF Used, HeapKept

LEMMA GrowsKeeps ==
    ASSUME HeapInv, NEW size \in Request, kmalloc_grows(size)
    PROVE  HeapKept
<1> DEFINE z == align_up(size, KMALLOC_ALIGN)
<1>1. PICK p \in Page :
         /\ Legal(size) /\ Fits(heap, z) = {}
         /\ page_alloc(p) /\ grown' = grown \union {p}
         /\ Returns(heap_grow(heap, p), size,
                    Nth(heap_grow(heap, p))[Min(Fits(heap_grow(heap, p), z))])
  BY DEF kmalloc_grows
<1>2. /\ PageInv /\ grown \subseteq held /\ Whole(heap, grown) /\ Tight(heap)
      /\ Owners(heap, live) /\ stopped = FALSE
  BY DEF HeapInv
<1>3. size \in Nat /\ z \in Nat /\ z <= Max_size
  BY <1>1, RequestFacts
<1>4. p \notin held /\ held' = held \union {p}
  <2>1. p \in ListedPages
    BY <1>1, <1>2, AllocStep
  <2> QED
    BY <1>1, <1>2, <2>1 DEF ListedPages, PageInv, FreeListIntact, page_alloc
<1>5. grown \in SUBSET Page /\ p \notin grown
  BY <1>2, <1>4 DEF PageInv, PageTypeOK
<1> DEFINE g == heap_grow(heap, p)
<1>6. /\ p \notin DOMAIN heap.blk
      /\ Whole(g, grown \union {p})
  BY <1>2, <1>5, GrowWhole
<1>7. TightBut(g, p) /\ SameUsed(heap, g, p)
  BY <1>2, <1>5, GrowTight
<1>8. /\ Nth(g)[Min(Fits(g, z))] = p
      /\ p \in DOMAIN g.blk /\ g.blk[p].free /\ g.blk[p].size >= z
  BY <1>1, <1>2, <1>3, <1>5, SecondScan
<1> HIDE DEF g
<1>9. /\ heap' = Use(g, size, p)
      /\ live' = With(live, p + HEADER, size)
      /\ stopped' = stopped
  BY <1>1, <1>8 DEF Returns, g
<1>10. Used(g, heap', grown', p, size)
  BY <1>1, <1>3, <1>6, <1>7, <1>8, <1>9, UseStep
<1>11. Used(heap, heap', grown', p, size)
  <2>1. SameUsed(heap, heap', p)
    BY <1>7, <1>10 DEF Used, SameUsed
  <2> QED
    BY <1>10, <2>1 DEF Used
<1>12. Owners(heap', live') /\ Stable(heap, heap', DOMAIN live)
  BY <1>2, <1>6, <1>9, <1>11, OwnersAlloc
<1>13. KeepsLive
  BY <1>12 DEF KeepsLive, Stable
<1> QED
  BY <1>1, <1>2, <1>4, <1>9, <1>11, <1>12, <1>13 DEF Used, HeapKept

LEMMA KfreeKeeps ==
    ASSUME HeapInv, NEW ptr \in DOMAIN live, kfree(ptr)
    PROVE  HeapKept
<1> DEFINE a == ptr - HEADER
<1>1. /\ grown \subseteq held /\ Whole(heap, grown) /\ Tight(heap)
      /\ Owners(heap, live) /\ stopped = FALSE
  BY DEF HeapInv
<1>2. a \in DOMAIN heap.blk /\ ~heap.blk[a].free
  BY <1>1 DEF Owners
<1>3. /\ heap' = Freed(heap, a)
      /\ stopped' = FALSE
      /\ live' = [q \in DOMAIN live \ {ptr} |-> live[q]]
      /\ grown' = grown /\ held' = held
  BY <1>2 DEF kfree, pageVars
<1>4. Released(heap, heap', grown, a)
  BY <1>1, <1>2, <1>3, FreeStep
<1>5. Formed(heap)
  BY <1>1 DEF Whole
<1>6. Owners(heap', live') /\ Stable(heap, heap', DOMAIN live \ {ptr})
  <2>1. Owners(heap, live) /\ Released(heap, heap', grown, ptr - HEADER)
    BY <1>1, <1>4
  <2>2. /\ Owners(heap', [q \in DOMAIN live \ {ptr} |-> live[q]])
        /\ Stable(heap, heap', DOMAIN live \ {ptr})
    BY <1>5, <2>1, OwnersFree
  <2> QED
    BY <1>3, <2>2
<1>7. DOMAIN live' = DOMAIN live \ {ptr}
  BY <1>3
<1>8. KeepsLive
  BY <1>6, <1>7 DEF KeepsLive, Stable
<1> QED
  BY <1>1, <1>3, <1>4, <1>6, <1>8 DEF Released, HeapKept

LEMMA OthersKeep ==
    ASSUME HeapInv, UNCHANGED <<heap, grown, live, stopped>>,
           grown \subseteq held'
    PROVE  HeapKept
<1>1. heap' = heap /\ grown' = grown /\ live' = live /\ stopped' = stopped
  OBVIOUS
<1>2. \A ptr \in DOMAIN live : ptr - HEADER \in DOMAIN heap.blk
  BY DEF HeapInv, Owners
<1>3. KeepsLive
  BY <1>1, <1>2 DEF KeepsLive, Stable
<1> QED
  BY <1>1, <1>3 DEF HeapInv, HeapKept

LEMMA HeapStep ==
    ASSUME HeapInv, [Next]_vars
    PROVE  HeapInv' /\ KeepsLive
<1>1. PageInv'
  <2>1. PageInv
    BY DEF HeapInv
  <2> QED
    BY <2>1, PagesStep, PageStep
<1>2. grown \subseteq held
  BY DEF HeapInv
<1>3. HeapKept
  <2>1. ASSUME NEW size \in Request, kmalloc(size) PROVE HeapKept
    BY <2>1, KmallocKeeps
  <2>2. ASSUME NEW size \in Request, kmalloc_grows(size) PROVE HeapKept
    BY <2>2, GrowsKeeps
  <2>3. ASSUME NEW ptr \in DOMAIN live, kfree(ptr) PROVE HeapKept
    BY <2>3, KfreeKeeps
  <2>4. CASE PageUser
    <3>1. UNCHANGED <<heap, grown, live, stopped>>
      BY <2>4 DEF PageUser
    <3>2. grown \subseteq held'
      BY <1>2, <2>4 DEF PageUser, page_init_range, page_alloc, GiveBack,
                        HolderWrites
    <3> QED
      BY <3>1, <3>2, OthersKeep
  <2>5. CASE UNCHANGED vars
    <3>1. UNCHANGED <<heap, grown, live, stopped>> /\ held' = held
      BY <2>5 DEF vars, pageVars
    <3> QED
      BY <1>2, <3>1, OthersKeep
  <2> QED
    BY <2>1, <2>2, <2>3, <2>4, <2>5 DEF Next
<1> QED
  BY <1>1, <1>3 DEF HeapInv, HeapKept

-----------------------------------------------------------------------------
(* HeapInv is inductive: blocks tile the heap's pages, the list goes       *)
(* through them all, no two of them could be merged, and those in use are  *)
(* those of the live pointers.                                             *)
THEOREM HeapInvariant == Spec => []HeapInv
<1>1. HeapInv /\ [Next]_vars => HeapInv'
  BY HeapStep
<1> QED
  BY <1>1, HeapInit, PTL DEF Spec

(* The links of the blocks lead to blocks, and sizes stay in Nat, whatever *)
(* split_block() and merge_with_next() do.                                 *)
THEOREM HeapTypeCorrect == Spec => []TypeOK
<1>1. HeapInv => TypeOK
  <2> SUFFICES ASSUME HeapInv PROVE TypeOK
    OBVIOUS
  <2>1. Formed(heap) /\ Linked(heap)
    BY ChainLinks DEF HeapInv, Whole
  <2>2. ASSUME NEW a \in Block
        PROVE  heap.blk[a] \in [size : Nat, free : BOOLEAN,
                                prev : Block \union {0}, next : Block \union {0}]
    <3>1. heap.blk[a] \in [size : Nat, free : BOOLEAN, prev : Nat, next : Nat]
      BY <2>1 DEF Formed, Block
    <3>2. /\ heap.blk[a].prev \in Block \union {0}
          /\ heap.blk[a].next \in Block \union {0}
      BY <2>1 DEF Linked, Block
    <3> QED
      BY <3>1, <3>2
  <2>3. heap.head \in Block \union {0} /\ heap.tail \in Block \union {0}
    BY <2>1 DEF Linked, Block
  <2>4. PageTypeOK /\ grown \subseteq held /\ stopped \in BOOLEAN
    BY DEF HeapInv, PageInv
  <2>5. \A ptr \in DOMAIN live : live[ptr] \in Request
    BY DEF HeapInv, Owners
  <2> QED
    BY <2>1, <2>2, <2>3, <2>4, <2>5 DEF TypeOK, Formed
<1> QED
  BY <1>1, HeapInvariant, PTL

(* Every byte of the heap's pages belongs to exactly one block, after any  *)
(* sequence of kmalloc() and kfree().                                      *)
THEOREM HeapTiledAlways == Spec => []HeapTiled
<1>1. HeapInv => HeapTiled
  <2> SUFFICES ASSUME HeapInv PROVE HeapTiled
    OBVIOUS
  <2>1. Formed(heap) /\ Apart(heap) /\ Covers(heap, grown)
    BY DEF HeapInv, Whole
  <2>2. \A a \in Block : a \in Nat /\ EndOf(heap, a) \in Nat
    BY <2>1, EndFacts DEF Block
  <2>3. \A a \in Block : \A x : x \in Bytes(a)
                                  <=> x \in Nat /\ a <= x /\ x < EndOf(heap, a)
    BY <2>2 DEF Bytes
  <2>4. \A p \in grown : p \in Nat
    BY PageFacts DEF HeapInv, PageInv, PageTypeOK
  <2>5. \A p \in grown : \A x : x \in p..(p + PAGE_SIZE - 1)
                                  <=> x \in Nat /\ p <= x /\ x < p + PAGE_SIZE
    BY <2>4, PageAssumption
  <2>6. ASSUME NEW a \in Block, NEW b \in Block, a # b,
               NEW x \in Bytes(a), x \in Bytes(b)
        PROVE  FALSE
    <3>1. EndOf(heap, a) <= b \/ EndOf(heap, b) <= a
      BY <2>1, <2>6 DEF Apart, Block
    <3>2. x \in Nat /\ a <= x /\ x < EndOf(heap, a) /\ b <= x /\ x < EndOf(heap, b)
      BY <2>3, <2>6
    <3> QED
      BY <2>2, <3>1, <3>2
  <2>7. ASSUME NEW x
        PROVE  (\E a \in Block : x \in Bytes(a))
                   <=> (\E p \in grown : x \in p..(p + PAGE_SIZE - 1))
    <3>1. CASE x \in Nat
      <4>1. (\E a \in Block : a <= x /\ x < EndOf(heap, a))
                <=> (\E p \in grown : p <= x /\ x < p + PAGE_SIZE)
        BY <2>1, <3>1 DEF Covers, Block
      <4> QED
        BY <2>3, <2>5, <3>1, <4>1
    <3>2. CASE x \notin Nat
      BY <2>3, <2>5, <3>2
    <3> QED
      BY <3>1, <3>2
  <2> HIDE DEF Bytes
  <2>8. UNION {Bytes(a) : a \in Block} = UNION {p..(p + PAGE_SIZE - 1) : p \in grown}
    BY <2>7
  <2>9. \A a, b \in Block : a # b => Bytes(a) \intersect Bytes(b) = {}
    BY <2>6
  <2> QED
    BY <2>8, <2>9 DEF HeapTiled
<1> QED
  BY <1>1, HeapInvariant, PTL

(* The list of the blocks stays one list, from heap_head to heap_tail and  *)
(* back.                                                                   *)
THEOREM HeapListCorrect == Spec => []HeapListIntact
<1>1. HeapInv => HeapListIntact
  <2> SUFFICES ASSUME HeapInv PROVE HeapListIntact
    OBVIOUS
  <2>1. Scanned(heap) /\ Linked(heap)
    BY ScanIsWhole, ChainLinks DEF HeapInv, Whole
  <2>2. {Nth(heap)[k] : k \in Listed(heap)} = Block
    BY <2>1 DEF Scanned, Block
  <2> QED
    BY <2>1, <2>2 DEF HeapListIntact, Linked, Block
<1> QED
  BY <1>1, HeapInvariant, PTL

(* No two free neighbours are left unmerged.                               *)
THEOREM HeapCoalesced == Spec => []Coalesced
<1>1. HeapInv => Coalesced
  BY DEF HeapInv, Coalesced, Tight, Loose, Block
<1> QED
  BY <1>1, HeapInvariant, PTL

(* The assertions of kfree() never fail, and each live pointer has the     *)
(* bytes that were asked for, aligned and in a block of its own.           *)
THEOREM LivePointersInside == Spec => []LiveInside
<1>1. HeapInv => LiveInside
  BY DEF HeapInv, Owners, LiveInside, Block
<1> QED
  BY <1>1, HeapInvariant, PTL

(* Nothing that kmalloc() and kfree() do elsewhere moves or resizes a      *)
(* block in use.                                                           *)
THEOREM LiveBlocksStable == Spec => AllocationsStable
<1>1. HeapInv /\ [Next]_vars
          => [\A ptr \in DOMAIN live \intersect DOMAIN live' :
                  /\ ptr - HEADER \in DOMAIN heap'.blk
                  /\ heap'.blk[ptr - HEADER].size
                         = heap.blk[ptr - HEADER].size]_vars
  BY HeapStep DEF KeepsLive, Stable
<1> QED
  BY <1>1, HeapInvariant, PTL DEF Spec, AllocationsStable
=============================================================================
