------------------------------ MODULE Kmalloc -------------------------------
(***************************************************************************)
(* The kernel heap, kernel/kmalloc.c, on top of the page allocator.        *)
(*                                                                         *)
(* Addresses are those of memory, so that two pages may be neighbours, and *)
(* the null pointer is 0.  A block that is merged into the one before it   *)
(* is no longer in DOMAIN blk: its header is payload from then on.         *)
(***************************************************************************)
EXTENDS PageAlloc, FiniteSetsExt

CONSTANTS
    HEADER,         \* sizeof(struct kmem_block)
    KMALLOC_ALIGN,
    Request,        \* the sizes kmalloc() is called with
    MaxGrown        \* bound: the pages the heap may take

ASSUME KmallocAssumption ==
    /\ HEADER \in Nat \ {0} /\ KMALLOC_ALIGN \in Nat \ {0}
    /\ HEADER % KMALLOC_ALIGN = 0 /\ PAGE_SIZE % KMALLOC_ALIGN = 0
    /\ HEADER + KMALLOC_ALIGN <= PAGE_SIZE
    /\ Request \subseteq Nat
    /\ MaxGrown \in Nat

VARIABLES
    heap,       \* blk: the blocks by the address of their header;
                \* head, tail: heap_head and heap_tail
    grown,      \* history: the pages the heap has taken
    live,       \* history: the sizes asked for, by the pointer returned
    stopped     \* an assertion has failed

vars == <<pageVars, heap, grown, live, stopped>>

Max_size == PAGE_SIZE - HEADER

(* The function f, but e at d.                                             *)
With(f, d, e) == [x \in DOMAIN f \union {d} |-> IF x = d THEN e ELSE f[x]]

EndOf(h, a) == a + HEADER + h.blk[a].size

block_adjacent(h, left, right) == EndOf(h, left) = right

(* heap_grow() with page p, and heap_append().                             *)
heap_grow(h, p) ==
    [blk  |-> With([a \in DOMAIN h.blk |-> IF a = h.tail
                                           THEN [h.blk[a] EXCEPT !.next = p]
                                           ELSE h.blk[a]],
                   p, [size |-> Max_size, free |-> TRUE,
                       prev |-> h.tail, next |-> 0]),
     head |-> IF h.tail = 0 THEN p ELSE h.head,
     tail |-> p]

(* The block at a keeps size bytes; the rest is a new block after it.      *)
Carved(h, a, size) ==
    LET b == h.blk[a]
        n == a + HEADER + size
    IN  [blk  |-> With([x \in DOMAIN h.blk |->
                           IF x = a THEN [b EXCEPT !.size = size, !.next = n]
                           ELSE IF x = b.next THEN [h.blk[x] EXCEPT !.prev = n]
                           ELSE h.blk[x]],
                       n, [size |-> b.size - size - HEADER, free |-> TRUE,
                           prev |-> a, next |-> b.next]),
         head |-> h.head,
         tail |-> IF b.next = 0 THEN n ELSE h.tail]

(* Fault: no room is asked for beyond the size itself.                     *)
split_block_tight(h, a, size) ==
    IF h.blk[a].size < size THEN h ELSE Carved(h, a, size)

(* Splits if there is room for another header and some payload.            *)
split_block(h, a, size) ==
    IF h.blk[a].size < size + HEADER + KMALLOC_ALIGN
    THEN h
    ELSE Carved(h, a, size)

(* Fault: the block after the one taken in keeps pointing back to it.      *)
TakenIn_no_prev(h, a, n) ==
    [blk  |-> [x \in DOMAIN h.blk \ {n} |->
                  IF x = a
                  THEN [h.blk[a] EXCEPT !.size = @ + HEADER + h.blk[n].size,
                                        !.next = h.blk[n].next]
                  ELSE h.blk[x]],
     head |-> h.head,
     tail |-> IF h.blk[n].next = 0 THEN a ELSE h.tail]

(* The block at a takes in the block at n, the next one.                   *)
TakenIn(h, a, n) ==
    [blk  |-> [x \in DOMAIN h.blk \ {n} |->
                  IF x = a
                  THEN [h.blk[a] EXCEPT !.size = @ + HEADER + h.blk[n].size,
                                        !.next = h.blk[n].next]
                  ELSE IF x = h.blk[n].next THEN [h.blk[x] EXCEPT !.prev = a]
                  ELSE h.blk[x]],
     head |-> h.head,
     tail |-> IF h.blk[n].next = 0 THEN a ELSE h.tail]

(* Fault: neighbours in the list are merged wherever they are.             *)
merge_any_neighbour(h, a) ==
    LET n == h.blk[a].next
    IN  IF n = 0 \/ ~h.blk[n].free THEN h ELSE TakenIn(h, a, n)

(* Only a free block that starts where the one at a ends, which may be at  *)
(* the start of another page.                                              *)
merge_with_next(h, a) ==
    LET n == h.blk[a].next
    IN  IF n = 0 \/ ~h.blk[n].free \/ ~block_adjacent(h, a, n)
        THEN h
        ELSE TakenIn(h, a, n)

(* The blocks in the order of the list: the k-th from heap_head on.        *)
Nth(h) ==
    LET f[k \in Nat] == IF k = 0 THEN h.head
                        ELSE IF f[k - 1] \in DOMAIN h.blk
                        THEN h.blk[f[k - 1]].next
                        ELSE 0
    IN  f

Listed(h) == 0..(Cardinality(DOMAIN h.blk) - 1)

(* Where the scan of kmalloc() stops.                                      *)
Fits(h, size) == {k \in Listed(h) : /\ Nth(h)[k] \in DOMAIN h.blk
                                    /\ h.blk[Nth(h)[k]].free
                                    /\ h.blk[Nth(h)[k]].size >= size}

(* Fault: the size is not rounded up.                                      *)
Use_unaligned(h, size, a) ==
    LET s == split_block(h, a, size) IN [s EXCEPT !.blk[a].free = FALSE]

(* The first block that fits is split and used.                            *)
Use(h, size, a) ==
    LET s == split_block(h, a, align_up(size, KMALLOC_ALIGN))
    IN  [s EXCEPT !.blk[a].free = FALSE]

Legal(size) == size # 0 /\ align_up(size, KMALLOC_ALIGN) <= Max_size

(* kmalloc() uses the block at a of h.                                     *)
Returns(h, size, a) ==
    /\ heap' = Use(h, size, a)
    /\ live' = With(live, a + HEADER, size)
    /\ UNCHANGED stopped

kmalloc(size) ==
    /\ ~stopped /\ Ready /\ Legal(size)
    /\ LET K == Fits(heap, align_up(size, KMALLOC_ALIGN))
       IN  /\ K # {}
           /\ Returns(heap, size, Nth(heap)[Min(K)])
    /\ UNCHANGED <<pageVars, grown>>

(* kmalloc() finds nothing, takes a page and scans the list again.         *)
kmalloc_grows(size) ==
    /\ ~stopped /\ Legal(size) /\ Cardinality(grown) < MaxGrown
    /\ Fits(heap, align_up(size, KMALLOC_ALIGN)) = {}
    /\ \E p \in Page :
           LET h == heap_grow(heap, p)
               K == Fits(h, align_up(size, KMALLOC_ALIGN))
           IN  /\ page_alloc(p)
               /\ grown' = grown \union {p}
               /\ Returns(h, size, Nth(h)[Min(K)])

(* Fault: the block before is not looked at.                               *)
Freed_forward(h, a) == merge_with_next([h EXCEPT !.blk[a].free = TRUE], a)

(* Fault: the block before takes it in even if it is in use.               *)
Freed_into_any(h, a) ==
    LET g == merge_with_next([h EXCEPT !.blk[a].free = TRUE], a)
        p == g.blk[a].prev
    IN  IF p # 0 THEN merge_with_next(g, p) ELSE g

(* The heap once the block at a is freed and merged with its neighbours.   *)
Freed(h, a) ==
    LET g == merge_with_next([h EXCEPT !.blk[a].free = TRUE], a)
        p == g.blk[a].prev
    IN  IF p # 0 /\ g.blk[p].free THEN merge_with_next(g, p) ELSE g

kfree(ptr) ==
    LET a == ptr - HEADER
        asserted == a \in DOMAIN heap.blk /\ ~heap.blk[a].free
    IN  /\ ~stopped
        /\ ptr \in DOMAIN live
        /\ IF asserted THEN heap' = Freed(heap, a) ELSE UNCHANGED heap
        /\ stopped' = ~asserted
        /\ live' = [q \in DOMAIN live \ {ptr} |-> live[q]]
        /\ UNCHANGED <<pageVars, grown>>

(* The rest of the kernel takes pages, writes to them and returns them;    *)
(* the heap writes to its pages and keeps them.                            *)
PageUser ==
    /\ \/ page_init_range
       \/ \E p \in Page : \/ page_alloc(p)
                          \/ p \notin grown /\ GiveBack(p)
                          \/ HolderWrites(p)
    /\ ~stopped
    /\ UNCHANGED <<heap, grown, live, stopped>>

Init ==
    /\ PageInit
    /\ heap = [blk |-> [a \in {} |-> 0], head |-> 0, tail |-> 0]
    /\ grown = {}
    /\ live = [ptr \in {} |-> 0]
    /\ stopped = FALSE

Next ==
    \/ \E size \in Request : kmalloc(size) \/ kmalloc_grows(size)
    \/ \E ptr \in DOMAIN live : kfree(ptr)
    \/ PageUser

Spec == Init /\ [][Next]_vars

-----------------------------------------------------------------------------
Block == DOMAIN heap.blk

TypeOK ==
    /\ PageTypeOK
    /\ DOMAIN heap = {"blk", "head", "tail"}
    /\ \A a \in Block : heap.blk[a] \in [size : Nat, free : BOOLEAN,
                                         prev : Block \union {0},
                                         next : Block \union {0}]
    /\ heap.head \in Block \union {0} /\ heap.tail \in Block \union {0}
    /\ grown \subseteq held
    /\ \A ptr \in DOMAIN live : live[ptr] \in Request
    /\ stopped \in BOOLEAN

Bytes(a) == a..(EndOf(heap, a) - 1)

(* After any sequence of splits and merges, also across pages, each byte   *)
(* of the heap's pages belongs to exactly one block, header included, and  *)
(* no block reaches into a page of anyone else.                            *)
HeapTiled ==
    /\ \A a, b \in Block : a # b => Bytes(a) \intersect Bytes(b) = {}
    /\ UNION {Bytes(a) : a \in Block}
           = UNION {p..(p + PAGE_SIZE - 1) : p \in grown}

(* The list goes from heap_head to heap_tail through every block once, and *)
(* prev is the way back: split_block() and merge_with_next() mend all of   *)
(* the links around the block they make or take out.                       *)
HeapListIntact ==
    /\ {Nth(heap)[k] : k \in Listed(heap)} = Block
    /\ Block = {} => heap.head = 0 /\ heap.tail = 0
    /\ Block # {} => /\ heap.blk[heap.head].prev = 0
                     /\ heap.blk[heap.tail].next = 0
    /\ \A a \in Block : heap.blk[a].next # 0
                            => heap.blk[heap.blk[a].next].prev = a

(* kfree() leaves no free block next to a free one it could be merged      *)
(* with, and no sequence of kmalloc() and kfree() brings such a pair about,*)
(* although heap_grow() never merges.                                      *)
Coalesced ==
    \A a \in Block :
        ~ /\ heap.blk[a].free
          /\ heap.blk[a].next # 0
          /\ heap.blk[heap.blk[a].next].free
          /\ block_adjacent(heap, a, heap.blk[a].next)

(* Every pointer that kmalloc() returned and nobody freed is aligned, is   *)
(* the payload of a block in use with the bytes that were asked for, so    *)
(* the assertions of kfree() hold, and every block in use has an owner.    *)
LiveInside ==
    /\ ~stopped
    /\ \A ptr \in DOMAIN live :
           /\ ptr % KMALLOC_ALIGN = 0
           /\ ptr - HEADER \in Block
           /\ ~heap.blk[ptr - HEADER].free
           /\ heap.blk[ptr - HEADER].size >= live[ptr]
    /\ \A a \in Block : ~heap.blk[a].free => a + HEADER \in DOMAIN live

(* A block in use is never moved or resized by what happens around it.     *)
AllocationsStable ==
    [][\A ptr \in DOMAIN live \intersect DOMAIN live' :
           /\ ptr - HEADER \in DOMAIN heap'.blk
           /\ heap'.blk[ptr - HEADER].size = heap.blk[ptr - HEADER].size]_vars
=============================================================================
