----------------------------- MODULE PageAlloc ------------------------------
(***************************************************************************)
(* The page allocator, kernel/page.c, on the intrusive lists of            *)
(* include/kernel/list.h.  The links of a free page are words of the page  *)
(* itself, so whoever holds a page overwrites them.                        *)
(***************************************************************************)
EXTENDS Integers, Sequences, FiniteSets

CONSTANTS
    PAGE_SIZE,
    Start, End,     \* the range given to page_init_range()
    HEAD,           \* the node free_page_list
    JUNK            \* a word that some owner of a page wrote

ASSUME PageAssumption ==
    /\ PAGE_SIZE \in Nat \ {0}
    /\ Start \in Nat \ {0} /\ End \in Nat
    /\ End % PAGE_SIZE = 0
    /\ HEAD \notin Int /\ JUNK \notin Int /\ HEAD # JUNK

align_up(value, align) == ((value + align - 1) \div align) * align

(* The addresses of the whole pages in the range.                          *)
Page == {a \in align_up(Start, PAGE_SIZE)..End :
             a % PAGE_SIZE = 0 /\ a + PAGE_SIZE <= End}
Node == Page \union {HEAD}

VARIABLES
    next, prev,     \* the links of a node
    nr_total_pages,
    nr_free_pages,
    scan,           \* p, the loop variable of page_init_range()
    held,           \* the pages that have been handed out
    order           \* history: the free pages, the last one freed first

pageVars == <<next, prev, nr_total_pages, nr_free_pages, scan, held, order>>

-----------------------------------------------------------------------------
(* The start of page_init_range().                                         *)
PageInit ==
    /\ next = [n \in Node |-> IF n = HEAD THEN HEAD ELSE JUNK]
    /\ prev = [n \in Node |-> IF n = HEAD THEN HEAD ELSE JUNK]
    /\ nr_total_pages = 0
    /\ nr_free_pages = 0
    /\ scan = align_up(Start, PAGE_SIZE)
    /\ held = {}
    /\ order = << >>

(* Fault: the old first node keeps pointing back to the head.              *)
list_add_one_way(node, head) ==
    /\ next' = [next EXCEPT ![node] = next[head], ![head] = node]
    /\ prev' = [prev EXCEPT ![node] = head]

(* list_add() after INIT_LIST_HEAD() of the node.                          *)
list_add(node, head) ==
    /\ next' = [next EXCEPT ![node] = next[head], ![head] = node]
    /\ prev' = [prev EXCEPT ![next[head]] = node, ![node] = head]

(* Fault: only the entry's own links are reset.                            *)
list_del_init_only(entry) ==
    /\ next' = [next EXCEPT ![entry] = entry]
    /\ prev' = [prev EXCEPT ![entry] = entry]

list_del(entry) ==
    /\ next' = [next EXCEPT ![prev[entry]] = next[entry], ![entry] = entry]
    /\ prev' = [prev EXCEPT ![next[entry]] = prev[entry], ![entry] = entry]

list_empty(head) == next[head] = head

page_free(p) ==
    /\ list_add(p, HEAD)
    /\ nr_free_pages' = nr_free_pages + 1
    /\ order' = <<p>> \o order

(* One iteration of the loop of page_init_range().                         *)
page_init_range ==
    /\ scan + PAGE_SIZE <= End
    /\ nr_total_pages' = nr_total_pages + 1
    /\ page_free(scan)
    /\ scan' = scan + PAGE_SIZE
    /\ UNCHANGED held

Ready == scan + PAGE_SIZE > End

(* Fault: the counter is left alone.                                       *)
page_alloc_uncounted(p) ==
    /\ Ready
    /\ ~list_empty(HEAD) /\ p = next[HEAD]
    /\ list_del(p)
    /\ held' = held \union {p}
    /\ order' = Tail(order)
    /\ UNCHANGED <<nr_total_pages, nr_free_pages, scan>>

(* page_alloc() returns p.                                                 *)
page_alloc(p) ==
    /\ Ready
    /\ ~list_empty(HEAD) /\ p = next[HEAD]
    /\ list_del(p)
    /\ nr_free_pages' = nr_free_pages - 1
    /\ held' = held \union {p}
    /\ order' = Tail(order)
    /\ UNCHANGED <<nr_total_pages, scan>>

(* The holder of p gives it back; that it holds p is the callers' part     *)
(* (TaskMemory).                                                           *)
GiveBack(p) ==
    /\ p \in held
    /\ page_free(p)
    /\ held' = held \ {p}
    /\ UNCHANGED <<nr_total_pages, scan>>

(* The holder of p writes to the words that were its links.                *)
HolderWrites(p) ==
    /\ p \in held
    /\ next' = [next EXCEPT ![p] = JUNK]
    /\ prev' = [prev EXCEPT ![p] = JUNK]
    /\ UNCHANGED <<nr_total_pages, nr_free_pages, scan, held, order>>

PageNext ==
    \/ page_init_range
    \/ \E p \in Page : page_alloc(p) \/ GiveBack(p) \/ HolderWrites(p)

PageSpec == PageInit /\ [][PageNext]_pageVars

-----------------------------------------------------------------------------
PageTypeOK ==
    /\ next \in [Node -> Node \union {JUNK}]
    /\ prev \in [Node -> Node \union {JUNK}]
    /\ nr_total_pages \in Nat
    /\ nr_free_pages \in Nat
    /\ scan \in Nat
    /\ held \subseteq Page
    /\ order \in Seq(Page)

(* The i-th node of the circular list.                                     *)
At(i) == IF i \in DOMAIN order THEN order[i] ELSE HEAD

(* Following next from the head visits the free pages, the last one freed  *)
(* first, each once, and comes back to the head; prev is the way back; and *)
(* no page in use is on the way, whatever the holders of pages write.      *)
FreeListIntact ==
    /\ \A i \in 0..Len(order) :
           next[At(i)] = At(i + 1) /\ prev[At(i + 1)] = At(i)
    /\ \A i, j \in DOMAIN order : order[i] = order[j] => i = j
    /\ \A i \in DOMAIN order : order[i] \notin held

(* No page is lost: those that page_init_range() has come to are free or   *)
(* in use, page_free_count() is the number of the free ones and            *)
(* page_used_count() of the others, as page_test() asserts.                *)
PagesAccounted ==
    /\ {order[i] : i \in DOMAIN order} \union held = {p \in Page : p < scan}
    /\ nr_free_pages = Len(order)
    /\ nr_total_pages - nr_free_pages = Cardinality(held)

-----------------------------------------------------------------------------
(* The nodes that next leads to from the head, and the pages among them.   *)
Followed[k \in Nat] == IF k = 0 THEN next[HEAD]
                       ELSE IF Followed[k - 1] \in Page
                       THEN next[Followed[k - 1]]
                       ELSE Followed[k - 1]

FreePages == {Followed[k] : k \in 0..Cardinality(Page)} \intersect Page

Pool == INSTANCE PagePool WITH
            free <- FreePages, used <- held, count <- nr_free_pages

(* The list implements a pool of pages: page_alloc() takes a page that was *)
(* free, page_free() returns one that was in use, page_free_count() is     *)
(* right at every step, and nothing a holder writes changes the pool.      *)
ImplementsPool == Pool!Spec
=============================================================================
