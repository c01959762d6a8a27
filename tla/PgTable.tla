------------------------------ MODULE PgTable -------------------------------
(***************************************************************************)
(* Three-level page tables: kernel/pgtable.c and include/kernel/pgtable.h. *)
(*                                                                         *)
(* A table is a page of the page allocator; which of the free ones it gets *)
(* is a parameter, as the code does not look at it.  pgtable_map() and     *)
(* pgtable_unmap() advance one virtual page at a time; memory may run out  *)
(* at each.                                                                *)
(***************************************************************************)
EXTENDS Integers, FiniteSets

CONSTANTS
    Page,           \* the pages there are for tables
    page_alloc(_),  \* the one of the free pages S that page_alloc returns
    PTRS_PER_PT,
    PAGE_SIZE,
    MAXVA,
    Calls,          \* the arguments of pgtable_map(): va, size, pa, flags
    NULL

(* Flags of an entry; A, D and G make no difference to the code.           *)
RWX == {"R", "W", "X"}

ASSUME PgTableAssumption ==
    /\ NULL \notin Page
    /\ \A S \in SUBSET Page : S # {} => page_alloc(S) \in S
    /\ PTRS_PER_PT \in Nat \ {0} /\ PAGE_SIZE \in Nat \ {0}
    /\ MAXVA \in Nat /\ MAXVA % PAGE_SIZE = 0
    /\ MAXVA <= PTRS_PER_PT * PTRS_PER_PT * PTRS_PER_PT * PAGE_SIZE
    /\ \A c \in Calls : /\ c.va \in Nat /\ c.size \in Nat \ {0}
                        /\ c.va + c.size <= MAXVA
                        /\ c.pa \in Nat /\ c.pa % PAGE_SIZE = 0
                        /\ c.flags \subseteq RWX \union {"U"}
                        /\ c.flags \intersect RWX # {}

Idx == 0..(PTRS_PER_PT - 1)

align_down(a) == (a \div PAGE_SIZE) * PAGE_SIZE
align_up(a)   == align_down(a + PAGE_SIZE - 1)

VARIABLES
    tab,        \* what the pages hold, read as tables
    free,       \* how often a page is on the free list
    roots,      \* the page tables there are
    op,         \* the pgtable_map() or pgtable_unmap() under way
    stopped     \* an assertion has failed

vars == <<tab, free, roots, op, stopped>>

(* Entries.                                                                *)
mk_pte(pa, flags) == [pa |-> pa, flags |-> flags]
pte_zero          == mk_pte(0, {})
pte_present(e)    == "V" \in e.flags
pte_leaf(e)       == e.flags \intersect RWX # {}

(* What is left in a page that was not cleared: here, entries that look    *)
(* like leaves.                                                            *)
Junk == [i \in Idx |-> mk_pte(0, {"V", "R"})]

vpn_index(level, va) ==
    LET v == va \div PAGE_SIZE
    IN  (CASE level = 0 -> v
           [] level = 1 -> v \div PTRS_PER_PT
           [] level = 2 -> (v \div PTRS_PER_PT) \div PTRS_PER_PT) % PTRS_PER_PT

NoOp == [kind |-> "none", root |-> NULL, va |-> 0, size |-> 0, addr |-> 0,
         pa |-> 0, flags |-> {}]

-----------------------------------------------------------------------------
(* A walk: the table it is at, NULL if it has failed, whether its          *)
(* assertions held, and the memory.                                        *)

Available(f) == {p \in Page : f[p] > 0}

(* Fault: the page is not cleared.                                         *)
Created_dirty(w) ==
    LET p == page_alloc(Available(w.free))
    IN  [w EXCEPT !.table = p, !.free[p] = @ - 1]

(* pgtable_create()                                                        *)
Created(w) ==
    LET p == page_alloc(Available(w.free))
    IN  [w EXCEPT !.table = p, !.free[p] = @ - 1,
                  !.tab[p] = [i \in Idx |-> pte_zero]]

(* Fault: the page of a new table stays on the free list.                  *)
Descend_shared(w, i, alloc) ==
    IF w.table = NULL THEN w
    ELSE IF pte_present(w.tab[w.table][i])
    THEN IF pte_leaf(w.tab[w.table][i])
         THEN [w EXCEPT !.ok = FALSE, !.table = NULL]
         ELSE [w EXCEPT !.table = w.tab[w.table][i].pa]
    ELSE IF ~alloc \/ Available(w.free) = {} THEN [w EXCEPT !.table = NULL]
    ELSE LET c == Created(w)
         IN  [c EXCEPT !.tab[w.table][i] = mk_pte(c.table, {"V"}),
                       !.free = w.free]

(* One level of pgtable_walk(): to the table that entry i refers to, which *)
(* is made if alloc is set.                                                *)
Descend(w, i, alloc) ==
    IF w.table = NULL THEN w
    ELSE IF pte_present(w.tab[w.table][i])
    THEN IF pte_leaf(w.tab[w.table][i])
         THEN [w EXCEPT !.ok = FALSE, !.table = NULL]
         ELSE [w EXCEPT !.table = w.tab[w.table][i].pa]
    ELSE IF ~alloc \/ Available(w.free) = {} THEN [w EXCEPT !.table = NULL]
    ELSE LET c == Created(w)
         IN  [c EXCEPT !.tab[w.table][i] = mk_pte(c.table, {"V"})]

(* The leaf table of va; the entry is number vpn_index(0, va) in it.       *)
pgtable_walk(root, va, alloc) ==
    LET w == [tab |-> tab, free |-> free, table |-> root, ok |-> va < MAXVA]
    IN  Descend(Descend(w, vpn_index(2, va), alloc), vpn_index(1, va), alloc)

-----------------------------------------------------------------------------
Init ==
    /\ tab = [p \in Page |-> Junk]
    /\ free = [p \in Page |-> 1]
    /\ roots = {}
    /\ op = NoOp
    /\ stopped = FALSE

pgtable_create ==
    /\ ~stopped /\ op = NoOp
    /\ Available(free) # {}
    /\ LET c == Created([tab |-> tab, free |-> free, table |-> NULL])
       IN  /\ tab' = c.tab
           /\ free' = c.free
           /\ roots' = roots \union {c.table}
    /\ UNCHANGED <<op, stopped>>

(* The end of a range, its pages, and whether an operation is at the end.  *)
EndOf(c)   == align_up(c.va + c.size)
PagesOf(c) == {a \in align_down(c.va)..(EndOf(c) - 1) : a % PAGE_SIZE = 0}
AtEnd      == op.addr >= EndOf(op)

CallMap(root, c) ==
    /\ ~stopped /\ op = NoOp
    /\ op' = [kind |-> "map", root |-> root, va |-> c.va, size |-> c.size,
              addr |-> align_down(c.va), pa |-> c.pa, flags |-> c.flags]
    /\ UNCHANGED <<tab, free, roots, stopped>>

(* Fault: pa stays where it is.                                            *)
Advance_same_pa == op' = [op EXCEPT !.addr = @ + PAGE_SIZE]

Advance == op' = [op EXCEPT !.addr = @ + PAGE_SIZE, !.pa = @ + PAGE_SIZE]

(* Fault: an entry that is there is replaced.                              *)
Occupied_never(w, i) == w.table = NULL

(* pgtable_map() gives up: no table, or the page is mapped already.        *)
Occupied(w, i) == w.table = NULL \/ pte_present(w.tab[w.table][i])

(* One iteration of pgtable_map().  If it fails, what is mapped so far     *)
(* stays, and so do the tables made on the way.                            *)
pgtable_map ==
    /\ ~stopped /\ op.kind = "map" /\ ~AtEnd
    /\ LET w == pgtable_walk(op.root, op.addr, TRUE)
           i == vpn_index(0, op.addr)
       IN  IF ~w.ok THEN stopped' = TRUE /\ UNCHANGED <<tab, free, op>>
           ELSE /\ free' = w.free
                /\ stopped' = FALSE
                /\ IF Occupied(w, i)
                   THEN tab' = w.tab /\ op' = NoOp
                   ELSE /\ tab' = [w.tab EXCEPT ![w.table][i] =
                                       mk_pte(op.pa, op.flags \union {"V"})]
                        /\ Advance
    /\ UNCHANGED roots

Mapped(root, a) ==
    LET w == pgtable_walk(root, a, FALSE)
    IN  w.table # NULL /\ pte_present(w.tab[w.table][vpn_index(0, a)])

(* Callers unmap what is mapped.                                           *)
CallUnmap(root, c) ==
    /\ ~stopped /\ op = NoOp
    /\ \A a \in PagesOf(c) : Mapped(root, a)
    /\ op' = [NoOp EXCEPT !.kind = "unmap", !.root = root, !.va = c.va,
                          !.size = c.size, !.addr = align_down(c.va)]
    /\ UNCHANGED <<tab, free, roots, stopped>>

(* One iteration of pgtable_unmap(); the tables stay.                      *)
pgtable_unmap ==
    /\ ~stopped /\ op.kind = "unmap" /\ ~AtEnd
    /\ LET w == pgtable_walk(op.root, op.addr, FALSE)
           i == vpn_index(0, op.addr)
           asserted == /\ w.ok /\ w.table # NULL
                       /\ pte_present(w.tab[w.table][i])
                       /\ pte_leaf(w.tab[w.table][i])
       IN  /\ stopped' = ~asserted
           /\ IF asserted
              THEN /\ tab' = [tab EXCEPT ![w.table][i] = pte_zero]
                   /\ op' = [op EXCEPT !.addr = @ + PAGE_SIZE]
              ELSE UNCHANGED <<tab, op>>
    /\ UNCHANGED <<free, roots>>

Return ==
    /\ ~stopped /\ op # NoOp /\ AtEnd
    /\ op' = NoOp
    /\ UNCHANGED <<tab, free, roots, stopped>>

(* The tables that the tables of S refer to.                               *)
Below(S) == {e.pa : e \in {f \in {tab[t][i] : t \in S, i \in Idx} :
                               pte_present(f) /\ ~pte_leaf(f)}}

(* Fault: the tables of the last level are forgotten.                      *)
Walked_two_levels(root) == {root} \union Below({root})

(* The tables that pgtable_free_walk() comes to.                           *)
Walked(root) == {root} \union Below({root}) \union Below(Below({root}))

(* Leaves are only cleared: the pages they map are their owner's.          *)
pgtable_free_walk(root) ==
    /\ ~stopped /\ op = NoOp
    /\ free' = [p \in Page |-> IF p \in Walked(root) THEN free[p] + 1
                               ELSE free[p]]
    /\ tab' = [p \in Page |-> IF p \in Walked(root) THEN Junk ELSE tab[p]]
    /\ roots' = roots \ {root}
    /\ UNCHANGED <<op, stopped>>

Next ==
    \/ pgtable_create
    \/ \E root \in roots :
           \/ \E c \in Calls : CallMap(root, c) \/ CallUnmap(root, c)
           \/ pgtable_free_walk(root)
    \/ pgtable_map \/ pgtable_unmap \/ Return

Spec == Init /\ [][Next]_vars

-----------------------------------------------------------------------------
Flags == SUBSET ({"V", "U"} \union RWX)
Pte   == [pa : Nat \union Page, flags : Flags]

TypeOK ==
    /\ tab \in [Page -> [Idx -> Pte]]
    /\ free \in [Page -> 0..1]
    /\ roots \subseteq Page
    /\ op.kind \in {"none", "map", "unmap"}
    /\ op.root \in roots \union {NULL}
    /\ op.addr \in 0..MAXVA
    /\ stopped \in BOOLEAN

(* The entries, of the tables there are, that refer to a table.            *)
Tables   == roots \union Below(roots) \union Below(Below(roots))
TableRef == {x \in Tables \X Idx : LET e == tab[x[1]][x[2]]
                                   IN  pte_present(e) /\ ~pte_leaf(e)}

(* Every page is free once, the root of one page table, or referred to by  *)
(* one entry of one of them: no table is lost when pgtable_map() fails     *)
(* after making some, none is shared, and pgtable_free_walk() returns all. *)
TablesHaveOneUse ==
    LET refs == TableRef
    IN  \A p \in Page :
            free[p] + Cardinality(roots \intersect {p})
                + Cardinality({x \in refs : tab[x[1]][x[2]].pa = p}) = 1

(* The assertions of pgtable_walk() and pgtable_unmap() hold: no entry     *)
(* above the last level is ever a leaf, no address is out of range.        *)
AssertsHold == ~stopped

(* What the hart finds for a virtual page: three lookups.                  *)
Translated(root, v) ==
    LET va == v * PAGE_SIZE
        e2 == tab[root][vpn_index(2, va)]
        e1 == tab[e2.pa][vpn_index(1, va)]
    IN  IF pte_present(e2) /\ pte_present(e1)
        THEN tab[e1.pa][vpn_index(0, va)]
        ELSE pte_zero

(* When pgtable_map() returns 0, each page of the range is mapped to the   *)
(* page at the same distance from pa, with the flags asked for, also when  *)
(* the range starts or ends within a page or crosses into other tables.    *)
MapsRange ==
    [][op.kind = "map" /\ AtEnd /\ op' = NoOp =>
           \A a \in PagesOf(op) :
               Translated(op.root, a \div PAGE_SIZE) =
                   mk_pte(op.pa - (op.addr - a), op.flags \union {"V"})]_vars

-----------------------------------------------------------------------------
Vpn == 0..(PTRS_PER_PT * PTRS_PER_PT * PTRS_PER_PT - 1)

(* The entries that pgtable_map() can make.                                *)
LeafPte == UNION {{mk_pte(c.pa + a - align_down(c.va), c.flags \union {"V"}) :
                      a \in PagesOf(c)} : c \in Calls}

(* What each page table maps.                                              *)
Space == [r \in roots |-> [v \in Vpn |-> Translated(r, v)]]

AS == INSTANCE AddressSpaces WITH
          Root <- Page, Entry <- LeafPte, NoEntry <- pte_zero, space <- Space

(* Each page table is an address space of its own: a step maps or unmaps   *)
(* one page of one of them, never over a mapping that is there, and adding *)
(* tables, failing halfway and destroying another one change nothing.      *)
ImplementsSpaces == AS!Spec
=============================================================================
