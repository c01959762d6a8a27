------------------------------ MODULE PagePool ------------------------------
(* What the users of the page allocator rely on: a pool of pages, each of  *)
(* them free or in use, and a count of those that are free.                *)
EXTENDS Integers, FiniteSets

CONSTANT Page

VARIABLES free, used, count

Init == free = {} /\ used = {} /\ count = 0

(* A page joins the pool when the allocator is set up.                     *)
Join(p) == /\ p \notin free \union used
           /\ free' = free \union {p}
           /\ count' = count + 1
           /\ UNCHANGED used

Alloc(p) == /\ p \in free
            /\ free' = free \ {p}
            /\ used' = used \union {p}
            /\ count' = count - 1

Free(p) == /\ p \in used
           /\ free' = free \union {p}
           /\ used' = used \ {p}
           /\ count' = count + 1

Next == \E p \in Page : Join(p) \/ Alloc(p) \/ Free(p)

Spec == Init /\ [][Next]_<<free, used, count>>
=============================================================================
