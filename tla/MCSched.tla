------------------------------ MODULE MCSched ------------------------------
(* Small instances of Sched for TLC.                                       *)
EXTENDS Sched, TLC

CONSTANTS t1, t2, t3

Tasks3 == {t1, t2, t3}

(* kmalloc is first fit; or it may return any free place, which covers     *)
(* every history of the heap.                                              *)
FirstFit(S) ==
    LET order == <<t1, t2, t3>>
        Free  == {i \in 1..3 : order[i] \in S}
    IN  IF Free = {} THEN {}
        ELSE {order[CHOOSE i \in Free : \A j \in Free : i <= j]}
AnyFit(S) == S

(* The slots are interchangeable: kmalloc may use any free one.            *)
TaskSymmetry == Permutations(Task)
=============================================================================
