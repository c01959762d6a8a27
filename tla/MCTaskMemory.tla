---------------------------- MODULE MCTaskMemory ----------------------------
(* Small instances of TaskMemory for TLC.                                  *)
EXTENDS TaskMemory

CONSTANTS t1, t2, t3, t4

Tasks == {t1, t2, t3, t4}

(* A task needs 8 pages, exec 6 and the heap 2.  The smallest machines do  *)
(* not get through kernel_main; the largest has room for three tasks.      *)
AllPages == 1..26
AllSizes == {1..n : n \in 1..26}

(* Which page is allocated does not matter: the lowest.                    *)
Lowest(S) == {p \in S : \A q \in S : p <= q}

FirstFit(S) ==
    LET order == <<t1, t2, t3, t4>>
        Free  == {i \in 1..4 : order[i] \in S}
    IN  IF Free = {} THEN {}
        ELSE {order[CHOOSE i \in Free : \A j \in Free : i <= j]}

(* A program of one page, and one with two segments in one page.           *)
Programs == {<<0>>, <<0, 0>>}
=============================================================================
