--------------------------- MODULE MCSchedRefines ---------------------------
(* A small instance of SchedRefines for TLC.                               *)
EXTENDS SchedRefines, TLC

CONSTANTS t1, t2, t3

Tasks3    == {t1, t2, t3}
AnyFit(S) == S

(* The slots are interchangeable: kmalloc may use any free one.            *)
TaskSymmetry == Permutations(Task)
=============================================================================
