----------------------------- MODULE MCKmalloc ------------------------------
(* A small instance of Kmalloc for TLC: pages that hold up to three blocks.*)
EXTENDS Kmalloc
=============================================================================
