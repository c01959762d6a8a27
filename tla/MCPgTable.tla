----------------------------- MODULE MCPgTable ------------------------------
(* A small instance of PgTable for TLC: tables of two entries.             *)
EXTENDS PgTable

First(S) == CHOOSE p \in S : \A q \in S : p <= q

KERNEL == {"R", "W", "X"}
USER   == {"R", "W", "X", "U"}

(* Three pages over two leaf tables, from the middle of a page on; three   *)
(* over both halves of the address space; the last one of these, twice.    *)
SomeCalls == {[va |-> 1, size |-> 4, pa |-> 100, flags |-> KERNEL],
              [va |-> 5, size |-> 5, pa |-> 200, flags |-> USER],
              [va |-> 8, size |-> 2, pa |-> 100, flags |-> USER],
              [va |-> 8, size |-> 2, pa |-> 300, flags |-> KERNEL]}
=============================================================================
