----------------------------- MODULE Processes -----------------------------
(***************************************************************************)
(* What user code may rely on: a process is a pid and a user context, and  *)
(* one process runs at a time.  There is no queue, no task structure, no   *)
(* kernel stack, no trap frame and no page table here; Sched implements    *)
(* this specification (SchedRefines).                                      *)
(***************************************************************************)
EXTENDS Integers

CONSTANTS NoPid     \* the pid of nobody

VARIABLES
    ctx,        \* the context of each live process: a function on pids
    running,    \* the process that runs, NoPid while booting
    last,       \* the last pid given to a process
    up          \* the machine runs

vars == <<ctx, running, last, up>>

Live == DOMAIN ctx

Init ==
    /\ ctx = [p \in {} |-> 0]
    /\ running = NoPid
    /\ last = 0
    /\ up = TRUE

(* ctx with the processes of the set S only.                               *)
Only(S) == [p \in S |-> ctx[p]]

(* The contexts of all processes but those of S stay as they are.          *)
Keeps(S) == \A p \in Live \ S : ctx'[p] = ctx[p]

(* Booting: processes come and go, until the first one runs.               *)
Create ==
    /\ up /\ running = NoPid
    /\ last' = last + 1
    /\ DOMAIN ctx' = Live \union {last + 1}
    /\ Keeps({})
    /\ UNCHANGED <<running, up>>

Destroy ==
    /\ up /\ running = NoPid
    /\ \E p \in Live : ctx' = Only(Live \ {p})
    /\ UNCHANGED <<running, last, up>>

Start ==
    /\ up /\ running = NoPid
    /\ running' \in Live
    /\ DOMAIN ctx' = Live
    /\ Keeps({running'})
    /\ UNCHANGED <<last, up>>

(* The running process computes, or a system call gives it a result: no    *)
(* other process notices.                                                  *)
Compute ==
    /\ up /\ running \in Live
    /\ DOMAIN ctx' = Live
    /\ Keeps({running})
    /\ UNCHANGED <<running, last, up>>

(* Another process runs, with the context it had.  The one that ran keeps  *)
(* its context, or gets the 0 that yield() returns.                        *)
Switch ==
    /\ up /\ running \in Live
    /\ running' \in Live
    /\ ctx' \in {ctx, [ctx EXCEPT ![running].a0 = 0]}
    /\ UNCHANGED <<last, up>>

(* The child has a new pid and the parent's context, except that fork()    *)
(* returns 0 in the child and the child's pid in the parent.               *)
Fork ==
    /\ up /\ running \in Live
    /\ last' = last + 1
    /\ ctx' = [p \in Live \union {last + 1} |->
                 CASE p = last + 1 -> [ctx[running] EXCEPT !.a0 = 0]
                   [] p = running  -> [ctx[running] EXCEPT !.a0 = last + 1]
                   [] OTHER        -> ctx[p]]
    /\ UNCHANGED <<running, up>>

(* A process exits and another one runs; after the last one the machine    *)
(* stops.                                                                  *)
Exit ==
    /\ up /\ running \in Live
    /\ ctx' = Only(Live \ {running})
    /\ \/ running' \in Live \ {running} /\ UNCHANGED up
       \/ Live = {running} /\ running' = NoPid /\ up' = FALSE
    /\ UNCHANGED last

(* The kernel panics, or there is no memory for the first processes.       *)
Panic ==
    /\ up /\ up' = FALSE
    /\ DOMAIN ctx' = Live
    /\ Keeps({running})
    /\ UNCHANGED <<running, last>>

Next == \/ Create \/ Destroy \/ Start \/ Compute \/ Switch \/ Fork \/ Exit
        \/ Panic

Spec == Init /\ [][Next]_vars
=============================================================================
