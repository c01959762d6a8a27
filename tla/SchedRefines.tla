---------------------------- MODULE SchedRefines ----------------------------
(* Sched implements Processes.                                             *)
EXTENDS Sched

(* The live processes are the runnable tasks, each with the context it     *)
(* would resume with.                                                      *)
LiveTasks == {t \in Task : state[t] \in Runnable}
LivePids  == {pid[t] : t \in LiveTasks}
TaskOf(p) == CHOOSE t \in LiveTasks : pid[t] = p

NoPid   == 0
Ctx     == [p \in LivePids |-> Context(TaskOf(p))]
Running == IF current = NULL THEN NoPid ELSE pid[current]

P == INSTANCE Processes WITH
         ctx     <- Ctx,
         running <- Running,
         last    <- next_pid - 1,
         up      <- ~Halted

(* Every step of the kernel is a step that Processes allows, or changes    *)
(* nothing user code can see: fork() makes exactly one process, whose      *)
(* context is the parent's but for a0; a trap, a switch, reaping, the      *)
(* retry of a read() and the error paths of fork() and exec() leave every  *)
(* other process alone; exit() removes only the one that runs.             *)
Refines == P!Spec
=============================================================================
