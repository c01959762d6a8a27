------------------------------- MODULE Sched -------------------------------
(***************************************************************************)
(* The task life cycle, the scheduler and the trap path of KuroOS:         *)
(* kernel/task.c, kernel/syscall.c, kernel/trap.c, kernel/timer.c,         *)
(* kernel/user.c and the assembly in arch/riscv.                           *)
(*                                                                         *)
(* There is one hart and S-mode never enables interrupts, so a trap        *)
(* handler runs to completion: trap entry, handler and trap return are one *)
(* action.  Three handlers are split in two or more steps, because other   *)
(* state changes while they run: fork and task creation (memory is         *)
(* allocated page by page), exec (likewise), and read (the handler polls   *)
(* the UART, which keeps receiving).  The timer and the UART are the other *)
(* actors.                                                                 *)
(*                                                                         *)
(* A `struct task' is identified with its slot in Task, and so are the     *)
(* task's kernel stack and its page table, which live as long as it does.  *)
(***************************************************************************)
EXTENDS Integers, Sequences, FiniteSets, SequencesExt

CONSTANTS
    Task,       \* the places kmalloc can put a struct task at
    kmalloc(_), \* those of the free places S that it may return
    NULL,       \* the null pointer; as satp, kernel_pagetable
    MaxPid,     \* bound: the last pid handed out
    UserVal,    \* the values user code computes into a0
    ReadLen,    \* the buffer lengths user code passes to read()
    RxCap       \* bound: bytes the UART holds for the kernel

ASSUME SchedAssumption ==
    /\ NULL \notin Task
    /\ \A S \in SUBSET Task : kmalloc(S) \subseteq S
    /\ MaxPid \in Nat
    /\ UserVal \subseteq Int
    /\ ReadLen \subseteq Nat
    /\ RxCap \in Nat

VARIABLES
    mode,               \* what the hart is doing, one of Mode
    boot,               \* the step of kernel_main that comes next
    init,               \* the local of task_create_user_test() and user_init()
    state,              \* task->state; "FREE" where there is no struct task
    pid,                \* task->pid
    tf,                 \* task->tf: whose kernel stack holds the frame
    frame,              \* the trap frame on a task's kernel stack
    run_queue,          \* the run_queue list
    all_tasks,          \* the members of the all_tasks list
    nr_runnable_tasks,
    current,
    next_pid,
    satp,               \* whose page table translates
    sscratch,           \* whose kernel stack the next trap, or this one, uses
    regs,               \* the user registers in the hart
    timer,              \* "off", "armed" or "pending"
    rx,                 \* bytes received and not yet read
    rd,                 \* i and len, the locals of the running sys_read()
    child               \* the task under construction in fork or creation

sched == <<state, pid, tf, frame, run_queue, all_tasks, nr_runnable_tasks,
           current, next_pid, satp, sscratch, regs>>
vars  == <<mode, boot, init, sched, timer, rx, rd, child>>

Mode  == {"boot", "create", "user", "fork", "exec", "read",
          "off", "panic", "assert"}
State == {"FREE", "UNUSED", "READY", "RUNNING", "ZOMBIE"}

(* The user context.  sepc is "read" while the next instruction is the     *)
(* ecall of a read(), "code" anywhere else; a0 is an argument or a result. *)
Regs  == [sepc : {"code", "read"}, a0 : Int]
Zero  == [sepc |-> "code", a0 |-> 0]

(* What sys_read tells apart: line ends, erasing, and the rest.            *)
Char  == {"newline", "backspace", "other"}

Idle  == [i |-> 0, len |-> 0]

(* The steps of kernel_main from task_create_user_test() on.               *)
CREATE_TEST  == 0
DESTROY_TEST == 1
TIMER_INIT   == 2
CREATE_INIT  == 3
CREATE_DEMO  == 4
ENTER_USER   == 5
BOOTED       == 6

Runnable == {"READY", "RUNNING"}

-----------------------------------------------------------------------------
(* Lists and the choice of the next task.                                  *)

(* Where t is on the list q.                                               *)
Pos(q, t) == CHOOSE i \in 1..Len(q) : q[i] = t

(* Fault: unlinks the first member instead of t.                           *)
list_del_first(q, t) == Tail(q)

list_del(q, t) == RemoveAt(q, Pos(q, t))

list_add_tail(q, t) == Append(q, t)

(* The number of steps a scan that starts after position i of a circular   *)
(* list of n members takes to get to position j; i = 0 is the list head.   *)
Distance(n, i, j) == IF j > i THEN j - i ELSE n - i + j

(* Fault: the scan is one member short.                                    *)
task_pick_next_short(q, n, st, cur) ==
    LET from  == IF cur = NULL THEN 0 ELSE Pos(q, cur)
        Dist(j) == Distance(Len(q), from, j)
        Found == {j \in 1..Len(q) : st[q[j]] \in Runnable /\ Dist(j) < n}
    IN  IF Found = {} THEN NULL
        ELSE q[CHOOSE j \in Found : \A k \in Found : Dist(j) <= Dist(k)]

(* Fault: the scan always starts at the head of the list.                  *)
task_pick_next_head(q, n, st, cur) ==
    LET Found == {j \in 1..Len(q) : st[q[j]] \in Runnable /\ j <= n}
    IN  IF Found = {} THEN NULL
        ELSE q[CHOOSE j \in Found : \A k \in Found : j <= k]

(* Fault: the scan goes backwards.                                         *)
task_pick_next_back(q, n, st, cur) ==
    LET from  == IF cur = NULL THEN 0 ELSE Pos(q, cur)
        Dist(j) == Distance(Len(q), j, from)
        Found == {j \in 1..Len(q) : st[q[j]] \in Runnable /\ Dist(j) <= n}
    IN  IF Found = {} THEN NULL
        ELSE q[CHOOSE j \in Found : \A k \in Found : Dist(j) <= Dist(k)]

(* Scan at most n members of q from the one after cur, or from the head.   *)
task_pick_next(q, n, st, cur) ==
    LET from  == IF cur = NULL THEN 0 ELSE Pos(q, cur)
        Dist(j) == Distance(Len(q), from, j)
        Found == {j \in 1..Len(q) : /\ st[q[j]] \in Runnable
                                    /\ Dist(j) <= n}
    IN  IF Found = {} THEN NULL
        ELSE q[CHOOSE j \in Found : \A k \in Found : Dist(j) <= Dist(k)]

(* f with the entries of the tasks in D back to the value of a free slot.  *)
Freed(f, D, v) == [t \in Task |-> IF t \in D THEN v ELSE f[t]]

(* Faults: every task that is not READY is reaped, the current one too; or *)
(* the test for the current task is inverted.                              *)
Reaped_current(st) == {t \in all_tasks : st[t] # "READY"}
Reaped_inverted(st) == {t \in all_tasks : st[t] = "ZOMBIE" /\ t = current}

(* The tasks task_reap_zombies() frees when the states are st.             *)
Reaped(st) == {t \in all_tasks : st[t] = "ZOMBIE" /\ t # current}

-----------------------------------------------------------------------------
(* Booting: kernel_main() from task_create_user_test() on.                 *)

Init ==
    /\ mode = "boot"
    /\ boot = CREATE_TEST
    /\ init = NULL
    /\ state = [t \in Task |-> "FREE"]
    /\ pid = [t \in Task |-> 0]
    /\ tf = [t \in Task |-> NULL]
    /\ frame = [t \in Task |-> Zero]
    /\ run_queue = << >>
    /\ all_tasks = {}
    /\ nr_runnable_tasks = 0
    /\ current = NULL
    /\ next_pid = 1
    /\ satp = NULL
    /\ sscratch = NULL
    /\ regs = Zero
    /\ timer = "off"
    /\ rx = << >>
    /\ rd = Idle
    /\ child = NULL

(* task_reap_zombies(), then task_alloc(): a struct task in state UNUSED,  *)
(* or none (c = NULL) because kmalloc failed.  f holds the trap frames.    *)
ReapAndAlloc(f, c) ==
    LET D  == Reaped(state)
        st == Freed(state, D, "FREE")
    IN  /\ c \in kmalloc({t \in Task : st[t] = "FREE"}) \union {NULL}
        /\ state' = IF c = NULL THEN st ELSE [st EXCEPT ![c] = "UNUSED"]
        /\ pid' = Freed(pid, D, 0)
        /\ tf' = Freed(tf, D, NULL)
        /\ frame' = Freed(f, D, Zero)
        /\ all_tasks' = all_tasks \ D
        /\ child' = c

(* Fault: next_pid is not incremented.                                     *)
Publish_same_pid(c) ==
    /\ pid' = [pid EXCEPT ![c] = next_pid]
    /\ state' = [state EXCEPT ![c] = "READY"]
    /\ tf' = [tf EXCEPT ![c] = c]
    /\ all_tasks' = all_tasks \union {c}
    /\ run_queue' = list_add_tail(run_queue, c)
    /\ nr_runnable_tasks' = nr_runnable_tasks + 1
    /\ child' = NULL
    /\ UNCHANGED next_pid

(* The end of task_create_user() and of task_fork(): the new task c gets a *)
(* pid and a frame on its own kernel stack, and joins both lists.          *)
Publish(c) ==
    /\ pid' = [pid EXCEPT ![c] = next_pid]
    /\ next_pid' = next_pid + 1
    /\ state' = [state EXCEPT ![c] = "READY"]
    /\ tf' = [tf EXCEPT ![c] = c]
    /\ all_tasks' = all_tasks \union {c}
    /\ run_queue' = list_add_tail(run_queue, c)
    /\ nr_runnable_tasks' = nr_runnable_tasks + 1
    /\ child' = NULL

(* Fault: the struct task is not freed.                                    *)
Discard_leaks(c) == child' = NULL /\ UNCHANGED state

(* The error paths: kfree() of the struct, which is on no list yet.        *)
Discard(c) ==
    /\ state' = IF c = NULL THEN state ELSE [state EXCEPT ![c] = "FREE"]
    /\ child' = NULL

BootCreate ==
    /\ mode = "boot"
    /\ boot \in {CREATE_TEST, CREATE_INIT, CREATE_DEMO}
    /\ \E c \in Task \union {NULL} : ReapAndAlloc(frame, c)
    /\ mode' = "create"
    /\ UNCHANGED <<boot, init, run_queue, nr_runnable_tasks, current,
                   next_pid, satp, sscratch, regs, timer, rx, rd>>

(* task_create_user() succeeds: task_init_frame() zeroes the frame.        *)
task_create_user ==
    /\ mode = "create"
    /\ child # NULL
    /\ next_pid <= MaxPid
    /\ Publish(child)
    /\ frame' = [frame EXCEPT ![child] = Zero]
    /\ init' = IF boot = CREATE_DEMO THEN init ELSE child
    /\ boot' = boot + 1
    /\ mode' = "boot"
    /\ UNCHANGED <<current, satp, sscratch, regs, timer, rx, rd>>

(* It returns 0, which task_create_user_test() and user_init() assert      *)
(* against: user_init() only once it has tried to create both its tasks.   *)
task_create_user_fails ==
    /\ mode = "create"
    /\ Discard(child)
    /\ init' = IF boot = CREATE_DEMO THEN init ELSE NULL
    /\ boot' = IF boot = CREATE_INIT THEN CREATE_DEMO ELSE boot
    /\ mode' = IF boot = CREATE_INIT THEN "boot" ELSE "assert"
    /\ UNCHANGED <<pid, tf, frame, run_queue, all_tasks, nr_runnable_tasks,
                   current, next_pid, satp, sscratch, regs, timer, rx, rd>>

task_destroy ==
    /\ mode = "boot"
    /\ boot = DESTROY_TEST
    /\ mode' = IF init # NULL /\ init # current /\ nr_runnable_tasks > 0
               THEN "boot" ELSE "assert"
    /\ all_tasks' = all_tasks \ {init}
    /\ run_queue' = list_del(run_queue, init)
    /\ nr_runnable_tasks' = nr_runnable_tasks - 1
    /\ state' = [state EXCEPT ![init] = "FREE"]
    /\ pid' = [pid EXCEPT ![init] = 0]
    /\ tf' = [tf EXCEPT ![init] = NULL]
    /\ init' = NULL
    /\ boot' = TIMER_INIT
    /\ UNCHANGED <<frame, current, next_pid, satp, sscratch, regs, timer,
                   rx, rd, child>>

timer_init ==
    /\ mode = "boot"
    /\ boot = TIMER_INIT
    /\ timer' = "armed"
    /\ boot' = CREATE_INIT
    /\ UNCHANGED <<mode, init, sched, rx, rd, child>>

(* user_init() has its second task and not its first.                      *)
user_init_asserts ==
    /\ mode = "boot"
    /\ boot = ENTER_USER
    /\ init = NULL
    /\ mode' = "assert"
    /\ UNCHANGED <<boot, init, sched, timer, rx, rd, child>>

(* The end of user_init(): task_set_current(init) and enter_user(), which  *)
(* starts the task without restoring its frame: a0 is what the kernel left *)
(* in it.                                                                  *)
user_init ==
    /\ mode = "boot"
    /\ boot = ENTER_USER
    /\ init # NULL
    /\ current' = init
    /\ state' = [state EXCEPT ![init] = "RUNNING"]
    /\ satp' = init
    /\ sscratch' = init
    /\ \E v \in UserVal : regs' = [sepc |-> "code", a0 |-> v]
    /\ init' = NULL
    /\ boot' = BOOTED
    /\ mode' = "user"
    /\ UNCHANGED <<pid, tf, frame, run_queue, all_tasks, nr_runnable_tasks,
                   next_pid, timer, rx, rd, child>>

-----------------------------------------------------------------------------
(* Traps.                                                                  *)

(* The frames once trap_entry has saved the user registers; what the       *)
(* registers hold while the kernel runs is of no interest (regs is Zero),  *)
(* nor is a frame once it is restored.                                     *)
Trapped == [frame EXCEPT ![sscratch] = regs]

(* Faults: sscratch keeps the stack the trap came in on; or the registers  *)
(* are not restored.                                                       *)
trap_return_same_stack(f, p) ==
    /\ frame' = [f EXCEPT ![p] = Zero]
    /\ regs' = f[p]
    /\ UNCHANGED sscratch
trap_return_no_restore(f, p) ==
    /\ frame' = [f EXCEPT ![p] = Zero]
    /\ regs' = Zero
    /\ sscratch' = p

(* trap_entry restores the frame on p's kernel stack and returns to user   *)
(* mode; sscratch is the top of that stack again.                          *)
trap_return(f, p) ==
    /\ frame' = [f EXCEPT ![p] = Zero]
    /\ regs' = f[p]
    /\ sscratch' = p

(* A trap that returns to the task it interrupted with a0 = v.             *)
Returns(f, v) == trap_return([f EXCEPT ![sscratch].a0 = v], sscratch)

(* task_schedule(): park the current task, reap, and return the frame of   *)
(* the next one.  f holds the trap frames.                                 *)
task_schedule(f) ==
    LET prev == current
        st1  == [state EXCEPT ![prev] = IF @ = "RUNNING" THEN "READY" ELSE @]
        tf1  == [tf EXCEPT ![prev] = sscratch]
        D    == Reaped(st1)
        st2  == Freed(st1, D, "FREE")
        next == task_pick_next(run_queue, nr_runnable_tasks, st2, prev)
        stay == next = NULL \/ next = prev \/ tf1[next] = NULL
        run  == IF stay THEN prev ELSE next
    IN  /\ state' = [st2 EXCEPT ![run] = "RUNNING"]
        /\ current' = run
        /\ satp' = IF stay THEN satp ELSE next
        /\ pid' = Freed(pid, D, 0)
        /\ tf' = Freed(tf1, D, NULL)
        /\ all_tasks' = all_tasks \ D
        /\ trap_return(Freed(f, D, Zero), IF stay THEN sscratch ELSE tf1[next])
        /\ UNCHANGED <<run_queue, nr_runnable_tasks, next_pid>>

(* User code runs: no interrupt is pending.                                *)
User == mode = "user" /\ timer # "pending"

(* User code is at an ecall other than that of a read().                   *)
Ecall == User /\ regs.sepc = "code"

(* User code computes.                                                     *)
Compute ==
    /\ Ecall
    /\ \E v \in UserVal : regs' = [regs EXCEPT !.a0 = v]
    /\ UNCHANGED <<mode, boot, init, state, pid, tf, frame, run_queue,
                   all_tasks, nr_runnable_tasks, current, next_pid, satp,
                   sscratch, timer, rx, rd, child>>

(* User code loads the arguments of a read() of file fd; its ecall is next. *)
PrepareRead ==
    /\ Ecall
    /\ \E fd \in UserVal : regs' = [sepc |-> "read", a0 |-> fd]
    /\ UNCHANGED <<mode, boot, init, state, pid, tf, frame, run_queue,
                   all_tasks, nr_runnable_tasks, current, next_pid, satp,
                   sscratch, timer, rx, rd, child>>

(* The timer interrupt: timer_tick() and task_schedule().                  *)
timer_interrupt ==
    /\ mode = "user"
    /\ timer = "pending"
    /\ task_schedule(Trapped)
    /\ timer' = "armed"
    /\ UNCHANGED <<mode, boot, init, rx, rd, child>>

sys_yield ==
    /\ Ecall
    /\ task_schedule([Trapped EXCEPT ![sscratch].a0 = 0])
    /\ UNCHANGED <<mode, boot, init, timer, rx, rd, child>>

(* write(), getpid() and ps() change nothing but a0.                       *)
sys_write ==
    /\ Ecall
    /\ \E len \in UserVal :
           Returns(Trapped, IF regs.a0 \in {1, 2} THEN len ELSE -1)
    /\ UNCHANGED <<mode, boot, init, state, pid, tf, run_queue, all_tasks,
                   nr_runnable_tasks, current, next_pid, satp, timer, rx, rd,
                   child>>

sys_getpid ==
    /\ Ecall
    /\ Returns(Trapped, IF current = NULL THEN -1 ELSE pid[current])
    /\ UNCHANGED <<mode, boot, init, state, pid, tf, run_queue, all_tasks,
                   nr_runnable_tasks, current, next_pid, satp, timer, rx, rd,
                   child>>

sys_ps ==
    /\ Ecall
    /\ Returns(Trapped, 0)
    /\ UNCHANGED <<mode, boot, init, state, pid, tf, run_queue, all_tasks,
                   nr_runnable_tasks, current, next_pid, satp, timer, rx, rd,
                   child>>

(* sys_exit() and task_exit_current().  With no task left the machine is   *)
(* shut down; the kernel panics if the firmware returns from that.         *)
sys_exit ==
    LET dead == current
        st   == [state EXCEPT ![dead] = "ZOMBIE"]
        q    == list_del(run_queue, dead)
        n    == nr_runnable_tasks - 1
        next == task_pick_next(q, n, st, NULL)
        tf1  == [tf EXCEPT ![dead] = sscratch]
        switch == n # 0 /\ next # NULL
    IN  /\ Ecall
        /\ \E halt \in {"off", "panic"} :
               mode' = IF dead = NULL \/ nr_runnable_tasks = 0 THEN "assert"
                       ELSE IF switch THEN "user"
                       ELSE IF n = 0 THEN halt ELSE "assert"
        /\ state' = IF switch THEN [st EXCEPT ![next] = "RUNNING"] ELSE st
        /\ tf' = tf1
        /\ run_queue' = q
        /\ nr_runnable_tasks' = n
        /\ current' = IF switch THEN next ELSE NULL
        /\ satp' = IF switch THEN next ELSE satp
        /\ IF switch THEN trap_return(Trapped, tf1[next])
                     ELSE frame' = Trapped /\ regs' = Zero /\ UNCHANGED sscratch
        /\ UNCHANGED <<boot, init, pid, all_tasks, next_pid, timer, rx, rd,
                       child>>

(* fork(): task_fork() reaps and allocates, copies the parent's memory,    *)
(* and then either publishes the child or undoes what it did.              *)
sys_fork ==
    /\ Ecall
    /\ \E c \in Task \union {NULL} : ReapAndAlloc(Trapped, c)
    /\ regs' = Zero
    /\ mode' = "fork"
    /\ UNCHANGED <<boot, init, run_queue, nr_runnable_tasks, current,
                   next_pid, satp, sscratch, timer, rx, rd>>

(* Fault: the child gets the parent's a0.                                  *)
task_fork_same_a0 ==
    /\ mode = "fork"
    /\ child # NULL
    /\ next_pid <= MaxPid
    /\ Publish(child)
    /\ Returns([frame EXCEPT ![child] = frame[sscratch]], next_pid)
    /\ mode' = "user"
    /\ UNCHANGED <<boot, init, current, satp, timer, rx, rd>>

task_fork ==
    /\ mode = "fork"
    /\ child # NULL
    /\ next_pid <= MaxPid
    /\ Publish(child)
    /\ Returns([frame EXCEPT ![child] = [frame[sscratch] EXCEPT !.a0 = 0]],
               next_pid)
    /\ mode' = "user"
    /\ UNCHANGED <<boot, init, current, satp, timer, rx, rd>>

task_fork_fails ==
    /\ mode = "fork"
    /\ Discard(child)
    /\ Returns(frame, -1)
    /\ mode' = "user"
    /\ UNCHANGED <<boot, init, pid, tf, run_queue, all_tasks,
                   nr_runnable_tasks, current, next_pid, satp, timer, rx, rd>>

(* exec(): the new address space is built, and then either becomes the     *)
(* task's or is given up.                                                  *)
sys_exec ==
    /\ Ecall
    /\ frame' = Trapped
    /\ regs' = Zero
    /\ mode' = "exec"
    /\ UNCHANGED <<boot, init, state, pid, tf, run_queue, all_tasks,
                   nr_runnable_tasks, current, next_pid, satp, sscratch,
                   timer, rx, rd, child>>

exec_fails ==
    /\ mode = "exec"
    /\ Returns(frame, -1)
    /\ mode' = "user"
    /\ UNCHANGED <<boot, init, state, pid, tf, run_queue, all_tasks,
                   nr_runnable_tasks, current, next_pid, satp, timer, rx, rd,
                   child>>

(* The printk after vm_switch() reads the file name through the new page   *)
(* table, which need not map it: then the kernel faults.                   *)
exec_loads ==
    /\ mode = "exec"
    /\ satp' = current
    /\ trap_return([frame EXCEPT ![sscratch] = Zero], sscratch)
    /\ mode' \in {"user", "panic"}
    /\ UNCHANGED <<boot, init, state, pid, tf, run_queue, all_tasks,
                   nr_runnable_tasks, current, next_pid, timer, rx, rd,
                   child>>

(* read() with no input: another task runs, and sepc stays on the ecall,   *)
(* so the task asks again when its turn comes.                             *)
read_retries ==
    /\ User
    /\ regs.sepc = "read"
    /\ rx = << >>
    /\ task_schedule(Trapped)
    /\ UNCHANGED <<mode, boot, init, timer, rx, rd, child>>

(* read() with input: it returns at once for another file or an empty      *)
(* buffer, and otherwise polls the UART for a line.                        *)
sys_read ==
    /\ User
    /\ regs.sepc = "read"
    /\ rx # << >>
    /\ LET f == [Trapped EXCEPT ![sscratch].sepc = "code"]
       IN  \E len \in ReadLen :
           IF regs.a0 # 0 \/ len = 0
           THEN /\ Returns(f, IF regs.a0 # 0 THEN -1 ELSE 0)
                /\ UNCHANGED <<mode, rd>>
           ELSE /\ frame' = f
                /\ regs' = Zero
                /\ rd' = [i |-> 0, len |-> len]
                /\ mode' = "read"
                /\ UNCHANGED sscratch
    /\ UNCHANGED <<boot, init, state, pid, tf, run_queue, all_tasks,
                   nr_runnable_tasks, current, next_pid, satp, timer, rx,
                   child>>

(* Fault: a backspace at the start of the line is not ignored.             *)
read_char_underflow ==
    /\ mode = "read"
    /\ rd.i + 1 < rd.len
    /\ rx # << >>
    /\ rx' = Tail(rx)
    /\ IF Head(rx) = "newline"
       THEN Returns(frame, rd.i) /\ rd' = Idle /\ mode' = "user"
       ELSE /\ rd' = [rd EXCEPT !.i = IF Head(rx) = "backspace"
                                      THEN @ - 1 ELSE @ + 1]
            /\ UNCHANGED <<mode, frame, regs, sscratch>>
    /\ UNCHANGED <<boot, init, state, pid, tf, run_queue, all_tasks,
                   nr_runnable_tasks, current, next_pid, satp, timer, child>>

(* One turn of the loop of sys_read().                                     *)
read_char ==
    /\ mode = "read"
    /\ rd.i + 1 < rd.len
    /\ rx # << >>
    /\ rx' = Tail(rx)
    /\ CASE Head(rx) = "backspace" ->
              /\ rd' = [rd EXCEPT !.i = IF @ > 0 THEN @ - 1 ELSE @]
              /\ UNCHANGED <<mode, frame, regs, sscratch>>
         [] Head(rx) = "newline" ->
              /\ Returns(frame, rd.i)
              /\ rd' = Idle
              /\ mode' = "user"
         [] OTHER ->
              /\ rd' = [rd EXCEPT !.i = @ + 1]
              /\ UNCHANGED <<mode, frame, regs, sscratch>>
    /\ UNCHANGED <<boot, init, state, pid, tf, run_queue, all_tasks,
                   nr_runnable_tasks, current, next_pid, satp, timer, child>>

read_full ==
    /\ mode = "read"
    /\ rd.i + 1 >= rd.len
    /\ Returns(frame, rd.i)
    /\ rd' = Idle
    /\ mode' = "user"
    /\ UNCHANGED <<boot, init, state, pid, tf, run_queue, all_tasks,
                   nr_runnable_tasks, current, next_pid, satp, timer, rx,
                   child>>

(* Any other exception and any unknown system call number: panic().        *)
Fault ==
    /\ User
    /\ frame' = Trapped
    /\ regs' = Zero
    /\ mode' = "panic"
    /\ UNCHANGED <<boot, init, state, pid, tf, run_queue, all_tasks,
                   nr_runnable_tasks, current, next_pid, satp, sscratch,
                   timer, rx, rd, child>>

-----------------------------------------------------------------------------
(* The devices, and the whole system.                                      *)

Halted == mode \in {"off", "panic", "assert"}

TimerExpires ==
    /\ ~Halted
    /\ timer = "armed"
    /\ timer' = "pending"
    /\ UNCHANGED <<mode, boot, init, sched, rx, rd, child>>

UartReceives ==
    /\ ~Halted
    /\ Len(rx) < RxCap
    /\ \E c \in Char : rx' = Append(rx, c)
    /\ UNCHANGED <<mode, boot, init, sched, timer, rd, child>>

(* panic() and a failed assertion wait for interrupts for ever.            *)
Stopped == Halted /\ UNCHANGED vars

Boot == \/ BootCreate \/ task_create_user \/ task_create_user_fails
        \/ task_destroy \/ timer_init \/ user_init_asserts \/ user_init

Syscall == \/ sys_yield \/ sys_write \/ sys_getpid \/ sys_ps \/ sys_exit
           \/ sys_fork \/ sys_exec \/ read_retries \/ sys_read

(* The steps that end a handler that is already running.                   *)
Kernel == \/ task_fork \/ task_fork_fails \/ exec_loads \/ exec_fails
          \/ read_char \/ read_full

Next == \/ Boot \/ Compute \/ PrepareRead \/ Syscall \/ Kernel \/ Fault
        \/ timer_interrupt \/ TimerExpires \/ UartReceives \/ Stopped

(* The hart runs kernel code without pause and takes a pending interrupt,  *)
(* and the timer expires.  User code may loop for ever and input may never *)
(* come.                                                                   *)
Fairness == /\ WF_vars(Boot \/ Kernel \/ timer_interrupt)
            /\ WF_vars(TimerExpires)

Spec == Init /\ [][Next]_vars /\ Fairness

-----------------------------------------------------------------------------
(* Properties.                                                             *)

(* Every variable has its type: in particular nr_runnable_tasks never      *)
(* wraps below zero, and the read loop stays inside its buffer.            *)
TypeOK ==
    /\ mode \in Mode
    /\ boot \in 0..BOOTED
    /\ init \in Task \union {NULL}
    /\ state \in [Task -> State]
    /\ pid \in [Task -> Nat]
    /\ tf \in [Task -> Task \union {NULL}]
    /\ frame \in [Task -> Regs]
    /\ run_queue \in Seq(Task)
    /\ all_tasks \subseteq Task
    /\ nr_runnable_tasks \in Nat
    /\ current \in Task \union {NULL}
    /\ next_pid \in Nat
    /\ satp \in Task \union {NULL}
    /\ sscratch \in Task \union {NULL}
    /\ regs \in Regs
    /\ timer \in {"off", "armed", "pending"}
    /\ rx \in Seq(Char)
    /\ rd \in [i : Nat, len : Nat]
    /\ rd.i <= rd.len
    /\ child \in Task \union {NULL}

(* The run queue, its counter, the list of all tasks and the task states   *)
(* agree in every state: the queue holds each runnable task once and       *)
(* nothing else, nr_runnable_tasks is its length, and a task is listed in  *)
(* all_tasks exactly while it is published and not yet reaped.             *)
RunQueueConsistent ==
    /\ \A i, j \in 1..Len(run_queue) :
           run_queue[i] = run_queue[j] => i = j
    /\ \A t \in Task : state[t] \in Runnable <=>
           \E i \in 1..Len(run_queue) : run_queue[i] = t
    /\ nr_runnable_tasks = Len(run_queue)
    /\ all_tasks = {t \in Task : state[t] \in Runnable \union {"ZOMBIE"}}

(* The hart and the task table agree: from enter_user() on, while the      *)
(* kernel is not stopped, the hart translates with the page table of the   *)
(* current task and traps to its kernel stack; the current task is the     *)
(* only RUNNING one; and every published task has its saved frame on its   *)
(* own kernel stack.                                                       *)
CpuCoherent ==
    /\ mode \in {"user", "fork", "exec", "read"} =>
           /\ current \in Task
           /\ satp = current
           /\ sscratch = current
    /\ \A t \in Task : state[t] = "RUNNING" <=> t = current
    /\ \A t \in all_tasks : tf[t] = t

(* No assertion of the scheduler fails once the first task runs: an        *)
(* assertion can only fail while booting, when there is no memory for a    *)
(* boot-time task.                                                         *)
NoAssertAfterBoot == mode = "assert" => boot # BOOTED

(* Two tasks never share a pid, a pid is never handed out twice (all are   *)
(* below next_pid), and pid 0 is nobody's.                                 *)
PidUnique ==
    /\ next_pid >= 1
    /\ \A t \in all_tasks : pid[t] \in 1..(next_pid - 1)
    /\ \A t, u \in all_tasks : pid[t] = pid[u] => t = u

(* What a handler that is split in steps remembers stays true until it     *)
(* goes on: the task under construction is the only UNUSED one; the boot   *)
(* code runs with no current task, on its own stack and page table, and    *)
(* the task it keeps a pointer to stays READY, although it calls           *)
(* task_reap_zombies() in between; the read loop has room in its buffer.   *)
HandlerLocals ==
    /\ \A t \in Task : state[t] = "UNUSED" <=> t = child
    /\ mode \notin {"create", "fork"} => child = NULL
    /\ mode = "create" => boot \in {CREATE_TEST, CREATE_INIT, CREATE_DEMO}
    /\ boot # BOOTED =>
           /\ mode \in {"boot", "create", "assert"}
           /\ current = NULL /\ satp = NULL /\ sscratch = NULL
           /\ \A t \in Task : state[t] # "ZOMBIE"
    /\ mode \in {"boot", "create"} =>
           /\ boot # BOOTED
           /\ boot = DESTROY_TEST => init # NULL
           /\ boot \in {DESTROY_TEST, CREATE_DEMO, ENTER_USER} /\ init # NULL
                  => init \in Task /\ state[init] = "READY"
    /\ mode = "read" => rd.i < rd.len

(* The inductive invariant of the proofs.                                  *)
Inv == /\ TypeOK
       /\ RunQueueConsistent
       /\ CpuCoherent
       /\ NoAssertAfterBoot
       /\ PidUnique
       /\ HandlerLocals

(* A handler never frees what it runs on: a struct task, its kernel stack  *)
(* and its page table are not freed by a trap that arrived on that stack   *)
(* or under that page table, nor while the task is current (sys_exit()     *)
(* still prints the pid of the task that died).                            *)
FreesOnlyStrangers ==
    [][\A t \in Task : state[t] # "FREE" /\ state'[t] = "FREE" =>
           t # sscratch /\ t # satp /\ t # current]_vars

(* What task t would resume with: the live registers if it is on the hart  *)
(* in user mode, its saved frame otherwise.                                *)
Context(t) == IF t = current /\ mode = "user" THEN regs ELSE frame[t]

(* A task's context changes only while it is the current task: across any  *)
(* step that starts with another task on the hart, and across the very     *)
(* switch that resumes it, a waiting task keeps every register, and a      *)
(* read() that found no input is retried with the arguments it had.        *)
ContextPreserved ==
    [][\A t \in Task : (/\ current # NULL /\ t # current
                        /\ state[t] = "READY"
                        /\ state'[t] \in Runnable)
                       => Context(t)' = Context(t)]_vars

(* How long task t still waits: the members of the run queue before it,    *)
(* and the steps from the current task to it.                              *)
Ahead(t) == Pos(run_queue, t)
Turns(t) == Distance(Len(run_queue), Pos(run_queue, current), Ahead(t))

(* Bounded bypass: whenever the hart goes from one task to another, every  *)
(* task that goes on waiting gets closer to its turn, although an exit     *)
(* restarts the scan at the head of the queue: either it moves up in the   *)
(* queue (a task before it exited) or, with its place unchanged, fewer     *)
(* turns are left.                                                         *)
WaitersAdvance ==
    [][(current # NULL /\ current' \notin {NULL, current}) =>
         \A t \in Task : (state[t] = "READY" /\ state'[t] = "READY"
                            /\ t # current) =>
           \/ Ahead(t)' < Ahead(t)
           \/ Ahead(t)' = Ahead(t) /\ Turns(t)' < Turns(t)]_vars

(* No starvation: if no read() holds the kernel for ever, every READY task *)
(* gets the hart (or the machine stops), whatever the others do.           *)
NoStarvation ==
    ([]<>(mode # "read")) =>
        \A t \in Task : (state[t] = "READY") ~> (state[t] # "READY" \/ Halted)

(* Every dead task is reaped in the end, its resources with it, as the     *)
(* life-cycle comment of task.c says, if no read() holds the kernel for    *)
(* ever and the machine does not stop.                                     *)
ZombiesReaped ==
    ([]<>(mode # "read")) =>
        \A t \in Task : (state[t] = "ZOMBIE") ~> (state[t] # "ZOMBIE" \/ Halted)

(* What "preemptive scheduling (timer interrupt)" promises with no         *)
(* condition: a READY task gets the hart.                                  *)
Preemptive ==
    \A t \in Task : (state[t] = "READY") ~> (state[t] # "READY" \/ Halted)

=============================================================================
