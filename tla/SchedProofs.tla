---------------------------- MODULE SchedProofs ----------------------------
(* Proofs about Sched, for any set of tasks and any bounds.                *)
EXTENDS Sched, SequenceTheorems, TLAPS

(* The members of a queue are distinct.                                    *)
Distinct(q) == \A i, j \in 1..Len(q) : q[i] = q[j] => i = j

(* t is a member of the queue q.                                           *)
On(q, t) == \E i \in 1..Len(q) : q[i] = t

(* Pos finds a member of the list.                                         *)
LEMMA PosFinds ==
    ASSUME NEW q \in Seq(Task), NEW t, On(q, t)
    PROVE  Pos(q, t) \in 1..Len(q) /\ q[Pos(q, t)] = t
BY DEF Pos, On

(* list_del() removes one member of a list without repetitions, and        *)
(* nothing else.                                                           *)
LEMMA ListDel ==
    ASSUME NEW q \in Seq(Task), NEW t, Distinct(q), On(q, t)
    PROVE  LET r == list_del(q, t)
           IN  /\ r \in Seq(Task)
               /\ Len(r) = Len(q) - 1
               /\ Distinct(r)
               /\ \A u : On(r, u) <=> (On(q, u) /\ u # t)
               /\ \A k \in 1..Len(r) :
                      r[k] = IF k < Pos(q, t) THEN q[k] ELSE q[k + 1]
<1> DEFINE p == Pos(q, t)
           r == list_del(q, t)
<1>1. p \in 1..Len(q) /\ q[p] = t
  BY PosFinds
<1>2. r = SubSeq(q, 1, p - 1) \o SubSeq(q, p + 1, Len(q))
  BY DEF list_del, RemoveAt
<1>3. /\ r \in Seq(Task)
      /\ Len(r) = Len(q) - 1
      /\ \A k \in 1..Len(r) : r[k] = IF k < p THEN q[k] ELSE q[k + 1]
  <2> DEFINE a == SubSeq(q, 1, p - 1)
             b == SubSeq(q, p + 1, Len(q))
  <2>1. /\ a \in Seq(Task)
        /\ Len(a) = p - 1
        /\ \A k \in 1..(p - 1) : a[k] = q[k]
    BY <1>1, SubSeqProperties
  <2>2. /\ b \in Seq(Task)
        /\ Len(b) = Len(q) - p
        /\ \A k \in 1..(Len(q) - p) : b[k] = q[k + p]
    <3>1. \A k \in (p + 1)..Len(q) : q[k] \in Task
      BY <1>1
    <3>2. /\ b \in Seq(Task)
          /\ Len(b) = IF p + 1 <= Len(q) THEN Len(q) - (p + 1) + 1 ELSE 0
          /\ \A k \in 1..(Len(q) - (p + 1) + 1) : b[k] = q[p + 1 + k - 1]
      <4> HIDE DEF p
      <4> QED BY <1>1, <3>1, SubSeqProperties
    <3> QED
      BY <1>1, <3>2
  <2>3. /\ a \o b \in Seq(Task)
        /\ Len(a \o b) = Len(a) + Len(b)
        /\ \A k \in 1..(Len(a) + Len(b)) :
               (a \o b)[k] = IF k <= Len(a) THEN a[k] ELSE b[k - Len(a)]
    <3> HIDE DEF a, b
    <3> QED BY <2>1, <2>2, ConcatProperties
  <2> HIDE DEF a, b, p, r
  <2>4. r = a \o b
    BY <1>2 DEF a, b
  <2>5. r \in Seq(Task) /\ Len(r) = Len(q) - 1
    <3>1. r \in Seq(Task) /\ Len(r) = Len(a) + Len(b)
      BY <2>3, <2>4
    <3>2. Len(a) = p - 1 /\ Len(b) = Len(q) - p
      BY <2>1, <2>2
    <3>3. p \in Int /\ Len(q) \in Int
      BY <1>1
    <3> QED
      BY <3>1, <3>2, <3>3
  <2>6. ASSUME NEW k \in 1..(Len(q) - 1)
        PROVE  r[k] = IF k < p THEN q[k] ELSE q[k + 1]
    <3>1. CASE k < p
      BY <1>1, <2>1, <2>2, <2>3, <2>4, <3>1
    <3>2. CASE k >= p
      <4>1. k - (p - 1) \in 1..(Len(q) - p) /\ (k - (p - 1)) + p = k + 1
        BY <1>1, <3>2
      <4>2. b[k - (p - 1)] = q[k + 1]
        BY <2>2, <4>1
      <4>3. r[k] = b[k - (p - 1)]
        BY <1>1, <2>1, <2>2, <2>3, <2>4, <3>2
      <4> QED
        BY <1>1, <3>2, <4>2, <4>3
    <3> QED
      BY <1>1, <3>1, <3>2
  <2> QED
    BY <2>5, <2>6
<1> HIDE DEF p, r
<1>4. Distinct(r)
  BY <1>1, <1>3 DEF Distinct
<1>5. ASSUME NEW u
      PROVE  On(r, u) <=> (On(q, u) /\ u # t)
  <2>1. ASSUME NEW k \in 1..Len(r), r[k] = u
        PROVE  On(q, u) /\ u # t
    BY <1>1, <1>3, <2>1 DEF Distinct, On
  <2>2. ASSUME NEW k \in 1..Len(q), q[k] = u, u # t
        PROVE  On(r, u)
    <3>1. CASE k < p
      BY <1>1, <1>3, <2>2, <3>1 DEF On
    <3>2. CASE k > p
      <4>1. k - 1 \in 1..Len(r) /\ r[k - 1] = u
        BY <1>1, <1>3, <2>2, <3>2
      <4> QED
        BY <4>1 DEF On
    <3> QED
      BY <1>1, <2>2, <3>1, <3>2
  <2> QED
    BY <2>1, <2>2 DEF On
<1> QED
  BY <1>3, <1>4, <1>5 DEF r, p

(* Appending a newcomer.                                                   *)
LEMMA ListAdd ==
    ASSUME NEW q \in Seq(Task), NEW t \in Task, Distinct(q), ~On(q, t)
    PROVE  LET r == list_add_tail(q, t)
           IN  /\ r \in Seq(Task)
               /\ Len(r) = Len(q) + 1
               /\ Distinct(r)
               /\ \A u : On(r, u) <=> (On(q, u) \/ u = t)
<1> DEFINE r == list_add_tail(q, t)
<1>1. /\ r \in Seq(Task)
      /\ Len(r) = Len(q) + 1
      /\ \A k \in 1..Len(r) : r[k] = IF k <= Len(q) THEN q[k] ELSE t
  BY DEF list_add_tail
<1>2. Distinct(r)
  BY <1>1 DEF Distinct, On
<1>3. ASSUME NEW u
      PROVE  On(r, u) <=> (On(q, u) \/ u = t)
  BY <1>1 DEF On
<1> QED
  BY <1>1, <1>2, <1>3

(* On a queue of runnable tasks that the counter counts, task_pick_next()  *)
(* returns the member after the current one, or the first.                 *)
LEMMA PickNext ==
    ASSUME NEW q \in Seq(Task), NEW st, NEW cur, Len(q) > 0,
           \A i \in 1..Len(q) : st[q[i]] \in Runnable,
           cur = NULL \/ On(q, cur)
    PROVE  LET i == IF cur = NULL THEN 0 ELSE Pos(q, cur)
           IN  task_pick_next(q, Len(q), st, cur) =
               q[IF i < Len(q) THEN i + 1 ELSE 1]
<1> DEFINE n == Len(q)
           i == IF cur = NULL THEN 0 ELSE Pos(q, cur)
           Dist(j) == Distance(n, i, j)
           Found == {j \in 1..n : st[q[j]] \in Runnable /\ Dist(j) <= n}
           w == IF i < n THEN i + 1 ELSE 1
<1>1. n \in Nat /\ n > 0 /\ i \in 0..n
  BY PosFinds
<1>2. Found = 1..n
  BY <1>1 DEF Distance
<1>3. /\ w \in 1..n
      /\ \A k \in 1..n : Dist(w) <= Dist(k)
      /\ \A j \in 1..n : (\A k \in 1..n : Dist(j) <= Dist(k)) => j = w
  BY <1>1 DEF Distance
<1>4. (CHOOSE j \in Found : \A k \in Found : Dist(j) <= Dist(k)) = w
  <2> HIDE DEF Dist, w, Found
  <2> QED
    BY <1>2, <1>3
<1>5. Found # {} /\ i = IF cur = NULL THEN 0 ELSE Pos(q, cur)
  BY <1>1, <1>2
<1>6. task_pick_next(q, n, st, cur) =
        IF Found = {} THEN NULL
        ELSE q[CHOOSE j \in Found : \A k \in Found : Dist(j) <= Dist(k)]
  BY DEF task_pick_next
<1>7. task_pick_next(q, n, st, cur) = q[w]
  <2> HIDE DEF Found, Dist, w
  <2> QED
    BY <1>4, <1>5, <1>6
<1> QED
  BY <1>7

-----------------------------------------------------------------------------
(* The inductive invariant.                                                *)

UserMode == {"user", "fork", "exec", "read"}

(* The tasks and lists at the start.                                       *)
LEMMA InitInv == Init => Inv
<1> SUFFICES ASSUME Init PROVE Inv
  OBVIOUS
<1> USE SchedAssumption DEF Init
<1>1. TypeOK
  BY DEF TypeOK, Mode, State, Regs, Zero, Idle, CREATE_TEST, BOOTED
<1>2. RunQueueConsistent
  BY DEF RunQueueConsistent, Runnable
<1>3. CpuCoherent /\ NoAssertAfterBoot /\ PidUnique
  BY DEF CpuCoherent, NoAssertAfterBoot, PidUnique
<1>4. HandlerLocals
  BY DEF HandlerLocals, CREATE_TEST, CREATE_INIT, CREATE_DEMO, DESTROY_TEST,
         ENTER_USER, BOOTED
<1> QED
  BY <1>1, <1>2, <1>3, <1>4 DEF Inv

(* Steps that leave the tasks, the lists, the page table and the stack     *)
(* alone: all that can go wrong is the mode.                               *)
LEMMA QuietStep ==
    ASSUME Inv, TypeOK',
           UNCHANGED <<boot, init, state, pid, tf, run_queue, all_tasks,
                       nr_runnable_tasks, current, next_pid, satp, sscratch,
                       child>>,
           \/ mode' = mode /\ rd' = rd
           \/ /\ mode \in {"user", "exec", "read"}
              /\ mode' \in {"user", "exec", "read", "panic"}
              /\ mode' = "read" => rd'.i < rd'.len
    PROVE  Inv'
<1>1. RunQueueConsistent'
  BY DEF Inv, RunQueueConsistent
<1>2. CpuCoherent' /\ NoAssertAfterBoot' /\ PidUnique'
  BY DEF Inv, CpuCoherent, NoAssertAfterBoot, PidUnique
<1>3. HandlerLocals'
  BY DEF Inv, HandlerLocals
<1> QED
  BY <1>1, <1>2, <1>3 DEF Inv

(* In user mode and in a handler there is a current task, it is on the run *)
(* queue, and the trap frame goes on its own kernel stack.                 *)
LEMMA CurrentFacts ==
    ASSUME Inv, mode \in UserMode
    PROVE  /\ current \in Task /\ sscratch = current /\ satp = current
           /\ state[current] = "RUNNING"
           /\ On(run_queue, current)
           /\ boot = BOOTED
           /\ Trapped \in [Task -> Regs]
<1>1. /\ current \in Task /\ sscratch = current /\ satp = current
      /\ state[current] = "RUNNING"
  BY DEF Inv, CpuCoherent, UserMode
<1>2. On(run_queue, current)
  BY <1>1 DEF Inv, RunQueueConsistent, Runnable, On
<1>3. boot = BOOTED
  BY DEF Inv, HandlerLocals, UserMode
<1>4. Trapped \in [Task -> Regs]
  BY DEF Inv, TypeOK, Trapped
<1> QED
  BY <1>1, <1>2, <1>3, <1>4

(* The members of the run queue are exactly the runnable tasks.            *)
LEMMA QueueFacts ==
    ASSUME Inv
    PROVE  /\ run_queue \in Seq(Task) /\ Distinct(run_queue)
           /\ \A t \in Task : On(run_queue, t) <=> state[t] \in Runnable
           /\ \A i \in 1..Len(run_queue) : state[run_queue[i]] \in Runnable
           /\ nr_runnable_tasks = Len(run_queue)
<1>1. run_queue \in Seq(Task)
  BY DEF Inv, TypeOK
<1>2. Distinct(run_queue) /\ nr_runnable_tasks = Len(run_queue)
  BY DEF Inv, RunQueueConsistent, Distinct
<1>3. \A t \in Task : On(run_queue, t) <=> state[t] \in Runnable
  BY DEF Inv, RunQueueConsistent, On
<1>4. ASSUME NEW i \in 1..Len(run_queue)
      PROVE  state[run_queue[i]] \in Runnable
  <2>1. run_queue[i] \in Task /\ On(run_queue, run_queue[i])
    BY <1>1 DEF On
  <2> QED
    BY <1>3, <2>1
<1> QED
  BY <1>1, <1>2, <1>3, <1>4

(* Setting a0 of one frame gives frames again.                             *)
LEMMA SetA0 ==
    ASSUME NEW f \in [Task -> Regs], NEW p, NEW v \in Int
    PROVE  [f EXCEPT ![p].a0 = v] \in [Task -> Regs]
BY DEF Regs

(* So does stepping over the ecall.                                        *)
LEMMA SetSepc ==
    ASSUME NEW f \in [Task -> Regs], NEW p
    PROVE  [f EXCEPT ![p].sepc = "code"] \in [Task -> Regs]
BY DEF Regs

(* The frames sys_yield() passes on.                                       *)
LEMMA YieldFrame ==
    ASSUME Inv, mode \in UserMode
    PROVE  [Trapped EXCEPT ![sscratch].a0 = 0] \in [Task -> Regs]
<1>1. Trapped \in [Task -> Regs] /\ 0 \in Int
  BY CurrentFacts
<1> QED
  BY <1>1, SetA0

(* A system call that returns to its caller with a0 = v.                   *)
LEMMA ReturnsFacts ==
    ASSUME Inv, mode \in UserMode, NEW f \in [Task -> Regs], NEW v \in Int,
           Returns(f, v)
    PROVE  /\ frame' \in [Task -> Regs] /\ regs' \in Regs
           /\ sscratch' = sscratch
<1>1. current \in Task /\ sscratch = current
  BY CurrentFacts
<1>2. [f EXCEPT ![sscratch].a0 = v] \in [Task -> Regs]
  BY SetA0
<1>3. Zero \in Regs
  BY DEF Zero, Regs
<1> QED
  BY <1>1, <1>2, <1>3 DEF Returns, trap_return

(* User code, the devices, and the handlers that come back to their        *)
(* caller.                                                                 *)
LEMMA QuietActions ==
    ASSUME Inv,
           \/ Compute \/ PrepareRead \/ sys_write \/ sys_getpid \/ sys_ps
           \/ sys_exec \/ exec_fails \/ exec_loads \/ sys_read \/ read_char
           \/ read_full \/ Fault \/ TimerExpires \/ UartReceives \/ Stopped
           \/ UNCHANGED vars
    PROVE  Inv'
<1> USE SchedAssumption
<1> TypeOK
  BY DEF Inv
<1>z. Zero \in Regs /\ frame \in [Task -> Regs]
  BY DEF TypeOK, Zero, Regs
<1>1. CASE Compute
  <2>1. regs' \in Regs
    <3>1. PICK v \in UserVal : regs' = [regs EXCEPT !.a0 = v]
      BY <1>1 DEF Compute
    <3>2. v \in Int /\ regs \in Regs
      BY DEF TypeOK
    <3> QED
      BY <3>1, <3>2 DEF Regs
  <2>2. TypeOK'
    BY <1>1, <2>1 DEF Compute, TypeOK
  <2> QED
    BY <1>1, <2>2, QuietStep DEF Compute
<1>2. CASE PrepareRead
  <2>1. regs' \in Regs
    BY <1>2 DEF PrepareRead, TypeOK, Regs
  <2>2. TypeOK'
    BY <1>2, <2>1 DEF PrepareRead, TypeOK
  <2> QED
    BY <1>2, <2>2, QuietStep DEF PrepareRead
<1>3. CASE sys_write
  <2>1. PICK len \in UserVal :
          Returns(Trapped, IF regs.a0 \in {1, 2} THEN len ELSE -1)
    BY <1>3 DEF sys_write
  <2>2. mode \in UserMode /\ Trapped \in [Task -> Regs]
    BY <1>3, CurrentFacts DEF sys_write, Ecall, User, UserMode
  <2>3. frame' \in [Task -> Regs] /\ regs' \in Regs /\ sscratch' = sscratch
    BY <2>1, <2>2, ReturnsFacts
  <2>4. TypeOK'
    BY <1>3, <2>3 DEF sys_write, TypeOK
  <2> QED
    BY <1>3, <2>3, <2>4, QuietStep DEF sys_write
<1>4. CASE sys_getpid
  <2>1. mode \in UserMode /\ Trapped \in [Task -> Regs] /\ current \in Task
    BY <1>4, CurrentFacts DEF sys_getpid, Ecall, User, UserMode
  <2>2. (IF current = NULL THEN -1 ELSE pid[current]) \in Int
    BY <2>1 DEF TypeOK
  <2>3. frame' \in [Task -> Regs] /\ regs' \in Regs /\ sscratch' = sscratch
    BY <1>4, <2>1, <2>2, ReturnsFacts DEF sys_getpid
  <2>4. TypeOK'
    BY <1>4, <2>3 DEF sys_getpid, TypeOK
  <2> QED
    BY <1>4, <2>3, <2>4, QuietStep DEF sys_getpid
<1>5. CASE sys_ps
  <2>1. mode \in UserMode /\ Trapped \in [Task -> Regs]
    BY <1>5, CurrentFacts DEF sys_ps, Ecall, User, UserMode
  <2>2. frame' \in [Task -> Regs] /\ regs' \in Regs /\ sscratch' = sscratch
    BY <1>5, <2>1, ReturnsFacts DEF sys_ps
  <2>3. TypeOK'
    BY <1>5, <2>2 DEF sys_ps, TypeOK
  <2> QED
    BY <1>5, <2>2, <2>3, QuietStep DEF sys_ps
<1>6. CASE sys_exec
  <2>1. mode = "user" /\ Trapped \in [Task -> Regs]
    BY <1>6, CurrentFacts DEF sys_exec, Ecall, User, UserMode
  <2>2. TypeOK'
    BY <1>6, <1>z, <2>1 DEF sys_exec, TypeOK, Mode
  <2> QED
    BY <1>6, <2>1, <2>2, QuietStep DEF sys_exec
<1>7. CASE exec_fails
  <2>1. mode \in UserMode
    BY <1>7 DEF exec_fails, UserMode
  <2>2. frame' \in [Task -> Regs] /\ regs' \in Regs /\ sscratch' = sscratch
    BY <1>7, <1>z, <2>1, ReturnsFacts DEF exec_fails
  <2>3. TypeOK'
    BY <1>7, <2>2 DEF exec_fails, TypeOK, Mode
  <2> QED
    BY <1>7, <2>2, <2>3, QuietStep DEF exec_fails
<1>8. CASE exec_loads
  <2>1. current \in Task /\ sscratch = current /\ satp = current
    BY <1>8, CurrentFacts DEF exec_loads, UserMode
  <2>2. frame' \in [Task -> Regs] /\ regs' \in Regs /\ sscratch' = sscratch
    BY <1>8, <1>z, <2>1 DEF exec_loads, trap_return
  <2>3. TypeOK'
    BY <1>8, <2>1, <2>2 DEF exec_loads, TypeOK, Mode
  <2> QED
    BY <1>8, <2>1, <2>2, <2>3, QuietStep DEF exec_loads
<1>9. CASE sys_read
  <2> DEFINE f == [Trapped EXCEPT ![sscratch].sepc = "code"]
  <2>1. mode = "user" /\ mode \in UserMode /\ f \in [Task -> Regs]
    <3>1. mode = "user" /\ mode \in UserMode
      BY <1>9 DEF sys_read, User, UserMode
    <3> QED
      BY <3>1, CurrentFacts, SetSepc
  <2> HIDE DEF f
  <2>2. PICK len \in ReadLen :
          IF regs.a0 # 0 \/ len = 0
          THEN /\ Returns(f, IF regs.a0 # 0 THEN -1 ELSE 0)
               /\ UNCHANGED <<mode, rd>>
          ELSE /\ frame' = f
               /\ regs' = Zero
               /\ rd' = [i |-> 0, len |-> len]
               /\ mode' = "read"
               /\ UNCHANGED sscratch
    BY <1>9 DEF sys_read, f
  <2>3. (IF regs.a0 # 0 THEN -1 ELSE 0) \in Int
    OBVIOUS
  <2>4. frame' \in [Task -> Regs] /\ regs' \in Regs /\ sscratch' = sscratch
    BY <1>z, <2>1, <2>2, <2>3, ReturnsFacts
  <2>5. \/ mode' = mode /\ rd' = rd
        \/ /\ mode' = "read"
           /\ rd' \in [i : Nat, len : Nat]
           /\ rd'.i < rd'.len
    BY <2>2
  <2>6. TypeOK'
    <3>1. mode' \in Mode
      BY <2>5 DEF TypeOK, Mode
    <3>2. rd' \in [i : Nat, len : Nat] /\ rd'.i <= rd'.len
      BY <2>5 DEF TypeOK
    <3>3. UNCHANGED <<boot, init, state, pid, tf, run_queue, all_tasks,
                      nr_runnable_tasks, current, next_pid, satp, timer, rx,
                      child>>
      BY <1>9 DEF sys_read
    <3> QED
      BY <2>4, <3>1, <3>2, <3>3 DEF TypeOK
  <2>7. UNCHANGED <<boot, init, state, pid, tf, run_queue, all_tasks,
                    nr_runnable_tasks, current, next_pid, satp, sscratch,
                    child>>
    BY <1>9, <2>4 DEF sys_read
  <2>8. mode = "user"
    BY <1>9 DEF sys_read, User
  <2>9. \/ mode' = mode /\ rd' = rd
        \/ /\ mode \in {"user", "exec", "read"}
           /\ mode' \in {"user", "exec", "read", "panic"}
           /\ mode' = "read" => rd'.i < rd'.len
    BY <2>5, <2>8
  <2> QED
    BY <2>6, <2>7, <2>9, QuietStep
<1>10. CASE read_char
  <2>1. mode = "read" /\ mode \in UserMode
    BY <1>10 DEF read_char, UserMode
  <2>2. rd \in [i : Nat, len : Nat] /\ rd.i + 1 < rd.len
    BY <1>10 DEF read_char, TypeOK
  <2>3. rx' \in Seq(Char)
    BY <1>10 DEF read_char, TypeOK
  <2>4. /\ frame' \in [Task -> Regs] /\ regs' \in Regs /\ sscratch' = sscratch
        /\ rd' \in [i : Nat, len : Nat] /\ rd'.i <= rd'.len
        /\ mode' \in {"user", "read"}
        /\ mode' = "read" => rd'.i < rd'.len
    <3>1. CASE Head(rx) = "backspace"
      <4>1. /\ rd' = [rd EXCEPT !.i = IF @ > 0 THEN @ - 1 ELSE @]
            /\ UNCHANGED <<mode, frame, regs, sscratch>>
        BY <1>10, <3>1 DEF read_char
      <4>2. rd' \in [i : Nat, len : Nat] /\ rd'.i < rd'.len
        BY <2>2, <4>1
      <4>3. rd'.i <= rd'.len
        BY <4>2
      <4>4. frame' \in [Task -> Regs] /\ regs' \in Regs
        BY <4>1 DEF TypeOK
      <4>5. sscratch' = sscratch /\ mode' = "read"
        BY <2>1, <4>1
      <4> QED
        BY <4>2, <4>3, <4>4, <4>5
    <3>2. CASE Head(rx) = "newline"
      <4>1. Returns(frame, rd.i) /\ rd' = Idle /\ mode' = "user"
        BY <1>10, <3>2 DEF read_char
      <4>2. rd.i \in Int
        BY <2>2
      <4>3. frame' \in [Task -> Regs] /\ regs' \in Regs /\ sscratch' = sscratch
        BY <1>z, <2>1, <4>1, <4>2, ReturnsFacts
      <4> QED
        BY <4>1, <4>3 DEF Idle
    <3>3. CASE Head(rx) # "backspace" /\ Head(rx) # "newline"
      <4>1. /\ rd' = [rd EXCEPT !.i = @ + 1]
            /\ UNCHANGED <<mode, frame, regs, sscratch>>
        BY <1>10, <3>3 DEF read_char
      <4>2. rd' \in [i : Nat, len : Nat] /\ rd'.i < rd'.len
        BY <2>2, <4>1
      <4>3. rd'.i <= rd'.len
        BY <4>2
      <4>4. frame' \in [Task -> Regs] /\ regs' \in Regs
        BY <4>1 DEF TypeOK
      <4>5. sscratch' = sscratch /\ mode' = "read"
        BY <2>1, <4>1
      <4> QED
        BY <4>2, <4>3, <4>4, <4>5
    <3> QED
      BY <3>1, <3>2, <3>3
  <2>5. TypeOK'
    BY <1>10, <2>3, <2>4 DEF read_char, TypeOK, Mode
  <2> QED
    BY <1>10, <2>1, <2>4, <2>5, QuietStep DEF read_char
<1>11. CASE read_full
  <2>1. mode = "read" /\ mode \in UserMode
    BY <1>11 DEF read_full, UserMode
  <2>2. rd.i \in Int
    BY DEF TypeOK
  <2>3. frame' \in [Task -> Regs] /\ regs' \in Regs /\ sscratch' = sscratch
    BY <1>11, <1>z, <2>1, <2>2, ReturnsFacts DEF read_full
  <2>4. TypeOK'
    BY <1>11, <2>3 DEF read_full, TypeOK, Mode, Idle
  <2> QED
    BY <1>11, <2>1, <2>3, <2>4, QuietStep DEF read_full
<1>12. CASE Fault
  <2>1. mode = "user" /\ Trapped \in [Task -> Regs]
    BY <1>12, CurrentFacts DEF Fault, User, UserMode
  <2>2. TypeOK'
    BY <1>12, <1>z, <2>1 DEF Fault, TypeOK, Mode
  <2> QED
    BY <1>12, <2>1, <2>2, QuietStep DEF Fault
<1>13. CASE TimerExpires
  <2>1. TypeOK'
    BY <1>13 DEF TimerExpires, TypeOK, sched
  <2> QED
    BY <1>13, <2>1, QuietStep DEF TimerExpires, sched
<1>14. CASE UartReceives
  <2>1. rx' \in Seq(Char)
    BY <1>14 DEF UartReceives, TypeOK
  <2>2. TypeOK'
    BY <1>14, <2>1 DEF UartReceives, TypeOK, sched
  <2> QED
    BY <1>14, <2>2, QuietStep DEF UartReceives, sched
<1>15. CASE Stopped \/ UNCHANGED vars
  <2>1. TypeOK'
    BY <1>15 DEF Stopped, TypeOK, vars, sched
  <2> QED
    BY <1>15, <2>1, QuietStep DEF Stopped, vars, sched
<1> QED
  BY <1>1, <1>2, <1>3, <1>4, <1>5, <1>6, <1>7, <1>8, <1>9, <1>10, <1>11,
     <1>12, <1>13, <1>14, <1>15

(* task_schedule() under the invariant: some task of the run queue runs,   *)
(* all zombies are freed, and nothing else changes.                        *)
LEMMA ScheduleFacts ==
    ASSUME Inv, mode = "user", NEW f \in [Task -> Regs], task_schedule(f)
    PROVE  \E next \in Task :
             /\ state[next] \in Runnable
             /\ next = run_queue[IF Pos(run_queue, current) < Len(run_queue)
                                 THEN Pos(run_queue, current) + 1 ELSE 1]
             /\ state' = [t \in Task |->
                            IF t = next THEN "RUNNING"
                            ELSE IF t = current THEN "READY"
                            ELSE IF state[t] = "ZOMBIE" THEN "FREE"
                            ELSE state[t]]
             /\ current' = next /\ satp' = next /\ sscratch' = next
             /\ tf' = [t \in Task |->
                         IF state[t] = "ZOMBIE" THEN NULL ELSE tf[t]]
             /\ pid' = [t \in Task |->
                          IF state[t] = "ZOMBIE" THEN 0 ELSE pid[t]]
             /\ all_tasks' = {t \in all_tasks : state[t] # "ZOMBIE"}
             /\ frame' \in [Task -> Regs]
             /\ \A t \in Task : t # next /\ state[t] # "ZOMBIE"
                                  => frame'[t] = f[t]
             /\ regs' = f[next]
<1> USE SchedAssumption
<1> DEFINE st1  == [state EXCEPT ![current] =
                      IF @ = "RUNNING" THEN "READY" ELSE @]
           tf1  == [tf EXCEPT ![current] = sscratch]
           D    == Reaped(st1)
           st2  == Freed(st1, D, "FREE")
           next == task_pick_next(run_queue, nr_runnable_tasks, st2, current)
           stay == next = NULL \/ next = current \/ tf1[next] = NULL
           run  == IF stay THEN current ELSE next
<1>1. /\ current \in Task /\ sscratch = current /\ satp = current
      /\ state[current] = "RUNNING" /\ On(run_queue, current)
  BY CurrentFacts DEF UserMode
<1>2. /\ state \in [Task -> State] /\ pid \in [Task -> Nat]
      /\ tf \in [Task -> Task \union {NULL}] /\ all_tasks \subseteq Task
  BY DEF Inv, TypeOK
<1>3. /\ \A t \in Task : t \in all_tasks <=>
             state[t] \in Runnable \union {"ZOMBIE"}
      /\ \A t \in all_tasks : tf[t] = t
  BY DEF Inv, RunQueueConsistent, CpuCoherent
<1>4. D = {t \in Task : state[t] = "ZOMBIE"}
  BY <1>1, <1>2, <1>3 DEF Reaped, Runnable
<1>5. st2 = [t \in Task |-> IF t = current THEN "READY"
                            ELSE IF state[t] = "ZOMBIE" THEN "FREE"
                            ELSE state[t]]
  BY <1>1, <1>2, <1>4 DEF Freed
<1>6. tf1 = tf
  BY <1>1, <1>2, <1>3 DEF Runnable
<1> HIDE DEF st1, st2, D, tf1, next
<1>7. next = run_queue[IF Pos(run_queue, current) < Len(run_queue)
                       THEN Pos(run_queue, current) + 1 ELSE 1]
  <2>1. /\ run_queue \in Seq(Task) /\ nr_runnable_tasks = Len(run_queue)
        /\ \A i \in 1..Len(run_queue) : state[run_queue[i]] \in Runnable
    BY QueueFacts
  <2>2. \A i \in 1..Len(run_queue) : st2[run_queue[i]] \in Runnable
    BY <1>5, <2>1 DEF Runnable
  <2>3. Len(run_queue) > 0
    BY <1>1, <2>1 DEF On
  <2>4. current # NULL
    BY <1>1
  <2> QED
    BY <1>1, <2>1, <2>2, <2>3, <2>4, PickNext DEF next
<1>8. next \in Task /\ state[next] \in Runnable /\ next # NULL
  <2>1. /\ run_queue \in Seq(Task)
        /\ \A i \in 1..Len(run_queue) : state[run_queue[i]] \in Runnable
        /\ Pos(run_queue, current) \in 1..Len(run_queue)
    BY <1>1, QueueFacts, PosFinds
  <2> QED
    BY <1>7, <2>1
<1>9. tf1[next] = next
  BY <1>3, <1>6, <1>8
<1>10. run = next
  BY <1>8, <1>9
<1>11. /\ state' = [st2 EXCEPT ![run] = "RUNNING"]
       /\ current' = run
       /\ satp' = IF stay THEN satp ELSE next
       /\ pid' = Freed(pid, D, 0)
       /\ tf' = Freed(tf1, D, NULL)
       /\ all_tasks' = all_tasks \ D
       /\ trap_return(Freed(f, D, Zero), IF stay THEN sscratch ELSE tf1[next])
  BY DEF task_schedule, st1, st2, D, tf1, next
<1>12. (IF stay THEN sscratch ELSE tf1[next]) = next
  BY <1>1, <1>8, <1>9
<1>13. Freed(f, D, Zero) \in [Task -> Regs] /\ Freed(f, D, Zero)[next] = f[next]
  BY <1>4, <1>8 DEF Freed, Zero, Regs, Runnable
<1>14. /\ frame' = [Freed(f, D, Zero) EXCEPT ![next] = Zero]
       /\ regs' = f[next] /\ sscratch' = next
  BY <1>11, <1>12, <1>13 DEF trap_return
<1>15. /\ frame' \in [Task -> Regs]
       /\ \A t \in Task : t # next /\ state[t] # "ZOMBIE" => frame'[t] = f[t]
  BY <1>4, <1>8, <1>13, <1>14 DEF Freed, Zero, Regs
<1>16. /\ state' = [t \in Task |->
                      IF t = next THEN "RUNNING"
                      ELSE IF t = current THEN "READY"
                      ELSE IF state[t] = "ZOMBIE" THEN "FREE"
                      ELSE state[t]]
       /\ current' = next /\ satp' = next
  BY <1>1, <1>5, <1>8, <1>9, <1>10, <1>11
<1>17. /\ tf' = [t \in Task |-> IF state[t] = "ZOMBIE" THEN NULL ELSE tf[t]]
       /\ pid' = [t \in Task |-> IF state[t] = "ZOMBIE" THEN 0 ELSE pid[t]]
       /\ all_tasks' = {t \in all_tasks : state[t] # "ZOMBIE"}
  BY <1>2, <1>4, <1>6, <1>11 DEF Freed
<1> QED
  BY <1>7, <1>8, <1>14, <1>15, <1>16, <1>17

(* Switching tasks keeps the invariant.                                    *)
LEMMA ScheduleInv ==
    ASSUME Inv, mode = "user", NEW f \in [Task -> Regs], task_schedule(f),
           UNCHANGED <<mode, boot, init, rx, rd, child>>,
           timer' \in {"off", "armed", "pending"}
    PROVE  Inv'
<1> USE SchedAssumption
<1>1. PICK next \in Task :
             /\ state[next] \in Runnable
             /\ state' = [t \in Task |->
                            IF t = next THEN "RUNNING"
                            ELSE IF t = current THEN "READY"
                            ELSE IF state[t] = "ZOMBIE" THEN "FREE"
                            ELSE state[t]]
             /\ current' = next /\ satp' = next /\ sscratch' = next
             /\ tf' = [t \in Task |->
                         IF state[t] = "ZOMBIE" THEN NULL ELSE tf[t]]
             /\ pid' = [t \in Task |->
                          IF state[t] = "ZOMBIE" THEN 0 ELSE pid[t]]
             /\ all_tasks' = {t \in all_tasks : state[t] # "ZOMBIE"}
             /\ frame' \in [Task -> Regs]
             /\ regs' = f[next]
  BY ScheduleFacts
<1>2. UNCHANGED <<run_queue, nr_runnable_tasks, next_pid>>
  BY DEF task_schedule
<1>3. /\ current \in Task /\ state[current] = "RUNNING"
      /\ \A t \in Task : state[t] = "RUNNING" <=> t = current
      /\ boot = BOOTED
  BY CurrentFacts DEF UserMode, Inv, CpuCoherent
<1>4. \A t \in Task : /\ state'[t] \in Runnable <=> state[t] \in Runnable
                      /\ state'[t] # "ZOMBIE"
                      /\ state'[t] = "RUNNING" <=> t = next
                      /\ state'[t] = "UNUSED" <=> state[t] = "UNUSED"
  BY <1>1, <1>3 DEF Runnable
<1>5. TypeOK'
  BY <1>1, <1>2 DEF Inv, TypeOK, State
<1>6. RunQueueConsistent'
  <2>1. all_tasks' = {t \in Task : state'[t] \in Runnable \union {"ZOMBIE"}}
    BY <1>1, <1>4 DEF Inv, RunQueueConsistent, Runnable
  <2> QED
    BY <1>2, <1>4, <2>1 DEF Inv, RunQueueConsistent
<1>7. CpuCoherent'
  BY <1>1, <1>4 DEF Inv, CpuCoherent, TypeOK
<1>8. NoAssertAfterBoot'
  BY DEF Inv, NoAssertAfterBoot
<1>9. PidUnique'
  BY <1>1, <1>2 DEF Inv, PidUnique, TypeOK
<1>10. HandlerLocals'
  BY <1>3, <1>4 DEF Inv, HandlerLocals
<1> QED
  BY <1>5, <1>6, <1>7, <1>8, <1>9, <1>10 DEF Inv

(* An exit takes the current task off the queue and runs the head of what  *)
(* is left, if anything is.                                                *)
LEMMA ExitFacts ==
    ASSUME Inv, sys_exit
    PROVE  /\ current \in Task /\ state[current] = "RUNNING"
           /\ boot = BOOTED
           /\ run_queue' = list_del(run_queue, current)
           /\ nr_runnable_tasks' = Len(run_queue')
           /\ UNCHANGED <<boot, init, pid, all_tasks, next_pid, timer, rx, rd,
                          child, tf>>
           /\ \/ /\ Len(run_queue') = 0
                 /\ mode' \in {"off", "panic"}
                 /\ state' = [state EXCEPT ![current] = "ZOMBIE"]
                 /\ current' = NULL
                 /\ UNCHANGED <<satp, sscratch>>
                 /\ frame' \in [Task -> Regs] /\ regs' \in Regs
              \/ \E next \in Task :
                   /\ Len(run_queue') > 0
                   /\ next = run_queue'[1]
                   /\ next # current
                   /\ state[next] \in Runnable
                   /\ mode' = "user"
                   /\ state' = [state EXCEPT ![current] = "ZOMBIE",
                                             ![next] = "RUNNING"]
                   /\ current' = next /\ satp' = next /\ sscratch' = next
                   /\ frame' = [Trapped EXCEPT ![next] = Zero]
                   /\ frame' \in [Task -> Regs]
                   /\ regs' = Trapped[next] /\ regs' \in Regs
<1> USE SchedAssumption
<1> DEFINE st   == [state EXCEPT ![current] = "ZOMBIE"]
           q    == list_del(run_queue, current)
           n    == nr_runnable_tasks - 1
           next == task_pick_next(q, n, st, NULL)
           tf1  == [tf EXCEPT ![current] = sscratch]
           switch == n # 0 /\ next # NULL
<1>1. /\ current \in Task /\ sscratch = current /\ boot = BOOTED
      /\ state[current] = "RUNNING" /\ On(run_queue, current)
      /\ Trapped \in [Task -> Regs]
  BY CurrentFacts DEF UserMode, sys_exit, Ecall, User
<1>2. /\ state \in [Task -> State]
      /\ tf \in [Task -> Task \union {NULL}] /\ all_tasks \subseteq Task
      /\ \A t \in Task : t \in all_tasks <=>
             state[t] \in Runnable \union {"ZOMBIE"}
      /\ \A t \in all_tasks : tf[t] = t
  BY DEF Inv, TypeOK, RunQueueConsistent, CpuCoherent
<1>3. tf1 = tf
  BY <1>1, <1>2 DEF Runnable
<1>4. /\ q \in Seq(Task) /\ n = Len(q) /\ nr_runnable_tasks # 0
      /\ \A u : On(q, u) <=> (On(run_queue, u) /\ u # current)
  BY <1>1, QueueFacts, ListDel
<1>5. \A i \in 1..Len(q) : /\ q[i] \in Task /\ q[i] # current
                           /\ state[q[i]] \in Runnable
                           /\ st[q[i]] \in Runnable
  <2> SUFFICES ASSUME NEW i \in 1..Len(q)
               PROVE  /\ q[i] \in Task /\ q[i] # current
                      /\ state[q[i]] \in Runnable
                      /\ st[q[i]] \in Runnable
    OBVIOUS
  <2> HIDE DEF q
  <2>1. On(q, q[i]) /\ q[i] \in Task
    BY <1>4 DEF On
  <2>2. On(run_queue, q[i]) /\ q[i] # current
    BY <1>4, <2>1
  <2>3. state[q[i]] \in Runnable
    BY <2>1, <2>2, QueueFacts
  <2> QED
    BY <1>2, <2>1, <2>2, <2>3
<1>6. Zero \in Regs
  BY DEF Zero, Regs
<1> HIDE DEF st, q, n, next, tf1
<1>7. /\ \E halt \in {"off", "panic"} :
            mode' = IF current = NULL \/ nr_runnable_tasks = 0 THEN "assert"
                    ELSE IF switch THEN "user"
                    ELSE IF n = 0 THEN halt ELSE "assert"
      /\ state' = IF switch THEN [st EXCEPT ![next] = "RUNNING"] ELSE st
      /\ tf' = tf1
      /\ run_queue' = q
      /\ nr_runnable_tasks' = n
      /\ current' = IF switch THEN next ELSE NULL
      /\ satp' = IF switch THEN next ELSE satp
      /\ IF switch THEN trap_return(Trapped, tf1[next])
                   ELSE frame' = Trapped /\ regs' = Zero /\ UNCHANGED sscratch
      /\ UNCHANGED <<boot, init, pid, all_tasks, next_pid, timer, rx, rd,
                     child>>
  BY DEF sys_exit, st, q, n, next, tf1
<1>8. CASE Len(q) = 0
  <2>1. ~switch /\ current # NULL
    BY <1>1, <1>4, <1>8
  <2> QED
    BY <1>1, <1>3, <1>4, <1>6, <1>7, <1>8, <2>1 DEF st, q
<1>9. CASE Len(q) > 0
  <2>1. next = q[1]
    <3>1. next = q[IF 0 < Len(q) THEN 0 + 1 ELSE 1]
      BY <1>4, <1>5, <1>9, PickNext DEF next
    <3> QED
      BY <3>1
  <2>2. /\ next \in Task /\ next # current /\ state[next] \in Runnable
        /\ switch /\ current # NULL
    BY <1>1, <1>4, <1>5, <1>9, <2>1
  <2>3. tf1[next] = next
    BY <1>2, <1>3, <2>2
  <2>4. /\ frame' = [Trapped EXCEPT ![next] = Zero]
        /\ regs' = Trapped[next] /\ sscratch' = next
        /\ current' = next /\ satp' = next /\ mode' = "user"
    BY <1>4, <1>7, <2>2, <2>3 DEF trap_return
  <2>5. frame' \in [Task -> Regs] /\ regs' \in Regs
    BY <1>1, <1>6, <2>2, <2>4
  <2>6. state' = [state EXCEPT ![current] = "ZOMBIE", ![next] = "RUNNING"]
    BY <1>7, <2>2 DEF st
  <2> QED
    BY <1>1, <1>3, <1>4, <1>7, <1>9, <2>1, <2>2, <2>4, <2>5, <2>6 DEF q
<1> QED
  BY <1>4, <1>8, <1>9

(* An exit keeps the invariant.                                            *)
LEMMA ExitInv ==
    ASSUME Inv, sys_exit
    PROVE  Inv'
<1> USE SchedAssumption
<1>1. /\ current \in Task /\ state[current] = "RUNNING"
      /\ boot = BOOTED
      /\ run_queue' = list_del(run_queue, current)
      /\ nr_runnable_tasks' = Len(run_queue')
      /\ UNCHANGED <<boot, init, pid, all_tasks, next_pid, timer, rx, rd,
                     child, tf>>
  BY ExitFacts
<1>2. PICK run \in Task \union {NULL} :
        /\ run # current
        /\ run \in Task => state[run] \in Runnable
        /\ state' = [t \in Task |-> IF t = current THEN "ZOMBIE"
                                    ELSE IF t = run THEN "RUNNING"
                                    ELSE state[t]]
        /\ current' = run
        /\ frame' \in [Task -> Regs] /\ regs' \in Regs
        /\ \/ /\ run = NULL /\ mode' \in {"off", "panic"}
              /\ UNCHANGED <<satp, sscratch>>
           \/ /\ run \in Task /\ mode' = "user"
              /\ satp' = run /\ sscratch' = run
  <2>1. state \in [Task -> State]
    BY DEF Inv, TypeOK
  <2> QED
    BY <1>1, <2>1, ExitFacts
<1>3. /\ run_queue' \in Seq(Task) /\ Distinct(run_queue')
      /\ \A t \in Task : On(run_queue', t) <=>
             (state[t] \in Runnable /\ t # current)
  <2>1. On(run_queue, current)
    BY <1>1, QueueFacts DEF Runnable
  <2> QED
    BY <1>1, <2>1, QueueFacts, ListDel
<1>4. \A t \in Task : state[t] = "RUNNING" <=> t = current
  BY DEF Inv, CpuCoherent
<1>5. \A t \in Task :
        /\ state'[t] \in Runnable <=> (state[t] \in Runnable /\ t # current)
        /\ state'[t] \in Runnable \union {"ZOMBIE"} <=>
               state[t] \in Runnable \union {"ZOMBIE"}
        /\ state'[t] = "RUNNING" <=> t = run
        /\ state'[t] = "UNUSED" <=> state[t] = "UNUSED"
  BY <1>1, <1>2, <1>4 DEF Runnable
<1>6. TypeOK'
  BY <1>1, <1>2, <1>3 DEF Inv, TypeOK, State, Mode
<1>7. RunQueueConsistent'
  <2>1. all_tasks' = {t \in Task : state'[t] \in Runnable \union {"ZOMBIE"}}
    BY <1>1, <1>5 DEF Inv, RunQueueConsistent
  <2> QED
    BY <1>1, <1>3, <1>5, <2>1 DEF RunQueueConsistent, Distinct, On
<1>8. CpuCoherent'
  BY <1>1, <1>2, <1>5 DEF Inv, CpuCoherent
<1>9. NoAssertAfterBoot' /\ PidUnique'
  BY <1>1, <1>2 DEF Inv, NoAssertAfterBoot, PidUnique
<1>10. HandlerLocals'
  <2>1. child = NULL
    BY DEF Inv, HandlerLocals, sys_exit, Ecall, User
  <2> QED
    BY <1>1, <1>2, <1>5, <2>1 DEF Inv, HandlerLocals
<1> QED
  BY <1>6, <1>7, <1>8, <1>9, <1>10 DEF Inv

(* Reaping and allocating a struct task, at boot or in a fork.             *)
LEMMA ReapAndAllocInv ==
    ASSUME Inv, mode \in {"boot", "user"}, NEW f \in [Task -> Regs],
           mode = "boot" => boot \in {CREATE_TEST, CREATE_INIT, CREATE_DEMO},
           NEW c \in Task \union {NULL}, ReapAndAlloc(f, c),
           mode' = IF mode = "boot" THEN "create" ELSE "fork",
           regs' \in Regs,
           UNCHANGED <<boot, init, run_queue, nr_runnable_tasks, current,
                       next_pid, satp, sscratch, timer, rx, rd>>
    PROVE  Inv'
<1> USE SchedAssumption
<1> DEFINE D  == Reaped(state)
           st == Freed(state, D, "FREE")
<1>1. /\ state \in [Task -> State] /\ pid \in [Task -> Nat]
      /\ tf \in [Task -> Task \union {NULL}] /\ all_tasks \subseteq Task
      /\ \A t \in Task : t \in all_tasks <=>
             state[t] \in Runnable \union {"ZOMBIE"}
      /\ \A t \in Task : state[t] = "RUNNING" <=> t = current
      /\ \A t \in Task : state[t] # "UNUSED"
  BY DEF Inv, TypeOK, RunQueueConsistent, CpuCoherent, HandlerLocals
<1>2. D = {t \in Task : state[t] = "ZOMBIE"}
  BY <1>1 DEF Reaped
<1>3. /\ c \in Task => st[c] = "FREE"
      /\ state' = IF c = NULL THEN st ELSE [st EXCEPT ![c] = "UNUSED"]
      /\ pid' = Freed(pid, D, 0)
      /\ tf' = Freed(tf, D, NULL)
      /\ frame' = Freed(f, D, Zero)
      /\ all_tasks' = all_tasks \ D
      /\ child' = c
  <2>1. {t \in Task : st[t] = "FREE"} \in SUBSET Task
    OBVIOUS
  <2> QED
    BY <2>1 DEF ReapAndAlloc
<1>4. /\ c \in Task => state[c] \in {"FREE", "ZOMBIE"}
      /\ state' = [t \in Task |-> IF t = c THEN "UNUSED"
                                  ELSE IF state[t] = "ZOMBIE" THEN "FREE"
                                  ELSE state[t]]
  BY <1>1, <1>2, <1>3 DEF Freed
<1>5. \A t \in Task : /\ state'[t] \in Runnable <=> state[t] \in Runnable
                      /\ state'[t] = "RUNNING" <=> state[t] = "RUNNING"
                      /\ state'[t] = "READY" <=> state[t] = "READY"
                      /\ state'[t] # "ZOMBIE"
                      /\ state'[t] = "UNUSED" <=> t = c
                      /\ t \in all_tasks' => t \in all_tasks /\ t \notin D
  BY <1>1, <1>2, <1>3, <1>4 DEF Runnable
<1>6. TypeOK'
  <2>1. frame' \in [Task -> Regs]
    BY <1>3 DEF Freed, Zero, Regs
  <2>2. state' \in [Task -> State]
    BY <1>1, <1>4 DEF State
  <2>3. pid' \in [Task -> Nat] /\ tf' \in [Task -> Task \union {NULL}]
    BY <1>1, <1>3 DEF Freed
  <2>4. all_tasks' \subseteq Task /\ child' \in Task \union {NULL}
    BY <1>1, <1>3
  <2>5. mode' \in Mode
    BY DEF Mode
  <2> QED
    BY <2>1, <2>2, <2>3, <2>4, <2>5 DEF Inv, TypeOK
<1>7. RunQueueConsistent'
  <2>1. all_tasks' = {t \in Task : state'[t] \in Runnable \union {"ZOMBIE"}}
    BY <1>1, <1>2, <1>3, <1>5 DEF Runnable
  <2> QED
    BY <1>5, <2>1 DEF Inv, RunQueueConsistent
<1>8. CpuCoherent'
  <2>1. \A t \in all_tasks' : tf'[t] = t
    BY <1>1, <1>3, <1>5 DEF Inv, CpuCoherent, Freed
  <2> QED
    BY <1>5, <2>1 DEF Inv, CpuCoherent, HandlerLocals
<1>9. NoAssertAfterBoot'
  BY DEF NoAssertAfterBoot
<1>10. PidUnique'
  <2>1. \A t \in all_tasks' : pid'[t] = pid[t] /\ t \in all_tasks
    BY <1>1, <1>3, <1>5 DEF Freed
  <2> QED
    BY <2>1 DEF Inv, PidUnique
<1>11. HandlerLocals'
  <2>1. mode = "user" => boot = BOOTED
    BY CurrentFacts DEF UserMode
  <2> QED
    BY <1>3, <1>5, <2>1 DEF Inv, HandlerLocals, CREATE_TEST, CREATE_INIT,
       CREATE_DEMO, BOOTED
<1> QED
  BY <1>6, <1>7, <1>8, <1>9, <1>10, <1>11 DEF Inv

(* Publishing the task under construction.                                 *)
LEMMA PublishInv ==
    ASSUME Inv, mode \in {"create", "fork"}, child # NULL, Publish(child),
           frame' \in [Task -> Regs], regs' \in Regs,
           \/ /\ mode = "create" /\ mode' = "boot" /\ boot' = boot + 1
              /\ init' = IF boot = CREATE_DEMO THEN init ELSE child
           \/ /\ mode = "fork" /\ mode' = "user"
              /\ UNCHANGED <<boot, init>>,
           UNCHANGED <<current, satp, sscratch, timer, rx, rd>>
    PROVE  Inv'
<1> USE SchedAssumption
<1>1. /\ child \in Task /\ state[child] = "UNUSED"
      /\ state \in [Task -> State] /\ pid \in [Task -> Nat]
      /\ next_pid \in Nat
      /\ tf \in [Task -> Task \union {NULL}] /\ all_tasks \subseteq Task
      /\ child \notin all_tasks
  BY DEF Inv, TypeOK, RunQueueConsistent, HandlerLocals, Runnable
<1>2. /\ pid' = [pid EXCEPT ![child] = next_pid]
      /\ next_pid' = next_pid + 1
      /\ state' = [state EXCEPT ![child] = "READY"]
      /\ tf' = [tf EXCEPT ![child] = child]
      /\ all_tasks' = all_tasks \union {child}
      /\ run_queue' = list_add_tail(run_queue, child)
      /\ nr_runnable_tasks' = nr_runnable_tasks + 1
      /\ child' = NULL
  BY DEF Publish
<1>3. /\ run_queue' \in Seq(Task) /\ Distinct(run_queue')
      /\ Len(run_queue') = Len(run_queue) + 1
      /\ \A t \in Task : On(run_queue', t) <=>
             (state[t] \in Runnable \/ t = child)
  <2>1. ~On(run_queue, child)
    BY <1>1, QueueFacts DEF Runnable
  <2> QED
    BY <1>1, <1>2, <2>1, QueueFacts, ListAdd
<1>4. \A t \in Task :
        /\ state'[t] \in Runnable <=> (state[t] \in Runnable \/ t = child)
        /\ state'[t] = "RUNNING" <=> state[t] = "RUNNING"
        /\ state'[t] = "ZOMBIE" <=> state[t] = "ZOMBIE"
        /\ state'[t] # "UNUSED"
        /\ state[t] = "READY" => state'[t] = "READY"
  BY <1>1, <1>2 DEF Inv, HandlerLocals, Runnable
<1>5. mode = "create" => boot \in {CREATE_TEST, CREATE_INIT, CREATE_DEMO}
  BY DEF Inv, HandlerLocals
<1>6. TypeOK'
  <2>1. boot' \in 0..BOOTED /\ init' \in Task \union {NULL} /\ mode' \in Mode
    <3>1. boot \in 0..BOOTED /\ init \in Task \union {NULL}
      BY DEF Inv, TypeOK
    <3>2. boot' \in 0..BOOTED
      BY <1>5, <3>1 DEF CREATE_TEST, CREATE_INIT, CREATE_DEMO, BOOTED
    <3>3. init' \in Task \union {NULL}
      BY <1>1, <3>1
    <3>4. mode' \in Mode
      BY DEF Mode
    <3> QED
      BY <3>2, <3>3, <3>4
  <2>2. /\ state' \in [Task -> State] /\ pid' \in [Task -> Nat]
        /\ tf' \in [Task -> Task \union {NULL}] /\ all_tasks' \subseteq Task
        /\ next_pid' \in Nat /\ child' \in Task \union {NULL}
        /\ nr_runnable_tasks' \in Nat
    BY <1>1, <1>2 DEF Inv, TypeOK, State
  <2> QED
    BY <1>3, <2>1, <2>2 DEF Inv, TypeOK
<1>7. RunQueueConsistent'
  <2>1. all_tasks' = {t \in Task : state'[t] \in Runnable \union {"ZOMBIE"}}
    BY <1>1, <1>2, <1>4 DEF Inv, RunQueueConsistent
  <2>2. nr_runnable_tasks' = Len(run_queue')
    BY <1>2, <1>3, QueueFacts
  <2> QED
    BY <1>3, <1>4, <2>1, <2>2 DEF RunQueueConsistent, Distinct, On
<1>8. CpuCoherent'
  BY <1>1, <1>2, <1>4 DEF Inv, CpuCoherent
<1>9. NoAssertAfterBoot'
  BY DEF NoAssertAfterBoot
<1>10. PidUnique'
  <2>1. /\ \A t \in all_tasks : pid'[t] = pid[t] /\ pid[t] \in 1..(next_pid - 1)
        /\ pid'[child] = next_pid /\ next_pid >= 1
    <3>1. next_pid >= 1
      BY DEF Inv, PidUnique
    <3> QED
      BY <1>1, <1>2, <3>1 DEF Inv, PidUnique
  <2> QED
    BY <1>1, <1>2, <2>1 DEF Inv, PidUnique
<1>11. HandlerLocals'
  <2>1. mode = "fork" => boot = BOOTED
    BY DEF Inv, HandlerLocals
  <2> QED
    BY <1>1, <1>2, <1>4, <1>5, <2>1
       DEF Inv, HandlerLocals, CREATE_TEST, CREATE_INIT, CREATE_DEMO, BOOTED,
           DESTROY_TEST, ENTER_USER
<1> QED
  BY <1>6, <1>7, <1>8, <1>9, <1>10, <1>11 DEF Inv

(* Giving up the task under construction.                                  *)
LEMMA DiscardInv ==
    ASSUME Inv, mode \in {"create", "fork"}, Discard(child),
           frame' \in [Task -> Regs], regs' \in Regs,
           \/ /\ mode = "create"
              /\ mode' = IF boot = CREATE_INIT THEN "boot" ELSE "assert"
              /\ boot' = IF boot = CREATE_INIT THEN CREATE_DEMO ELSE boot
              /\ init' = IF boot = CREATE_DEMO THEN init ELSE NULL
           \/ mode = "fork" /\ mode' = "user" /\ UNCHANGED <<boot, init>>,
           UNCHANGED <<pid, tf, run_queue, all_tasks,
                       nr_runnable_tasks, current, next_pid, satp, sscratch,
                       timer, rx, rd>>
    PROVE  Inv'
<1> USE SchedAssumption
<1>1. /\ state \in [Task -> State]
      /\ child \in Task \union {NULL}
      /\ \A t \in Task : state[t] = "UNUSED" <=> t = child
  BY DEF Inv, TypeOK, HandlerLocals
<1>2. /\ state' = [t \in Task |-> IF t = child THEN "FREE" ELSE state[t]]
      /\ child' = NULL
  <2>1. CASE child = NULL
    <3>1. \A t \in Task : t # child
      BY <2>1
    <3> QED
      BY <1>1, <2>1, <3>1 DEF Discard
  <2>2. CASE child \in Task
    BY <1>1, <2>2 DEF Discard
  <2> QED
    BY <1>1, <2>1, <2>2
<1>3. \A t \in Task : /\ state'[t] \in Runnable <=> state[t] \in Runnable
                      /\ state'[t] = "RUNNING" <=> state[t] = "RUNNING"
                      /\ state'[t] = "READY" <=> state[t] = "READY"
                      /\ state'[t] = "ZOMBIE" <=> state[t] = "ZOMBIE"
                      /\ state'[t] # "UNUSED"
  BY <1>1, <1>2 DEF Runnable
<1>4. TypeOK'
  <2>1. /\ boot' \in 0..BOOTED /\ init' \in Task \union {NULL}
        /\ mode' \in Mode
    BY DEF Inv, TypeOK, Mode, CREATE_INIT, CREATE_DEMO, BOOTED
  <2> QED
    BY <1>1, <1>2, <2>1 DEF Inv, TypeOK, State
<1>5. RunQueueConsistent'
  <2>1. all_tasks' = {t \in Task : state'[t] \in Runnable \union {"ZOMBIE"}}
    BY <1>3 DEF Inv, RunQueueConsistent
  <2> QED
    BY <1>3, <2>1 DEF Inv, RunQueueConsistent
<1>6. CpuCoherent'
  BY <1>3 DEF Inv, CpuCoherent
<1>7. NoAssertAfterBoot' /\ PidUnique'
  BY DEF Inv, NoAssertAfterBoot, PidUnique, HandlerLocals, CREATE_TEST,
         CREATE_INIT, CREATE_DEMO, BOOTED
<1>8. HandlerLocals'
  <2>1. mode = "fork" => boot = BOOTED
    BY DEF Inv, HandlerLocals
  <2> QED
    BY <1>1, <1>2, <1>3, <2>1
       DEF Inv, HandlerLocals, CREATE_TEST, CREATE_INIT, CREATE_DEMO, BOOTED,
           DESTROY_TEST, ENTER_USER
<1> QED
  BY <1>4, <1>5, <1>6, <1>7, <1>8 DEF Inv

(* task_destroy() of the boot test.                                        *)
LEMMA DestroyInv ==
    ASSUME Inv, task_destroy
    PROVE  Inv'
<1> USE SchedAssumption
<1>1. /\ mode = "boot" /\ boot = DESTROY_TEST
      /\ init \in Task /\ state[init] = "READY" /\ current = NULL
      /\ state \in [Task -> State] /\ pid \in [Task -> Nat]
      /\ tf \in [Task -> Task \union {NULL}] /\ all_tasks \subseteq Task
  BY DEF Inv, TypeOK, HandlerLocals, task_destroy, DESTROY_TEST, BOOTED
<1>2. /\ all_tasks' = all_tasks \ {init}
      /\ run_queue' = list_del(run_queue, init)
      /\ nr_runnable_tasks' = nr_runnable_tasks - 1
      /\ state' = [state EXCEPT ![init] = "FREE"]
      /\ pid' = [pid EXCEPT ![init] = 0]
      /\ tf' = [tf EXCEPT ![init] = NULL]
      /\ init' = NULL
      /\ boot' = TIMER_INIT
      /\ UNCHANGED <<frame, current, next_pid, satp, sscratch, regs, timer,
                     rx, rd, child>>
  BY DEF task_destroy
<1>3. /\ run_queue' \in Seq(Task) /\ Distinct(run_queue')
      /\ nr_runnable_tasks > 0 /\ nr_runnable_tasks' = Len(run_queue')
      /\ \A t \in Task : On(run_queue', t) <=>
             (state[t] \in Runnable /\ t # init)
  <2>1. On(run_queue, init)
    BY <1>1, QueueFacts DEF Runnable
  <2>2. Len(run_queue) \in Nat /\ Len(run_queue) > 0
    BY <2>1, QueueFacts DEF On
  <2> QED
    BY <1>1, <1>2, <2>1, <2>2, QueueFacts, ListDel
<1>4. mode' = "boot"
  BY <1>1, <1>3 DEF task_destroy
<1>5. \A t \in Task :
        /\ state'[t] \in Runnable <=> (state[t] \in Runnable /\ t # init)
        /\ state'[t] = "RUNNING" <=> state[t] = "RUNNING"
        /\ state'[t] = "ZOMBIE" <=> state[t] = "ZOMBIE"
        /\ state'[t] = "UNUSED" <=> state[t] = "UNUSED"
  BY <1>1, <1>2 DEF Runnable
<1>6. TypeOK'
  <2>1. /\ state' \in [Task -> State] /\ pid' \in [Task -> Nat]
        /\ tf' \in [Task -> Task \union {NULL}] /\ all_tasks' \subseteq Task
        /\ nr_runnable_tasks' \in Nat /\ boot' \in 0..BOOTED
        /\ init' \in Task \union {NULL}
    BY <1>1, <1>2, <1>3 DEF State, TIMER_INIT, BOOTED
  <2> QED
    BY <1>2, <1>3, <1>4, <2>1 DEF Inv, TypeOK, Mode
<1>7. RunQueueConsistent'
  <2>1. all_tasks' = {t \in Task : state'[t] \in Runnable \union {"ZOMBIE"}}
    BY <1>1, <1>2, <1>5 DEF Inv, RunQueueConsistent, Runnable
  <2> QED
    BY <1>3, <1>5, <2>1 DEF RunQueueConsistent, Distinct, On
<1>8. CpuCoherent'
  BY <1>1, <1>2, <1>4, <1>5 DEF Inv, CpuCoherent
<1>9. NoAssertAfterBoot' /\ PidUnique'
  BY <1>1, <1>2, <1>4 DEF Inv, NoAssertAfterBoot, PidUnique
<1>10. HandlerLocals'
  BY <1>1, <1>2, <1>4, <1>5
     DEF Inv, HandlerLocals, CREATE_TEST, CREATE_INIT, CREATE_DEMO, BOOTED,
         DESTROY_TEST, ENTER_USER, TIMER_INIT
<1> QED
  BY <1>6, <1>7, <1>8, <1>9, <1>10 DEF Inv

(* timer_init() and the entry to user mode.                                *)
LEMMA TimerInitInv ==
    ASSUME Inv, timer_init
    PROVE  Inv'
<1> USE DEF timer_init, sched
<1>1. TypeOK'
  BY DEF Inv, TypeOK, CREATE_INIT, BOOTED
<1>2. RunQueueConsistent' /\ PidUnique'
  BY DEF Inv, RunQueueConsistent, PidUnique
<1>3. CpuCoherent' /\ NoAssertAfterBoot'
  BY DEF Inv, CpuCoherent, NoAssertAfterBoot
<1>4. HandlerLocals'
  BY DEF Inv, HandlerLocals, CREATE_TEST, CREATE_INIT, CREATE_DEMO, BOOTED,
         DESTROY_TEST, ENTER_USER, TIMER_INIT
<1> QED
  BY <1>1, <1>2, <1>3, <1>4 DEF Inv

(* user_init() stops: nothing changes but the mode.                        *)
LEMMA UserInitAssertsInv ==
    ASSUME Inv, user_init_asserts
    PROVE  Inv'
<1> USE DEF user_init_asserts, sched
<1>1. TypeOK'
  BY DEF Inv, TypeOK, Mode
<1>2. RunQueueConsistent' /\ PidUnique'
  BY DEF Inv, RunQueueConsistent, PidUnique
<1>3. CpuCoherent' /\ NoAssertAfterBoot'
  BY DEF Inv, CpuCoherent, NoAssertAfterBoot, ENTER_USER, BOOTED
<1>4. HandlerLocals'
  BY DEF Inv, HandlerLocals
<1> QED
  BY <1>1, <1>2, <1>3, <1>4 DEF Inv

(* The first task is put on the hart.                                      *)
LEMMA UserInitInv ==
    ASSUME Inv, user_init
    PROVE  Inv'
<1> USE SchedAssumption
<1>1. /\ mode = "boot" /\ boot = ENTER_USER /\ current = NULL
      /\ init \in Task /\ state[init] = "READY"
      /\ state \in [Task -> State]
      /\ child = NULL
  BY DEF Inv, TypeOK, HandlerLocals, user_init, ENTER_USER, BOOTED
<1>2. \A t \in Task :
        /\ state'[t] \in Runnable <=> state[t] \in Runnable
        /\ state'[t] = "RUNNING" <=> t = init
        /\ state'[t] = "ZOMBIE" <=> state[t] = "ZOMBIE"
        /\ state'[t] = "UNUSED" <=> state[t] = "UNUSED"
  BY <1>1 DEF Inv, CpuCoherent, user_init, Runnable
<1>3. TypeOK'
  <2>1. regs' \in Regs
    BY DEF user_init, Regs
  <2> QED
    BY <1>1, <2>1 DEF Inv, TypeOK, user_init, State, Mode, BOOTED
<1>4. RunQueueConsistent'
  <2>1. all_tasks' = {t \in Task : state'[t] \in Runnable \union {"ZOMBIE"}}
    BY <1>2 DEF Inv, RunQueueConsistent, user_init
  <2> QED
    BY <1>2, <2>1 DEF Inv, RunQueueConsistent, user_init
<1>5. CpuCoherent'
  BY <1>1, <1>2 DEF Inv, CpuCoherent, user_init
<1>6. NoAssertAfterBoot' /\ PidUnique'
  BY DEF Inv, NoAssertAfterBoot, PidUnique, user_init
<1>7. HandlerLocals'
  BY <1>1, <1>2 DEF Inv, HandlerLocals, user_init
<1> QED
  BY <1>3, <1>4, <1>5, <1>6, <1>7 DEF Inv

(* Every step keeps the invariant: one case per action.                    *)
LEMMA NextInv == Inv /\ [Next]_vars => Inv'
<1> SUFFICES ASSUME Inv, [Next]_vars PROVE Inv'
  OBVIOUS
<1> USE SchedAssumption
<1>z. frame \in [Task -> Regs] /\ Zero \in Regs /\ regs \in Regs
  BY DEF Inv, TypeOK, Zero, Regs
<1>1. CASE BootCreate
  <2>1. PICK c \in Task \union {NULL} : ReapAndAlloc(frame, c)
    BY <1>1 DEF BootCreate
  <2> QED
    BY <1>1, <1>z, <2>1, ReapAndAllocInv DEF BootCreate
<1>2. CASE task_create_user
  <2>1. frame' \in [Task -> Regs]
    BY <1>2, <1>z DEF task_create_user
  <2> QED
    BY <1>2, <1>z, <2>1, PublishInv DEF task_create_user
<1>3. CASE task_create_user_fails
  BY <1>3, <1>z, DiscardInv DEF task_create_user_fails
<1>4. CASE task_destroy
  BY <1>4, DestroyInv
<1>5. CASE timer_init
  BY <1>5, TimerInitInv
<1>6. CASE user_init_asserts \/ user_init
  BY <1>6, UserInitAssertsInv, UserInitInv
<1>7. CASE timer_interrupt
  <2>1. Trapped \in [Task -> Regs]
    BY <1>7, CurrentFacts DEF timer_interrupt, UserMode
  <2> QED
    BY <1>7, <2>1, ScheduleInv DEF timer_interrupt
<1>8. CASE sys_yield
  <2>1. mode = "user" /\ mode \in UserMode
    BY <1>8 DEF sys_yield, Ecall, User, UserMode
  <2>2. [Trapped EXCEPT ![sscratch].a0 = 0] \in [Task -> Regs]
    BY <2>1, YieldFrame
  <2>3. timer' \in {"off", "armed", "pending"}
    BY <1>8 DEF sys_yield, Inv, TypeOK
  <2> QED
    BY <1>8, <2>1, <2>2, <2>3, ScheduleInv DEF sys_yield
<1>9. CASE read_retries
  <2>1. mode = "user" /\ Trapped \in [Task -> Regs]
    BY <1>9, CurrentFacts DEF read_retries, User, UserMode
  <2>2. timer' \in {"off", "armed", "pending"}
    BY <1>9 DEF read_retries, Inv, TypeOK
  <2> QED
    BY <1>9, <2>1, <2>2, ScheduleInv DEF read_retries
<1>10. CASE sys_exit
  BY <1>10, ExitInv
<1>11. CASE sys_fork
  <2>1. mode = "user" /\ Trapped \in [Task -> Regs]
    BY <1>11, CurrentFacts DEF sys_fork, Ecall, User, UserMode
  <2>2. PICK c \in Task \union {NULL} : ReapAndAlloc(Trapped, c)
    BY <1>11 DEF sys_fork
  <2> QED
    BY <1>11, <1>z, <2>1, <2>2, ReapAndAllocInv DEF sys_fork
<1>12. CASE task_fork
  <2> DEFINE f == [frame EXCEPT ![child] = [frame[sscratch] EXCEPT !.a0 = 0]]
  <2>1. mode \in UserMode /\ sscratch \in Task
    BY <1>12, CurrentFacts DEF task_fork, UserMode
  <2>2. frame[sscratch] \in Regs
    BY <1>z, <2>1
  <2>3. [frame[sscratch] EXCEPT !.a0 = 0] \in Regs
    BY <2>2 DEF Regs
  <2>4. f \in [Task -> Regs]
    BY <1>z, <2>3
  <2>5. next_pid \in Int /\ Returns(f, next_pid)
    BY <1>12 DEF task_fork, Inv, TypeOK
  <2> HIDE DEF f
  <2>6. frame' \in [Task -> Regs] /\ regs' \in Regs /\ sscratch' = sscratch
    BY <2>1, <2>4, <2>5, ReturnsFacts
  <2> QED
    BY <1>12, <2>6, PublishInv DEF task_fork
<1>13. CASE task_fork_fails
  <2>1. mode \in UserMode
    BY <1>13 DEF task_fork_fails, UserMode
  <2>2. frame' \in [Task -> Regs] /\ regs' \in Regs /\ sscratch' = sscratch
    BY <1>13, <1>z, <2>1, ReturnsFacts DEF task_fork_fails
  <2> QED
    BY <1>13, <2>2, DiscardInv DEF task_fork_fails
<1>14. CASE \/ Compute \/ PrepareRead \/ sys_write \/ sys_getpid \/ sys_ps
            \/ sys_exec \/ exec_fails \/ exec_loads \/ sys_read \/ read_char
            \/ read_full \/ Fault \/ TimerExpires \/ UartReceives \/ Stopped
            \/ UNCHANGED vars
  BY <1>14, QuietActions
<1> QED
  BY <1>1, <1>2, <1>3, <1>4, <1>5, <1>6, <1>7, <1>8, <1>9, <1>10, <1>11,
     <1>12, <1>13, <1>14 DEF Next, Boot, Syscall, Kernel

(* The inductive invariant holds in every reachable state.                 *)
THEOREM Invariance == Spec => []Inv
<1>1. Init => Inv
  BY InitInv
<1>2. Inv /\ [Next]_vars => Inv'
  BY NextInv
<1> QED
  BY <1>1, <1>2, PTL DEF Spec

(* Type correctness: among others, nr_runnable_tasks never goes below zero *)
(* and the read loop never leaves its buffer.                              *)
THEOREM TypeCorrect == Spec => []TypeOK
<1>1. Inv => TypeOK
  BY DEF Inv
<1> QED
  BY <1>1, Invariance, PTL

(* The run queue, its counter, all_tasks and the task states agree.        *)
THEOREM RunQueueCorrect == Spec => []RunQueueConsistent
<1>1. Inv => RunQueueConsistent
  BY DEF Inv
<1> QED
  BY <1>1, Invariance, PTL

(* The hart runs the current task on its own stack and page table.         *)
THEOREM CpuCorrect == Spec => []CpuCoherent
<1>1. Inv => CpuCoherent
  BY DEF Inv
<1> QED
  BY <1>1, Invariance, PTL

(* No assertion of the scheduler fails once the first task runs.           *)
THEOREM AssertionsHold == Spec => []NoAssertAfterBoot
<1>1. Inv => NoAssertAfterBoot
  BY DEF Inv
<1> QED
  BY <1>1, Invariance, PTL

(* Pids identify tasks.                                                    *)
THEOREM PidsUnique == Spec => []PidUnique
<1>1. Inv => PidUnique
  BY DEF Inv
<1> QED
  BY <1>1, Invariance, PTL

(* What a handler in progress remembers stays true until it goes on.       *)
THEOREM HandlersRemember == Spec => []HandlerLocals
<1>1. Inv => HandlerLocals
  BY DEF Inv
<1> QED
  BY <1>1, Invariance, PTL

-----------------------------------------------------------------------------
(* Action properties.                                                      *)

(* Once the first task runs, a step frees a struct task only from a trap   *)
(* handler, and only that of a zombie or of a task under construction.     *)
LEMMA FreedTasks ==
    ASSUME Inv, [Next]_vars, boot = BOOTED, NEW t \in Task,
           state[t] # "FREE", state'[t] = "FREE"
    PROVE  mode \in UserMode /\ state[t] \in {"ZOMBIE", "UNUSED"}
<1> USE SchedAssumption
<1>z. /\ state \in [Task -> State] /\ child \in Task \union {NULL}
      /\ state[child] = "UNUSED" \/ child = NULL
      /\ mode \notin {"boot", "create"}
  BY DEF Inv, TypeOK, HandlerLocals
<1>1. ASSUME NEW f \in [Task -> Regs], mode = "user", task_schedule(f)
      PROVE  mode \in UserMode /\ state[t] \in {"ZOMBIE", "UNUSED"}
  BY <1>1, ScheduleFacts DEF UserMode
<1>2. CASE timer_interrupt
  BY <1>1, <1>2, CurrentFacts DEF timer_interrupt, UserMode
<1>3. CASE sys_yield
  <2>1. mode = "user" /\ [Trapped EXCEPT ![sscratch].a0 = 0] \in [Task -> Regs]
    BY <1>3, YieldFrame DEF sys_yield, Ecall, User, UserMode
  <2> QED
    BY <1>1, <1>3, <2>1 DEF sys_yield
<1>4. CASE read_retries
  BY <1>1, <1>4, CurrentFacts DEF read_retries, User, UserMode
<1>5. CASE sys_exit
  BY <1>5, <1>z, ExitFacts
<1>6. CASE sys_fork
  <2>1. PICK c \in Task \union {NULL} : ReapAndAlloc(Trapped, c)
    BY <1>6 DEF sys_fork
  <2>2. mode = "user" /\ t \in Reaped(state)
    BY <1>6, <1>z, <2>1 DEF sys_fork, Ecall, User, ReapAndAlloc, Freed
  <2> QED
    BY <2>2 DEF UserMode, Reaped
<1>7. CASE task_fork
  BY <1>7, <1>z DEF task_fork, Publish
<1>8. CASE task_fork_fails
  BY <1>8, <1>z DEF task_fork_fails, Discard, UserMode
<1>9. CASE Boot
  BY <1>9, <1>z DEF Boot, BootCreate, task_create_user, task_destroy,
     task_create_user_fails, timer_init, user_init_asserts, user_init
<1>10. CASE \/ Compute \/ PrepareRead \/ sys_write \/ sys_getpid \/ sys_ps
            \/ sys_exec \/ exec_fails \/ exec_loads \/ sys_read \/ read_char
            \/ read_full \/ Fault \/ TimerExpires \/ UartReceives \/ Stopped
            \/ UNCHANGED vars
  <2>1. state' = state
    BY <1>10 DEF Compute, PrepareRead, sys_write, sys_getpid, sys_ps,
       sys_exec, exec_fails, exec_loads, sys_read, read_char, read_full,
       Fault, TimerExpires, UartReceives, Stopped, vars, sched
  <2> QED
    BY <2>1
<1> QED
  BY <1>2, <1>3, <1>4, <1>5, <1>6, <1>7, <1>8, <1>9, <1>10
     DEF Next, Syscall, Kernel

(* A trap handler frees neither the stack nor the page table it runs on.   *)
THEOREM HandlersKeepTheirStack == Spec => FreesOnlyStrangers
<1>1. ASSUME Inv, [Next]_vars, NEW t \in Task,
             state[t] # "FREE", state'[t] = "FREE"
      PROVE  t # sscratch /\ t # satp /\ t # current
  <2> USE SchedAssumption
  <2>1. CASE boot = BOOTED
    <3>1. mode \in UserMode /\ state[t] \in {"ZOMBIE", "UNUSED"}
      BY <1>1, <2>1, FreedTasks
    <3>2. /\ sscratch = current /\ satp = current
          /\ state[current] = "RUNNING"
      BY <1>1, <3>1, CurrentFacts
    <3> QED
      BY <3>1, <3>2
  <2>2. CASE boot # BOOTED
    BY <1>1, <2>2 DEF Inv, HandlerLocals
  <2> QED
    BY <2>1, <2>2
<1>2. Inv /\ [Next]_vars =>
        [\A t \in Task : state[t] # "FREE" /\ state'[t] = "FREE" =>
           t # sscratch /\ t # satp /\ t # current]_vars
  BY <1>1
<1> QED
  BY <1>2, Invariance, PTL DEF Spec, FreesOnlyStrangers

(* One step keeps the context of a waiting task.                           *)
LEMMA ContextStep ==
    ASSUME Inv, [Next]_vars, NEW t \in Task, current # NULL, t # current,
           state[t] = "READY", state'[t] \in Runnable
    PROVE  Context(t)' = Context(t)
<1> USE SchedAssumption
<1>z. /\ frame \in [Task -> Regs] /\ Context(t) = frame[t]
      /\ child \in Task \union {NULL} /\ child # t
      /\ current \in Task
      /\ mode \notin {"boot", "create"}
  BY DEF Inv, TypeOK, Context, HandlerLocals
<1>1. ASSUME NEW f \in [Task -> Regs], mode = "user", mode' = "user",
             task_schedule(f), f[t] = frame[t]
      PROVE  Context(t)' = Context(t)
  BY <1>z, <1>1, ScheduleFacts DEF Context
<1>2. mode \in UserMode =>
        Trapped \in [Task -> Regs] /\ Trapped[t] = frame[t] /\ sscratch = current
  BY <1>z, CurrentFacts DEF Trapped
<1>3. CASE timer_interrupt
  BY <1>1, <1>2, <1>3 DEF timer_interrupt, UserMode
<1>4. CASE sys_yield
  <2> DEFINE f == [Trapped EXCEPT ![sscratch].a0 = 0]
  <2>1. mode = "user" /\ mode' = "user" /\ f \in [Task -> Regs]
    <3>1. mode = "user" /\ mode' = "user" /\ mode \in UserMode
      BY <1>4 DEF sys_yield, Ecall, User, UserMode
    <3> QED
      BY <3>1, YieldFrame
  <2>2. f[t] = frame[t] /\ task_schedule(f)
    BY <1>2, <1>4, <2>1 DEF sys_yield, UserMode
  <2> HIDE DEF f
  <2> QED
    BY <1>1, <2>1, <2>2
<1>5. CASE read_retries
  BY <1>1, <1>2, <1>5 DEF read_retries, User, UserMode
<1>6. CASE sys_exit
  <2>1. mode \in UserMode
    BY <1>6 DEF sys_exit, Ecall, User, UserMode
  <2>2. /\ run_queue' = list_del(run_queue, current)
        /\ On(run_queue, current) /\ On(run_queue, t)
    BY <1>6, <2>1, ExitFacts, CurrentFacts, QueueFacts DEF Runnable
  <2>3. Len(run_queue') # 0
    <3>1. On(list_del(run_queue, current), t)
      BY <2>2, QueueFacts, ListDel
    <3> QED
      BY <2>2, <3>1 DEF On
  <2>4. PICK next \in Task :
          /\ mode' = "user" /\ current' = next
          /\ frame' = [Trapped EXCEPT ![next] = Zero]
          /\ regs' = Trapped[next]
    BY <1>6, <2>3, ExitFacts
  <2> QED
    BY <1>z, <1>2, <2>1, <2>4 DEF Context
<1>7. CASE sys_fork
  <2>1. mode \in UserMode /\ mode' = "fork"
    BY <1>7 DEF sys_fork, Ecall, User, UserMode
  <2>2. frame' = Freed(Trapped, Reaped(state), Zero)
    BY <1>7 DEF sys_fork, ReapAndAlloc
  <2>3. frame'[t] = frame[t]
    BY <1>2, <2>1, <2>2 DEF Freed, Reaped
  <2> QED
    BY <1>z, <2>1, <2>3 DEF Context
<1>8. ASSUME mode \in UserMode, current' = current,
             NEW f \in [Task -> Regs], NEW v, f[t] = frame[t], Returns(f, v)
      PROVE  Context(t)' = Context(t)
  BY <1>z, <1>2, <1>8 DEF Returns, trap_return, Context
<1>9. CASE task_fork
  <2> DEFINE f == [frame EXCEPT ![child] = [frame[sscratch] EXCEPT !.a0 = 0]]
  <2>1. mode \in UserMode /\ current' = current /\ Returns(f, next_pid)
    BY <1>9 DEF task_fork, UserMode
  <2>2. frame[sscratch] \in Regs
    BY <1>z, <1>2, <2>1
  <2>3. [frame[sscratch] EXCEPT !.a0 = 0] \in Regs
    BY <2>2 DEF Regs
  <2>4. f \in [Task -> Regs] /\ f[t] = frame[t]
    BY <1>z, <2>3
  <2> HIDE DEF f
  <2> QED
    BY <1>8, <2>1, <2>4
<1>10. CASE task_fork_fails
  BY <1>z, <1>8, <1>10 DEF task_fork_fails, UserMode
<1>11. CASE exec_fails
  BY <1>z, <1>8, <1>11 DEF exec_fails, UserMode
<1>12. CASE exec_loads
  BY <1>z, <1>2, <1>12 DEF exec_loads, trap_return, UserMode, Context
<1>13. CASE sys_write
  <2>1. mode \in UserMode /\ current' = current
    BY <1>13 DEF sys_write, Ecall, User, UserMode
  <2> QED
    BY <1>2, <1>8, <1>13, <2>1 DEF sys_write
<1>14. CASE sys_getpid
  <2>1. mode \in UserMode /\ current' = current
    BY <1>14 DEF sys_getpid, Ecall, User, UserMode
  <2> QED
    BY <1>2, <1>8, <1>14, <2>1 DEF sys_getpid
<1>15. CASE sys_ps
  <2>1. mode \in UserMode /\ current' = current
    BY <1>15 DEF sys_ps, Ecall, User, UserMode
  <2> QED
    BY <1>2, <1>8, <1>15, <2>1 DEF sys_ps
<1>16. CASE sys_read
  <2> DEFINE f == [Trapped EXCEPT ![sscratch].sepc = "code"]
  <2>1. mode \in UserMode /\ current' = current
    BY <1>16 DEF sys_read, User, UserMode
  <2>2. f \in [Task -> Regs] /\ f[t] = frame[t]
    BY <1>2, <1>z, <2>1, SetSepc
  <2>3. (\E v : Returns(f, v)) \/ (frame' = f)
    BY <1>16 DEF sys_read
  <2> HIDE DEF f
  <2>4. CASE frame' = f
    BY <1>z, <2>1, <2>2, <2>4 DEF Context
  <2> QED
    BY <1>8, <2>1, <2>2, <2>3, <2>4
<1>17. CASE read_char
  <2>1. mode \in UserMode /\ current' = current
    BY <1>17 DEF read_char, UserMode
  <2>2. Returns(frame, rd.i) \/ frame' = frame
    BY <1>17 DEF read_char
  <2>3. CASE frame' = frame
    BY <1>z, <2>1, <2>3 DEF Context
  <2> QED
    BY <1>z, <1>8, <2>1, <2>2, <2>3
<1>18. CASE read_full
  BY <1>z, <1>8, <1>18 DEF read_full, UserMode
<1>19. CASE Boot
  BY <1>19, <1>z DEF Boot, BootCreate, task_create_user, task_destroy,
     task_create_user_fails, timer_init, user_init_asserts, user_init
<1>20. CASE sys_exec \/ Fault
  <2>1. mode \in UserMode /\ current' = current /\ frame' = Trapped
    BY <1>20 DEF sys_exec, Fault, Ecall, User, UserMode
  <2> QED
    BY <1>z, <1>2, <2>1 DEF Context
<1>21. CASE \/ Compute \/ PrepareRead \/ TimerExpires \/ UartReceives
            \/ Stopped \/ UNCHANGED vars
  <2>1. current' = current /\ frame' = frame
    BY <1>21 DEF Compute, PrepareRead, TimerExpires, UartReceives, Stopped,
       vars, sched
  <2> QED
    BY <1>z, <2>1 DEF Context
<1> QED
  BY <1>3, <1>4, <1>5, <1>6, <1>7, <1>9, <1>10, <1>11, <1>12, <1>13, <1>14,
     <1>15, <1>16, <1>17, <1>18, <1>19, <1>20, <1>21
     DEF Next, Syscall, Kernel

(* A waiting task keeps its registers until it runs again.                 *)
THEOREM ContextsPreserved == Spec => ContextPreserved
<1>1. Inv /\ [Next]_vars =>
        [\A t \in Task : (/\ current # NULL /\ t # current
                          /\ state[t] = "READY"
                          /\ state'[t] \in Runnable)
                         => Context(t)' = Context(t)]_vars
  BY ContextStep
<1> QED
  BY <1>1, Invariance, PTL DEF Spec, ContextPreserved

(* A position determines, and is determined by, the member there.          *)
LEMMA PosUnique ==
    ASSUME NEW q \in Seq(Task), Distinct(q), NEW i \in 1..Len(q)
    PROVE  Pos(q, q[i]) = i
<1>1. On(q, q[i])
  BY DEF On
<1> QED
  BY <1>1, PosFinds DEF Distinct

(* task_schedule() brings every other waiting task one turn closer.        *)
LEMMA ScheduleAdvances ==
    ASSUME Inv, mode = "user", NEW f \in [Task -> Regs], task_schedule(f),
           NEW t \in Task, state[t] = "READY", state'[t] = "READY",
           t # current, current' # current
    PROVE  Ahead(t)' = Ahead(t) /\ Turns(t)' < Turns(t)
<1> DEFINE q == run_queue
           i == Pos(q, current)
           w == IF i < Len(q) THEN i + 1 ELSE 1
           p == Pos(q, t)
<1>1. /\ q \in Seq(Task) /\ Distinct(q) /\ q' = q
      /\ On(q, current) /\ On(q, t) /\ Len(q) \in Nat
  BY QueueFacts, CurrentFacts DEF UserMode, Runnable, task_schedule
<1>2. /\ i \in 1..Len(q) /\ q[i] = current
      /\ p \in 1..Len(q) /\ q[p] = t
  BY <1>1, PosFinds
<1>3. current' = q[w] /\ state'[q[w]] = "RUNNING"
  BY ScheduleFacts
<1>4. w \in 1..Len(q) /\ Pos(q, q[w]) = w
  BY <1>1, <1>2, PosUnique
<1>5. p # w /\ p # i /\ w # i
  BY <1>2, <1>3
<1>6. /\ Ahead(t) = p /\ Ahead(t)' = p
      /\ Turns(t) = Distance(Len(q), i, p)
      /\ Turns(t)' = Distance(Len(q), w, p)
  <2>1. Ahead(t)' = p
    BY <1>1 DEF Ahead
  <2>2. Pos(run_queue, current)' = w
    BY <1>1, <1>3, <1>4
  <2> QED
    BY <1>1, <2>1, <2>2 DEF Ahead, Turns
<1> HIDE DEF p, i, q
<1>7. Distance(Len(q), w, p) < Distance(Len(q), i, p)
  BY <1>1, <1>2, <1>4, <1>5 DEF Distance
<1> QED
  BY <1>6, <1>7

(* An exit brings every waiting task closer: those behind the dead task    *)
(* move up, those before it are met sooner by the scan from the head.      *)
LEMMA ExitAdvances ==
    ASSUME Inv, sys_exit, NEW t \in Task, state[t] = "READY",
           state'[t] = "READY", t # current, current' # NULL
    PROVE  \/ Ahead(t)' < Ahead(t)
           \/ Ahead(t)' = Ahead(t) /\ Turns(t)' < Turns(t)
<1> USE SchedAssumption
<1> DEFINE q == run_queue
           r == list_del(q, current)
           i == Pos(q, current)
           p == Pos(q, t)
           k == IF p < i THEN p ELSE p - 1
<1>1. /\ q \in Seq(Task) /\ Distinct(q) /\ q' = r /\ Len(q) \in Nat
      /\ On(q, current) /\ On(q, t)
  BY QueueFacts, ExitFacts DEF Runnable
<1>2. /\ i \in 1..Len(q) /\ q[i] = current
      /\ p \in 1..Len(q) /\ q[p] = t
  BY <1>1, PosFinds
<1>3. p # i
  BY <1>2
<1>4. /\ r \in Seq(Task) /\ Distinct(r) /\ Len(r) = Len(q) - 1
      /\ \A j \in 1..Len(r) : r[j] = IF j < i THEN q[j] ELSE q[j + 1]
  BY <1>1, ListDel
<1> HIDE DEF p, i, q, r
<1>5. k \in 1..Len(r) /\ r[k] = t
  BY <1>1, <1>2, <1>3, <1>4
<1>6. Pos(r, t) = k
  BY <1>4, <1>5, PosUnique
<1>7. current' = r[1] /\ state'[r[1]] = "RUNNING" /\ Len(r) > 0
  <2>1. PICK next \in Task : /\ Len(run_queue') > 0 /\ next = run_queue'[1]
                             /\ next # current
                             /\ state' = [state EXCEPT ![current] = "ZOMBIE",
                                                       ![next] = "RUNNING"]
                             /\ current' = next
    BY ExitFacts
  <2>2. state'[next] = "RUNNING"
    BY <2>1 DEF Inv, TypeOK
  <2> QED
    BY <1>1, <2>1, <2>2 DEF q
<1>8. Pos(r, r[1]) = 1 /\ k # 1
  BY <1>4, <1>5, <1>7, PosUnique
<1>9. /\ Ahead(t) = p /\ Turns(t) = Distance(Len(q), i, p)
      /\ Ahead(t)' = k /\ Turns(t)' = Distance(Len(r), 1, k)
  <2>1. Ahead(t)' = k
    BY <1>1, <1>6 DEF Ahead, q
  <2>2. Pos(run_queue, current)' = 1
    BY <1>1, <1>7, <1>8 DEF q
  <2> QED
    BY <1>1, <2>1, <2>2 DEF Ahead, Turns, p, i, q
<1>10. CASE p > i
  BY <1>2, <1>9, <1>10
<1>11. CASE p < i
  <2>1. Distance(Len(r), 1, k) < Distance(Len(q), i, p)
    BY <1>1, <1>2, <1>4, <1>5, <1>8, <1>11 DEF Distance
  <2> QED
    BY <1>9, <1>11, <2>1
<1> QED
  BY <1>2, <1>3, <1>10, <1>11

(* Every switch brings every waiting task closer to its turn.              *)
THEOREM BoundedBypass == Spec => WaitersAdvance
<1>1. ASSUME Inv, [Next]_vars, current # NULL, current' \notin {NULL, current},
             NEW t \in Task, state[t] = "READY", state'[t] = "READY",
             t # current
      PROVE  \/ Ahead(t)' < Ahead(t)
             \/ Ahead(t)' = Ahead(t) /\ Turns(t)' < Turns(t)
  <2> USE SchedAssumption, <1>1
  <2>z. mode \notin {"boot", "create"} /\ current' # current
    BY DEF Inv, HandlerLocals
  <2>1. CASE timer_interrupt
    BY <2>1, CurrentFacts, ScheduleAdvances DEF timer_interrupt, UserMode
  <2>2. CASE sys_yield
    <3>1. mode = "user" /\ mode \in UserMode
      BY <2>2 DEF sys_yield, Ecall, User, UserMode
    <3>2. [Trapped EXCEPT ![sscratch].a0 = 0] \in [Task -> Regs]
      BY <3>1, YieldFrame
    <3> QED
      BY <2>2, <3>1, <3>2, ScheduleAdvances DEF sys_yield
  <2>3. CASE read_retries
    BY <2>3, CurrentFacts, ScheduleAdvances DEF read_retries, User, UserMode
  <2>4. CASE sys_exit
    BY <2>4, ExitAdvances
  <2>5. CASE Boot
    BY <2>z, <2>5 DEF Boot, BootCreate, task_create_user, task_destroy,
       task_create_user_fails, timer_init, user_init_asserts, user_init
  <2>6. CASE \/ Compute \/ PrepareRead \/ sys_write \/ sys_getpid \/ sys_ps
             \/ sys_fork \/ sys_exec \/ sys_read \/ Kernel \/ Fault
             \/ TimerExpires \/ UartReceives \/ Stopped \/ UNCHANGED vars
    <3>1. current' = current
      BY <2>6 DEF Compute, PrepareRead, sys_write, sys_getpid, sys_ps,
         sys_fork, sys_exec, sys_read, Kernel, task_fork, task_fork_fails,
         exec_fails, exec_loads, read_char, read_full, Fault, TimerExpires,
         UartReceives, Stopped, vars, sched
    <3> QED
      BY <2>z, <3>1
  <2> QED
    BY <2>1, <2>2, <2>3, <2>4, <2>5, <2>6 DEF Next, Syscall
<1>2. Inv /\ [Next]_vars =>
        [(current # NULL /\ current' \notin {NULL, current}) =>
           \A t \in Task : (state[t] = "READY" /\ state'[t] = "READY"
                              /\ t # current) =>
             \/ Ahead(t)' < Ahead(t)
             \/ Ahead(t)' = Ahead(t) /\ Turns(t)' < Turns(t)]_vars
  BY <1>1
<1> QED
  BY <1>2, Invariance, PTL DEF Spec, WaitersAdvance

=============================================================================
