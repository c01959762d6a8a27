------------------------ MODULE SchedRefinesProofs -------------------------
(***************************************************************************)
(* Sched implements Processes, for any set of tasks and any bounds: the    *)
(* initial states map to the initial state, and each step of the kernel to *)
(* a step of Processes or to none.                                         *)
(***************************************************************************)
EXTENDS SchedRefines, SchedProofs

(* A pid stands for one live task.                                         *)
CtxIs ==
    /\ Ctx = [p \in DOMAIN Ctx |-> Ctx[p]]
    /\ DOMAIN Ctx = {pid[t] : t \in LiveTasks}
    /\ \A t \in LiveTasks : Ctx[pid[t]] = Context(t)

LEMMA CtxFacts == Inv => CtxIs
<1> SUFFICES ASSUME Inv PROVE CtxIs
  OBVIOUS
<1>1. LiveTasks \subseteq all_tasks
  BY DEF Inv, RunQueueConsistent, LiveTasks
<1>2. ASSUME NEW t \in LiveTasks PROVE TaskOf(pid[t]) = t
  BY <1>1 DEF Inv, PidUnique, TaskOf
<1>3. DOMAIN Ctx = LivePids /\ LivePids = {pid[t] : t \in LiveTasks}
  BY DEF Ctx, LivePids
<1>4. ASSUME NEW t \in LiveTasks PROVE Ctx[pid[t]] = Context(t)
  <2>1. pid[t] \in LivePids
    BY <1>3
  <2>2. Ctx[pid[t]] = Context(TaskOf(pid[t]))
    BY <2>1 DEF Ctx
  <2> QED
    BY <1>2, <2>2
<1>5. Ctx = [p \in DOMAIN Ctx |-> Ctx[p]]
  BY DEF Ctx
<1> QED
  BY <1>3, <1>4, <1>5 DEF CtxIs

(* In the next state, too.                                                 *)
LEMMA CtxFactsNext == Inv' => CtxIs'
BY CtxFacts, PTL

(* The process that runs is the current task's.                            *)
RunningIs ==
    current # NULL => /\ current \in LiveTasks
                      /\ Running = pid[current]
                      /\ Running \in DOMAIN Ctx

LEMMA RunningIsCurrent == Inv => RunningIs
<1> SUFFICES ASSUME Inv PROVE RunningIs
  OBVIOUS
<1>1. current # NULL => current \in LiveTasks
  BY DEF Inv, TypeOK, CpuCoherent, LiveTasks, Runnable
<1>2. CtxIs
  BY CtxFacts
<1> QED
  BY <1>1, <1>2 DEF Running, CtxIs, RunningIs

LEMMA RunningIsCurrentNext == Inv' => RunningIs'
BY RunningIsCurrent, PTL

LEMMA RunningFacts ==
    ASSUME Inv
    PROVE  /\ current # NULL => /\ current \in LiveTasks
                                /\ Running = pid[current]
                                /\ Running \in DOMAIN Ctx
           /\ current = NULL => Running = NoPid
           /\ \A t \in LiveTasks : t # current => state[t] = "READY"
           /\ \A t \in LiveTasks : pid[t] \in 1..(next_pid - 1)
           /\ \A t, u \in LiveTasks : pid[t] = pid[u] => t = u
<1>1. LiveTasks \subseteq all_tasks
  BY DEF Inv, RunQueueConsistent, LiveTasks
<1>2. RunningIs
  BY RunningIsCurrent
<1>4. \A t \in LiveTasks : t # current => state[t] = "READY"
  BY DEF Inv, CpuCoherent, LiveTasks, Runnable
<1>5. \A t \in LiveTasks : pid[t] \in 1..(next_pid - 1)
  BY <1>1 DEF Inv, PidUnique
<1>6. \A t, u \in LiveTasks : pid[t] = pid[u] => t = u
  BY <1>1 DEF Inv, PidUnique
<1> QED
  BY <1>2, <1>4, <1>5, <1>6 DEF Running, RunningIs

(* The live tasks are the same after the step, each with its pid.          *)
SameLive == /\ LiveTasks' = LiveTasks
            /\ \A t \in LiveTasks : pid'[t] = pid[t]

LEMMA SameLiveFacts ==
    ASSUME Inv, Inv', SameLive
    PROVE  /\ DOMAIN Ctx' = DOMAIN Ctx
           /\ \A t \in LiveTasks : /\ Ctx[pid[t]] = Context(t)
                                   /\ Ctx'[pid[t]] = Context(t)'
           /\ \A p \in DOMAIN Ctx : \E t \in LiveTasks : p = pid[t]
           /\ Ctx' = [p \in DOMAIN Ctx |-> Ctx'[p]]
           /\ Ctx = [p \in DOMAIN Ctx |-> Ctx[p]]
<1>1. CtxIs /\ CtxIs'
  BY CtxFacts, CtxFactsNext
<1>2. {pid[t] : t \in LiveTasks} = {pid'[t] : t \in LiveTasks'}
  BY DEF SameLive
<1> QED
  BY <1>1, <1>2 DEF CtxIs, SameLive

(* Steps that no process notices.                                          *)
LEMMA Unnoticed ==
    ASSUME Inv, Inv', SameLive, \A t \in LiveTasks : Context(t)' = Context(t),
           current' = current, next_pid' = next_pid, Halted' = Halted
    PROVE  UNCHANGED P!vars
<1>1. Ctx' = Ctx
  BY SameLiveFacts
<1>2. Running' = Running
  BY RunningFacts DEF Running, SameLive
<1> QED
  BY <1>1, <1>2 DEF P!vars

(* Steps that only the process that runs notices.                          *)
LEMMA OnlyCurrent ==
    ASSUME Inv, Inv', SameLive, current # NULL, current' = current,
           \A t \in LiveTasks : t # current => Context(t)' = Context(t),
           next_pid' = next_pid, ~Halted
    PROVE  P!Next
<1>1. /\ Running' = Running /\ Running \in DOMAIN Ctx
      /\ Running = pid[current]
  BY RunningFacts DEF Running, SameLive
<1>2. DOMAIN Ctx' = DOMAIN Ctx
  BY SameLiveFacts
<1>3. \A p \in DOMAIN Ctx \ {Running} : Ctx'[p] = Ctx[p]
  BY <1>1, SameLiveFacts
<1>4. CASE ~Halted'
  BY <1>1, <1>2, <1>3, <1>4 DEF P!Next, P!Compute, P!Live, P!Keeps
<1>5. CASE Halted'
  BY <1>1, <1>2, <1>3, <1>5 DEF P!Next, P!Panic, P!Live, P!Keeps
<1> QED
  BY <1>4, <1>5

(* Another task runs; the one that ran keeps its context or gets a0 = 0.   *)
LEMMA OtherRuns ==
    ASSUME Inv, Inv', SameLive, current # NULL, current' # NULL,
           \A t \in LiveTasks : t # current => Context(t)' = Context(t),
           NEW cur, cur = current,
           Context(cur)' \in {Context(cur), [Context(cur) EXCEPT !.a0 = 0]},
           next_pid' = next_pid, ~Halted, ~Halted'
    PROVE  P!Next
<1>1. Running = pid[current] /\ Running \in DOMAIN Ctx /\ current \in LiveTasks
  BY RunningFacts
<1>2. Running' \in DOMAIN Ctx
  <2>1. current' \in LiveTasks' /\ Running' = pid'[current']
    BY RunningIsCurrentNext DEF RunningIs
  <2> QED
    BY <2>1, CtxFacts DEF SameLive, CtxIs
<1>3. Ctx' \in {Ctx, [Ctx EXCEPT ![Running].a0 = 0]}
  <2>1. \A p \in DOMAIN Ctx \ {Running} : Ctx'[p] = Ctx[p]
    BY <1>1, SameLiveFacts
  <2>2. Ctx'[Running] \in {Ctx[Running], [Ctx[Running] EXCEPT !.a0 = 0]}
    <3>1. /\ cur \in LiveTasks /\ Running = pid[cur]
          /\ Ctx[Running] = Context(cur) /\ Ctx'[Running] = Context(cur)'
      BY <1>1, SameLiveFacts
    <3> QED
      BY <3>1
  <2>3. CASE Ctx'[Running] = Ctx[Running]
    BY <2>1, <2>3, SameLiveFacts
  <2>4. CASE Ctx'[Running] = [Ctx[Running] EXCEPT !.a0 = 0]
    BY <1>1, <2>1, <2>4, SameLiveFacts
  <2> QED
    BY <2>2, <2>3, <2>4
<1> QED
  BY <1>1, <1>2, <1>3 DEF P!Next, P!Switch, P!Live

(* Steps that leave the states, the pids and the current task alone.       *)
LEMMA QuietRefines ==
    ASSUME Inv, Inv', [Next]_vars, current # NULL, ~Halted,
           UNCHANGED <<state, pid, current, next_pid>>
    PROVE  P!Next
<1>1. SameLive
  BY DEF SameLive, LiveTasks
<1>2. \A t \in LiveTasks : t # current => Context(t)' = Context(t)
  BY RunningFacts, ContextStep DEF LiveTasks
<1> QED
  BY <1>1, <1>2, OnlyCurrent

(* timer_interrupt(), sys_yield() and read() without input.                *)
LEMMA ScheduleRefines ==
    ASSUME Inv, Inv', [Next]_vars, mode = "user", mode' = mode,
           NEW f \in [Task -> Regs], task_schedule(f),
           f[current] \in {regs, [regs EXCEPT !.a0 = 0]}
    PROVE  P!Next
<1>1. current \in Task /\ current # NULL /\ ~Halted /\ ~Halted'
  BY CurrentFacts, SchedAssumption DEF UserMode, Halted
<1>2. PICK next \in Task :
        /\ state[next] \in Runnable
        /\ state' = [t \in Task |->
                       IF t = next THEN "RUNNING"
                       ELSE IF t = current THEN "READY"
                       ELSE IF state[t] = "ZOMBIE" THEN "FREE"
                       ELSE state[t]]
        /\ current' = next
        /\ pid' = [t \in Task |-> IF state[t] = "ZOMBIE" THEN 0 ELSE pid[t]]
        /\ \A t \in Task : t # next /\ state[t] # "ZOMBIE"
                             => frame'[t] = f[t]
        /\ regs' = f[next]
  BY ScheduleFacts
<1>3. state[current] = "RUNNING"
  BY <1>1 DEF Inv, CpuCoherent
<1>4. SameLive
  BY <1>2, <1>3 DEF SameLive, LiveTasks, Runnable
<1>5. \A t \in LiveTasks : t # current => Context(t)' = Context(t)
  BY <1>1, <1>4, RunningFacts, ContextStep DEF LiveTasks, SameLive
<1>6. PICK cur : cur = current
  OBVIOUS
<1>7. Context(cur)' = f[cur] /\ Context(cur) = regs
  <2>1. CASE next = cur
    BY <1>2, <1>6, <2>1 DEF Context
  <2>2. CASE next # cur
    BY <1>1, <1>2, <1>3, <1>6, <2>2 DEF Context
  <2> QED
    BY <2>1, <2>2
<1>8. next_pid' = next_pid /\ current' # NULL
  BY <1>2, SchedAssumption DEF task_schedule
<1>9. Context(cur)' \in {Context(cur), [Context(cur) EXCEPT !.a0 = 0]}
  BY <1>6, <1>7
<1> QED
  BY <1>1, <1>4, <1>5, <1>6, <1>8, <1>9, OtherRuns

LEMMA ExitRefines ==
    ASSUME Inv, Inv', [Next]_vars, sys_exit
    PROVE  P!Next
<1>1. /\ current \in Task /\ current # NULL /\ ~Halted
      /\ UNCHANGED <<pid, next_pid>>
  BY ExitFacts, SchedAssumption DEF sys_exit, Ecall, User, Halted
<1>2. /\ Running = pid[current] /\ Running \in DOMAIN Ctx
      /\ current \in LiveTasks
  BY <1>1, RunningFacts
<1>3. LiveTasks' = LiveTasks \ {current}
  BY <1>1, ExitFacts DEF LiveTasks, Runnable, Inv, TypeOK
<1>4. CtxIs /\ CtxIs'
  BY CtxFacts, CtxFactsNext
<1>5. DOMAIN Ctx' = DOMAIN Ctx \ {Running}
  BY <1>1, <1>2, <1>3, <1>4, RunningFacts DEF CtxIs
<1>6. ASSUME NEW t \in LiveTasks, t # current
      PROVE  Context(t)' = Context(t)
  BY <1>1, <1>3, <1>6, RunningFacts, ContextStep DEF LiveTasks
<1>7. Ctx' = [p \in DOMAIN Ctx \ {Running} |-> Ctx[p]]
  <2>1. ASSUME NEW p \in DOMAIN Ctx \ {Running}
        PROVE  Ctx'[p] = Ctx[p]
    <3>1. PICK t \in LiveTasks : p = pid[t] /\ t # current
      BY <1>2, <1>4 DEF CtxIs
    <3> QED
      BY <1>1, <1>3, <1>4, <1>6, <3>1 DEF CtxIs
  <2> QED
    BY <1>4, <1>5, <2>1 DEF CtxIs
<1>8. CASE current' = NULL
  <2>1. Halted' /\ LiveTasks' = {}
    <3>1. Len(run_queue') = 0 /\ mode' \in {"off", "panic"}
      BY <1>8, ExitFacts, SchedAssumption
    <3>2. \A t \in Task : state'[t] \in Runnable
                            <=> \E i \in 1..Len(run_queue') : run_queue'[i] = t
      BY DEF Inv, RunQueueConsistent
    <3> QED
      BY <3>1, <3>2 DEF Halted, LiveTasks
  <2>2. DOMAIN Ctx = {Running}
    BY <1>2, <1>4, <1>5, <2>1 DEF CtxIs
  <2>3. Running' = NoPid
    BY <1>8 DEF Running
  <2> QED
    BY <1>1, <1>2, <1>7, <2>1, <2>2, <2>3 DEF P!Next, P!Exit, P!Live, P!Only
<1>9. CASE current' # NULL
  <2>1. mode' = "user" /\ current' \in LiveTasks'
    BY <1>9, ExitFacts, RunningIsCurrentNext DEF RunningIs
  <2>2. ~Halted' /\ Running' \in DOMAIN Ctx \ {Running}
    BY <1>4, <1>5, <1>9, <2>1 DEF Halted, Running, CtxIs
  <2> QED
    BY <1>1, <1>2, <1>7, <2>2 DEF P!Next, P!Exit, P!Live, P!Only
<1> QED
  BY <1>8, <1>9

LEMMA ForkRefines ==
    ASSUME Inv, Inv', [Next]_vars, task_fork
    PROVE  P!Next
<1>1. /\ current \in Task /\ current # NULL /\ sscratch = current
      /\ state[current] = "RUNNING" /\ ~Halted
  BY CurrentFacts, SchedAssumption DEF task_fork, UserMode, Halted
<1>2. /\ mode' = "user" /\ ~Halted' /\ current' = current
      /\ child \in Task /\ state[child] = "UNUSED" /\ child # current
      /\ next_pid' = next_pid + 1 /\ next_pid \in Nat
      /\ pid' = [pid EXCEPT ![child] = next_pid]
      /\ state' = [state EXCEPT ![child] = "READY"]
  BY <1>1 DEF task_fork, Publish, Halted, Inv, TypeOK, HandlerLocals
<1>3. /\ Running = pid[current] /\ Running \in DOMAIN Ctx
      /\ current \in LiveTasks
  BY <1>1, RunningFacts
<1>4. /\ LiveTasks' = LiveTasks \union {child} /\ child \notin LiveTasks
      /\ pid'[child] = next_pid
      /\ \A t \in LiveTasks : pid'[t] = pid[t]
  BY <1>2 DEF LiveTasks, Runnable, Inv, TypeOK
<1>5. CtxIs /\ CtxIs'
  BY CtxFacts, CtxFactsNext
<1>6. DOMAIN Ctx' = DOMAIN Ctx \union {next_pid} /\ next_pid \notin DOMAIN Ctx
  BY <1>2, <1>4, <1>5, RunningFacts DEF CtxIs
<1>7. Running' = Running
  BY <1>1, <1>2, <1>3, <1>4 DEF Running
<1>8. ASSUME NEW t \in LiveTasks, t # current
      PROVE  Ctx'[pid[t]] = Ctx[pid[t]]
  <2>1. Context(t)' = Context(t)
    BY <1>1, <1>4, <1>8, RunningFacts, ContextStep DEF LiveTasks
  <2> QED
    BY <1>4, <1>5, <2>1 DEF CtxIs
<1> DEFINE cur == current
           f == [frame EXCEPT ![child] = [frame[cur] EXCEPT !.a0 = 0]]
           g == [f EXCEPT ![cur].a0 = next_pid]
<1>9. /\ frame \in [Task -> Regs]
      /\ frame' = [g EXCEPT ![cur] = Zero] /\ regs' = g[cur]
  BY <1>1 DEF task_fork, Returns, trap_return, Inv, TypeOK
<1>10. /\ frame'[child] = [frame[cur] EXCEPT !.a0 = 0]
       /\ regs' = [frame[cur] EXCEPT !.a0 = next_pid]
  BY <1>1, <1>2, <1>9
<1>11. Ctx[Running] = frame[cur]
  BY <1>3, <1>5 DEF CtxIs, Context, task_fork
<1>12. Ctx'[next_pid] = frame'[child]
  <2>1. PICK c : c = child
    OBVIOUS
  <2>2. Ctx'[pid'[c]] = Context(c)' /\ Context(c)' = frame'[c]
    BY <1>2, <1>4, <1>5, <2>1 DEF CtxIs, Context
  <2> QED
    BY <1>4, <2>1, <2>2
<1>13. Ctx'[Running] = regs'
  <2>1. PICK c : c = current
    OBVIOUS
  <2>2. Ctx'[pid'[c]] = Context(c)' /\ Context(c)' = regs'
    BY <1>2, <1>3, <1>4, <1>5, <2>1 DEF CtxIs, Context
  <2> QED
    BY <1>3, <1>4, <2>1, <2>2
<1> HIDE DEF f, g, cur
<1> DEFINE last == next_pid - 1 + 1
<1>14. last = next_pid /\ next_pid' - 1 = last /\ last # Running
  BY <1>2, <1>3, <1>6
<1> HIDE DEF last
<1>15. ASSUME NEW p \in DOMAIN Ctx \union {last}
       PROVE  Ctx'[p] = CASE p = last -> [Ctx[Running] EXCEPT !.a0 = 0]
                          [] p = Running -> [Ctx[Running] EXCEPT !.a0 = last]
                          [] OTHER -> Ctx[p]
  <2>1. CASE p = last
    <3>1. Ctx'[p] = [Ctx[Running] EXCEPT !.a0 = 0]
      BY <1>10, <1>11, <1>12, <1>14, <2>1
    <3> QED
      BY <1>14, <2>1, <3>1, Zenon
  <2>2. CASE p = Running
    <3>1. Ctx'[p] = [Ctx[Running] EXCEPT !.a0 = last]
      BY <1>10, <1>11, <1>13, <1>14, <2>2
    <3> QED
      BY <1>14, <2>2, <3>1, Zenon
  <2>3. CASE p # last /\ p # Running
    <3>1. Ctx'[p] = Ctx[p]
      BY <1>3, <1>5, <1>8, <1>14, <2>3 DEF CtxIs
    <3> QED
      BY <2>3, <3>1, Zenon
  <2> QED
    BY <2>1, <2>2, <2>3
<1>16. DOMAIN Ctx' = DOMAIN Ctx \union {last}
  BY <1>6, <1>14
<1>17. Ctx' = [p \in DOMAIN Ctx \union {last} |->
                 CASE p = last -> [Ctx[Running] EXCEPT !.a0 = 0]
                   [] p = Running -> [Ctx[Running] EXCEPT !.a0 = last]
                   [] OTHER -> Ctx[p]]
  <2>1. Ctx' = [p \in DOMAIN Ctx' |-> Ctx'[p]]
    BY <1>5 DEF CtxIs
  <2> QED
    BY <1>15, <1>16, <2>1, Zenon
<1>18. P!Fork
  BY <1>1, <1>2, <1>3, <1>7, <1>14, <1>17, Zenon DEF P!Fork, P!Live, last
<1> QED
  BY <1>18 DEF P!Next

(* Booting.                                                                *)
LEMMA CreateRefines ==
    ASSUME Inv, Inv', [Next]_vars, task_create_user
    PROVE  P!Next
<1>1. /\ current = NULL /\ current' = NULL /\ ~Halted /\ ~Halted'
      /\ child \in Task /\ state[child] = "UNUSED"
      /\ next_pid' = next_pid + 1 /\ next_pid \in Nat
      /\ pid' = [pid EXCEPT ![child] = next_pid]
      /\ state' = [state EXCEPT ![child] = "READY"]
      /\ frame' = [frame EXCEPT ![child] = Zero]
  BY DEF task_create_user, Publish, Halted, Inv, TypeOK, HandlerLocals
<1>2. /\ LiveTasks' = LiveTasks \union {child} /\ child \notin LiveTasks
      /\ pid'[child] = next_pid
      /\ \A t \in LiveTasks : pid'[t] = pid[t] /\ frame'[t] = frame[t]
  <2>1. state \in [Task -> State] /\ pid \in [Task -> Nat]
        /\ frame \in [Task -> Regs]
    BY DEF Inv, TypeOK
  <2> QED
    BY <1>1, <2>1 DEF LiveTasks, Runnable
<1>3. CtxIs /\ CtxIs'
  BY CtxFacts, CtxFactsNext
<1>4. DOMAIN Ctx' = DOMAIN Ctx \union {next_pid}
  BY <1>2, <1>3 DEF CtxIs
<1>5. ASSUME NEW p \in DOMAIN Ctx PROVE Ctx'[p] = Ctx[p]
  <2>1. PICK t \in LiveTasks : p = pid[t]
    BY <1>3 DEF CtxIs
  <2>2. Context(t)' = Context(t)
    BY <1>1, <1>2, SchedAssumption DEF Context, LiveTasks
  <2> QED
    BY <1>2, <1>3, <2>1, <2>2 DEF CtxIs
<1>6. Running = NoPid /\ Running' = NoPid
  BY <1>1 DEF Running
<1>7. (next_pid - 1) + 1 = next_pid /\ next_pid' - 1 = (next_pid - 1) + 1
  BY <1>1
<1> QED
  BY <1>1, <1>4, <1>5, <1>6, <1>7 DEF P!Next, P!Create, P!Live, P!Keeps

LEMMA DestroyRefines ==
    ASSUME Inv, Inv', [Next]_vars, task_destroy
    PROVE  P!Next
<1>1. /\ init \in Task /\ state[init] = "READY"
      /\ current = NULL /\ current' = NULL
      /\ state' = [state EXCEPT ![init] = "FREE"]
      /\ pid' = [pid EXCEPT ![init] = 0]
      /\ UNCHANGED <<frame, next_pid>>
      /\ mode = "boot"
  BY DEF task_destroy, Inv, HandlerLocals, DESTROY_TEST, BOOTED
<1>2. ~Halted /\ ~Halted'
  <2>1. On(run_queue, init) /\ nr_runnable_tasks = Len(run_queue)
        /\ run_queue \in Seq(Task)
    BY <1>1, QueueFacts DEF Runnable
  <2>2. nr_runnable_tasks > 0
    BY <2>1 DEF On
  <2> QED
    BY <1>1, <2>2, SchedAssumption DEF task_destroy, Halted
<1>3. /\ LiveTasks' = LiveTasks \ {init} /\ init \in LiveTasks
      /\ \A t \in LiveTasks \ {init} : pid'[t] = pid[t]
  BY <1>1 DEF LiveTasks, Runnable, Inv, TypeOK
<1>4. CtxIs /\ CtxIs'
  BY CtxFacts, CtxFactsNext
<1>5. pid[init] \in DOMAIN Ctx /\ DOMAIN Ctx' = DOMAIN Ctx \ {pid[init]}
  BY <1>3, <1>4, RunningFacts DEF CtxIs
<1>6. ASSUME NEW p \in DOMAIN Ctx \ {pid[init]} PROVE Ctx'[p] = Ctx[p]
  <2>1. PICK t \in LiveTasks \ {init} : p = pid[t]
    BY <1>4 DEF CtxIs
  <2>2. Context(t)' = Context(t)
    BY <1>1, <2>1, SchedAssumption DEF Context, LiveTasks
  <2> QED
    BY <1>3, <1>4, <2>1, <2>2 DEF CtxIs
<1>7. Ctx' = [p \in DOMAIN Ctx \ {pid[init]} |-> Ctx[p]]
  BY <1>4, <1>5, <1>6 DEF CtxIs
<1>8. Running = NoPid /\ Running' = NoPid
  BY <1>1 DEF Running
<1> QED
  BY <1>1, <1>2, <1>5, <1>7, <1>8 DEF P!Next, P!Destroy, P!Live, P!Only

LEMMA StartRefines ==
    ASSUME Inv, Inv', [Next]_vars, user_init
    PROVE  P!Next
<1>1. /\ init \in Task /\ state[init] = "READY"
      /\ current = NULL /\ current' = init /\ mode = "boot" /\ mode' = "user"
      /\ state' = [state EXCEPT ![init] = "RUNNING"]
      /\ UNCHANGED <<pid, frame, next_pid>>
  BY DEF user_init, Inv, HandlerLocals, ENTER_USER, BOOTED
<1>2. SameLive
  BY <1>1 DEF SameLive, LiveTasks, Runnable, Inv, TypeOK
<1>3. init \in LiveTasks /\ Running = NoPid /\ Running' = pid[init]
  BY <1>1, SchedAssumption DEF LiveTasks, Runnable, Running
<1>4. CtxIs
  BY CtxFacts
<1>5. \A p \in DOMAIN Ctx \ {pid[init]} : Ctx'[p] = Ctx[p]
  <2> SUFFICES ASSUME NEW p \in DOMAIN Ctx \ {pid[init]}
               PROVE  Ctx'[p] = Ctx[p]
    OBVIOUS
  <2>1. PICK t \in LiveTasks \ {init} : p = pid[t]
    BY <1>4 DEF CtxIs
  <2>2. Context(t)' = Context(t)
    BY <1>1, <2>1, SchedAssumption DEF Context, LiveTasks
  <2> QED
    BY <1>2, <2>1, <2>2, SameLiveFacts
<1>6. DOMAIN Ctx' = DOMAIN Ctx /\ pid[init] \in DOMAIN Ctx
  BY <1>2, <1>3, <1>4, SameLiveFacts DEF CtxIs
<1> QED
  BY <1>1, <1>3, <1>5, <1>6 DEF P!Next, P!Start, P!Live, P!Keeps, Halted

(* Reaping, and a struct task that is allocated, leave the live tasks and  *)
(* their frames alone.                                                     *)
ReapLeaves(f) ==
    /\ SameLive
    /\ \A t \in LiveTasks : frame'[t] = f[t]

LEMMA ReapLeavesOthers ==
    ASSUME Inv, NEW f, NEW c \in Task \union {NULL}, ReapAndAlloc(f, c)
    PROVE  ReapLeaves(f)
<1>1. /\ state \in [Task -> State] /\ all_tasks \subseteq Task
      /\ pid \in [Task -> Nat]
  BY DEF Inv, TypeOK
<1> DEFINE D  == Reaped(state)
           st == Freed(state, D, "FREE")
<1>2. \A t \in D : t \in Task /\ state[t] = "ZOMBIE"
  BY <1>1 DEF Reaped
<1>3. \A t \in Task : t \notin D => st[t] = state[t]
  BY DEF Freed
<1>4. \A t \in D : st[t] = "FREE"
  BY <1>2 DEF Freed
<1>5. c \in Task => st[c] = "FREE"
  <2>1. {t \in Task : st[t] = "FREE"} \in SUBSET Task
    OBVIOUS
  <2>2. kmalloc({t \in Task : st[t] = "FREE"})
          \subseteq {t \in Task : st[t] = "FREE"}
    BY <2>1, SchedAssumption
  <2>3. c \in kmalloc({t \in Task : st[t] = "FREE"}) \union {NULL}
    BY DEF ReapAndAlloc
  <2> QED
    BY <2>2, <2>3, SchedAssumption
<1>6. /\ state' = IF c = NULL THEN st ELSE [st EXCEPT ![c] = "UNUSED"]
      /\ pid' = Freed(pid, D, 0) /\ frame' = Freed(f, D, Zero)
  BY DEF ReapAndAlloc
<1>7. st = [t \in Task |-> st[t]]
  BY DEF Freed
<1> HIDE DEF st, D
<1>8. ASSUME NEW t \in Task
      PROVE  /\ state'[t] \in Runnable <=> state[t] \in Runnable
             /\ state[t] \in Runnable => t \notin D
  BY <1>2, <1>3, <1>4, <1>5, <1>6, <1>7 DEF Runnable
<1>9. \A t \in Task : t \notin D => pid'[t] = pid[t] /\ frame'[t] = f[t]
  BY <1>6 DEF Freed
<1> QED
  BY <1>8, <1>9 DEF ReapLeaves, SameLive, LiveTasks

(* While booting, what is reaped or under construction is not alive.       *)
LEMMA BootCreateRefines ==
    ASSUME Inv, Inv', BootCreate
    PROVE  UNCHANGED P!vars
<1>1. PICK c \in Task \union {NULL} : ReapAndAlloc(frame, c)
  BY DEF BootCreate
<1>2. /\ current = NULL /\ current' = NULL /\ next_pid' = next_pid
      /\ mode = "boot" /\ mode' = "create"
  BY DEF BootCreate, Inv, HandlerLocals
<1>3. ReapLeaves(frame)
  BY <1>1, ReapLeavesOthers
<1>4. SameLive /\ \A t \in LiveTasks : Context(t)' = Context(t)
  BY <1>2, <1>3, SchedAssumption DEF ReapLeaves, SameLive, Context, LiveTasks
<1> QED
  BY <1>2, <1>4, Unnoticed DEF Halted

LEMMA ForkStartsRefines ==
    ASSUME Inv, Inv', [Next]_vars, sys_fork
    PROVE  P!Next
<1>1. PICK c \in Task \union {NULL} : ReapAndAlloc(Trapped, c)
  BY DEF sys_fork
<1>2. /\ current' = current /\ next_pid' = next_pid /\ mode = "user"
      /\ current # NULL
  BY CurrentFacts, SchedAssumption DEF sys_fork, Ecall, User, UserMode
<1>3. SameLive
  BY <1>1, ReapLeavesOthers DEF ReapLeaves, SameLive
<1>4. \A t \in LiveTasks : t # current => Context(t)' = Context(t)
  BY <1>2, <1>3, RunningFacts, ContextStep DEF LiveTasks, SameLive
<1> QED
  BY <1>2, <1>3, <1>4, OnlyCurrent DEF Halted

LEMMA DiscardRefines ==
    ASSUME Inv, Inv', [Next]_vars, task_create_user_fails \/ task_fork_fails
    PROVE  [P!Next]_P!vars
<1>1. SameLive
  <2>1. /\ pid' = pid /\ Discard(child)
        /\ child \in Task \union {NULL} /\ state \in [Task -> State]
        /\ child \in Task => state[child] = "UNUSED"
    BY DEF task_create_user_fails, task_fork_fails, Inv, HandlerLocals, TypeOK
  <2> QED
    BY <2>1 DEF SameLive, LiveTasks, Discard, Runnable
<1>2. CASE task_create_user_fails
  <2>1. /\ current = NULL /\ current' = NULL /\ ~Halted
        /\ UNCHANGED <<next_pid, frame>>
    BY <1>2 DEF task_create_user_fails, Inv, HandlerLocals, Halted
  <2>2. \A t \in LiveTasks : Context(t)' = Context(t)
    BY <2>1, SchedAssumption DEF Context, LiveTasks
  <2>3. Ctx' = Ctx
    BY <1>1, <2>2, SameLiveFacts
  <2>4. Running = NoPid /\ Running' = NoPid
    BY <2>1 DEF Running
  <2>5. CASE Halted'
    BY <2>1, <2>3, <2>4, <2>5 DEF P!Next, P!Panic, P!Live, P!Keeps
  <2>6. CASE ~Halted'
    <3>1. current' = current /\ next_pid' = next_pid /\ Halted' = Halted
      BY <2>1, <2>6 DEF Halted
    <3> QED
      BY <1>1, <2>2, <3>1, Unnoticed
  <2> QED
    BY <2>5, <2>6
<1>3. CASE task_fork_fails
  <2>1. /\ current' = current /\ next_pid' = next_pid /\ ~Halted
        /\ current # NULL
    BY <1>3, CurrentFacts, SchedAssumption DEF task_fork_fails, UserMode, Halted
  <2>2. \A t \in LiveTasks : t # current => Context(t)' = Context(t)
    BY <1>1, <2>1, RunningFacts, ContextStep DEF LiveTasks, SameLive
  <2> QED
    BY <1>1, <2>1, <2>2, OnlyCurrent
<1> QED
  BY <1>2, <1>3

(* user_init() stops for want of its first task.                           *)
LEMMA UserInitAssertsRefines ==
    ASSUME Inv, Inv', [Next]_vars, user_init_asserts
    PROVE  P!Next
<1>1. /\ current = NULL /\ current' = NULL /\ ~Halted /\ Halted'
      /\ UNCHANGED <<state, pid, next_pid, frame>>
  BY DEF user_init_asserts, sched, Inv, HandlerLocals, Halted, ENTER_USER,
         BOOTED
<1>2. SameLive
  BY <1>1 DEF SameLive, LiveTasks
<1>3. \A t \in LiveTasks : Context(t)' = Context(t)
  BY <1>1, SchedAssumption DEF Context, LiveTasks
<1>4. Ctx' = Ctx
  BY <1>2, <1>3, SameLiveFacts
<1>5. Running = NoPid /\ Running' = NoPid
  BY <1>1 DEF Running
<1> QED
  BY <1>1, <1>4, <1>5 DEF P!Next, P!Panic, P!Live, P!Keeps

(* The timer and the UART are not processes.                               *)
LEMMA DeviceRefines ==
    ASSUME Inv, Inv',
           timer_init \/ TimerExpires \/ UartReceives \/ UNCHANGED vars
    PROVE  UNCHANGED P!vars
<1>1. /\ UNCHANGED <<state, pid, current, next_pid, regs, frame>>
      /\ UNCHANGED mode
  BY DEF timer_init, TimerExpires, UartReceives, vars, sched
<1>2. SameLive /\ \A t \in LiveTasks : Context(t)' = Context(t)
  BY <1>1 DEF SameLive, LiveTasks, Context
<1> QED
  BY <1>1, <1>2, Unnoticed DEF Halted

LEMMA StepRefines ==
    ASSUME Inv, Inv', [Next]_vars
    PROVE  [P!Next]_P!vars
<1>1. CASE \/ Compute \/ PrepareRead \/ sys_write \/ sys_getpid \/ sys_ps
           \/ sys_exec \/ exec_fails \/ exec_loads \/ sys_read \/ read_char
           \/ read_full \/ Fault
  <2>1. UNCHANGED <<state, pid, current, next_pid>> /\ mode \in UserMode
    BY <1>1 DEF Compute, PrepareRead, sys_write, sys_getpid, sys_ps, sys_exec,
                exec_fails, exec_loads, sys_read, read_char, read_full, Fault,
                Ecall, User, UserMode
  <2>2. current # NULL /\ ~Halted
    BY <2>1, CurrentFacts, SchedAssumption DEF Halted, UserMode
  <2> QED
    BY <2>1, <2>2, QuietRefines
<1>2. CASE timer_interrupt \/ sys_yield \/ read_retries
  <2>1. mode = "user" /\ mode' = mode /\ mode \in UserMode
    BY <1>2 DEF timer_interrupt, sys_yield, read_retries, Ecall, User, UserMode
  <2>2. /\ current \in Task /\ sscratch = current /\ Trapped \in [Task -> Regs]
        /\ Trapped[current] = regs
    BY <2>1, CurrentFacts DEF Trapped, Inv, TypeOK
  <2>3. CASE task_schedule(Trapped)
    BY <2>1, <2>2, <2>3, ScheduleRefines
  <2>4. CASE task_schedule([Trapped EXCEPT ![sscratch].a0 = 0])
    <3> DEFINE f == [Trapped EXCEPT ![sscratch].a0 = 0]
    <3>1. f \in [Task -> Regs]
      BY <2>1, YieldFrame
    <3>2. f[current] = [regs EXCEPT !.a0 = 0]
      BY <2>2
    <3>3. task_schedule(f)
      BY <2>4
    <3> HIDE DEF f
    <3> QED
      BY <2>1, <3>1, <3>2, <3>3, ScheduleRefines
  <2> QED
    BY <1>2, <2>3, <2>4 DEF timer_interrupt, sys_yield, read_retries
<1>3. CASE Boot
  BY <1>3, BootCreateRefines, CreateRefines, DiscardRefines, DestroyRefines,
     DeviceRefines, UserInitAssertsRefines, StartRefines DEF Boot
<1>4. CASE sys_fork \/ task_fork \/ task_fork_fails \/ sys_exit
  BY <1>4, ForkStartsRefines, ForkRefines, DiscardRefines, ExitRefines
<1>5. CASE TimerExpires \/ UartReceives \/ Stopped \/ UNCHANGED vars
  BY <1>5, DeviceRefines DEF Stopped
<1> QED
  BY <1>1, <1>2, <1>3, <1>4, <1>5 DEF Next, Syscall, Kernel

(* Every behaviour of the kernel is, to user code, one of processes that   *)
(* create, run and end each other as Processes allows.                     *)
THEOREM KernelImplementsProcesses == Spec => Refines
<1>1. Init => P!Init
  <2> SUFFICES ASSUME Init PROVE P!Init
    OBVIOUS
  <2>1. LiveTasks = {}
    BY DEF Init, LiveTasks, Runnable
  <2>2. LivePids = {}
    BY <2>1 DEF LivePids
  <2>3. Ctx = [p \in {} |-> 0]
    BY <2>2 DEF Ctx
  <2>4. Running = NoPid /\ next_pid - 1 = 0 /\ ~Halted
    BY DEF Init, Running, Halted
  <2> QED
    BY <2>3, <2>4 DEF P!Init
<1>2. Inv /\ Inv' /\ [Next]_vars => [P!Next]_P!vars
  BY StepRefines
<1> QED
  BY <1>1, <1>2, Invariance, PTL DEF Spec, Refines, P!Spec
=============================================================================
