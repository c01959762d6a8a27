----------------------------- MODULE TaskMemory -----------------------------
(***************************************************************************)
(* The memory of the tasks of KuroOS: which page is whose, from task       *)
(* creation, fork and exec to exit and reaping, with every error path.     *)
(* kernel/task.c, kernel/exec.c, kernel/pgtable.c, kernel/vm.c and the     *)
(* interface of kernel/page.c and kernel/kmalloc.c.                        *)
(*                                                                         *)
(* An operation is a sequence of steps, one per page allocation, so that   *)
(* memory can run out at each.  No other task runs in between (Sched), so  *)
(* the only state besides the tasks is the operation under way, op.        *)
(* Scheduling is reduced to its effect here: zombies are reaped, and any   *)
(* live task may be next.                                                  *)
(***************************************************************************)
EXTENDS Integers, Sequences, FiniteSets

CONSTANTS
    Page,           \* the pages the machine may have
    Sizes,          \* the sets of pages the machine may really have
    page_alloc(_),  \* those of the free pages S that page_alloc may return
    Task,           \* the places for a struct task
    kmalloc(_),     \* those of the free places S that kmalloc may return
    NULL,
    SlotsPerPage,   \* the struct tasks that fit in one heap page
    ImagePages,     \* user_image_size / PAGE_SIZE of the built-in programs
    Elfs,           \* the programs of the initrd: the image pages their
                    \* segments are loaded to, in order
    KernelTables,   \* page-table pages vm_map_kernel() needs
    Written,        \* the virtual pages that user code writes to
    MaxLost         \* bound: no exec once more pages than this are lost

ASSUME MemoryAssumption ==
    /\ NULL \notin Page /\ NULL \notin Task
    /\ Sizes \subseteq SUBSET Page
    /\ \A S \in SUBSET Task : kmalloc(S) \subseteq S
    /\ SlotsPerPage \in Nat
    /\ ImagePages \in Nat \ {0}
    /\ Elfs \subseteq Seq(0..(ImagePages - 1))
    /\ KernelTables \in Nat
    /\ Written \subseteq 0..ImagePages
    /\ MaxLost \in Nat

(* Virtual pages: the image pages from USER_TEXT_BASE on, the stack page,  *)
(* and the page at USER_STACK_TOP, where user_sp points.                   *)
Text  == 0..(ImagePages - 1)
STACK == ImagePages
TOP   == ImagePages + 1
VPage == 0..TOP

(* Pages of one leaf table: the image pages share one, the stack has one.  *)
Region(v) == IF v \in Text THEN "text" ELSE "stack"

(* What a page holds: whatever the last owner or the free list left there, *)
(* zeroes, a program's image, or what user code wrote.                     *)
Content == {"junk", "zero", "image", "user"}

VARIABLES
    ram,        \* the pages the machine has
    free,       \* how often a page is on the free list
    heap,       \* the pages kmalloc has taken, for good
    data,       \* what a page holds
    task,       \* the struct tasks
    current,
    satp,       \* the root of the page table in use; NULL: the kernel's
    boot,       \* the task-creating step of kernel_main that comes next
    mode,       \* "kernel", "user", or stopped: "off", "panic", "assert"
    op,         \* the operation under way
    lost        \* history: pages exec has dropped without freeing them

vars == <<ram, free, heap, data, task, current, satp, boot, mode, op, lost>>

(* A page table: its root, the other tables and what it maps.              *)
NoTable == [root |-> NULL, tables |-> {}, regions |-> {},
            map |-> [v \in VPage |-> NULL]]
NoTask  == [state |-> "FREE", ustack |-> NULL, kstack |-> NULL,
            pt |-> NoTable, size |-> 0]

(* An operation: its kind, where it is, the task it builds, its local      *)
(* variables, and how much of a loop is done.                              *)
NoOp == [kind |-> "none", at |-> "done", t |-> NULL, ustack |-> NULL,
         kstack |-> NULL, page |-> NULL, pt |-> NoTable, n |-> 0,
         elf |-> << >>]

CREATE_TEST  == 0
DESTROY_TEST == 1
CREATE_INIT  == 2
CREATE_DEMO  == 3
ENTER_USER   == 4
BOOTED       == 5

-----------------------------------------------------------------------------
(* The allocators and the page tables.                                     *)

Available == {p \in Page : free[p] > 0}

(* The free list with the pages of S put back once each.                   *)
page_free(f, S) == [p \in Page |-> IF p \in S THEN f[p] + 1 ELSE f[p]]

(* The free list without page p.                                           *)
Taken(f, p) == [f EXCEPT ![p] = @ - 1]

(* The user pages a page table maps.                                       *)
Mapped(pt) == {pt.map[v] : v \in VPage} \ {NULL}

(* task_free_user_pages(): the first n image pages a page table maps.      *)
ImageOf(pt, n) == {pt.map[v] : v \in {u \in Text : u < n}} \ {NULL}

(* Fault: only the root is freed.                                          *)
pgtable_free_walk_root(f, pt) == page_free(f, {pt.root} \ {NULL})

(* pgtable_free_walk() frees the tables and not the pages they map.        *)
pgtable_free_walk(f, pt) ==
    page_free(page_free(f, pt.tables), {pt.root} \ {NULL})

Table(pt, p) == [pt EXCEPT !.tables = @ \union {p}]

(* The leaf table of v is there: pgtable_map() only writes the entry.      *)
Reaches(pt, v) == Region(v) \in pt.regions

AddRegion(pt, v, p) == [Table(pt, p) EXCEPT !.regions = @ \union {Region(v)}]

SetEntry(pt, v, p) == [pt EXCEPT !.map[v] = p]

(* Fault: all mapped pages are freed, the stack a second time.             *)
task_free_twice(f, r) ==
    pgtable_free_walk(
        page_free(page_free(page_free(f, {r.ustack} \ {NULL}), Mapped(r.pt)),
                  {r.kstack} \ {NULL}),
        r.pt)

(* task_free(): the stacks, the image pages that are accounted for, and    *)
(* the page table.                                                         *)
task_free(f, r) ==
    pgtable_free_walk(
        page_free(page_free(page_free(f, {r.ustack} \ {NULL}),
                            ImageOf(r.pt, r.size)),
                  {r.kstack} \ {NULL}),
        r.pt)

-----------------------------------------------------------------------------
Init ==
    \E S \in Sizes : \E h \in S \intersect page_alloc(S) :
        /\ ram = S
        /\ free = [p \in Page |-> IF p \in S \ {h} THEN 1 ELSE 0]
        /\ heap = {h}       \* kmalloc_test() has run
        /\ lost = {}
        /\ data = [p \in Page |-> "junk"]
        /\ task = [t \in Task |-> NoTask]
        /\ current = NULL
        /\ satp = NULL
        /\ boot = CREATE_TEST
        /\ mode = "kernel"
        /\ op = NoOp

(* The pages of S hold what the free list leaves in them.                  *)
Junk(S) == [p \in Page |-> IF p \in S THEN "junk" ELSE data[p]]

Goes(at) == op' = [op EXCEPT !.at = at]

(* The operation takes a page: Take(p) of the free ones, or it fails.      *)
Take(p) == p \in Available \intersect page_alloc(Available)
           /\ free' = Taken(free, p)
Fails   == Available = {} /\ Goes("abort") /\ UNCHANGED free

-----------------------------------------------------------------------------
(* The life of a task outside the operations.                              *)

BootCreate ==
    /\ mode = "kernel" /\ op = NoOp
    /\ boot \in {CREATE_TEST, CREATE_INIT, CREATE_DEMO}
    /\ op' = [NoOp EXCEPT !.kind = "create", !.at = "reap"]
    /\ UNCHANGED <<ram, free, heap, data, task, current, satp, boot, mode, lost>>

task_destroy ==
    /\ mode = "kernel" /\ op = NoOp
    /\ boot = DESTROY_TEST
    /\ \E t \in Task :
           /\ task[t].state = "LIVE"
           /\ free' = task_free(free, task[t])
           /\ data' = Junk(Mapped(task[t].pt))
           /\ task' = [task EXCEPT ![t] = NoTask]
    /\ boot' = CREATE_INIT
    /\ UNCHANGED <<ram, heap, current, satp, mode, op, lost>>

(* Fault: no vm_switch().                                                  *)
Run_no_switch(t) == current' = t /\ mode' = "user"
                    /\ satp' = IF satp = NULL THEN task[t].pt.root ELSE satp

(* task_set_current(), with the address space of t.                        *)
Run(t) == current' = t /\ satp' = task[t].pt.root /\ mode' = "user"

(* The first task to run: the two there are differ in nothing but entry.   *)
(* Both are there: had init failed, demo, which needs as many pages, would *)
(* have failed too, so the assertion on init needs no step of its own.     *)
user_init ==
    /\ mode = "kernel" /\ op = NoOp
    /\ boot = ENTER_USER
    /\ \E t, u \in Task : /\ t # u
                          /\ task[t].state = "LIVE" /\ task[u].state = "LIVE"
                          /\ Run(t)
    /\ boot' = BOOTED
    /\ UNCHANGED <<ram, free, heap, data, task, op, lost>>

(* User code writes to its image or its stack.                             *)
UserWrites ==
    /\ mode = "user"
    /\ \E v \in Written : LET p == task[current].pt.map[v]
                          IN  p # NULL /\ data' = [data EXCEPT ![p] = "user"]
    /\ UNCHANGED <<ram, free, heap, task, current, satp, boot, mode, op, lost>>

(* A trap starts an operation: fork, exec, or a call of task_schedule().   *)
Trap ==
    /\ mode = "user"
    /\ \E k \in {"fork", "exec", "sched"} :
           /\ k = "exec" => Cardinality(lost) <= MaxLost
           /\ op' = [NoOp EXCEPT !.kind = k,
                                 !.at = IF k = "exec" THEN "find" ELSE "reap"]
    /\ mode' = "kernel"
    /\ UNCHANGED <<ram, free, heap, data, task, current, satp, boot, lost>>

sys_exit ==
    /\ mode = "user"
    /\ task' = [task EXCEPT ![current].state = "ZOMBIE"]
    /\ LET Rest == {t \in Task \ {current} : task[t].state = "LIVE"}
       IN  \/ \E t \in Rest : Run(t)
           \/ Rest = {} /\ current' = NULL /\ mode' = "off" /\ UNCHANGED satp
    /\ UNCHANGED <<ram, free, heap, data, boot, op, lost>>

(* One turn of task_reap_zombies().  The pages of a program that exec      *)
(* loaded are not accounted for in user_image_size, nor is its stack in    *)
(* user_stack_base: they are lost.                                         *)
ReapOne ==
    /\ op.at = "reap"
    /\ \E t \in Task \ {current} :
           /\ task[t].state = "ZOMBIE"
           /\ free' = task_free(free, task[t])
           /\ data' = Junk(Mapped(task[t].pt))
           /\ task' = [task EXCEPT ![t] = NoTask]
           /\ lost' = lost \union (IF task[t].size = 0
                                   THEN Mapped(task[t].pt) \ {task[t].ustack}
                                   ELSE {})
    /\ UNCHANGED <<ram, heap, current, satp, boot, mode, op>>

ReapDone ==
    /\ op.at = "reap"
    /\ \A t \in Task \ {current} : task[t].state # "ZOMBIE"
    /\ Goes(IF op.kind = "sched" THEN "pick" ELSE "struct")
    /\ UNCHANGED <<ram, free, heap, data, task, current, satp, boot, mode, lost>>

Pick ==
    /\ op.at = "pick"
    /\ \E t \in Task : task[t].state = "LIVE" /\ Run(t)
    /\ op' = NoOp
    /\ UNCHANGED <<ram, free, heap, data, task, boot, lost>>

-----------------------------------------------------------------------------
(* task_create_user(), task_fork() and sys_exec().                         *)

(* kmalloc() of the struct task; the heap grows by a page when it is full. *)
AllocStruct ==
    LET Used == {t \in Task : task[t].state # "FREE"}
        room == Cardinality(Used) < SlotsPerPage * Cardinality(heap)
    IN  /\ op.at = "struct"
        /\ \/ /\ room
              /\ \E t \in kmalloc(Task \ Used) :
                     /\ task' = [task EXCEPT ![t].state = "UNUSED"]
                     /\ op' = [op EXCEPT !.t = t, !.at = "ustack"]
              /\ UNCHANGED <<free, heap>>
           \/ /\ ~room
              /\ \E p \in Page : Take(p) /\ heap' = heap \union {p}
              /\ UNCHANGED <<task, op>>
           \/ /\ ~room
              /\ Fails
              /\ UNCHANGED <<heap, task>>
        /\ UNCHANGED <<ram, data, current, satp, boot, mode, lost>>

(* The two stacks and the root are allocated first, and checked together;  *)
(* exec starts with the root.                                              *)
NoStacks == op.kind # "exec" /\ NULL \in {op.ustack, op.kstack}

AllocParts ==
    /\ op.at \in {"ustack", "kstack", "root"}
    /\ \E p \in Page \union {NULL} :
           /\ \/ Take(p)
              \/ p = NULL /\ Available = {} /\ UNCHANGED free
           /\ op' = CASE op.at = "ustack" ->
                           [op EXCEPT !.ustack = p, !.at = "kstack"]
                      [] op.at = "kstack" ->
                           [op EXCEPT !.kstack = p, !.at = "root"]
                      [] op.at = "root" ->
                           [op EXCEPT !.pt.root = p,
                                      !.at = IF p = NULL \/ NoStacks
                                             THEN "abort" ELSE "kernel"]
    /\ UNCHANGED <<ram, heap, data, task, current, satp, boot, mode, lost>>

(* vm_map_kernel(): the tables that map RAM and the UART.                  *)
MapKernel ==
    /\ op.at = "kernel"
    /\ \/ /\ op.n < KernelTables
          /\ \E p \in Page :
                 /\ Take(p)
                 /\ op' = [op EXCEPT !.pt = Table(@, p), !.n = @ + 1]
       \/ op.n < KernelTables /\ Fails
       \/ /\ op.n = KernelTables
          /\ op' = [op EXCEPT !.n = 0, !.at = "image"]
          /\ UNCHANGED free
    /\ UNCHANGED <<ram, heap, data, task, current, satp, boot, mode, lost>>

(* Fault: fork copies one page too few.                                    *)
ImageSize_short == CASE op.kind = "create" -> ImagePages
                     [] op.kind = "exec"   -> Len(op.elf)
                     [] OTHER -> IF task[current].size = 0 THEN 0
                                 ELSE task[current].size - 1

(* The size of the image: __user_end - __user_start, the ELF file's, or    *)
(* the parent's user_image_size.                                           *)
ImageSize == CASE op.kind = "create" -> ImagePages
               [] op.kind = "exec"   -> Len(op.elf)
               [] OTHER              -> task[current].size

(* The image page that is loaded next.                                     *)
Target == IF op.kind = "exec" THEN op.elf[op.n + 1] ELSE op.n

(* A fork skips the pages its parent does not have.                        *)
Skipped == op.kind = "fork" /\ task[current].pt.map[op.n] = NULL

(* The next image page is allocated and filled.                            *)
LoadPage ==
    /\ op.at = "image"
    /\ op.n < ImageSize
    /\ IF Skipped
       THEN op' = [op EXCEPT !.n = @ + 1] /\ UNCHANGED <<free, data>>
       ELSE \/ \E p \in Page :
                   /\ Take(p)
                   /\ data' = [data EXCEPT ![p] =
                                 IF op.kind = "fork"
                                 THEN data[task[current].pt.map[op.n]]
                                 ELSE "image"]
                   /\ op' = [op EXCEPT !.page = p, !.at = "imagemap"]
            \/ Fails /\ UNCHANGED data
    /\ UNCHANGED <<ram, heap, task, current, satp, boot, mode, lost>>

(* An ELF file with entry point 0 is given up once it is loaded.           *)
ImageDone ==
    /\ op.at = "image"
    /\ op.n = ImageSize
    /\ \/ Goes(IF op.kind = "exec" THEN "newstack" ELSE "stack")
       \/ op.kind = "exec" /\ Goes("abort")
    /\ UNCHANGED <<ram, free, heap, data, task, current, satp, boot, mode, lost>>

(* pgtable_map() of the page just filled, or of the stack: a missing leaf  *)
(* table is allocated first; an entry that is there already (two segments  *)
(* of a program in one page) is an error.                                  *)
pgtable_map ==
    /\ op.at \in {"imagemap", "stackmap"}
    /\ LET v == IF op.at = "imagemap" THEN Target ELSE STACK
           p == IF op.at = "imagemap" THEN op.page ELSE op.ustack
       IN  \/ /\ Reaches(op.pt, v)
              /\ op.pt.map[v] = NULL
              /\ op' = IF op.at = "imagemap"
                       THEN [op EXCEPT !.pt = SetEntry(@, v, p), !.page = NULL,
                                       !.n = @ + 1, !.at = "image"]
                       ELSE [op EXCEPT !.pt = SetEntry(@, v, p),
                                       !.at = "commit"]
              /\ UNCHANGED free
           \/ /\ ~Reaches(op.pt, v)
              /\ \E q \in Page :
                     /\ Take(q)
                     /\ op' = [op EXCEPT !.pt = AddRegion(@, v, q)]
           \/ ~Reaches(op.pt, v) /\ Fails
           \/ op.pt.map[v] # NULL /\ Goes("abort") /\ UNCHANGED free
    /\ UNCHANGED <<ram, heap, data, task, current, satp, boot, mode, lost>>

(* The stack page: exec allocates it only now; creation and exec zero it;  *)
(* fork copies the parent's page at user_sp, if there is one.              *)
NewStack ==
    /\ op.at = "newstack"
    /\ \/ \E p \in Page :
              Take(p) /\ op' = [op EXCEPT !.ustack = p, !.at = "stack"]
       \/ Fails
    /\ UNCHANGED <<ram, heap, data, task, current, satp, boot, mode, lost>>

(* Fault: fork does not zero the stack when it has nothing to copy.        *)
FillStack_no_zero ==
    /\ op.at = "stack"
    /\ data' = [data EXCEPT ![op.ustack] =
                  IF op.kind = "fork" THEN @ ELSE "zero"]
    /\ Goes("stackmap")
    /\ UNCHANGED <<ram, free, heap, task, current, satp, boot, mode, lost>>

FillStack ==
    /\ op.at = "stack"
    /\ LET src == IF op.kind = "fork" THEN task[current].pt.map[TOP] ELSE NULL
       IN  data' = [data EXCEPT ![op.ustack] =
                      IF src = NULL THEN "zero" ELSE data[src]]
    /\ Goes("stackmap")
    /\ UNCHANGED <<ram, free, heap, task, current, satp, boot, mode, lost>>

(* The new task is complete.                                               *)
Publish ==
    /\ op.at = "commit"
    /\ op.kind \in {"create", "fork"}
    /\ task' = [task EXCEPT ![op.t] =
                  [state |-> "LIVE", ustack |-> op.ustack,
                   kstack |-> op.kstack, pt |-> op.pt, size |-> ImageSize]]
    /\ IF op.kind = "create" THEN boot' = boot + 1 /\ UNCHANGED mode
                             ELSE mode' = "user" /\ UNCHANGED boot
    /\ op' = NoOp
    /\ UNCHANGED <<ram, free, heap, data, current, satp, lost>>

(* The error paths.  They free the page that could not be mapped, the      *)
(* image pages mapped so far, the stacks and the tables, and the struct;   *)
(* exec does not free the image pages.  A boot-time task that is missing   *)
(* is asserted against, by user_init() once it has tried to create both.   *)
Abort ==
    LET img == ImageOf(op.pt, op.n)
        fr  == page_free(free, {op.page, op.ustack, op.kstack} \ {NULL})
    IN  /\ op.at = "abort"
        /\ free' = pgtable_free_walk(
                       IF op.kind = "exec" THEN fr ELSE page_free(fr, img),
                       op.pt)
        /\ data' = Junk(Mapped(op.pt) \union {op.page, op.ustack})
        /\ lost' = IF op.kind = "exec" THEN lost \union Mapped(op.pt) ELSE lost
        /\ task' = IF op.t = NULL THEN task ELSE [task EXCEPT ![op.t] = NoTask]
        /\ mode' = IF op.kind # "create" THEN "user"
                   ELSE IF boot = CREATE_INIT THEN "kernel" ELSE "assert"
        /\ boot' = IF op.kind = "create" /\ boot = CREATE_INIT
                   THEN CREATE_DEMO ELSE boot
        /\ op' = NoOp
        /\ UNCHANGED <<ram, heap, current, satp>>

(* exec looks for the file: it may not be there, or not be a program.      *)
ExecFinds ==
    /\ op.at = "find"
    /\ \/ \E e \in Elfs : op' = [op EXCEPT !.elf = e, !.at = "root"]
       \/ Goes("abort")
    /\ UNCHANGED <<ram, free, heap, data, task, current, satp, boot, mode, lost>>

(* exec succeeds: the task gets the new address space, the old one is      *)
(* dropped except for the stack page in user_stack_base, and the message   *)
(* reads the file name, at some page v of the old address space, through   *)
(* the new page table.                                                     *)
ExecCommits ==
    /\ op.at = "commit"
    /\ op.kind = "exec"
    /\ LET r == task[current]
       IN  /\ task' = [task EXCEPT ![current].pt = op.pt, ![current].size = 0]
           /\ lost' = lost \union {r.pt.root} \union r.pt.tables
                           \union (Mapped(r.pt) \ {r.ustack})
           /\ \E v \in VPage :
                  /\ r.pt.map[v] # NULL
                  /\ mode' = IF op.pt.map[v] = NULL THEN "panic" ELSE "user"
    /\ satp' = op.pt.root
    /\ op' = NoOp
    /\ UNCHANGED <<ram, free, heap, data, current, boot>>

Stopped == mode \in {"off", "panic", "assert"} /\ UNCHANGED vars

Life == BootCreate \/ task_destroy \/ user_init \/ UserWrites \/ Trap
        \/ sys_exit \/ ReapOne \/ ReapDone \/ Pick

Build == AllocStruct \/ AllocParts \/ MapKernel \/ LoadPage
         \/ ImageDone \/ pgtable_map \/ NewStack \/ FillStack \/ Publish
         \/ Abort \/ ExecFinds \/ ExecCommits

Next == Life \/ Build \/ Stopped

Spec == Init /\ [][Next]_vars

-----------------------------------------------------------------------------
(* Properties.                                                             *)

PageTable == [root : Page \union {NULL}, tables : SUBSET Page,
              regions : SUBSET {"text", "stack"},
              map : [VPage -> Page \union {NULL}]]

(* Every variable has its type; in particular no page is ever on the free  *)
(* list more than once, which page_free() does not check.                  *)
TypeOK ==
    /\ ram \in Sizes
    /\ free \in [Page -> {0, 1}]
    /\ heap \subseteq Page
    /\ data \in [Page -> Content]
    /\ task \in [Task -> [state : {"FREE", "UNUSED", "LIVE", "ZOMBIE"},
                          ustack : Page \union {NULL},
                          kstack : Page \union {NULL},
                          pt : PageTable, size : 0..ImagePages]]
    /\ current \in Task \union {NULL}
    /\ satp \in Page \union {NULL}
    /\ boot \in 0..BOOTED
    /\ mode \in {"kernel", "user", "off", "panic", "assert"}
    /\ op.kind \in {"none", "create", "fork", "exec", "sched"}
    /\ op.t \in Task \union {NULL}
    /\ {op.ustack, op.kstack, op.page} \subseteq Page \union {NULL}
    /\ op.pt \in PageTable
    /\ op.n \in Nat
    /\ op.elf \in Elfs \union {<< >>}
    /\ lost \subseteq Page

(* What a task, or the operation under way, has pages for: the virtual     *)
(* pages, where the stack page is mapped and in user_stack_base at once    *)
(* (after exec these are two pages), the kernel stack and the tables.      *)
KSTACK == TOP + 1
ROOT   == TOP + 2
TABLE  == TOP + 3
Role   == 0..TABLE

Part(r, i) == CASE i = STACK  -> {r.ustack, r.pt.map[STACK]}
                [] i = KSTACK -> {r.kstack}
                [] i = ROOT   -> {r.pt.root}
                [] i = TABLE  -> r.pt.tables
                [] OTHER      -> {r.pt.map[i]}

PagesOf(r) == (UNION {Part(r, i) : i \in Role}) \ {NULL}

(* No page has two roles in r.                                             *)
Separate(r) == \A i, j \in Role : i < j => Part(r, i) \intersect Part(r, j)
                                               \subseteq {NULL}

(* The pages of the operation under way.                                   *)
InHand == PagesOf(op) \union ({op.page} \ {NULL})

Apart(S, T) == S \intersect T = {}

(* Every page of the machine is there for exactly one thing at any time,   *)
(* in the middle of an operation and after each of its error paths too:    *)
(* free, or in the heap, or held by one task or by the operation under way *)
(* in one role.  No page is shared, none is freed while it is held, none   *)
(* leaks, except the ones that exec drops.                                 *)
PagesPartitioned ==
    /\ Available \union heap \union lost \union InHand
          \union UNION {PagesOf(task[t]) : t \in Task} = ram
    /\ Apart(heap, Available)
    /\ Apart(lost, Available \union heap)
    /\ Apart(InHand, Available \union heap \union lost)
    /\ op.page \notin PagesOf(op) /\ Separate(op)
    /\ \A t \in Task :
           /\ Apart(PagesOf(task[t]),
                    Available \union heap \union lost \union InHand)
           /\ Separate(task[t])
           /\ \A u \in Task \ {t} : Apart(PagesOf(task[t]), PagesOf(task[u]))

(* The page table in use is always that of a task that is not yet freed,   *)
(* and in user mode it is the current task's, whatever exec did.           *)
SatpInUse ==
    /\ mode = "user" => satp = task[current].pt.root
    /\ satp # NULL =>
           \E t \in Task : task[t].state # "FREE" /\ task[t].pt.root = satp

(* No task sees what an earlier owner of a page, or the free list, left in *)
(* it: all pages mapped for user mode have been written first.             *)
NoStaleData ==
    \A t \in Task : task[t].state \in {"LIVE", "ZOMBIE"} =>
        \A p \in Mapped(task[t].pt) : data[p] # "junk"

(* The pages task_free() is told of.                                       *)
OwnPages(r) == {r.ustack, r.kstack, r.pt.root} \union r.pt.tables
                   \union ImageOf(r.pt, r.size)

Dies(t) == task[t].state \in {"LIVE", "ZOMBIE"} /\ task'[t].state = "FREE"

(* The step that makes the child of a fork of current.                     *)
Forks(t) == op.kind = "fork" /\ task[t].state = "UNUSED" /\ task'[t].state = "LIVE"

(* The child has the parent's page v, in a page of its own, as it is now.  *)
Copied(t, v) ==
    LET p == task[current].pt.map[v]
        q == task'[t].pt.map[v]
    IN  p # NULL => q # NULL /\ q # p /\ data'[q] = data[p]

(* fork() gives the child a copy of its own of every image page of the     *)
(* parent, as long as the parent runs the program it was created with.     *)
ForkCopiesImage ==
    [][\A t \in Task : Forks(t) /\ task[current].size # 0 =>
           \A v \in Text : Copied(t, v)]_vars

(* "Same user memory contents (copied page by page)": the stack page too.  *)
ForkCopiesStack == [][\A t \in Task : Forks(t) => Copied(t, STACK)]_vars

(* "Same user memory contents (copied page by page)": the image of a       *)
(* program that exec loaded too.                                           *)
ForkCopiesProgram ==
    [][\A t \in Task : Forks(t) => \A v \in Text : Copied(t, v)]_vars

(* "task_reap_zombies() -> resources and task structure freed": every page *)
(* a task has when it is reaped is free afterwards.                        *)
ReapFreesAll ==
    [][\A t \in Task : Dies(t) =>
           OwnPages(task[t]) \union Mapped(task[t].pt)
               \subseteq {p \in Page : free'[p] = 1}]_vars

=============================================================================
