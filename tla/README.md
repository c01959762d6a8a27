# KuroOS in TLA+

A verification development of KuroOS, a small operating system for one RISC-V
hart (QEMU `virt`, S-mode, Sv39): TLA+ modules translated from the C and
assembly sources, TLC configurations that check them on small instances, and
TLAPS proofs that hold for any number of tasks and any size of memory.

## The system

| Part | Source | State it keeps | Operations |
|---|---|---|---|
| task life cycle, scheduler | `kernel/task.c` | `current`, `next_pid`, `run_queue`, `all_tasks`, `nr_runnable_tasks`, the `struct task`s | create_user, destroy, fork, exit, schedule, pick_next, reap |
| system calls | `kernel/syscall.c` | locals of a running `sys_read()` | write, read, exit, yield, getpid, fork, ps, exec |
| trap path | `arch/riscv/trap.S`, `user.S`, `kernel/trap.c` | user registers, `sscratch`, `satp`, a frame per kernel stack | trap entry, dispatch, return |
| timer | `kernel/timer.c` | armed or pending | init, tick |
| boot | `kernel/main.c`, `kernel/user.c` | a pointer to the first task | create and destroy a test task, create init and demo, enter user mode |
| task memory | `kernel/task.c`, `kernel/exec.c` | the pages of each task | as above, page by page |
| page allocator | `kernel/page.c` | intrusive LIFO free list, two counters | alloc, free |
| kernel heap | `kernel/kmalloc.c` | list of blocks over pages | kmalloc (first fit, split, grow), kfree (merge) |
| page tables | `kernel/pgtable.c`, `kernel/vm.c` | three-level tables | create, walk, map, unmap, free_walk, map_kernel, switch |
| initrd | `kernel/initrd.c` | list of files | init (cpio walk), find |
| ELF loader | `kernel/exec.c` | none | verify, load |
| lists | `include/kernel/list.h` | links | add, add_tail, del, iterate |
| console | `drivers/uart.c`, `kernel/printk.c`, `user/printf.c` | device | putc, getc, has_data, formatting |

How they interact: user code reaches the kernel only by a trap; `trap_entry`
saves the registers on the kernel stack in `sscratch`, `trap_handler` calls a
system call or, on a timer interrupt, `task_schedule()`, and the frame that is
returned, which may be another task's, is restored. Fork, creation and exec
call the page allocator, the heap and the page tables; exec also calls the
initrd. The heap and the page tables take their pages from the page allocator,
which keeps its list inside the free pages. There are no locks: S-mode never enables interrupts.

What is hard: the kernel is one thread, but it interleaves with the timer, the
UART and user code at every trap; three pieces of hardware state (`satp`,
`sscratch`, the restored frame) have to change together with `current`; an
exiting task goes on running on its own kernel stack; a `read()` is retried by
executing its `ecall` again; and each of the long operations can fail at any
page allocation and has to undo what it did. Below that are data structures
held together by pointers in memory that others write to (free list, heap,
page tables), and arithmetic on addresses that is right or wrong by one
alignment (initrd, ELF loader). `PROJECT.json` lists these hazards
at their lines, with the properties aimed at them.

## Modules

| Module | Models |
|---|---|
| `Sched` | tasks, scheduler, system calls, trap path, timer, UART input, boot |
| `SchedProofs` | the theorems about `Sched` |
| `Processes` | abstract: pids, contexts, which process runs |
| `SchedRefines` | the refinement mapping from `Sched` to `Processes` |
| `SchedRefinesProofs` | the theorem that `Sched` implements `Processes` |
| `TaskMemory` | which page is whose through create, fork, exec, exit, reap |
| `TaskMemoryProofs` | the theorems about `TaskMemory` |
| `PagePool` | abstract: a pool of pages with a count |
| `PageAlloc` | the page allocator on intrusive lists; implements `PagePool` |
| `PageAllocProofs` | the theorems about `PageAlloc` |
| `Kmalloc` | the kernel heap, composed with `PageAlloc` |
| `KmallocProofs` | the theorems about `Kmalloc` |
| `AddressSpaces` | abstract: independent maps of virtual pages |
| `PgTable` | three-level page tables; implements `AddressSpaces` |
| `PgTableProofs` | the theorems about `PgTable` |
| `Initrd` | the walk over the archive and the lookup |
| `ElfLoad` | exec down to the bytes, composed with `Initrd` |
| `ElfLoadProofs` | the theorems about `Initrd` and `ElfLoad` |
| `Format` | `printk()` and `printf()` |
| `MC...` | instances for TLC |

Definitions whose comment starts with "Fault" are deliberate faults: variants
of the definition after them with a plausible mistake. Each property is
violated when one of them takes the place of the original; nothing else uses
them.

### Sched

A `struct task` is identified with its slot in `Task`, and so are its kernel
stack and page table, which live as long as it does. `kmalloc(S)` is a
parameter: any subset of the free slots. An action is a whole trap (entry,
handler, return), because handlers are not interrupted. Fork, creation, exec
and read are split, because memory may run out, or the UART may receive, while
they run; the local variables they keep are `child`, `init` and `rd`.
`user_init()` looks at what it has created only at its end: when there is no
memory for init it still creates demo, and then stops (`user_init_asserts`).

The variables have the names of the code. `tf[t]` says whose kernel stack
`t->tf` points into, and `frame[t]` is the trap frame on that stack. User
registers are reduced to `sepc` (at the ecall of a `read()` or anywhere else)
and `a0`. While the kernel runs, `regs` is `Zero`: a frame is moved, not
copied, so that `frame` and `regs` together hold each context once.

`task_create()` (kernel threads) has no caller and is left out. `mode = "off"`,
`"panic"` and `"assert"` are the states the machine stops in. exec may end in
`"panic"`: the message after `vm_switch()` reads the file name through the new
page table.

### Processes and SchedRefines

`Processes` is what user code may rely on: a context per live pid, one process
running, fork giving the child a copy with `a0 = 0`, and nothing else that
touches another process. The mapping takes the runnable tasks by pid, the
context being the registers for the task on the hart and the saved frame for
the others.

### TaskMemory

A page is free (counted, so that a double free shows), in the heap, or held by a
task or by the operation under way; `lost` is a history variable with the pages
exec drops. Operations advance one allocation at a time: `op` has the local
variables of the C function and the place it is at. `Abort` is the union of the
error paths: they differ in which pointers are set by then, which is just what
`op` records. A page table is its root, its other tables, the user regions that
have a leaf table, and what it maps. The image region and the stack region need
one leaf table each, the tables above them come with `vm_map_kernel()`, as with
the addresses in the code (`0x10000`, `0x3ffff000`, UART at `0x10000000`).
Scheduling is reduced to its effect: zombies are reaped, any live task may run
next, which includes what `Sched` does. `page_alloc` picks a fixed one of the
free pages: the code never looks at which one it gets. Since the pages are
counted here, a boot that has no memory for init has none for demo either, and
`user_init` is only ever reached with both; were it not, the run would deadlock.

`PagesPartitioned` says that the free pages, the heap, the lost pages, those of
the operation under way and those of each task are pairwise disjoint and
together the machine, and that within a task or an operation no page has two
roles (`Separate`): virtual page, kernel stack, root, other table. The stack page
is in `user_stack_base` and in the page table at once, which is one role.

### PageAlloc, PagePool and Kmalloc

`next` and `prev` are the links of `list.h`, for every page and for the list
head; addresses are numbers, so that pages have neighbours. While a page is
handed out its links are ordinary memory: `HolderWrites` overwrites them at any
time. `order` is a history variable, the free pages in the order of the list,
which `FreeListIntact` compares with the links; `ImplementsPool` does without it
and maps the pages that `next` leads to from the head.

`Kmalloc` extends `PageAlloc`. The heap is the set of its blocks by address with
their header fields, and `heap_head` and `heap_tail`; a block merged into
another ceases to be one. `kmalloc()` is two actions, one that finds a block and
one that takes a page first, since the second scan always succeeds; a
`kmalloc()` that returns null changes nothing. `live` remembers who was given
what. The rest of the kernel (`PageUser`) takes and returns pages in between, so
the pages of the heap are adjacent or not and come in any order. A magic number
stands for being a block. Sizes within 15 of 2^64, which `align_up()` turns
into 0, are left out: the two callers pass the sizes of structs.

### PgTable and AddressSpaces

A table is a page of `PTRS_PER_PT` entries, an entry an address and a set of
flags. `pgtable_map()` and `pgtable_unmap()` are one action per virtual page.
`page_alloc` is a parameter, as in `TaskMemory`. A walk that fails has taken the
pages it needed until then, and keeps them. Freed tables hold junk, which looks
like leaves, until they are cleared. `pgtable_unmap()` is called on what is
mapped, as its assertions require; the only caller is a self-test. The mapping
to `AddressSpaces` takes what the hart finds by three lookups (`Translated`).

### Initrd and ElfLoad

`Initrd` is given an archive and an address; where headers, names and contents
are is computed as cpio does (offsets rounded to 4, the archive filled up to 512
bytes), what the code reads as the code does (addresses rounded to 4). The
header's numbers are hexadecimal digits, which `parse_hex` reads.
`InitrdAssumption` says what cpio writes: finitely many entries, sizes that fit
eight digits, and the same length for the same name. `ElfAssumption` says what
the linker writes: segments with no more bytes in the file than in memory. It is
asked only of files that `elf_verify()` accepts. That the end of a segment does
not wrap around 2^64 is part of what the linker writes; that it may be beyond
`MAXVA` is not excluded. `len` is how much of a name the clamps of the copy into
`name[64]` leave: `WalkStaysInside` says that no name is cut off.

In `ElfLoad` a file is its program headers, its size, its entry point and
whether `elf_verify()` accepts it; a byte of a program is named by its offset in
the file, so that a byte in the wrong place shows. `Filled` is what is written
for a page: the bytes `mem_zero()` clears and those `mem_copy()` writes, which
are wherever `copy_start` and `copy_end` say (`Copied`), so that a copy beyond
the end of the page would give the page more bytes than `TypeOK` allows. Loading
is one action per page; it ends in `"assert"` when `pgtable_walk()` is given an
address that is not below `MAXVA`, which stops the machine. What becomes of the pages is in `TaskMemory`, what becomes of the caller
in `Sched`.

### Format

One action per character or conversion. `printk()` and `printf()` are the same
code but for `%s`. Negation of the smallest `long` wraps, as `neg` does on
RISC-V. A format that ends in `%l` would be read beyond its end; no caller has
one (`FormatAssumption`).

## Runs

| Run | Instance | Shows |
|---|---|---|
| `sched_safety` | 3 slots, any of them chosen, 5 pids, two values, buffers of 0 and 2, one byte waiting | type, queue, hart, assertion, pid and handler invariants; nothing in use is freed; contexts are preserved; waiters advance; `Sched` implements `Processes` |
| `sched_liveness` | 3 slots, first fit, 4 pids | every ready task runs, every zombie is reaped, unless a `read()` holds the kernel for ever |
| `sched_preemptive` | as above | violated: see findings |
| `memory_safety` | machines of 1 to 26 pages, image of 2 pages, programs of one page and with two segments in one page | every page has one use, satp is in use, no stale data is mapped, fork copies the image |
| `fork_stack`, `fork_after_exec`, `reap_after_exec` | as above | violated: see findings |
| `kernel_heap` | three pages of 12 bytes in a range that starts within one, headers of 2, alignment 2, requests of 0, 1, 4, 10 and 11 bytes, two pages for the heap | the free list and its counts are right whatever is written to pages in use; the blocks tile the heap; the list of blocks is whole and merged; what is allocated is not touched; the allocator implements a pool |
| `page_tables` | 5 pages for tables of 2 entries, 7 virtual pages, ranges that start within a page, cross tables and overlap | tables are neither lost nor shared, assertions hold, ranges are mapped as asked, address spaces are independent |
| `exec_load` | pages of 4 bytes; segments at every offset in a page, of 1 to 9 bytes with 0 to 9 in the file; two segments, with and without a common page; segments over the kernel, over the stack and across `MAXVA`; archives at all four residues of 4 | the walk stays inside the archive, finds the files of an aligned one; exec maps exactly the program, and refuses or stops only for a file that cannot be mapped |
| `initrd_trailer` | as above, aligned | violated: see findings |
| `format` | `long` of 8 and `int` of 4 bits, every number with every conversion, every format of up to 4 of 5 characters | the loop ends at the end of the format; numbers read back as what was passed |

Bounds. Three slots let one task run while another waits and a third is being
forked, is a zombie or waits too; the theorems cover any number. Pid 5 is
reached after the test task, init, demo and two forks, so slots are used again.
`MaxPid` only ends the forks:
after it `fork()` fails, as it does without memory. A buffer of 2 has room for
one character, so that erase at the start, a full buffer and a line end all
happen; one waiting byte is enough because the loop takes them one by one.
26 pages are three complete tasks and two heap pages; a smaller machine makes
each allocation of boot, fork and exec fail. `MaxLost` lets exec run once after
a failed exec has lost a page, and then no more: exec leaks, and without a bound
only the number of lost pages differs. A page of 12 bytes holds up to three
blocks, so that a block is split, merged forwards, backwards and in both
directions, and two adjacent pages of the heap merge into a block that spans
them; the largest request fills a page, the next larger one is refused. Five
pages are one page table with two leaf tables and a second one without, or less
of each; memory runs out at every level of a walk. Nine bytes over pages of four
cover three pages, with a first and a last one that are partly used. Widths of 8
and 4 bits have the same extremes as 64 and 32: zero, the largest, the smallest
and -1. Deadlock is checked in all runs.

Fairness. The hart runs kernel code without pause and takes a pending interrupt
(`WF` on boot steps, handler steps and the timer interrupt), and the timer,
once armed, expires (`WF` on `TimerExpires`). Nothing is assumed of user code,
which may loop for ever, nor of the keyboard. `NoStarvation` and `ZombiesReaped`
assume that no `read()` stays in its loop for ever. They also rest on a bound
that is real: memory. Were it infinite, tasks that keep forking at the tail of
the queue could keep the scan from coming round. `Format` assumes that the loop
goes on (`WF` on `Next`): it is sequential code that waits for nothing.

Findings (`PROJECT.json`, "findings"):

1. fork zeroes the child's stack instead of copying it (`task.c:563`).
2. fork after exec copies nothing of the program (`task.c:518`, `exec.c:279`).
3. a reaped task that called exec keeps its program and stack pages
   (`task.c:126`).
4. the read loop waits in the kernel with interrupts off, so scheduling is not
   preemptive while a line is being typed (`syscall.c:43`).
5. the end marker of the archive is taken for a file, because it is looked for
   where a header starts (`initrd.c:71`).

`FindsFiles` is stated for archives linked at a multiple of 4. `ld -r -b binary`
gives the archive's section alignment 1, so the code depends on the sections
before it; at another address the walk stays inside the archive
(`WalkStaysInside`), stops at the first header it misses, and exec starts no
wrong program (`LoadsProgram`, which is stated for every address).

## Proofs

`SchedProofs` proves, for any set of tasks, any `kmalloc`, any user values and
any bounds (from `SchedAssumption` alone), that `Inv` is an invariant of `Spec`
and what follows from it: `TypeOK`, `RunQueueConsistent`, `CpuCoherent`,
`NoAssertAfterBoot`, `PidUnique`, `HandlerLocals`, and the action properties
`FreesOnlyStrangers`, `ContextPreserved` and `WaitersAdvance`.

The argument. `Inv` is the conjunction of the six invariants; none is inductive
alone. That an exit finds a next task needs the counter to be the length of the
queue; that needs each runnable task to be on the queue once; that needs the
current task to be the RUNNING one, and the task a fork publishes to be on no
list, which is what `HandlerLocals` says of `child`. Lemmas about the list
operators (`ListDel`, `ListAdd`, `PickNext`) say what deletion, appending and
the scan do on a sequence without repetitions; the actions that leave the queue
alone are dealt with in one lemma (`QuietStep`), the switch and the exit in
their own (`ScheduleFacts`, `ExitFacts`). `WaitersAdvance` is proved from the
same facts and arithmetic on positions in the circular scan.

`PageAllocProofs` proves, from `PageAssumption` alone (pages and memory of any
size, a range that need not start at a page), that the free list is intact, that
the counters are right, and that the allocator implements `PagePool`, first with
the pages of the history `order` as the free ones, then with those that `next`
leads to (`ImplementsPool`). `PageInv` adds to the two
invariants that the loop of `page_init_range()` is at a page boundary and that
the pages before it are the ones on the list or in use: without it the page it
comes to might be on the list already. `AddFirst` and `RemoveFirst` say what the
assignments of `list_add()` and `list_del()` do to a cycle of links, position by
position (`At`); `NextBoundary` is the arithmetic of multiples of the page size.
What the recursive function `Followed` computes is shown with `LeastNat`: a set
of numbers has a least member, so were it to differ from the history at all, it
would for a first time.

`KmallocProofs` shows that every step of `Kmalloc` is one of `PageAlloc` or
leaves the list alone, so the same holds with the heap on top, and then proves
all the properties of the heap, from `KmallocAssumption` (pages, headers,
alignment and requests of any size, headers and pages being aligned). `HeapInv`
says that no two blocks overlap and together they are the pages taken (`Apart`,
`Covers`), that the list is a sequence of all the blocks (`Chain`), that no two
neighbours could be merged (`Tight`) and that the blocks in use are those of the
live pointers (`Owners`). Each C function is first described field by field
(`Split`, `Joined`, `Grown`, `Marked`), then shown to keep the heap whole. Two
places need more than that. `kmalloc()` may take a page right behind a
free block, which breaks `Tight`: `SecondScan` shows that the scan then ends at
that page, as nothing else fits, and `TightBut` that using it mends the breach.
`kfree()` breaks `Tight` on both sides of the block; `MergeStep` says that a
merge leaves only what was loose elsewhere, so the second one has one
neighbour left to deal with.

`SchedRefinesProofs` proves that `Sched` implements `Processes`. The mapping
needs `Inv`: pids are unique, so a context belongs to one pid; the current task
is the RUNNING one, so the registers are that task's and every other frame is
where `tf` points. Most actions map to a stutter because a frame and the
registers hold a context between them (`Unnoticed`); a switch swaps which of the
two it is (`OtherRuns`), a fork adds one context, an exit removes one.

`TaskMemoryProofs` proves, from `MemoryAssumption` alone (any machine, programs,
number of tasks, and any `kmalloc` that gives out free slots), `TypeOK`,
`PagesPartitioned`, `SatpInUse`, `NoStaleData` and the action property
`ForkCopiesImage`. `PagesPartitioned` is not inductive: what an error path frees
depends on which locals are set where it starts. So `IInv` adds `OpShape` (which
of the locals are set at each place of each operation), `TasksComplete` (a task
that is not yet, or no longer, alive has no pages, and a live one that has not
called exec maps nothing `task_free()` does not know of), `Control` (who may run,
with which page table), `OpData` (what an operation has mapped so far has been
written) and `OpCopies` (what a fork has copied so far). A step moves
pages between the parts of the partition, and a lemma for each kind of move
(taking a page, mapping it, handing the operation's pages to a task, releasing
them: `PageTaken`, `PageMapped`, `HandOver`, `TaskFree`) says that the partition
survives it; the actions then only show which move they
make. TLC checked `IInv` on the instance of `memory_safety` before it was proved.

`PgTableProofs` proves, from `PgTableAssumption` (tables of any number of
entries, any page size, any calls below `MAXVA`, any `page_alloc` that gives out
a free page), `TypeOK`, `TablesHaveOneUse`, `AssertsHold`, `MapsRange`, and that
the page tables implement `AddressSpaces`. The invariant says that there are sets
`M` and `L` such that the roots, `M`, `L` and the free pages partition the pages,
the entries of the roots refer to the tables in `M`, those to the tables in `L`,
each exactly once (`Level`), and the entries in `L` are leaves. One level of a
walk adds a table to `M` or to `L` (`TopAdds`, `MidAdds`), a write to an
entry changes one of the lookups (`SetLeaf`: by "exactly once" no other path
leads there), `pgtable_free_walk()` cuts one tree out (`TreeShrinks`). `VpnUnique`
is the arithmetic: two virtual pages differ in one of their three indices. Of the
operation under way the invariant says how much of the range is mapped, or still
to be unmapped, which is what the assertions and `MapsRange` need.

`ElfLoadProofs` proves, from `InitrdAssumption` and `ElfAssumption` (archives of
any number of entries of any size, at any address, programs with any number of
segments anywhere in their pages, any page size), `TypeOK`, `WalkStaysInside`,
`FindsFiles`, `LoadsProgram` and `RefusesOnlyBadFiles`. None is inductive:
where a file's contents are says nothing of where the walk goes next, and the
bytes of a finished program nothing of a half loaded one. For the walk
`InitrdInv` says that in an aligned archive `pos` is where cpio put the header
of an entry (or the end), and that the list has exactly the kept entries before
it, at decreasing addresses (`AlignedWalk`, `Lists`), so that the first match in
the list is the last entry of that name. At another address the first step
leaves the positions of the headers for good, because `align4()` rounds to
multiples of 4 and those are not, so at most the first entry is listed
(`MisalignedWalk`), with contents where no file is, so that exec refuses it
(`NothingMisaligned`). That `parse_hex()` reads back what the header holds is shown
digit by digit for all numbers below 2^32. `Layout` is a recursive function;
that it is defined, grows and keeps to multiples of 4 follows as for `Followed`.
For the load `ElfInv` says that the page table maps exactly the pages that the
two loops have passed, each from one segment and filled from it (`SoFar`);
`CopiedInside` says that a copy stays in its page, by the two cases of
`copy_end`; the
arithmetic of the first and the last page of a segment gives from this every
byte of `Wanted`, the overlap when a page is mapped already, and the segment
that reaches `MAXVA` when the assertion fails. TLC checked
`ElfInv` on the instance of `exec_load` as well.

Only model-checked: the liveness properties (`NoStarvation`, `ZombiesReaped`
and `StopsAtEnd`; liveness is out of the prover's reach), and `PrintsArguments`
of `Format`, which needs an induction over the digits of a number.

## Not modelled, and the plan

Not modelled, and why:

- `csr.h`, `sbi.c`, `enter_user`: single instructions and register moves; their
  effects are in `Sched`.
- `task_create()` and `vm_allow_user_identity()`: no caller.
- `vm_init()`, `page_init()`: run once, before anything that is modelled; the
  states they leave are initial states, except for `page_init_range()`, which is
  modelled.
- The packing of page table entries and the name comparison of
  `initrd_find()` and the shell: bits and characters, with no state.
- The shell's commands: `Sched` lets user code make any system call in any
  order, which includes what the shell and the programs do. The bytes of a line
  are reduced to line end, erase and other.
- The self-tests: fixed sequences of calls, which the modules include.

Next: proofs about `Format`: that the loop never steps over the end of the
format, and what `PrintsArguments` says of hexadecimal digits.
