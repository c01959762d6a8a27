-------------------------- MODULE TaskMemoryProofs --------------------------
(***************************************************************************)
(* Proofs about the memory of the tasks, for any machine, any number of    *)
(* tasks and any programs.                                                 *)
(***************************************************************************)
EXTENDS TaskMemory, TLAPS

-----------------------------------------------------------------------------
(* The inductive invariant.                                                *)

At == {"done", "reap", "pick", "find", "struct", "ustack", "kstack", "root",
       "kernel", "image", "imagemap", "newstack", "stack", "stackmap",
       "commit", "abort"}

TaskRec == [state : {"FREE", "UNUSED", "LIVE", "ZOMBIE"},
            ustack : Page \union {NULL}, kstack : Page \union {NULL},
            pt : PageTable, size : 0..ImagePages]

OpRec == [kind : {"none", "create", "fork", "exec", "sched"}, at : At,
          t : Task \union {NULL}, ustack : Page \union {NULL},
          kstack : Page \union {NULL}, page : Page \union {NULL},
          pt : PageTable, n : Nat, elf : Elfs \union {<< >>}]

Types ==
    /\ ram \in Sizes
    /\ free \in [Page -> {0, 1}]
    /\ heap \subseteq Page
    /\ data \in [Page -> Content]
    /\ task \in [Task -> TaskRec]
    /\ current \in Task \union {NULL}
    /\ satp \in Page \union {NULL}
    /\ boot \in 0..BOOTED
    /\ mode \in {"kernel", "user", "off", "panic", "assert"}
    /\ op \in OpRec
    /\ lost \subseteq Page

(* Who runs: an operation is under way only in the kernel, and the current *)
(* task, if there is one, is alive and its page table is in use.           *)
Control ==
    /\ mode # "kernel" => op = NoOp
    /\ op.at = "done" <=> op.kind = "none"
    /\ op.at = "done" => op = NoOp
    /\ op.kind \in {"none", "create"} /\ mode = "kernel"
           => boot # BOOTED /\ current = NULL
    /\ op.kind = "create" => boot \in {CREATE_TEST, CREATE_INIT, CREATE_DEMO}
    /\ op.kind \in {"fork", "exec", "sched"} \/ mode = "user"
           => current # NULL
    /\ current = NULL => satp = NULL \/ mode = "off"
    /\ current # NULL => /\ task[current].state = "LIVE"
                         /\ satp = task[current].pt.root
    /\ boot # BOOTED =>
           /\ current = NULL
           /\ \A t \in Task : task[t].state # "LIVE" \/ task[t].size # 0

(* A struct task without pages, apart from its state.                      *)
Bare(r) == /\ r.ustack = NULL /\ r.kstack = NULL /\ r.pt = NoTable
           /\ r.size = 0

(* What task_free() and the error paths do not look at is not there.       *)
Beyond(pt, n) == \A v \in Text : v >= n => pt.map[v] = NULL

Complete(r) ==
    /\ r.pt.root # NULL
    /\ r.ustack # NULL
    /\ r.pt.map[TOP] = NULL
    /\ r.size # 0 => r.pt.map[STACK] = r.ustack /\ Beyond(r.pt, r.size)

(* A task is bare until it is complete.                                    *)
TasksComplete ==
    \A t \in Task :
        /\ task[t].state \in {"FREE", "UNUSED"} => Bare(task[t])
        /\ task[t].state \in {"LIVE", "ZOMBIE"} => Complete(task[t])
        /\ task[t].state = "UNUSED" <=> t = op.t

(* What the operation has in hand at each point.                           *)
Early  == {"done", "reap", "pick", "find", "struct", "ustack"}
Loaded == {"newstack", "stack", "stackmap", "commit"}

OpShape ==
    /\ op.at \in Early => op.ustack = NULL
    /\ op.at \in Early \union {"kstack"} => op.kstack = NULL
    /\ op.at \in Early \union {"kstack", "root"} => op.pt = NoTable /\ op.n = 0
    /\ op.page # NULL => op.at \in {"imagemap", "abort"}
    /\ op.at = "imagemap" => op.page # NULL /\ op.n < ImageSize
    /\ op.at = "kernel" => \A v \in VPage : op.pt.map[v] = NULL
    /\ op.at \in {"kernel", "image", "imagemap"} \union Loaded
           => /\ op.pt.root # NULL
              /\ op.kind # "exec" => op.ustack # NULL /\ op.t # NULL
    /\ op.at \in {"reap", "struct", "find", "pick"} => op.t = NULL
    /\ op.at \in {"ustack", "kstack", "root"} /\ op.kind # "exec" => op.t # NULL
    /\ op.kind = "exec" => op.at \notin {"reap", "struct", "ustack", "kstack"}
    /\ op.at \in {"stack", "stackmap", "commit"} => op.ustack # NULL
    /\ op.at \in {"newstack", "find"} => op.kind = "exec"
    /\ op.at \in Loaded \ {"newstack"} => op.kind \in {"create", "fork", "exec"}
    /\ op.at = "newstack" => op.ustack = NULL
    /\ op.kind = "sched" => op.at \in {"reap", "pick"}
    /\ op.at = "pick" => op.kind = "sched"
    /\ op.kind = "exec" /\ op.at \in {"root", "kernel", "image", "imagemap"}
           => op.ustack = NULL
    /\ op.at \in Loaded => op.n = ImageSize
    /\ op.at = "image" => op.n <= ImageSize
    /\ op.at # "commit" => op.pt.map[STACK] = NULL
    /\ op.at = "commit" => op.pt.map[STACK] = op.ustack
    /\ op.pt.map[TOP] = NULL
    /\ op.kind # "exec" => Beyond(op.pt, op.n)
    /\ op.kind = "exec" => op.t = NULL /\ op.kstack = NULL

(* What user code will see has been written.                               *)
OpData ==
    /\ \A p \in Mapped(op.pt) : data[p] # "junk"
    /\ op.at = "imagemap" => data[op.page] # "junk"
    /\ op.at = "stackmap" => data[op.ustack] # "junk"

(* What a fork has copied so far.                                          *)
OpCopies ==
    op.kind = "fork" /\ op.at \in {"image", "imagemap"} \union Loaded =>
        LET m == task[current].pt.map
        IN  /\ \A v \in Text : v < op.n /\ m[v] # NULL =>
                   op.pt.map[v] # NULL /\ data[op.pt.map[v]] = data[m[v]]
            /\ op.at = "imagemap" =>
                   m[op.n] # NULL /\ data[op.page] = data[m[op.n]]

IInv == /\ Types
        /\ Control
        /\ TasksComplete
        /\ OpShape
        /\ PagesPartitioned
        /\ SatpInUse
        /\ NoStaleData
        /\ OpData
        /\ OpCopies

-----------------------------------------------------------------------------
(* Roles.                                                                  *)

LEMMA Numbers ==
    /\ ImagePages \in Nat /\ ImagePages >= 1
    /\ STACK = ImagePages /\ TOP = ImagePages + 1 /\ KSTACK = ImagePages + 2
    /\ ROOT = ImagePages + 3 /\ TABLE = ImagePages + 4
    /\ Text \subseteq VPage /\ STACK \in VPage /\ TOP \in VPage
    /\ VPage \subseteq Role /\ {STACK, KSTACK, ROOT, TABLE} \subseteq Role
    /\ STACK \notin Text /\ TOP \notin Text
    /\ VPage = Text \union {STACK, TOP}
    /\ \A v \in VPage : v < KSTACK
    /\ \A i \in Role : i \in VPage \/ i \in {KSTACK, ROOT, TABLE}
    /\ \A i \in Role : i \in Nat
BY MemoryAssumption DEF STACK, TOP, KSTACK, ROOT, TABLE, Text, VPage, Role

(* The pages in each role.                                                 *)
LEMMA Parts ==
    ASSUME NEW r
    PROVE  /\ Part(r, STACK) = {r.ustack, r.pt.map[STACK]}
           /\ Part(r, KSTACK) = {r.kstack}
           /\ Part(r, ROOT) = {r.pt.root}
           /\ Part(r, TABLE) = r.pt.tables
           /\ \A v \in VPage : v # STACK => Part(r, v) = {r.pt.map[v]}
<1>1. /\ STACK # KSTACK /\ STACK # ROOT /\ STACK # TABLE /\ KSTACK # ROOT
      /\ KSTACK # TABLE /\ ROOT # TABLE
      /\ \A v \in VPage : v # KSTACK /\ v # ROOT /\ v # TABLE
  BY Numbers
<1> QED
  BY <1>1 DEF Part

LEMMA PagesOfIs ==
    ASSUME NEW r
    PROVE  PagesOf(r) = ({r.ustack, r.kstack, r.pt.root} \union r.pt.tables
                            \union {r.pt.map[v] : v \in VPage}) \ {NULL}
<1> DEFINE all == {r.ustack, r.kstack, r.pt.root} \union r.pt.tables
                     \union {r.pt.map[v] : v \in VPage}
<1>1. \A i \in Role : Part(r, i) \subseteq all
  BY Numbers, Parts
<1>2. ASSUME NEW p \in all PROVE \E i \in Role : p \in Part(r, i)
  <2>1. CASE p \in {r.pt.map[v] : v \in VPage}
    <3>1. PICK v \in VPage : p = r.pt.map[v]
      BY <2>1
    <3>2. p \in Part(r, v)
      BY <3>1, Parts
    <3> QED
      BY <3>2, Numbers
  <2>2. CASE p \in {r.ustack, r.kstack, r.pt.root} \union r.pt.tables
    BY <2>2, Numbers, Parts
  <2> QED
    BY <2>1, <2>2
<1> HIDE DEF all
<1>3. UNION {Part(r, i) : i \in Role} = all
  BY <1>1, <1>2
<1> QED
  BY <1>3 DEF PagesOf, all

(* A record that differs from r in one role, where it has p besides.       *)
LEMMA GrowPart ==
    ASSUME NEW r, NEW s, NEW p, p # NULL, p \notin PagesOf(r), Separate(r),
           NEW k \in Role,
           \A i \in Role : i # k => Part(s, i) = Part(r, i),
           Part(s, k) \ {NULL} = (Part(r, k) \ {NULL}) \union {p}
    PROVE  Separate(s) /\ PagesOf(s) = PagesOf(r) \union {p}
<1>1. \A i \in Role : p \notin Part(r, i)
  BY DEF PagesOf
<1>2. ASSUME NEW i \in Role, NEW j \in Role, i < j, NEW q,
             q \in Part(s, i), q \in Part(s, j)
      PROVE  q = NULL
  BY <1>1, <1>2, Numbers DEF Separate
<1>3. PagesOf(s) = PagesOf(r) \union {p}
  BY DEF PagesOf
<1> QED
  BY <1>2, <1>3 DEF Separate

(* Records that agree on what a role is about.                              *)
LEMMA PartAgrees ==
    ASSUME NEW r, NEW s, NEW i \in Role,
           i = STACK => s.ustack = r.ustack /\ s.pt.map[STACK] = r.pt.map[STACK],
           i = KSTACK => s.kstack = r.kstack,
           i = ROOT => s.pt.root = r.pt.root,
           i = TABLE => s.pt.tables = r.pt.tables,
           i \in VPage => s.pt.map[i] = r.pt.map[i]
    PROVE  Part(s, i) = Part(r, i)
<1>1. CASE i = STACK
  <2>1. Part(s, i) = {s.ustack, s.pt.map[STACK]}
    BY <1>1, Parts, Zenon
  <2>2. Part(r, i) = {r.ustack, r.pt.map[STACK]}
    BY <1>1, Parts, Zenon
  <2> QED
    BY <1>1, <2>1, <2>2, Zenon
<1>2. CASE i = KSTACK
  BY <1>2, Parts, Zenon
<1>3. CASE i = ROOT
  BY <1>3, Parts, Zenon
<1>4. CASE i = TABLE
  BY <1>4, Parts, Zenon
<1>5. CASE i \in VPage /\ i # STACK
  <2>1. Part(s, i) = {s.pt.map[i]}
    BY <1>5, Parts, Zenon
  <2>2. Part(r, i) = {r.pt.map[i]}
    BY <1>5, Parts, Zenon
  <2> QED
    BY <1>5, <2>1, <2>2, Zenon
<1>6. \/ i = STACK \/ i = KSTACK \/ i = ROOT \/ i = TABLE
      \/ i \in VPage /\ i # STACK
  <2>1. \A k \in Role : k \in VPage \/ k \in {KSTACK, ROOT, TABLE}
    BY Numbers
  <2> QED
    BY <2>1
<1> QED
  BY <1>1, <1>2, <1>3, <1>4, <1>5, <1>6

(* The ways a record gets one more page p.                                 *)
SameMap(r, s) == \A v \in VPage : s.pt.map[v] = r.pt.map[v]

LEMMA SameFields ==
    ASSUME NEW r, NEW s, s.ustack = r.ustack, s.kstack = r.kstack,
           s.pt.root = r.pt.root, s.pt.tables = r.pt.tables, SameMap(r, s)
    PROVE  PagesOf(s) = PagesOf(r) /\ (Separate(r) => Separate(s))
<1>1. ASSUME NEW i \in Role PROVE Part(s, i) = Part(r, i)
  BY PartAgrees, Numbers DEF SameMap
<1> QED
  BY <1>1 DEF PagesOf, Separate

LEMMA GrowStack ==
    ASSUME NEW r, NEW s, NEW p, p # NULL, p \notin PagesOf(r), Separate(r),
           r.ustack = NULL, s.ustack = p, s.kstack = r.kstack,
           s.pt.root = r.pt.root, s.pt.tables = r.pt.tables, SameMap(r, s)
    PROVE  Separate(s) /\ PagesOf(s) = PagesOf(r) \union {p}
<1>1. ASSUME NEW i \in Role, i # STACK PROVE Part(s, i) = Part(r, i)
  BY <1>1, PartAgrees, Numbers DEF SameMap
<1>2. Part(s, STACK) \ {NULL} = (Part(r, STACK) \ {NULL}) \union {p}
  BY Numbers, Parts DEF SameMap
<1>3. STACK \in Role
  BY Numbers
<1>4. \A i \in Role : i # STACK => Part(s, i) = Part(r, i)
  BY <1>1
<1> QED
  BY <1>2, <1>3, <1>4, GrowPart

LEMMA GrowKstack ==
    ASSUME NEW r, NEW s, NEW p, p # NULL, p \notin PagesOf(r), Separate(r),
           r.kstack = NULL, s.kstack = p, s.ustack = r.ustack,
           s.pt.root = r.pt.root, s.pt.tables = r.pt.tables, SameMap(r, s)
    PROVE  Separate(s) /\ PagesOf(s) = PagesOf(r) \union {p}
<1>1. ASSUME NEW i \in Role, i # KSTACK PROVE Part(s, i) = Part(r, i)
  BY <1>1, PartAgrees, Numbers DEF SameMap
<1>2. Part(s, KSTACK) \ {NULL} = (Part(r, KSTACK) \ {NULL}) \union {p}
  BY Numbers, Parts DEF SameMap
<1>3. KSTACK \in Role
  BY Numbers
<1>4. \A i \in Role : i # KSTACK => Part(s, i) = Part(r, i)
  BY <1>1
<1> QED
  BY <1>2, <1>3, <1>4, GrowPart

LEMMA GrowRoot ==
    ASSUME NEW r, NEW s, NEW p, p # NULL, p \notin PagesOf(r), Separate(r),
           r.pt.root = NULL, s.pt.root = p, s.ustack = r.ustack,
           s.kstack = r.kstack, s.pt.tables = r.pt.tables, SameMap(r, s)
    PROVE  Separate(s) /\ PagesOf(s) = PagesOf(r) \union {p}
<1>1. ASSUME NEW i \in Role, i # ROOT PROVE Part(s, i) = Part(r, i)
  BY <1>1, PartAgrees, Numbers DEF SameMap
<1>2. Part(s, ROOT) \ {NULL} = (Part(r, ROOT) \ {NULL}) \union {p}
  BY Numbers, Parts DEF SameMap
<1>3. ROOT \in Role
  BY Numbers
<1>4. \A i \in Role : i # ROOT => Part(s, i) = Part(r, i)
  BY <1>1
<1> QED
  BY <1>2, <1>3, <1>4, GrowPart

LEMMA GrowTables ==
    ASSUME NEW r, NEW s, NEW p, p # NULL, p \notin PagesOf(r), Separate(r),
           s.pt.tables = r.pt.tables \union {p}, s.ustack = r.ustack,
           s.kstack = r.kstack, s.pt.root = r.pt.root, SameMap(r, s)
    PROVE  Separate(s) /\ PagesOf(s) = PagesOf(r) \union {p}
<1>1. ASSUME NEW i \in Role, i # TABLE PROVE Part(s, i) = Part(r, i)
  BY <1>1, PartAgrees, Numbers DEF SameMap
<1>2. Part(s, TABLE) \ {NULL} = (Part(r, TABLE) \ {NULL}) \union {p}
  BY Numbers, Parts DEF SameMap
<1>3. TABLE \in Role
  BY Numbers
<1>4. \A i \in Role : i # TABLE => Part(s, i) = Part(r, i)
  BY <1>1
<1> QED
  BY <1>2, <1>3, <1>4, GrowPart

LEMMA GrowMap ==
    ASSUME NEW r, NEW s, NEW p, p # NULL, p \notin PagesOf(r), Separate(r),
           NEW v \in Text, r.pt.map[v] = NULL, s.pt.map[v] = p,
           \A u \in VPage : u # v => s.pt.map[u] = r.pt.map[u],
           s.ustack = r.ustack, s.kstack = r.kstack,
           s.pt.root = r.pt.root, s.pt.tables = r.pt.tables
    PROVE  Separate(s) /\ PagesOf(s) = PagesOf(r) \union {p}
<1>1. ASSUME NEW i \in Role, i # v PROVE Part(s, i) = Part(r, i)
  BY <1>1, PartAgrees, Numbers
<1>2. Part(s, v) \ {NULL} = (Part(r, v) \ {NULL}) \union {p}
  BY Numbers, Parts
<1>3. v \in Role
  BY Numbers
<1>4. \A i \in Role : i # v => Part(s, i) = Part(r, i)
  BY <1>1
<1> QED
  BY <1>2, <1>3, <1>4, GrowPart

(* A record with the same pages.                                           *)
LEMMA SameParts ==
    ASSUME NEW r, NEW s, s.ustack = r.ustack, s.kstack = r.kstack, s.pt = r.pt
    PROVE  PagesOf(s) = PagesOf(r) /\ (Separate(r) => Separate(s))
<1>1. \A i \in Role : Part(s, i) = Part(r, i)
  BY Zenon DEF Part
<1> QED
  BY <1>1 DEF PagesOf, Separate

(* A record without pages.                                                 *)
LEMMA BareParts ==
    ASSUME NEW r, r.ustack = NULL, r.kstack = NULL, r.pt = NoTable
    PROVE  PagesOf(r) = {} /\ Separate(r)
<1>1. /\ NoTable.root = NULL /\ NoTable.tables = {}
      /\ \A v \in VPage : NoTable.map[v] = NULL
  BY DEF NoTable
<1>2. \A i \in Role : Part(r, i) \subseteq {NULL}
  BY <1>1, Numbers, Parts
<1> QED
  BY <1>2 DEF PagesOf, Separate

-----------------------------------------------------------------------------
(* Steps of the page allocator.                                            *)

LEMMA TakeFacts ==
    ASSUME free \in [Page -> {0, 1}], NEW p \in Page, Take(p)
    PROVE  /\ free' \in [Page -> {0, 1}]
           /\ p \in Available /\ p # NULL
           /\ Available' = Available \ {p}
<1>1. p \in Available /\ free[p] = 1 /\ free' = [free EXCEPT ![p] = @ - 1]
  BY DEF Take, Taken, Available
<1>2. free' \in [Page -> {0, 1}] /\ free'[p] = 0
      /\ \A q \in Page : q # p => free'[q] = free[q]
  BY <1>1
<1> QED
  BY <1>1, <1>2, MemoryAssumption DEF Available

LEMMA FreeFacts ==
    ASSUME NEW f \in [Page -> {0, 1}], NEW S, \A p \in S : f[p] = 0
    PROVE  /\ page_free(f, S) \in [Page -> {0, 1}]
           /\ \A p \in Page : page_free(f, S)[p] = IF p \in S THEN 1 ELSE f[p]
BY DEF page_free

(* Two records whose pages are the same in every role.                     *)
Same(r, s) == PagesOf(s) = PagesOf(r) /\ (Separate(r) => Separate(s))

(* Nothing moves.                                                          *)
LEMMA NothingMoves ==
    ASSUME PagesPartitioned, UNCHANGED <<ram, free, heap, lost>>,
           op'.page = op.page, Same(op, op'),
           \A t \in Task : Same(task[t], task'[t])
    PROVE  PagesPartitioned'
<1>1. Available' = Available
  BY DEF Available
<1>2. InHand' = InHand
  BY DEF InHand, Same
<1>3. {PagesOf(task[t]) : t \in Task} = {PagesOf(task'[t]) : t \in Task}
  BY DEF Same
<1> QED
  BY <1>1, <1>2, <1>3 DEF PagesPartitioned, Same, Apart

(* A free page goes to the heap or to the operation under way.             *)
LEMMA PageTaken ==
    ASSUME PagesPartitioned, free \in [Page -> {0, 1}], NEW p \in Page, Take(p),
           UNCHANGED <<ram, lost, task>>,
           \/ heap' = heap \union {p} /\ op' = op
           \/ /\ heap' = heap /\ op.page = NULL /\ op'.page = p
              /\ Same(op, op')
           \/ /\ heap' = heap /\ op'.page = op.page
              /\ PagesOf(op') = PagesOf(op) \union {p} /\ Separate(op')
    PROVE  PagesPartitioned'
<1>1. p \in Available /\ p # NULL /\ Available' = Available \ {p}
  BY TakeFacts
<1>2. /\ p \notin heap /\ p \notin lost /\ p \notin InHand
      /\ \A t \in Task : p \notin PagesOf(task[t])
  BY <1>1 DEF PagesPartitioned, Apart
<1>3. p \notin PagesOf(op) /\ p # op.page
  BY <1>1, <1>2 DEF InHand
<1>4. CASE heap' = heap \union {p} /\ op' = op
  <2>1. InHand' = InHand
    BY <1>4 DEF InHand
  <2> QED
    BY <1>1, <1>2, <1>4, <2>1 DEF PagesPartitioned, Apart
<1>5. CASE heap' = heap /\ op.page = NULL /\ op'.page = p /\ Same(op, op')
  <2>1. InHand' = InHand \union {p} /\ PagesOf(op') = PagesOf(op)
        /\ Separate(op') /\ op'.page \notin PagesOf(op')
    BY <1>1, <1>3, <1>5 DEF InHand, Same, PagesPartitioned
  <2> QED
    BY <1>1, <1>2, <1>5, <2>1 DEF PagesPartitioned, Apart
<1>6. CASE /\ heap' = heap /\ op'.page = op.page
           /\ PagesOf(op') = PagesOf(op) \union {p} /\ Separate(op')
  <2>1. InHand' = InHand \union {p} /\ op'.page \notin PagesOf(op')
    BY <1>3, <1>6 DEF InHand, PagesPartitioned
  <2> QED
    BY <1>1, <1>2, <1>6, <2>1 DEF PagesPartitioned, Apart
<1> QED
  BY <1>4, <1>5, <1>6

(* The page just filled is mapped.                                         *)
LEMMA PageMapped ==
    ASSUME PagesPartitioned, UNCHANGED <<ram, free, heap, lost, task>>,
           op.page # NULL, op'.page = NULL,
           PagesOf(op') = PagesOf(op) \union {op.page}, Separate(op')
    PROVE  PagesPartitioned'
<1>1. Available' = Available
  BY DEF Available
<1>2. InHand' = InHand /\ op'.page \notin PagesOf(op')
  BY DEF InHand, PagesOf
<1> QED
  BY <1>1, <1>2 DEF PagesPartitioned, Apart

(* The pages of a record, role by role.                                    *)
LEMMA SeparateFacts ==
    ASSUME NEW r, Separate(r)
    PROVE  /\ r.ustack # NULL =>
                 /\ r.ustack \notin {r.kstack, r.pt.root} \union r.pt.tables
                 /\ \A v \in VPage : v # STACK => r.ustack # r.pt.map[v]
           /\ r.kstack # NULL =>
                 /\ r.kstack \notin {r.pt.root} \union r.pt.tables
                 /\ \A v \in VPage : r.kstack # r.pt.map[v]
           /\ r.pt.root # NULL =>
                 /\ r.pt.root \notin r.pt.tables
                 /\ \A v \in VPage : r.pt.root # r.pt.map[v]
           /\ \A v \in VPage : r.pt.map[v] # NULL =>
                 /\ r.pt.map[v] \notin r.pt.tables
                 /\ \A u \in VPage : u # v => r.pt.map[u] # r.pt.map[v]
<1> USE Numbers
<1>1. ASSUME NEW i \in Role, NEW j \in Role, i # j,
             NEW q, q \in Part(r, i), q \in Part(r, j)
      PROVE  q = NULL
  BY <1>1 DEF Separate
<1>2. /\ STACK # KSTACK /\ STACK # ROOT /\ STACK # TABLE /\ KSTACK # ROOT
      /\ KSTACK # TABLE /\ ROOT # TABLE
      /\ \A v \in VPage : v # KSTACK /\ v # ROOT /\ v # TABLE
  OBVIOUS
<1>3. /\ r.ustack \in Part(r, STACK) /\ r.kstack \in Part(r, KSTACK)
      /\ r.pt.root \in Part(r, ROOT) /\ r.pt.tables = Part(r, TABLE)
      /\ \A v \in VPage : r.pt.map[v] \in Part(r, v)
  BY Parts
<1> QED
  BY <1>1, <1>2, <1>3

(* What task_free() does to the free list: it gets each page it is told of *)
(* once.                                                                   *)
LEMMA TaskFree ==
    ASSUME free \in [Page -> {0, 1}], NEW r \in TaskRec, Separate(r),
           Apart(PagesOf(r), Available)
    PROVE  /\ task_free(free, r) \in [Page -> {0, 1}]
           /\ \A p \in Page : task_free(free, r)[p] =
                                  IF p \in OwnPages(r) THEN 1 ELSE free[p]
<1> DEFINE f1 == page_free(free, {r.ustack} \ {NULL})
           f2 == page_free(f1, ImageOf(r.pt, r.size))
           f3 == page_free(f2, {r.kstack} \ {NULL})
           f4 == page_free(f3, r.pt.tables)
           f5 == page_free(f4, {r.pt.root} \ {NULL})
           I  == ImageOf(r.pt, r.size)
<1>1. /\ r.ustack \in Page \union {NULL} /\ r.kstack \in Page \union {NULL}
      /\ r.pt.root \in Page \union {NULL} /\ r.pt.tables \subseteq Page
      /\ \A v \in VPage : r.pt.map[v] \in Page \union {NULL}
      /\ r.size \in Nat
  BY DEF TaskRec, PageTable
<1>2. /\ I \subseteq Page /\ NULL \notin Page
      /\ \A p \in I : \E v \in VPage : v # STACK /\ p = r.pt.map[v] /\ p # NULL
  BY <1>1, Numbers, MemoryAssumption DEF ImageOf
<1>3. \A p \in OwnPages(r) \ {NULL} : p \in PagesOf(r)
  BY <1>2, PagesOfIs DEF OwnPages
<1>4. \A p \in OwnPages(r) \ {NULL} : p \in Page /\ free[p] = 0
  BY <1>1, <1>2, <1>3 DEF Apart, Available, OwnPages
<1>5. /\ r.ustack # NULL => r.ustack \notin I
      /\ r.kstack # NULL => r.kstack \notin I \union {r.ustack}
      /\ Apart(r.pt.tables, I \union ({r.ustack, r.kstack} \ {NULL}))
      /\ r.pt.root # NULL =>
             r.pt.root \notin I \union {r.ustack, r.kstack} \union r.pt.tables
  BY <1>2, SeparateFacts DEF Apart
<1>6. OwnPages(r) = {r.ustack, r.kstack, r.pt.root} \union r.pt.tables \union I
  BY DEF OwnPages
<1> HIDE DEF I
<1>7. /\ f1 \in [Page -> {0, 1}]
      /\ \A p \in Page : f1[p] = IF p = r.ustack THEN 1 ELSE free[p]
  BY <1>2, <1>4, <1>6, FreeFacts
<1> HIDE DEF f1
<1>8. /\ f2 \in [Page -> {0, 1}]
      /\ \A p \in Page : f2[p] = IF p \in I THEN 1 ELSE f1[p]
  <2>1. \A p \in I : f1[p] = 0
    BY <1>2, <1>4, <1>5, <1>6, <1>7
  <2> QED
    BY <1>7, <2>1, FreeFacts DEF I
<1> HIDE DEF f2
<1>9. /\ f3 \in [Page -> {0, 1}]
      /\ \A p \in Page : f3[p] = IF p = r.kstack THEN 1 ELSE f2[p]
  <2>1. \A p \in {r.kstack} \ {NULL} : f2[p] = 0
    BY <1>2, <1>4, <1>5, <1>6, <1>7, <1>8
  <2> QED
    BY <1>2, <1>8, <2>1, FreeFacts
<1> HIDE DEF f3
<1>10. /\ f4 \in [Page -> {0, 1}]
       /\ \A p \in Page : f4[p] = IF p \in r.pt.tables THEN 1 ELSE f3[p]
  <2>1. \A p \in r.pt.tables : f3[p] = 0
    <3>1. ASSUME NEW p \in r.pt.tables
          PROVE  p \in Page /\ p # NULL /\ p \notin I /\ p # r.ustack
                 /\ p # r.kstack /\ free[p] = 0
      BY <1>1, <1>2, <1>4, <1>5, <1>6 DEF Apart
    <3> QED
      BY <3>1, <1>7, <1>8, <1>9
  <2> QED
    BY <1>9, <2>1, FreeFacts
<1> HIDE DEF f4
<1>11. /\ f5 \in [Page -> {0, 1}]
       /\ \A p \in Page : f5[p] = IF p = r.pt.root THEN 1 ELSE f4[p]
  <2>1. \A p \in {r.pt.root} \ {NULL} : f4[p] = 0
    <3> SUFFICES ASSUME r.pt.root # NULL PROVE f4[r.pt.root] = 0
      OBVIOUS
    <3>1. r.pt.root \in Page /\ free[r.pt.root] = 0
      BY <1>4, <1>6
    <3> QED
      BY <3>1, <1>5, <1>7, <1>8, <1>9, <1>10
  <2> QED
    BY <1>2, <1>10, <2>1, FreeFacts
<1>12. task_free(free, r) = f5
  BY DEF task_free, pgtable_free_walk, f1, f2, f3, f4, f5
<1> HIDE DEF f5
<1> QED
  BY <1>6, <1>7, <1>8, <1>9, <1>10, <1>11, <1>12

(* A task goes: its pages are free or lost.                                *)
LEMMA TaskGone ==
    ASSUME PagesPartitioned, NEW t0 \in Task, task \in [Task -> TaskRec],
           task' = [task EXCEPT ![t0] = NoTask],
           UNCHANGED <<ram, heap>>, op'.page = op.page, Same(op, op'),
           NEW F, NEW L, Apart(F, L), F \union L = PagesOf(task[t0]),
           Available' = Available \union F, lost' = lost \union L
    PROVE  PagesPartitioned'
<1>1. PagesOf(NoTask) = {} /\ Separate(NoTask)
  BY BareParts DEF NoTask
<1>2. InHand' = InHand
  BY DEF InHand, Same
<1>3. task'[t0] = NoTask /\ \A t \in Task : t # t0 => task'[t] = task[t]
  OBVIOUS
<1> DEFINE U == UNION {PagesOf(task[t]) : t \in Task}
           V == UNION {PagesOf(task'[t]) : t \in Task}
<1>4. V \union (F \union L) = U
  <2>1. F \union L \subseteq U
    OBVIOUS
  <2>2. V \subseteq U
    <3>1. \A t \in Task : PagesOf(task'[t]) \subseteq PagesOf(task[t])
      BY <1>1, <1>3
    <3> QED
      BY <3>1
  <2>3. ASSUME NEW p \in U PROVE p \in V \union (F \union L)
    <3>1. PICK t \in Task : p \in PagesOf(task[t])
      OBVIOUS
    <3>2. CASE t = t0
      BY <3>1, <3>2
    <3>3. CASE t # t0
      <4>1. p \in PagesOf(task'[t])
        BY <1>3, <3>1, <3>3
      <4> QED
        BY <4>1
    <3> QED
      BY <3>2, <3>3
  <2> HIDE DEF U, V
  <2> QED
    BY <2>1, <2>2, <2>3
<1>5. /\ Apart(F \union L, Available \union heap \union lost \union InHand)
      /\ \A t \in Task : t # t0 => Apart(PagesOf(task[t]), F \union L)
  BY DEF PagesPartitioned
<1>6. ASSUME NEW t \in Task
      PROVE  /\ Apart(PagesOf(task'[t]), Available' \union heap' \union lost'
                                            \union InHand')
             /\ Separate(task'[t])
             /\ \A u \in Task \ {t} :
                    Apart(PagesOf(task'[t]), PagesOf(task'[u]))
  <2>1. CASE t = t0
    BY <1>1, <1>3, <2>1 DEF Apart
  <2>2. CASE t # t0
    BY <1>1, <1>2, <1>3, <1>5, <2>2 DEF Apart, PagesPartitioned
  <2> QED
    BY <2>1, <2>2
<1>7. /\ Available' \union heap' \union lost' \union InHand'
            \union UNION {PagesOf(task'[t]) : t \in Task} = ram'
      /\ Apart(heap', Available')
      /\ Apart(lost', Available' \union heap')
      /\ Apart(InHand', Available' \union heap' \union lost')
  BY <1>2, <1>4, <1>5 DEF PagesPartitioned, Apart
<1>8. op'.page \notin PagesOf(op') /\ Separate(op')
  BY DEF PagesPartitioned, Same
<1> QED
  BY <1>6, <1>7, <1>8 DEF PagesPartitioned

(* The operation ends: its pages are free or lost, the struct task is      *)
(* free.                                                                   *)
LEMMA OpGone ==
    ASSUME PagesPartitioned, UNCHANGED <<ram, heap>>, op' = NoOp,
           \A t \in Task : Same(task[t], task'[t]),
           NEW F, NEW L, Apart(F, L), F \union L = InHand,
           Available' = Available \union F, lost' = lost \union L
    PROVE  PagesPartitioned'
<1>1. PagesOf(NoOp) = {} /\ Separate(NoOp) /\ NoOp.page = NULL
  BY BareParts DEF NoOp
<1>2. InHand' = {}
  BY <1>1 DEF InHand
<1>3. {PagesOf(task[t]) : t \in Task} = {PagesOf(task'[t]) : t \in Task}
  BY DEF Same
<1> QED
  BY <1>1, <1>2, <1>3 DEF PagesPartitioned, Same, Apart

-----------------------------------------------------------------------------
(* Initially, and in the steps of a task's life.                           *)

USE DEF CREATE_TEST, DESTROY_TEST, CREATE_INIT, CREATE_DEMO, ENTER_USER, BOOTED

LEMMA NoTableFacts ==
    /\ NoTable \in PageTable
    /\ NoTable.root = NULL /\ NoTable.tables = {}
    /\ \A v \in VPage : NoTable.map[v] = NULL
    /\ Mapped(NoTable) = {}
    /\ \A n : Beyond(NoTable, n)
<1>1. /\ NoTable \in PageTable
      /\ NoTable.root = NULL /\ NoTable.tables = {}
      /\ \A v \in VPage : NoTable.map[v] = NULL
  BY DEF NoTable, PageTable
<1> QED
  BY <1>1, Numbers DEF Mapped, Beyond

LEMMA NoOpFacts ==
    /\ NoOp \in OpRec /\ NoOp.kind = "none" /\ NoOp.at = "done"
    /\ NoOp.t = NULL /\ NoOp.ustack = NULL /\ NoOp.kstack = NULL
    /\ NoOp.page = NULL /\ NoOp.pt = NoTable /\ NoOp.n = 0
    /\ NoOp.elf = << >>
    /\ PagesOf(NoOp) = {} /\ Separate(NoOp)
<1>1. /\ NoOp \in OpRec /\ NoOp.kind = "none" /\ NoOp.at = "done"
      /\ NoOp.t = NULL /\ NoOp.ustack = NULL /\ NoOp.kstack = NULL
      /\ NoOp.page = NULL /\ NoOp.pt = NoTable /\ NoOp.n = 0
      /\ NoOp.elf = << >>
  BY NoTableFacts DEF NoOp, OpRec, At
<1> QED
  BY <1>1, BareParts

LEMMA NoTaskFacts ==
    /\ NoTask \in TaskRec /\ NoTask.state = "FREE" /\ Bare(NoTask)
    /\ PagesOf(NoTask) = {} /\ Separate(NoTask)
    /\ NoTask.pt = NoTable
<1>1. /\ NoTask \in TaskRec /\ NoTask.state = "FREE" /\ Bare(NoTask)
      /\ NoTask.pt = NoTable
  BY NoTableFacts, Numbers DEF NoTask, TaskRec, Bare
<1> QED
  BY <1>1, BareParts DEF Bare

LEMMA MemInit == Init => IInv
<1> SUFFICES ASSUME Init PROVE IInv
  OBVIOUS
<1>1. PICK S \in Sizes : \E h \in S \intersect page_alloc(S) :
        /\ ram = S
        /\ free = [p \in Page |-> IF p \in S \ {h} THEN 1 ELSE 0]
        /\ heap = {h} /\ lost = {}
  BY DEF Init
<1>2. PICK h \in S \intersect page_alloc(S) :
        /\ ram = S
        /\ free = [p \in Page |-> IF p \in S \ {h} THEN 1 ELSE 0]
        /\ heap = {h} /\ lost = {}
  BY <1>1
<1>3. /\ data = [p \in Page |-> "junk"] /\ task = [t \in Task |-> NoTask]
      /\ current = NULL /\ satp = NULL /\ boot = 0 /\ mode = "kernel"
      /\ op = NoOp
  BY DEF Init
<1>4. S \subseteq Page
  BY MemoryAssumption
<1>5. Types
  BY <1>2, <1>3, <1>4, NoOpFacts, NoTaskFacts DEF Types, Content
<1>6. Control /\ TasksComplete
  BY <1>3, NoOpFacts, NoTaskFacts, MemoryAssumption DEF Control, TasksComplete
<1>7. OpShape
  BY <1>3, NoOpFacts, NoTableFacts, Numbers DEF OpShape, Early, Loaded
<1>8. PagesPartitioned
  <2>1. Available = S \ {h}
    BY <1>2, <1>4 DEF Available
  <2>2. InHand = {} /\ Separate(op) /\ op.page \notin PagesOf(op)
    BY <1>3, NoOpFacts DEF InHand
  <2>3. \A t \in Task : PagesOf(task[t]) = {} /\ Separate(task[t])
    BY <1>3, NoTaskFacts
  <2> QED
    BY <1>2, <2>1, <2>2, <2>3 DEF PagesPartitioned, Apart
<1>9. SatpInUse /\ NoStaleData
  BY <1>3, NoTaskFacts DEF SatpInUse, NoStaleData
<1>10. OpData /\ OpCopies
  BY <1>3, NoOpFacts, NoTableFacts DEF OpData, OpCopies
<1> QED
  BY <1>5, <1>6, <1>7, <1>8, <1>9, <1>10 DEF IInv

-----------------------------------------------------------------------------
(* The steps of an operation.                                              *)

(* The size of the image, and where its next page goes.                    *)
LEMMA ImageFacts ==
    ASSUME Types, Control
    PROVE  /\ op.kind \in {"create", "fork", "exec"} => ImageSize \in Nat
           /\ op.kind \in {"create", "fork"} =>
                 ImageSize <= ImagePages /\ Target = op.n
           /\ op.kind \in {"create", "fork", "exec"} /\ op.n < ImageSize =>
                 Target \in Text
<1>1. /\ op.n \in Nat /\ op.elf \in Seq(Text)
      /\ op.kind = "fork" => task[current].size \in 0..ImagePages
  <2>1. op.kind = "fork" => current \in Task
    BY DEF Types, Control
  <2>2. << >> \in Seq(Text) /\ Elfs \subseteq Seq(Text)
    BY MemoryAssumption DEF Text
  <2> QED
    BY <2>1, <2>2 DEF Types, OpRec, TaskRec
<1>2. CASE op.kind = "create"
  BY <1>1, <1>2, Numbers DEF ImageSize, Target, Text
<1>3. CASE op.kind = "fork"
  BY <1>1, <1>3, Numbers DEF ImageSize, Target, Text
<1>4. CASE op.kind = "exec"
  <2>1. ImageSize = Len(op.elf) /\ Target = op.elf[op.n + 1]
    BY <1>4 DEF ImageSize, Target
  <2> QED
    BY <1>1, <1>4, <2>1
<1> QED
  BY <1>2, <1>3, <1>4

(* What the steps that only build have in common.                          *)
Builds ==
    /\ op' \in OpRec /\ free' \in [Page -> {0, 1}] /\ data' \in [Page -> Content]
    /\ heap' \subseteq Page
    /\ UNCHANGED <<ram, task, current, satp, boot, mode, lost>>
    /\ op.kind # "none" /\ op'.kind = op.kind /\ op'.at # "done"
    /\ op'.t = op.t
    /\ \A t \in Task : \A p \in PagesOf(task[t]) : data'[p] = data[p]

LEMMA BuildStep ==
    ASSUME IInv, Builds
    PROVE  /\ Types' /\ Control' /\ TasksComplete'
           /\ SatpInUse' /\ NoStaleData'
<1>1. Types'
  BY DEF IInv, Types, Builds
<1>2. mode = "kernel" /\ mode' = "kernel" /\ op.at # "done"
  BY DEF IInv, Control, Builds, Types, NoOp
<1>3. Control'
  BY <1>2 DEF IInv, Control, Builds
<1>4. TasksComplete'
  BY DEF IInv, TasksComplete, Builds
<1>5. SatpInUse'
  BY DEF IInv, SatpInUse, Builds
<1>6. NoStaleData'
  <2> SUFFICES ASSUME NEW t \in Task, task[t].state \in {"LIVE", "ZOMBIE"},
                      NEW p \in Mapped(task[t].pt)
               PROVE  data'[p] # "junk"
    BY DEF NoStaleData, Builds
  <2>1. p \in PagesOf(task[t])
    BY PagesOfIs DEF Mapped
  <2> QED
    BY <2>1 DEF IInv, NoStaleData, Builds
<1> QED
  BY <1>1, <1>3, <1>4, <1>5, <1>6

(* A free page belongs to nobody: filling it changes nothing for a task or *)
(* for the pages in hand.                                                  *)
LEMMA FreeIsNobodys ==
    ASSUME PagesPartitioned, NEW p \in Available
    PROVE  /\ p \notin PagesOf(op) /\ p # op.page /\ p \in Page /\ p # NULL
           /\ \A t \in Task : p \notin PagesOf(task[t])
<1>1. p \in Page /\ p # NULL
  BY MemoryAssumption DEF Available
<1> QED
  BY <1>1 DEF PagesPartitioned, Apart, InHand

(* Giving up.                                                              *)
LEMMA GiveUp ==
    ASSUME IInv, Goes("abort"), UNCHANGED <<free, data, heap>>,
           op.at \in {"find", "struct", "kernel", "image", "imagemap", "newstack",
                      "stackmap"},
           UNCHANGED <<ram, task, current, satp, boot, mode, lost>>
    PROVE  IInv'
<1>1. /\ op \in OpRec /\ op' = [op EXCEPT !.at = "abort"] /\ free' = free
      /\ op.kind # "none"
  BY DEF IInv, Types, Goes, Control
<1>2. /\ op'.at = "abort" /\ op' \in OpRec
      /\ UNCHANGED <<op.kind, op.t, op.ustack, op.kstack, op.page, op.pt, op.n,
                     op.elf>>
  BY <1>1 DEF OpRec, At
<1>3. Same(op, op')
  BY <1>2, SameParts DEF Same
<1>4. Builds
  BY <1>1, <1>2 DEF IInv, Types, Builds
<1>5. PagesPartitioned'
  BY <1>1, <1>2, <1>3, NothingMoves DEF IInv, Same
<1>6. OpShape'
  BY <1>2 DEF IInv, OpShape, Early, Loaded
<1>7. OpData' /\ OpCopies'
  BY <1>2 DEF IInv, OpData, OpCopies, Loaded
<1> QED
  BY <1>4, <1>5, <1>6, <1>7, BuildStep DEF IInv

LEMMA ReapDoneStep ==
    ASSUME IInv, ReapDone
    PROVE  IInv'
<1>1. /\ op \in OpRec /\ op.at = "reap" /\ op.kind # "none"
      /\ op.kind \in {"create", "fork", "sched"}
      /\ op' = [op EXCEPT !.at = IF op.kind = "sched" THEN "pick" ELSE "struct"]
      /\ UNCHANGED <<ram, free, heap, data, task, current, satp, boot, mode,
                     lost>>
  BY DEF ReapDone, Goes, IInv, Types, OpRec, Control, OpShape
<1>2. /\ op'.at = IF op.kind = "sched" THEN "pick" ELSE "struct"
      /\ op' \in OpRec
      /\ UNCHANGED <<op.kind, op.t, op.ustack, op.kstack, op.page, op.pt, op.n,
                     op.elf>>
  BY <1>1 DEF OpRec, At
<1>3. Same(op, op')
  BY <1>2, SameParts DEF Same
<1>4. Builds
  BY <1>1, <1>2 DEF IInv, Types, Builds
<1>5. PagesPartitioned'
  BY <1>1, <1>2, <1>3, NothingMoves DEF IInv, Same
<1>6. OpShape'
  BY <1>1, <1>2 DEF IInv, OpShape, Early, Loaded
<1>7. OpData' /\ OpCopies'
  BY <1>1, <1>2 DEF IInv, OpData, OpCopies, Loaded
<1> QED
  BY <1>4, <1>5, <1>6, <1>7, BuildStep DEF IInv

LEMMA ExecFindsStep ==
    ASSUME IInv, ExecFinds
    PROVE  IInv'
<1>1. /\ op \in OpRec /\ op.at = "find" /\ op.kind = "exec"
      /\ UNCHANGED <<ram, free, heap, data, task, current, satp, boot, mode,
                     lost>>
  BY DEF ExecFinds, IInv, Types, OpShape
<1>2. CASE Goes("abort")
  BY <1>1, <1>2, GiveUp
<1>3. ASSUME NEW e \in Elfs, op' = [op EXCEPT !.elf = e, !.at = "root"]
      PROVE  IInv'
  <2>1. /\ op'.at = "root" /\ op' \in OpRec
        /\ UNCHANGED <<op.kind, op.t, op.ustack, op.kstack, op.page, op.pt,
                       op.n>>
    BY <1>1, <1>3 DEF OpRec, At
  <2>2. Same(op, op')
    BY <2>1, SameParts DEF Same
  <2>3. Builds
    BY <1>1, <2>1 DEF IInv, Types, Builds
  <2>4. PagesPartitioned'
    BY <1>1, <2>1, <2>2, NothingMoves DEF IInv, Same
  <2>5. OpShape'
    BY <1>1, <2>1 DEF IInv, OpShape, Early, Loaded
  <2>6. OpData' /\ OpCopies'
    BY <1>1, <2>1 DEF IInv, OpData, OpCopies, Loaded
  <2> QED
    BY <2>3, <2>4, <2>5, <2>6, BuildStep DEF IInv
<1> QED
  BY <1>2, <1>3 DEF ExecFinds

(* A stack or the root is there now, or there is no page for it.           *)
LEMMA AllocPartsStep ==
    ASSUME IInv, AllocParts
    PROVE  IInv'
<1>1. /\ op \in OpRec /\ op.at \in {"ustack", "kstack", "root"}
      /\ op.kind \in {"create", "fork", "exec"}
      /\ op.pt = NoTable /\ op.n = 0 /\ op.page = NULL
      /\ op.at = "ustack" => op.ustack = NULL /\ op.kstack = NULL
      /\ op.at = "kstack" => op.kstack = NULL
      /\ UNCHANGED <<ram, heap, data, task, current, satp, boot, mode, lost>>
      /\ free \in [Page -> {0, 1}] /\ PagesPartitioned
  BY DEF AllocParts, IInv, Types, OpRec, OpShape, Early, Control
<1>2. PICK p \in Page \union {NULL} :
        /\ Take(p) \/ (p = NULL /\ free' = free)
        /\ op' = CASE op.at = "ustack" ->
                        [op EXCEPT !.ustack = p, !.at = "kstack"]
                   [] op.at = "kstack" ->
                        [op EXCEPT !.kstack = p, !.at = "root"]
                   [] op.at = "root" ->
                        [op EXCEPT !.pt.root = p,
                                   !.at = IF p = NULL \/ NoStacks
                                          THEN "abort" ELSE "kernel"]
  BY DEF AllocParts
<1>3. /\ op' \in OpRec
      /\ UNCHANGED <<op.kind, op.t, op.page, op.n, op.elf>>
      /\ op'.ustack = IF op.at = "ustack" THEN p ELSE op.ustack
      /\ op'.kstack = IF op.at = "kstack" THEN p ELSE op.kstack
      /\ op'.pt = IF op.at = "root" THEN [NoTable EXCEPT !.root = p] ELSE NoTable
      /\ op'.at = CASE op.at = "ustack" -> "kstack" [] op.at = "kstack" -> "root"
                    [] op.at = "root" -> IF p = NULL \/ NoStacks THEN "abort"
                                         ELSE "kernel"
  <2>1. CASE op.at = "ustack"
    BY <1>1, <1>2, <2>1 DEF OpRec, At
  <2>2. CASE op.at = "kstack"
    BY <1>1, <1>2, <2>2 DEF OpRec, At
  <2>3. CASE op.at = "root"
    <3>1. op' = [op EXCEPT !.pt.root = p,
                           !.at = IF p = NULL \/ NoStacks
                                  THEN "abort" ELSE "kernel"]
      BY <1>2, <2>3
    <3>2. [op.pt EXCEPT !.root = p] \in PageTable
      BY <1>1 DEF OpRec, PageTable
    <3>3. /\ op'.pt = [op.pt EXCEPT !.root = p]
          /\ op'.at = IF p = NULL \/ NoStacks THEN "abort" ELSE "kernel"
          /\ UNCHANGED <<op.kind, op.t, op.page, op.n, op.elf, op.ustack,
                         op.kstack>>
      BY <1>1, <3>1 DEF OpRec
    <3>4. op' \in OpRec
      <4> DEFINE X == [op.pt EXCEPT !.root = p]
                 a == IF p = NULL \/ NoStacks THEN "abort" ELSE "kernel"
      <4>1. op' = [op EXCEPT !.pt = X, !.at = a] /\ a \in At
        BY <1>1, <3>1 DEF OpRec, At
      <4>2. X \in PageTable
        BY <3>2
      <4> HIDE DEF X, a
      <4> QED
        BY <1>1, <4>1, <4>2 DEF OpRec
    <3> QED
      BY <1>1, <2>3, <3>3, <3>4
  <2> QED
    BY <1>1, <2>1, <2>2, <2>3
<1>4. /\ op'.pt.tables = {} /\ \A v \in VPage : op'.pt.map[v] = NULL
      /\ op'.pt.root = IF op.at = "root" THEN p ELSE NULL
      /\ op.pt.tables = {} /\ \A v \in VPage : op.pt.map[v] = NULL
      /\ op.pt.root = NULL
  BY <1>1, <1>3 DEF NoTable
<1>5. PagesPartitioned' /\ free' \in [Page -> {0, 1}]
  <2>1. CASE p = NULL
    <3>1. Same(op, op')
      <4>1. op'.ustack = op.ustack /\ op'.kstack = op.kstack
        BY <1>1, <1>3, <2>1
      <4> QED
        BY <1>4, <2>1, <4>1, SameFields DEF Same, SameMap
    <3>2. free' = free
      BY <1>2, <2>1, MemoryAssumption DEF Take, Available
    <3> QED
      BY <1>1, <1>3, <3>1, <3>2, SameParts, NothingMoves DEF Same
  <2>2. CASE p # NULL
    <3>1. p \in Page /\ Take(p) /\ p \in Available
      BY <1>1, <1>2, <2>2, TakeFacts
    <3>2. p \notin PagesOf(op)
      BY <1>1, <3>1, FreeIsNobodys
    <3>3. Separate(op) /\ SameMap(op, op')
      BY <1>1, <1>4 DEF PagesPartitioned, SameMap
    <3>4. ASSUME op.at = "ustack"
          PROVE  Separate(op') /\ PagesOf(op') = PagesOf(op) \union {p}
      <4>1. /\ op.ustack = NULL /\ op'.ustack = p /\ op'.kstack = op.kstack
            /\ op'.pt.root = op.pt.root /\ op'.pt.tables = op.pt.tables
        BY <1>1, <1>3, <1>4, <3>4
      <4> QED
        BY <2>2, <3>2, <3>3, <4>1, GrowStack
    <3>5. ASSUME op.at = "kstack"
          PROVE  Separate(op') /\ PagesOf(op') = PagesOf(op) \union {p}
      <4>1. /\ op.kstack = NULL /\ op'.kstack = p /\ op'.ustack = op.ustack
            /\ op'.pt.root = op.pt.root /\ op'.pt.tables = op.pt.tables
        BY <1>1, <1>3, <1>4, <3>5
      <4> QED
        BY <2>2, <3>2, <3>3, <4>1, GrowKstack
    <3>6. ASSUME op.at = "root"
          PROVE  Separate(op') /\ PagesOf(op') = PagesOf(op) \union {p}
      <4>1. /\ op.pt.root = NULL /\ op'.pt.root = p /\ op'.ustack = op.ustack
            /\ op'.kstack = op.kstack /\ op'.pt.tables = op.pt.tables
        BY <1>1, <1>3, <1>4, <3>6
      <4> QED
        BY <2>2, <3>2, <3>3, <4>1, GrowRoot
    <3>7. Separate(op') /\ PagesOf(op') = PagesOf(op) \union {p}
      BY <1>1, <3>4, <3>5, <3>6
    <3> QED
      BY <1>1, <1>3, <3>1, <3>7, PageTaken, TakeFacts
  <2> QED
    BY <2>1, <2>2
<1>6. Builds
  BY <1>1, <1>3, <1>5 DEF IInv, Types, Builds
<1>7. OpShape'
  <2>1. \A n : Beyond(op'.pt, n)
    BY <1>4, Numbers DEF Beyond
  <2>2. op'.at = "kernel" => op.at = "root" /\ p # NULL /\ ~NoStacks
    BY <1>1, <1>3
  <2> HIDE DEF NoTable
  <2>3. CASE op.at = "ustack"
    BY <1>1, <1>3, <1>4, <2>1, <2>3, Numbers DEF IInv, OpShape, Early, Loaded
  <2>4. CASE op.at = "kstack"
    BY <1>1, <1>3, <1>4, <2>1, <2>4, Numbers DEF IInv, OpShape, Early, Loaded
  <2>5. CASE op.at = "root"
    <3>1. /\ op'.ustack = op.ustack /\ op'.kstack = op.kstack
          /\ op'.at \in {"abort", "kernel"} /\ op'.page = NULL
          /\ op'.kind = op.kind /\ op'.t = op.t /\ op'.pt.root = p
      BY <1>1, <1>3, <1>4, <2>5
    <3>2. /\ op.kind = "exec" => op.t = NULL /\ op.ustack = NULL /\ op.kstack = NULL
          /\ op'.at = "kernel" /\ op.kind # "exec" => op.ustack # NULL
          /\ op.kind # "exec" => op.t # NULL
      BY <1>1, <2>2, <2>5 DEF IInv, OpShape, NoStacks
    <3> QED
      BY <1>1, <1>4, <2>1, <2>2, <3>1, <3>2, Numbers DEF OpShape, Early, Loaded
  <2> QED
    BY <1>1, <2>3, <2>4, <2>5
<1>8. OpData' /\ OpCopies'
  <2>1. op'.at \in {"kstack", "root", "abort", "kernel"} /\ Mapped(op'.pt) = {}
    BY <1>1, <1>3, <1>4 DEF Mapped
  <2> QED
    BY <2>1 DEF OpData, OpCopies, Loaded
<1> QED
  BY <1>5, <1>6, <1>7, <1>8, BuildStep DEF IInv

(* The struct task, or the heap page that makes room for it.               *)
LEMMA AllocStructStep ==
    ASSUME IInv, AllocStruct
    PROVE  IInv'
<1>1. /\ op \in OpRec /\ op.at = "struct" /\ op.kind \in {"create", "fork"}
      /\ op.t = NULL /\ op.ustack = NULL /\ op.kstack = NULL /\ op.page = NULL
      /\ op.pt = NoTable /\ op.n = 0
      /\ UNCHANGED <<ram, data, current, satp, boot, mode, lost>>
      /\ free \in [Page -> {0, 1}] /\ task \in [Task -> TaskRec]
      /\ heap \subseteq Page
  BY DEF AllocStruct, IInv, Types, OpRec, OpShape, Early, Control
<1>2. \/ \E t \in kmalloc({u \in Task : task[u].state = "FREE"}) :
            /\ task' = [task EXCEPT ![t].state = "UNUSED"]
            /\ op' = [op EXCEPT !.t = t, !.at = "ustack"]
            /\ UNCHANGED <<free, heap>>
      \/ \E p \in Page : Take(p) /\ heap' = heap \union {p}
                         /\ UNCHANGED <<task, op>>
      \/ Goes("abort") /\ UNCHANGED <<free, heap, task>>
  <2>1. Task \ {t \in Task : task[t].state # "FREE"}
            = {u \in Task : task[u].state = "FREE"}
    OBVIOUS
  <2> QED
    BY <2>1 DEF AllocStruct, Fails
<1>3. CASE Goes("abort") /\ UNCHANGED <<free, heap, task>>
  BY <1>1, <1>3, GiveUp
<1>4. ASSUME NEW p \in Page, Take(p), heap' = heap \union {p},
             UNCHANGED <<task, op>>
      PROVE  IInv'
  <2>1. free' \in [Page -> {0, 1}]
    BY <1>1, <1>4, TakeFacts
  <2>2. Builds
    BY <1>1, <1>4, <2>1 DEF IInv, Types, Builds
  <2>3. PagesPartitioned'
    BY <1>1, <1>4, PageTaken DEF IInv
  <2>4. OpShape' /\ OpData' /\ OpCopies'
    BY <1>1, <1>4 DEF IInv, OpShape, OpData, OpCopies, ImageSize
  <2> QED
    BY <2>2, <2>3, <2>4, BuildStep DEF IInv
<1>5. ASSUME NEW t0 \in kmalloc({u \in Task : task[u].state = "FREE"}),
             task' = [task EXCEPT ![t0].state = "UNUSED"],
             op' = [op EXCEPT !.t = t0, !.at = "ustack"],
             UNCHANGED <<free, heap>>
      PROVE  IInv'
  <2>1. t0 \in Task /\ task[t0].state = "FREE" /\ t0 # NULL
    <3>1. {u \in Task : task[u].state = "FREE"} \in SUBSET Task
      OBVIOUS
    <3> QED
      BY <3>1, MemoryAssumption
  <2>2. /\ op'.at = "ustack" /\ op'.t = t0 /\ op' \in OpRec
        /\ UNCHANGED <<op.kind, op.ustack, op.kstack, op.page, op.pt, op.n,
                       op.elf>>
    BY <1>1, <1>5, <2>1 DEF OpRec, At
  <2>3. /\ task' \in [Task -> TaskRec]
        /\ task'[t0].state = "UNUSED" /\ task'[t0].ustack = task[t0].ustack
        /\ task'[t0].kstack = task[t0].kstack /\ task'[t0].pt = task[t0].pt
        /\ task'[t0].size = task[t0].size
        /\ \A t \in Task : t # t0 => task'[t] = task[t]
    BY <1>1, <1>5, <2>1 DEF TaskRec
  <2>4. \A t \in Task : Same(task[t], task'[t])
    BY <2>3, SameParts DEF Same
  <2>5. PagesPartitioned'
    <3>1. Same(op, op')
      BY <2>2, SameParts DEF Same
    <3> QED
      BY <1>1, <1>5, <2>2, <2>4, <3>1, NothingMoves DEF IInv
  <2>6. Types'
    BY <1>1, <1>5, <2>2, <2>3 DEF IInv, Types
  <2>7. Control'
    <3>1. current # NULL => current \in Task /\ current # t0
      BY <2>1 DEF IInv, Types, Control
    <3>2. mode = "kernel"
      BY <1>1, NoOpFacts DEF IInv, Control
    <3> QED
      BY <1>1, <2>1, <2>2, <2>3, <3>1, <3>2 DEF IInv, Control
  <2>8. TasksComplete'
    <3>1. Bare(task[t0]) /\ Bare(task'[t0])
      BY <2>1, <2>3 DEF IInv, TasksComplete, Bare
    <3> QED
      BY <1>1, <2>1, <2>2, <2>3, <3>1, MemoryAssumption DEF IInv, TasksComplete
  <2>9. OpShape'
    BY <1>1, <2>1, <2>2, NoTableFacts, Numbers DEF OpShape, Early, Loaded
  <2>10. SatpInUse'
    <3>1. /\ \A t \in Task : task'[t].pt = task[t].pt
          /\ \A t \in Task : task[t].state # "FREE" => task'[t].state # "FREE"
      BY <2>1, <2>3
    <3>2. mode' # "user"
      BY <1>1, NoOpFacts DEF IInv, Control, Types
    <3> QED
      BY <1>1, <3>1, <3>2 DEF IInv, SatpInUse
  <2>11. NoStaleData'
    <3>1. \A t \in Task : task'[t].state \in {"LIVE", "ZOMBIE"} =>
             task'[t] = task[t]
      BY <2>3
    <3> QED
      BY <1>1, <3>1 DEF IInv, NoStaleData
  <2>12. OpData' /\ OpCopies'
    BY <1>1, <2>2, NoTableFacts DEF OpData, OpCopies, Loaded
  <2> QED
    BY <2>5, <2>6, <2>7, <2>8, <2>9, <2>10, <2>11, <2>12 DEF IInv
<1> QED
  BY <1>2, <1>3, <1>4, <1>5

(* The tables of the kernel's mappings.                                    *)
LEMMA MapKernelStep ==
    ASSUME IInv, MapKernel
    PROVE  IInv'
<1>1. /\ op \in OpRec /\ op.at = "kernel" /\ op.kind \in {"create", "fork", "exec"}
      /\ op.page = NULL /\ \A v \in VPage : op.pt.map[v] = NULL
      /\ op.pt.root # NULL /\ op.n \in Nat /\ op.pt \in PageTable
      /\ op.kind # "exec" => op.ustack # NULL /\ op.t # NULL
      /\ op.kind = "exec" => op.ustack = NULL /\ op.t = NULL /\ op.kstack = NULL
      /\ UNCHANGED <<ram, heap, data, task, current, satp, boot, mode, lost>>
      /\ free \in [Page -> {0, 1}]
  BY DEF MapKernel, IInv, Types, OpRec, OpShape, Early, Control
<1>2. CASE Fails
  BY <1>1, <1>2, GiveUp DEF Fails
<1>3. ASSUME NEW p \in Page, Take(p),
             op' = [op EXCEPT !.pt = Table(@, p), !.n = @ + 1]
      PROVE  IInv'
  <2>1. /\ Table(op.pt, p) \in PageTable
        /\ Table(op.pt, p).tables = op.pt.tables \union {p}
        /\ Table(op.pt, p).root = op.pt.root
        /\ Table(op.pt, p).map = op.pt.map
    BY <1>1 DEF Table, PageTable
  <2>2. /\ op'.pt = Table(op.pt, p) /\ op'.n = op.n + 1 /\ op' \in OpRec
        /\ UNCHANGED <<op.kind, op.at, op.t, op.ustack, op.kstack, op.page,
                       op.elf>>
    <3> DEFINE X == Table(op.pt, p)
               N == op.n + 1
    <3>1. op' = [op EXCEPT !.pt = X, !.n = N] /\ X \in PageTable /\ N \in Nat
      BY <1>1, <1>3, <2>1 DEF OpRec
    <3> HIDE DEF X, N
    <3>2. /\ op'.pt = X /\ op'.n = N /\ op' \in OpRec
          /\ UNCHANGED <<op.kind, op.at, op.t, op.ustack, op.kstack, op.page,
                         op.elf>>
      BY <1>1, <3>1 DEF OpRec
    <3> QED
      BY <3>2 DEF X, N
  <2>3. free' \in [Page -> {0, 1}] /\ p \in Available
    BY <1>1, <1>3, TakeFacts
  <2>4. Builds
    BY <1>1, <2>2, <2>3 DEF IInv, Types, Builds
  <2>5. Separate(op') /\ PagesOf(op') = PagesOf(op) \union {p}
    <3>1. p \notin PagesOf(op) /\ p # NULL /\ Separate(op)
      BY <2>3, FreeIsNobodys DEF IInv, PagesPartitioned
    <3>2. /\ op'.pt.tables = op.pt.tables \union {p} /\ op'.pt.root = op.pt.root
          /\ op'.ustack = op.ustack /\ op'.kstack = op.kstack
          /\ SameMap(op, op')
      BY <2>1, <2>2 DEF SameMap
    <3> QED
      BY <3>1, <3>2, GrowTables
  <2>6. PagesPartitioned'
    BY <1>1, <1>3, <2>2, <2>5, PageTaken DEF IInv
  <2>7. op'.pt.root = op.pt.root /\ \A v \in VPage : op'.pt.map[v] = NULL
    BY <1>1, <2>1, <2>2
  <2>8. OpShape'
    <3>1. \A n : Beyond(op'.pt, n)
      BY <2>7, Numbers DEF Beyond
    <3> QED
      BY <1>1, <2>2, <2>7, <3>1, Numbers DEF IInv, OpShape, Early, Loaded
  <2>9. OpData' /\ OpCopies'
    <3>1. Mapped(op'.pt) = {}
      BY <2>7 DEF Mapped
    <3> QED
      BY <1>1, <2>2, <3>1 DEF OpData, OpCopies, Loaded
  <2> QED
    BY <2>4, <2>6, <2>8, <2>9, BuildStep DEF IInv
<1>4. ASSUME op' = [op EXCEPT !.n = 0, !.at = "image"], UNCHANGED free
      PROVE  IInv'
  <2>1. /\ op'.n = 0 /\ op'.at = "image" /\ op' \in OpRec
        /\ UNCHANGED <<op.kind, op.pt, op.t, op.ustack, op.kstack, op.page,
                       op.elf>>
    BY <1>1, <1>4 DEF OpRec, At
  <2>2. Builds
    BY <1>1, <1>4, <2>1 DEF IInv, Types, Builds
  <2>3. PagesPartitioned'
    <3>1. Same(op, op')
      BY <2>1, SameParts DEF Same
    <3> QED
      BY <1>1, <1>4, <2>1, <3>1, NothingMoves DEF IInv, Same
  <2>4. OpShape'
    <3>1. \A n : Beyond(op'.pt, n)
      BY <1>1, <2>1, Numbers DEF Beyond
    <3>2. 0 <= ImageSize'
      <4>1. ImageSize \in Nat /\ ImageSize' = ImageSize
        BY <1>1, <2>1, ImageFacts DEF IInv, ImageSize
      <4> QED
        BY <4>1
    <3> QED
      BY <1>1, <2>1, <3>1, <3>2, Numbers DEF IInv, OpShape, Early, Loaded
  <2>5. OpData' /\ OpCopies'
    <3>1. Mapped(op'.pt) = {}
      BY <1>1, <2>1 DEF Mapped
    <3> QED
      BY <1>1, <2>1, <3>1, Numbers DEF OpData, OpCopies, Text
  <2> QED
    BY <2>2, <2>3, <2>4, <2>5, BuildStep DEF IInv
<1> QED
  BY <1>2, <1>3, <1>4 DEF MapKernel

(* An image page is there, filled.                                         *)
LEMMA LoadPageStep ==
    ASSUME IInv, LoadPage
    PROVE  IInv'
<1>1. /\ op \in OpRec /\ op.at = "image" /\ op.kind \in {"create", "fork", "exec"}
      /\ op.page = NULL /\ op.n \in Nat /\ op.pt \in PageTable
      /\ op.n < ImageSize /\ op.pt.root # NULL
      /\ op.kind # "exec" => op.ustack # NULL /\ op.t # NULL
      /\ op.kind = "exec" => op.ustack = NULL /\ op.t = NULL /\ op.kstack = NULL
      /\ op.kind # "exec" => Beyond(op.pt, op.n)
      /\ op.pt.map[STACK] = NULL /\ op.pt.map[TOP] = NULL
      /\ UNCHANGED <<ram, heap, task, current, satp, boot, mode, lost>>
      /\ free \in [Page -> {0, 1}] /\ data \in [Page -> Content]
      /\ task \in [Task -> TaskRec]
  BY DEF LoadPage, IInv, Types, OpRec, OpShape, Early, Control
<1>2. /\ ImageSize \in Nat
      /\ op.kind # "exec" => ImageSize <= ImagePages
      /\ op.kind = "fork" => current \in Task
  BY <1>1, ImageFacts DEF IInv, Control, Types
<1>3. op.kind = "fork" => /\ op.n \in Text
                          /\ task[current].pt.map[op.n] \in Page \union {NULL}
  <2>1. op.kind = "fork" => op.n \in Text
    BY <1>1, <1>2, Numbers DEF Text
  <2> QED
    BY <1>1, <1>2, <2>1, Numbers DEF TaskRec, PageTable
<1>4. CASE Skipped /\ op' = [op EXCEPT !.n = @ + 1] /\ UNCHANGED <<free, data>>
  <2>1. /\ op'.n = op.n + 1 /\ op' \in OpRec /\ op.kind = "fork"
        /\ task[current].pt.map[op.n] = NULL
        /\ UNCHANGED <<op.kind, op.at, op.pt, op.t, op.ustack, op.kstack,
                       op.page, op.elf>>
    BY <1>1, <1>4 DEF OpRec, Skipped
  <2>2. Builds
    BY <1>1, <1>4, <2>1 DEF IInv, Types, Builds
  <2>3. PagesPartitioned'
    <3>1. Same(op, op')
      BY <2>1, SameParts DEF Same
    <3> QED
      BY <1>1, <1>4, <2>1, <3>1, NothingMoves DEF IInv, Same
  <2>4. OpShape'
    <3>1. Beyond(op'.pt, op'.n)
      BY <1>1, <2>1, Numbers DEF Beyond, Text
    <3>2. ImageSize' = ImageSize
      BY <1>1, <2>1 DEF ImageSize
    <3>3. op'.n <= ImageSize' /\ op'.at = "image" /\ op'.page = NULL
          /\ op'.kind = "fork" /\ op'.pt = op.pt
      BY <1>1, <1>2, <2>1, <3>2
    <3> QED
      BY <1>1, <2>1, <3>1, <3>3 DEF OpShape, Early, Loaded
  <2>5. OpData' /\ OpCopies'
    <3>1. OpData'
      BY <1>1, <1>4, <2>1 DEF IInv, OpData
    <3>2. \A v \in Text : v < op.n + 1 => v < op.n \/ v = op.n
      BY <1>1, Numbers DEF Text
    <3>3. OpCopies'
      BY <1>1, <1>4, <2>1, <3>2 DEF IInv, OpCopies, Loaded
    <3> QED
      BY <3>1, <3>3
  <2> QED
    BY <2>2, <2>3, <2>4, <2>5, BuildStep DEF IInv
<1>5. CASE Fails /\ UNCHANGED data
  BY <1>1, <1>5, GiveUp DEF Fails
<1>6. ASSUME NEW p \in Page, Take(p), ~Skipped,
             data' = [data EXCEPT ![p] = IF op.kind = "fork"
                                         THEN data[task[current].pt.map[op.n]]
                                         ELSE "image"],
             op' = [op EXCEPT !.page = p, !.at = "imagemap"]
      PROVE  IInv'
  <2>1. /\ op'.page = p /\ op'.at = "imagemap" /\ op' \in OpRec
        /\ UNCHANGED <<op.kind, op.n, op.pt, op.t, op.ustack, op.kstack, op.elf>>
    BY <1>1, <1>6 DEF OpRec, At
  <2>2. free' \in [Page -> {0, 1}] /\ p \in Available /\ p # NULL
    BY <1>1, <1>6, TakeFacts
  <2>3. p \notin PagesOf(op) /\ \A t \in Task : p \notin PagesOf(task[t])
    BY <2>2, FreeIsNobodys DEF IInv
  <2>4. op.kind = "fork" =>
            /\ task[current].pt.map[op.n] \in Page
            /\ task[current].pt.map[op.n] \in Mapped(task[current].pt)
            /\ task[current].state = "LIVE"
    BY <1>2, <1>3, <1>6, Numbers DEF Skipped, Mapped, IInv, Control, Types
  <2>5. /\ data' \in [Page -> Content] /\ data'[p] # "junk"
        /\ op.kind = "fork" => data'[p] = data[task[current].pt.map[op.n]]
        /\ \A q \in Page : q # p => data'[q] = data[q]
    <3>1. op.kind = "fork" => data[task[current].pt.map[op.n]] # "junk"
      BY <1>2, <2>4 DEF IInv, NoStaleData
    <3> QED
      BY <1>1, <1>6, <2>4, <3>1 DEF Content
  <2>6. \A t \in Task : PagesOf(task[t]) \subseteq Page
    <3> SUFFICES ASSUME NEW t \in Task PROVE PagesOf(task[t]) \subseteq Page
      OBVIOUS
    <3>1. task[t].pt \in PageTable /\ task[t] \in TaskRec
      BY <1>1 DEF TaskRec
    <3> QED
      BY <3>1, PagesOfIs DEF TaskRec, PageTable
  <2>7. \A t \in Task : \A q \in PagesOf(task[t]) : data'[q] = data[q]
    BY <2>3, <2>5, <2>6
  <2>8. Builds
    BY <1>1, <2>1, <2>2, <2>5, <2>7 DEF IInv, Types, Builds
  <2>9. PagesPartitioned'
    <3>1. Same(op, op')
      BY <2>1, SameParts DEF Same
    <3> QED
      BY <1>1, <1>6, <2>1, <3>1, PageTaken DEF IInv, Same
  <2>10. OpShape'
    <3>1. ImageSize' = ImageSize
      BY <1>1, <2>1 DEF ImageSize
    <3> QED
      BY <1>1, <1>2, <2>1, <2>2, <3>1 DEF OpShape, Early, Loaded
  <2>11. Mapped(op.pt) \subseteq Page /\ p \notin Mapped(op.pt)
    BY <1>1, <2>3, PagesOfIs DEF Mapped, PageTable
  <2>12. OpData'
    BY <2>1, <2>5, <2>11 DEF IInv, OpData
  <2>13. OpCopies'
    <3> SUFFICES ASSUME op.kind = "fork" PROVE OpCopies'
      BY <2>1 DEF OpCopies
    <3> DEFINE m == task[current].pt.map
    <3>1. \A v \in VPage : m[v] # NULL =>
             m[v] \in PagesOf(task[current]) /\ data'[m[v]] = data[m[v]]
      BY <1>2, <2>7, PagesOfIs
    <3>2. \A v \in Text : op.pt.map[v] # NULL => op.pt.map[v] \in Mapped(op.pt)
      BY Numbers DEF Mapped
    <3>3. \A v \in Text : v < op.n /\ m[v] # NULL =>
             op.pt.map[v] # NULL /\ data'[op.pt.map[v]] = data'[m[v]]
      BY <1>1, <2>5, <2>11, <3>1, <3>2, Numbers DEF IInv, OpCopies
    <3>4. m[op.n] # NULL /\ data'[p] = data'[m[op.n]]
      BY <1>3, <2>4, <2>5, <3>1, Numbers, MemoryAssumption
    <3> QED
      BY <1>1, <2>1, <3>3, <3>4 DEF OpCopies
  <2> QED
    BY <2>8, <2>9, <2>10, <2>12, <2>13, BuildStep DEF IInv
<1> QED
  BY <1>4, <1>5, <1>6 DEF LoadPage

LEMMA ImageDoneStep ==
    ASSUME IInv, ImageDone
    PROVE  IInv'
<1>1. /\ op \in OpRec /\ op.at = "image" /\ op.kind \in {"create", "fork", "exec"}
      /\ op.n = ImageSize
      /\ UNCHANGED <<ram, free, heap, data, task, current, satp, boot, mode, lost>>
  BY DEF ImageDone, IInv, Types, OpRec, OpShape, Early, Control
<1>2. CASE Goes("abort")
  BY <1>1, <1>2, GiveUp
<1>3. CASE Goes(IF op.kind = "exec" THEN "newstack" ELSE "stack")
  <2>1. /\ op'.at = IF op.kind = "exec" THEN "newstack" ELSE "stack"
        /\ op' \in OpRec
        /\ UNCHANGED <<op.kind, op.n, op.pt, op.t, op.ustack, op.kstack,
                       op.page, op.elf>>
    BY <1>1, <1>3 DEF OpRec, At, Goes
  <2>2. Builds
    BY <1>1, <2>1 DEF IInv, Types, Builds
  <2>3. PagesPartitioned'
    <3>1. Same(op, op')
      BY <2>1, SameParts DEF Same
    <3> QED
      BY <1>1, <2>1, <3>1, NothingMoves DEF IInv, Same
  <2>4. OpShape'
    <3>1. ImageSize' = ImageSize
      BY <1>1, <2>1 DEF ImageSize
    <3> QED
      BY <1>1, <2>1, <3>1 DEF IInv, OpShape, Early, Loaded
  <2>5. OpData' /\ OpCopies'
    BY <1>1, <2>1 DEF IInv, OpData, OpCopies, Loaded
  <2> QED
    BY <2>2, <2>3, <2>4, <2>5, BuildStep DEF IInv
<1> QED
  BY <1>2, <1>3 DEF ImageDone

LEMMA NewStackStep ==
    ASSUME IInv, NewStack
    PROVE  IInv'
<1>1. /\ op \in OpRec /\ op.at = "newstack" /\ op.kind = "exec"
      /\ op.ustack = NULL /\ op.page = NULL /\ free \in [Page -> {0, 1}]
      /\ UNCHANGED <<ram, heap, data, task, current, satp, boot, mode, lost>>
  BY DEF NewStack, IInv, Types, OpRec, OpShape, Early, Loaded, Control
<1>2. CASE Fails
  BY <1>1, <1>2, GiveUp DEF Fails
<1>3. ASSUME NEW p \in Page, Take(p),
             op' = [op EXCEPT !.ustack = p, !.at = "stack"]
      PROVE  IInv'
  <2>1. /\ op'.ustack = p /\ op'.at = "stack" /\ op' \in OpRec
        /\ UNCHANGED <<op.kind, op.n, op.pt, op.t, op.kstack, op.page, op.elf>>
    BY <1>1, <1>3 DEF OpRec, At
  <2>2. free' \in [Page -> {0, 1}] /\ p \in Available /\ p # NULL
    BY <1>1, <1>3, TakeFacts
  <2>3. Builds
    BY <1>1, <2>1, <2>2 DEF IInv, Types, Builds
  <2>4. Separate(op') /\ PagesOf(op') = PagesOf(op) \union {p}
    <3>1. p \notin PagesOf(op) /\ Separate(op) /\ SameMap(op, op')
      BY <2>1, <2>2, FreeIsNobodys DEF IInv, PagesPartitioned, SameMap
    <3> QED
      BY <1>1, <2>1, <2>2, <3>1, GrowStack
  <2>5. PagesPartitioned'
    BY <1>1, <1>3, <2>1, <2>4, PageTaken DEF IInv
  <2>6. OpShape'
    <3>1. ImageSize' = ImageSize
      BY <1>1, <2>1 DEF ImageSize
    <3> QED
      BY <1>1, <2>1, <2>2, <3>1 DEF IInv, OpShape, Early, Loaded
  <2>7. OpData' /\ OpCopies'
    BY <1>1, <2>1 DEF IInv, OpData, OpCopies, Loaded
  <2> QED
    BY <2>3, <2>5, <2>6, <2>7, BuildStep DEF IInv
<1> QED
  BY <1>2, <1>3 DEF NewStack

(* The stack page is mapped: it is in hand already.                        *)
LEMMA MapStack ==
    ASSUME NEW r, NEW s, r.pt.map[STACK] = NULL, s.pt.map[STACK] = r.ustack,
           \A u \in VPage : u # STACK => s.pt.map[u] = r.pt.map[u],
           s.ustack = r.ustack, s.kstack = r.kstack,
           s.pt.root = r.pt.root, s.pt.tables = r.pt.tables
    PROVE  Same(r, s)
<1>1. ASSUME NEW i \in Role, i # STACK PROVE Part(s, i) = Part(r, i)
  BY <1>1, PartAgrees, Numbers
<1>2. Part(s, STACK) \subseteq Part(r, STACK)
      /\ Part(s, STACK) \ {NULL} = Part(r, STACK) \ {NULL}
  BY Numbers, Parts
<1>3. \A i \in Role : /\ Part(s, i) \subseteq Part(r, i)
                      /\ Part(s, i) \ {NULL} = Part(r, i) \ {NULL}
  BY <1>1, <1>2
<1>4. PagesOf(s) = PagesOf(r)
  BY <1>3 DEF PagesOf
<1>5. Separate(r) => Separate(s)
  BY <1>3 DEF Separate
<1> QED
  BY <1>4, <1>5 DEF Same

LEMMA SetEntryFacts ==
    ASSUME NEW pt \in PageTable, NEW v \in VPage, NEW p \in Page
    PROVE  /\ SetEntry(pt, v, p) \in PageTable
           /\ SetEntry(pt, v, p).map[v] = p
           /\ \A u \in VPage : u # v => SetEntry(pt, v, p).map[u] = pt.map[u]
           /\ SetEntry(pt, v, p).root = pt.root
           /\ SetEntry(pt, v, p).tables = pt.tables
           /\ Mapped(SetEntry(pt, v, p)) \subseteq Mapped(pt) \union {p}
<1> DEFINE m == [pt.map EXCEPT ![v] = p]
<1>1. SetEntry(pt, v, p) = [pt EXCEPT !.map = m]
  BY DEF SetEntry
<1>2. /\ m \in [VPage -> Page \union {NULL}] /\ m[v] = p
      /\ \A u \in VPage : u # v => m[u] = pt.map[u]
  BY DEF PageTable
<1> HIDE DEF m
<1>3. /\ SetEntry(pt, v, p) \in PageTable /\ SetEntry(pt, v, p).map = m
      /\ SetEntry(pt, v, p).root = pt.root
      /\ SetEntry(pt, v, p).tables = pt.tables
  BY <1>1, <1>2 DEF PageTable
<1> QED
  BY <1>2, <1>3 DEF Mapped

(* An entry is written, after its leaf table has been allocated.           *)
LEMMA pgtable_mapStep ==
    ASSUME IInv, pgtable_map
    PROVE  IInv'
<1> DEFINE v == IF op.at = "imagemap" THEN Target ELSE STACK
           p == IF op.at = "imagemap" THEN op.page ELSE op.ustack
<1>1. /\ op \in OpRec /\ op.at \in {"imagemap", "stackmap"}
      /\ op.kind \in {"create", "fork", "exec"}
      /\ op.n \in Nat /\ op.pt \in PageTable
      /\ op.at = "imagemap" => op.page \in Page /\ op.n < ImageSize
      /\ op.at = "stackmap" => op.ustack \in Page /\ op.page = NULL
      /\ UNCHANGED <<ram, heap, data, task, current, satp, boot, mode, lost>>
      /\ free \in [Page -> {0, 1}]
  BY DEF pgtable_map, IInv, Types, OpRec, OpShape, Control, Loaded
<1>2. /\ ImageSize \in Nat
      /\ op.at = "imagemap" => Target \in Text
      /\ op.kind # "exec" => ImageSize <= ImagePages /\ Target = op.n
  BY <1>1, ImageFacts DEF IInv
<1>3. v \in VPage /\ p \in Page /\ p # NULL
  BY <1>1, <1>2, Numbers, MemoryAssumption
<1>4. \/ /\ op.at = "imagemap" /\ op.pt.map[v] = NULL /\ UNCHANGED free
         /\ op' = [op EXCEPT !.pt = SetEntry(@, v, p), !.page = NULL,
                             !.n = @ + 1, !.at = "image"]
      \/ /\ op.at = "stackmap" /\ UNCHANGED free
         /\ op' = [op EXCEPT !.pt = SetEntry(@, v, p), !.at = "commit"]
      \/ \E q \in Page : Take(q) /\ op' = [op EXCEPT !.pt = AddRegion(@, v, q)]
      \/ Goes("abort") /\ UNCHANGED free
  BY <1>1 DEF pgtable_map, Fails
<1> HIDE DEF v, p
<1>5. CASE Goes("abort") /\ UNCHANGED free
  BY <1>1, <1>5, GiveUp
<1>6. ASSUME NEW q \in Page, Take(q), op' = [op EXCEPT !.pt = AddRegion(@, v, q)]
      PROVE  IInv'
  <2> DEFINE X == AddRegion(op.pt, v, q)
  <2>1. /\ X \in PageTable /\ X.tables = op.pt.tables \union {q}
        /\ X.root = op.pt.root /\ X.map = op.pt.map
    <3> DEFINE T == op.pt.tables \union {q}
               G == op.pt.regions \union {Region(v)}
    <3>1. X = [op.pt EXCEPT !.tables = T, !.regions = G]
      BY <1>1 DEF AddRegion, Table, PageTable
    <3>2. T \subseteq Page /\ G \subseteq {"text", "stack"}
      BY <1>1 DEF Region, PageTable
    <3> HIDE DEF T, G
    <3>3. /\ X \in PageTable /\ X.tables = T
          /\ X.root = op.pt.root /\ X.map = op.pt.map
      BY <1>1, <3>1, <3>2 DEF PageTable
    <3> QED
      BY <3>3 DEF T
  <2>2. op' = [op EXCEPT !.pt = X]
    BY <1>6
  <2> HIDE DEF X
  <2>3. /\ op'.pt = X /\ op' \in OpRec
        /\ UNCHANGED <<op.kind, op.at, op.t, op.ustack, op.kstack, op.page,
                       op.n, op.elf>>
    BY <1>1, <2>1, <2>2 DEF OpRec
  <2>4. free' \in [Page -> {0, 1}] /\ q \in Available
    BY <1>1, <1>6, TakeFacts
  <2>5. Builds
    BY <1>1, <2>3, <2>4 DEF IInv, Types, Builds
  <2>6. Separate(op') /\ PagesOf(op') = PagesOf(op) \union {q}
    <3>1. q \notin PagesOf(op) /\ q # NULL /\ Separate(op)
      BY <2>4, FreeIsNobodys DEF IInv, PagesPartitioned
    <3>2. /\ op'.pt.tables = op.pt.tables \union {q} /\ op'.pt.root = op.pt.root
          /\ op'.ustack = op.ustack /\ op'.kstack = op.kstack
          /\ SameMap(op, op')
      BY <2>1, <2>3 DEF SameMap
    <3> QED
      BY <3>1, <3>2, GrowTables
  <2>7. PagesPartitioned'
    BY <1>1, <1>6, <2>3, <2>6, PageTaken DEF IInv
  <2>8. /\ op'.pt.root = op.pt.root /\ op'.pt.map = op.pt.map
        /\ Mapped(op'.pt) = Mapped(op.pt)
        /\ Beyond(op.pt, op.n) => Beyond(op'.pt, op'.n)
    BY <2>1, <2>3 DEF Mapped, Beyond
  <2>9. OpShape'
    <3>1. ImageSize' = ImageSize
      BY <1>1, <2>3 DEF ImageSize
    <3> QED
      BY <1>1, <2>3, <2>8, <3>1 DEF IInv, OpShape, Early, Loaded
  <2>10. OpData' /\ OpCopies'
    BY <1>1, <2>3, <2>8 DEF IInv, OpData, OpCopies
  <2> QED
    BY <2>5, <2>7, <2>9, <2>10, BuildStep DEF IInv
<1>7. CASE /\ op.at = "imagemap" /\ op.pt.map[v] = NULL /\ UNCHANGED free
           /\ op' = [op EXCEPT !.pt = SetEntry(@, v, p), !.page = NULL,
                               !.n = @ + 1, !.at = "image"]
  <2>1. v = Target /\ p = op.page /\ v \in Text
    BY <1>2, <1>7 DEF v, p
  <2> DEFINE X == SetEntry(op.pt, v, p)
             N == op.n + 1
  <2>2. /\ X \in PageTable /\ X.map[v] = p
        /\ \A u \in VPage : u # v => X.map[u] = op.pt.map[u]
        /\ X.root = op.pt.root /\ X.tables = op.pt.tables
        /\ Mapped(X) \subseteq Mapped(op.pt) \union {p}
    BY <1>1, <1>3, SetEntryFacts
  <2>3. op' = [op EXCEPT !.pt = X, !.page = NULL, !.n = N, !.at = "image"]
        /\ N \in Nat
    BY <1>1, <1>7
  <2> HIDE DEF X, N
  <2>4. /\ op'.pt = X /\ op'.page = NULL /\ op'.n = N /\ op'.at = "image"
        /\ op' \in OpRec
        /\ UNCHANGED <<op.kind, op.t, op.ustack, op.kstack, op.elf>>
    BY <1>1, <2>2, <2>3 DEF OpRec, At
  <2>5. Builds
    BY <1>1, <1>7, <2>4 DEF IInv, Types, Builds
  <2>6. Separate(op') /\ PagesOf(op') = PagesOf(op) \union {p}
    <3>1. p \notin PagesOf(op) /\ Separate(op)
      BY <2>1 DEF IInv, PagesPartitioned
    <3>2. /\ op.pt.map[v] = NULL /\ op'.pt.map[v] = p /\ p # NULL /\ v \in Text
          /\ \A u \in VPage : u # v => op'.pt.map[u] = op.pt.map[u]
          /\ op'.pt.root = op.pt.root /\ op'.pt.tables = op.pt.tables
          /\ op'.ustack = op.ustack /\ op'.kstack = op.kstack
      BY <1>3, <1>7, <2>1, <2>2, <2>4
    <3> QED
      BY <3>1, <3>2, GrowMap
  <2>7. PagesPartitioned'
    BY <1>1, <1>3, <1>7, <2>1, <2>4, <2>6, PageMapped DEF IInv
  <2>8. N = op.n + 1 /\ op.n \in Nat
    BY <1>1 DEF N
  <2>9. OpShape'
    <3>1. ImageSize' = ImageSize
      BY <1>1, <2>4 DEF ImageSize
    <3>2. op'.n <= ImageSize'
      BY <1>1, <1>2, <1>7, <2>4, <2>8, <3>1
    <3>3. op'.kind # "exec" => Beyond(op'.pt, op'.n)
      <4> SUFFICES ASSUME op.kind # "exec" PROVE Beyond(X, N)
        BY <2>4
      <4>1. Beyond(op.pt, op.n) /\ v = op.n
        BY <1>2, <2>1 DEF IInv, OpShape
      <4> QED
        BY <2>2, <2>8, <4>1, Numbers DEF Beyond, Text
    <3>4. op'.pt.map[STACK] = NULL /\ op'.pt.map[TOP] = NULL
      BY <1>7, <2>1, <2>2, <2>4, Numbers DEF IInv, OpShape
    <3> QED
      BY <1>1, <1>7, <2>2, <2>4, <3>2, <3>3, <3>4
         DEF IInv, OpShape, Early, Loaded
  <2>10. OpData'
    <3>1. \A q \in Mapped(op.pt) \union {p} : data[q] # "junk"
      BY <1>7, <2>1 DEF IInv, OpData
    <3> QED
      BY <1>1, <2>2, <2>4, <3>1 DEF OpData
  <2>11. OpCopies'
    <3> SUFFICES ASSUME op.kind = "fork" PROVE OpCopies'
      BY <2>4 DEF OpCopies
    <3> DEFINE m == task[current].pt.map
    <3>1. /\ \A u \in Text : u < op.n /\ m[u] # NULL =>
                 op.pt.map[u] # NULL /\ data[op.pt.map[u]] = data[m[u]]
          /\ data[p] = data[m[op.n]] /\ v = op.n
      BY <1>2, <1>7, <2>1 DEF IInv, OpCopies
    <3>2. \A u \in Text : u < N /\ m[u] # NULL =>
                 X.map[u] # NULL /\ data[X.map[u]] = data[m[u]]
      <4> SUFFICES ASSUME NEW u \in Text, u < N, m[u] # NULL
                   PROVE  X.map[u] # NULL /\ data[X.map[u]] = data[m[u]]
        OBVIOUS
      <4>1. u = op.n \/ u < op.n
        BY <2>8, Numbers DEF Text
      <4>2. CASE u = op.n
        BY <1>3, <2>2, <3>1, <4>2
      <4>3. CASE u < op.n
        BY <2>2, <2>8, <3>1, <4>3, Numbers
      <4> QED
        BY <4>1, <4>2, <4>3
    <3> QED
      BY <1>1, <2>4, <3>2 DEF OpCopies
  <2> QED
    BY <2>5, <2>7, <2>9, <2>10, <2>11, BuildStep DEF IInv
<1>8. CASE /\ op.at = "stackmap" /\ UNCHANGED free
           /\ op' = [op EXCEPT !.pt = SetEntry(@, v, p), !.at = "commit"]
  <2>1. v = STACK /\ p = op.ustack
    BY <1>8 DEF v, p
  <2> DEFINE X == SetEntry(op.pt, v, p)
  <2>2. /\ X \in PageTable /\ X.map[v] = p
        /\ \A u \in VPage : u # v => X.map[u] = op.pt.map[u]
        /\ X.root = op.pt.root /\ X.tables = op.pt.tables
        /\ Mapped(X) \subseteq Mapped(op.pt) \union {p}
    BY <1>1, <1>3, SetEntryFacts
  <2>3. op' = [op EXCEPT !.pt = X, !.at = "commit"]
    BY <1>8
  <2> HIDE DEF X
  <2>4. /\ op'.pt = X /\ op'.at = "commit" /\ op' \in OpRec
        /\ UNCHANGED <<op.kind, op.t, op.ustack, op.kstack, op.page, op.n,
                       op.elf>>
    BY <1>1, <2>2, <2>3 DEF OpRec, At
  <2>5. Builds
    BY <1>1, <1>8, <2>4 DEF IInv, Types, Builds
  <2>6. PagesPartitioned'
    <3>1. op.pt.map[STACK] = NULL
      BY <1>8 DEF IInv, OpShape
    <3>2. Same(op, op')
      BY <2>1, <2>2, <2>4, <3>1, MapStack
    <3> QED
      BY <1>1, <1>8, <2>4, <3>2, NothingMoves DEF IInv, Same
  <2>7. \A u \in Text : X.map[u] = op.pt.map[u]
    BY <2>1, <2>2, Numbers
  <2>8. OpShape'
    <3>1. ImageSize' = ImageSize
      BY <1>1, <2>4 DEF ImageSize
    <3>2. op'.kind # "exec" => Beyond(op'.pt, op'.n)
      BY <2>4, <2>7 DEF IInv, OpShape, Beyond
    <3>3. op'.pt.map[STACK] = op'.ustack /\ op'.pt.map[TOP] = NULL
      BY <2>1, <2>2, <2>4, Numbers DEF IInv, OpShape
    <3> QED
      BY <1>1, <1>8, <2>2, <2>4, <3>1, <3>2, <3>3
         DEF IInv, OpShape, Early, Loaded
  <2>9. OpData'
    <3>1. \A q \in Mapped(op.pt) \union {p} : data[q] # "junk"
      BY <1>8, <2>1 DEF IInv, OpData
    <3> QED
      BY <1>1, <2>2, <2>4, <3>1 DEF OpData
  <2>10. OpCopies'
    BY <1>1, <1>8, <2>4, <2>7 DEF IInv, OpCopies, Loaded
  <2> QED
    BY <2>5, <2>6, <2>8, <2>9, <2>10, BuildStep DEF IInv
<1> QED
  BY <1>4, <1>5, <1>6, <1>7, <1>8

(* The stack page is zeroed or copied; it is not mapped yet.               *)
LEMMA FillStackStep ==
    ASSUME IInv, FillStack
    PROVE  IInv'
<1> DEFINE src == IF op.kind = "fork" THEN task[current].pt.map[TOP] ELSE NULL
<1>1. /\ op \in OpRec /\ op.at = "stack" /\ op.kind \in {"create", "fork", "exec"}
      /\ op.ustack \in Page /\ op.page = NULL
      /\ op' = [op EXCEPT !.at = "stackmap"]
      /\ data' = [data EXCEPT ![op.ustack] = IF src = NULL THEN "zero" ELSE data[src]]
      /\ UNCHANGED <<ram, free, heap, task, current, satp, boot, mode, lost>>
      /\ data \in [Page -> Content] /\ task \in [Task -> TaskRec]
      /\ op.kind = "fork" => current \in Task
  BY DEF FillStack, IInv, Types, OpRec, OpShape, Control, Loaded, Goes
<1>2. src = NULL
  BY <1>1, MemoryAssumption DEF IInv, Control, TasksComplete, Complete
<1>3. /\ op'.at = "stackmap" /\ op' \in OpRec
      /\ UNCHANGED <<op.kind, op.n, op.pt, op.t, op.ustack, op.kstack, op.page,
                     op.elf>>
  BY <1>1 DEF OpRec, At
<1>4. /\ data' \in [Page -> Content] /\ data'[op.ustack] = "zero"
      /\ \A q \in Page : q # op.ustack => data'[q] = data[q]
  BY <1>1, <1>2 DEF Content
<1>5. op.ustack \in PagesOf(op) /\ op.ustack # NULL
  BY <1>1, PagesOfIs, MemoryAssumption
<1>6. \A t \in Task : op.ustack \notin PagesOf(task[t])
                      /\ PagesOf(task[t]) \subseteq Page
  <2>1. ASSUME NEW t \in Task PROVE op.ustack \notin PagesOf(task[t])
    BY <1>5 DEF IInv, PagesPartitioned, InHand, Apart
  <2>2. ASSUME NEW t \in Task PROVE PagesOf(task[t]) \subseteq Page
    <3>1. task[t].pt \in PageTable /\ task[t] \in TaskRec
      BY <1>1 DEF TaskRec
    <3> QED
      BY <3>1, PagesOfIs DEF TaskRec, PageTable
  <2> QED
    BY <2>1, <2>2
<1>7. \A t \in Task : \A q \in PagesOf(task[t]) : data'[q] = data[q]
  BY <1>4, <1>6
<1>8. Builds
  BY <1>1, <1>3, <1>4, <1>7 DEF IInv, Types, Builds
<1>9. PagesPartitioned'
  <2>1. Same(op, op')
    BY <1>3, SameParts DEF Same
  <2> QED
    BY <1>1, <1>3, <2>1, NothingMoves DEF IInv, Same
<1>10. OpShape'
  <2>1. ImageSize' = ImageSize
    BY <1>1, <1>3 DEF ImageSize
  <2> QED
    BY <1>1, <1>3, <2>1 DEF IInv, OpShape, Early, Loaded
<1>11. Mapped(op.pt) \subseteq Page /\ op.ustack \notin Mapped(op.pt)
  <2>1. Separate(op) /\ op.pt \in PageTable
    BY <1>1 DEF IInv, PagesPartitioned, OpRec
  <2>2. op.pt.map[STACK] = NULL
    BY <1>1 DEF IInv, OpShape
  <2> QED
    BY <1>5, <2>1, <2>2, SeparateFacts DEF Mapped, PageTable
<1>12. OpData'
  BY <1>1, <1>3, <1>4, <1>11 DEF IInv, OpData
<1>13. OpCopies'
  <2> SUFFICES ASSUME op.kind = "fork" PROVE OpCopies'
    BY <1>3 DEF OpCopies
  <2> DEFINE m == task[current].pt.map
  <2>1. \A u \in Text : u < op.n /\ m[u] # NULL =>
             op.pt.map[u] # NULL /\ data[op.pt.map[u]] = data[m[u]]
    BY <1>1 DEF IInv, OpCopies, Loaded
  <2>2. \A u \in Text : m[u] # NULL => data'[m[u]] = data[m[u]]
    BY <1>1, <1>7, PagesOfIs, Numbers
  <2>3. \A u \in Text : op.pt.map[u] # NULL =>
             data'[op.pt.map[u]] = data[op.pt.map[u]]
    BY <1>4, <1>11, Numbers DEF Mapped
  <2>4. \A u \in Text : u < op.n /\ m[u] # NULL =>
             op.pt.map[u] # NULL /\ data'[op.pt.map[u]] = data'[m[u]]
    BY <2>1, <2>2, <2>3
  <2> QED
    BY <1>1, <1>3, <2>4 DEF OpCopies
<1> QED
  BY <1>8, <1>9, <1>10, <1>12, <1>13, BuildStep DEF IInv

-----------------------------------------------------------------------------
(* The operation ends: what it has built goes to a task, or back.          *)

(* The pages in hand go to task t0, which keeps K of its own pages; the    *)
(* others, L, are lost.                                                    *)
LEMMA HandOver ==
    ASSUME PagesPartitioned, UNCHANGED <<ram, free, heap>>,
           op.page = NULL, op' = NoOp, NEW t0 \in Task,
           \A t \in Task : t # t0 => task'[t] = task[t],
           NEW K, NEW L, Apart(K, L), PagesOf(task[t0]) = K \union L,
           PagesOf(task'[t0]) = PagesOf(op) \union K, Separate(task'[t0]),
           lost' = lost \union L
    PROVE  PagesPartitioned'
<1>1. Available' = Available
  BY DEF Available
<1>2. InHand = PagesOf(op) /\ InHand' = {} /\ Separate(op') /\ op'.page = NULL
      /\ op'.page \notin PagesOf(op')
  BY NoOpFacts DEF InHand
<1> DEFINE U == UNION {PagesOf(task[t]) : t \in Task}
           V == UNION {PagesOf(task'[t]) : t \in Task}
<1>3. V \union L = U \union InHand
  <2>1. ASSUME NEW q \in V PROVE q \in U \union InHand
    <3>1. PICK t \in Task : q \in PagesOf(task'[t])
      OBVIOUS
    <3>2. q \in PagesOf(task[t]) \/ q \in PagesOf(op)
      BY <3>1
    <3> QED
      BY <1>2, <3>2
  <2>2. L \subseteq U
    OBVIOUS
  <2>3. ASSUME NEW q \in U PROVE q \in V \union L
    <3>1. PICK t \in Task : q \in PagesOf(task[t])
      OBVIOUS
    <3>2. q \in PagesOf(task'[t]) \/ q \in L
      BY <3>1
    <3> QED
      BY <3>2
  <2>4. InHand \subseteq V
    BY <1>2
  <2> HIDE DEF U, V
  <2> QED
    BY <2>1, <2>2, <2>3, <2>4
<1>4. /\ Apart(PagesOf(op), Available \union heap \union lost)
      /\ Apart(K \union L, Available \union heap \union lost \union PagesOf(op))
      /\ \A t \in Task : t # t0 =>
             Apart(PagesOf(task[t]), K \union L \union PagesOf(op))
  BY <1>2 DEF PagesPartitioned, Apart
<1>5. /\ Available' \union heap' \union lost' \union InHand' \union V = ram'
      /\ Apart(heap', Available')
      /\ Apart(lost', Available' \union heap')
      /\ Apart(InHand', Available' \union heap' \union lost')
  <2>1. Available \union heap \union lost \union InHand \union U = ram
        /\ Apart(heap, Available) /\ Apart(lost, Available \union heap)
    BY DEF PagesPartitioned
  <2> HIDE DEF U, V
  <2> QED
    BY <1>1, <1>2, <1>3, <1>4, <2>1 DEF Apart
<1>6. ASSUME NEW t \in Task
      PROVE  /\ Apart(PagesOf(task'[t]), Available' \union heap' \union lost'
                                            \union InHand')
             /\ Separate(task'[t])
             /\ \A u \in Task \ {t} :
                    Apart(PagesOf(task'[t]), PagesOf(task'[u]))
  <2>1. CASE t = t0
    BY <1>1, <1>2, <1>4, <2>1 DEF Apart
  <2>2. CASE t # t0
    BY <1>1, <1>2, <1>4, <2>2 DEF Apart, PagesPartitioned
  <2> QED
    BY <2>1, <2>2
<1> QED
  BY <1>2, <1>5, <1>6 DEF PagesPartitioned

(* The operation that starts, or that is over, has nothing.                *)
LEMMA BareOp ==
    ASSUME op'.t = NULL, op'.ustack = NULL, op'.kstack = NULL, op'.page = NULL,
           op'.pt = NoTable, op'.n = 0,
           op'.at \in {"done", "reap", "pick", "find"},
           op'.kind = "exec" => op'.at = "find",
           op'.at = "find" => op'.kind = "exec",
           op'.kind = "sched" => op'.at \in {"reap", "pick"},
           op'.at = "pick" => op'.kind = "sched"
    PROVE  OpShape' /\ OpData' /\ OpCopies' /\ PagesOf(op') = {} /\ Separate(op')
<1>1. OpShape'
  BY NoTableFacts, Numbers DEF OpShape, Early, Loaded
<1>2. OpData' /\ OpCopies'
  BY NoTableFacts DEF OpData, OpCopies, Loaded
<1> QED
  BY <1>1, <1>2, BareParts

LEMMA TaskPages ==
    ASSUME task \in [Task -> TaskRec], NEW t \in Task
    PROVE  /\ PagesOf(task[t]) \subseteq Page
           /\ Mapped(task[t].pt) \subseteq PagesOf(task[t])
<1>1. task[t].pt \in PageTable /\ task[t] \in TaskRec
  BY DEF TaskRec
<1> QED
  BY <1>1, PagesOfIs DEF TaskRec, PageTable, Mapped

(* The new task is complete.                                               *)
LEMMA PublishStep ==
    ASSUME IInv, Publish
    PROVE  IInv'
<1> DEFINE t0 == op.t
<1>1. /\ op \in OpRec /\ op.at = "commit" /\ op.kind \in {"create", "fork"}
      /\ op.pt \in PageTable /\ op.pt.root # NULL /\ op.ustack # NULL
      /\ op.pt.map[TOP] = NULL /\ op.pt.map[STACK] = op.ustack
      /\ op.n = ImageSize /\ Beyond(op.pt, op.n) /\ op.page = NULL
      /\ UNCHANGED <<ram, free, heap, data, current, satp, lost>>
      /\ op' = NoOp /\ mode = "kernel" /\ t0 \in Task
      /\ task[t0].state = "UNUSED" /\ Bare(task[t0])
      /\ task \in [Task -> TaskRec]
  <2>1. mode = "kernel"
    BY NoOpFacts DEF Publish, IInv, Control
  <2>2. t0 \in Task
    BY DEF Publish, IInv, Types, OpRec, OpShape, Loaded
  <2> QED
    BY <2>1, <2>2 DEF Publish, IInv, Types, OpRec, OpShape, Loaded, TasksComplete
<1>2. /\ ImageSize \in 0..ImagePages
      /\ op.kind = "create" => ImageSize # 0
      /\ op.kind = "fork" => ImageSize = task[current].size
  BY <1>1, ImageFacts, Numbers DEF IInv, ImageSize
<1> DEFINE r == [state |-> "LIVE", ustack |-> op.ustack, kstack |-> op.kstack,
                 pt |-> op.pt, size |-> ImageSize]
<1>3. /\ task' = [task EXCEPT ![t0] = r]
      /\ op.kind = "create" => boot' = boot + 1 /\ mode' = mode
      /\ op.kind = "fork" => boot' = boot /\ mode' = "user"
  BY DEF Publish
<1>4. /\ r \in TaskRec /\ r.state = "LIVE" /\ r.ustack = op.ustack
      /\ r.kstack = op.kstack /\ r.pt = op.pt /\ r.size = ImageSize
  BY <1>1, <1>2 DEF TaskRec, OpRec
<1> HIDE DEF r, t0
<1>5. /\ task' \in [Task -> TaskRec] /\ task'[t0] = r
      /\ \A t \in Task : t # t0 => task'[t] = task[t]
  BY <1>1, <1>3, <1>4
<1>6. current # NULL => current \in Task /\ current # t0
  BY <1>1 DEF IInv, Types, Control
<1>7. PagesPartitioned'
  <2>1. PagesOf(task[t0]) = {}
    BY <1>1, BareParts DEF Bare
  <2>2. PagesOf(task'[t0]) = PagesOf(op) /\ Separate(task'[t0])
    BY <1>4, <1>5, SameParts DEF IInv, PagesPartitioned
  <2> QED
    BY <1>1, <1>5, <2>1, <2>2, HandOver DEF IInv, Apart
<1>8. boot' \in 0..BOOTED /\ (op.kind = "create" => boot' # BOOTED)
  BY <1>1, <1>3 DEF IInv, Types, Control
<1>9. Types'
  BY <1>1, <1>3, <1>5, <1>8, NoOpFacts DEF IInv, Types
<1>10. Control'
  <2>1. op.kind = "create" => current = NULL /\ boot # BOOTED /\ satp = NULL
    BY <1>1 DEF IInv, Control
  <2>2. op.kind = "fork" => current # NULL /\ boot = BOOTED
    BY <1>1 DEF IInv, Control
  <2>3. CASE op.kind = "create"
    BY <1>1, <1>2, <1>3, <1>4, <1>5, <1>8, <2>1, <2>3, NoOpFacts
       DEF IInv, Control
  <2>4. CASE op.kind = "fork"
    BY <1>1, <1>3, <1>5, <1>6, <2>2, <2>4, NoOpFacts DEF IInv, Control
  <2> QED
    BY <1>1, <2>3, <2>4
<1>11. TasksComplete'
  <2>1. Complete(r)
    BY <1>1, <1>4 DEF Complete
  <2> QED
    BY <1>1, <1>4, <1>5, <2>1, NoOpFacts, MemoryAssumption
       DEF IInv, TasksComplete, t0
<1>12. OpShape' /\ OpData' /\ OpCopies'
  BY <1>1, NoOpFacts, BareOp
<1>13. SatpInUse'
  <2>1. mode' = "user" => current \in Task /\ current # t0
                          /\ satp = task[current].pt.root
    BY <1>1, <1>3, <1>6 DEF IInv, Control
  <2>2. \A t \in Task : task[t].state # "FREE" /\ task[t].pt.root # NULL =>
           task'[t] = task[t]
    BY <1>1, <1>5, NoTableFacts DEF Bare
  <2> QED
    BY <1>1, <1>5, <2>1, <2>2 DEF IInv, SatpInUse
<1>14. NoStaleData'
  BY <1>1, <1>4, <1>5 DEF IInv, NoStaleData, OpData
<1> QED
  BY <1>7, <1>9, <1>10, <1>11, <1>12, <1>13, <1>14 DEF IInv

(* A record with the stacks of r and the page table of o.                  *)
LEMMA Mixed ==
    ASSUME NEW r, NEW o, NEW s, Separate(r), Separate(o),
           Apart(PagesOf(r), PagesOf(o)), o.kstack = NULL,
           o.pt.map[STACK] = o.ustack,
           s.ustack = r.ustack, s.kstack = r.kstack, s.pt = o.pt
    PROVE  /\ Separate(s)
           /\ PagesOf(s) = PagesOf(o) \union ({r.ustack, r.kstack} \ {NULL})
<1>1. /\ r.ustack # NULL => r.ustack \in PagesOf(r) /\ r.ustack \notin PagesOf(o)
      /\ r.kstack # NULL => r.kstack \in PagesOf(r) /\ r.kstack \notin PagesOf(o)
      /\ r.kstack # NULL => r.kstack # r.ustack
  BY PagesOfIs, SeparateFacts DEF Apart
<1>2. \A i \in Role : i \notin {STACK, KSTACK} => Part(s, i) = Part(o, i)
  BY PartAgrees, Numbers
<1>3. /\ Part(s, STACK) = Part(o, STACK) \union {r.ustack}
      /\ Part(s, KSTACK) = {r.kstack} /\ Part(o, KSTACK) = {NULL}
  BY Parts
<1>4. \A i \in Role : Part(o, i) \subseteq PagesOf(o) \union {NULL}
  BY DEF PagesOf
<1>5. ASSUME NEW i \in Role, NEW j \in Role, i < j, NEW q, q # NULL,
             q \in Part(s, i), q \in Part(s, j)
      PROVE  FALSE
  <2>1. i # j /\ STACK # KSTACK /\ STACK \in Role /\ KSTACK \in Role
    BY <1>5, Numbers
  <2>2. \A k \in Role : q \in Part(s, k) =>
           \/ q \in Part(o, k)
           \/ k = STACK /\ q = r.ustack
           \/ k = KSTACK /\ q = r.kstack
    BY <1>2, <1>3
  <2>3. ~(q \in Part(o, i) /\ q \in Part(o, j))
    BY <1>5 DEF Separate
  <2> QED
    BY <1>1, <1>4, <1>5, <2>1, <2>2, <2>3
<1>6. PagesOf(s) = PagesOf(o) \union ({r.ustack, r.kstack} \ {NULL})
  BY PagesOfIs, Numbers
<1> QED
  BY <1>5, <1>6 DEF Separate

(* exec succeeds: the old address space is lost.                           *)
LEMMA ExecCommitsStep ==
    ASSUME IInv, ExecCommits
    PROVE  IInv'
<1> DEFINE r == task[current]
           s == [task[current] EXCEPT !.pt = op.pt, !.size = 0]
           K == {r.ustack, r.kstack} \ {NULL}
           L == {r.pt.root} \union r.pt.tables \union (Mapped(r.pt) \ {r.ustack})
<1>1. /\ op \in OpRec /\ op.at = "commit" /\ op.kind = "exec"
      /\ op.pt \in PageTable /\ op.pt.root # NULL /\ op.ustack # NULL
      /\ op.pt.map[TOP] = NULL /\ op.pt.map[STACK] = op.ustack
      /\ op.page = NULL /\ op.kstack = NULL /\ op.t = NULL
      /\ UNCHANGED <<ram, free, heap, data, current, boot>>
      /\ op' = NoOp /\ satp' = op.pt.root /\ mode' \in {"panic", "user"}
      /\ current \in Task /\ current # NULL /\ r.state = "LIVE"
      /\ task \in [Task -> TaskRec] /\ boot = BOOTED
      /\ lost' = lost \union {r.pt.root} \union r.pt.tables
                           \union (Mapped(r.pt) \ {r.ustack})
      /\ task' = [task EXCEPT ![current].pt = op.pt, ![current].size = 0]
  BY DEF ExecCommits, IInv, Types, OpRec, OpShape, Loaded, Control
<1>2. /\ s \in TaskRec /\ s.state = "LIVE" /\ s.ustack = r.ustack
      /\ s.kstack = r.kstack /\ s.pt = op.pt /\ s.size = 0
  <2>1. r \in TaskRec /\ 0 \in 0..ImagePages
    BY <1>1, Numbers
  <2> QED
    BY <1>1, <2>1 DEF TaskRec
<1>3. task' = [task EXCEPT ![current] = s]
  BY <1>1
<1>4. /\ r \in TaskRec /\ Complete(r) /\ Separate(r) /\ Separate(op)
      /\ Apart(PagesOf(r), PagesOf(op))
  <2>1. r \in TaskRec /\ Complete(r) /\ Separate(r) /\ Separate(op)
    BY <1>1 DEF IInv, PagesPartitioned, TasksComplete
  <2>2. Apart(PagesOf(r), PagesOf(op))
    BY <1>1 DEF IInv, PagesPartitioned, InHand, Apart
  <2> QED
    BY <2>1, <2>2
<1>5. PagesOf(r) = K \union L /\ Apart(K, L) /\ L \subseteq Page
  <2>1. /\ r.pt.root \in Page /\ r.pt.tables \subseteq Page /\ NULL \notin Page
        /\ Mapped(r.pt) \subseteq Page /\ r.ustack # NULL
    BY <1>4, MemoryAssumption DEF TaskRec, PageTable, Mapped, Complete
  <2>2. PagesOf(r) = K \union L
    BY <2>1, PagesOfIs DEF Mapped
  <2>3. Apart(K, L)
    BY <1>4, <2>1, SeparateFacts DEF Apart, Mapped
  <2> QED
    BY <2>1, <2>2, <2>3
<1>6. Separate(s) /\ PagesOf(s) = PagesOf(op) \union K
  <2>1. s.ustack = r.ustack /\ s.kstack = r.kstack /\ s.pt = op.pt
    BY <1>2
  <2>2. /\ Separate(r) /\ Separate(op) /\ Apart(PagesOf(r), PagesOf(op))
        /\ op.kstack = NULL /\ op.pt.map[STACK] = op.ustack
    BY <1>1, <1>4
  <2> HIDE DEF r, s
  <2> QED
    BY <2>1, <2>2, Mixed
<1>7. lost' = lost \union L
  BY <1>1
<1> HIDE DEF s, K, L
<1>8. /\ task' \in [Task -> TaskRec] /\ task'[current] = s
      /\ \A t \in Task : t # current => task'[t] = task[t]
  BY <1>1, <1>2, <1>3
<1>9. PagesPartitioned'
  <2>1. PICK c \in Task : c = current
    BY <1>1
  <2>2. PagesOf(task'[c]) = PagesOf(op) \union K /\ Separate(task'[c])
    BY <1>6, <1>8, <2>1
  <2> QED
    BY <1>1, <1>5, <1>7, <1>8, <2>1, <2>2, HandOver DEF IInv
<1>10. Types'
  BY <1>1, <1>5, <1>7, <1>8, NoOpFacts DEF IInv, Types, PageTable
<1>11. Control'
  BY <1>1, <1>2, <1>8, NoOpFacts DEF IInv, Control
<1>12. TasksComplete'
  <2>1. Complete(s)
    BY <1>1, <1>2, <1>4 DEF Complete
  <2> QED
    BY <1>1, <1>2, <1>8, <2>1, NoOpFacts, MemoryAssumption
       DEF IInv, TasksComplete
<1>13. OpShape' /\ OpData' /\ OpCopies'
  BY <1>1, NoOpFacts, BareOp
<1>14. SatpInUse'
  BY <1>1, <1>2, <1>8 DEF SatpInUse
<1>15. NoStaleData'
  BY <1>1, <1>2, <1>8 DEF IInv, NoStaleData, OpData
<1> QED
  BY <1>9, <1>10, <1>11, <1>12, <1>13, <1>14, <1>15 DEF IInv

(* Four sets of pages are put on the free list, none of them twice.        *)
LEMMA FreeChain ==
    ASSUME NEW f \in [Page -> {0, 1}], NEW A \in SUBSET Page,
           NEW B \in SUBSET Page, NEW C \in SUBSET Page, NEW D \in SUBSET Page,
           \A p \in A \union B \union C \union D : f[p] = 0,
           Apart(A, B), Apart(A \union B, C), Apart(A \union B \union C, D)
    PROVE  LET g == page_free(page_free(page_free(page_free(f, A), B), C), D)
           IN  /\ g \in [Page -> {0, 1}]
               /\ \A p \in Page : g[p] = IF p \in A \union B \union C \union D
                                         THEN 1 ELSE f[p]
<1> DEFINE f1 == page_free(f, A)
           f2 == page_free(f1, B)
           f3 == page_free(f2, C)
           f4 == page_free(f3, D)
<1>1. /\ f1 \in [Page -> {0, 1}]
      /\ \A p \in Page : f1[p] = IF p \in A THEN 1 ELSE f[p]
  BY FreeFacts
<1> HIDE DEF f1
<1>2. /\ f2 \in [Page -> {0, 1}]
      /\ \A p \in Page : f2[p] = IF p \in A \union B THEN 1 ELSE f[p]
  <2>1. \A p \in B : f1[p] = 0
    BY <1>1 DEF Apart
  <2>2. /\ f2 \in [Page -> {0, 1}]
        /\ \A p \in Page : f2[p] = IF p \in B THEN 1 ELSE f1[p]
    BY <1>1, <2>1, FreeFacts
  <2> HIDE DEF f2
  <2> QED
    BY <1>1, <2>2
<1> HIDE DEF f2
<1>3. /\ f3 \in [Page -> {0, 1}]
      /\ \A p \in Page : f3[p] = IF p \in A \union B \union C THEN 1 ELSE f[p]
  <2>1. \A p \in C : f2[p] = 0
    BY <1>2 DEF Apart
  <2>2. /\ f3 \in [Page -> {0, 1}]
        /\ \A p \in Page : f3[p] = IF p \in C THEN 1 ELSE f2[p]
    BY <1>2, <2>1, FreeFacts
  <2> HIDE DEF f3
  <2> QED
    BY <1>2, <2>2
<1> HIDE DEF f3
<1>4. /\ f4 \in [Page -> {0, 1}]
      /\ \A p \in Page : f4[p] = IF p \in A \union B \union C \union D
                                 THEN 1 ELSE f[p]
  <2>1. \A p \in D : f3[p] = 0
    BY <1>3 DEF Apart
  <2>2. /\ f4 \in [Page -> {0, 1}]
        /\ \A p \in Page : f4[p] = IF p \in D THEN 1 ELSE f3[p]
    BY <1>3, <2>1, FreeFacts
  <2> HIDE DEF f4
  <2> QED
    BY <1>3, <2>2
<1>5. page_free(page_free(page_free(page_free(f, A), B), C), D) = f4
  BY DEF f1, f2, f3, f4
<1> HIDE DEF f4
<1> QED
  BY <1>4, <1>5

(* Junk in pages that no task has is no stale data.                        *)
LEMMA JunkFacts ==
    ASSUME data \in [Page -> Content], NEW S, data' = Junk(S)
    PROVE  /\ data' \in [Page -> Content]
           /\ \A p \in Page : p \notin S => data'[p] = data[p]
BY DEF Junk, Content

(* An error path.                                                          *)
LEMMA AbortStep ==
    ASSUME IInv, Abort
    PROVE  IInv'
<1> DEFINE img == IF op.kind = "exec" THEN {} ELSE ImageOf(op.pt, op.n)
           A == {op.page, op.ustack, op.kstack} \ {NULL}
           D == {op.pt.root} \ {NULL}
           M == Mapped(op.pt)
           F == A \union img \union op.pt.tables \union D
           L == IF op.kind = "exec" THEN M ELSE {}
<1>1. /\ op \in OpRec /\ op.at = "abort" /\ op.kind \in {"create", "fork", "exec"}
      /\ op.pt \in PageTable /\ op.pt.map[STACK] = NULL /\ op.pt.map[TOP] = NULL
      /\ op.kind # "exec" => Beyond(op.pt, op.n)
      /\ op.kind = "exec" => op.t = NULL
      /\ UNCHANGED <<ram, heap, current, satp>> /\ op' = NoOp
      /\ op.page \in Page \union {NULL} /\ op.ustack \in Page \union {NULL}
      /\ op.kstack \in Page \union {NULL} /\ op.n \in Nat /\ NULL \notin Page
      /\ free \in [Page -> {0, 1}] /\ task \in [Task -> TaskRec]
      /\ data \in [Page -> Content]
      /\ op.kind # "create" => boot' = boot /\ mode' = "user"
      /\ op.kind = "create" => /\ boot' \in {boot, CREATE_DEMO}
                               /\ mode' \in {"assert", "kernel"}
      /\ task' = IF op.t = NULL THEN task ELSE [task EXCEPT ![op.t] = NoTask]
      /\ op.t \in Task \union {NULL} /\ PagesPartitioned
  BY MemoryAssumption DEF Abort, IInv, Types, OpRec, OpShape, Control
<1>2. /\ free' = page_free(page_free(page_free(page_free(free, A), img),
                                     op.pt.tables), D)
      /\ data' = Junk(M \union {op.page, op.ustack})
      /\ lost' = lost \union L
  <2>1. page_free(page_free(free, A), {}) = page_free(free, A)
    BY DEF page_free
  <2> QED
    BY <2>1 DEF Abort, pgtable_free_walk
<1>3. /\ M = {op.pt.map[v] : v \in Text} \ {NULL}
      /\ op.kind # "exec" => img = M
      /\ img \subseteq M /\ M \subseteq PagesOf(op) /\ M \subseteq Page
  <2>1. M = {op.pt.map[v] : v \in Text} \ {NULL}
    BY <1>1, Numbers DEF Mapped
  <2>2. ImageOf(op.pt, op.n) \subseteq M
    BY <2>1 DEF ImageOf
  <2>3. op.kind # "exec" => M \subseteq ImageOf(op.pt, op.n)
    BY <1>1, <2>1, Numbers DEF ImageOf, Beyond, Text
  <2>4. M \subseteq PagesOf(op)
    BY PagesOfIs DEF Mapped
  <2>5. M \subseteq Page
    BY <1>1 DEF Mapped, PageTable
  <2> QED
    BY <2>1, <2>2, <2>3, <2>4, <2>5
<1>4. /\ InHand = A \union op.pt.tables \union D \union M
      /\ InHand \subseteq Page /\ \A p \in InHand : free[p] = 0
      /\ op.pt.tables \subseteq Page /\ A \subseteq Page /\ D \subseteq Page
  <2>1. /\ op.pt.tables \subseteq Page /\ A \subseteq Page /\ D \subseteq Page
    BY <1>1 DEF PageTable
  <2>2. InHand = A \union op.pt.tables \union D \union M
    BY <1>1, <2>1, PagesOfIs DEF InHand, Mapped
  <2>3. InHand \subseteq Page
    BY <1>3, <2>1, <2>2
  <2>4. \A p \in InHand : free[p] = 0
    BY <1>1, <2>3 DEF PagesPartitioned, Apart, Available
  <2> QED
    BY <2>1, <2>2, <2>3, <2>4
<1>5. /\ Apart(A, M) /\ Apart(A \union M, op.pt.tables)
      /\ Apart(A \union M \union op.pt.tables, D)
  <2>1. Separate(op) /\ op.page \notin PagesOf(op)
    BY <1>1 DEF PagesPartitioned
  <2>2. op.page \notin M \union op.pt.tables \union D
    BY <1>1, <1>3, <2>1, PagesOfIs DEF PageTable
  <2>3. \A p \in M : \E v \in VPage : v # STACK /\ p = op.pt.map[v] /\ p # NULL
    BY <1>3, Numbers
  <2> QED
    BY <1>1, <1>4, <2>1, <2>2, <2>3, SeparateFacts DEF Apart
<1>6. F \union L = InHand /\ Apart(F, L) /\ L \subseteq Page
  BY <1>3, <1>4, <1>5 DEF Apart
<1>7. /\ free' \in [Page -> {0, 1}]
      /\ \A p \in Page : free'[p] = IF p \in F THEN 1 ELSE free[p]
  <2>1. /\ \A p \in F : free[p] = 0 /\ Apart(A, img)
        /\ Apart(A \union img, op.pt.tables)
        /\ Apart(A \union img \union op.pt.tables, D)
        /\ img \subseteq Page
    BY <1>3, <1>4, <1>5 DEF Apart
  <2> DEFINE T == op.pt.tables
  <2>2. /\ A \in SUBSET Page /\ img \in SUBSET Page /\ T \in SUBSET Page
        /\ D \in SUBSET Page /\ free \in [Page -> {0, 1}]
    BY <1>1, <1>4, <2>1
  <2>3. /\ \A p \in A \union img \union T \union D : free[p] = 0
        /\ Apart(A, img) /\ Apart(A \union img, T)
        /\ Apart(A \union img \union T, D)
    BY <2>1
  <2>4. free' = page_free(page_free(page_free(page_free(free, A), img), T), D)
    BY <1>2
  <2>5. F = A \union img \union T \union D
    OBVIOUS
  <2> HIDE DEF A, D, img, T, F
  <2>6. /\ free' \in [Page -> {0, 1}]
        /\ \A p \in Page : free'[p] = IF p \in A \union img \union T \union D
                                      THEN 1 ELSE free[p]
    BY <2>2, <2>3, <2>4, FreeChain
  <2> QED
    BY <2>5, <2>6
<1> HIDE DEF A, D, img, M, L
<1>8. Available' = Available \union F
  BY <1>1, <1>4, <1>6, <1>7 DEF Available
<1> HIDE DEF F
<1>9. /\ op.t \in Task => task[op.t].state = "UNUSED" /\ Bare(task[op.t])
      /\ \A t \in Task : task[t].state = "UNUSED" => t = op.t
      /\ op.t = NULL => op.t \notin Task
  BY MemoryAssumption DEF IInv, TasksComplete
<1>10. /\ task' \in [Task -> TaskRec]
       /\ \A t \in Task : t # op.t => task'[t] = task[t]
       /\ op.t \in Task => task'[op.t] = NoTask
  BY <1>1, <1>9, NoTaskFacts
<1>11. PagesPartitioned'
  <2>1. \A t \in Task : Same(task[t], task'[t])
    <3> SUFFICES ASSUME NEW t \in Task PROVE Same(task[t], task'[t])
      OBVIOUS
    <3>1. CASE t = op.t
      <4>1. PagesOf(task[t]) = {} /\ PagesOf(task'[t]) = {} /\ Separate(task'[t])
        BY <1>9, <1>10, <3>1, BareParts, NoTaskFacts DEF Bare
      <4> QED
        BY <4>1 DEF Same
    <3>2. CASE t # op.t
      BY <1>10, <3>2 DEF Same
    <3> QED
      BY <3>1, <3>2
  <2> QED
    BY <1>1, <1>2, <1>6, <1>8, <2>1, OpGone
<1>12. /\ data' \in [Page -> Content]
       /\ \A t \in Task : \A p \in PagesOf(task[t]) : data'[p] = data[p]
  <2>1. data' \in [Page -> Content]
    BY <1>1, <1>2, JunkFacts
  <2>2. ASSUME NEW t \in Task, NEW p \in PagesOf(task[t]) PROVE data'[p] = data[p]
    <3>1. p \in Page /\ p \notin InHand
      BY <1>1, TaskPages DEF PagesPartitioned, Apart
    <3>2. p \notin M \union {op.page, op.ustack}
      BY <1>1, <1>4, <3>1 DEF A
    <3> QED
      BY <1>1, <1>2, <3>1, <3>2, JunkFacts
  <2> QED
    BY <2>1, <2>2
<1>13. Types'
  <2>1. /\ boot' \in 0..BOOTED
        /\ mode' \in {"kernel", "user", "off", "panic", "assert"}
    BY <1>1 DEF IInv, Types
  <2> QED
    BY <1>1, <1>2, <1>6, <1>7, <1>10, <1>12, <2>1, NoOpFacts DEF IInv, Types
<1>14. current # NULL => current \in Task /\ current # op.t
  BY <1>9 DEF IInv, Types, Control
<1>15. Control'
  <2>1. mode = "kernel"
    BY <1>1, NoOpFacts DEF IInv, Control
  <2>2. \A t \in Task : task'[t].state = "LIVE" => task'[t] = task[t]
    BY <1>10, NoTaskFacts
  <2> QED
    BY <1>1, <1>10, <1>14, <2>1, <2>2, NoOpFacts DEF IInv, Control
<1>16. TasksComplete'
  BY <1>1, <1>9, <1>10, NoOpFacts, NoTaskFacts, MemoryAssumption
     DEF IInv, TasksComplete
<1>17. OpShape' /\ OpData' /\ OpCopies'
  BY <1>1, NoOpFacts, BareOp
<1>18. SatpInUse'
  <2>1. mode' = "user" => current # NULL
    BY <1>1 DEF IInv, Control
  <2>2. satp # NULL => current # NULL
    BY <1>1, NoOpFacts DEF IInv, Control
  <2>3. current # NULL => satp = task'[current].pt.root
                          /\ task'[current].state = "LIVE" /\ current \in Task
    BY <1>10, <1>14 DEF IInv, Control
  <2> QED
    BY <1>1, <2>1, <2>2, <2>3 DEF SatpInUse
<1>19. NoStaleData'
  <2> SUFFICES ASSUME NEW t \in Task, task'[t].state \in {"LIVE", "ZOMBIE"},
                      NEW p \in Mapped(task'[t].pt)
               PROVE  data'[p] # "junk"
    BY DEF NoStaleData
  <2>1. task'[t] = task[t]
    BY <1>10, NoTaskFacts
  <2>2. p \in PagesOf(task[t])
    BY <1>1, <2>1, TaskPages
  <2> QED
    BY <1>12, <2>1, <2>2 DEF IInv, NoStaleData
<1> QED
  BY <1>11, <1>13, <1>15, <1>16, <1>17, <1>18, <1>19 DEF IInv

-----------------------------------------------------------------------------
(* The life of a task.                                                     *)

(* What task_free() is told of, and the pages it does not know of, are all *)
(* the pages of a task.                                                    *)
LEMMA Dying ==
    ASSUME NEW r \in TaskRec, Separate(r), Complete(r)
    PROVE  LET F == OwnPages(r) \ {NULL}
               L == IF r.size = 0 THEN Mapped(r.pt) \ {r.ustack} ELSE {}
           IN  /\ Apart(F, L) /\ F \union L = PagesOf(r)
               /\ L \subseteq Page /\ F \subseteq Page
<1>1. /\ r.ustack \in Page /\ r.kstack \in Page \union {NULL}
      /\ r.pt.root \in Page /\ r.pt.tables \subseteq Page /\ NULL \notin Page
      /\ \A v \in VPage : r.pt.map[v] \in Page \union {NULL}
      /\ r.pt.map[TOP] = NULL
  BY MemoryAssumption, Numbers DEF TaskRec, PageTable, Complete
<1>2. Mapped(r.pt) \subseteq Page /\ ImageOf(r.pt, r.size) \subseteq Mapped(r.pt)
  BY <1>1, Numbers DEF Mapped, ImageOf
<1>3. PagesOf(r) = (({r.ustack, r.kstack, r.pt.root} \union r.pt.tables) \ {NULL})
                       \union Mapped(r.pt)
  BY <1>1, PagesOfIs DEF Mapped
<1>4. CASE r.size = 0
  <2>1. ImageOf(r.pt, r.size) = {}
    BY <1>4, Numbers DEF ImageOf, Text
  <2>2. Apart(({r.ustack, r.kstack, r.pt.root} \union r.pt.tables) \ {NULL},
              Mapped(r.pt) \ {r.ustack})
    BY <1>1, SeparateFacts DEF Apart, Mapped
  <2> QED
    BY <1>1, <1>2, <1>3, <1>4, <2>1, <2>2 DEF OwnPages, Apart
<1>5. CASE r.size # 0
  <2>1. r.pt.map[STACK] = r.ustack /\ Beyond(r.pt, r.size) /\ r.size \in Nat
    BY <1>5 DEF Complete, TaskRec
  <2>2. Mapped(r.pt) = ImageOf(r.pt, r.size) \union {r.ustack}
    <3>1. ASSUME NEW q \in Mapped(r.pt)
          PROVE  q \in ImageOf(r.pt, r.size) \union {r.ustack}
      <4>1. PICK v \in VPage : q = r.pt.map[v] /\ q # NULL
        BY DEF Mapped
      <4>2. v \in Text \/ v = STACK
        BY <1>1, <4>1, Numbers
      <4>3. v \in Text => v < r.size
        BY <2>1, <4>1, Numbers DEF Beyond, Text
      <4> QED
        BY <2>1, <4>1, <4>2, <4>3 DEF ImageOf
    <3>2. r.ustack \in Mapped(r.pt)
      BY <1>1, <2>1, Numbers DEF Mapped
    <3> QED
      BY <1>2, <3>1, <3>2
  <2> QED
    BY <1>1, <1>2, <1>3, <1>5, <2>2 DEF OwnPages, Apart
<1> QED
  BY <1>4, <1>5

(* A task is freed, by task_destroy() or by the reaper.                    *)
LEMMA FreedStep ==
    ASSUME IInv, NEW t0 \in Task, t0 # current,
           task[t0].state \in {"LIVE", "ZOMBIE"},
           free' = task_free(free, task[t0]),
           data' = Junk(Mapped(task[t0].pt)),
           task' = [task EXCEPT ![t0] = NoTask],
           lost' = lost \union (IF task[t0].size = 0
                                THEN Mapped(task[t0].pt) \ {task[t0].ustack}
                                ELSE {}),
           UNCHANGED <<ram, heap, current, satp, mode, op>>,
           mode = "kernel", op.at \in {"done", "reap"},
           \/ boot' = boot
           \/ op = NoOp /\ boot = DESTROY_TEST /\ boot' = CREATE_INIT
    PROVE  IInv'
<1> DEFINE r == task[t0]
           F == OwnPages(r) \ {NULL}
           L == IF r.size = 0 THEN Mapped(r.pt) \ {r.ustack} ELSE {}
<1>1. /\ r \in TaskRec /\ Separate(r) /\ Complete(r)
      /\ Apart(PagesOf(r), Available) /\ free \in [Page -> {0, 1}]
      /\ task \in [Task -> TaskRec] /\ data \in [Page -> Content]
      /\ PagesPartitioned
  BY DEF IInv, Types, TasksComplete, PagesPartitioned, Apart
<1>2. /\ Apart(F, L) /\ F \union L = PagesOf(r) /\ L \subseteq Page
      /\ F \subseteq Page
  <2> HIDE DEF r
  <2> QED
    BY <1>1, Dying
<1>3. /\ free' \in [Page -> {0, 1}]
      /\ \A p \in Page : free'[p] = IF p \in F THEN 1 ELSE free[p]
  <2>1. /\ task_free(free, r) \in [Page -> {0, 1}]
        /\ \A p \in Page : task_free(free, r)[p] =
                               IF p \in OwnPages(r) THEN 1 ELSE free[p]
    <3> HIDE DEF r
    <3> QED
      BY <1>1, TaskFree
  <2> QED
    BY <2>1, MemoryAssumption
<1>4. lost' = lost \union L
  OBVIOUS
<1> HIDE DEF F, L
<1>5. Available' = Available \union F
  BY <1>2, <1>3 DEF Available
<1>6. /\ task' \in [Task -> TaskRec] /\ task'[t0] = NoTask
      /\ \A t \in Task : t # t0 => task'[t] = task[t]
  BY <1>1, NoTaskFacts
<1>7. PagesPartitioned'
  <2>1. Same(op, op') /\ op'.page = op.page
    BY DEF Same
  <2> QED
    BY <1>1, <1>2, <1>4, <1>5, <2>1, TaskGone
<1>8. /\ data' \in [Page -> Content]
      /\ \A p \in Page : p \notin Mapped(r.pt) => data'[p] = data[p]
  BY <1>1, JunkFacts
<1>9. Types'
  BY <1>2, <1>3, <1>4, <1>6, <1>8 DEF IInv, Types
<1>10. Control'
  <2>1. current # NULL => current \in Task /\ task'[current] = task[current]
    BY <1>6 DEF IInv, Types
  <2>2. \A t \in Task : task'[t].state = "LIVE" => task'[t] = task[t]
    BY <1>6, NoTaskFacts
  <2> QED
    BY <2>1, <2>2, NoOpFacts DEF IInv, Control
<1>11. TasksComplete'
  BY <1>6, NoTaskFacts DEF IInv, TasksComplete
<1>12. OpShape' /\ OpData' /\ OpCopies'
  <2>1. op.pt = NoTable
    BY DEF IInv, OpShape, Early
  <2>2. OpShape'
    <3>1. op.at \notin {"imagemap", "image"} \union Loaded
      BY DEF Loaded
    <3> QED
      BY <3>1 DEF IInv, OpShape
  <2> QED
    BY <2>1, <2>2, NoTableFacts DEF OpData, OpCopies, Loaded
<1>13. SatpInUse'
  <2>1. satp # NULL => current # NULL
    BY DEF IInv, Control
  <2>2. current # NULL => /\ current \in Task /\ task'[current].state = "LIVE"
                          /\ satp = task'[current].pt.root
    BY <1>6 DEF IInv, Control, Types
  <2> QED
    BY <2>1, <2>2 DEF SatpInUse
<1>14. NoStaleData'
  <2> SUFFICES ASSUME NEW t \in Task, task'[t].state \in {"LIVE", "ZOMBIE"},
                      NEW p \in Mapped(task'[t].pt)
               PROVE  data'[p] # "junk"
    BY DEF NoStaleData
  <2>1. t # t0 /\ task'[t] = task[t]
    BY <1>6, NoTaskFacts
  <2>2. p \in PagesOf(task[t]) /\ p \in Page
    BY <1>1, <2>1, TaskPages
  <2>3. p \notin PagesOf(r) /\ Mapped(r.pt) \subseteq PagesOf(r)
    BY <1>1, <2>1, <2>2, TaskPages DEF PagesPartitioned, Apart
  <2> QED
    BY <1>8, <2>1, <2>2, <2>3 DEF IInv, NoStaleData
<1> QED
  BY <1>7, <1>9, <1>10, <1>11, <1>12, <1>13, <1>14 DEF IInv

LEMMA task_destroyStep ==
    ASSUME IInv, task_destroy
    PROVE  IInv'
<1>1. PICK t \in Task :
          /\ task[t].state = "LIVE"
          /\ free' = task_free(free, task[t])
          /\ data' = Junk(Mapped(task[t].pt))
          /\ task' = [task EXCEPT ![t] = NoTask]
  BY DEF task_destroy
<1>2. /\ mode = "kernel" /\ op = NoOp /\ boot = DESTROY_TEST
      /\ boot' = CREATE_INIT
      /\ UNCHANGED <<ram, heap, current, satp, mode, op, lost>>
      /\ op.at = "done" /\ current = NULL /\ task[t].size # 0
  BY <1>1, NoOpFacts DEF task_destroy, IInv, Control
<1>3. t # current
  BY <1>2, MemoryAssumption
<1>4. lost' = lost \union (IF task[t].size = 0
                           THEN Mapped(task[t].pt) \ {task[t].ustack} ELSE {})
  BY <1>2
<1> QED
  BY <1>1, <1>2, <1>3, <1>4, FreedStep

LEMMA ReapOneStep ==
    ASSUME IInv, ReapOne
    PROVE  IInv'
<1>1. PICK t \in Task \ {current} :
          /\ task[t].state = "ZOMBIE"
          /\ free' = task_free(free, task[t])
          /\ data' = Junk(Mapped(task[t].pt))
          /\ task' = [task EXCEPT ![t] = NoTask]
          /\ lost' = lost \union (IF task[t].size = 0
                                  THEN Mapped(task[t].pt) \ {task[t].ustack}
                                  ELSE {})
  BY DEF ReapOne
<1>2. /\ UNCHANGED <<ram, heap, current, satp, boot, mode, op>>
      /\ op.at = "reap" /\ mode = "kernel"
  BY NoOpFacts DEF ReapOne, IInv, Control
<1> QED
  BY <1>1, <1>2, FreedStep

(* Steps that only change who runs and what the kernel does next.          *)
LEMMA LifeStep ==
    ASSUME IInv, UNCHANGED <<ram, free, heap, data, lost>>,
           op.at \in {"done", "reap", "pick"}, op.t = NULL, op' \in OpRec,
           op'.t = NULL, op'.ustack = NULL, op'.kstack = NULL, op'.page = NULL,
           op'.pt = NoTable, op'.n = 0,
           op'.at \in {"done", "reap", "pick", "find"},
           op'.kind = "exec" => op'.at = "find",
           op'.at = "find" => op'.kind = "exec",
           op'.kind = "sched" => op'.at \in {"reap", "pick"},
           op'.at = "pick" => op'.kind = "sched",
           task' \in [Task -> TaskRec],
           \A t \in Task :
              \/ task'[t] = task[t]
              \/ /\ task[t].state = "LIVE" /\ task'[t].state = "ZOMBIE"
                 /\ task'[t].ustack = task[t].ustack
                 /\ task'[t].kstack = task[t].kstack
                 /\ task'[t].pt = task[t].pt /\ task'[t].size = task[t].size
    PROVE  /\ TasksComplete' /\ PagesPartitioned' /\ NoStaleData'
           /\ OpShape' /\ OpData' /\ OpCopies'
<1>1. \A t \in Task : /\ task'[t].ustack = task[t].ustack
                      /\ task'[t].kstack = task[t].kstack
                      /\ task'[t].pt = task[t].pt /\ task'[t].size = task[t].size
                      /\ \/ task'[t].state = task[t].state
                         \/ task[t].state = "LIVE" /\ task'[t].state = "ZOMBIE"
  OBVIOUS
<1>2. OpShape' /\ OpData' /\ OpCopies' /\ PagesOf(op') = {} /\ Separate(op')
  BY BareOp
<1>3. op.page = NULL /\ PagesOf(op) = {}
  <2>1. op.page = NULL /\ op.ustack = NULL /\ op.kstack = NULL /\ op.pt = NoTable
    BY DEF IInv, OpShape, Early
  <2> QED
    BY <2>1, BareParts
<1>4. PagesPartitioned'
  <2>1. Same(op, op') /\ op'.page = op.page
    BY <1>2, <1>3 DEF Same
  <2>2. \A t \in Task : Same(task[t], task'[t])
    BY <1>1, SameParts DEF Same
  <2> QED
    BY <2>1, <2>2, NothingMoves DEF IInv
<1>5. TasksComplete'
  BY <1>1 DEF IInv, TasksComplete, Bare, Complete
<1>6. NoStaleData'
  BY <1>1 DEF IInv, NoStaleData
<1> QED
  BY <1>2, <1>4, <1>5, <1>6

LEMMA BootCreateStep ==
    ASSUME IInv, BootCreate
    PROVE  IInv'
<1>1. /\ mode = "kernel" /\ op = NoOp
      /\ boot \in {CREATE_TEST, CREATE_INIT, CREATE_DEMO}
      /\ op' = [NoOp EXCEPT !.kind = "create", !.at = "reap"]
      /\ UNCHANGED <<ram, free, heap, data, task, current, satp, boot, mode, lost>>
  BY DEF BootCreate
<1>2. /\ op'.kind = "create" /\ op'.at = "reap" /\ op' \in OpRec
      /\ op'.t = NULL /\ op'.ustack = NULL /\ op'.kstack = NULL
      /\ op'.page = NULL /\ op'.pt = NoTable /\ op'.n = 0
  BY <1>1, NoOpFacts DEF OpRec, At
<1>3. op.at = "done" /\ op.t = NULL /\ op.kind = "none"
      /\ task \in [Task -> TaskRec]
  BY <1>1, NoOpFacts DEF IInv, Types
<1>4. Types'
  BY <1>1, <1>2 DEF IInv, Types
<1>5. Control'
  BY <1>1, <1>2, <1>3 DEF IInv, Control
<1>6. SatpInUse'
  BY <1>1 DEF IInv, SatpInUse
<1>7. /\ TasksComplete' /\ PagesPartitioned' /\ NoStaleData'
      /\ OpShape' /\ OpData' /\ OpCopies'
  BY <1>1, <1>2, <1>3, LifeStep
<1> QED
  BY <1>4, <1>5, <1>6, <1>7 DEF IInv

(* A task starts to run.                                                   *)
LEMMA RunFacts ==
    ASSUME Types, TasksComplete, NEW t \in Task, task[t].state = "LIVE", Run(t)
    PROVE  /\ current' = t /\ t # NULL /\ mode' = "user"
           /\ satp' = task[t].pt.root /\ satp' \in Page /\ satp' # NULL
<1>1. task[t].pt.root \in Page \union {NULL} /\ task[t].pt.root # NULL
  <2>1. task[t] \in TaskRec
    BY DEF Types
  <2> QED
    BY <2>1 DEF TasksComplete, Complete, TaskRec, PageTable
<1> QED
  BY <1>1, MemoryAssumption DEF Run

LEMMA user_initStep ==
    ASSUME IInv, user_init
    PROVE  IInv'
<1>1. /\ mode = "kernel" /\ op = NoOp /\ boot' = BOOTED /\ op' = op
      /\ UNCHANGED <<ram, free, heap, data, task, lost>>
  BY DEF user_init
<1>2. PICK t \in Task : task[t].state = "LIVE" /\ Run(t)
  BY DEF user_init
<1>3. /\ current' = t /\ t # NULL /\ mode' = "user"
      /\ satp' = task[t].pt.root /\ satp' \in Page
  BY <1>2, RunFacts DEF IInv
<1>4. Types'
  BY <1>1, <1>3 DEF IInv, Types
<1>5. Control'
  BY <1>1, <1>2, <1>3, NoOpFacts DEF Control
<1>6. SatpInUse'
  BY <1>1, <1>2, <1>3 DEF SatpInUse
<1>7. /\ TasksComplete' /\ PagesPartitioned' /\ NoStaleData'
      /\ OpShape' /\ OpData' /\ OpCopies'
  <2>1. task \in [Task -> TaskRec]
    BY DEF IInv, Types
  <2> QED
    BY <1>1, <2>1, NoOpFacts, LifeStep
<1> QED
  BY <1>4, <1>5, <1>6, <1>7 DEF IInv

LEMMA TrapStep ==
    ASSUME IInv, Trap
    PROVE  IInv'
<1>1. /\ mode = "user" /\ mode' = "kernel" /\ op = NoOp
      /\ UNCHANGED <<ram, free, heap, data, task, current, satp, boot, lost>>
  BY DEF Trap, IInv, Control
<1>2. PICK k \in {"fork", "exec", "sched"} :
          op' = [NoOp EXCEPT !.kind = k,
                             !.at = IF k = "exec" THEN "find" ELSE "reap"]
  BY DEF Trap
<1>3. /\ op'.kind = k /\ op'.at = (IF k = "exec" THEN "find" ELSE "reap")
      /\ op' \in OpRec
      /\ op'.t = NULL /\ op'.ustack = NULL /\ op'.kstack = NULL
      /\ op'.page = NULL /\ op'.pt = NoTable /\ op'.n = 0
  <2> DEFINE a == IF k = "exec" THEN "find" ELSE "reap"
  <2>1. op' = [NoOp EXCEPT !.kind = k, !.at = a] /\ a \in At
    BY <1>2 DEF At
  <2> HIDE DEF a
  <2>2. /\ op'.kind = k /\ op'.at = a /\ op' \in OpRec
        /\ op'.t = NULL /\ op'.ustack = NULL /\ op'.kstack = NULL
        /\ op'.page = NULL /\ op'.pt = NoTable /\ op'.n = 0
    BY <2>1, NoOpFacts DEF OpRec
  <2> QED
    BY <2>2 DEF a
<1>4. op.at = "done" /\ op.t = NULL /\ task \in [Task -> TaskRec]
  BY <1>1, NoOpFacts DEF IInv, Types
<1>5. Types'
  BY <1>1, <1>3 DEF IInv, Types
<1>6. Control'
  BY <1>1, <1>3 DEF IInv, Control
<1>7. SatpInUse'
  BY <1>1 DEF IInv, SatpInUse
<1>8. /\ TasksComplete' /\ PagesPartitioned' /\ NoStaleData'
      /\ OpShape' /\ OpData' /\ OpCopies'
  BY <1>1, <1>3, <1>4, LifeStep
<1> QED
  BY <1>5, <1>6, <1>7, <1>8 DEF IInv

LEMMA PickStep ==
    ASSUME IInv, Pick
    PROVE  IInv'
<1>1. /\ op.at = "pick" /\ op.kind = "sched" /\ op' = NoOp
      /\ op.t = NULL /\ current # NULL /\ boot = BOOTED
      /\ UNCHANGED <<ram, free, heap, data, task, boot, lost>>
  BY DEF Pick, IInv, OpShape, Control
<1>2. PICK t \in Task : task[t].state = "LIVE" /\ Run(t)
  BY DEF Pick
<1>3. /\ current' = t /\ t # NULL /\ mode' = "user"
      /\ satp' = task[t].pt.root /\ satp' \in Page
  BY <1>2, RunFacts DEF IInv
<1>4. Types'
  BY <1>1, <1>3, NoOpFacts DEF IInv, Types
<1>5. Control'
  BY <1>1, <1>2, <1>3, NoOpFacts DEF Control
<1>6. SatpInUse'
  BY <1>1, <1>2, <1>3 DEF SatpInUse
<1>7. /\ TasksComplete' /\ PagesPartitioned' /\ NoStaleData'
      /\ OpShape' /\ OpData' /\ OpCopies'
  <2>1. task \in [Task -> TaskRec]
    BY DEF IInv, Types
  <2> QED
    BY <1>1, <2>1, NoOpFacts, LifeStep
<1> QED
  BY <1>4, <1>5, <1>6, <1>7 DEF IInv

LEMMA sys_exitStep ==
    ASSUME IInv, sys_exit
    PROVE  IInv'
<1>1. /\ mode = "user" /\ op = NoOp /\ op' = op /\ current \in Task
      /\ current # NULL /\ task[current].state = "LIVE" /\ boot = BOOTED
      /\ task' = [task EXCEPT ![current].state = "ZOMBIE"]
      /\ UNCHANGED <<ram, free, heap, data, boot, lost>>
      /\ task \in [Task -> TaskRec] /\ satp = task[current].pt.root
  BY DEF sys_exit, IInv, Control, Types
<1>2. PICK c \in Task : c = current
  BY <1>1
<1>3. /\ task' \in [Task -> TaskRec] /\ task'[c].state = "ZOMBIE"
      /\ task'[c].ustack = task[c].ustack /\ task'[c].kstack = task[c].kstack
      /\ task'[c].pt = task[c].pt /\ task'[c].size = task[c].size
      /\ \A t \in Task : t # c => task'[t] = task[t]
  BY <1>1, <1>2 DEF TaskRec
<1>4. /\ TasksComplete' /\ PagesPartitioned' /\ NoStaleData'
      /\ OpShape' /\ OpData' /\ OpCopies'
  BY <1>1, <1>2, <1>3, NoOpFacts, LifeStep
<1>5. CASE current' = NULL /\ mode' = "off" /\ UNCHANGED satp
  <2>1. Types'
    BY <1>1, <1>3, <1>5 DEF IInv, Types
  <2>2. Control'
    BY <1>1, <1>5, NoOpFacts DEF Control
  <2>3. SatpInUse'
    BY <1>1, <1>2, <1>3, <1>5 DEF SatpInUse
  <2> QED
    BY <1>4, <2>1, <2>2, <2>3 DEF IInv
<1>6. ASSUME NEW t \in Task \ {current}, task[t].state = "LIVE", Run(t)
      PROVE  IInv'
  <2>1. /\ current' = t /\ t # NULL /\ mode' = "user" /\ t \in Task
        /\ satp' = task[t].pt.root /\ satp' \in Page
    BY <1>6, RunFacts DEF IInv
  <2>2. task'[t] = task[t]
    BY <1>2, <1>3
  <2>3. Types'
    BY <1>1, <1>3, <2>1 DEF IInv, Types
  <2>4. Control'
    BY <1>1, <1>6, <2>1, <2>2, NoOpFacts DEF Control
  <2>5. SatpInUse'
    BY <1>6, <2>1, <2>2 DEF SatpInUse
  <2> QED
    BY <1>4, <2>3, <2>4, <2>5 DEF IInv
<1> QED
  BY <1>5, <1>6 DEF sys_exit

LEMMA UserWritesStep ==
    ASSUME IInv, UserWrites
    PROVE  IInv'
<1>1. /\ mode = "user" /\ op = NoOp /\ current \in Task
      /\ UNCHANGED <<ram, free, heap, task, current, satp, boot, mode, op, lost>>
      /\ task \in [Task -> TaskRec] /\ data \in [Page -> Content]
  BY DEF UserWrites, IInv, Control, Types
<1>2. PICK v \in Written : /\ task[current].pt.map[v] # NULL
                           /\ data' = [data EXCEPT ![task[current].pt.map[v]] = "user"]
  BY DEF UserWrites
<1>3. task[current].pt.map[v] \in Page
  <2>1. task[current].pt \in PageTable /\ v \in VPage
    BY <1>1, Numbers, MemoryAssumption DEF TaskRec, VPage, TOP
  <2> QED
    BY <1>2, <2>1 DEF PageTable
<1>4. /\ data' \in [Page -> Content]
      /\ \A q : data[q] # "junk" /\ q \in Page => data'[q] # "junk"
  BY <1>1, <1>2, <1>3 DEF Content
<1>5. Types' /\ Control' /\ TasksComplete' /\ SatpInUse'
  BY <1>1, <1>4 DEF IInv, Types, Control, TasksComplete, SatpInUse
<1>6. OpShape' /\ OpData' /\ OpCopies'
  BY <1>1, NoOpFacts, BareOp
<1>7. PagesPartitioned'
  BY <1>1, NothingMoves DEF IInv, Same
<1>8. NoStaleData'
  <2> SUFFICES ASSUME NEW t \in Task, task[t].state \in {"LIVE", "ZOMBIE"},
                      NEW p \in Mapped(task[t].pt)
               PROVE  data'[p] # "junk"
    BY <1>1 DEF NoStaleData
  <2>1. p \in Page
    BY <1>1, TaskPages
  <2> QED
    BY <1>4, <2>1 DEF IInv, NoStaleData
<1> QED
  BY <1>5, <1>6, <1>7, <1>8 DEF IInv

LEMMA NoStep ==
    ASSUME IInv, UNCHANGED vars
    PROVE  IInv'
<1>1. /\ Types' /\ Control' /\ TasksComplete' /\ OpShape'
      /\ SatpInUse' /\ NoStaleData' /\ OpData' /\ OpCopies'
  BY DEF vars, IInv, Types, Control, TasksComplete, OpShape, SatpInUse,
         NoStaleData, OpData, OpCopies, ImageSize
<1>2. PagesPartitioned'
  BY NothingMoves DEF vars, IInv, Same
<1> QED
  BY <1>1, <1>2 DEF IInv

LEMMA MemStep == IInv /\ [Next]_vars => IInv'
<1> SUFFICES ASSUME IInv, [Next]_vars PROVE IInv'
  OBVIOUS
<1>1. CASE Life
  BY <1>1, BootCreateStep, task_destroyStep, user_initStep, UserWritesStep,
     TrapStep, sys_exitStep, ReapOneStep, ReapDoneStep, PickStep DEF Life
<1>2. CASE Build
  BY <1>2, AllocStructStep, AllocPartsStep, MapKernelStep, LoadPageStep,
     ImageDoneStep, pgtable_mapStep, NewStackStep, FillStackStep, PublishStep,
     AbortStep, ExecFindsStep, ExecCommitsStep DEF Build
<1>3. CASE Stopped \/ UNCHANGED vars
  BY <1>3, NoStep DEF Stopped
<1> QED
  BY <1>1, <1>2, <1>3 DEF Next

-----------------------------------------------------------------------------
(* The theorems.                                                           *)

(* The inductive invariant holds of task.c, exec.c, pgtable.c and the      *)
(* allocators in every reachable state.                                    *)
THEOREM MemInvariant == Spec => []IInv
BY MemInit, MemStep, PTL DEF Spec

(* Every variable keeps its type; in particular page_free() never puts a   *)
(* page on the free list twice.                                            *)
THEOREM MemTypeCorrect == Spec => []TypeOK
<1>1. IInv => TypeOK
  BY DEF IInv, Types, TypeOK, OpRec, TaskRec
<1> QED
  BY <1>1, MemInvariant, PTL

(* Every page is free, in the heap, lost to exec, or held by exactly one   *)
(* task or by the operation under way in exactly one role: no page is      *)
(* shared, freed while it is held or leaked, on every path of creation,    *)
(* fork, exec, exit and reaping, whenever memory runs out.                 *)
THEOREM MemPagesPartitioned == Spec => []PagesPartitioned
BY MemInvariant, PTL DEF IInv

(* vm_switch() never leaves a freed page table in use, and in user mode    *)
(* the one in use is the current task's.                                   *)
THEOREM MemSatpInUse == Spec => []SatpInUse
BY MemInvariant, PTL DEF IInv

(* No task can read what an earlier owner, or the free list, left in one   *)
(* of its pages.                                                           *)
THEOREM MemNoStaleData == Spec => []NoStaleData
BY MemInvariant, PTL DEF IInv

(* A fork that completes has copied every image page of a parent that      *)
(* still runs the program it was created with, each to another page.       *)
LEMMA ForkCopiesStep ==
    ASSUME IInv, [Next]_vars, NEW t \in Task, Forks(t), task[current].size # 0,
           NEW v \in Text
    PROVE  Copied(t, v)
<1>1. op.kind = "fork" /\ task[t].state = "UNUSED" /\ task'[t].state = "LIVE"
      /\ t = op.t
  BY DEF Forks, IInv, TasksComplete
<1>2. Publish
  <2>1. task'[t].state # task[t].state
    BY <1>1
  <2>2. ~(UNCHANGED task)
    BY <2>1
  <2>3. op # NoOp /\ mode = "kernel" /\ op.at # "done"
    BY <1>1, NoOpFacts DEF IInv, Control
  <2>4. CASE Life
    <3>1. op.at = "reap" /\ op.t # NULL
      BY <1>1, <2>2, <2>3, <2>4, MemoryAssumption
         DEF Life, BootCreate, task_destroy, user_init, UserWrites, Trap,
             sys_exit, ReapOne, ReapDone, Pick
    <3> QED
      BY <3>1 DEF IInv, OpShape
  <2>5. CASE Build
    <3>1. AllocStruct \/ Publish \/ Abort \/ ExecCommits
      BY <2>2, <2>5 DEF Build, AllocParts, MapKernel, LoadPage, ImageDone,
            pgtable_map, NewStack, FillStack, ExecFinds
    <3>2. CASE AllocStruct
      BY <1>1, <3>2, MemoryAssumption DEF AllocStruct, IInv, OpShape
    <3>3. CASE Abort
      <4>1. task' = [task EXCEPT ![op.t] = NoTask] \/ task' = task
        BY <3>3 DEF Abort
      <4> QED
        BY <1>1, <2>2, <4>1, NoTaskFacts DEF IInv, Types
    <3>4. CASE ExecCommits
      BY <1>1, <3>4 DEF ExecCommits
    <3> QED
      BY <3>1, <3>2, <3>3, <3>4
  <2>6. CASE Stopped \/ UNCHANGED vars
    BY <2>2, <2>6 DEF Stopped, vars
  <2> QED
    BY <2>4, <2>5, <2>6 DEF Next
<1>3. /\ op.at = "commit" /\ task'[t].pt = op.pt /\ UNCHANGED data
      /\ op.n = task[current].size /\ current \in Task
      /\ task[current].state = "LIVE" /\ task \in [Task -> TaskRec]
  <2>1. op.n = ImageSize
    BY <1>2 DEF Publish, IInv, OpShape, Loaded
  <2> QED
    BY <1>1, <1>2, <2>1 DEF Publish, IInv, Types, Control, ImageSize
<1> DEFINE p == task[current].pt.map[v]
           q == op.pt.map[v]
<1> SUFFICES ASSUME p # NULL PROVE q # NULL /\ q # p /\ data[q] = data[p]
  BY <1>3 DEF Copied
<1>4. v < op.n
  <2>1. Complete(task[current]) /\ task[current].size \in Nat
    BY <1>3 DEF IInv, TasksComplete, TaskRec
  <2> QED
    BY <1>3, <2>1, Numbers DEF Complete, Beyond, Text
<1>5. q # NULL /\ data[q] = data[p]
  BY <1>1, <1>3, <1>4 DEF IInv, OpCopies, Loaded
<1>6. q \in PagesOf(op) /\ p \in PagesOf(task[current])
  BY <1>5, PagesOfIs, Numbers
<1>7. q # p
  BY <1>3, <1>6 DEF IInv, PagesPartitioned, InHand, Apart
<1> QED
  BY <1>5, <1>7

(* fork() gives the child a copy of its own of every image page of the     *)
(* parent, as long as the parent runs the program it was created with.     *)
THEOREM MemForkCopies == Spec => ForkCopiesImage
<1>1. IInv /\ [Next]_vars =>
          [\A t \in Task : Forks(t) /\ task[current].size # 0 =>
               \A v \in Text : Copied(t, v)]_vars
  BY ForkCopiesStep
<1> QED
  BY <1>1, MemInvariant, PTL DEF Spec, ForkCopiesImage
=============================================================================
