------------------------------ MODULE ElfLoad -------------------------------
(***************************************************************************)
(* exec() down to the bytes: a file found in the initrd is verified and    *)
(* its segments are loaded.  kernel/exec.c on top of kernel/initrd.c; what *)
(* becomes of the pages is in TaskMemory.                                  *)
(*                                                                         *)
(* A byte of a file is named by its offset, which is never 0 in a segment  *)
(* (the ELF header is there); 0 is a byte that was cleared.                *)
(***************************************************************************)
EXTENDS Initrd

CONSTANTS
    PAGE_SIZE, MAXVA,
    Segments(_),    \* the program headers of a file; << >> if there are none
    IsElf(_),       \* the file starts with a header that elf_verify accepts
    EntryOf(_),     \* e_entry
    KernelPages,    \* the virtual pages that vm_map_kernel() maps
    StackPage       \* the virtual page below USER_STACK_TOP

EHDR_SIZE == 64

(* The program headers of a file are as the linker writes them; the stack  *)
(* can be mapped and is apart from the kernel.                             *)
ASSUME ElfAssumption ==
    /\ PAGE_SIZE \in Nat \ {0}
    /\ MAXVA \in Nat
    /\ StackPage \in Nat \ KernelPages /\ StackPage * PAGE_SIZE < MAXVA
    /\ \A a \in Archives : \A i \in DOMAIN a :
           IsElf(a[i].file) =>
               LET segs == Segments(a[i].file)
               IN  /\ segs \in Seq(Range(segs))
                   /\ \A k \in DOMAIN segs :
                          /\ segs[k].vaddr \in Nat /\ segs[k].offset \in Nat
                          /\ segs[k].filesz \in Nat /\ segs[k].memsz \in Nat
                          /\ segs[k].filesz <= segs[k].memsz

VARIABLES
    load,       \* the exec() under way: at, file, number i of the segment,
                \* number j of the page in it
    image       \* what the new page table maps, by virtual page

elfVars == <<load, image>>
vars    == <<initrdVars, elfVars>>

NoLoad  == [at |-> "idle", name |-> NULL, file |-> NULL, i |-> 1, j |-> 0]
NoImage == [v \in {} |-> 0]

align_down(a) == (a \div PAGE_SIZE) * PAGE_SIZE
align_up(a)   == align_down(a + PAGE_SIZE - 1)

va_start(s) == align_down(s.vaddr)

(* Fault: one page too many for a segment that ends with a page.           *)
nr_pages_rounded(s) ==
    (s.vaddr + s.memsz - va_start(s)) \div PAGE_SIZE + 1

nr_pages(s) == (align_up(s.vaddr + s.memsz) - va_start(s)) \div PAGE_SIZE

-----------------------------------------------------------------------------
(* The bytes at an address, as a file: one of the archive's, or no ELF.    *)
FileAt(a) ==
    LET I == {i \in DOMAIN archive : DataOf(i) = a}
    IN  IF I = {} THEN NULL ELSE archive[Max(I)].file

elf_verify(file, size) == size >= EHDR_SIZE /\ file # NULL /\ IsElf(file)

(* sys_exec() up to the call of elf_load(): finds and verifies the file.   *)
(* Memory for the tables may run out.                                      *)
sys_exec(name) ==
    LET f == initrd_find(name)
    IN  /\ walk # "on" /\ load.at = "idle"
        /\ image' = NoImage
        /\ \/ /\ f.data = 0
              /\ load' = [NoLoad EXCEPT !.at = "not found", !.name = name]
           \/ /\ f.data # 0
              /\ load' = [NoLoad EXCEPT
                             !.at = IF elf_verify(FileAt(f.data), f.size)
                                    THEN "load" ELSE "invalid",
                             !.name = name, !.file = FileAt(f.data)]
        /\ UNCHANGED initrdVars

(* The place of page j of segment s, and the end of the segment's bytes of *)
(* the file.                                                               *)
page_va(s, j) == va_start(s) + j * PAGE_SIZE
file_end(s)   == s.vaddr + s.filesz

(* Fault: the first page is filled from its start.                         *)
copy_start_zero(s, j) == 0

copy_start(s, j) == IF j = 0 THEN s.vaddr - va_start(s) ELSE 0

(* Fault: the end of the page does not limit what is copied.               *)
copy_end_unlimited(s, j) == file_end(s) - page_va(s, j)

copy_end(s, j) == IF page_va(s, j) + PAGE_SIZE < file_end(s) THEN PAGE_SIZE
                  ELSE file_end(s) - page_va(s, j)

(* The bytes that mem_copy() writes, counted from the start of the page,   *)
(* also those beyond its end, if any.                                      *)
Copied(s, j) ==
    IF page_va(s, j) + PAGE_SIZE > s.vaddr /\ page_va(s, j) < file_end(s)
    THEN copy_start(s, j)..(copy_end(s, j) - 1) ELSE {}

(* What is written for page j of segment s: mem_zero() clears the page,    *)
(* then the file's bytes are copied.                                       *)
Filled(s, j) ==
    LET seg_off == IF page_va(s, j) > s.vaddr THEN page_va(s, j) - s.vaddr
                   ELSE 0
    IN  [b \in (0..(PAGE_SIZE - 1)) \union Copied(s, j) |->
            IF b \in Copied(s, j)
            THEN s.offset + seg_off + (b - copy_start(s, j)) ELSE 0]

Segment == Segments(load.file)[load.i]
VPage   == va_start(Segment) \div PAGE_SIZE + load.j

(* The headers are done, or this segment is, or it is not PT_LOAD.  An     *)
(* entry point of 0 is taken for a failure.                                *)
elf_load_next ==
    /\ load.at = "load"
    /\ \/ /\ load.i > Len(Segments(load.file))
          /\ load' = [load EXCEPT !.at = IF EntryOf(load.file) = 0
                                        THEN "no entry" ELSE "stack"]
       \/ /\ load.i <= Len(Segments(load.file))
          /\ Segment.type # "LOAD" \/ load.j >= nr_pages(Segment)
          /\ load' = [load EXCEPT !.i = @ + 1, !.j = 0]
    /\ UNCHANGED <<initrdVars, image>>

(* pgtable_walk() asserts that the address is one that can be mapped.      *)
InRange(v) == v * PAGE_SIZE < MAXVA

(* pgtable_map() refuses a page that is mapped.                            *)
pgtable_map_ok(v) == v \notin DOMAIN image \union KernelPages

With(v, page) == [u \in DOMAIN image \union {v} |->
                      IF u = v THEN page ELSE image[u]]

(* A page is allocated, filled and mapped.                                 *)
elf_load_page ==
    /\ load.at = "load"
    /\ load.i <= Len(Segments(load.file))
    /\ Segment.type = "LOAD" /\ load.j < nr_pages(Segment)
    /\ InRange(VPage)
    /\ IF pgtable_map_ok(VPage)
       THEN /\ load' = [load EXCEPT !.j = @ + 1]
            /\ image' = With(VPage, Filled(Segment, load.j))
       ELSE /\ load' = [load EXCEPT !.at = "map failed"]
            /\ UNCHANGED image
    /\ UNCHANGED initrdVars

(* The page is beyond what can be mapped: the kernel stops.                *)
elf_load_asserts ==
    /\ load.at = "load"
    /\ load.i <= Len(Segments(load.file))
    /\ Segment.type = "LOAD" /\ load.j < nr_pages(Segment)
    /\ ~InRange(VPage)
    /\ load' = [load EXCEPT !.at = "assert"]
    /\ UNCHANGED <<initrdVars, image>>

(* The program is loaded: a cleared page is mapped as its stack.           *)
exec_stack ==
    /\ load.at = "stack"
    /\ IF pgtable_map_ok(StackPage)
       THEN /\ load' = [load EXCEPT !.at = "done"]
            /\ image' = With(StackPage, [b \in 0..(PAGE_SIZE - 1) |-> 0])
       ELSE /\ load' = [load EXCEPT !.at = "map failed"]
            /\ UNCHANGED image
    /\ UNCHANGED initrdVars

(* Any of the allocations may fail.                                        *)
exec_out_of_memory ==
    /\ load.at \in {"load", "stack"}
    /\ load' = [load EXCEPT !.at = "no memory"]
    /\ UNCHANGED <<initrdVars, image>>

(* The program runs, or the caller has its -1; the next exec() may come.   *)
exec_returns ==
    /\ load.at \notin {"idle", "load", "stack", "assert"}
    /\ load' = NoLoad
    /\ image' = NoImage
    /\ UNCHANGED initrdVars

Stopped == load.at = "assert" /\ UNCHANGED vars

Init == InitrdInit /\ load = NoLoad /\ image = NoImage

Next ==
    \/ initrd_init /\ UNCHANGED elfVars
    \/ \E i \in DOMAIN archive : sys_exec(archive[i].name)
    \/ sys_exec("no such file")
    \/ elf_load_next \/ elf_load_page \/ elf_load_asserts \/ exec_stack
    \/ exec_out_of_memory \/ exec_returns \/ Stopped

Spec == Init /\ [][Next]_vars

-----------------------------------------------------------------------------
TypeOK ==
    /\ InitrdTypeOK
    /\ load.at \in {"idle", "not found", "invalid", "load", "map failed",
                    "assert", "no memory", "no entry", "stack", "done"}
    /\ load.i \in Nat \ {0} /\ load.j \in Nat
    /\ \A v \in DOMAIN image : image[v] \in [0..(PAGE_SIZE - 1) -> Nat]

(* The numbers of a file's loadable segments, and the pages and the bytes  *)
(* of the file that a segment covers.                                      *)
Loadable(file) == {k \in DOMAIN Segments(file) :
                       Segments(file)[k].type = "LOAD"}
Covers(s)      == (s.vaddr \div PAGE_SIZE)
                      ..((s.vaddr + s.memsz - 1) \div PAGE_SIZE)
FileRange(s)   == s.vaddr..(s.vaddr + s.filesz - 1)

(* The byte that belongs at virtual address a.                             *)
Wanted(file, a) ==
    LET K == {k \in Loadable(file) : a \in FileRange(Segments(file)[k])}
    IN  IF K = {} THEN 0
        ELSE LET s == Segments(file)[CHOOSE k \in K : TRUE]
             IN  s.offset + a - s.vaddr

(* The program that exec() starts is the one the archive holds under that  *)
(* name: exactly the pages of its segments and its stack are mapped, every *)
(* byte of a segment is where it was linked, and the rest is zero.         *)
LoadsProgram ==
    load.at = "done" =>
        LET I == {i \in DOMAIN archive : archive[i].name = load.name}
        IN  /\ walk = "done" => load.file = archive[Max(I)].file
            /\ DOMAIN image = {StackPage} \union
                               (UNION {Covers(Segments(load.file)[k]) :
                                         k \in Loadable(load.file)})
            /\ \A v \in DOMAIN image : \A b \in 0..(PAGE_SIZE - 1) :
                   image[v][b] = Wanted(load.file, v * PAGE_SIZE + b)

(* Mapping fails only for a file with two segments in one page, or with    *)
(* one where the kernel or the stack goes, and the assertion only for one  *)
(* that reaches MAXVA: adjacent pages never clash, for any alignment of a  *)
(* segment's start and end.                                                *)
RefusesOnlyBadFiles ==
    /\ load.at = "map failed" =>
           \E k, l \in Loadable(load.file) :
               LET s == Segments(load.file)[k]
                   t == Segments(load.file)[l]
               IN  \/ k # l /\ Covers(s) \intersect Covers(t) # {}
                   \/ Covers(s) \intersect (KernelPages \union {StackPage}) # {}
    /\ load.at = "assert" =>
           \E k \in Loadable(load.file) :
               \E v \in Covers(Segments(load.file)[k]) : ~InRange(v)
=============================================================================
