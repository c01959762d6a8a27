------------------------------- MODULE Initrd -------------------------------
(***************************************************************************)
(* The initial RAM disk, kernel/initrd.c: the walk over a cpio archive in  *)
(* memory and the lookup of a file.                                        *)
(*                                                                         *)
(* Memory is reduced to where the archive's headers are; everything else   *)
(* has the wrong magic number.  The archive has the newc format: a header, *)
(* the name with its NUL, the contents, each filled up to a multiple of 4  *)
(* from the start of the archive, and a last entry named TRAILER!!!.       *)
(***************************************************************************)
EXTENDS Integers, Sequences, FiniteSetsExt, Functions

CONSTANTS
    Archives,       \* sequences of entries: name, namesize, file
    SizeOf(_),      \* the size of a file's contents
    Starts,         \* the addresses the archive may be linked at
    NULL

CPIO_HEADER_SIZE == 110
BLOCK            == 512     \* cpio fills its output up to a multiple of this
TRAILER          == "TRAILER!!!"

(* A number that the eight digits of a field of a header can hold: it is   *)
(* less than 2^32.                                                         *)
FitsHeader(n) == n \in Nat /\ n \div 65536 < 65536

(* What cpio writes.  The size of a name is a function of the name: its    *)
(* length, and one for the NUL.                                            *)
ASSUME InitrdAssumption ==
    /\ Starts \subseteq Nat \ {0}
    /\ SizeOf(NULL) = 0
    /\ \A a \in Archives :
           /\ a \in Seq(Range(a))
           /\ \A i \in DOMAIN a : /\ FitsHeader(a[i].namesize)
                                 /\ FitsHeader(SizeOf(a[i].file))
           /\ \A i, j \in DOMAIN a :
                  a[i].name = a[j].name => a[i].namesize = a[j].namesize

VARIABLES
    archive,        \* the entries, with the trailer
    start,
    pos,            \* the local variable of initrd_init()
    file_list,      \* the list of files, its head first
    walk            \* "on", "done", or "oom" if kmalloc() failed

initrdVars == <<archive, start, pos, file_list, walk>>

align4(n) == ((n + 3) \div 4) * 4

(* A number in a header: eight hexadecimal digits, of either case, here by *)
(* their values.                                                           *)
Digits8    == [1..8 -> 0..15]
PowersOf16 == <<268435456, 16777216, 1048576, 65536, 4096, 256, 16, 1>>
Hex8(n)    == [d \in 1..8 |-> (n \div PowersOf16[d]) % 16]

(* The variable of parse_hex() after i rounds of its loop over the digits. *)
val[i \in 0..8] == [s \in Digits8 |-> IF i = 0 THEN 0
                                      ELSE val[i - 1][s] * 16 + s[i]]

parse_hex(s) == val[8][s]

namesize(e) == parse_hex(Hex8(e.namesize))

(* Fault: a ninth digit is read, the first of the next field, which is 0.  *)
filesize_nine(e) == parse_hex(Hex8(SizeOf(e.file))) * 16

filesize(e) == parse_hex(Hex8(SizeOf(e.file)))

(* Where cpio has put things, from the start of the archive on.            *)
Up4(n) == n + ((-n) % 4)
Layout[i \in 1..(Len(archive) + 1)] ==
    IF i = 1 THEN 0
    ELSE LET e == archive[i - 1]
         IN  Up4(Up4(Layout[i - 1] + CPIO_HEADER_SIZE + e.namesize)
                 + SizeOf(e.file))

HeaderOf(i) == start + Layout[i]
DataOf(i)   == start + Up4(Layout[i] + CPIO_HEADER_SIZE
                           + archive[i].namesize)
Total       == LET n == Layout[Len(archive) + 1]
               IN  n + ((-n) % BLOCK)
initrd_end  == start + Total

(* The entries whose header is at address a: one or none.                  *)
EntriesAt(a) == {i \in DOMAIN archive : HeaderOf(i) = a}

-----------------------------------------------------------------------------
InitrdInit ==
    /\ \E a \in Archives :
           archive = Append(a, [name |-> TRAILER, namesize |-> 11,
                                file |-> NULL])
    /\ start \in Starts
    /\ pos = start
    /\ file_list = << >>
    /\ walk = "on"

(* The loop ends: no room for a header, or no magic number.  The end marker*)
(* would have to be where a header starts.                                 *)
walk_ends ==
    /\ walk = "on"
    /\ pos + CPIO_HEADER_SIZE > initrd_end \/ EntriesAt(pos) = {}
    /\ walk' = "done"
    /\ UNCHANGED <<archive, start, pos, file_list>>

(* The position after the entry e at pos.                                  *)
Data(e)  == align4(pos + CPIO_HEADER_SIZE + namesize(e))
After(e) == align4(Data(e) + filesize(e))

Skipped(e) == e.name = "." \/ namesize(e) >= 64

skip_entry ==
    /\ walk = "on" /\ pos + CPIO_HEADER_SIZE <= initrd_end
    /\ \E i \in EntriesAt(pos) :
           /\ Skipped(archive[i])
           /\ pos' = After(archive[i])
    /\ UNCHANGED <<archive, start, file_list, walk>>

(* The entry for e at pos; len is the number of characters copied to       *)
(* name[64], after which a NUL is put.                                     *)
NewEntry(e) == [name |-> e.name, namesize |-> namesize(e),
                len  |-> IF namesize(e) < 64 THEN namesize(e) ELSE 63,
                data |-> Data(e), size |-> filesize(e)]

(* Fault: the file goes to the end of the list.                            *)
Added_last(e) == Append(file_list, NewEntry(e))

(* The list with the entry at pos, at its head.                            *)
Added(e) == <<NewEntry(e)>> \o file_list

add_file ==
    /\ walk = "on" /\ pos + CPIO_HEADER_SIZE <= initrd_end
    /\ \E i \in EntriesAt(pos) :
           /\ ~Skipped(archive[i])
           /\ file_list' = Added(archive[i])
           /\ pos' = After(archive[i])
    /\ UNCHANGED <<archive, start, walk>>

out_of_memory ==
    /\ walk = "on" /\ pos + CPIO_HEADER_SIZE <= initrd_end
    /\ \E i \in EntriesAt(pos) : ~Skipped(archive[i])
    /\ walk' = "oom"
    /\ UNCHANGED <<archive, start, pos, file_list>>

initrd_init == walk_ends \/ skip_entry \/ add_file \/ out_of_memory

(* The address that initrd_find() returns and the size it stores: those of *)
(* the first file of that name in the list.  Without one it returns 0 and  *)
(* stores nothing.                                                         *)
initrd_find(name) ==
    LET K == {k \in DOMAIN file_list : file_list[k].name = name}
    IN  IF K = {} THEN [data |-> 0, size |-> NULL]
        ELSE [data |-> file_list[Min(K)].data, size |-> file_list[Min(K)].size]

-----------------------------------------------------------------------------
InitrdTypeOK ==
    /\ walk \in {"on", "done", "oom"}
    /\ pos \in Nat
    /\ \A k \in DOMAIN file_list : file_list[k].data \in Nat

(* Wherever the archive is linked, also at an odd address, the walk reads  *)
(* no header, name or contents outside of it, although only the header is  *)
(* checked against the end, and no name is cut off to fit name[64].        *)
WalkStaysInside ==
    /\ pos >= start
    /\ \A k \in DOMAIN file_list :
           /\ file_list[k].data - file_list[k].namesize >= start
           /\ file_list[k].data + file_list[k].size <= initrd_end
           /\ file_list[k].namesize - 1 <= file_list[k].len

(* The files that ought to be found: those of the archive.                 *)
Proper(i) == archive[i].name \notin {".", TRAILER} /\ archive[i].namesize < 64

(* In an archive that is linked at a multiple of 4, the walk comes to every*)
(* entry: initrd_find() returns the contents that cpio stored last under   *)
(* that name and their size, and 0 for names that are not kept.            *)
FindsFiles ==
    walk = "done" /\ start % 4 = 0 =>
        \A name \in {archive[i].name : i \in DOMAIN archive} \ {TRAILER} :
            LET I == {i \in DOMAIN archive : archive[i].name = name /\ Proper(i)}
                f == initrd_find(name)
            IN  IF I = {} THEN f.data = 0
                ELSE /\ f.data = DataOf(Max(I)) /\ f.data # 0
                     /\ f.size = SizeOf(archive[Max(I)].file)

(* The walk ends at the end marker: the trailer is not a file.             *)
EndsAtTrailer ==
    \A k \in DOMAIN file_list : file_list[k].name # TRAILER
=============================================================================
