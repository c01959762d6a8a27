----------------------------- MODULE MCElfLoad ------------------------------
(* A small instance of ElfLoad for TLC: pages of four bytes.               *)
EXTENDS ElfLoad

Load(vaddr, filesz, memsz, offset) ==
    [type |-> "LOAD", offset |-> offset, vaddr |-> vaddr,
     filesz |-> filesz, memsz |-> memsz]
Note == [Load(0, 4, 4, 180) EXCEPT !.type = "NOTE"]

Elf(segs, size) == [elf |-> TRUE, segs |-> segs, size |-> size, entry |-> 4]
Text(size)      == [elf |-> FALSE, segs |-> << >>, size |-> size, entry |-> 0]

(* One segment, at every place in a page and of every size up to three     *)
(* pages, without contents, with some and with nothing else.               *)
OneSegment == {Elf(<<Load(v, f, m, 120)>>, 120 + f) :
                  v \in 4..7, m \in 1..9, f \in 0..9}
Valid(e) == \A k \in DOMAIN e.segs : e.segs[k].filesz <= e.segs[k].memsz

(* Two segments, in pages of their own and with one in common.             *)
TwoSegments == {Elf(<<Load(4, 8, 8, 176), Note, Load(12, 3, 5, 184)>>, 190),
                Elf(<<Load(5, 4, 6, 177), Load(11, 2, 2, 181)>>, 183)}

(* A segment over the kernel, one over the stack, one that crosses MAXVA,  *)
(* and an entry point of 0.                                                *)
Refused == {Elf(<<Load(18, 4, 8, 120)>>, 124), Elf(<<Load(25, 2, 4, 120)>>, 122),
            Elf(<<Load(38, 4, 4, 120)>>, 124),
            [Elf(<<Load(4, 4, 4, 120)>>, 124) EXCEPT !.entry = 0]}

Entry(name, size, file) ==
    [name |-> name, namesize |-> size, file |-> file]

(* With a directory, and with a name stored twice and names at the limit.  *)
Plain(e)   == <<Entry(".", 2, Text(0)), Entry("hello", 6, e),
                Entry("notes", 7, Text(30))>>
Special(e) == <<Entry("hello", 6, Text(70)), Entry("a63", 63, Text(1)),
                Entry("a64", 64, Text(2)), Entry("hello", 6, e)>>

SomeArchives ==
    {Plain(e) : e \in {x \in OneSegment : Valid(x)}}
    \union {Special(e) : e \in TwoSegments \union Refused} \union {<< >>}

FileSize(f)     == IF f = NULL THEN 0 ELSE f.size
FileSegments(f) == f.segs
FileIsElf(f)    == f.elf
FileEntry(f)    == f.entry
=============================================================================
