------------------------------ MODULE MCLoader ------------------------------
(* Two words of IRAM, two of DRAM, and two loads in a row of images of one *)
(* or two segments: the second load starts from what the first one left.   *)
EXTENDS Loader

MCFile == <<1, 2, 3, 1>>

Ph(load, offset, vaddr, filesz, memsz) ==
    [load |-> load, offset |-> offset, vaddr |-> vaddr, filesz |-> filesz, memsz |-> memsz]

(* Segments that lie inside IRAM, end at its end, run off it, start after  *)
(* it, lie in DRAM, in the UART, or at the top of the address space; with  *)
(* all, some or none of their bytes in the file, or past its end, or with  *)
(* a range that wraps around a usize to the file's first bytes.            *)
SomePhdrs ==
    {Ph(TRUE, 1, vaddr, filesz, memsz) :
        vaddr \in {160, 164, 166, 168, 116, 80, 254}, filesz \in {0, 2}, memsz \in {2, 4}}
    \cup {Ph(TRUE, 3, 160, 2, 4), Ph(TRUE, 0, 160, 4, 2), Ph(TRUE, 0, 162, 3, 0),
          Ph(FALSE, 0, 160, 2, 2), Ph(TRUE, 0, 162, 4, 4), Ph(TRUE, 9, 112, 0, 8),
          Ph(TRUE, 254, 160, 4, 4), Ph(TRUE, 255, 112, 1, 2)}

(* Those that two-segment images are made of: they overlap, abut, leave a  *)
(* gap, or fail after the first one has been placed.                       *)
PairPhdrs ==
    {Ph(TRUE, 1, vaddr, 2, 4) : vaddr \in {160, 164, 166, 168, 116}}
    \cup {Ph(TRUE, 0, 162, 4, 4), Ph(TRUE, 9, 164, 0, 2), Ph(TRUE, 3, 160, 2, 4),
          Ph(TRUE, 0, 160, 4, 2), Ph(FALSE, 0, 160, 2, 2)}

(* The table is at the end of the file, with headers of one byte. *)
Img(bad, phnum, phdrs) ==
    [bad |-> bad, entry |-> 160, phoff |-> Len(MCFile) - Len(phdrs), phnum |-> phnum,
     phdrs |-> phdrs, file |-> MCFile]

MCImages ==
    {Img({}, 1, <<p>>) : p \in SomePhdrs}
    \cup {Img({}, 2, <<p, q>>) : p, q \in PairPhdrs}
    \cup {Img({}, 2, <<p>>) : p \in {Ph(TRUE, 0, 160, 4, 4), Ph(FALSE, 0, 160, 2, 2)}}
    \cup {Img({1}, 0, <<>>), Img({2, 6}, 1, <<Ph(TRUE, 0, 160, 4, 4)>>), Img({}, 0, <<>>),
          [Img({}, 2, <<>>) EXCEPT !.phoff = USIZE - 1]}
=============================================================================
