------------------------------- MODULE Loader -------------------------------
(***************************************************************************)
(* The ELF loader, crates/simulatr-core/src/load/elf.rs, on top of the bus.  *)
(*                                                                         *)
(* An image is what load() reads of it: which header checks it fails, the  *)
(* entry, e_phnum, the program headers that lie in the file, and the bytes  *)
(* the segments point into.  One step is one iteration of the loop over    *)
(* the program headers; `before' remembers the RAM the load started from.  *)
(***************************************************************************)
EXTENDS Bus, FiniteSetsExt

CONSTANTS
    Images,                             \* the files that may be loaded
    PHDR_SIZE,                          \* 32 in the code
    USIZE,                              \* 2^w, of the host's usize
    MAX_LOADS                           \* bound on the number of loads

VARIABLES
    loading,                            \* is a load in progress?
    image,                              \* the image of this load, or of the last
    index, segments, bytes,             \* loop variable and LoadResult counters
    outcome,                            \* the Result of the last load
    loads, before                       \* number of loads, RAM before this one

loaderVars == <<loading, image, index, segments, bytes, outcome, loads, before>>

(* The checks of the ELF header, in the order they are made. *)
HeaderChecks == <<"Truncated", "NotAnElfFile", "NotElf32", "NotLittleEndian",
                  "NotAnExecutable", "NotXtensa", "BadProgramHeaderSize">>

Phdr == [load : BOOLEAN, offset : Nat, vaddr : Word, filesz : Word, memsz : Word]

Image == [bad : SUBSET (1 .. Len(HeaderChecks)), entry : Word, phoff : Nat, phnum : Nat,
          phdrs : Seq(Phdr), file : Seq(Byte)]

(* A usize holds what a u32 holds, and the length of a file.  `phdrs' has   *)
(* exactly the headers that lie in the file, one after the other.          *)
ASSUME HostAddressAssumption == USIZE \in Nat /\ USIZE >= WORD

ASSUME ImageAssumption ==
    /\ PHDR_SIZE \in 1 .. USIZE - 1 /\ Images \subseteq Image
    /\ \A img \in Images :
          /\ Len(img.file) < USIZE /\ img.phoff < USIZE
          /\ \A n \in DOMAIN img.phdrs : img.phdrs[n].offset < USIZE
          /\ \A n \in 1 .. img.phnum :
                n <= Len(img.phdrs) <=> img.phoff + PHDR_SIZE * n <= Len(img.file)

ASSUME LoadsAssumption == MAX_LOADS \in Nat

(* No RAM region begins where another one ends, nor where the address      *)
(* space does: what runs off the end of one is not taken on by another.    *)
ASSUME GapAssumption ==
    \A end \in {IRAM_BASE + IRAM_SIZE, DRAM_BASE + DRAM_SIZE} :
        WrapAdd(end, 0) \notin {IRAM_BASE, DRAM_BASE}

NoImage ==
    [bad |-> {}, entry |-> 0, phoff |-> 0, phnum |-> 0, phdrs |-> <<>>, file |-> <<>>]

-----------------------------------------------------------------------------
Return(result) ==
    /\ loading' = FALSE
    /\ outcome' = result
    /\ UNCHANGED <<image, loads, before>>

(* Two errors name the segment by its number, those of the bus the address *)
(* at fault, the others nothing.                                           *)

(* Mutant: segments are numbered from one. *)
ErrorFromOne(kind) == [kind |-> kind, index |-> index + 1]

Error(kind) == [kind |-> kind, index |-> index]
PlainError(kind) == [kind |-> kind]

(* load(): the header, which fails with the first check it does not pass. *)
BeginLoad(img) ==
    /\ ~ loading
    /\ image' = img /\ index' = 0 /\ segments' = 0 /\ bytes' = 0
    /\ loads' = loads + 1 /\ before' = ram
    /\ \/ img.bad = {} /\ loading' = TRUE /\ outcome' = [kind |-> "Pending"]
       \/ /\ img.bad # {} /\ loading' = FALSE
          /\ outcome' = PlainError(HeaderChecks[Min(img.bad)])
    /\ UNCHANGED busVars

(* slice::get(start .. start + len), of a slice of n bytes: the sum is a   *)
(* usize (and in a build with overflow checks it must not wrap), and a     *)
(* range that ends before it starts is out of bounds.                      *)
InSlice(start, len, n) ==
    LET end == (start + len) % USIZE IN start <= end /\ end <= n

(* The program header of this iteration; e_phnum may promise more of them  *)
(* than the file holds.                                                    *)
HeaderAt(img, n) == (img.phoff + PHDR_SIZE * n) % USIZE
HeaderInFile(img, n) == InSlice(HeaderAt(img, n), PHDR_SIZE, Len(img.file))
InTable == loading /\ index < image.phnum /\ HeaderInFile(image, index)
Segment == image.phdrs[index + 1]
Live(ph) == ph.load /\ ph.memsz > 0

TruncatedTable ==
    /\ loading /\ index < image.phnum /\ ~ HeaderInFile(image, index)
    /\ Return(PlainError("Truncated"))
    /\ UNCHANGED <<busVars, index, segments, bytes>>

(* Mutant: a `while' that does not count the segments it skips. *)
StuckSkip == InTable /\ ~ Live(Segment) /\ UNCHANGED <<busVars, loaderVars>>

SkipSegment ==
    /\ InTable /\ ~ Live(Segment)
    /\ index' = index + 1
    /\ UNCHANGED <<busVars, loading, image, segments, bytes, outcome, loads, before>>

SegmentMemorySizeTooSmall ==
    /\ InTable /\ Live(Segment) /\ Segment.memsz < Segment.filesz
    /\ Return(Error("SegmentMemorySizeTooSmall"))
    /\ UNCHANGED <<busVars, index, segments, bytes>>

(* Mutant: the file range is looked at even when it is empty. *)
AlwaysInFile(ph, file) == InSlice(ph.offset, ph.filesz, Len(file))

(* The file range is looked at only when it is not empty. *)
InFile(ph, file) == ph.filesz > 0 => InSlice(ph.offset, ph.filesz, Len(file))

SegmentFileRangeOutOfBounds ==
    /\ InTable /\ Live(Segment) /\ Segment.memsz >= Segment.filesz
    /\ ~ InFile(Segment, image.file)
    /\ Return(Error("SegmentFileRangeOutOfBounds"))
    /\ UNCHANGED <<busVars, index, segments, bytes>>

(* The bytes a segment takes from the file, and its .bss tail. *)
FilePart(ph, file) == SubSeq(file, ph.offset + 1, ph.offset + ph.filesz)
UnshiftedTailAddr(ph) == ph.vaddr      \* mutant: clears from the segment's start

TailAddr(ph) == WrapAdd(ph.vaddr, ph.filesz)
TailLen(ph) == ph.memsz - ph.filesz

FileReply(ph) == IF ph.filesz > 0 THEN BlockReply(ph.vaddr, ph.filesz) ELSE Ok(0)
TailReply(ph) == IF TailLen(ph) > 0 THEN BlockReply(TailAddr(ph), TailLen(ph)) ELSE Ok(0)

CopyFile(r, ph, file) ==
    IF ph.filesz > 0 THEN PutBlock(r, ph.vaddr, FilePart(ph, file)) ELSE r
ClearTail(r, ph) ==
    IF TailLen(ph) > 0 THEN PutBlock(r, TailAddr(ph), Zeros(TailLen(ph))) ELSE r

Sound == /\ InTable /\ Live(Segment) /\ Segment.memsz >= Segment.filesz
         /\ InFile(Segment, image.file)

(* write_block fails and nothing of the segment is written. *)
CopyFails ==
    /\ Sound /\ Failed(FileReply(Segment))
    /\ Return(FileReply(Segment))
    /\ UNCHANGED <<busVars, index, segments, bytes>>

(* Mutant: the segment is counted before its tail is cleared. *)
CountThenClearFails ==
    /\ Sound /\ ~ Failed(FileReply(Segment)) /\ Failed(TailReply(Segment))
    /\ ram' = CopyFile(ram, Segment, image.file)
    /\ bytes' = bytes + Segment.filesz
    /\ segments' = segments + 1
    /\ Return(TailReply(Segment))
    /\ UNCHANGED <<uart, index>>

(* zero_block fails once the file part of the segment is in RAM. *)
ClearFails ==
    /\ Sound /\ ~ Failed(FileReply(Segment)) /\ Failed(TailReply(Segment))
    /\ ram' = CopyFile(ram, Segment, image.file)
    /\ bytes' = bytes + Segment.filesz
    /\ Return(TailReply(Segment))
    /\ UNCHANGED <<uart, index, segments>>

PlaceSegment ==
    /\ Sound /\ ~ Failed(FileReply(Segment)) /\ ~ Failed(TailReply(Segment))
    /\ ram' = ClearTail(CopyFile(ram, Segment, image.file), Segment)
    /\ bytes' = bytes + Segment.filesz
    /\ segments' = segments + 1
    /\ index' = index + 1
    /\ UNCHANGED <<uart, loading, image, outcome, loads, before>>

FinishLoad ==
    /\ loading /\ index = image.phnum
    /\ Return(IF segments = 0 THEN PlainError("NoLoadableSegments")
              ELSE [kind |-> "Ok", entry |-> image.entry,
                    segments |-> segments, bytes |-> bytes])
    /\ UNCHANGED <<busVars, index, segments, bytes>>

LoadStep ==
    \/ TruncatedTable \/ SkipSegment \/ SegmentMemorySizeTooSmall
    \/ SegmentFileRangeOutOfBounds \/ CopyFails \/ ClearFails \/ PlaceSegment
    \/ FinishLoad

-----------------------------------------------------------------------------
LoaderInit ==
    /\ BusInit
    /\ loading = FALSE /\ image = NoImage /\ index = 0 /\ segments = 0 /\ bytes = 0
    /\ outcome = [kind |-> "None"] /\ loads = 0 /\ before = ram

LoaderNext == (loads < MAX_LOADS /\ \E img \in Images : BeginLoad(img)) \/ LoadStep

(* The loader is a loop in one thread: it goes on until it returns. *)
LoaderSpec ==
    LoaderInit /\ [][LoaderNext]_<<busVars, loaderVars>> /\ WF_<<busVars, loaderVars>>(LoadStep)

-----------------------------------------------------------------------------
LoaderTypeOK ==
    /\ BusTypeOK /\ before \in RamType
    /\ loading \in BOOLEAN /\ image \in Images \cup {NoImage}
    /\ index \in 0 .. image.phnum /\ segments \in 0 .. index /\ bytes \in Nat
    /\ loads \in 0 .. MAX_LOADS

RamAddr == Window(IRAM_BASE, IRAM_SIZE) \cup Window(DRAM_BASE, DRAM_SIZE)
ByteAt(r, a) == r[Decode(a).at][Decode(a).offset]

(* What segment ph puts at an address of its window. *)
SegmentByte(ph, file, a) ==
    IF a - ph.vaddr < ph.filesz THEN file[ph.offset + a - ph.vaddr + 1] ELSE 0

(* What the first n segments of img leave at address a of a RAM that held  *)
(* `old' there: the last segment that covers it decides.                   *)
Overlay(img, n, old, a) ==
    LET covers == {i \in 1 .. n : Live(img.phdrs[i])
                                  /\ a \in Window(img.phdrs[i].vaddr, img.phdrs[i].memsz)}
    IN  IF covers = {} THEN old
        ELSE SegmentByte(img.phdrs[Max(covers)], img.file, a)

(* The addresses written of a segment whose tail could not be cleared. *)
HalfPlaced ==
    IF ~ loading /\ outcome.kind \in ErrorKind /\ ~ Failed(FileReply(Segment))
    THEN Window(Segment.vaddr, Segment.filesz) ELSE {}

(* At every iteration, and after a load that failed half way, RAM is the   *)
(* RAM the load started from with the segments before `index' laid over it  *)
(* in order (and the file part of the one whose tail did not fit): later   *)
(* segments win, .bss is zero, nothing outside the image's segments moves. *)
RamIsOverlay ==
    loads > 0 =>
    \A a \in RamAddr :
        ByteAt(ram, a) =
            IF a \in HalfPlaced THEN SegmentByte(Segment, image.file, a)
            ELSE Overlay(image, index, ByteAt(before, a), a)

(* A segment is loadable when it is consistent and lies in one RAM region. *)
Loadable(ph, file) ==
    /\ ph.filesz <= ph.memsz /\ Window(ph.offset, ph.filesz) \subseteq 0 .. Len(file) - 1
    /\ \E part \in {Window(IRAM_BASE, IRAM_SIZE), Window(DRAM_BASE, DRAM_SIZE)} :
          Window(ph.vaddr, ph.memsz) \subseteq part

WellFormed(img) ==
    /\ img.bad = {} /\ img.phnum <= Len(img.phdrs)
    /\ \A i \in 1 .. img.phnum : Live(img.phdrs[i]) => Loadable(img.phdrs[i], img.file)
    /\ \E i \in 1 .. img.phnum : Live(img.phdrs[i])

(* load() returns Ok for exactly the images all of whose segments fit in a *)
(* RAM region whole, although it checks file part and tail apart and adds  *)
(* their addresses with wrap-around; and it counts what it placed.         *)
AcceptsExactlyWellFormed ==
    loads > 0 /\ ~ loading =>
        /\ (outcome.kind = "Ok") <=> WellFormed(image)
        /\ outcome.kind = "Ok" =>
              outcome.segments = Cardinality({i \in 1 .. image.phnum : Live(image.phdrs[i])})

(* A load that fails stops at the first segment, in table order, that is   *)
(* at fault, and the error names it, by its number or an address of its.   *)
ErrorNamesFirstBadSegment ==
    loads > 0 /\ ~ loading /\ image.bad = {}
    /\ outcome.kind \notin {"Ok", "Truncated", "NoLoadableSegments"} =>
        /\ index < Len(image.phdrs) /\ Live(Segment) /\ ~ Loadable(Segment, image.file)
        /\ \A i \in 1 .. index : Live(image.phdrs[i]) => Loadable(image.phdrs[i], image.file)
        /\ outcome.kind \in ErrorKind => outcome.addr \in {Segment.vaddr, TailAddr(Segment)}
        /\ outcome.kind \notin ErrorKind => outcome.index = index

(* Every load returns, whatever the image. *)
LoadReturns == loading ~> ~ loading

-----------------------------------------------------------------------------
(* The comment at elf.rs:185: a second load into the same machine must not *)
(* see the previous image's data.  After a load that succeeds, every byte  *)
(* the image does not provide is zero.                                     *)
SecondLoadIsClean ==
    loads > 0 /\ outcome.kind = "Ok" =>
        \A a \in RamAddr : ByteAt(ram, a) = Overlay(image, index, 0, a)

(* It is so of the first load, which finds RAM as Bus::new left it.        *)
FirstLoadIsClean == loads <= 1 => SecondLoadIsClean
=============================================================================
