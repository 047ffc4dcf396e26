---------------------------- MODULE LoaderProofs ----------------------------
(***************************************************************************)
(* What load() does for every set of images, every address map that meets  *)
(* the assumptions, and every width of the host's usize.                   *)
(***************************************************************************)
EXTENDS Loader, BusLemmas, FiniteSetTheorems

loaderAllVars == <<busVars, loaderVars>>

LEMMA SpaceSize == WORD \in Nat /\ WORD >= 16
<1> DEFINE sq == BYTE * BYTE
<1>1. sq \in Nat /\ sq >= 4
  <2>1. BYTE \in Nat /\ BYTE >= 2
    BY ByteAssumption
  <2>2. BYTE * (BYTE - 2) \in Nat /\ BYTE * BYTE = BYTE * (BYTE - 2) + 2 * BYTE
    BY <2>1
  <2> QED BY <2>1, <2>2
<1>2. ASSUME NEW m \in Nat, m >= 4 PROVE m * m \in Nat /\ m * m >= 16
  <2>1. m * (m - 4) \in Nat /\ m * m = m * (m - 4) + 4 * m
    BY <1>2
  <2> QED BY <1>2, <2>1
<1>3. WORD = sq * sq
  BY ByteAssumption DEF WORD
<1> HIDE DEF sq
<1> QED BY <1>1, <1>2, <1>3

(* A usize sum that wraps never makes a range look as if it were in a      *)
(* slice: the end would come before the start.                             *)
LEMMA SliceIsExact ==
    ASSUME NEW start \in 0 .. USIZE - 1, NEW len \in 0 .. USIZE - 1, NEW n \in 0 .. USIZE - 1
    PROVE  InSlice(start, len, n) <=> start + len <= n
<1>1. USIZE \in Nat /\ USIZE > 0
  BY HostAddressAssumption
<1>2. CASE start + len < USIZE
  <2>1. (start + len) % USIZE = start + len
    BY <1>1, <1>2
  <2> QED BY <1>1, <2>1 DEF InSlice
<1>3. CASE start + len >= USIZE
  <2>1. (start + len) % USIZE = start + len - USIZE
    BY <1>1, <1>3
  <2> QED BY <1>1, <1>3, <2>1 DEF InSlice
<1> QED BY <1>1, <1>2, <1>3

-----------------------------------------------------------------------------
(* The images, the empty one of a new machine included. *)
LEMMA ImageFacts ==
    ASSUME NEW img \in Images \cup {NoImage}
    PROVE  /\ img \in Image /\ img.phnum \in Nat /\ img.phoff \in 0 .. USIZE - 1
           /\ img.entry \in Word
           /\ img.file \in Seq(Byte) /\ Len(img.file) \in 0 .. USIZE - 1
           /\ img.phdrs \in Seq(Phdr) /\ Len(img.phdrs) \in Nat
           /\ \A n \in 1 .. Len(img.phdrs) :
                 /\ img.phdrs[n] \in Phdr
                 /\ img.phdrs[n].offset \in 0 .. USIZE - 1
           /\ \A n \in 1 .. img.phnum :
                 n <= Len(img.phdrs) <=> img.phoff + PHDR_SIZE * n <= Len(img.file)
<1>1. USIZE \in Nat /\ USIZE > 0 /\ 0 \in Word
  BY HostAddressAssumption, SpaceSize DEF Word
<1>2. CASE img \in Images
  <2>1. img \in Image
    BY <1>2, ImageAssumption
  <2>2. /\ img.phnum \in Nat /\ img.phoff \in Nat /\ img.file \in Seq(Byte)
        /\ img.entry \in Word /\ img.phdrs \in Seq(Phdr)
    BY <2>1 DEF Image
  <2>3. \A n \in 1 .. Len(img.phdrs) : img.phdrs[n] \in Phdr /\ img.phdrs[n].offset \in Nat
    <3>1. \A n \in 1 .. Len(img.phdrs) : img.phdrs[n] \in Phdr
      BY <2>2
    <3>2. \A ph \in Phdr : ph.offset \in Nat
      BY DEF Phdr
    <3> QED BY <3>1, <3>2
  <2>4. /\ Len(img.file) < USIZE /\ img.phoff < USIZE
        /\ \A n \in DOMAIN img.phdrs : img.phdrs[n].offset < USIZE
        /\ \A n \in 1 .. img.phnum :
              n <= Len(img.phdrs) <=> img.phoff + PHDR_SIZE * n <= Len(img.file)
    BY <1>2, ImageAssumption
  <2> QED BY <1>1, <2>1, <2>2, <2>3, <2>4
<1>3. CASE img = NoImage
  <2>1. img.phdrs = <<>> /\ img.file = <<>> /\ img.phnum = 0 /\ img.phoff = 0 /\ img.bad = {}
        /\ img.entry = 0
    BY <1>3 DEF NoImage
  <2>2. img \in Image
    BY <1>1, <1>3 DEF NoImage, Image
  <2> QED BY <1>1, <2>1, <2>2
<1> QED BY <1>2, <1>3

LEMMA PhdrFacts ==
    ASSUME NEW ph \in Phdr
    PROVE  /\ ph.load \in BOOLEAN /\ ph.offset \in Nat
           /\ ph.vaddr \in Word /\ ph.filesz \in Word /\ ph.memsz \in Word
           /\ ph.vaddr \in Nat /\ ph.filesz \in Nat /\ ph.memsz \in Nat
           /\ ph.filesz < USIZE
BY HostAddressAssumption, WordFacts DEF Phdr, Word

(* The loop stops at the first program header that is not in the file,     *)
(* although the address of a header may wrap.                              *)
LEMMA HeaderIsExact ==
    ASSUME NEW img \in Images \cup {NoImage},
           NEW n \in Nat, n < img.phnum, n <= Len(img.phdrs)
    PROVE  HeaderInFile(img, n) <=> n < Len(img.phdrs)
<1> DEFINE at == img.phoff + PHDR_SIZE * n
<1>1. /\ USIZE \in Nat /\ PHDR_SIZE \in 1 .. USIZE - 1
      /\ PHDR_SIZE * n \in Nat /\ PHDR_SIZE * (n + 1) = PHDR_SIZE * n + PHDR_SIZE
  BY HostAddressAssumption, ImageAssumption
<1>2. at \in 0 .. USIZE - 1
  <2>1. CASE n = 0
    BY <1>1, <2>1, ImageFacts
  <2>2. CASE n > 0
    <3>1. n \in 1 .. img.phnum
      BY <2>2, ImageFacts
    <3>2. img.phoff + PHDR_SIZE * n <= Len(img.file)
      BY <3>1, ImageFacts
    <3>3. at \in Nat /\ Len(img.file) \in 0 .. USIZE - 1
      BY <1>1, ImageFacts
    <3> QED BY <1>1, <3>2, <3>3
  <2> QED BY <2>1, <2>2
<1>3. HeaderAt(img, n) = at
  <2> HIDE DEF at
  <2>1. at % USIZE = at
    BY <1>1, <1>2
  <2> QED BY <2>1 DEF HeaderAt, at
<1>4. HeaderInFile(img, n) <=> at + PHDR_SIZE <= Len(img.file)
  <2> HIDE DEF at
  <2> QED BY <1>1, <1>2, <1>3, ImageFacts, SliceIsExact DEF HeaderInFile
<1>5. n + 1 \in 1 .. img.phnum
  BY ImageFacts
<1>6. n + 1 <= Len(img.phdrs) <=> img.phoff + PHDR_SIZE * (n + 1) <= Len(img.file)
  BY <1>5, ImageFacts
<1> QED BY <1>1, <1>4, <1>6, ImageFacts

(* The file range of a segment, if it has one, lies in the file. *)
LEMMA InFileIsExact ==
    ASSUME NEW img \in Images \cup {NoImage}, NEW n \in 1 .. Len(img.phdrs)
    PROVE  LET ph == img.phdrs[n] IN
           InFile(ph, img.file) <=> (ph.filesz > 0 => ph.offset + ph.filesz <= Len(img.file))
<1> DEFINE ph == img.phdrs[n]
<1>1. ph \in Phdr /\ ph.offset \in 0 .. USIZE - 1
  BY ImageFacts
<1>2. ph.filesz \in 0 .. USIZE - 1
  BY <1>1, PhdrFacts, HostAddressAssumption
<1> HIDE DEF ph
<1> QED BY <1>1, <1>2, ImageFacts, SliceIsExact DEF InFile, ph

-----------------------------------------------------------------------------
(* The invariant of the loop: LoaderTypeOK, no iteration has gone past the  *)
(* headers that are in the file, and there is no Result before the end.    *)
LoaderInv ==
    /\ LoaderTypeOK
    /\ index <= Len(image.phdrs)
    /\ loading => outcome.kind = "Pending"

LEMMA BeginLoadType ==
    ASSUME LoaderInv, loads < MAX_LOADS, NEW img \in Images, BeginLoad(img)
    PROVE  LoaderInv'
<1>1. img.phnum \in Nat /\ Len(img.phdrs) \in Nat
  BY ImageFacts
<1>2. loads + 1 \in 0 .. MAX_LOADS
  BY LoadsAssumption DEF LoaderInv, LoaderTypeOK
<1>3. /\ image' = img /\ index' = 0 /\ segments' = 0 /\ bytes' = 0 /\ loads' = loads + 1
      /\ before' = ram /\ loading' \in BOOLEAN /\ UNCHANGED <<ram, uart>>
  BY DEF BeginLoad, busVars
<1>5. loading' => outcome' = [kind |-> "Pending"]
  BY DEF BeginLoad
<1>4. BusTypeOK' /\ before' \in RamType
  BY <1>3 DEF LoaderInv, LoaderTypeOK, BusTypeOK
<1> QED BY <1>1, <1>2, <1>3, <1>4, <1>5 DEF LoaderInv, LoaderTypeOK

(* The segment of an iteration, once its header has been read. *)
LEMMA SegmentFacts ==
    ASSUME LoaderInv, InTable
    PROVE  /\ image \in Images \cup {NoImage}
           /\ index \in Nat /\ index < image.phnum
           /\ index + 1 \in 1 .. Len(image.phdrs)
           /\ Segment = image.phdrs[index + 1] /\ Segment \in Phdr
<1>1. image \in Images \cup {NoImage} /\ index \in 0 .. image.phnum /\ index < image.phnum
  BY DEF LoaderInv, LoaderTypeOK, InTable
<1>2. index \in Nat /\ image.phnum \in Nat /\ Len(image.phdrs) \in Nat
  BY <1>1, ImageFacts
<1>3. index < Len(image.phdrs)
  BY <1>1, <1>2, HeaderIsExact DEF LoaderInv, InTable
<1> QED BY <1>1, <1>2, <1>3, ImageFacts DEF Segment

(* What the loader copies and clears is bytes. *)
LEMMA PartTypes ==
    ASSUME LoaderInv, Sound, NEW r \in RamType
    PROVE  /\ CopyFile(r, Segment, image.file) \in RamType
           /\ ClearTail(r, Segment) \in RamType
<1>1. InTable /\ InFile(Segment, image.file) /\ Segment.memsz >= Segment.filesz
  BY DEF Sound
<1>2. /\ image.file \in Seq(Byte) /\ Len(image.file) \in Nat /\ Segment \in Phdr
      /\ (Segment.filesz > 0 => Segment.offset + Segment.filesz <= Len(image.file))
  BY <1>1, SegmentFacts, ImageFacts, InFileIsExact
<1>3. /\ Segment.offset \in Nat /\ Segment.vaddr \in Word
      /\ Segment.filesz \in Nat /\ Segment.memsz \in Nat /\ Segment.filesz \in Word
  BY <1>2, PhdrFacts
<1>4. CopyFile(r, Segment, image.file) \in RamType
  <2>1. CASE Segment.filesz > 0
    <3>1. FilePart(Segment, image.file) \in Seq(Byte)
      BY <1>2, <1>3, <2>1 DEF FilePart
    <3> QED BY <1>3, <2>1, <3>1, PutBlockType DEF CopyFile
  <2>2. CASE ~ (Segment.filesz > 0)
    BY <2>2 DEF CopyFile
  <2> QED BY <2>1, <2>2
<1>5. ClearTail(r, Segment) \in RamType
  <2>1. TailAddr(Segment) \in Word
    BY <1>3, SpaceSize DEF TailAddr, WrapAdd, Word
  <2>2. CASE TailLen(Segment) > 0
    <3>1. TailLen(Segment) \in Nat /\ 0 \in Byte
      BY <1>1, <1>3, ByteAssumption DEF TailLen, Byte
    <3>2. Zeros(TailLen(Segment)) \in Seq(Byte)
      BY <3>1 DEF Zeros
    <3> QED BY <2>1, <2>2, <3>2, PutBlockType DEF ClearTail
  <2>3. CASE ~ (TailLen(Segment) > 0)
    BY <2>3 DEF ClearTail
  <2> QED BY <2>2, <2>3
<1> QED BY <1>4, <1>5

LEMMA LoadStepType ==
    ASSUME LoaderInv, LoadStep
    PROVE  LoaderInv'
<1>0. /\ ram \in RamType /\ uart \in UartType /\ before \in RamType
      /\ image \in Images \cup {NoImage} /\ index \in 0 .. image.phnum
      /\ segments \in 0 .. index /\ bytes \in Nat /\ loads \in 0 .. MAX_LOADS
      /\ index <= Len(image.phdrs) /\ image.phnum \in Nat /\ Len(image.phdrs) \in Nat
  BY ImageFacts DEF LoaderInv, LoaderTypeOK, BusTypeOK
<1>1. ASSUME NEW result, Return(result), UNCHANGED <<uart, index, segments>>,
             ram' \in RamType, bytes' \in Nat
      PROVE  LoaderInv'
  BY <1>0, <1>1 DEF Return, LoaderInv, LoaderTypeOK, BusTypeOK
<1>2. CASE TruncatedTable \/ SegmentMemorySizeTooSmall \/ SegmentFileRangeOutOfBounds
           \/ CopyFails \/ FinishLoad
  BY <1>0, <1>1, <1>2 DEF TruncatedTable, SegmentMemorySizeTooSmall,
     SegmentFileRangeOutOfBounds, CopyFails, FinishLoad, busVars
<1>3. CASE SkipSegment
  <2>1. index + 1 \in 0 .. image.phnum /\ index + 1 <= Len(image.phdrs)
    BY <1>0, <1>3, SegmentFacts DEF SkipSegment
  <2> QED BY <1>0, <1>3, <2>1 DEF SkipSegment, LoaderInv, LoaderTypeOK, BusTypeOK, busVars
<1>4. CASE ClearFails
  <2>1. Sound /\ Segment.filesz \in Nat
    BY <1>4, SegmentFacts, PhdrFacts DEF ClearFails, Sound
  <2>2. CopyFile(ram, Segment, image.file) \in RamType
    BY <1>0, <2>1, PartTypes
  <2> QED BY <1>0, <1>1, <1>4, <2>1, <2>2 DEF ClearFails
<1>5. CASE PlaceSegment
  <2>1. Sound /\ Segment.filesz \in Nat
    BY <1>5, SegmentFacts, PhdrFacts DEF PlaceSegment, Sound
  <2>2. CopyFile(ram, Segment, image.file) \in RamType
    BY <1>0, <2>1, PartTypes
  <2>3. ram' \in RamType
    BY <1>5, <2>1, <2>2, PartTypes DEF PlaceSegment
  <2>4. index + 1 \in 0 .. image.phnum /\ index + 1 <= Len(image.phdrs)
    BY <1>0, <2>1, SegmentFacts DEF Sound
  <2>5. /\ UNCHANGED <<uart, loading, image, loads, before>> /\ index' = index + 1
        /\ segments' = segments + 1 /\ bytes' = bytes + Segment.filesz
    BY <1>5 DEF PlaceSegment
  <2>6. segments' \in 0 .. index' /\ bytes' \in Nat
    BY <1>0, <2>1, <2>5
  <2>7. BusTypeOK'
    BY <1>0, <2>3, <2>5 DEF BusTypeOK
  <2>8. /\ loading' \in BOOLEAN /\ image' = image /\ loads' = loads /\ before' = before
        /\ loading' => outcome'.kind = "Pending"
    BY <1>5, <2>5 DEF PlaceSegment, LoaderInv, LoaderTypeOK
  <2> HIDE DEF Return
  <2> QED BY <1>0, <2>4, <2>5, <2>6, <2>7, <2>8 DEF LoaderInv, LoaderTypeOK
<1> QED BY <1>2, <1>3, <1>4, <1>5 DEF LoadStep

LEMMA LoaderInitType == LoaderInit => LoaderInv
<1> SUFFICES ASSUME LoaderInit PROVE LoaderInv
  OBVIOUS
<1>1. 0 \in Byte /\ IRAM_SIZE \in Nat /\ DRAM_SIZE \in Nat
  BY ByteAssumption, MapAssumption DEF Byte, WholeWords
<1>2. ram \in RamType /\ uart \in UartType
  BY <1>1 DEF LoaderInit, BusInit, RamType, UartType
<1>3. NoImage.phnum = 0 /\ NoImage.phdrs = <<>>
  BY DEF NoImage
<1>4. 0 \in 0 .. MAX_LOADS
  BY LoadsAssumption
<1>5. /\ loading = FALSE /\ image = NoImage /\ index = 0 /\ segments = 0 /\ bytes = 0
      /\ loads = 0 /\ before = ram
  BY DEF LoaderInit
<1>6. index \in 0 .. image.phnum /\ index <= Len(image.phdrs) /\ segments \in 0 .. index
  BY <1>3, <1>5
<1> QED BY <1>2, <1>4, <1>5, <1>6 DEF LoaderInv, LoaderTypeOK, BusTypeOK

(* Whatever images are loaded, one after the other: RAM stays made of      *)
(* bytes, no segment is counted that has not been placed, and the loop     *)
(* never reads a header that is not there.                                 *)
LEMMA LoaderInductive == LoaderSpec => []LoaderInv
<1>1. LoaderInv /\ [LoaderNext]_loaderAllVars => LoaderInv'
  <2> SUFFICES ASSUME LoaderInv, [LoaderNext]_loaderAllVars PROVE LoaderInv'
    OBVIOUS
  <2>1. CASE LoadStep
    BY <2>1, LoadStepType
  <2>2. CASE loads < MAX_LOADS /\ \E img \in Images : BeginLoad(img)
    BY <2>2, BeginLoadType
  <2>3. CASE UNCHANGED loaderAllVars
    BY <2>3 DEF loaderAllVars, loaderVars, busVars, LoaderInv, LoaderTypeOK, BusTypeOK
  <2> QED BY <2>1, <2>2, <2>3 DEF LoaderNext
<1> QED BY <1>1, LoaderInitType, PTL DEF LoaderSpec, loaderAllVars

THEOREM LoaderTyping == LoaderSpec => []LoaderTypeOK
<1>1. LoaderInv => LoaderTypeOK
  BY DEF LoaderInv
<1> QED BY <1>1, LoaderInductive, PTL

-----------------------------------------------------------------------------
(* The addresses of the map, as the arithmetic below needs them. *)
LEMMA MapFacts ==
    /\ WORD \in Nat
    /\ IRAM_BASE \in Nat /\ IRAM_SIZE \in Nat /\ IRAM_SIZE > 0 /\ IRAM_BASE + IRAM_SIZE <= WORD
    /\ DRAM_BASE \in Nat /\ DRAM_SIZE \in Nat /\ DRAM_SIZE > 0 /\ DRAM_BASE + DRAM_SIZE <= WORD
    /\ IRAM_BASE + IRAM_SIZE <= DRAM_BASE \/ DRAM_BASE + DRAM_SIZE <= IRAM_BASE
BY MapAssumption, DisjointAssumption, SpaceSize DEF WholeWords, Disjoint

(* `len' bytes from addr lie in a region that begins at base. *)
Inside(base, size, addr, len) == base <= addr /\ addr < base + size /\ addr + len <= base + size

LEMMA InsideIsSubset ==
    ASSUME NEW base \in Nat, NEW size \in Nat, NEW addr \in Nat, NEW len \in Nat, len > 0
    PROVE  Inside(base, size, addr, len) <=> Window(addr, len) \subseteq Window(base, size)
<1>1. ASSUME Inside(base, size, addr, len)
      PROVE  Window(addr, len) \subseteq Window(base, size)
  BY <1>1 DEF Inside, Window
<1>2. ASSUME Window(addr, len) \subseteq Window(base, size)
      PROVE  Inside(base, size, addr, len)
  <2>1. addr \in Window(addr, len) /\ addr + len - 1 \in Window(addr, len)
    BY DEF Window
  <2>2. addr \in Window(base, size) /\ addr + len - 1 \in Window(base, size)
    BY <1>2, <2>1
  <2> QED BY <2>2 DEF Inside, Window
<1> QED BY <1>1, <1>2

(* A block is accepted when it lies in one region. *)
LEMMA BlockFits ==
    ASSUME NEW addr \in Word, NEW len \in Nat
    PROVE  ~ Failed(BlockReply(addr, len)) <=>
               \/ Inside(IRAM_BASE, IRAM_SIZE, addr, len)
               \/ Inside(DRAM_BASE, DRAM_SIZE, addr, len)
<1>0. addr \in Nat
  BY SpaceSize DEF Word
<1>1. CASE addr \in Window(IRAM_BASE, IRAM_SIZE)
           /\ Decode(addr) = [at |-> "Iram", offset |-> addr - IRAM_BASE]
  BY <1>0, <1>1, MapFacts
  DEF BlockReply, Region, RegionSize, Failed, Err, Ok, Inside, Window
<1>2. CASE addr \in Window(DRAM_BASE, DRAM_SIZE)
           /\ Decode(addr) = [at |-> "Dram", offset |-> addr - DRAM_BASE]
  BY <1>0, <1>2, MapFacts
  DEF BlockReply, Region, RegionSize, Failed, Err, Ok, Inside, Window
<1>3. CASE /\ Decode(addr).at \notin Region
           /\ addr \notin Window(IRAM_BASE, IRAM_SIZE) /\ addr \notin Window(DRAM_BASE, DRAM_SIZE)
  BY <1>0, <1>3, MapFacts DEF BlockReply, Failed, Err, Inside, Window
<1>4. addr \notin Window(IRAM_BASE, IRAM_SIZE) /\ addr \notin Window(DRAM_BASE, DRAM_SIZE)
         => Decode(addr).at \notin Region
  BY <1>0, DecodeCases DEF Region
<1> QED BY <1>1, <1>2, <1>3, <1>4, DecodeIsMap

(* The file part and the tail of a segment, checked apart and with an      *)
(* address that wraps, fit where the whole segment does.                   *)
LEMMA PartsFit ==
    ASSUME NEW v \in Word, NEW f \in Nat, NEW m \in Nat, f <= m, m > 0, f < WORD
    PROVE  (/\ f > 0 => ~ Failed(BlockReply(v, f))
            /\ m - f > 0 => ~ Failed(BlockReply(WrapAdd(v, f), m - f)))
           <=> (\/ Inside(IRAM_BASE, IRAM_SIZE, v, m)
                \/ Inside(DRAM_BASE, DRAM_SIZE, v, m))
<1> DEFINE t == WrapAdd(v, f)
<1>0. v \in Nat /\ v < WORD /\ t \in Word /\ t \in Nat
  BY SpaceSize DEF Word, WrapAdd
<1>1. t = IF v + f >= WORD THEN v + f - WORD ELSE v + f
  BY DEF WrapAdd
<1>2. m - f \in Nat
  OBVIOUS
<1> HIDE DEF t
<1>3. /\ f > 0 => (~ Failed(BlockReply(v, f)) <=>
               \/ Inside(IRAM_BASE, IRAM_SIZE, v, f)
               \/ Inside(DRAM_BASE, DRAM_SIZE, v, f))
      /\ ~ Failed(BlockReply(t, m - f)) <=>
               \/ Inside(IRAM_BASE, IRAM_SIZE, t, m - f)
               \/ Inside(DRAM_BASE, DRAM_SIZE, t, m - f)
  BY <1>0, <1>2, BlockFits
<1>4. /\ IRAM_BASE + IRAM_SIZE # DRAM_BASE /\ DRAM_BASE + DRAM_SIZE # IRAM_BASE
      /\ IRAM_BASE + IRAM_SIZE = WORD => IRAM_BASE # 0 /\ DRAM_BASE # 0
      /\ DRAM_BASE + DRAM_SIZE = WORD => IRAM_BASE # 0 /\ DRAM_BASE # 0
  <2>1. /\ WrapAdd(IRAM_BASE + IRAM_SIZE, 0) \notin {IRAM_BASE, DRAM_BASE}
        /\ WrapAdd(DRAM_BASE + DRAM_SIZE, 0) \notin {IRAM_BASE, DRAM_BASE}
    BY GapAssumption
  <2> QED BY <2>1, MapFacts DEF WrapAdd
<1>5. CASE f = 0
  BY <1>0, <1>1, <1>3, <1>5, MapFacts DEF Inside, t
<1>6. CASE f = m
  BY <1>0, <1>1, <1>3, <1>6, MapFacts DEF Inside, t
<1>7. CASE 0 < f /\ f < m
  <2>1. ASSUME Inside(IRAM_BASE, IRAM_SIZE, v, m) \/ Inside(DRAM_BASE, DRAM_SIZE, v, m)
        PROVE  /\ Inside(IRAM_BASE, IRAM_SIZE, v, f) \/ Inside(DRAM_BASE, DRAM_SIZE, v, f)
               /\ Inside(IRAM_BASE, IRAM_SIZE, t, m - f) \/ Inside(DRAM_BASE, DRAM_SIZE, t, m - f)
    BY <1>0, <1>1, <1>7, <2>1, MapFacts DEF Inside
  <2>2. ASSUME Inside(IRAM_BASE, IRAM_SIZE, v, f) \/ Inside(DRAM_BASE, DRAM_SIZE, v, f),
               Inside(IRAM_BASE, IRAM_SIZE, t, m - f) \/ Inside(DRAM_BASE, DRAM_SIZE, t, m - f)
        PROVE  Inside(IRAM_BASE, IRAM_SIZE, v, m) \/ Inside(DRAM_BASE, DRAM_SIZE, v, m)
    BY <1>0, <1>1, <1>4, <1>7, <2>2, MapFacts DEF Inside
  <2> QED BY <1>3, <1>7, <2>1, <2>2 DEF t
<1> QED BY <1>0, <1>5, <1>6, <1>7

(* A segment whose header is consistent is placed when it is loadable. *)
LEMMA SegmentFits ==
    ASSUME NEW ph \in Phdr, Live(ph), ph.filesz <= ph.memsz
    PROVE  ~ Failed(FileReply(ph)) /\ ~ Failed(TailReply(ph)) <=>
               \E part \in {Window(IRAM_BASE, IRAM_SIZE), Window(DRAM_BASE, DRAM_SIZE)} :
                  Window(ph.vaddr, ph.memsz) \subseteq part
<1> DEFINE v == ph.vaddr
           f == ph.filesz
           m == ph.memsz
<1>1. /\ v \in Word /\ v \in Nat /\ f \in Nat /\ m \in Nat /\ f <= m /\ m > 0 /\ f < WORD
  BY PhdrFacts, SpaceSize DEF Live, Word
<1>2. /\ ~ Failed(FileReply(ph)) <=> (f > 0 => ~ Failed(BlockReply(v, f)))
      /\ ~ Failed(TailReply(ph)) <=> (m - f > 0 => ~ Failed(BlockReply(WrapAdd(v, f), m - f)))
  BY DEF FileReply, TailReply, TailLen, TailAddr, Failed, Ok
<1> HIDE DEF v, f, m
<1>3. Inside(IRAM_BASE, IRAM_SIZE, v, m) <=> Window(v, m) \subseteq Window(IRAM_BASE, IRAM_SIZE)
  BY <1>1, MapFacts, InsideIsSubset
<1>4. Inside(DRAM_BASE, DRAM_SIZE, v, m) <=> Window(v, m) \subseteq Window(DRAM_BASE, DRAM_SIZE)
  BY <1>1, MapFacts, InsideIsSubset
<1>5. ~ Failed(FileReply(ph)) /\ ~ Failed(TailReply(ph)) <=>
          \/ Inside(IRAM_BASE, IRAM_SIZE, v, m)
          \/ Inside(DRAM_BASE, DRAM_SIZE, v, m)
  BY <1>1, <1>2, PartsFit
<1> QED BY <1>3, <1>4, <1>5 DEF v, m

(* The tests of an iteration are together the test for a loadable segment. *)
LEMMA LoadableIsExact ==
    ASSUME NEW img \in Images \cup {NoImage}, NEW n \in 1 .. Len(img.phdrs),
           Live(img.phdrs[n])
    PROVE  LET ph == img.phdrs[n] IN
           Loadable(ph, img.file) <=>
               /\ ph.memsz >= ph.filesz /\ InFile(ph, img.file)
               /\ ~ Failed(FileReply(ph)) /\ ~ Failed(TailReply(ph))
<1> DEFINE ph == img.phdrs[n]
<1>1. /\ ph \in Phdr /\ ph.offset \in Nat /\ Len(img.file) \in Nat
      /\ ph.filesz \in Nat /\ ph.memsz \in Nat
  BY ImageFacts, PhdrFacts
<1>2. InFile(ph, img.file) <=> (ph.filesz > 0 => ph.offset + ph.filesz <= Len(img.file))
  BY InFileIsExact
<1> HIDE DEF ph
<1>3. InFile(ph, img.file) <=> Window(ph.offset, ph.filesz) \subseteq 0 .. Len(img.file) - 1
  <2>1. CASE ph.filesz = 0
    BY <1>1, <1>2, <2>1 DEF Window
  <2>2. CASE ph.filesz > 0
    <3>1. ph.offset + ph.filesz - 1 \in Window(ph.offset, ph.filesz)
      BY <1>1, <2>2 DEF Window
    <3>2. (Window(ph.offset, ph.filesz) \subseteq 0 .. Len(img.file) - 1)
             => ph.offset + ph.filesz <= Len(img.file)
      BY <1>1, <3>1
    <3>3. ph.offset + ph.filesz <= Len(img.file)
             => (Window(ph.offset, ph.filesz) \subseteq 0 .. Len(img.file) - 1)
      BY <1>1 DEF Window
    <3> QED BY <1>2, <2>2, <3>2, <3>3
  <2> QED BY <1>1, <2>1, <2>2
<1>4. ph.filesz <= ph.memsz =>
        (~ Failed(FileReply(ph)) /\ ~ Failed(TailReply(ph)) <=>
            \E part \in {Window(IRAM_BASE, IRAM_SIZE), Window(DRAM_BASE, DRAM_SIZE)} :
               Window(ph.vaddr, ph.memsz) \subseteq part)
  BY <1>1, SegmentFits DEF ph
<1> QED BY <1>1, <1>3, <1>4 DEF Loadable, ph

-----------------------------------------------------------------------------
(* The first header check that fails has a name, which is no success and   *)
(* no error of a segment.                                                  *)
LEMMA HeaderErrors ==
    ASSUME NEW bad \in SUBSET (1 .. Len(HeaderChecks)), bad # {}
    PROVE  HeaderChecks[Min(bad)] \notin {"Ok"} \cup ErrorKind
<1>1. Len(HeaderChecks) = 7
  BY DEF HeaderChecks
<1>2. \E x \in bad : \A y \in bad : x <= y
  <2>1. bad \subseteq 1 .. 7
    BY <1>1
  <2>2. CASE 1 \in bad
    BY <2>1, <2>2
  <2>3. CASE 1 \notin bad /\ 2 \in bad
    BY <2>1, <2>3
  <2>4. CASE 1 \notin bad /\ 2 \notin bad /\ 3 \in bad
    BY <2>1, <2>4
  <2>5. CASE 1 \notin bad /\ 2 \notin bad /\ 3 \notin bad /\ 4 \in bad
    BY <2>1, <2>5
  <2>6. CASE 1 \notin bad /\ 2 \notin bad /\ 3 \notin bad /\ 4 \notin bad /\ 5 \in bad
    BY <2>1, <2>6
  <2>7. CASE bad \subseteq {6, 7}
    <3>1. CASE 6 \in bad
      BY <2>7, <3>1
    <3>2. CASE 6 \notin bad
      <4>1. PICK x \in bad : TRUE
        OBVIOUS
      <4>2. \A y \in bad : y = 7
        BY <2>7, <3>2
      <4> QED BY <4>1, <4>2
    <3> QED BY <3>1, <3>2
  <2> QED BY <2>1, <2>2, <2>3, <2>4, <2>5, <2>6, <2>7
<1>3. Min(bad) \in 1 .. 7
  BY <1>1, <1>2 DEF Min
<1>4. HeaderChecks[Min(bad)] \in {"Truncated", "NotAnElfFile", "NotElf32", "NotLittleEndian",
                                  "NotAnExecutable", "NotXtensa", "BadProgramHeaderSize"}
  BY <1>3 DEF HeaderChecks
<1> QED BY <1>4 DEF ErrorKind

-----------------------------------------------------------------------------
LiveUpTo(img, n) == {i \in 1 .. n : Live(img.phdrs[i])}
LoadableUpTo(img, n) ==
    \A i \in 1 .. n : Live(img.phdrs[i]) => Loadable(img.phdrs[i], img.file)

(* While a load goes on, every segment so far was loadable and has been    *)
(* counted; when it is over its Result says what there is to say.          *)
ResultInv ==
    /\ loading => /\ loads > 0 /\ image.bad = {}
                  /\ LoadableUpTo(image, index)
                  /\ segments = Cardinality(LiveUpTo(image, index))
    /\ AcceptsExactlyWellFormed
    /\ ErrorNamesFirstBadSegment

LEMMA LiveCount ==
    ASSUME NEW img, NEW n \in Nat
    PROVE  /\ Cardinality(LiveUpTo(img, n)) \in Nat
           /\ Cardinality(LiveUpTo(img, n)) = 0 <=> LiveUpTo(img, n) = {}
           /\ Live(img.phdrs[n + 1]) =>
                 Cardinality(LiveUpTo(img, n + 1)) = Cardinality(LiveUpTo(img, n)) + 1
           /\ ~ Live(img.phdrs[n + 1]) => LiveUpTo(img, n + 1) = LiveUpTo(img, n)
<1> DEFINE S == LiveUpTo(img, n)
<1>1. IsFiniteSet(S)
  <2>1. IsFiniteSet(1 .. n) /\ S \subseteq 1 .. n
    BY FS_Interval DEF LiveUpTo
  <2> QED BY <2>1, FS_Subset
<1>2. n + 1 \notin S
  BY DEF LiveUpTo
<1>3. Live(img.phdrs[n + 1]) => LiveUpTo(img, n + 1) = S \cup {n + 1}
  BY DEF LiveUpTo
<1>4. ~ Live(img.phdrs[n + 1]) => LiveUpTo(img, n + 1) = S
  BY DEF LiveUpTo
<1> HIDE DEF S
<1>5. Cardinality(S \cup {n + 1}) = Cardinality(S) + 1
  BY <1>1, <1>2, FS_AddElement
<1>6. Cardinality(S) \in Nat /\ (Cardinality(S) = 0 <=> S = {})
  BY <1>1, FS_CardinalityType, FS_EmptySet
<1> QED BY <1>3, <1>4, <1>5, <1>6 DEF S

(* A load that stops at a segment which is at fault, and says so. *)
LEMMA BadSegment ==
    ASSUME LoaderInv, ResultInv, InTable, Live(Segment), ~ Loadable(Segment, image.file),
           NEW result, Return(result), UNCHANGED index, result.kind # "Ok",
           result.kind \in ErrorKind => result.addr \in {Segment.vaddr, TailAddr(Segment)},
           result.kind \notin ErrorKind => result.index = index
    PROVE  ResultInv'
<1>1. /\ loading' = FALSE /\ outcome' = result /\ image' = image /\ loads' = loads
      /\ index' = index /\ Segment' = Segment
  BY DEF Return, Segment
<1>2. /\ index + 1 \in 1 .. Len(image.phdrs) /\ Segment = image.phdrs[index + 1]
      /\ index \in Nat /\ index < image.phnum /\ image.phnum \in Nat /\ Len(image.phdrs) \in Nat
  BY SegmentFacts, ImageFacts
<1>3. ~ WellFormed(image)
  <2>1. index + 1 \in 1 .. image.phnum
    BY <1>2
  <2> QED BY <1>2, <2>1 DEF WellFormed
<1>4. AcceptsExactlyWellFormed'
  BY <1>1, <1>3 DEF AcceptsExactlyWellFormed
<1>5. LoadableUpTo(image, index)
  BY DEF ResultInv, InTable
<1>6. ErrorNamesFirstBadSegment'
  BY <1>1, <1>2, <1>5 DEF ErrorNamesFirstBadSegment, LoadableUpTo
<1> QED BY <1>1, <1>4, <1>6 DEF ResultInv

LEMMA SegmentFaultStep ==
    ASSUME LoaderInv, ResultInv,
           SegmentMemorySizeTooSmall \/ SegmentFileRangeOutOfBounds \/ CopyFails \/ ClearFails
    PROVE  ResultInv'
<1>1. InTable /\ Live(Segment) /\ UNCHANGED index
  BY DEF SegmentMemorySizeTooSmall, SegmentFileRangeOutOfBounds, CopyFails, ClearFails, Sound
<1>2. Loadable(Segment, image.file) <=>
          /\ Segment.memsz >= Segment.filesz /\ InFile(Segment, image.file)
          /\ ~ Failed(FileReply(Segment)) /\ ~ Failed(TailReply(Segment))
  BY <1>1, SegmentFacts, LoadableIsExact
<1>3. Segment.memsz \in Nat /\ Segment.filesz \in Nat
  BY <1>1, SegmentFacts, PhdrFacts
<1>4. CASE SegmentMemorySizeTooSmall
  <2>1. Error("SegmentMemorySizeTooSmall").kind \notin {"Ok"} \cup ErrorKind
        /\ Error("SegmentMemorySizeTooSmall").index = index
    BY DEF Error, ErrorKind
  <2> QED BY <1>1, <1>2, <1>3, <1>4, <2>1, BadSegment DEF SegmentMemorySizeTooSmall
<1>5. CASE SegmentFileRangeOutOfBounds
  <2>1. Error("SegmentFileRangeOutOfBounds").kind \notin {"Ok"} \cup ErrorKind
        /\ Error("SegmentFileRangeOutOfBounds").index = index
    BY DEF Error, ErrorKind
  <2> QED BY <1>1, <1>2, <1>5, <2>1, BadSegment DEF SegmentFileRangeOutOfBounds
<1>6. CASE CopyFails
  <2>1. Failed(FileReply(Segment)) =>
            FileReply(Segment).kind \in ErrorKind /\ FileReply(Segment).addr = Segment.vaddr
    BY DEF FileReply, BlockReply, Failed, Err, Ok, ErrorKind
  <2> QED BY <1>1, <1>2, <1>6, <2>1, BadSegment DEF CopyFails, Failed
<1>7. CASE ClearFails
  <2>1. Failed(TailReply(Segment)) =>
            TailReply(Segment).kind \in ErrorKind /\ TailReply(Segment).addr = TailAddr(Segment)
    BY DEF TailReply, BlockReply, Failed, Err, Ok, ErrorKind
  <2> QED BY <1>1, <1>2, <1>7, <2>1, BadSegment DEF ClearFails, Failed
<1> QED BY <1>4, <1>5, <1>6, <1>7

LEMMA ResultStep ==
    ASSUME LoaderInv, ResultInv, [LoaderNext]_loaderAllVars
    PROVE  ResultInv'
<1>0. /\ index \in Nat /\ image.phnum \in Nat /\ Len(image.phdrs) \in Nat
      /\ index <= image.phnum /\ index <= Len(image.phdrs) /\ loads \in Nat
      /\ image \in Images \cup {NoImage}
  BY ImageFacts, LoadsAssumption DEF LoaderInv, LoaderTypeOK
<1>1. ASSUME NEW img \in Images, BeginLoad(img) PROVE ResultInv'
  <2>1. image' = img /\ index' = 0 /\ segments' = 0 /\ loads' = loads + 1 /\ loads' > 0
    BY <1>0, <1>1 DEF BeginLoad
  <2>2. CASE img.bad = {} /\ loading' = TRUE
    <3>1. LoadableUpTo(img, 0) /\ LiveUpTo(img, 0) = {}
      BY DEF LoadableUpTo, LiveUpTo
    <3>2. segments' = Cardinality(LiveUpTo(image', index'))
      BY <2>1, <3>1, FS_EmptySet
    <3> QED BY <2>1, <2>2, <3>1, <3>2
         DEF ResultInv, AcceptsExactlyWellFormed, ErrorNamesFirstBadSegment
  <2>3. CASE /\ img.bad # {} /\ loading' = FALSE
             /\ outcome' = PlainError(HeaderChecks[Min(img.bad)])
    <3>1. img.bad \in SUBSET (1 .. Len(HeaderChecks))
      BY ImageAssumption DEF Image
    <3>2. outcome'.kind # "Ok"
      BY <2>3, <3>1, HeaderErrors DEF PlainError
    <3> QED BY <2>1, <2>3, <3>2
         DEF ResultInv, AcceptsExactlyWellFormed, ErrorNamesFirstBadSegment, WellFormed
  <2> QED BY <1>1, <2>2, <2>3 DEF BeginLoad
<1>2. CASE SegmentMemorySizeTooSmall \/ SegmentFileRangeOutOfBounds \/ CopyFails \/ ClearFails
  BY <1>2, SegmentFaultStep
<1>3. CASE TruncatedTable
  <2>1. loading /\ index < image.phnum /\ ~ HeaderInFile(image, index)
        /\ loading' = FALSE /\ outcome'.kind = "Truncated" /\ image' = image
    BY <1>3 DEF TruncatedTable, Return, PlainError
  <2>2. ~ (image.phnum <= Len(image.phdrs))
    BY <1>0, <2>1, HeaderIsExact
  <2>3. ~ WellFormed(image)
    BY <2>2 DEF WellFormed
  <2> QED BY <2>1, <2>3 DEF ResultInv, AcceptsExactlyWellFormed, ErrorNamesFirstBadSegment
<1>4. CASE SkipSegment
  <2>1. /\ loading /\ loading' /\ index' = index + 1 /\ UNCHANGED <<image, segments, loads>>
        /\ ~ Live(image.phdrs[index + 1])
    BY <1>4 DEF SkipSegment, InTable, Segment
  <2>2. LiveUpTo(image, index + 1) = LiveUpTo(image, index)
    BY <1>0, <2>1, LiveCount
  <2>3. LoadableUpTo(image, index + 1)
    <3>1. LoadableUpTo(image, index)
      BY <2>1 DEF ResultInv
    <3>2. \A i \in 1 .. index + 1 : i \in 1 .. index \/ i = index + 1
      BY <1>0
    <3> QED BY <2>1, <3>1, <3>2 DEF LoadableUpTo
  <2> QED BY <2>1, <2>2, <2>3
       DEF ResultInv, AcceptsExactlyWellFormed, ErrorNamesFirstBadSegment
<1>5. CASE PlaceSegment
  <2>1. /\ loading /\ loading' /\ index' = index + 1 /\ segments' = segments + 1
        /\ UNCHANGED <<image, loads>> /\ Sound
        /\ ~ Failed(FileReply(Segment)) /\ ~ Failed(TailReply(Segment))
    BY <1>5 DEF PlaceSegment, Sound, InTable
  <2>2. /\ Live(image.phdrs[index + 1]) /\ Loadable(image.phdrs[index + 1], image.file)
    BY <2>1, SegmentFacts, LoadableIsExact DEF Sound
  <2>3. segments' = Cardinality(LiveUpTo(image, index + 1))
    BY <1>0, <2>1, <2>2, LiveCount DEF ResultInv
  <2>4. LoadableUpTo(image, index + 1)
    BY <1>0, <2>1, <2>2 DEF ResultInv, LoadableUpTo
  <2> QED BY <2>1, <2>3, <2>4
       DEF ResultInv, AcceptsExactlyWellFormed, ErrorNamesFirstBadSegment
<1>6. CASE FinishLoad
  <2>1. /\ loading /\ index = image.phnum /\ loading' = FALSE /\ image' = image /\ loads' = loads
        /\ outcome' = IF segments = 0 THEN PlainError("NoLoadableSegments")
                      ELSE [kind |-> "Ok", entry |-> image.entry,
                            segments |-> segments, bytes |-> bytes]
    BY <1>6 DEF FinishLoad, Return
  <2>2. /\ image.bad = {} /\ LoadableUpTo(image, image.phnum)
        /\ segments = Cardinality(LiveUpTo(image, image.phnum))
    BY <2>1 DEF ResultInv
  <2>3. WellFormed(image) <=> segments # 0
    <3>1. segments = 0 <=> LiveUpTo(image, image.phnum) = {}
      BY <1>0, <2>2, LiveCount
    <3>2. image.phnum <= Len(image.phdrs)
      BY <1>0, <2>1
    <3>3. (\E k \in 1 .. image.phnum : Live(image.phdrs[k]))
             <=> LiveUpTo(image, image.phnum) # {}
      BY DEF LiveUpTo
    <3> QED BY <2>2, <3>1, <3>2, <3>3 DEF WellFormed, LoadableUpTo
  <2>4. /\ outcome'.kind = "Ok" <=> segments # 0
        /\ outcome'.kind \in {"Ok", "NoLoadableSegments"}
        /\ segments # 0 => outcome'.segments = segments
    BY <2>1 DEF PlainError
  <2> QED BY <2>1, <2>2, <2>3, <2>4
       DEF ResultInv, AcceptsExactlyWellFormed, ErrorNamesFirstBadSegment, LiveUpTo
<1>7. CASE UNCHANGED loaderAllVars
  BY <1>7 DEF loaderAllVars, loaderVars, ResultInv, AcceptsExactlyWellFormed,
              ErrorNamesFirstBadSegment, Segment
<1> QED BY <1>1, <1>2, <1>3, <1>4, <1>5, <1>6, <1>7 DEF LoaderNext, LoadStep

LEMMA ResultInductive == LoaderSpec => []ResultInv
<1>1. LoaderInit => ResultInv
  BY DEF LoaderInit, ResultInv, AcceptsExactlyWellFormed, ErrorNamesFirstBadSegment
<1> QED BY <1>1, ResultStep, LoaderInductive, PTL DEF LoaderSpec, loaderAllVars

(* An image is accepted exactly when each of its segments fits whole.      *)
THEOREM AcceptanceIsExact == LoaderSpec => []AcceptsExactlyWellFormed
<1>1. ResultInv => AcceptsExactlyWellFormed
  BY DEF ResultInv
<1> QED BY <1>1, ResultInductive, PTL

(* The error of a load is about the first segment that is at fault.        *)
THEOREM ErrorsNameFirst == LoaderSpec => []ErrorNamesFirstBadSegment
<1>1. ResultInv => ErrorNamesFirstBadSegment
  BY DEF ResultInv
<1> QED BY <1>1, ResultInductive, PTL

-----------------------------------------------------------------------------
(* What a block written to one region leaves at each address of RAM.       *)
LEMMA PutByte ==
    ASSUME NEW r \in RamType, NEW addr \in Word, NEW data \in Seq(Byte),
           ~ Failed(BlockReply(addr, Len(data))), NEW a \in RamAddr
    PROVE  ByteAt(PutBlock(r, addr, data), a) =
               IF a \in Window(addr, Len(data)) THEN data[a - addr + 1] ELSE ByteAt(r, a)
<1> DEFINE to == Decode(addr)
           of == Decode(a)
<1>0. addr \in Nat /\ a \in Nat /\ a \in Word /\ Len(data) \in Nat
  BY MapFacts DEF Word, RamAddr, Window
<1>1. /\ to.at \in Region /\ to.offset + Len(data) <= RegionSize(to.at)
      /\ \/ to.at = "Iram" /\ addr \in Window(IRAM_BASE, IRAM_SIZE) /\ to.offset = addr - IRAM_BASE
         \/ to.at = "Dram" /\ addr \in Window(DRAM_BASE, DRAM_SIZE) /\ to.offset = addr - DRAM_BASE
  <2>1. to.at \in Region
    BY DEF BlockReply, Failed, Err
  <2>2. ~ (to.offset + Len(data) > RegionSize(to.at))
    BY <2>1 DEF BlockReply, Failed, Err
  <2>3. \/ to.at = "Iram" /\ addr \in Window(IRAM_BASE, IRAM_SIZE) /\ to.offset = addr - IRAM_BASE
        \/ to.at = "Dram" /\ addr \in Window(DRAM_BASE, DRAM_SIZE) /\ to.offset = addr - DRAM_BASE
    BY <2>1, DecodeCases DEF Region
  <2>4. to.offset \in Int /\ RegionSize(to.at) \in Int
    BY <1>0, <2>3, MapFacts DEF RegionSize
  <2> HIDE DEF to
  <2> QED BY <1>0, <2>1, <2>2, <2>3, <2>4
<1>2. \/ of.at = "Iram" /\ a \in Window(IRAM_BASE, IRAM_SIZE) /\ of.offset = a - IRAM_BASE
      \/ of.at = "Dram" /\ a \in Window(DRAM_BASE, DRAM_SIZE) /\ of.offset = a - DRAM_BASE
  BY <1>0, DecodeIsMap DEF RamAddr
<1>3. of.at \in Region /\ of.offset \in DOMAIN r[of.at] /\ of.at \in DOMAIN r
  BY <1>0, <1>2, MapFacts DEF RamType, Region, Window
<1>4. PutBlock(r, addr, data) =
        [r EXCEPT ![to.at] =
            [x \in DOMAIN r[to.at] |->
                IF to.offset <= x /\ x < to.offset + Len(data)
                THEN data[x - to.offset + 1] ELSE r[to.at][x]]]
  BY DEF PutBlock
<1> HIDE DEF to, of
<1>5. CASE of.at # to.at
  <2>1. ByteAt(PutBlock(r, addr, data), a) = ByteAt(r, a)
    BY <1>3, <1>4, <1>5 DEF ByteAt, of
  <2>2. a \notin Window(addr, Len(data))
    BY <1>0, <1>1, <1>2, <1>5, MapFacts DEF Window, RegionSize
  <2> QED BY <2>1, <2>2
<1>6. CASE of.at = to.at
  <2>1. ByteAt(PutBlock(r, addr, data), a) =
            IF to.offset <= of.offset /\ of.offset < to.offset + Len(data)
            THEN data[of.offset - to.offset + 1] ELSE r[to.at][of.offset]
    BY <1>3, <1>4, <1>6 DEF ByteAt, of
  <2>2. of.offset - to.offset = a - addr /\ of.offset \in Int /\ to.offset \in Int
    BY <1>0, <1>1, <1>2, <1>6, MapFacts
  <2>3. a \in Window(addr, Len(data))
            <=> to.offset <= of.offset /\ of.offset < to.offset + Len(data)
    BY <1>0, <2>2 DEF Window
  <2> QED BY <1>6, <2>1, <2>2, <2>3 DEF ByteAt, of
<1> QED BY <1>5, <1>6

(* The file part of a segment, and then all of it.                         *)
LEMMA CopiedBytes ==
    ASSUME LoaderInv, Sound, ~ Failed(FileReply(Segment)),
           NEW r \in RamType, NEW a \in RamAddr
    PROVE  ByteAt(CopyFile(r, Segment, image.file), a) =
               IF a \in Window(Segment.vaddr, Segment.filesz)
               THEN SegmentByte(Segment, image.file, a) ELSE ByteAt(r, a)
<1> DEFINE v == Segment.vaddr
           f == Segment.filesz
           o == Segment.offset
           file == image.file
<1>1. /\ v \in Word /\ v \in Nat /\ f \in Nat /\ o \in Nat /\ file \in Seq(Byte)
      /\ (f > 0 => o + f <= Len(file))
  BY SegmentFacts, ImageFacts, PhdrFacts, InFileIsExact DEF Sound
<1>2. CASE f = 0
  <2>1. Window(v, f) = {}
    BY <1>1, <1>2 DEF Window
  <2> QED BY <1>2, <2>1 DEF CopyFile
<1>3. CASE f > 0
  <2> DEFINE part == FilePart(Segment, file)
  <2>1. /\ part \in Seq(Byte) /\ Len(part) = f
        /\ \A k \in 1 .. f : part[k] = file[o + k]
    <3>1. ASSUME NEW s \in Seq(Byte), NEW n \in Nat, NEW l \in Nat, n + l <= Len(s)
          PROVE  /\ SubSeq(s, n + 1, n + l) \in Seq(Byte) /\ Len(SubSeq(s, n + 1, n + l)) = l
                 /\ \A k \in 1 .. l : SubSeq(s, n + 1, n + l)[k] = s[n + k]
      BY <3>1
    <3>2. part = SubSeq(file, o + 1, o + f)
      BY DEF FilePart
    <3> HIDE DEF part, o, f, file
    <3> QED BY <1>1, <1>3, <3>1, <3>2
  <2>2. ~ Failed(BlockReply(v, Len(part)))
    BY <1>3, <2>1 DEF FileReply
  <2>3. CopyFile(r, Segment, file) = PutBlock(r, v, part)
    BY <1>3 DEF CopyFile
  <2> HIDE DEF part
  <2>4. ByteAt(PutBlock(r, v, part), a) =
            IF a \in Window(v, f) THEN part[a - v + 1] ELSE ByteAt(r, a)
    BY <1>1, <2>1, <2>2, PutByte
  <2>5. a \in Window(v, f) => part[a - v + 1] = SegmentByte(Segment, file, a)
    <3> SUFFICES ASSUME a \in Window(v, f) PROVE part[a - v + 1] = SegmentByte(Segment, file, a)
      OBVIOUS
    <3>1. a - v + 1 \in 1 .. f /\ a - v < f /\ o + (a - v + 1) = o + a - v + 1
      BY <1>1 DEF Window
    <3>2. part[a - v + 1] = file[o + (a - v + 1)]
      BY <2>1, <3>1
    <3> QED BY <3>1, <3>2 DEF SegmentByte
  <2> QED BY <2>3, <2>4, <2>5
<1> QED BY <1>1, <1>2, <1>3

LEMMA PlacedBytes ==
    ASSUME LoaderInv, Sound, ~ Failed(FileReply(Segment)), ~ Failed(TailReply(Segment)),
           NEW r \in RamType, NEW a \in RamAddr
    PROVE  ByteAt(ClearTail(CopyFile(r, Segment, image.file), Segment), a) =
               IF a \in Window(Segment.vaddr, Segment.memsz)
               THEN SegmentByte(Segment, image.file, a) ELSE ByteAt(r, a)
<1> DEFINE v == Segment.vaddr
           f == Segment.filesz
           m == Segment.memsz
           copied == CopyFile(r, Segment, image.file)
<1>1. /\ Segment \in Phdr /\ v \in Word /\ v \in Nat /\ f \in Nat /\ m \in Nat
      /\ f <= m /\ m > 0 /\ f < WORD /\ Live(Segment) /\ a \in Nat
  BY SegmentFacts, PhdrFacts, MapFacts DEF Sound, Live, Word, RamAddr, Window
<1>2. copied \in RamType
  BY PartTypes
<1>3. ByteAt(copied, a) = IF a \in Window(v, f) THEN SegmentByte(Segment, image.file, a)
                          ELSE ByteAt(r, a)
  BY CopiedBytes
<1>4. CASE m = f
  BY <1>1, <1>3, <1>4 DEF ClearTail, TailLen
<1>5. CASE f < m
  <2> DEFINE t == TailAddr(Segment)
  <2>1. v + m <= WORD
    <3>1. \/ Inside(IRAM_BASE, IRAM_SIZE, v, m)
          \/ Inside(DRAM_BASE, DRAM_SIZE, v, m)
      <4>1. f > 0 => ~ Failed(BlockReply(v, f))
        BY DEF FileReply
      <4>2. m - f > 0 => ~ Failed(BlockReply(WrapAdd(v, f), m - f))
        BY DEF TailReply, TailLen, TailAddr
      <4> QED BY <1>1, <4>1, <4>2, PartsFit
    <3> QED BY <1>1, <3>1, MapFacts DEF Inside
  <2>2. t = v + f /\ t \in Word
    BY <1>1, <1>5, <2>1, MapFacts DEF TailAddr, WrapAdd, Word
  <2>3. /\ Zeros(m - f) \in Seq(Byte) /\ Len(Zeros(m - f)) = m - f
        /\ \A k \in 1 .. m - f : Zeros(m - f)[k] = 0
    <3>1. 0 \in Byte /\ m - f \in Nat
      BY <1>1, ByteAssumption DEF Byte
    <3> HIDE DEF m, f
    <3> QED BY <3>1 DEF Zeros
  <2>4. ~ Failed(BlockReply(t, m - f)) /\ ClearTail(copied, Segment) = PutBlock(copied, t, Zeros(m - f))
    BY <1>1, <1>5 DEF TailReply, TailLen, ClearTail
  <2> HIDE DEF copied, t
  <2>5. ByteAt(PutBlock(copied, t, Zeros(m - f)), a) =
            IF a \in Window(t, m - f) THEN Zeros(m - f)[a - t + 1] ELSE ByteAt(copied, a)
    BY <1>2, <2>2, <2>3, <2>4, PutByte
  <2>6. CASE a \in Window(t, m - f)
    <3>1. a - t + 1 \in 1 .. m - f /\ a \in Window(v, m) /\ ~ (a - v < f)
      BY <1>1, <1>5, <2>2, <2>6 DEF Window
    <3> QED BY <2>3, <2>4, <2>5, <2>6, <3>1 DEF SegmentByte, copied
  <2>7. CASE a \notin Window(t, m - f)
    <3>1. a \in Window(v, m) <=> a \in Window(v, f)
      BY <1>1, <1>5, <2>2, <2>7 DEF Window
    <3> QED BY <1>3, <2>4, <2>5, <2>7, <3>1 DEF copied
  <2> QED BY <2>6, <2>7
<1> QED BY <1>1, <1>4, <1>5

(* One more segment is laid over the others. *)
LEMMA OverlayStep ==
    ASSUME NEW img, NEW n \in Nat, NEW old, NEW a
    PROVE  LET ph == img.phdrs[n + 1] IN
           Overlay(img, n + 1, old, a) =
               IF Live(ph) /\ a \in Window(ph.vaddr, ph.memsz)
               THEN SegmentByte(ph, img.file, a) ELSE Overlay(img, n, old, a)
<1> DEFINE ph == img.phdrs[n + 1]
           covers(k) == {i \in 1 .. k : Live(img.phdrs[i])
                            /\ a \in Window(img.phdrs[i].vaddr, img.phdrs[i].memsz)}
<1>1. CASE Live(ph) /\ a \in Window(ph.vaddr, ph.memsz)
  <2>1. n + 1 \in covers(n + 1) /\ \A y \in covers(n + 1) : y \in Nat /\ n + 1 >= y
    BY <1>1
  <2>2. Max(covers(n + 1)) = n + 1
    <3>1. \A x \in covers(n + 1) : (\A y \in covers(n + 1) : x >= y) => x = n + 1
      BY <2>1
    <3> HIDE DEF covers
    <3> QED BY <2>1, <3>1 DEF Max
  <2> QED BY <1>1, <2>1, <2>2 DEF Overlay
<1>2. CASE ~ (Live(ph) /\ a \in Window(ph.vaddr, ph.memsz))
  <2>1. covers(n + 1) = covers(n)
    BY <1>2
  <2> QED BY <1>2, <2>1 DEF Overlay
<1> QED BY <1>1, <1>2

LEMMA EmptyOverlay ==
    ASSUME NEW img, NEW old, NEW a
    PROVE  Overlay(img, 0, old, a) = old
BY DEF Overlay

(* What is in RAM between two loads is nothing to the next one.            *)
LEMMA OverlayRamStep ==
    ASSUME LoaderInv, ResultInv, loading => RamIsOverlay, LoaderNext
    PROVE  RamIsOverlay'
<1>0. /\ index \in Nat /\ ram \in RamType
      /\ loading => loads > 0 /\ HalfPlaced = {}
  BY ImageFacts DEF LoaderInv, LoaderTypeOK, BusTypeOK, ResultInv, HalfPlaced
<1>1. ASSUME loading, NEW a \in RamAddr
      PROVE  ByteAt(ram, a) = Overlay(image, index, ByteAt(before, a), a)
  BY <1>0, <1>1 DEF RamIsOverlay
<1>2. ASSUME NEW img \in Images, BeginLoad(img) PROVE RamIsOverlay'
  <2>1. image' = img /\ index' = 0 /\ ram' = ram /\ before' = ram
    BY <1>2 DEF BeginLoad, busVars
  <2>2. HalfPlaced' = {}
    <3>1. CASE loading' = TRUE
      BY <3>1 DEF HalfPlaced
    <3>2. CASE img.bad # {} /\ outcome' = PlainError(HeaderChecks[Min(img.bad)])
      <4>1. outcome'.kind \notin ErrorKind
        BY <3>2, ImageAssumption, HeaderErrors DEF Image, PlainError
      <4> QED BY <4>1 DEF HalfPlaced
    <3> QED BY <1>2, <3>1, <3>2 DEF BeginLoad
  <2> QED BY <2>1, <2>2, EmptyOverlay DEF RamIsOverlay
<1>3. CASE TruncatedTable \/ SegmentMemorySizeTooSmall \/ SegmentFileRangeOutOfBounds
           \/ FinishLoad \/ CopyFails
  <2>1. loading /\ UNCHANGED <<ram, image, index, before>>
    BY <1>3 DEF TruncatedTable, SegmentMemorySizeTooSmall, SegmentFileRangeOutOfBounds,
       FinishLoad, CopyFails, Sound, InTable, Return, busVars
  <2>2. HalfPlaced' = {}
    <3>1. CASE CopyFails
      <4>1. Failed(FileReply(Segment')) /\ Segment' = Segment
        BY <2>1, <3>1 DEF CopyFails, Segment
      <4> QED BY <4>1 DEF HalfPlaced
    <3>2. CASE TruncatedTable \/ SegmentMemorySizeTooSmall \/ SegmentFileRangeOutOfBounds
               \/ FinishLoad
      <4>1. outcome'.kind \notin ErrorKind
        BY <3>2 DEF TruncatedTable, SegmentMemorySizeTooSmall, SegmentFileRangeOutOfBounds,
           FinishLoad, Return, PlainError, Error, ErrorKind
      <4> QED BY <4>1 DEF HalfPlaced
    <3> QED BY <1>3, <3>1, <3>2
  <2> QED BY <1>1, <2>1, <2>2 DEF RamIsOverlay
<1>4. CASE SkipSegment
  <2>1. /\ loading /\ loading' /\ index' = index + 1 /\ UNCHANGED <<ram, image, before>>
        /\ ~ Live(image.phdrs[index + 1])
    BY <1>4 DEF SkipSegment, InTable, Segment, busVars
  <2>2. ASSUME NEW a \in RamAddr
        PROVE  ByteAt(ram, a) = Overlay(image, index + 1, ByteAt(before, a), a)
    BY <1>0, <1>1, <2>1, OverlayStep
  <2>3. HalfPlaced' = {}
    BY <2>1 DEF HalfPlaced
  <2> QED BY <2>1, <2>2, <2>3 DEF RamIsOverlay
<1>5. CASE PlaceSegment
  <2>1. /\ loading /\ loading' /\ index' = index + 1 /\ UNCHANGED <<image, before>> /\ Sound
        /\ ~ Failed(FileReply(Segment)) /\ ~ Failed(TailReply(Segment))
        /\ ram' = ClearTail(CopyFile(ram, Segment, image.file), Segment)
        /\ Live(Segment) /\ Segment = image.phdrs[index + 1]
    BY <1>5 DEF PlaceSegment, Sound, InTable, Segment
  <2>2. ASSUME NEW a \in RamAddr
        PROVE  ByteAt(ram', a) = Overlay(image, index + 1, ByteAt(before, a), a)
    <3>1. ByteAt(ram', a) = IF a \in Window(Segment.vaddr, Segment.memsz)
                            THEN SegmentByte(Segment, image.file, a) ELSE ByteAt(ram, a)
      BY <1>0, <2>1, PlacedBytes
    <3> QED BY <1>0, <1>1, <2>1, <3>1, OverlayStep
  <2>3. HalfPlaced' = {}
    BY <2>1 DEF HalfPlaced
  <2> QED BY <2>1, <2>2, <2>3 DEF RamIsOverlay
<1>6. CASE ClearFails
  <2>1. /\ loading /\ ~ loading' /\ UNCHANGED <<image, before, index>> /\ Sound
        /\ ~ Failed(FileReply(Segment)) /\ outcome' = TailReply(Segment)
        /\ ram' = CopyFile(ram, Segment, image.file) /\ Segment' = Segment
        /\ Failed(TailReply(Segment))
    BY <1>6 DEF ClearFails, Sound, InTable, Segment, Return
  <2>2. outcome'.kind \in ErrorKind
    BY <2>1 DEF TailReply, BlockReply, Failed, Err, Ok, ErrorKind
  <2>3. HalfPlaced' = Window(Segment.vaddr, Segment.filesz)
    BY <2>1, <2>2 DEF HalfPlaced
  <2>4. ASSUME NEW a \in RamAddr
        PROVE  ByteAt(ram', a) = IF a \in Window(Segment.vaddr, Segment.filesz)
                                 THEN SegmentByte(Segment, image.file, a) ELSE ByteAt(ram, a)
    BY <1>0, <2>1, CopiedBytes
  <2> QED BY <1>1, <2>1, <2>3, <2>4 DEF RamIsOverlay
<1> QED BY <1>2, <1>3, <1>4, <1>5, <1>6 DEF LoaderNext, LoadStep

(* Segments are laid over the RAM that was there, in order, to the byte:   *)
(* whatever the image, after every iteration and after a load that failed. *)
THEOREM LoadsLayOver == LoaderSpec => []RamIsOverlay
<1>1. LoaderInit => RamIsOverlay
  BY DEF LoaderInit, RamIsOverlay
<1>2. LoaderInv /\ ResultInv /\ RamIsOverlay /\ [LoaderNext]_loaderAllVars => RamIsOverlay'
  <2>1. UNCHANGED loaderAllVars /\ RamIsOverlay => RamIsOverlay'
    BY DEF loaderAllVars, loaderVars, busVars, RamIsOverlay, HalfPlaced, Segment
  <2> QED BY <2>1, OverlayRamStep
<1> QED BY <1>1, <1>2, LoaderInductive, ResultInductive, PTL
        DEF LoaderSpec, loaderAllVars
-----------------------------------------------------------------------------
(* RAM is as Bus::new left it until the first load, which starts from it.  *)
Blank(r) == \A a \in RamAddr : ByteAt(r, a) = 0
FreshInv == (loads = 0 => Blank(ram)) /\ (loads <= 1 => Blank(before))

LEMMA BlankAtFirst == BusInit => Blank(ram)
<1> SUFFICES ASSUME BusInit, NEW a \in RamAddr PROVE ByteAt(ram, a) = 0
  BY DEF Blank
<1>1. a \in Nat /\ a \in Word
  BY MapFacts DEF Word, RamAddr, Window
<1>2. \/ /\ Decode(a).at = "Iram" /\ Decode(a).offset \in 0 .. IRAM_SIZE - 1
      \/ /\ Decode(a).at = "Dram" /\ Decode(a).offset \in 0 .. DRAM_SIZE - 1
  BY <1>1, DecodeIsMap, MapFacts DEF RamAddr, Window
<1>3. /\ ram["Iram"] = [n \in 0 .. IRAM_SIZE - 1 |-> 0]
      /\ ram["Dram"] = [n \in 0 .. DRAM_SIZE - 1 |-> 0]
  BY DEF BusInit, Region, RegionSize
<1>4. CASE Decode(a).at = "Iram" /\ Decode(a).offset \in 0 .. IRAM_SIZE - 1
  BY <1>3, <1>4 DEF ByteAt
<1>5. CASE Decode(a).at = "Dram" /\ Decode(a).offset \in 0 .. DRAM_SIZE - 1
  BY <1>3, <1>5 DEF ByteAt
<1> QED BY <1>2, <1>4, <1>5

LEMMA FreshStep ==
    ASSUME LoaderInv, ResultInv, FreshInv, LoaderNext
    PROVE  FreshInv'
<1>0. loads \in Nat
  BY LoadsAssumption DEF LoaderInv, LoaderTypeOK
<1>1. ASSUME NEW img \in Images, BeginLoad(img) PROVE FreshInv'
  <2>1. loads' = loads + 1 /\ before' = ram
    BY <1>1 DEF BeginLoad
  <2> QED BY <1>0, <2>1 DEF FreshInv, Blank
<1>2. CASE LoadStep
  <2>1. loading /\ UNCHANGED <<loads, before>>
    BY <1>2 DEF LoadStep, TruncatedTable, SkipSegment, SegmentMemorySizeTooSmall,
       SegmentFileRangeOutOfBounds, CopyFails, ClearFails, PlaceSegment, FinishLoad,
       Sound, InTable, Return
  <2>2. loads > 0
    BY <2>1 DEF ResultInv
  <2> QED BY <1>0, <2>1, <2>2 DEF FreshInv, Blank
<1> QED BY <1>1, <1>2 DEF LoaderNext

(* The first load into a new machine leaves every byte that its image does *)
(* not provide zero: what the comment at elf.rs:185 promises of every load *)
(* holds of this one.                                                      *)
THEOREM FirstLoadFindsZeros == LoaderSpec => []FirstLoadIsClean
<1>1. LoaderInit => FreshInv
  BY BlankAtFirst DEF LoaderInit, FreshInv
<1>2. LoaderInv /\ ResultInv /\ FreshInv /\ [LoaderNext]_loaderAllVars => FreshInv'
  <2>1. UNCHANGED loaderAllVars /\ FreshInv => FreshInv'
    BY DEF loaderAllVars, loaderVars, busVars, FreshInv, Blank
  <2> QED BY <2>1, FreshStep
<1>3. LoaderInv /\ RamIsOverlay /\ FreshInv => FirstLoadIsClean
  <2> SUFFICES ASSUME RamIsOverlay, FreshInv, loads <= 1, loads > 0,
                      outcome.kind = "Ok", NEW a \in RamAddr
               PROVE  ByteAt(ram, a) = Overlay(image, index, 0, a)
    BY DEF FirstLoadIsClean, SecondLoadIsClean
  <2>1. HalfPlaced = {} /\ ByteAt(before, a) = 0
    BY DEF HalfPlaced, ErrorKind, FreshInv, Blank
  <2> QED BY <2>1 DEF RamIsOverlay
<1> QED BY <1>1, <1>2, <1>3, LoaderInductive, ResultInductive, LoadsLayOver, PTL
        DEF LoaderSpec, loaderAllVars
=============================================================================
