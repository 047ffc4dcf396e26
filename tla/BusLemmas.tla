----------------------------- MODULE BusLemmas ------------------------------
(***************************************************************************)
(* Lemmas about the address map and the operations of the bus, for every   *)
(* address map that meets the assumptions of Esp32.                        *)
(***************************************************************************)
EXTENDS Bus, TLAPS

(* The address space is a set of naturals, and every region is inside it. *)
LEMMA WordFacts ==
    /\ BYTE \in Nat /\ WORD \in Nat
    /\ \A i \in 0 .. 3 : Weight(i) \in Nat /\ Weight(i) >= 1
    /\ Weight(0) = 1 /\ Weight(1) = BYTE /\ Weight(2) = BYTE * BYTE
    /\ Weight(3) = BYTE * BYTE * BYTE
<1>1. BYTE \in Nat /\ BYTE >= 2
  BY ByteAssumption
<1>2. BYTE * BYTE \in Nat /\ BYTE * BYTE >= 1
  BY <1>1
<1>3. BYTE * BYTE * BYTE \in Nat /\ BYTE * BYTE * BYTE >= 1
  <2> DEFINE sq == BYTE * BYTE
  <2>1. sq \in Nat /\ sq >= 1
    BY <1>2
  <2>2. sq * BYTE \in Nat /\ sq * BYTE >= 1
    <3> HIDE DEF sq
    <3> QED BY <1>1, <2>1
  <2> QED BY <2>2
<1>4. WORD \in Nat
  BY <1>1, <1>3 DEF WORD
<1>5. Weight(0) = 1 /\ Weight(1) = BYTE /\ Weight(2) = BYTE * BYTE
      /\ Weight(3) = BYTE * BYTE * BYTE
  BY DEF Weight
<1> QED BY <1>1, <1>2, <1>3, <1>4, <1>5

(* The two's-complement trick of decode(): subtracting with wrap-around    *)
(* and comparing once tests both ends of a region.                         *)
LEMMA CoversIsMembership ==
    ASSUME NEW base, NEW size, WholeWords(base, size), NEW addr \in Word
    PROVE  Covers(base, size, addr) <=> addr \in Window(base, size)
BY WordFacts DEF WholeWords, Word, Covers, WrapSub, Window

(* decode() is the map the profile declares: each address lands in the one *)
(* region that contains it, at its distance from the region's base.        *)
LEMMA DecodeIsMap ==
    ASSUME NEW addr \in Word
    PROVE  /\ addr \in Window(IRAM_BASE, IRAM_SIZE) =>
                Decode(addr) = [at |-> "Iram", offset |-> addr - IRAM_BASE]
           /\ addr \in Window(DRAM_BASE, DRAM_SIZE) =>
                Decode(addr) = [at |-> "Dram", offset |-> addr - DRAM_BASE]
           /\ addr \in Window(UART0_BASE, UART_REGS_SIZE) =>
                Decode(addr) = [at |-> "Uart0", offset |-> addr - UART0_BASE]
           /\ addr \in Window(PERIPHERAL_BASE, PERIPHERAL_SIZE)
                          \ Window(UART0_BASE, UART_REGS_SIZE) =>
                Decode(addr) = [at |-> "UnmappedPeripheral", offset |-> 0]
           /\ addr \notin Window(IRAM_BASE, IRAM_SIZE) \cup Window(DRAM_BASE, DRAM_SIZE)
                          \cup Window(PERIPHERAL_BASE, PERIPHERAL_SIZE) =>
                Decode(addr) = [at |-> "Unmapped", offset |-> 0]
<1>1. /\ Covers(IRAM_BASE, IRAM_SIZE, addr) <=> addr \in Window(IRAM_BASE, IRAM_SIZE)
      /\ Covers(DRAM_BASE, DRAM_SIZE, addr) <=> addr \in Window(DRAM_BASE, DRAM_SIZE)
      /\ Covers(UART0_BASE, UART_REGS_SIZE, addr) <=>
            addr \in Window(UART0_BASE, UART_REGS_SIZE)
      /\ Covers(PERIPHERAL_BASE, PERIPHERAL_SIZE, addr) <=>
            addr \in Window(PERIPHERAL_BASE, PERIPHERAL_SIZE)
  BY MapAssumption, CoversIsMembership
<1>2. /\ Window(IRAM_BASE, IRAM_SIZE) \cap Window(DRAM_BASE, DRAM_SIZE) = {}
      /\ Window(IRAM_BASE, IRAM_SIZE) \cap Window(PERIPHERAL_BASE, PERIPHERAL_SIZE) = {}
      /\ Window(DRAM_BASE, DRAM_SIZE) \cap Window(PERIPHERAL_BASE, PERIPHERAL_SIZE) = {}
      /\ Window(UART0_BASE, UART_REGS_SIZE) \subseteq Window(PERIPHERAL_BASE, PERIPHERAL_SIZE)
  BY MapAssumption, DisjointAssumption DEF WholeWords, Disjoint, Window
<1> QED BY <1>1, <1>2 DEF Decode

(* An aligned access that starts in a region of whole words ends in it. *)
LEMMA AlignedFits ==
    ASSUME NEW base, NEW length, WholeWords(base, length),
           NEW size \in Width, NEW addr \in Window(base, length), addr % size = 0
    PROVE  addr - base + size <= length
<1>1. /\ base \in Nat /\ length \in Nat /\ base % 4 = 0 /\ length % 4 = 0
      /\ addr \in Int /\ base <= addr /\ addr < base + length
  BY DEF WholeWords, Window
<1> QED BY <1>1 DEF Width

(* The comment on RegionOverrun (bus.rs:40): a single load or store cannot *)
(* run off the end of a region, because alignment is enforced and regions  *)
(* are whole words.                                                        *)
THEOREM SingleAccessNeverOverruns ==
    ASSUME NEW addr \in Word, NEW size \in Width
    PROVE  AccessReply(addr, size).kind # "RegionOverrun"
<1>1. CASE addr % size # 0
  BY <1>1 DEF AccessReply, Err
<1>2. CASE addr % size = 0 /\ addr \in Window(IRAM_BASE, IRAM_SIZE)
  <2>1. Decode(addr) = [at |-> "Iram", offset |-> addr - IRAM_BASE]
    BY <1>2, DecodeIsMap
  <2>2. addr - IRAM_BASE + size <= IRAM_SIZE
    BY <1>2, AlignedFits, MapAssumption
  <2>3. addr - IRAM_BASE + size \in Int /\ IRAM_SIZE \in Int
    BY MapAssumption DEF WholeWords, Word, Width
  <2> QED BY <1>2, <2>1, <2>2, <2>3 DEF AccessReply, Err, Ok, Region, RegionSize
<1>3. CASE addr % size = 0 /\ addr \in Window(DRAM_BASE, DRAM_SIZE)
  <2>1. Decode(addr) = [at |-> "Dram", offset |-> addr - DRAM_BASE]
    BY <1>3, DecodeIsMap
  <2>2. addr - DRAM_BASE + size <= DRAM_SIZE
    BY <1>3, AlignedFits, MapAssumption
  <2>3. addr - DRAM_BASE + size \in Int /\ DRAM_SIZE \in Int
    BY MapAssumption DEF WholeWords, Word, Width
  <2> QED BY <1>3, <2>1, <2>2, <2>3 DEF AccessReply, Err, Ok, Region, RegionSize
<1>4. CASE addr \notin Window(IRAM_BASE, IRAM_SIZE) \cup Window(DRAM_BASE, DRAM_SIZE)
  <2>1. Decode(addr).at \notin Region
    BY <1>4, DecodeIsMap DEF Region
  <2> QED BY <2>1 DEF AccessReply, Err, Ok
<1> QED BY <1>1, <1>2, <1>3, <1>4

-----------------------------------------------------------------------------
(* Where an address is decoded, told by cases: what the proofs below split on. *)
LEMMA DecodeCases ==
    ASSUME NEW addr \in Word
    PROVE  \/ /\ addr \in Window(IRAM_BASE, IRAM_SIZE)
              /\ Decode(addr) = [at |-> "Iram", offset |-> addr - IRAM_BASE]
           \/ /\ addr \in Window(DRAM_BASE, DRAM_SIZE)
              /\ Decode(addr) = [at |-> "Dram", offset |-> addr - DRAM_BASE]
           \/ /\ addr \in Window(UART0_BASE, UART_REGS_SIZE)
              /\ Decode(addr) = [at |-> "Uart0", offset |-> addr - UART0_BASE]
           \/ /\ addr \notin Window(UART0_BASE, UART_REGS_SIZE)
              /\ Decode(addr) = [at |-> "UnmappedPeripheral", offset |-> 0]
           \/ Decode(addr) = [at |-> "Unmapped", offset |-> 0]
BY DecodeIsMap

LEMMA ByteOfType ==
    ASSUME NEW value \in Nat, NEW i \in 0 .. 3
    PROVE  ByteOf(value, i) \in Byte
<1>1. Weight(i) \in Nat /\ Weight(i) >= 1
  BY WordFacts
<1>2. value \div Weight(i) \in Nat
  BY <1>1
<1>3. \A q \in Nat : q % BYTE \in 0 .. BYTE - 1
  BY ByteAssumption
<1> QED BY <1>2, <1>3 DEF ByteOf, Byte

LEMMA StoreType ==
    ASSUME BusTypeOK, NEW addr \in Word, NEW size \in Width, NEW value \in Word,
           Store(addr, size, value)
    PROVE  BusTypeOK'
<1> DEFINE to == Decode(addr)
<1>1. ASSUME NEW at \in Region, to.at = at, ~ Failed(StoreReply(addr, size)),
             ram' = [ram EXCEPT ![to.at] = WriteLe(@, to.offset, size, value)],
             UNCHANGED uart
      PROVE  BusTypeOK'
  <2>1. to.offset \in Int
    <3>1. IRAM_BASE \in Int /\ DRAM_BASE \in Int /\ UART0_BASE \in Int /\ addr \in Int
      BY MapAssumption DEF WholeWords, Word
    <3> QED BY <3>1, DecodeCases
  <2>2. \A x \in Int : to.offset <= x /\ x < to.offset + size => x - to.offset \in 0 .. 3
    BY <2>1 DEF Width
  <2>3. value \in Nat
    BY WordFacts DEF Word
  <2>4. \A x \in Int : to.offset <= x /\ x < to.offset + size =>
            ByteOf(value, x - to.offset) \in Byte
    BY <2>2, <2>3, ByteOfType
  <2>5. ASSUME NEW len \in Nat, NEW mem \in [0 .. len - 1 -> Byte]
        PROVE  WriteLe(mem, to.offset, size, value) \in [0 .. len - 1 -> Byte]
    <3> HIDE DEF to
    <3> QED BY <2>1, <2>4 DEF WriteLe
  <2>6. CASE at = "Iram"
    BY <1>1, <2>5, <2>6, MapAssumption DEF BusTypeOK, RamType, WholeWords
  <2>7. CASE at = "Dram"
    BY <1>1, <2>5, <2>7, MapAssumption DEF BusTypeOK, RamType, WholeWords
  <2> QED BY <2>6, <2>7 DEF Region
<1>2. ASSUME uart' = WriteReg(uart, AlignDown(to.offset, 4), value), UNCHANGED ram
      PROVE  BusTypeOK'
  <2>1. value % BYTE \in Byte
    BY WordFacts, ByteAssumption DEF Word, Byte
  <2>2. WriteReg(uart, AlignDown(to.offset, 4), value) \in UartType
    BY <2>1 DEF BusTypeOK, UartType, WriteReg
  <2> QED BY <1>2, <2>2 DEF BusTypeOK
<1>3. CASE UNCHANGED busVars
  BY <1>3 DEF BusTypeOK, busVars
<1> QED BY <1>1, <1>2, <1>3 DEF Store

LEMMA PutBlockType ==
    ASSUME NEW r \in RamType, NEW addr \in Word, NEW bytes \in Seq(Byte)
    PROVE  PutBlock(r, addr, bytes) \in RamType
<1> DEFINE to == Decode(addr)
<1>1. to.offset \in Int
  <2>1. IRAM_BASE \in Int /\ DRAM_BASE \in Int /\ UART0_BASE \in Int /\ addr \in Int
    BY MapAssumption DEF WholeWords, Word
  <2> QED BY <2>1, DecodeCases
<1> DEFINE Put(mem) ==
        [x \in DOMAIN mem |->
            IF to.offset <= x /\ x < to.offset + Len(bytes)
            THEN bytes[x - to.offset + 1]
            ELSE mem[x]]
<1>2. ASSUME NEW len \in Nat, NEW mem \in [0 .. len - 1 -> Byte]
      PROVE  Put(mem) \in [0 .. len - 1 -> Byte]
  <2>1. Len(bytes) \in Nat /\ \A j \in 1 .. Len(bytes) : bytes[j] \in Byte
    OBVIOUS
  <2>2. \A x \in Int : to.offset <= x /\ x < to.offset + Len(bytes) =>
            x - to.offset + 1 \in 1 .. Len(bytes)
    BY <1>1, <2>1
  <2> HIDE DEF to
  <2> QED BY <1>1, <2>1, <2>2
<1>3. CASE to.at = "Iram"
  <2>1. Put(r.Iram) \in [0 .. IRAM_SIZE - 1 -> Byte]
    BY <1>2, MapAssumption DEF RamType, WholeWords
  <2>2. PutBlock(r, addr, bytes) = [r EXCEPT !.Iram = Put(r.Iram)]
    BY <1>3 DEF PutBlock
  <2> HIDE DEF Put
  <2> QED BY <2>1, <2>2 DEF RamType
<1>4. CASE to.at = "Dram"
  <2>1. Put(r.Dram) \in [0 .. DRAM_SIZE - 1 -> Byte]
    BY <1>2, MapAssumption DEF RamType, WholeWords
  <2>2. PutBlock(r, addr, bytes) = [r EXCEPT !.Dram = Put(r.Dram)]
    BY <1>4 DEF PutBlock
  <2> HIDE DEF Put
  <2> QED BY <2>1, <2>2 DEF RamType
<1>5. CASE to.at \notin Region
  BY <1>5 DEF PutBlock, RamType, Region
<1> QED BY <1>3, <1>4, <1>5 DEF Region

LEMMA WriteBlockType ==
    ASSUME BusTypeOK, NEW addr \in Word, NEW bytes \in Seq(Byte), WriteBlock(addr, bytes)
    PROVE  BusTypeOK'
BY PutBlockType DEF BusTypeOK, WriteBlock
=============================================================================
