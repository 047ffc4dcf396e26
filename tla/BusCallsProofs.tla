--------------------------- MODULE BusCallsProofs ---------------------------
(***************************************************************************)
(* Any sequence of bus calls keeps the bus well typed and implements the   *)
(* flat memory of module Memory, for every address map, every set of       *)
(* arguments and any number of transmitted bytes.                          *)
(***************************************************************************)
EXTENDS BusCalls, BusLemmas

(* Every state of every run of bus calls is well typed. *)
THEOREM CallTyping == CallSpec => []CallTypeOK
<1>1. CallInit => CallTypeOK
  <2> SUFFICES ASSUME CallInit PROVE CallTypeOK
    OBVIOUS
  <2>1. 0 \in Byte
    BY ByteAssumption DEF Byte
  <2>2. ram \in RamType
    BY <2>1 DEF CallInit, BusInit, RamType
  <2>3. uart \in UartType
    BY DEF CallInit, BusInit, UartType
  <2> QED BY <2>2, <2>3 DEF CallInit, CallTypeOK, BusTypeOK
<1>2. CallTypeOK /\ [CallNext]_callVars => CallTypeOK'
  <2> SUFFICES ASSUME CallTypeOK, [CallNext]_callVars PROVE CallTypeOK'
    OBVIOUS
  <2> USE DEF CallTypeOK
  <2>1. ASSUME NEW addr \in CallAddr, NEW size \in Width, CallLoad(addr, size)
        PROVE  CallTypeOK'
    BY <2>1 DEF CallLoad, busVars, BusTypeOK
  <2>2. ASSUME NEW addr \in CallAddr, NEW size \in Width, NEW value \in CallValue,
               CallStore(addr, size, value)
        PROVE  CallTypeOK'
    BY <2>2, StoreType, CallAssumption DEF CallStore
  <2>3. ASSUME NEW addr \in CallAddr, NEW bytes \in CallBlock, CallWriteBlock(addr, bytes)
        PROVE  CallTypeOK'
    BY <2>3, WriteBlockType, CallAssumption DEF CallWriteBlock
  <2>4. CASE CallTakePending
    <3>1. uart \in UartType /\ uart.tx \in Seq(Byte) /\ taken \in Seq(Byte)
      BY DEF BusTypeOK, UartType
    <3>2. taken \o uart.tx \in Seq(Byte) /\ <<>> \in Seq(Byte)
      BY <3>1
    <3>3. [uart EXCEPT !.tx = <<>>] \in UartType
      BY <3>1, <3>2 DEF UartType
    <3> QED BY <2>4, <3>2, <3>3 DEF CallTakePending, TakePending, BusTypeOK
  <2>5. CASE UNCHANGED callVars
    BY <2>5 DEF callVars, busVars, BusTypeOK
  <2> QED BY <2>1, <2>2, <2>3, <2>4, <2>5 DEF CallNext
<1> QED BY <1>1, <1>2, PTL DEF CallSpec

-----------------------------------------------------------------------------
(* The counter Uart::transmitted never loses or repeats a byte, however    *)
(* stores and drains interleave.                                           *)
THEOREM TransmittedIsExact == CallSpec => []TransmittedCountsEveryByte
<1>1. CallInit => TransmittedCountsEveryByte
  BY DEF CallInit, BusInit, TransmittedCountsEveryByte
<1>2. CallTypeOK /\ TransmittedCountsEveryByte /\ [CallNext]_callVars
        => TransmittedCountsEveryByte'
  <2> SUFFICES ASSUME CallTypeOK, TransmittedCountsEveryByte, [CallNext]_callVars
               PROVE  TransmittedCountsEveryByte'
    OBVIOUS
  <2> USE DEF TransmittedCountsEveryByte
  <2>t. /\ uart \in UartType /\ uart.tx \in Seq(Byte) /\ uart.transmitted \in Nat
        /\ taken \in Seq(Byte)
    BY DEF CallTypeOK, BusTypeOK, UartType
  <2>1. ASSUME NEW addr \in CallAddr, NEW size \in Width, CallLoad(addr, size)
        PROVE  TransmittedCountsEveryByte'
    BY <2>1 DEF CallLoad, busVars
  <2>2. ASSUME NEW addr \in CallAddr, NEW size \in Width, NEW value \in CallValue,
               CallStore(addr, size, value)
        PROVE  TransmittedCountsEveryByte'
    <3>1. taken' = taken
      BY <2>2 DEF CallStore
    <3>2. CASE uart' = uart
      BY <3>1, <3>2
    <3>3. CASE uart' = [tx |-> Append(uart.tx, value % BYTE),
                        transmitted |-> uart.transmitted + 1]
      <4>1. value % BYTE \in Byte
        BY WordFacts, ByteAssumption, CallAssumption DEF Word, Byte
      <4>2. Len(Append(uart.tx, value % BYTE)) = Len(uart.tx) + 1
        BY <4>1, <2>t
      <4> QED BY <3>1, <3>3, <4>2, <2>t
    <3> QED BY <2>2, <3>2, <3>3 DEF CallStore, Store, WriteReg, busVars
  <2>3. ASSUME NEW addr \in CallAddr, NEW bytes \in CallBlock, CallWriteBlock(addr, bytes)
        PROVE  TransmittedCountsEveryByte'
    BY <2>3 DEF CallWriteBlock, WriteBlock
  <2>4. CASE CallTakePending
    <3>1. uart' = [uart EXCEPT !.tx = <<>>] /\ taken' = taken \o uart.tx
      BY <2>4 DEF CallTakePending, TakePending
    <3>2. uart'.tx = <<>> /\ uart'.transmitted = uart.transmitted
      BY <3>1, <2>t DEF UartType
    <3>3. Len(taken \o uart.tx) = Len(taken) + Len(uart.tx) /\ Len(<<>>) = 0
      BY <2>t
    <3> QED BY <3>1, <3>2, <3>3, <2>t
  <2>5. CASE UNCHANGED callVars
    BY <2>5 DEF callVars, busVars
  <2> QED BY <2>1, <2>2, <2>3, <2>4, <2>5 DEF CallNext
<1> QED BY <1>1, <1>2, CallTyping, PTL DEF CallSpec

-----------------------------------------------------------------------------
(* The instance of Esp32 that Memory brings along is the same profile. *)
LEMMA SameProfile ==
    /\ \A base, size : Flat!Window(base, size) = Window(base, size)
    /\ \A i : Flat!Weight(i) = Weight(i)
    /\ \A value, i : Flat!ByteOf(value, i) = ByteOf(value, i)
BY DEF Flat!Window, Window, Flat!Weight, Weight, Flat!ByteOf, ByteOf

(* Alignment and the address map fail a single access exactly when the     *)
(* flat memory says so, and for the same reason.                           *)
LEMMA SameFaults ==
    ASSUME NEW addr \in Word, NEW size \in Width
    PROVE  /\ ~ Failed(AccessReply(addr, size)) <=> Flat!SingleFault(addr, size) = {}
           /\ Failed(AccessReply(addr, size)) =>
                AccessReply(addr, size).kind \in Flat!SingleFault(addr, size)
           /\ ~ Failed(AccessReply(addr, size)) => AccessReply(addr, size).kind = "Ok"
<1>1. /\ Window(IRAM_BASE, IRAM_SIZE) \cap Window(PERIPHERAL_BASE, PERIPHERAL_SIZE) = {}
      /\ Window(DRAM_BASE, DRAM_SIZE) \cap Window(PERIPHERAL_BASE, PERIPHERAL_SIZE) = {}
      /\ Window(UART0_BASE, UART_REGS_SIZE) \subseteq Window(PERIPHERAL_BASE, PERIPHERAL_SIZE)
  BY MapAssumption, DisjointAssumption DEF WholeWords, Disjoint, Window
<1>2. CASE addr % size # 0
  BY <1>2 DEF AccessReply, Flat!SingleFault, Failed, Err
<1>3. CASE addr % size = 0 /\ addr \in Window(IRAM_BASE, IRAM_SIZE)
                                         \cup Window(DRAM_BASE, DRAM_SIZE)
  <2>1. Decode(addr).at \in Region
    BY <1>3, DecodeIsMap DEF Region
  <2>2. AccessReply(addr, size).kind = "Ok"
    BY <2>1, <1>3, SingleAccessNeverOverruns DEF AccessReply, Err, Ok, Region
  <2>3. Flat!SingleFault(addr, size) = {}
    BY <1>1, <1>3, SameProfile
       DEF Flat!SingleFault, Flat!PeripheralAddr, Flat!UartAddr, Flat!RamAddr,
           Flat!Iram, Flat!Dram
  <2> QED BY <2>2, <2>3 DEF Failed
<1>4. CASE addr % size = 0 /\ addr \notin Window(IRAM_BASE, IRAM_SIZE)
                                            \cup Window(DRAM_BASE, DRAM_SIZE)
  BY <1>1, <1>4, DecodeIsMap, SameProfile
     DEF AccessReply, Failed, Err, Ok, Region, Flat!SingleFault, Flat!PeripheralAddr,
         Flat!UartAddr, Flat!RamAddr, Flat!Iram, Flat!Dram
<1> QED BY <1>2, <1>3, <1>4

(* An aligned access stays in the region it starts in, so the bytes it     *)
(* names are bytes of that region and of no other.                         *)
LEMMA AccessStaysInRegion ==
    ASSUME NEW addr \in Word, NEW size \in Width, addr % size = 0
    PROVE  /\ addr \in Window(IRAM_BASE, IRAM_SIZE) =>
                Window(addr, size) \subseteq Window(IRAM_BASE, IRAM_SIZE)
           /\ addr \in Window(DRAM_BASE, DRAM_SIZE) =>
                Window(addr, size) \subseteq Window(DRAM_BASE, DRAM_SIZE)
           /\ addr \in Window(UART0_BASE, UART_REGS_SIZE) =>
                Window(addr, size) \subseteq Window(UART0_BASE, UART_REGS_SIZE)
<1>1. ASSUME NEW base, NEW length, WholeWords(base, length), addr \in Window(base, length)
      PROVE  Window(addr, size) \subseteq Window(base, length)
  <2>1. addr - base + size <= length
    BY <1>1, AlignedFits
  <2>2. base \in Int /\ length \in Int /\ addr \in Int /\ base <= addr /\ size \in Int
    BY <1>1 DEF WholeWords, Window, Width
  <2> QED BY <2>1, <2>2 DEF Window
<1> QED BY <1>1, MapAssumption

(* The three regions of the map share no address. *)
LEMMA RegionsApart ==
    /\ Window(IRAM_BASE, IRAM_SIZE) \cap Window(DRAM_BASE, DRAM_SIZE) = {}
    /\ Window(IRAM_BASE, IRAM_SIZE) \cap Window(UART0_BASE, UART_REGS_SIZE) = {}
    /\ Window(DRAM_BASE, DRAM_SIZE) \cap Window(UART0_BASE, UART_REGS_SIZE) = {}
BY MapAssumption, DisjointAssumption DEF WholeWords, Disjoint, Window

(* A store that succeeds changes the bytes it names and no other byte of   *)
(* the flat memory.                                                        *)
LEMMA StoreIsFlat ==
    ASSUME CallTypeOK, NEW addr \in Word, NEW size \in Width, NEW value \in Word,
           Store(addr, size, value), ~ Failed(StoreReply(addr, size))
    PROVE  FlatRam' = [a \in Flat!RamAddr |->
                          IF a \in Window(addr, size) THEN ByteOf(value, a - addr) ELSE FlatRam[a]]
<1> DEFINE to == Decode(addr)
           IramAddr == Window(IRAM_BASE, IRAM_SIZE)
           DramAddr == Window(DRAM_BASE, DRAM_SIZE)
<1>1. Flat!RamAddr = IramAddr \cup DramAddr
  BY SameProfile DEF Flat!RamAddr, Flat!Iram, Flat!Dram
<1>2. addr % size = 0
  BY DEF StoreReply, AccessReply, Failed, Err
<1>3. /\ IRAM_BASE \in Int /\ DRAM_BASE \in Int /\ IRAM_SIZE \in Int /\ DRAM_SIZE \in Int
      /\ addr \in Int /\ size \in Int
  BY MapAssumption DEF WholeWords, Word, Width
<1>4. ram \in RamType
  BY DEF CallTypeOK, BusTypeOK
<1>5. CASE addr \in IramAddr
  <2>1. to = [at |-> "Iram", offset |-> addr - IRAM_BASE]
    BY <1>5, DecodeIsMap
  <2>2. ram' = [ram EXCEPT !.Iram = WriteLe(@, addr - IRAM_BASE, size, value)]
    BY <2>1 DEF Store, Region
  <2>3. Window(addr, size) \cap DramAddr = {}
    BY <1>2, <1>5, AccessStaysInRegion, RegionsApart
  <2>4. ASSUME NEW a \in IramAddr
        PROVE  ram'.Iram[a - IRAM_BASE] =
                 IF a \in Window(addr, size) THEN ByteOf(value, a - addr)
                 ELSE ram.Iram[a - IRAM_BASE]
    <3>1. a \in Int /\ a - IRAM_BASE \in 0 .. IRAM_SIZE - 1
      BY <1>3 DEF Window
    <3>2. ram'.Iram = WriteLe(ram.Iram, addr - IRAM_BASE, size, value)
      BY <2>2, <1>4 DEF RamType
    <3>3. DOMAIN ram.Iram = 0 .. IRAM_SIZE - 1
      BY <1>4 DEF RamType
    <3>4. a - IRAM_BASE - (addr - IRAM_BASE) = a - addr
      BY <3>1, <1>3
    <3>5. addr - IRAM_BASE <= a - IRAM_BASE /\ a - IRAM_BASE < addr - IRAM_BASE + size
             <=> a \in Window(addr, size)
      BY <3>1, <1>3 DEF Window
    <3> QED BY <3>1, <3>2, <3>3, <3>4, <3>5 DEF WriteLe
  <2>5. ram'.Dram = ram.Dram
    BY <2>2, <1>4 DEF RamType
  <2> QED BY <1>1, <2>3, <2>4, <2>5 DEF FlatRam
<1>6. CASE addr \in DramAddr
  <2>1. to = [at |-> "Dram", offset |-> addr - DRAM_BASE]
    BY <1>6, DecodeIsMap
  <2>2. ram' = [ram EXCEPT !.Dram = WriteLe(@, addr - DRAM_BASE, size, value)]
    BY <2>1 DEF Store, Region
  <2>3. Window(addr, size) \cap IramAddr = {}
    BY <1>2, <1>6, AccessStaysInRegion, RegionsApart
  <2>4. ASSUME NEW a \in DramAddr
        PROVE  ram'.Dram[a - DRAM_BASE] =
                 IF a \in Window(addr, size) THEN ByteOf(value, a - addr)
                 ELSE ram.Dram[a - DRAM_BASE]
    <3>1. a \in Int /\ a - DRAM_BASE \in 0 .. DRAM_SIZE - 1
      BY <1>3 DEF Window
    <3>2. ram'.Dram = WriteLe(ram.Dram, addr - DRAM_BASE, size, value)
      BY <2>2, <1>4 DEF RamType
    <3>3. DOMAIN ram.Dram = 0 .. DRAM_SIZE - 1
      BY <1>4 DEF RamType
    <3>4. a - DRAM_BASE - (addr - DRAM_BASE) = a - addr
      BY <3>1, <1>3
    <3>5. addr - DRAM_BASE <= a - DRAM_BASE /\ a - DRAM_BASE < addr - DRAM_BASE + size
             <=> a \in Window(addr, size)
      BY <3>1, <1>3 DEF Window
    <3> QED BY <3>1, <3>2, <3>3, <3>4, <3>5 DEF WriteLe
  <2>5. ram'.Iram = ram.Iram
    BY <2>2, <1>4 DEF RamType
  <2> QED BY <1>1, <2>3, <2>4, <2>5, RegionsApart DEF FlatRam
<1>7. CASE addr \notin IramAddr \cup DramAddr
  <2>1. to.at \notin Region
    BY <1>7, DecodeIsMap DEF Region
  <2>2. addr \in Window(UART0_BASE, UART_REGS_SIZE)
    BY <1>7, <2>1, DecodeIsMap DEF StoreReply, AccessReply, Failed, Err
  <2>3. Window(addr, size) \cap (IramAddr \cup DramAddr) = {}
    BY <1>2, <2>2, AccessStaysInRegion, RegionsApart
  <2>4. ram' = ram
    BY <2>1 DEF Store, busVars
  <2> QED BY <1>1, <2>3, <2>4 DEF FlatRam
<1> QED BY <1>5, <1>6, <1>7

(* Only the FIFO register queues a byte, through whichever of its four     *)
(* addresses, and the byte is the low one of the value stored.             *)
LEMMA StoreIsSent ==
    ASSUME CallTypeOK, NEW addr \in Word, NEW size \in Width, NEW value \in Word,
           Store(addr, size, value), ~ Failed(StoreReply(addr, size))
    PROVE  taken \o uart'.tx = IF addr \in Flat!FifoAddr
                               THEN Append(taken \o uart.tx, value % BYTE)
                               ELSE taken \o uart.tx
<1> DEFINE to == Decode(addr)
<1>1. uart.tx \in Seq(Byte) /\ taken \in Seq(Byte)
  BY DEF CallTypeOK, BusTypeOK, UartType
<1>2. Flat!FifoAddr = Window(UART0_BASE + FIFO, 4)
  BY SameProfile DEF Flat!FifoAddr
<1>3. /\ UART0_BASE \in Int /\ UART_REGS_SIZE \in Int /\ FIFO \in Int /\ addr \in Int
      /\ FIFO % 4 = 0 /\ FIFO >= 0 /\ FIFO < UART_REGS_SIZE /\ UART_REGS_SIZE % 4 = 0
  BY MapAssumption, RegisterAssumption DEF WholeWords, Word
<1>4. Flat!FifoAddr \subseteq Window(UART0_BASE, UART_REGS_SIZE)
  BY <1>2, <1>3 DEF Window
<1>5. CASE to.at \in Region
  <2>1. addr \notin Window(UART0_BASE, UART_REGS_SIZE)
    BY <1>5, DecodeIsMap DEF Region
  <2>2. uart' = uart
    BY <1>5 DEF Store, busVars, Region
  <2> QED BY <1>4, <2>1, <2>2
<1>6. CASE to.at = "Uart0"
  <2>1. addr \in Window(UART0_BASE, UART_REGS_SIZE) /\ to.offset = addr - UART0_BASE
    BY <1>6, DecodeCases
  <2>2. uart' = WriteReg(uart, AlignDown(to.offset, 4), value)
    BY <1>6 DEF Store, Region
  <2>3. AlignDown(to.offset, 4) = FIFO <=> addr \in Flat!FifoAddr
    <3>1. to.offset \in Int /\ to.offset >= 0
      BY <1>3, <2>1 DEF Window
    <3>2. \A x \in Nat : x - (x % 4) = FIFO <=> FIFO <= x /\ x < FIFO + 4
      BY <1>3
    <3>3. AlignDown(to.offset, 4) = FIFO <=> FIFO <= to.offset /\ to.offset < FIFO + 4
      BY <3>1, <3>2 DEF AlignDown
    <3> QED BY <3>3, <2>1, <1>2, <1>3 DEF Window
  <2>4. CASE addr \in Flat!FifoAddr
    <3>1. uart'.tx = Append(uart.tx, value % BYTE)
      BY <2>2, <2>3, <2>4 DEF WriteReg
    <3>2. value % BYTE \in Byte
      BY WordFacts, ByteAssumption DEF Word, Byte
    <3>3. taken \o Append(uart.tx, value % BYTE) = Append(taken \o uart.tx, value % BYTE)
      BY <1>1, <3>2
    <3> QED BY <2>4, <3>1, <3>3
  <2>5. CASE addr \notin Flat!FifoAddr
    BY <2>2, <2>3, <2>5 DEF WriteReg
  <2> QED BY <2>4, <2>5
<1> QED BY <1>5, <1>6, DecodeCases DEF Store, StoreReply, AccessReply, Failed, Err, Region

(* A load that succeeds returns the bytes it names, little-endian, or zero *)
(* from a UART register.                                                   *)
LEMMA LoadIsFlat ==
    ASSUME CallTypeOK, NEW addr \in Word, NEW size \in Width, ~ Failed(LoadReply(addr, size))
    PROVE  LoadReply(addr, size).value = Flat!Reads(addr, size)
<1> DEFINE to == Decode(addr)
           IramAddr == Window(IRAM_BASE, IRAM_SIZE)
           DramAddr == Window(DRAM_BASE, DRAM_SIZE)
<1>1. Flat!RamAddr = IramAddr \cup DramAddr
  BY SameProfile DEF Flat!RamAddr, Flat!Iram, Flat!Dram
<1>2. ~ Failed(AccessReply(addr, size)) /\ addr % size = 0
  BY DEF LoadReply, AccessReply, Failed, Err
<1>3. /\ IRAM_BASE \in Int /\ DRAM_BASE \in Int /\ IRAM_SIZE \in Int /\ DRAM_SIZE \in Int
      /\ addr \in Int /\ size \in 1 .. 4
  BY MapAssumption DEF WholeWords, Word, Width
<1>4. ram \in RamType /\ BYTE \in Nat
  BY WordFacts DEF CallTypeOK, BusTypeOK
<1>5. ASSUME NEW at \in Region, NEW base \in Int, to = [at |-> at, offset |-> addr - base],
             NEW part, part \subseteq Flat!RamAddr, Window(addr, size) \subseteq part,
             \A a \in part : FlatRam[a] = ram[at][a - base] /\ ram[at][a - base] \in Int
      PROVE  LoadReply(addr, size).value = Flat!Reads(addr, size)
  <2> DEFINE b(i) == IF i < size THEN ram[at][addr - base + i] ELSE 0
             c(i) == IF i < size THEN FlatRam[addr + i] * Weight(i) ELSE 0
  <2>1. \A i \in 0 .. 3 : i < size => addr + i \in Window(addr, size)
    BY <1>3 DEF Window
  <2>3. \A i \in 0 .. 3 : b(i) \in Int /\ c(i) = b(i) * Weight(i)
    <3>1. ASSUME NEW i \in 0 .. 3, i < size
          PROVE  /\ FlatRam[addr + i] = ram[at][addr - base + i]
                 /\ ram[at][addr - base + i] \in Int
      <4>1. addr + i \in part
        BY <1>5, <2>1, <3>1
      <4>2. /\ FlatRam[addr + i] = ram[at][(addr + i) - base]
            /\ ram[at][(addr + i) - base] \in Int
        BY <1>5, <4>1
      <4>3. (addr + i) - base = addr - base + i
        BY <1>3
      <4> QED BY <4>2, <4>3
    <3>2. \A i \in 0 .. 3 : 0 * Weight(i) = 0
      BY WordFacts
    <3> QED BY <3>1, <3>2
  <2>4. LoadReply(addr, size).value = b(0) + BYTE * (b(1) + BYTE * (b(2) + BYTE * b(3)))
    BY <1>2, <1>5 DEF LoadReply, Ok, ReadLe, FromLeBytes
  <2>5. addr \in Flat!RamAddr
    BY <1>3, <1>5 DEF Window
  <2>6. Flat!Reads(addr, size) = c(0) + c(1) + c(2) + c(3)
    BY <2>5, SameProfile DEF Flat!Reads, Flat!FlatRead
  <2>7. b(0) \in Int /\ b(1) \in Int /\ b(2) \in Int /\ b(3) \in Int
    BY <2>3
  <2>8. c(0) = b(0) /\ c(1) = b(1) * BYTE /\ c(2) = b(2) * (BYTE * BYTE)
        /\ c(3) = b(3) * (BYTE * BYTE * BYTE)
    BY <2>3, WordFacts
  <2> HIDE DEF b, c
  <2>9. b(0) + BYTE * (b(1) + BYTE * (b(2) + BYTE * b(3))) = c(0) + c(1) + c(2) + c(3)
    BY <2>7, <2>8, <1>4
  <2> QED BY <2>4, <2>6, <2>9
<1>6. CASE addr \in IramAddr
  <2>1. \A a \in IramAddr : FlatRam[a] = ram["Iram"][a - IRAM_BASE]
                            /\ ram["Iram"][a - IRAM_BASE] \in Int
    BY <1>3, <1>4, ByteAssumption DEF FlatRam, RamType, Window, Byte
  <2>2. to = [at |-> "Iram", offset |-> addr - IRAM_BASE]
    BY <1>6, DecodeIsMap
  <2>3. Window(addr, size) \subseteq IramAddr /\ IramAddr \subseteq Flat!RamAddr
    BY <1>1, <1>2, <1>6, AccessStaysInRegion
  <2>4. "Iram" \in Region
    BY DEF Region
  <2> HIDE DEF to, IramAddr
  <2> QED BY <1>3, <1>5, <2>1, <2>2, <2>3, <2>4
<1>7. CASE addr \in DramAddr
  <2>1. \A a \in DramAddr : FlatRam[a] = ram["Dram"][a - DRAM_BASE]
                            /\ ram["Dram"][a - DRAM_BASE] \in Int
    <3> SUFFICES ASSUME NEW a \in DramAddr
                 PROVE  FlatRam[a] = ram["Dram"][a - DRAM_BASE]
                        /\ ram["Dram"][a - DRAM_BASE] \in Int
      OBVIOUS
    <3>1. a \notin IramAddr
      BY RegionsApart
    <3>2. a - DRAM_BASE \in 0 .. DRAM_SIZE - 1
      BY <1>3 DEF Window
    <3>3. ram.Dram[a - DRAM_BASE] \in Byte
      BY <1>4, <3>2 DEF RamType
    <3> QED BY <3>1, <3>3, ByteAssumption DEF FlatRam, Byte
  <2>2. to = [at |-> "Dram", offset |-> addr - DRAM_BASE]
    BY <1>7, DecodeIsMap
  <2>3. Window(addr, size) \subseteq DramAddr /\ DramAddr \subseteq Flat!RamAddr
    BY <1>1, <1>2, <1>7, AccessStaysInRegion
  <2>4. "Dram" \in Region
    BY DEF Region
  <2> HIDE DEF to, DramAddr
  <2> QED BY <1>3, <1>5, <2>1, <2>2, <2>3, <2>4
<1>8. CASE addr \notin IramAddr \cup DramAddr
  <2>1. to.at \notin Region
    BY <1>8, DecodeIsMap DEF Region
  <2>2. LoadReply(addr, size).value = SubWord(0, addr, size)
    BY <1>2, <2>1 DEF LoadReply, ReadReg, Ok
  <2>3. SubWord(0, addr, size) = 0
    <3>1. addr % 4 \in 0 .. 3
      BY <1>3
    <3>2. Weight(addr % 4) \in Nat /\ Weight(addr % 4) >= 1
      BY <3>1, WordFacts
    <3>3. 0 \div Weight(addr % 4) = 0
      BY <3>2
    <3>4. size # 4 => Weight(size) \in Nat /\ Weight(size) >= 1 /\ 0 % Weight(size) = 0
      <4>1. size # 4 => size \in 0 .. 3
        BY <1>3
      <4> QED BY <4>1, WordFacts
    <3> QED BY <3>3, <3>4 DEF SubWord
  <2> QED BY <1>1, <1>8, <2>2, <2>3 DEF Flat!Reads
<1> QED BY <1>6, <1>7, <1>8

(* A block that starts in a region ends in it exactly when its last offset *)
(* does.                                                                   *)
LEMMA BlockFits ==
    ASSUME NEW base, NEW length, WholeWords(base, length),
           NEW addr \in Window(base, length), NEW len \in Nat
    PROVE  addr - base + len <= length <=> Window(addr, len) \subseteq Window(base, length)
<1>1. base \in Int /\ length \in Int /\ addr \in Int /\ base <= addr /\ addr < base + length
  BY DEF WholeWords, Window
<1>2. addr - base + len <= length => Window(addr, len) \subseteq Window(base, length)
  BY <1>1 DEF Window
<1>3. CASE len = 0
  BY <1>1, <1>2, <1>3
<1>4. CASE len > 0
  <2>1. addr + len - 1 \in Window(addr, len)
    BY <1>1, <1>4 DEF Window
  <2>2. addr + len - 1 \in Window(base, length) => addr - base + len <= length
    BY <1>1 DEF Window
  <2> QED BY <1>2, <2>1, <2>2
<1> QED BY <1>3, <1>4

(* Bulk access fails exactly when, and for the reason, the flat memory says. *)
LEMMA SameBlockFaults ==
    ASSUME NEW addr \in Word, NEW len \in Nat
    PROVE  /\ ~ Failed(BlockReply(addr, len)) <=> Flat!BlockFault(addr, len) = {}
           /\ Failed(BlockReply(addr, len)) =>
                BlockReply(addr, len).kind \in Flat!BlockFault(addr, len)
           /\ ~ Failed(BlockReply(addr, len)) => BlockReply(addr, len).kind = "Ok"
<1> DEFINE IramAddr == Window(IRAM_BASE, IRAM_SIZE)
           DramAddr == Window(DRAM_BASE, DRAM_SIZE)
<1>1. /\ Flat!RamAddr = IramAddr \cup DramAddr
      /\ Flat!Iram = IramAddr /\ Flat!Dram = DramAddr
      /\ Flat!Window(addr, len) = Window(addr, len)
  BY SameProfile DEF Flat!RamAddr, Flat!Iram, Flat!Dram
<1>2. ASSUME NEW at \in Region, NEW base, NEW length, NEW other,
             WholeWords(base, length), RegionSize(at) = length,
             Decode(addr) = [at |-> at, offset |-> addr - base],
             addr \in Window(base, length), addr \notin other,
             {IramAddr, DramAddr} = {Window(base, length), other}
      PROVE  /\ ~ Failed(BlockReply(addr, len)) <=> Flat!BlockFault(addr, len) = {}
             /\ Failed(BlockReply(addr, len)) =>
                  BlockReply(addr, len).kind \in Flat!BlockFault(addr, len)
             /\ ~ Failed(BlockReply(addr, len)) => BlockReply(addr, len).kind = "Ok"
  <2>1. addr - base + len <= length <=> Window(addr, len) \subseteq Window(base, length)
    BY <1>2, BlockFits
  <2>2. addr - base + len \in Int /\ length \in Int
    BY <1>2 DEF WholeWords, Word
  <2>3. BlockReply(addr, len) = IF addr - base + len <= length
                                THEN Ok(0) ELSE Err("RegionOverrun", addr)
    BY <1>2, <2>2 DEF BlockReply
  <2>4. Flat!BlockFault(addr, len) = IF Window(addr, len) \subseteq Window(base, length)
                                     THEN {} ELSE {"RegionOverrun"}
    <3>1. addr \in Flat!RamAddr
      BY <1>1, <1>2
    <3>2. (\E part \in {Flat!Iram, Flat!Dram} :
                addr \in part /\ Flat!Window(addr, len) \subseteq part)
             <=> Window(addr, len) \subseteq Window(base, length)
      <4> HIDE DEF IramAddr, DramAddr
      <4> QED BY <1>1, <1>2
    <3> QED BY <3>1, <3>2 DEF Flat!BlockFault
  <2> QED BY <2>1, <2>3, <2>4 DEF Failed, Ok, Err
<1>3. CASE addr \in IramAddr
  <2>1. Decode(addr) = [at |-> "Iram", offset |-> addr - IRAM_BASE] /\ addr \notin DramAddr
    BY <1>3, DecodeIsMap, RegionsApart
  <2> QED BY <1>2, <1>3, <2>1, MapAssumption DEF Region, RegionSize
<1>4. CASE addr \in DramAddr
  <2>1. Decode(addr) = [at |-> "Dram", offset |-> addr - DRAM_BASE] /\ addr \notin IramAddr
    BY <1>4, DecodeIsMap, RegionsApart
  <2>2. {IramAddr, DramAddr} = {DramAddr, IramAddr}
    OBVIOUS
  <2> QED BY <1>2, <1>4, <2>1, <2>2, MapAssumption DEF Region, RegionSize
<1>5. CASE addr \notin IramAddr \cup DramAddr
  BY <1>1, <1>5, DecodeIsMap DEF BlockReply, Failed, Err, Region, Flat!BlockFault
<1> QED BY <1>3, <1>4, <1>5

(* A block that is written changes its own bytes and no other byte of the  *)
(* flat memory.                                                            *)
LEMMA BlockIsFlat ==
    ASSUME CallTypeOK, NEW addr \in Word, NEW bytes \in Seq(Byte),
           WriteBlock(addr, bytes), ~ Failed(BlockReply(addr, Len(bytes)))
    PROVE  FlatRam' = [a \in Flat!RamAddr |->
                          IF a \in Window(addr, Len(bytes)) THEN bytes[a - addr + 1]
                          ELSE FlatRam[a]]
<1> DEFINE IramAddr == Window(IRAM_BASE, IRAM_SIZE)
           DramAddr == Window(DRAM_BASE, DRAM_SIZE)
           block == Window(addr, Len(bytes))
<1>1. Flat!RamAddr = IramAddr \cup DramAddr
  BY SameProfile DEF Flat!RamAddr, Flat!Iram, Flat!Dram
<1>2. /\ IRAM_BASE \in Int /\ DRAM_BASE \in Int /\ IRAM_SIZE \in Int /\ DRAM_SIZE \in Int
      /\ addr \in Int /\ Len(bytes) \in Nat
  BY MapAssumption DEF WholeWords, Word
<1>3. ram \in RamType /\ ram' = PutBlock(ram, addr, bytes)
  BY DEF CallTypeOK, BusTypeOK, WriteBlock
<1>4. CASE addr \in IramAddr
  <2>1. Decode(addr) = [at |-> "Iram", offset |-> addr - IRAM_BASE]
    BY <1>4, DecodeIsMap
  <2>2. addr - IRAM_BASE + Len(bytes) <= IRAM_SIZE
    BY <1>2, <2>1 DEF BlockReply, Failed, Err, Region, RegionSize
  <2>3. block \cap DramAddr = {}
    BY <1>2, <1>4, <2>2, BlockFits, RegionsApart, MapAssumption
  <2>4. ASSUME NEW a \in IramAddr
        PROVE  ram'.Iram[a - IRAM_BASE] =
                 IF a \in block THEN bytes[a - addr + 1] ELSE ram.Iram[a - IRAM_BASE]
    <3>1. a \in Int /\ a - IRAM_BASE \in DOMAIN ram.Iram
      BY <1>2, <1>3 DEF Window, RamType
    <3>2. (a - IRAM_BASE) - (addr - IRAM_BASE) + 1 = a - addr + 1
      BY <3>1, <1>2
    <3>3. addr - IRAM_BASE <= a - IRAM_BASE /\ a - IRAM_BASE < addr - IRAM_BASE + Len(bytes)
             <=> a \in block
      BY <3>1, <1>2 DEF Window
    <3>4. ram'.Iram = [x \in DOMAIN ram.Iram |->
                          IF addr - IRAM_BASE <= x /\ x < addr - IRAM_BASE + Len(bytes)
                          THEN bytes[x - (addr - IRAM_BASE) + 1] ELSE ram.Iram[x]]
      BY <1>3, <2>1 DEF PutBlock, RamType
    <3> HIDE DEF block
    <3> QED BY <3>1, <3>2, <3>3, <3>4
  <2>5. ram'.Dram = ram.Dram
    BY <1>3, <2>1 DEF PutBlock, RamType
  <2> QED BY <1>1, <2>3, <2>4, <2>5 DEF FlatRam
<1>5. CASE addr \in DramAddr
  <2>1. Decode(addr) = [at |-> "Dram", offset |-> addr - DRAM_BASE]
    BY <1>5, DecodeIsMap
  <2>2. addr - DRAM_BASE + Len(bytes) <= DRAM_SIZE
    BY <1>2, <2>1 DEF BlockReply, Failed, Err, Region, RegionSize
  <2>3. block \cap IramAddr = {}
    BY <1>2, <1>5, <2>2, BlockFits, RegionsApart, MapAssumption
  <2>4. ASSUME NEW a \in DramAddr
        PROVE  ram'.Dram[a - DRAM_BASE] =
                 IF a \in block THEN bytes[a - addr + 1] ELSE ram.Dram[a - DRAM_BASE]
    <3>1. a \in Int /\ a - DRAM_BASE \in DOMAIN ram.Dram
      BY <1>2, <1>3 DEF Window, RamType
    <3>2. (a - DRAM_BASE) - (addr - DRAM_BASE) + 1 = a - addr + 1
      BY <3>1, <1>2
    <3>3. addr - DRAM_BASE <= a - DRAM_BASE /\ a - DRAM_BASE < addr - DRAM_BASE + Len(bytes)
             <=> a \in block
      BY <3>1, <1>2 DEF Window
    <3>4. ram'.Dram = [x \in DOMAIN ram.Dram |->
                          IF addr - DRAM_BASE <= x /\ x < addr - DRAM_BASE + Len(bytes)
                          THEN bytes[x - (addr - DRAM_BASE) + 1] ELSE ram.Dram[x]]
      BY <1>3, <2>1 DEF PutBlock, RamType
    <3> HIDE DEF block
    <3> QED BY <3>1, <3>2, <3>3, <3>4
  <2>5. ram'.Iram = ram.Iram
    BY <1>3, <2>1 DEF PutBlock, RamType
  <2> QED BY <1>1, <2>3, <2>4, <2>5, RegionsApart DEF FlatRam
<1>6. CASE addr \notin IramAddr \cup DramAddr
  BY <1>6, DecodeIsMap DEF BlockReply, Failed, Err, Region
<1> QED BY <1>4, <1>5, <1>6

-----------------------------------------------------------------------------
(* Any sequence of bus calls is a behaviour of the flat memory: stores     *)
(* change exactly what they name, loads return what was stored, errors     *)
(* change nothing, and transmitted bytes are handed out once, in order.    *)
THEOREM BusImplementsMemory == CallSpec => BusIsFlatMemory
<1>1. CallInit => Flat!MemoryInit
  <2> SUFFICES ASSUME CallInit PROVE Flat!MemoryInit
    OBVIOUS
  <2>1. FlatRam = [a \in Flat!RamAddr |-> 0]
    <3>1. Flat!RamAddr = Window(IRAM_BASE, IRAM_SIZE) \cup Window(DRAM_BASE, DRAM_SIZE)
      BY SameProfile DEF Flat!RamAddr, Flat!Iram, Flat!Dram
    <3>2. \A a \in Window(IRAM_BASE, IRAM_SIZE) : ram["Iram"][a - IRAM_BASE] = 0
      BY MapAssumption DEF CallInit, BusInit, Window, WholeWords
    <3>3. \A a \in Window(DRAM_BASE, DRAM_SIZE) : ram["Dram"][a - DRAM_BASE] = 0
      BY MapAssumption DEF CallInit, BusInit, Window, WholeWords
    <3> QED BY <3>1, <3>2, <3>3 DEF FlatRam
  <2>2. taken \o uart.tx = <<>> /\ Len(taken) = 0
    BY DEF CallInit, BusInit
  <2> QED BY <2>1, <2>2 DEF CallInit, Flat!MemoryInit
<1>2. CallTypeOK /\ [CallNext]_callVars => [Flat!MemoryNext]_(Flat!memoryVars)
  <2> SUFFICES ASSUME CallTypeOK, [CallNext]_callVars
               PROVE  [Flat!MemoryNext]_(Flat!memoryVars)
    OBVIOUS
  <2>w. CallAddr \subseteq Word /\ CallValue \subseteq Word /\ CallBlock \subseteq Seq(Byte)
    BY CallAssumption
  <2>1. ASSUME NEW addr \in CallAddr, NEW size \in Width, CallLoad(addr, size)
        PROVE  Flat!MemoryNext
    <3>1. UNCHANGED <<FlatRam, taken \o uart.tx, Len(taken)>>
      BY <2>1 DEF CallLoad, busVars, FlatRam
    <3>2. CASE Failed(LoadReply(addr, size))
      <4>1. LoadReply(addr, size) = AccessReply(addr, size) /\ Failed(AccessReply(addr, size))
        BY <3>2 DEF LoadReply, Failed, Ok
      <4>2. Flat!Fail("load", addr, Flat!SingleFault(addr, size))
        BY <2>1, <2>w, <3>1, <3>2, <4>1, SameFaults DEF CallLoad, Outcome, Flat!Fail
      <4> QED BY <4>2 DEF Flat!MemoryNext, Width
    <3>3. CASE ~ Failed(LoadReply(addr, size))
      <4>1. Flat!SingleFault(addr, size) = {}
        BY <2>w, <3>3, SameFaults DEF LoadReply
      <4>2. LoadReply(addr, size).value = Flat!Reads(addr, size)
        BY <2>w, <3>3, LoadIsFlat
      <4>3. Flat!Load(addr, size)
        BY <2>1, <3>1, <3>3, <4>1, <4>2 DEF CallLoad, Flat!Load
      <4> QED BY <4>3 DEF Flat!MemoryNext, Width
    <3> QED BY <3>2, <3>3
  <2>2. ASSUME NEW addr \in CallAddr, NEW size \in Width, NEW value \in CallValue,
               CallStore(addr, size, value)
        PROVE  Flat!MemoryNext
    <3>1. CASE Failed(StoreReply(addr, size))
      <4>1. UNCHANGED busVars
        BY <2>2, <3>1 DEF CallStore, Store
      <4>2. UNCHANGED <<FlatRam, taken \o uart.tx, Len(taken)>>
        BY <2>2, <4>1 DEF CallStore, busVars, FlatRam
      <4>3. Flat!Fail("store", addr, Flat!SingleFault(addr, size))
        BY <2>2, <2>w, <3>1, <4>2, SameFaults DEF CallStore, StoreReply, Outcome, Flat!Fail
      <4> QED BY <4>3 DEF Flat!MemoryNext, Width
    <3>2. CASE ~ Failed(StoreReply(addr, size))
      <4>1. /\ Store(addr, size, value) /\ taken' = taken
            /\ reply' = Outcome("store", addr, StoreReply(addr, size))
        BY <2>2 DEF CallStore
      <4>2. Flat!SingleFault(addr, size) = {} /\ StoreReply(addr, size).kind = "Ok"
        BY <2>w, <3>2, SameFaults DEF StoreReply
      <4>3. FlatRam' = [a \in Flat!RamAddr |->
                          IF a \in Flat!Window(addr, size) THEN Flat!ByteOf(value, a - addr)
                          ELSE FlatRam[a]]
        BY <2>w, <3>2, <4>1, StoreIsFlat, SameProfile
      <4>4. (taken \o uart.tx)' = IF addr \in Flat!FifoAddr
                                  THEN Append(taken \o uart.tx, value % BYTE)
                                  ELSE taken \o uart.tx
        BY <2>w, <3>2, <4>1, StoreIsSent
      <4>5. Flat!Store(addr, size, value)
        BY <4>1, <4>2, <4>3, <4>4 DEF Flat!Store, Outcome
      <4> QED BY <4>5 DEF Flat!MemoryNext, Width
    <3> QED BY <3>1, <3>2
  <2>3. ASSUME NEW addr \in CallAddr, NEW bytes \in CallBlock, CallWriteBlock(addr, bytes)
        PROVE  Flat!MemoryNext
    <3>t. Len(bytes) \in Nat /\ addr \in Word /\ bytes \in Seq(Byte)
      BY <2>w
    <3>1. UNCHANGED <<taken \o uart.tx, Len(taken)>>
      BY <2>3 DEF CallWriteBlock, WriteBlock
    <3>2. CASE Failed(BlockReply(addr, Len(bytes)))
      <4>1. FlatRam' = FlatRam
        BY <2>3, <3>2 DEF CallWriteBlock, WriteBlock, FlatRam
      <4>2. Flat!Fail("block", addr, Flat!BlockFault(addr, Len(bytes)))
        BY <2>3, <3>t, <3>1, <3>2, <4>1, SameBlockFaults
           DEF CallWriteBlock, Outcome, Flat!Fail
      <4> QED BY <4>2 DEF Flat!MemoryNext
    <3>3. CASE ~ Failed(BlockReply(addr, Len(bytes)))
      <4>1. WriteBlock(addr, bytes)
        BY <2>3 DEF CallWriteBlock
      <4>2. /\ Flat!BlockFault(addr, Len(bytes)) = {}
            /\ BlockReply(addr, Len(bytes)).kind = "Ok"
        BY <3>t, <3>3, SameBlockFaults
      <4>3. FlatRam' = [a \in Flat!RamAddr |->
                          IF a \in Flat!Window(addr, Len(bytes)) THEN bytes[a - addr + 1]
                          ELSE FlatRam[a]]
        BY <3>t, <3>3, <4>1, BlockIsFlat, SameProfile
      <4>4. Flat!Fill(addr, bytes)
        BY <2>3, <3>1, <4>2, <4>3 DEF CallWriteBlock, Outcome, Flat!Fill
      <4> QED BY <4>4 DEF Flat!MemoryNext
    <3> QED BY <3>2, <3>3
  <2>4. CASE CallTakePending
    <3>1. uart.tx \in Seq(Byte) /\ taken \in Seq(Byte) /\ uart \in UartType
      BY DEF CallTypeOK, BusTypeOK, UartType
    <3>2. uart'.tx = <<>> /\ taken' = taken \o uart.tx
      BY <2>4, <3>1 DEF CallTakePending, TakePending, UartType
    <3>3. (taken \o uart.tx)' = taken \o uart.tx
      BY <3>1, <3>2
    <3>4. SubSeq(taken \o uart.tx, Len(taken) + 1, Len(taken \o uart.tx)) = uart.tx
      BY <3>1
    <3>5. FlatRam' = FlatRam
      BY <2>4 DEF CallTakePending, TakePending, FlatRam
    <3>6. Flat!Take
      BY <2>4, <3>2, <3>3, <3>4, <3>5 DEF CallTakePending, Flat!Take
    <3> QED BY <3>6 DEF Flat!MemoryNext
  <2>5. CASE UNCHANGED callVars
    BY <2>5 DEF callVars, busVars, FlatRam, Flat!memoryVars
  <2> QED BY <2>1, <2>2, <2>3, <2>4, <2>5 DEF CallNext
<1> QED BY <1>1, <1>2, CallTyping, PTL DEF CallSpec, BusIsFlatMemory, Flat!MemorySpec
=============================================================================
