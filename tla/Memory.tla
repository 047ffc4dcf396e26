------------------------------- MODULE Memory -------------------------------
(***************************************************************************)
(* What the bus promises its callers, said without regions, offsets or     *)
(* wrapping: one flat memory of bytes addressed by absolute address, and   *)
(* one stream of bytes the firmware has sent, handed out in order and      *)
(* once.  A call is one step; `reply' is the call and its result.          *)
(***************************************************************************)
EXTENDS Esp32, Sequences

CONSTANTS CallAddr, CallValue, CallBlock

VARIABLES mem, sent, handed, reply

memoryVars == <<mem, sent, handed, reply>>

Iram == Window(IRAM_BASE, IRAM_SIZE)
Dram == Window(DRAM_BASE, DRAM_SIZE)
RamAddr == Iram \cup Dram
UartAddr == Window(UART0_BASE, UART_REGS_SIZE)
PeripheralAddr == Window(PERIPHERAL_BASE, PERIPHERAL_SIZE) \ UartAddr

(* The bytes of the UART's FIFO register. *)
FifoAddr == Window(UART0_BASE + FIFO, 4)

(* How a call at `addr' ends when it does not succeed.                     *)
SingleFault(addr, size) ==
    IF addr % size # 0 THEN {"Unaligned"}
    ELSE IF addr \in PeripheralAddr THEN {"UnimplementedPeripheral"}
    ELSE IF addr \notin RamAddr \cup UartAddr THEN {"Unmapped"}
    ELSE {}

BlockFault(addr, len) ==
    IF addr \notin RamAddr THEN {"Unmapped"}
    ELSE IF \E part \in {Iram, Dram} : addr \in part /\ Window(addr, len) \subseteq part THEN {}
    ELSE {"RegionOverrun"}

(* Little-endian: the byte at address addr + i weighs BYTE^i. *)
FlatRead(addr, size) ==
    LET byte(i) == IF i < size THEN mem[addr + i] * Weight(i) ELSE 0
    IN  byte(0) + byte(1) + byte(2) + byte(3)

Reads(addr, size) == IF addr \in RamAddr THEN FlatRead(addr, size) ELSE 0

-----------------------------------------------------------------------------
Fail(call, addr, faults) ==
    /\ \E fault \in faults : reply' = [call |-> call, addr |-> addr, result |-> fault]
    /\ UNCHANGED <<mem, sent, handed>>

Load(addr, size) ==
    /\ SingleFault(addr, size) = {}
    /\ reply' = [call |-> "load", addr |-> addr, result |-> "Ok",
                 size |-> size, value |-> Reads(addr, size)]
    /\ UNCHANGED <<mem, sent, handed>>

Store(addr, size, value) ==
    /\ SingleFault(addr, size) = {}
    /\ reply' = [call |-> "store", addr |-> addr, result |-> "Ok"]
    /\ mem' = [a \in RamAddr |->
                  IF a \in Window(addr, size) THEN ByteOf(value, a - addr) ELSE mem[a]]
    /\ sent' = IF addr \in FifoAddr THEN Append(sent, value % BYTE) ELSE sent
    /\ UNCHANGED handed

Fill(addr, bytes) ==
    /\ BlockFault(addr, Len(bytes)) = {}
    /\ reply' = [call |-> "block", addr |-> addr, result |-> "Ok"]
    /\ mem' = [a \in RamAddr |->
                  IF a \in Window(addr, Len(bytes)) THEN bytes[a - addr + 1] ELSE mem[a]]
    /\ UNCHANGED <<sent, handed>>

(* Every byte sent and not yet handed out, in the order sent. *)
Take ==
    /\ reply' = [call |-> "take", bytes |-> SubSeq(sent, handed + 1, Len(sent))]
    /\ handed' = Len(sent)
    /\ UNCHANGED <<mem, sent>>

MemoryInit ==
    /\ mem = [a \in RamAddr |-> 0]
    /\ sent = <<>>
    /\ handed = 0
    /\ reply = [call |-> "none"]

MemoryNext ==
    \/ \E addr \in CallAddr, size \in {1, 2, 4} :
          \/ Fail("load", addr, SingleFault(addr, size))
          \/ Fail("store", addr, SingleFault(addr, size))
          \/ Load(addr, size)
          \/ \E value \in CallValue : Store(addr, size, value)
    \/ \E addr \in CallAddr, bytes \in CallBlock :
          \/ Fail("block", addr, BlockFault(addr, Len(bytes)))
          \/ Fill(addr, bytes)
    \/ Take

MemorySpec == MemoryInit /\ [][MemoryNext]_memoryVars
=============================================================================
