-------------------------------- MODULE Bus --------------------------------
(***************************************************************************)
(* The memory bus and the one peripheral behind it:                        *)
(* crates/simulatr-core/src/mem/bus.rs and periph/uart.rs.                 *)
(*                                                                         *)
(* `ram' holds the two byte arrays of `struct Bus', indexed by region;     *)
(* `uart' is `struct Uart'.  Every fallible call is split in two: a state  *)
(* function that is the Result the caller gets (XxxReply), and an action   *)
(* that is the call's effect.                                              *)
(***************************************************************************)
EXTENDS Esp32, Sequences

VARIABLES ram, uart

busVars == <<ram, uart>>

Region == {"Iram", "Dram"}
RegionSize(at) == IF at = "Iram" THEN IRAM_SIZE ELSE DRAM_SIZE

(* Access widths are their byte counts (enum Width). *)
Width == {1, 2, 4}

Ok(value) == [kind |-> "Ok", value |-> value]
Err(kind, addr) == [kind |-> kind, addr |-> addr]
Failed(reply) == reply.kind # "Ok"

ErrorKind == {"Unmapped", "UnimplementedPeripheral", "Unaligned", "RegionOverrun"}
Result == [kind : {"Ok"}, value : Word] \cup [kind : ErrorKind, addr : Word]

-----------------------------------------------------------------------------
(* u32::from_le_bytes. *)
FromLeBytes(bs) == bs[0] + BYTE * (bs[1] + BYTE * (bs[2] + BYTE * bs[3]))

(* read_le and write_le on one region's bytes. *)
ReadLe(mem, offset, size) ==
    FromLeBytes([i \in 0 .. 3 |-> IF i < size THEN mem[offset + i] ELSE 0])

(* Mutant: every store writes four bytes. *)
WriteWord(mem, offset, size, value) ==
    [x \in DOMAIN mem |->
        IF offset <= x /\ x < offset + 4 THEN ByteOf(value, x - offset) ELSE mem[x]]

WriteLe(mem, offset, size, value) ==
    [x \in DOMAIN mem |->
        IF offset <= x /\ x < offset + size THEN ByteOf(value, x - offset) ELSE mem[x]]

-----------------------------------------------------------------------------
(* UART0. *)
ReadReg(offset) == 0

(* Mutant: the whole register value is pushed, not its low byte. *)
UnmaskedWriteReg(u, offset, value) ==
    IF offset = FIFO
        THEN [tx |-> Append(u.tx, value), transmitted |-> u.transmitted + 1]
        ELSE u

WriteReg(u, offset, value) ==
    IF offset = FIFO
        THEN [tx |-> Append(u.tx, value % BYTE), transmitted |-> u.transmitted + 1]
        ELSE u

(* The `size' bytes at addr's offset in a 32-bit register value. *)
SubWord(word, addr, size) ==
    IF size = 4 THEN word ELSE (word \div Weight(addr % 4)) % Weight(size)

-----------------------------------------------------------------------------
(* Single accesses.  What `load' and `store' check, in their order:        *)
(* alignment, the address map, the end of the region.                      *)
AccessReply(addr, size) ==
    LET to == Decode(addr) IN
    IF addr % size # 0 THEN Err("Unaligned", addr)
    ELSE IF to.at = "UnmappedPeripheral" THEN Err("UnimplementedPeripheral", addr)
    ELSE IF to.at = "Unmapped" THEN Err("Unmapped", addr)
    ELSE IF to.at \in Region /\ to.offset + size > RegionSize(to.at)
        THEN Err("RegionOverrun", addr)
    ELSE Ok(0)

(* read8, read16, read32: the value is zero-extended.  Peripheral registers *)
(* are read as whole words and sliced.                                      *)
LoadReply(addr, size) ==
    LET to == Decode(addr)
        access == AccessReply(addr, size)
    IN  IF Failed(access) THEN access
        ELSE IF to.at \in Region THEN Ok(ReadLe(ram[to.at], to.offset, size))
        ELSE Ok(SubWord(ReadReg(AlignDown(to.offset, 4)), addr, size))

(* write8, write16, write32.  A sub-word store to a peripheral counts as a *)
(* store of the value to the whole register.                               *)
StoreReply(addr, size) == AccessReply(addr, size)

Store(addr, size, value) ==
    LET to == Decode(addr) IN
    \/ /\ Failed(StoreReply(addr, size))
       /\ UNCHANGED busVars
    \/ /\ ~Failed(StoreReply(addr, size)) /\ to.at \in Region
       /\ ram' = [ram EXCEPT ![to.at] = WriteLe(@, to.offset, size, value)]
       /\ UNCHANGED uart
    \/ /\ ~Failed(StoreReply(addr, size)) /\ to.at = "Uart0"
       /\ uart' = WriteReg(uart, AlignDown(to.offset, 4), value)
       /\ UNCHANGED ram

-----------------------------------------------------------------------------
(* Bulk access, used by the loader: RAM only, and within one region. *)
(* Mutant: a block may not reach the last byte of its region. *)
StrictBlockReply(addr, len) ==
    LET to == Decode(addr) IN
    IF to.at \notin Region THEN Err("Unmapped", addr)
    ELSE IF to.offset + len >= RegionSize(to.at) THEN Err("RegionOverrun", addr)
    ELSE Ok(0)

BlockReply(addr, len) ==
    LET to == Decode(addr) IN
    IF to.at \notin Region THEN Err("Unmapped", addr)
    ELSE IF to.offset + len > RegionSize(to.at) THEN Err("RegionOverrun", addr)
    ELSE Ok(0)

(* The RAM r with `bytes' copied to addr; meaningful when BlockReply is Ok. *)
PutBlock(r, addr, bytes) ==
    LET to == Decode(addr) IN
    [r EXCEPT ![to.at] =
        [x \in DOMAIN @ |->
            IF to.offset <= x /\ x < to.offset + Len(bytes)
            THEN bytes[x - to.offset + 1]
            ELSE @[x]]]

Zeros(len) == [i \in 1 .. len |-> 0]

WriteBlock(addr, bytes) ==
    /\ ram' = IF Failed(BlockReply(addr, Len(bytes))) THEN ram ELSE PutBlock(ram, addr, bytes)
    /\ UNCHANGED uart

ZeroBlock(addr, len) == WriteBlock(addr, Zeros(len))

(* Mutant: taking the pending bytes replaces the whole UART. *)
TakeEverything ==
    /\ uart' = [tx |-> <<>>, transmitted |-> 0]
    /\ UNCHANGED ram

(* Uart::take_pending. *)
TakePending ==
    /\ uart' = [uart EXCEPT !.tx = <<>>]
    /\ UNCHANGED ram

-----------------------------------------------------------------------------
RamType == [Iram : [0 .. IRAM_SIZE - 1 -> Byte], Dram : [0 .. DRAM_SIZE - 1 -> Byte]]
UartType == [tx : Seq(Byte), transmitted : Nat]

BusTypeOK == ram \in RamType /\ uart \in UartType

(* Bus::new: RAM starts zeroed. *)
BusInit ==
    /\ ram = [Iram |-> [x \in 0 .. IRAM_SIZE - 1 |-> 0],
              Dram |-> [x \in 0 .. DRAM_SIZE - 1 |-> 0]]
    /\ uart = [tx |-> <<>>, transmitted |-> 0]
=============================================================================
