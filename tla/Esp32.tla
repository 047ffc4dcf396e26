------------------------------- MODULE Esp32 -------------------------------
(***************************************************************************)
(* The SoC profile: crates/simulatr-core/src/soc/esp32.rs.                 *)
(*                                                                         *)
(* The address map is a parameter.  A byte has BYTE values and a machine   *)
(* word is four bytes, so WORD plays the part of 2^32: the code is the     *)
(* instance BYTE = 256, TLC checks the instance BYTE = 4, whose 256        *)
(* addresses it can enumerate.  Arithmetic that wraps in the code wraps    *)
(* here, at WORD.                                                          *)
(***************************************************************************)
EXTENDS Integers

CONSTANTS
    BYTE,                               \* number of values of a byte
    IRAM_BASE, IRAM_SIZE,
    DRAM_BASE, DRAM_SIZE,
    PERIPHERAL_BASE, PERIPHERAL_SIZE,
    UART0_BASE, UART_REGS_SIZE,
    FIFO, STATUS                        \* register offsets in the UART block

WORD == BYTE * BYTE * BYTE * BYTE

Byte == 0 .. BYTE - 1
Word == 0 .. WORD - 1

ASSUME ByteAssumption == BYTE \in Nat /\ BYTE >= 2

(* A word is four bytes; byte i, from the least significant, weighs Weight(i). *)
Weight(i) == CASE i = 0 -> 1
               [] i = 1 -> BYTE
               [] i = 2 -> BYTE * BYTE
               [] i = 3 -> BYTE * BYTE * BYTE

ByteOf(value, i) == (value \div Weight(i)) % BYTE

-----------------------------------------------------------------------------
(* The window of `size' addresses from `base'. *)
Window(base, size) == base .. base + size - 1

(* A region is made of whole, aligned 32-bit words and ends inside the     *)
(* address space.                                                          *)
WholeWords(base, size) ==
    /\ base \in Nat /\ base % 4 = 0
    /\ size \in Nat /\ size % 4 = 0 /\ size > 0
    /\ base + size <= WORD

Disjoint(base1, size1, base2, size2) ==
    base1 + size1 <= base2 \/ base2 + size2 <= base1

ASSUME MapAssumption ==
    /\ WholeWords(IRAM_BASE, IRAM_SIZE)
    /\ WholeWords(DRAM_BASE, DRAM_SIZE)
    /\ WholeWords(UART0_BASE, UART_REGS_SIZE)
    /\ WholeWords(PERIPHERAL_BASE, PERIPHERAL_SIZE)

ASSUME DisjointAssumption ==
    /\ Disjoint(IRAM_BASE, IRAM_SIZE, DRAM_BASE, DRAM_SIZE)
    /\ Disjoint(IRAM_BASE, IRAM_SIZE, PERIPHERAL_BASE, PERIPHERAL_SIZE)
    /\ Disjoint(DRAM_BASE, DRAM_SIZE, PERIPHERAL_BASE, PERIPHERAL_SIZE)
    /\ PERIPHERAL_BASE <= UART0_BASE
    /\ UART0_BASE + UART_REGS_SIZE <= PERIPHERAL_BASE + PERIPHERAL_SIZE

ASSUME RegisterAssumption ==
    /\ FIFO \in 0 .. UART_REGS_SIZE - 1 /\ FIFO % 4 = 0
    /\ STATUS \in 0 .. UART_REGS_SIZE - 1 /\ STATUS % 4 = 0
    /\ FIFO # STATUS

ASSUME StackAssumption == DRAM_BASE + DRAM_SIZE >= 16

-----------------------------------------------------------------------------
(* u32::wrapping_add and u32::wrapping_sub. *)
WrapAdd(a, b) == IF a + b >= WORD THEN a + b - WORD ELSE a + b
WrapSub(a, b) == IF a >= b THEN a - b ELSE a - b + WORD

(* The test decode() makes of one region. *)
Covers(base, size, addr) == WrapSub(addr, base) < size

(* Where an address lands, with the offset in what it landed in.  The      *)
(* order of the tests is the code's: UART0 lies in the peripheral window.  *)
Decode(addr) ==
    IF Covers(IRAM_BASE, IRAM_SIZE, addr)
        THEN [at |-> "Iram", offset |-> addr - IRAM_BASE]
    ELSE IF Covers(DRAM_BASE, DRAM_SIZE, addr)
        THEN [at |-> "Dram", offset |-> addr - DRAM_BASE]
    ELSE IF Covers(UART0_BASE, UART_REGS_SIZE, addr)
        THEN [at |-> "Uart0", offset |-> addr - UART0_BASE]
    ELSE IF Covers(PERIPHERAL_BASE, PERIPHERAL_SIZE, addr)
        THEN [at |-> "UnmappedPeripheral", offset |-> 0]
    ELSE [at |-> "Unmapped", offset |-> 0]

(* Rounding down to a multiple of n, as in `x & !(n - 1)'. *)
AlignDown(x, n) == x - (x % n)

InitialStackPointer == AlignDown(DRAM_BASE + DRAM_SIZE - 16, 16)
=============================================================================
