----------------------------- MODULE MCMachine ------------------------------
(***************************************************************************)
(* Firmware of up to four instructions for the core of MCCpu: one that     *)
(* prints and returns, one that spins, one that loops for ever, ones that  *)
(* print and then fault, one that rewrites the instruction it is at; and   *)
(* images that do not load.                                                *)
(***************************************************************************)
EXTENDS Trace, Bitwise

MCIsNarrow(first) == first = 3
MCBitAnd(a, b) == a & b
MCBitOr(a, b) == a | b
MCBitXor(a, b) == a ^^ b

Plain(op) == [op |-> op]

(* Wide words are <<group, row>>: the opcode byte and the other two bytes. *)
MCDecodeInst(at, word, size) ==
    LET row == (word \div BYTE) % 16 IN
    IF size = 2 THEN IF row < 2 THEN Plain("Ret") ELSE Plain("Illegal")
    ELSE CASE word = 1 -> [op |-> "L32r", dst |-> 2, literal |-> DRAM_BASE]
           [] word = 5 -> [op |-> "Store", kind |-> "U8", src |-> 2, base |-> 2, offset |-> 0]
           [] word = 9 -> [op |-> "Store", kind |-> "U32", src |-> 1, base |-> 2, offset |-> 0]
           [] word = 13 -> [op |-> "Jump", target |-> at]
           [] word = 17 -> [op |-> "Jump", target |-> WrapAdd(at, WORD - 3)]
           [] word = 21 -> [op |-> "CallReg", reg |-> 0]
           [] word = 25 -> [op |-> "Movi", dst |-> 1, imm |-> 1]
           [] OTHER -> Plain("Illegal")

(* Segments of the one file all images share: code, then the literal. *)
Prints == <<1, 0, 0>> \o <<1, 1, 0>> \o <<1, 2, 0>> \o <<3, 0>>
Spins == <<1, 0, 0>> \o <<1, 1, 0>> \o <<1, 3, 0>>
Loops == <<1, 2, 1>> \o <<1, 2, 1>> \o <<1, 0, 1>>
Calls == <<1, 1, 1>>
Literal == <<0, 0, 1, 1>>

(* The store puts the low byte of its own address, 163, over its opcode:   *)
(* when the jump comes back to it, it is a two-byte return.                *)
Rewrites == <<1, 0, 0>> \o <<1, 1, 0>> \o <<1, 0, 1>>
OwnAddress == <<3, 0, 2, 2>>

Code(vaddr, len, memsz) ==
    [load |-> TRUE, offset |-> 0, vaddr |-> vaddr, filesz |-> len, memsz |-> memsz]

FirmwareWith(code, entry, literal) ==
    [bad |-> {}, entry |-> entry, phoff |-> Len(code) + 2, phnum |-> 2, file |-> code \o literal,
     phdrs |-> <<Code(IRAM_BASE, Len(code), Len(code)),
                 [Code(DRAM_BASE, 4, 4) EXCEPT !.offset = Len(code)]>>]

Firmware(code, entry) == FirmwareWith(code, entry, Literal)

(* The code is placed, and then the second segment does not fit. *)
HalfLoads ==
    [Firmware(Spins, IRAM_BASE) EXCEPT
        !.phdrs = <<Code(IRAM_BASE, 6, 6), Code(DRAM_BASE, 4, DRAM_SIZE + 4)>>]

MCImages ==
    {Firmware(Prints, IRAM_BASE), Firmware(Spins, IRAM_BASE), Firmware(Loops, IRAM_BASE),
     Firmware(Calls, IRAM_BASE), Firmware(Spins, HALT_ADDRESS),
     FirmwareWith(Rewrites, IRAM_BASE, OwnAddress),
     Firmware(<<1, 0, 0>> \o <<1, 1, 0>> \o <<0, 0, 0>>, IRAM_BASE), HalfLoads}

MCBudgets == {0, 2, 5}

(* A byte into the FIFO, and an illegal word over the start of the code. *)
MCHostStores == {<<UART0_BASE, 1, 2>>, <<IRAM_BASE, 4, 0>>}
=============================================================================
