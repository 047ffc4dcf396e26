------------------------------- MODULE MCCli --------------------------------
(***************************************************************************)
(* Firmware that prints three bytes and returns, spins, is cut short by    *)
(* the budget or faults, and an image that does not load; buffers that     *)
(* hold two of the bytes and one line of the trace.                        *)
(***************************************************************************)
EXTENDS Cli, Bitwise

MCIsNarrow(first) == first = 3
MCBitAnd(a, b) == a & b
MCBitOr(a, b) == a | b
MCBitXor(a, b) == a ^^ b

Plain(op) == [op |-> op]

(* Wide words are <<1, row, 0>>, narrow ones <<3, 0>>. *)
Rows(at) ==
    <<[op |-> "L32r", dst |-> 2, literal |-> DRAM_BASE],
      [op |-> "Store", kind |-> "U8", src |-> 1, base |-> 2, offset |-> 0],
      [op |-> "Movi", dst |-> 1, imm |-> 1],
      [op |-> "Addi", dst |-> 1, src |-> 1, imm |-> 1],
      [op |-> "Jump", target |-> at]>>

MCDecodeInst(at, word, size) ==
    IF <<size, word>> = <<2, 3>> THEN Plain("Ret")
    ELSE IF word \in {1, 5, 9, 13, 17} /\ size = 3 THEN Rows(at)[(word + 3) \div 4]
    ELSE Plain("Illegal")

(* The bytes printed are 1, 2 and 3. *)
Setup == <<1, 0, 0>> \o <<1, 2, 0>>
Send == <<1, 1, 0>>
Increment == <<1, 3, 0>>
SendsThree == Setup \o Send \o Increment \o Send \o Increment \o Send

Returns == SendsThree \o <<3, 0>>
Spins == Setup \o Send \o <<1, 0, 1>>
Faults == SendsThree \o <<0, 0, 0>>
Literal == <<0, 0, 1, 1>>

Code(vaddr, len) ==
    [load |-> TRUE, offset |-> 0, vaddr |-> vaddr, filesz |-> len, memsz |-> len]

Firmware(code) ==
    [bad |-> {}, entry |-> IRAM_BASE, phoff |-> Len(code) + 2, phnum |-> 2,
     file |-> code \o Literal,
     phdrs |-> <<Code(IRAM_BASE, Len(code)),
                 [Code(DRAM_BASE, 4) EXCEPT !.offset = Len(code)]>>]

MCImages == {Firmware(Returns), Firmware(Spins), Firmware(Faults),
             [Firmware(Spins) EXCEPT !.bad = {2}],
             [Firmware(Spins) EXCEPT !.phdrs[2].memsz = DRAM_SIZE + 4]}

MCBudgets == {5, 20}

(* In units of the limit's half: files within it, one beyond it, a device  *)
(* that has no length, one that cannot be read, and none.                  *)
Holding(img) == [there |-> TRUE, readable |-> TRUE, len |-> 2, image |-> img]
NotAnImage == Holding([Firmware(Spins) EXCEPT !.bad = {2}])
MCFiles ==
    {Holding(img) : img \in MCImages}
    \cup {[NotAnImage EXCEPT !.len = 3], [NotAnImage EXCEPT !.len = 0],
          [NotAnImage EXCEPT !.readable = FALSE], [NotAnImage EXCEPT !.there = FALSE]}

MCCapacity == [s \in Stream |-> IF s = "uart" THEN 2 ELSE 3]
=============================================================================
