------------------------------- MODULE MCCpu -------------------------------
(***************************************************************************)
(* A core of three registers with 2-bit bytes.  A first byte of 3 starts a *)
(* narrow form.  The tables below give a meaning to sixteen wide words for *)
(* each other first byte and to four narrow ones; together they use every  *)
(* variant of Inst.                                                        *)
(***************************************************************************)
EXTENDS Cpu, Bitwise

MCIsNarrow(first) == first = 3

Neg(n) == WORD - n

Ld(kind, dst, base, offset) ==
    [op |-> "Load", kind |-> kind, dst |-> dst, base |-> base, offset |-> offset]
St(kind, src, base, offset) ==
    [op |-> "Store", kind |-> kind, src |-> src, base |-> base, offset |-> offset]
Lit(dst, literal) == [op |-> "L32r", dst |-> dst, literal |-> literal]
Imm(dst, imm) == [op |-> "Movi", dst |-> dst, imm |-> imm]
Inc(dst, src, imm) == [op |-> "Addi", dst |-> dst, src |-> src, imm |-> imm]
Alu(alu) == [op |-> "Alu", alu |-> alu, dst |-> 1, lhs |-> 1, rhs |-> 2]
Move(dst, src) == [op |-> "Mov", dst |-> dst, src |-> src]
Plain(op) == [op |-> op]
To(op, target) == [op |-> op, target |-> target]
Via(op, reg) == [op |-> op, reg |-> reg]
Br(cond, lhs, rhs, target) ==
    [op |-> "Branch", cond |-> cond, lhs |-> lhs, rhs |-> rhs, target |-> target]
Bz(cond, src, target) == [op |-> "BranchZero", cond |-> cond, src |-> src, target |-> target]

MemoryGroup ==
    <<Plain("Illegal"), Lit(2, DRAM_BASE), Lit(2, DRAM_BASE + 4), Lit(1, DRAM_BASE + 2),
      Ld("U8", 1, 2, 0), Ld("U16", 1, 2, 2), Ld("I16", 1, 1, 0), Ld("U32", 1, 1, 8),
      St("U8", 1, 2, 1), St("U16", 0, 2, 2), St("U32", 0, 1, 0), St("U8", 2, 2, 0),
      St("U32", 2, 0, 0), Plain("Unsupported"), Plain("Memw"), Plain("Nop")>>

ArithGroup ==
    <<Imm(1, Neg(1)), Imm(2, IRAM_BASE), Imm(2, IRAM_BASE + 3), Inc(1, 1, 1),
      Inc(1, 1, Neg(4)), Inc(2, 2, 3), Alu("Add"), Alu("Sub"), Alu("And"), Alu("Or"),
      Alu("Xor"), Move(0, 2), Move(2, 0), Inc(0, 0, Neg(1)), Imm(0, HALT_ADDRESS),
      Imm(0, IRAM_BASE + 3)>>

ControlGroup(at) ==
    <<To("Jump", at), To("Jump", WrapAdd(at, 6)), Via("JumpReg", 2),
      To("Call", WrapAdd(AlignDown(at, 4), 4)), Via("CallReg", 2), Via("CallReg", 0),
      Br("Eq", 1, 2, at), Br("Ne", 0, 2, WrapAdd(at, 5)), Br("Lt", 1, 2, WrapAdd(at, 4)),
      Br("Ge", 1, 0, WrapAdd(at, 6)), Br("Ltu", 2, 1, at), Br("Geu", 2, 1, WrapAdd(at, 7)),
      Bz("Eq", 2, WrapAdd(at, 6)), Bz("Ne", 1, WrapAdd(at, Neg(3))), Bz("Lt", 1, at),
      Bz("Ge", 1, WrapAdd(at, 4))>>

NarrowGroup == <<Plain("Ret"), Move(2, 1), Plain("Nop"), Plain("Illegal")>>

MCDecodeInst(at, word, size) ==
    LET row == ((word \div BYTE) % 16) + 1 IN
    CASE size = 2 -> NarrowGroup[((word \div BYTE) % 4) + 1]
      [] size = 3 /\ word % BYTE = 0 -> MemoryGroup[row]
      [] size = 3 /\ word % BYTE = 1 -> ArithGroup[row]
      [] OTHER -> ControlGroup(at)[row]

MCBitAnd(a, b) == a & b
MCBitOr(a, b) == a | b
MCBitXor(a, b) == a ^^ b

(* Two arbitrary wide words, then `ret' in narrow form: and, as words are  *)
(* read wherever control lands, every overlapping reading of these bytes.  *)
(* DRAM starts with the literals UART0_BASE and IRAM_BASE + 3.             *)
Program(word1, word2) ==
    LET byte(w, i) == ByteOf(w, i) IN
    [x \in 0 .. 7 |->
        CASE x < 3 -> byte(word1, x) [] x \in 3 .. 5 -> byte(word2, x - 3)
          [] x = 6 -> 3 [] x = 7 -> 0]

Literals == <<0, 0, 1, 1, 3, 0, 2, 2, 1, 2, 0, 0, 0, 0, 0, 0>>

MCRamImages ==
    {[Iram |-> Program(word1, word2), Dram |-> [x \in 0 .. 15 |-> Literals[x + 1]]] :
        word1, word2 \in 0 .. 63}

MCEntries == {IRAM_BASE, HALT_ADDRESS, IRAM_BASE + 7}
=============================================================================
