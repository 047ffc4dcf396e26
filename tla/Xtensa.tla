------------------------------- MODULE Xtensa -------------------------------
(***************************************************************************)
(* The instruction decoder, crates/simulatr-core/src/cpu/decode.rs, field   *)
(* by field.  WORD is the number of addresses, 2^32 in the code; shifts    *)
(* and masks are \div and %.  The instruction decoded and the address it is *)
(* fetched from are the inputs, `result' is what decode() returns.         *)
(***************************************************************************)
EXTENDS Instructions

CONSTANTS WORD, Pcs, Words              \* address space; inputs to decode

Word == 0 .. WORD - 1
Reg == 0 .. 15

(* More than the reach of a call to either side. *)
ASSUME SpaceAssumption == WORD \in Nat /\ WORD > 1048576 /\ WORD % 1048576 = 0

-----------------------------------------------------------------------------
(* instruction_size(): bit 3 of the first byte. *)
IsNarrow(first) == (first \div 8) % 2 = 1
InstSize(first) == IF IsNarrow(first) THEN 2 ELSE 3

(* struct Fields: the views of an instruction word. *)
Op0(w) == w % 16
T(w) == (w \div 16) % 16
S(w) == (w \div 256) % 16
R(w) == (w \div 4096) % 16
Op1(w) == (w \div 65536) % 16
Op2(w) == (w \div 1048576) % 16
Imm8(w) == (w \div 65536) % 256
Imm12(w) == (w \div 4096) % 4096
Imm16(w) == (w \div 256) % 65536
Offset18(w) == (w \div 64) % 262144
M(w) == (w \div 64) % 4
N(w) == (w \div 16) % 4

(* sign_extend(), of a field with `range' values; and the word of an i32.  *)
SignExtend(value, range) == IF value >= range \div 2 THEN value - range ELSE value
Wrap(i) == i % WORD
WordAligned(x) == x - (x % 4)

(* Most targets are relative to the word after the instruction's address.  *)
Relative(pc, offset) == Wrap(pc + 4 + offset)

-----------------------------------------------------------------------------
(* op0 = 0: register to register. *)
(* Mutant: the window increment of CALLX is ignored. *)
AnyCallx(w) ==
    LET m == T(w) \div 4
        n == T(w) % 4
    IN  CASE m = 2 /\ n = 0 -> [op |-> "Ret"]
          [] m = 2 /\ n = 2 -> [op |-> "JumpReg", reg |-> S(w)]
          [] m = 2 /\ n = 1 -> Unsupported
          [] m = 3 -> [op |-> "CallReg", reg |-> S(w)]
          [] OTHER -> Illegal

DecodeSnm0(w) ==
    LET m == T(w) \div 4
        n == T(w) % 4
    IN  CASE m = 2 /\ n = 0 -> [op |-> "Ret"]
          [] m = 2 /\ n = 2 -> [op |-> "JumpReg", reg |-> S(w)]
          [] m = 2 /\ n = 1 -> Unsupported
          [] m = 3 /\ n = 0 -> [op |-> "CallReg", reg |-> S(w)]
          [] m = 3 /\ n # 0 -> Unsupported
          [] OTHER -> Illegal

(* Mutant: NOP is known in its narrow form only. *)
OnlyMemwSync(w) == IF T(w) = 12 THEN [op |-> "Memw"] ELSE Unsupported

DecodeSync(w) ==
    CASE T(w) = 12 -> [op |-> "Memw"]
      [] T(w) = 15 -> [op |-> "Nop"]
      [] OTHER -> Unsupported

DecodeSt0(w) ==
    CASE R(w) = 0 -> DecodeSnm0(w)
      [] R(w) = 2 -> DecodeSync(w)
      [] OTHER -> Unsupported

Alu(alu, w) == [op |-> "Alu", alu |-> alu, dst |-> R(w), lhs |-> S(w), rhs |-> T(w)]

DecodeQrst(w) ==
    CASE Op1(w) # 0 -> Unsupported
      [] Op1(w) = 0 /\ Op2(w) = 0 -> DecodeSt0(w)
      [] Op1(w) = 0 /\ Op2(w) = 1 -> Alu("And", w)
      [] Op1(w) = 0 /\ Op2(w) = 2 -> Alu("Or", w)
      [] Op1(w) = 0 /\ Op2(w) = 3 -> Alu("Xor", w)
      [] Op1(w) = 0 /\ Op2(w) = 8 -> Alu("Add", w)
      [] Op1(w) = 0 /\ Op2(w) = 12 -> Alu("Sub", w)
      [] OTHER -> Unsupported

(* Mutant: the literal's address does not wrap. *)
UnwrappedL32r(pc, w) ==
    [op |-> "L32r", dst |-> T(w),
     literal |-> WordAligned(Wrap(pc + 3)) + 4 * Imm16(w) - 262144]

(* op0 = 1: the literal lies below the end of the instruction, rounded down. *)
DecodeL32r(pc, w) ==
    [op |-> "L32r", dst |-> T(w),
     literal |-> Wrap(WordAligned(Wrap(pc + 3)) + 4 * Imm16(w) - 262144)]

(* op0 = 2: loads, stores and immediates. *)
LoadFrom(kind, scale, w) ==
    [op |-> "Load", kind |-> kind, dst |-> T(w), base |-> S(w), offset |-> Imm8(w) * scale]
StoreTo(kind, scale, w) ==
    [op |-> "Store", kind |-> kind, src |-> T(w), base |-> S(w), offset |-> Imm8(w) * scale]
AddImm(w, scale) ==
    [op |-> "Addi", dst |-> T(w), src |-> S(w),
     imm |-> Wrap(SignExtend(Imm8(w), 256) * scale)]

DecodeLsai(w) ==
    CASE R(w) = 0 -> LoadFrom("U8", 1, w)
      [] R(w) = 1 -> LoadFrom("U16", 2, w)
      [] R(w) = 2 -> LoadFrom("U32", 4, w)
      [] R(w) = 4 -> StoreTo("U8", 1, w)
      [] R(w) = 5 -> StoreTo("U16", 2, w)
      [] R(w) = 6 -> StoreTo("U32", 4, w)
      [] R(w) = 9 -> LoadFrom("I16", 2, w)
      [] R(w) = 10 -> [op |-> "Movi", dst |-> T(w),
                       imm |-> Wrap(SignExtend(S(w) * 256 + Imm8(w), 4096))]
      [] R(w) = 12 -> AddImm(w, 1)
      [] R(w) = 13 -> AddImm(w, 256)
      [] R(w) \in {3, 8} -> Illegal
      [] OTHER -> Unsupported

(* Mutant: relative to the instruction itself, as J is. *)
UnalignedCall(pc, w) ==
    IF N(w) # 0 THEN Unsupported
    ELSE [op |-> "Call", target |-> Relative(pc, SignExtend(Offset18(w), 262144) * 4)]

(* op0 = 5: the offset counts words from the word-aligned pc. *)
DecodeCall(pc, w) ==
    IF N(w) # 0 THEN Unsupported
    ELSE [op |-> "Call",
          target |-> Relative(WordAligned(pc), SignExtend(Offset18(w), 262144) * 4)]

(* op0 = 6: the jump, and branches on zero. *)
DecodeSi(pc, w) ==
    CASE N(w) = 0 ->
            [op |-> "Jump", target |-> Relative(pc, SignExtend(Offset18(w), 262144))]
      [] N(w) = 1 ->
            [op |-> "BranchZero", src |-> S(w),
             cond |-> CASE M(w) = 0 -> "Eq" [] M(w) = 1 -> "Ne"
                        [] M(w) = 2 -> "Lt" [] M(w) = 3 -> "Ge",
             target |-> Relative(pc, SignExtend(Imm12(w), 4096))]
      [] OTHER -> Unsupported

(* op0 = 7: branches on two registers. *)
DecodeB(pc, w) ==
    LET branch(cond) == [op |-> "Branch", cond |-> cond, lhs |-> S(w), rhs |-> T(w),
                         target |-> Relative(pc, SignExtend(Imm8(w), 256))]
    IN  CASE R(w) = 1 -> branch("Eq")
          [] R(w) = 2 -> branch("Lt")
          [] R(w) = 3 -> branch("Ltu")
          [] R(w) = 9 -> branch("Ne")
          [] R(w) = 10 -> branch("Ge")
          [] R(w) = 11 -> branch("Geu")
          [] OTHER -> Unsupported

Decode24(pc, w) ==
    CASE Op0(w) = 0 -> DecodeQrst(w)
      [] Op0(w) = 1 -> DecodeL32r(pc, w)
      [] Op0(w) = 2 -> DecodeLsai(w)
      [] Op0(w) = 5 -> DecodeCall(pc, w)
      [] Op0(w) = 6 -> DecodeSi(pc, w)
      [] Op0(w) = 7 -> DecodeB(pc, w)
      [] OTHER -> Unsupported

-----------------------------------------------------------------------------
(* Mutant: MOVI.N sign extends its seven bits. *)
SignedMoviN(w) ==
    LET imm7 == (T(w) % 8) * 16 + R(w)
    IN  [op |-> "Movi", dst |-> S(w), imm |-> Wrap(SignExtend(imm7, 128))]

(* The narrow forms.  MOVI.N's seven bits are -32 .. 95. *)
DecodeMoviN(w) ==
    LET imm7 == (T(w) % 8) * 16 + R(w)
    IN  [op |-> "Movi", dst |-> S(w), imm |-> Wrap(IF imm7 >= 96 THEN imm7 - 128 ELSE imm7)]

DecodeSt2(pc, w) ==
    IF T(w) < 8 THEN DecodeMoviN(w)
    ELSE [op |-> "BranchZero", src |-> S(w),
          cond |-> IF (T(w) \div 4) % 2 = 0 THEN "Eq" ELSE "Ne",
          target |-> Relative(pc, (T(w) % 4) * 16 + R(w))]

DecodeSt3(w) ==
    CASE R(w) = 0 -> [op |-> "Mov", dst |-> T(w), src |-> S(w)]
      [] R(w) = 15 /\ T(w) = 0 -> [op |-> "Ret"]
      [] R(w) = 15 /\ T(w) = 3 -> [op |-> "Nop"]
      [] R(w) = 15 /\ T(w) = 6 -> Illegal
      [] OTHER -> Unsupported

Decode16(pc, w) ==
    CASE Op0(w) = 8 ->
            [op |-> "Load", kind |-> "U32", dst |-> T(w), base |-> S(w), offset |-> R(w) * 4]
      [] Op0(w) = 9 ->
            [op |-> "Store", kind |-> "U32", src |-> T(w), base |-> S(w), offset |-> R(w) * 4]
      [] Op0(w) = 10 -> Alu("Add", w)
      [] Op0(w) = 11 ->
            [op |-> "Addi", dst |-> R(w), src |-> S(w),
             imm |-> Wrap(IF T(w) = 0 THEN -1 ELSE T(w))]
      [] Op0(w) = 12 -> DecodeSt2(pc, w)
      [] Op0(w) = 13 -> DecodeSt3(w)
      [] OTHER -> Illegal

Decode(pc, w, size) == IF size = 2 THEN Decode16(pc, w) ELSE Decode24(pc, w)

-----------------------------------------------------------------------------
(* Words as fetch() assembles them: two bytes if the first one is narrow.  *)
Fetched(w) == w \in 0 .. (IF IsNarrow(w % 256) THEN 65535 ELSE 16777215)

ASSUME InputAssumption == Pcs \subseteq Word /\ \A w \in Words : Fetched(w)

VARIABLES at, word, result

decoderVars == <<at, word, result>>

Undecoded == [op |-> "None"]
Size == InstSize(word % 256)

DecoderInit == at \in Pcs /\ word \in Words /\ result = Undecoded

DecodeStep ==
    /\ result = Undecoded
    /\ result' = Decode(at, word, Size)
    /\ UNCHANGED <<at, word>>

DecoderSpec == DecoderInit /\ [][DecodeStep]_decoderVars

-----------------------------------------------------------------------------
Inst == InstOver(Reg, Word)

DecoderTypeOK ==
    at \in Word /\ Fetched(word) /\ result \in Inst \cup Undecodable \cup {Undecoded}

(* The formats of the ISA, as an assembler puts a word together. *)
Rri8(op0, t, s, r, imm8) == op0 + 16 * (t + 16 * (s + 16 * (r + 16 * imm8)))
Rrrn(op0, t, s, r) == Rri8(op0, t, s, r, 0)
Number(imm) == SignExtend(imm, WORD)
Ignoring(encoding(_)) == {encoding(s) : s \in Reg}

AluRow(alu) ==
    CASE alu = "And" -> 1 [] alu = "Or" -> 2 [] alu = "Xor" -> 3 [] alu = "Add" -> 8 [] alu = "Sub" -> 12
CondRow(cond) ==
    CASE cond = "Eq" -> 1 [] cond = "Lt" -> 2 [] cond = "Ltu" -> 3
      [] cond = "Ne" -> 9 [] cond = "Ge" -> 10 [] cond = "Geu" -> 11
ZeroRow(cond) == CASE cond = "Eq" -> 0 [] cond = "Ne" -> 1 [] cond = "Lt" -> 2 [] cond = "Ge" -> 3

(* The two-byte and the three-byte encodings of instruction i at address a. *)
NarrowEncodings(i, a) ==
    CASE i.op = "Load" -> {Rrrn(8, i.dst, i.base, i.offset \div 4)}
      [] i.op = "Store" -> {Rrrn(9, i.src, i.base, i.offset \div 4)}
      [] i.op = "Alu" -> {Rrrn(10, i.rhs, i.lhs, i.dst)}
      [] i.op = "Addi" -> {Rrrn(11, IF i.imm = WORD - 1 THEN 0 ELSE i.imm, i.src, i.dst)}
      [] i.op = "Movi" ->
            {Rrrn(12, (imm % 128) \div 16, i.dst, imm % 16) : imm \in {j \in -32 .. 95 : j = Number(i.imm)}}
      [] i.op = "BranchZero" ->
            {Rrrn(12, 8 + 4 * ZeroRow(i.cond) + (Wrap(i.target - a - 4) \div 16), i.src,
                  (i.target - a - 4) % 16)}
      [] i.op = "Mov" -> {Rrrn(13, i.dst, i.src, 0)}
      [] i.op = "Ret" -> Ignoring(LAMBDA s : Rrrn(13, 0, s, 15))
      [] i.op = "Nop" -> Ignoring(LAMBDA s : Rrrn(13, 3, s, 15))
      [] OTHER -> {}

LoadEncoding(i) ==
    CASE i.kind = "U8" -> Rri8(2, i.dst, i.base, 0, i.offset)
      [] i.kind = "U16" -> Rri8(2, i.dst, i.base, 1, i.offset \div 2)
      [] i.kind = "I16" -> Rri8(2, i.dst, i.base, 9, i.offset \div 2)
      [] i.kind = "U32" -> Rri8(2, i.dst, i.base, 2, i.offset \div 4)

StoreEncoding(i) ==
    CASE i.kind = "U8" -> Rri8(2, i.src, i.base, 4, i.offset)
      [] i.kind = "U16" -> Rri8(2, i.src, i.base, 5, i.offset \div 2)
      [] i.kind = "U32" -> Rri8(2, i.src, i.base, 6, i.offset \div 4)

WideEncodings(i, a) ==
    CASE i.op = "Load" -> {LoadEncoding(i)}
      [] i.op = "Store" -> {StoreEncoding(i)}
      [] i.op = "L32r" ->
            {1 + 16 * i.dst + 256 * (Wrap(i.literal - WordAligned(a + 3) + 262144) \div 4)}
      [] i.op = "Movi" ->
            {Rri8(2, i.dst, (imm % 4096) \div 256, 10, imm % 256) :
                imm \in {j \in -2048 .. 2047 : j = Number(i.imm)}}
      [] i.op = "Addi" ->
            {Rri8(2, i.dst, i.src, 12, imm % 256) : imm \in {j \in -128 .. 127 : j = Number(i.imm)}}
            \cup {Rri8(2, i.dst, i.src, 13, imm % 256) :
                     imm \in {j \in -128 .. 127 : j * 256 = Number(i.imm)}}
      [] i.op = "Alu" -> {Rri8(0, i.rhs, i.lhs, i.dst, 16 * AluRow(i.alu))}
      [] i.op = "Jump" -> {6 + 64 * ((i.target - a - 4) % 262144)}
      [] i.op = "Call" -> {5 + 16 * ((i.target - WordAligned(a) - 4) % 1048576)}
      [] i.op = "JumpReg" -> {Rri8(0, 10, i.reg, 0, 0)}
      [] i.op = "CallReg" -> {Rri8(0, 12, i.reg, 0, 0)}
      [] i.op = "Branch" -> {Rri8(7, i.rhs, i.lhs, CondRow(i.cond), (i.target - a - 4) % 256)}
      [] i.op = "BranchZero" ->
            {22 + 64 * ZeroRow(i.cond) + 256 * i.src + 4096 * ((i.target - a - 4) % 4096)}
      [] i.op = "Ret" -> Ignoring(LAMBDA s : Rri8(0, 8, s, 0, 0))
      [] i.op = "Memw" -> Ignoring(LAMBDA s : Rri8(0, 12, s, 2, 0))
      [] i.op = "Nop" -> Ignoring(LAMBDA s : Rri8(0, 15, s, 2, 0))
      [] OTHER -> {}

(* Decoding loses and mixes up nothing: every instruction decoded, put     *)
(* together again by the ISA's formats at the same address, is the word it *)
(* was decoded from (but for an `s' field the decoder does not look at).   *)
DecodingReassembles ==
    result \in Inst =>
        word \in IF Size = 2 THEN NarrowEncodings(result, at) ELSE WideEncodings(result, at)

(* The operations a wide instruction and its narrow form share             *)
(* (decode.rs:216): whatever a two-byte instruction decodes to, each       *)
(* three-byte encoding of it at the same address decodes to as well.       *)
NarrowFormsAreSynonyms ==
    result \in Inst /\ Size = 2 =>
        \A wide \in WideEncodings(result, at) : Decode(at, wide, 3) = result

(* The ISA's opcode table: which words each mnemonic stands for.           *)
LsaiRows == [l8ui |-> {0}, l16ui |-> {1}, l32i |-> {2}, s8i |-> {4}, s16i |-> {5}, s32i |-> {6},
             l16si |-> {9}, movi |-> {10}, addi |-> {12, 13}]
RrrRows == [and |-> 1, or |-> 2, xor |-> 3, add |-> 8, sub |-> 12]
BranchRows == [beq |-> 1, blt |-> 2, bltu |-> 3, bne |-> 9, bge |-> 10, bgeu |-> 11]
ZeroRows == [beqz |-> 1, bnez |-> 5, bltz |-> 9, bgez |-> 13]

Names(m, w) ==
    \/ Op0(w) = 2 /\ m \in DOMAIN LsaiRows /\ R(w) \in LsaiRows[m]
    \/ Op0(w) = 0 /\ Op1(w) = 0 /\ m \in DOMAIN RrrRows /\ Op2(w) = RrrRows[m]
    \/ Op0(w) = 7 /\ m \in DOMAIN BranchRows /\ R(w) = BranchRows[m]
    \/ Op0(w) = 6 /\ m \in DOMAIN ZeroRows /\ T(w) = ZeroRows[m]
    \/ Op0(w) = 6 /\ m = "j" /\ T(w) % 4 = 0
    \/ <<m, Op0(w)>> \in {<<"l32r", 1>>, <<"call0", 5>>, <<"l32i.n", 8>>, <<"s32i.n", 9>>,
                          <<"add.n", 10>>, <<"addi.n", 11>>}
    \/ <<m, Op0(w), T(w) \div 4>> \in {<<"movi.n", 12, 0>>, <<"movi.n", 12, 1>>,
                                       <<"beqz.n", 12, 2>>, <<"bnez.n", 12, 3>>}
    \/ Op0(w) = 13 /\ m = "mov.n" /\ R(w) = 0
    \/ Op0(w) = 13 /\ <<m, R(w), T(w)>> \in {<<"ret.n", 15, 0>>, <<"nop.n", 15, 3>>}
    \/ /\ Op0(w) = 0 /\ Op1(w) = 0 /\ Op2(w) = 0
       /\ <<m, R(w), T(w)>> \in {<<"ret", 0, 8>>, <<"jx", 0, 10>>, <<"callx0", 0, 12>>,
                                 <<"memw", 2, 12>>, <<"nop", 2, 15>>}

(* A trace says which instruction really executed (decode.rs:216): the     *)
(* mnemonic, found again from operation and size, is the one the ISA gives *)
(* the word (addmi goes by the name of addi, as the comment there says).   *)
MnemonicNamesTheWord == result \in Inst => Names(Mnemonic(result, Size), word)

(* Every address an instruction names is in the reach of its encoding, also *)
(* where it wraps around the ends of the address space: literals and call  *)
(* targets are word aligned, and narrow branches go forward only.  For     *)
(* L32R this is the reach the code gives it, 1 to 65536 words below the    *)
(* first word boundary at or after the instruction; the comment at         *)
(* decode.rs:473 says otherwise, see LiteralPrecedesItsUse.                *)
Distance(target, from) == Number(Wrap(target - from))
Between(low, x, high) == low <= x /\ x <= high

TargetsInReach ==
    /\ result.op = "L32r" =>
          /\ result.literal % 4 = 0
          /\ Between(-262144, Distance(result.literal, WordAligned(at + 3)), -4)
    /\ result.op = "Jump" => Between(-131072, Distance(result.target, at + 4), 131071)
    /\ result.op = "Call" =>
          result.target % 4 = 0 /\ Between(-524291, Distance(result.target, at + 4), 524284)
    /\ result.op = "Branch" => Between(-128, Distance(result.target, at + 4), 127)
    /\ result.op = "BranchZero" =>
          IF Size = 2 THEN Between(4, Distance(result.target, at), 67)
          ELSE Between(-2048, Distance(result.target, at + 4), 2047)

(* The comment at decode.rs:473: L32R reaches PC-262144 ..= PC-4, and a     *)
(* literal always precedes its use.                                        *)
LiteralPrecedesItsUse ==
    result.op = "L32r" => Between(-262144, Distance(result.literal, at), -4)

(* Code for the windowed ABI (call4 .. call12, callx4 .. callx12, retw,    *)
(* retw.n, entry, movsp) is refused as Unsupported, never executed as the  *)
(* Call0 instruction next to it in the table; the zero word is Illegal.    *)
Windowed(w) ==
    \/ Op0(w) = 5 /\ N(w) # 0
    \/ Op0(w) = 0 /\ R(w) = 0 /\ Imm8(w) = 0 /\ T(w) \in {9, 13, 14, 15}
    \/ Op0(w) = 0 /\ R(w) = 1 /\ Imm8(w) = 0
    \/ Op0(w) = 6 /\ T(w) = 3
    \/ Op0(w) = 13 /\ R(w) = 15 /\ T(w) = 1

WindowedCodeIsRefused ==
    result # Undecoded =>
        /\ Windowed(word) => result = Unsupported
        /\ word = 0 => result = Illegal
=============================================================================
