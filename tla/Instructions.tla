---------------------------- MODULE Instructions ----------------------------
(***************************************************************************)
(* enum Inst of crates/simulatr-core/src/cpu/decode.rs: what the decoder   *)
(* (Xtensa) yields and the core (Cpu) executes.  An instruction is a       *)
(* record named after its variant; immediates and targets are words, as    *)
(* the executor's `imm as u32' makes them.                                 *)
(***************************************************************************)
EXTENDS Integers

LoadKind == {"U8", "U16", "I16", "U32"}
StoreKind == {"U8", "U16", "U32"}
AluOp == {"Add", "Sub", "And", "Or", "Xor"}
Cond == {"Eq", "Ne", "Lt", "Ge", "Ltu", "Geu"}
ZeroCond == {"Eq", "Ne", "Lt", "Ge"}

(* The instructions over registers R and words W. *)
InstOver(R, W) ==
    [op : {"Load"}, kind : LoadKind, dst : R, base : R, offset : W]
    \cup [op : {"Store"}, kind : StoreKind, src : R, base : R, offset : W]
    \cup [op : {"L32r"}, dst : R, literal : W]
    \cup [op : {"Movi"}, dst : R, imm : W]
    \cup [op : {"Addi"}, dst : R, src : R, imm : W]
    \cup [op : {"Alu"}, alu : AluOp, dst : R, lhs : R, rhs : R]
    \cup [op : {"Mov"}, dst : R, src : R]
    \cup [op : {"Memw", "Nop", "Ret"}]
    \cup [op : {"Jump", "Call"}, target : W]
    \cup [op : {"JumpReg", "CallReg"}, reg : R]
    \cup [op : {"Branch"}, cond : Cond, lhs : R, rhs : R, target : W]
    \cup [op : {"BranchZero"}, cond : ZeroCond, src : R, target : W]

(* enum DecodeError: a reserved pattern, or one the decoder refuses. *)
Illegal == [op |-> "Illegal"]
Unsupported == [op |-> "Unsupported"]
Undecodable == {Illegal, Unsupported}

(* enum InstSize: encoded lengths. *)
Narrow == 2
Wide == 3

-----------------------------------------------------------------------------
(* Decoded::mnemonic(): found from the variant and the size, for traces.   *)
LoadMnemonic(kind) ==
    CASE kind = "U8" -> "l8ui" [] kind = "U16" -> "l16ui" [] kind = "I16" -> "l16si"
      [] kind = "U32" -> "l32i"
StoreMnemonic(kind) ==
    CASE kind = "U8" -> "s8i" [] kind = "U16" -> "s16i" [] kind = "U32" -> "s32i"
AluMnemonic(alu) ==
    CASE alu = "Add" -> "add" [] alu = "Sub" -> "sub"
      [] alu = "And" -> "and" [] alu = "Or" -> "or" [] alu = "Xor" -> "xor"
BranchMnemonic(cond) ==
    CASE cond = "Eq" -> "beq" [] cond = "Ne" -> "bne" [] cond = "Lt" -> "blt"
      [] cond = "Ge" -> "bge" [] cond = "Ltu" -> "bltu" [] cond = "Geu" -> "bgeu"
ZeroMnemonic(cond) ==
    CASE cond = "Eq" -> "beqz" [] cond = "Ne" -> "bnez"
      [] cond = "Lt" -> "bltz" [] cond = "Ge" -> "bgez"

(* The names of the narrow forms the decoder has. *)
NarrowMnemonic(i) ==
    CASE i.op = "Load" /\ i.kind = "U32" -> "l32i.n"
      [] i.op = "Store" /\ i.kind = "U32" -> "s32i.n"
      [] i.op = "Movi" -> "movi.n"
      [] i.op = "Addi" -> "addi.n"
      [] i.op = "Alu" /\ i.alu = "Add" -> "add.n"
      [] i.op = "BranchZero" /\ i.cond = "Eq" -> "beqz.n"
      [] i.op = "BranchZero" /\ i.cond = "Ne" -> "bnez.n"
      [] i.op = "Ret" -> "ret.n"
      [] i.op = "Nop" -> "nop.n"
      [] OTHER -> "none"

(* MOV has no other form than the narrow one. *)
WideMnemonic(i) ==
    CASE i.op = "Load" -> LoadMnemonic(i.kind)
      [] i.op = "Store" -> StoreMnemonic(i.kind)
      [] i.op = "Alu" -> AluMnemonic(i.alu)
      [] i.op = "Branch" -> BranchMnemonic(i.cond)
      [] i.op = "BranchZero" -> ZeroMnemonic(i.cond)
      [] i.op = "L32r" -> "l32r" [] i.op = "Movi" -> "movi" [] i.op = "Addi" -> "addi"
      [] i.op = "Mov" -> "mov.n" [] i.op = "Jump" -> "j" [] i.op = "JumpReg" -> "jx"
      [] i.op = "Call" -> "call0" [] i.op = "CallReg" -> "callx0" [] i.op = "Ret" -> "ret"
      [] i.op = "Memw" -> "memw" [] i.op = "Nop" -> "nop"

(* Mutant: the arm of the match for ADD does not look at the size. *)
SizelessMnemonic(i, size) ==
    IF size = Narrow /\ NarrowMnemonic(i) \notin {"none", "add.n"}
    THEN NarrowMnemonic(i) ELSE WideMnemonic(i)

Mnemonic(i, size) ==
    IF size = Narrow /\ NarrowMnemonic(i) # "none" THEN NarrowMnemonic(i) ELSE WideMnemonic(i)
=============================================================================
