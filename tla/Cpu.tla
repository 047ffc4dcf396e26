-------------------------------- MODULE Cpu --------------------------------
(***************************************************************************)
(* The Xtensa core: crates/simulatr-core/src/cpu/core.rs, executing from   *)
(* the bus.  What a word means is a parameter: IsNarrow is                 *)
(* decode::instruction_size and DecodeInst is decode::decode, which module *)
(* Xtensa models field by field.                                            *)
(***************************************************************************)
EXTENDS Bus, Instructions

CONSTANTS
    NREGS,                              \* 16 address registers in the code
    HALT_ADDRESS,                       \* the sentinel return address
    IsNarrow(_),                        \* does this first byte start a 2-byte form?
    DecodeInst(_, _, _),                \* of pc, word and size
    BitAnd(_, _), BitOr(_, _), BitXor(_, _),
    RamImages, Entries,                 \* what reset() may be given to run
    MAX_STEPS                           \* bound on the instructions retired

VARIABLES regs, pc, steps, halt

cpuVars == <<regs, pc, steps, halt>>

Reg == 0 .. NREGS - 1
A0 == 0
A1 == 1

Fault == ErrorKind \cup {"Illegal", "Unsupported"}
HaltReason == {"Returned", "SpinLoop", "StepBudgetExhausted"} \cup Fault

Inst == InstOver(Reg, Word)

ASSUME RegisterFileAssumption == NREGS \in Nat /\ NREGS >= 2

(* The comment on HALT_ADDRESS: it is outside every mapped region. *)
ASSUME HaltAddressAssumption ==
    /\ HALT_ADDRESS \in Word
    /\ HALT_ADDRESS \notin Window(IRAM_BASE, IRAM_SIZE) \cup Window(DRAM_BASE, DRAM_SIZE)
    /\ HALT_ADDRESS \notin Window(PERIPHERAL_BASE, PERIPHERAL_SIZE)

ASSUME DecoderAssumption ==
    \A at \in Word, size \in {2, 3} :
        \A word \in 0 .. Weight(size) - 1 :
            DecodeInst(at, word, size) \in Inst \cup Undecodable

ASSUME BitwiseAssumption ==
    \A a, b \in Word : BitAnd(a, b) \in Word /\ BitOr(a, b) \in Word /\ BitXor(a, b) \in Word

ASSUME StartAssumption == RamImages \subseteq RamType /\ Entries \subseteq Word

-----------------------------------------------------------------------------
(* `x as i32', and the sign extension of a 16-bit value. *)
Signed(x) == IF x >= WORD \div 2 THEN x - WORD ELSE x
Half == BYTE * BYTE
ExtendHalf(x) == IF x >= Half \div 2 THEN x + WORD - Half ELSE x

LoadWidth(kind) == CASE kind = "U8" -> 1 [] kind = "U32" -> 4 [] OTHER -> 2
StoreWidth(kind) == CASE kind = "U8" -> 1 [] kind = "U16" -> 2 [] kind = "U32" -> 4

(* Mutant: addition that does not wrap. *)
WideningCompute(alu, a, b) ==
    CASE alu = "Add" -> a + b
      [] alu = "Sub" -> WrapSub(a, b)
      [] alu = "And" -> BitAnd(a, b)
      [] alu = "Or" -> BitOr(a, b)
      [] alu = "Xor" -> BitXor(a, b)

Compute(alu, a, b) ==
    CASE alu = "Add" -> WrapAdd(a, b)
      [] alu = "Sub" -> WrapSub(a, b)
      [] alu = "And" -> BitAnd(a, b)
      [] alu = "Or" -> BitOr(a, b)
      [] alu = "Xor" -> BitXor(a, b)

Holds(cond, a, b) ==
    CASE cond = "Eq" -> a = b
      [] cond = "Ne" -> a # b
      [] cond = "Lt" -> Signed(a) < Signed(b)
      [] cond = "Ge" -> Signed(a) >= Signed(b)
      [] cond = "Ltu" -> a < b
      [] cond = "Geu" -> a >= b

-----------------------------------------------------------------------------
(* fetch(): the first byte tells how many follow. *)
FetchByte(i) == LoadReply(WrapAdd(pc, i), 1)
InstSize == IF IsNarrow(FetchByte(0).value) THEN 2 ELSE 3

FetchReply ==
    IF Failed(FetchByte(0)) THEN FetchByte(0)
    ELSE IF Failed(FetchByte(1)) THEN FetchByte(1)
    ELSE IF InstSize = 2 THEN Ok(FetchByte(0).value + BYTE * FetchByte(1).value)
    ELSE IF Failed(FetchByte(2)) THEN FetchByte(2)
    ELSE Ok(FetchByte(0).value + BYTE * (FetchByte(1).value + BYTE * FetchByte(2).value))

Decoded == DecodeInst(pc, FetchReply.value, InstSize)
Sequential == WrapAdd(pc, InstSize)

(* Where control goes after instruction i, on the registers it reads. *)
Destination(i) ==
    CASE i.op \in {"Jump", "Call"} -> i.target
      [] i.op \in {"JumpReg", "CallReg"} -> regs[i.reg]
      [] i.op = "Ret" -> regs[A0]
      [] i.op = "Branch" ->
            IF Holds(i.cond, regs[i.lhs], regs[i.rhs]) THEN i.target ELSE Sequential
      [] i.op = "BranchZero" ->
            IF Holds(i.cond, regs[i.src], 0) THEN i.target ELSE Sequential
      [] OTHER -> Sequential

-----------------------------------------------------------------------------
(* Mutant: the sentinel is tested only before an instruction. *)
RetireUnchecked(next) ==
    /\ steps' = steps + 1
    /\ pc' = next
    /\ halt' = IF next = pc THEN "SpinLoop" ELSE halt

(* Mutant: any branch back counts as spinning. *)
RetireBackwards(next) ==
    /\ steps' = steps + 1
    /\ pc' = next
    /\ halt' = CASE next <= pc -> "SpinLoop"
                 [] next > pc /\ next = HALT_ADDRESS -> "Returned"
                 [] OTHER -> halt

(* The end of execute_at(): count the instruction, and halt if control     *)
(* lands on the instruction itself or on the sentinel, in that order.      *)
Retire(next) ==
    /\ steps' = steps + 1
    /\ pc' = next
    /\ halt' = CASE next = pc -> "SpinLoop"
                 [] next # pc /\ next = HALT_ADDRESS -> "Returned"
                 [] OTHER -> halt

(* Mutant: an instruction is counted before it is executed. *)
CountingFault(fault) ==
    /\ halt' = fault /\ steps' = steps + 1
    /\ UNCHANGED <<regs, pc, busVars>>

(* The error arm of step(): the instruction does not retire. *)
FaultWith(fault) ==
    /\ halt' = fault
    /\ UNCHANGED <<regs, pc, steps, busVars>>

(* Instructions that write one register and nothing else. *)
Writes(dst, value, next) ==
    /\ regs' = [regs EXCEPT ![dst] = value]
    /\ Retire(next)
    /\ UNCHANGED busVars

ExecLoad(i) ==
    LET got == LoadReply(WrapAdd(regs[i.base], i.offset), LoadWidth(i.kind)) IN
    /\ i.op = "Load"
    /\ \/ Failed(got) /\ FaultWith(got.kind)
       \/ /\ ~ Failed(got)
          /\ Writes(i.dst, IF i.kind = "I16" THEN ExtendHalf(got.value) ELSE got.value,
                    Destination(i))

ExecStore(i) ==
    LET addr == WrapAdd(regs[i.base], i.offset)
        size == StoreWidth(i.kind)
    IN  /\ i.op = "Store"
        /\ \/ /\ Failed(StoreReply(addr, size))
              /\ FaultWith(StoreReply(addr, size).kind)
           \/ /\ ~ Failed(StoreReply(addr, size))
              /\ Store(addr, size, regs[i.src])
              /\ Retire(Destination(i))
              /\ UNCHANGED regs

ExecL32r(i) ==
    LET got == LoadReply(i.literal, 4) IN
    /\ i.op = "L32r"
    /\ \/ Failed(got) /\ FaultWith(got.kind)
       \/ ~ Failed(got) /\ Writes(i.dst, got.value, Destination(i))

ExecArith(i) ==
    \/ i.op = "Movi" /\ Writes(i.dst, i.imm, Destination(i))
    \/ i.op = "Addi" /\ Writes(i.dst, WrapAdd(regs[i.src], i.imm), Destination(i))
    \/ i.op = "Alu" /\ Writes(i.dst, Compute(i.alu, regs[i.lhs], regs[i.rhs]), Destination(i))
    \/ i.op = "Mov" /\ Writes(i.dst, regs[i.src], Destination(i))

(* CALL0 and CALLX0 read where they go before they write a0. *)
ExecCall(i) ==
    /\ i.op \in {"Call", "CallReg"}
    /\ Writes(A0, Sequential, Destination(i))

ExecControl(i) ==
    /\ i.op \in {"Jump", "JumpReg", "Ret", "Branch", "BranchZero", "Memw", "Nop"}
    /\ Retire(Destination(i))
    /\ UNCHANGED <<regs, busVars>>

Execute(i) ==
    \/ ExecLoad(i) \/ ExecStore(i) \/ ExecL32r(i)
    \/ ExecArith(i) \/ ExecCall(i) \/ ExecControl(i)

-----------------------------------------------------------------------------
(* step().  A halted CPU is left as it is; one that sits on the sentinel   *)
(* halts without executing.                                                *)
ReturnWithoutExecuting ==
    /\ halt = "None" /\ pc = HALT_ADDRESS
    /\ halt' = "Returned"
    /\ UNCHANGED <<regs, pc, steps, busVars>>

FetchFaults ==
    /\ halt = "None" /\ pc # HALT_ADDRESS /\ Failed(FetchReply)
    /\ FaultWith(FetchReply.kind)

DecodeFaults ==
    /\ halt = "None" /\ pc # HALT_ADDRESS /\ ~ Failed(FetchReply)
    /\ Decoded \in Undecodable
    /\ FaultWith(Decoded.op)

ExecuteAt ==
    /\ halt = "None" /\ pc # HALT_ADDRESS /\ ~ Failed(FetchReply)
    /\ \E i \in {Decoded} : i \notin Undecodable /\ Execute(i)

Step == ReturnWithoutExecuting \/ FetchFaults \/ DecodeFaults \/ ExecuteAt

(* halt_with(). *)
HaltWith(reason) == halt' = reason /\ UNCHANGED <<regs, pc, steps>>

(* reset(): what Machine::load_elf leaves the core with. *)
ResetRegs(stackPointer) ==
    [r \in Reg |-> CASE r = A0 -> HALT_ADDRESS [] r = A1 -> stackPointer [] OTHER -> 0]

(* Mutant: a new image does not clear the old halt. *)
WarmReset(entry, stackPointer) ==
    /\ regs' = ResetRegs(stackPointer)
    /\ pc' = entry /\ steps' = 0 /\ UNCHANGED halt

Reset(entry, stackPointer) ==
    /\ regs' = ResetRegs(stackPointer)
    /\ pc' = entry /\ steps' = 0 /\ halt' = "None"

(* Cpu::new(). *)
CpuNew == regs = [r \in Reg |-> 0] /\ pc = 0 /\ steps = 0 /\ halt = "None"

(* The core on its own: any RAM, any entry, until MAX_STEPS or halt_with.  *)
CpuInit ==
    /\ ram \in RamImages /\ uart = [tx |-> <<>>, transmitted |-> 0]
    /\ regs = ResetRegs(InitialStackPointer)
    /\ pc \in Entries /\ steps = 0 /\ halt = "None"

CpuNext ==
    \/ steps < MAX_STEPS /\ Step
    \/ halt = "None" /\ HaltWith("StepBudgetExhausted") /\ UNCHANGED busVars

CpuSpec == CpuInit /\ [][CpuNext]_<<busVars, cpuVars>>

-----------------------------------------------------------------------------
CpuTypeOK ==
    /\ BusTypeOK
    /\ regs \in [Reg -> Word] /\ pc \in Word /\ steps \in Nat
    /\ halt \in HaltReason \cup {"None"}

(* A fault is precise: the faulting instruction has changed no register,   *)
(* no memory, sent no byte and is not counted, and pc names it, whichever   *)
(* of fetch, decode or the access failed.                                  *)
PreciseFault ==
    [][halt' \in Fault => halt = "None" /\ UNCHANGED <<regs, pc, steps, busVars>>]_<<busVars, cpuVars>>

(* The two tests for the sentinel (before executing and after) agree: the  *)
(* core says Returned only at the sentinel, and once it has retired an     *)
(* instruction it is at the sentinel only as Returned.                     *)
ReturnedAtSentinel ==
    /\ halt = "Returned" => pc = HALT_ADDRESS
    /\ pc = HALT_ADDRESS /\ steps > 0 => halt = "Returned"

(* SpinLoop is a fixed point (the comment at core.rs:61): to go on would   *)
(* execute the same instruction and come back to it.                       *)
WouldSpin ==
    /\ ~ Failed(FetchReply)
    /\ Decoded \notin Undecodable
    /\ Destination(Decoded) = pc

SpinLoopIsFixedPoint == halt = "SpinLoop" => WouldSpin

(* It is one, unless the spinning instruction is `callx0 a0', which has    *)
(* overwritten the register it jumped through.                             *)
SpinLoopIsFixedPointUnlessCallA0 ==
    halt = "SpinLoop" =>
        \/ WouldSpin
        \/ ~ Failed(FetchReply) /\ Decoded = [op |-> "CallReg", reg |-> A0]

(* An instruction has one effect: it writes one register, or one aligned   *)
(* unit of RAM, or sends one byte; and only one that does none of it, or   *)
(* links a0, leaves the straight line.                                     *)
ChangedRam ==
    {cell \in Region \X (0 .. IRAM_SIZE + DRAM_SIZE) :
        /\ cell[2] < RegionSize(cell[1])
        /\ ram[cell[1]][cell[2]] # ram'[cell[1]][cell[2]]}

OneEffect ==
    LET changed == {r \in Reg : regs[r] # regs'[r]}
        sent == uart'.transmitted - uart.transmitted
    IN  /\ changed = {} \/ ((\E r \in Reg : changed = {r}) /\ UNCHANGED busVars)
        /\ sent \in {0, 1} /\ Len(uart'.tx) = Len(uart.tx) + sent
        /\ sent = 1 => UNCHANGED ram
        /\ \A p, q \in ChangedRam : p[1] = q[1] /\ p[2] \div 4 = q[2] \div 4
        /\ pc' \notin {WrapAdd(pc, 2), WrapAdd(pc, 3)} =>
              UNCHANGED busVars /\ changed \subseteq {A0}

OneEffectPerInstruction == [][steps' = steps + 1 => OneEffect]_<<busVars, cpuVars>>
=============================================================================
