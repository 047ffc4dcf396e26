----------------------------- MODULE CpuProofs ------------------------------
(***************************************************************************)
(* What the core guarantees for every program, every decoder that meets    *)
(* DecoderAssumption, every address map and any number of steps.           *)
(***************************************************************************)
EXTENDS Cpu, BusLemmas

cpuAllVars == <<busVars, cpuVars>>

-----------------------------------------------------------------------------
(* A step of the core is one of four; an instruction that is executed      *)
(* either faults, or retires at its destination.                           *)
LEMMA ExecuteOutcome ==
    ASSUME NEW i, Execute(i)
    PROVE  \/ \E fault \in ErrorKind : FaultWith(fault)
           \/ Retire(Destination(i))
<1>1. CASE ExecLoad(i)
  BY <1>1 DEF ExecLoad, LoadReply, AccessReply, Failed, Err, Ok, ErrorKind, Writes
<1>2. CASE ExecStore(i)
  BY <1>2 DEF ExecStore, StoreReply, AccessReply, Failed, Err, Ok, ErrorKind
<1>3. CASE ExecL32r(i)
  BY <1>3 DEF ExecL32r, LoadReply, AccessReply, Failed, Err, Ok, ErrorKind, Writes
<1>4. CASE ExecArith(i)
  BY <1>4 DEF ExecArith, Writes
<1>5. CASE ExecCall(i)
  BY <1>5 DEF ExecCall, Writes
<1>6. CASE ExecControl(i)
  BY <1>6 DEF ExecControl
<1> QED BY <1>1, <1>2, <1>3, <1>4, <1>5, <1>6 DEF Execute

LEMMA StepOutcome ==
    ASSUME Step
    PROVE  /\ halt = "None"
           /\ \/ ReturnWithoutExecuting
              \/ pc # HALT_ADDRESS /\ \E fault \in Fault : FaultWith(fault)
              \/ pc # HALT_ADDRESS /\ \E next : Retire(next)
<1>1. CASE ReturnWithoutExecuting
  BY <1>1 DEF ReturnWithoutExecuting
<1>2. CASE FetchFaults
  <2>1. FetchReply.kind \in ErrorKind
    BY <1>2 DEF FetchFaults, FetchReply, FetchByte, LoadReply, AccessReply, Failed, Err, Ok,
                ErrorKind
  <2> QED BY <1>2, <2>1 DEF FetchFaults, Fault
<1>3. CASE DecodeFaults
  BY <1>3 DEF DecodeFaults, Undecodable, Illegal, Unsupported, Fault
<1>4. CASE ExecuteAt
  BY <1>4, ExecuteOutcome DEF ExecuteAt, Fault
<1> QED BY <1>1, <1>2, <1>3, <1>4 DEF Step

-----------------------------------------------------------------------------
LEMMA StepFaults ==
    ASSUME Step, halt' \in Fault
    PROVE  halt = "None" /\ UNCHANGED <<regs, pc, steps, busVars>>
<1>1. halt = "None"
  BY StepOutcome
<1>2. CASE ReturnWithoutExecuting
  BY <1>2 DEF ReturnWithoutExecuting, Fault, ErrorKind
<1>3. ASSUME NEW next, Retire(next) PROVE FALSE
  BY <1>1, <1>3 DEF Retire, Fault, ErrorKind
<1> QED BY <1>1, <1>2, <1>3, StepOutcome DEF FaultWith

(* A fault leaves registers, memory, output, count and pc as they were     *)
(* when the faulting instruction was fetched.                              *)
THEOREM FaultsArePrecise == CpuSpec => PreciseFault
<1>1. [CpuNext]_cpuAllVars =>
        [halt' \in Fault => halt = "None" /\ UNCHANGED <<regs, pc, steps, busVars>>]_cpuAllVars
  <2> SUFFICES ASSUME CpuNext, halt' \in Fault
               PROVE  halt = "None" /\ UNCHANGED <<regs, pc, steps, busVars>>
    BY DEF cpuAllVars
  <2> QED BY StepFaults DEF CpuNext, HaltWith
<1> QED BY <1>1, PTL DEF CpuSpec, PreciseFault, cpuAllVars

LEMMA StepReturns ==
    ASSUME Step
    PROVE  ReturnedAtSentinel'
<1> USE DEF ReturnedAtSentinel
<1>1. halt = "None"
  BY StepOutcome
<1>2. CASE ReturnWithoutExecuting
  BY <1>2 DEF ReturnWithoutExecuting
<1>3. ASSUME NEW fault \in Fault, FaultWith(fault), pc # HALT_ADDRESS
      PROVE  ReturnedAtSentinel'
  BY <1>3 DEF FaultWith, Fault, ErrorKind
<1>4. ASSUME NEW next, Retire(next), pc # HALT_ADDRESS
      PROVE  ReturnedAtSentinel'
  BY <1>1, <1>4 DEF Retire
<1> QED BY <1>2, <1>3, <1>4, StepOutcome

(* The core reports Returned exactly where the sentinel has been reached,  *)
(* whichever of its two tests sees it.                                     *)
THEOREM ReturnedMeansSentinel == CpuSpec => []ReturnedAtSentinel
<1>1. CpuInit => ReturnedAtSentinel
  BY DEF CpuInit, ReturnedAtSentinel
<1>2. ReturnedAtSentinel /\ [CpuNext]_cpuAllVars => ReturnedAtSentinel'
  <2> SUFFICES ASSUME ReturnedAtSentinel, [CpuNext]_cpuAllVars PROVE ReturnedAtSentinel'
    OBVIOUS
  <2>1. CASE Step
    BY <2>1, StepReturns
  <2>2. CASE halt = "None" /\ HaltWith("StepBudgetExhausted") /\ UNCHANGED busVars
    BY <2>2 DEF HaltWith, ReturnedAtSentinel
  <2>3. CASE UNCHANGED cpuAllVars
    BY <2>3 DEF cpuAllVars, cpuVars, ReturnedAtSentinel
  <2> QED BY <2>1, <2>2, <2>3 DEF CpuNext
<1> QED BY <1>1, <1>2, PTL DEF CpuSpec, cpuAllVars

-----------------------------------------------------------------------------
(* One more byte below a number of n values makes one of BYTE * n values. *)
LEMMA Horner ==
    ASSUME NEW n \in Nat, NEW low \in Byte, NEW high \in 0 .. n - 1
    PROVE  low + BYTE * high \in 0 .. BYTE * n - 1
<1>1. BYTE \in Nat /\ low \in 0 .. BYTE - 1 /\ high \in Nat /\ n - 1 - high \in Nat
  BY ByteAssumption DEF Byte
<1>2. BYTE * high \in Nat /\ BYTE * (n - 1 - high) \in Nat
  BY <1>1
<1>3. BYTE * n = BYTE * high + BYTE * (n - 1 - high) + BYTE
  BY <1>1
<1> QED BY <1>1, <1>2, <1>3

LEMMA SpaceFacts ==
    /\ BYTE \in Nat /\ Half \in Nat /\ WORD \in Nat
    /\ 4 <= Half /\ Half <= WORD /\ WORD >= 16 /\ BYTE <= WORD
<1>1. BYTE \in Nat /\ BYTE >= 2
  BY ByteAssumption
<1>2. Half \in Nat /\ Half >= 2 * BYTE
  BY <1>1 DEF Half
<1>3. ASSUME NEW m \in Nat, m >= 4 PROVE m * m \in Nat /\ m * m >= 4 * m
  <2>1. m * (m - 4) \in Nat
    BY <1>3
  <2> QED BY <1>3, <2>1
<1>4. WORD = Half * Half
  <2>1. BYTE * BYTE \in Nat
    BY <1>1
  <2>2. ASSUME NEW b \in Nat PROVE b * b * b * b = (b * b) * (b * b)
    OBVIOUS
  <2> QED BY <1>1, <2>2 DEF WORD, Half
<1> HIDE DEF Half
<1> QED BY <1>1, <1>2, <1>3, <1>4

LEMMA WrapTypes ==
    ASSUME NEW a \in Word, NEW b \in Word
    PROVE  WrapAdd(a, b) \in Word /\ WrapSub(a, b) \in Word
BY SpaceFacts DEF Word, WrapAdd, WrapSub

LEMMA LittleEndianTypes ==
    ASSUME NEW bs \in [0 .. 3 -> Byte]
    PROVE  /\ FromLeBytes(bs) \in Word
           /\ bs[1] = 0 /\ bs[2] = 0 /\ bs[3] = 0 => FromLeBytes(bs) \in Byte
           /\ bs[2] = 0 /\ bs[3] = 0 => FromLeBytes(bs) \in 0 .. Half - 1
<1> DEFINE n1 == bs[2] + BYTE * bs[3]
           n2 == bs[1] + BYTE * n1
<1>0. /\ BYTE \in Nat /\ Byte = 0 .. BYTE - 1
      /\ bs[0] \in Byte /\ bs[1] \in Byte /\ bs[2] \in Byte /\ bs[3] \in Byte
  BY SpaceFacts DEF Byte
<1>1. n1 \in 0 .. BYTE * BYTE - 1
  BY <1>0, Horner
<1>2. BYTE * BYTE \in Nat
  BY <1>0
<1>3. n2 \in 0 .. BYTE * (BYTE * BYTE) - 1
  <2> HIDE DEF n1
  <2> QED BY <1>0, <1>1, <1>2, Horner
<1>4. BYTE * (BYTE * BYTE) \in Nat
  BY <1>0
<1>5. bs[0] + BYTE * n2 \in 0 .. BYTE * (BYTE * (BYTE * BYTE)) - 1
  <2> HIDE DEF n2
  <2> QED BY <1>0, <1>3, <1>4, Horner
<1>6. WORD = BYTE * (BYTE * (BYTE * BYTE))
  BY <1>0 DEF WORD
<1>7. FromLeBytes(bs) = bs[0] + BYTE * n2
  BY DEF FromLeBytes
<1>8. FromLeBytes(bs) \in Word
  BY <1>5, <1>6, <1>7 DEF Word
<1>9. ASSUME bs[1] = 0, bs[2] = 0, bs[3] = 0 PROVE FromLeBytes(bs) \in Byte
  BY <1>0, <1>9 DEF FromLeBytes
<1>10. ASSUME bs[2] = 0, bs[3] = 0 PROVE FromLeBytes(bs) \in 0 .. Half - 1
  <2>1. FromLeBytes(bs) = bs[0] + BYTE * bs[1]
    BY <1>0, <1>10 DEF FromLeBytes
  <2> QED BY <1>0, <2>1, Horner DEF Half
<1> QED BY <1>8, <1>9, <1>10

(* What a load returns fits its width. *)
LEMMA LoadReplyType ==
    ASSUME BusTypeOK, NEW addr \in Word, NEW size \in Width, ~ Failed(LoadReply(addr, size))
    PROVE  /\ LoadReply(addr, size).value \in Word
           /\ size = 1 => LoadReply(addr, size).value \in Byte
           /\ size = 2 => LoadReply(addr, size).value \in 0 .. Half - 1
<1> DEFINE to == Decode(addr)
<1>1. ~ Failed(AccessReply(addr, size))
  BY DEF LoadReply, Failed
<1>2. CASE to.at \in Region
  <2> DEFINE mem == ram[to.at]
             bs == [i \in 0 .. 3 |-> IF i < size THEN mem[to.offset + i] ELSE 0]
  <2>1. LoadReply(addr, size).value = FromLeBytes(bs)
    BY <1>1, <1>2 DEF LoadReply, ReadLe, Ok
  <2>2. to.offset \in Nat /\ RegionSize(to.at) \in Nat
    BY <1>2, DecodeCases, MapAssumption
       DEF Region, RegionSize, WholeWords, Window, Word
  <2>3. to.offset + size <= RegionSize(to.at)
    <3>1. ~ (to.offset + size > RegionSize(to.at))
      BY <1>1, <1>2 DEF AccessReply, Failed, Err
    <3> QED BY <2>2, <3>1 DEF Width
  <2>4. mem \in [0 .. RegionSize(to.at) - 1 -> Byte]
    BY <1>2 DEF BusTypeOK, RamType, Region, RegionSize
  <2>5. 0 \in Byte
    BY ByteAssumption DEF Byte
  <2>6. bs \in [0 .. 3 -> Byte]
    <3> HIDE DEF to, mem
    <3> QED BY <2>2, <2>3, <2>4, <2>5 DEF Width
  <2>7. size = 1 => bs[1] = 0 /\ bs[2] = 0 /\ bs[3] = 0
    OBVIOUS
  <2>8. size = 2 => bs[2] = 0 /\ bs[3] = 0
    OBVIOUS
  <2> HIDE DEF bs
  <2> QED BY <2>1, <2>6, <2>7, <2>8, LittleEndianTypes
<1>3. CASE to.at \notin Region
  <2>1. LoadReply(addr, size).value = SubWord(0, addr, size)
    BY <1>1, <1>3 DEF LoadReply, ReadReg, Ok
  <2>2. CASE size = 4
    BY <2>1, <2>2, SpaceFacts DEF SubWord, Word
  <2>3. CASE size \in {1, 2}
    <3>1. addr % 4 \in 0 .. 3
      BY SpaceFacts DEF Word
    <3>2. Weight(addr % 4) \in Nat /\ Weight(addr % 4) >= 1
      BY <3>1, WordFacts
    <3>3. Weight(size) \in Nat /\ Weight(size) >= 1
      BY <2>3, WordFacts
    <3>4. 0 \div Weight(addr % 4) = 0
      BY <3>2
    <3>5. 0 % Weight(size) = 0
      BY <3>3
    <3>6. LoadReply(addr, size).value = 0
      BY <2>1, <2>3, <3>4, <3>5 DEF SubWord
    <3> QED BY <3>6, SpaceFacts, ByteAssumption DEF Word, Byte
  <2> QED BY <2>2, <2>3 DEF Width
<1> QED BY <1>2, <1>3

(* A fetched word has as many bytes as its first byte says. *)
LEMMA FetchType ==
    ASSUME BusTypeOK, pc \in Word, ~ Failed(FetchReply)
    PROVE  /\ InstSize \in {2, 3} /\ Sequential \in Word /\ Sequential # pc
           /\ FetchReply.value \in 0 .. Weight(InstSize) - 1
<1> DEFINE b(i) == FetchByte(i).value
<1>0. BYTE \in Nat /\ Byte = 0 .. BYTE - 1 /\ {0, 1, 2, 3} \subseteq Word
  BY SpaceFacts DEF Byte, Word
<1>1. ASSUME NEW i \in {0, 1, 2}, ~ Failed(FetchByte(i)) PROVE b(i) \in Byte
  <2>1. WrapAdd(pc, i) \in Word
    BY <1>0, WrapTypes
  <2> QED BY <1>1, <2>1, LoadReplyType DEF FetchByte, Width
<1>2. ~ Failed(FetchByte(0)) /\ ~ Failed(FetchByte(1))
  BY DEF FetchReply
<1>3. InstSize \in {2, 3}
  BY DEF InstSize
<1>4. Sequential \in Word /\ Sequential # pc
  <2>1. Sequential \in Word
    BY <1>0, <1>3, WrapTypes DEF Sequential
  <2>2. Sequential # pc
    BY <1>3, SpaceFacts DEF Sequential, WrapAdd, Word
  <2> QED BY <2>1, <2>2
<1>5. CASE InstSize = 2
  <2>1. FetchReply.value = b(0) + BYTE * b(1)
    BY <1>2, <1>5 DEF FetchReply, Ok
  <2>2. b(0) + BYTE * b(1) \in 0 .. BYTE * BYTE - 1
    BY <1>0, <1>1, <1>2, Horner
  <2> QED BY <1>4, <1>5, <2>1, <2>2, WordFacts
<1>6. CASE InstSize = 3
  <2>1. ~ Failed(FetchByte(2))
    BY <1>6 DEF FetchReply
  <2>2. FetchReply.value = b(0) + BYTE * (b(1) + BYTE * b(2))
    BY <1>2, <1>6, <2>1 DEF FetchReply, Ok
  <2>3. b(1) + BYTE * b(2) \in 0 .. BYTE * BYTE - 1
    BY <1>0, <1>1, <1>2, <2>1, Horner
  <2>4. BYTE * BYTE \in Nat
    BY <1>0
  <2>5. b(0) + BYTE * (b(1) + BYTE * b(2)) \in 0 .. BYTE * (BYTE * BYTE) - 1
    <3> HIDE DEF b
    <3> QED BY <1>0, <1>1, <1>2, <2>3, <2>4, Horner
  <2>6. BYTE * (BYTE * BYTE) = Weight(3)
    BY <1>0, WordFacts
  <2> QED BY <1>4, <1>6, <2>2, <2>5, <2>6
<1> QED BY <1>3, <1>5, <1>6

LEMMA DecodedType ==
    ASSUME BusTypeOK, pc \in Word, ~ Failed(FetchReply)
    PROVE  Decoded \in Inst \cup Undecodable
BY FetchType, DecoderAssumption DEF Decoded

(* The operands of an instruction, by its kind. *)
LEMMA OperandTypes ==
    ASSUME NEW i \in Inst
    PROVE  /\ i.op = "Load" =>
                i.kind \in LoadKind /\ i.dst \in Reg /\ i.base \in Reg /\ i.offset \in Word
           /\ i.op = "Store" =>
                i.kind \in StoreKind /\ i.src \in Reg /\ i.base \in Reg /\ i.offset \in Word
           /\ i.op = "L32r" => i.dst \in Reg /\ i.literal \in Word
           /\ i.op = "Movi" => i.dst \in Reg /\ i.imm \in Word
           /\ i.op = "Addi" => i.dst \in Reg /\ i.src \in Reg /\ i.imm \in Word
           /\ i.op = "Alu" => i.alu \in AluOp /\ i.dst \in Reg /\ i.lhs \in Reg /\ i.rhs \in Reg
           /\ i.op = "Mov" => i.dst \in Reg /\ i.src \in Reg
           /\ i.op \in {"Jump", "Call"} => i.target \in Word
           /\ i.op \in {"JumpReg", "CallReg"} => i.reg \in Reg
           /\ i.op = "Branch" => i.target \in Word /\ i.lhs \in Reg /\ i.rhs \in Reg
           /\ i.op = "BranchZero" => i.target \in Word /\ i.src \in Reg
BY DEF Inst, InstOver

LEMMA DestinationType ==
    ASSUME regs \in [Reg -> Word], Sequential \in Word, NEW i \in Inst
    PROVE  Destination(i) \in Word
<1>1. A0 \in Reg
  BY RegisterFileAssumption DEF A0, Reg
<1>2. CASE i.op \in {"Jump", "Call"}
  BY <1>2, OperandTypes DEF Destination
<1>3. CASE i.op \in {"JumpReg", "CallReg"}
  BY <1>3, OperandTypes DEF Destination
<1>4. CASE i.op = "Ret"
  BY <1>1, <1>4 DEF Destination
<1>5. CASE i.op = "Branch"
  BY <1>5, OperandTypes DEF Destination
<1>6. CASE i.op = "BranchZero"
  BY <1>6, OperandTypes DEF Destination
<1>7. CASE i.op \notin {"Jump", "Call", "JumpReg", "CallReg", "Ret", "Branch", "BranchZero"}
  BY <1>7 DEF Destination
<1> QED BY <1>2, <1>3, <1>4, <1>5, <1>6, <1>7

LEMMA ComputeType ==
    ASSUME NEW alu \in AluOp, NEW a \in Word, NEW b \in Word
    PROVE  Compute(alu, a, b) \in Word
<1>1. WrapAdd(a, b) \in Word /\ WrapSub(a, b) \in Word
  BY WrapTypes
<1>2. BitAnd(a, b) \in Word /\ BitOr(a, b) \in Word /\ BitXor(a, b) \in Word
  BY BitwiseAssumption
<1> QED BY <1>1, <1>2 DEF Compute, AluOp

LEMMA ExtendHalfType ==
    ASSUME NEW x \in 0 .. Half - 1
    PROVE  ExtendHalf(x) \in Word
BY SpaceFacts DEF ExtendHalf, Word

-----------------------------------------------------------------------------
LEMMA RetireType ==
    ASSUME steps \in Nat, halt \in HaltReason \cup {"None"}, NEW next \in Word, Retire(next)
    PROVE  /\ steps' \in Nat /\ pc' \in Word
           /\ halt' \in HaltReason \cup {"None"}
BY DEF Retire, HaltReason

LEMMA WritesType ==
    ASSUME CpuTypeOK, NEW dst \in Reg, NEW value \in Word, NEW next \in Word,
           Writes(dst, value, next)
    PROVE  CpuTypeOK'
<1>1. steps' \in Nat /\ pc' \in Word /\ halt' \in HaltReason \cup {"None"}
  BY RetireType DEF CpuTypeOK, Writes
<1>2. regs' \in [Reg -> Word]
  BY DEF CpuTypeOK, Writes
<1> QED BY <1>1, <1>2 DEF CpuTypeOK, BusTypeOK, Writes, busVars

LEMMA FaultType ==
    ASSUME CpuTypeOK, NEW fault \in Fault, FaultWith(fault)
    PROVE  CpuTypeOK'
BY DEF CpuTypeOK, BusTypeOK, FaultWith, HaltReason, busVars

(* Executing an instruction on words gives words. *)
LEMMA ExecuteType ==
    ASSUME CpuTypeOK, NEW i \in Inst, Sequential \in Word, Execute(i)
    PROVE  CpuTypeOK'
<1>1. regs \in [Reg -> Word] /\ BusTypeOK
  BY DEF CpuTypeOK
<1>2. Destination(i) \in Word
  BY <1>1, DestinationType
<1>3. ASSUME NEW addr \in Word, NEW size \in Width, Failed(LoadReply(addr, size))
      PROVE  LoadReply(addr, size).kind \in Fault
  BY <1>3 DEF LoadReply, AccessReply, Failed, Err, Ok, ErrorKind, Fault
<1>4. CASE ExecLoad(i)
  <2> DEFINE addr == WrapAdd(regs[i.base], i.offset)
             size == LoadWidth(i.kind)
             got == LoadReply(addr, size)
  <2>1. i.kind \in LoadKind /\ i.dst \in Reg /\ i.base \in Reg /\ i.offset \in Word
    BY <1>4, OperandTypes DEF ExecLoad
  <2>2. addr \in Word
    BY <1>1, <2>1, WrapTypes
  <2>3. size \in Width /\ (i.kind = "I16" => size = 2)
    BY <2>1 DEF LoadKind, LoadWidth, Width
  <2>4. CASE Failed(got)
    BY <1>3, <1>4, <2>2, <2>3, <2>4, FaultType DEF ExecLoad
  <2>5. CASE ~ Failed(got)
    <3> DEFINE value == IF i.kind = "I16" THEN ExtendHalf(got.value) ELSE got.value
    <3>1. got.value \in Word /\ (size = 2 => got.value \in 0 .. Half - 1)
      <4> HIDE DEF addr, size
      <4> QED BY <1>1, <2>2, <2>3, <2>5, LoadReplyType
    <3>2. value \in Word
      <4> HIDE DEF got
      <4> QED BY <2>3, <3>1, ExtendHalfType
    <3>3. Writes(i.dst, value, Destination(i))
      BY <1>4, <2>5 DEF ExecLoad
    <3> HIDE DEF value
    <3> QED BY <1>2, <2>1, <3>2, <3>3, WritesType
  <2> QED BY <2>4, <2>5
<1>5. CASE ExecStore(i)
  <2> DEFINE addr == WrapAdd(regs[i.base], i.offset)
             size == StoreWidth(i.kind)
  <2>1. i.kind \in StoreKind /\ i.src \in Reg /\ i.base \in Reg /\ i.offset \in Word
    BY <1>5, OperandTypes DEF ExecStore
  <2>2. addr \in Word /\ regs[i.src] \in Word
    BY <1>1, <2>1, WrapTypes
  <2>3. size \in Width
    BY <2>1 DEF StoreKind, StoreWidth, Width
  <2>4. CASE Failed(StoreReply(addr, size))
    <3>1. StoreReply(addr, size).kind \in Fault
      BY <2>4 DEF StoreReply, AccessReply, Failed, Err, Ok, ErrorKind, Fault
    <3> QED BY <1>5, <2>4, <3>1, FaultType DEF ExecStore
  <2>5. CASE ~ Failed(StoreReply(addr, size))
    <3>1. Store(addr, size, regs[i.src]) /\ Retire(Destination(i)) /\ UNCHANGED regs
      BY <1>5, <2>5 DEF ExecStore
    <3>2. BusTypeOK'
      BY <1>1, <2>2, <2>3, <3>1, StoreType
    <3>3. steps' \in Nat /\ pc' \in Word /\ halt' \in HaltReason \cup {"None"}
      BY <1>2, <3>1, RetireType DEF CpuTypeOK
    <3> QED BY <1>1, <3>1, <3>2, <3>3 DEF CpuTypeOK
  <2> QED BY <2>4, <2>5
<1>6. CASE ExecL32r(i)
  <2>1. i.dst \in Reg /\ i.literal \in Word /\ 4 \in Width
    BY <1>6, OperandTypes DEF ExecL32r, Width
  <2>2. CASE Failed(LoadReply(i.literal, 4))
    BY <1>3, <1>6, <2>1, <2>2, FaultType DEF ExecL32r
  <2>3. CASE ~ Failed(LoadReply(i.literal, 4))
    <3>1. LoadReply(i.literal, 4).value \in Word
      BY <1>1, <2>1, <2>3, LoadReplyType
    <3> QED BY <1>2, <1>6, <2>1, <2>3, <3>1, WritesType DEF ExecL32r
  <2> QED BY <2>2, <2>3
<1>7. CASE ExecArith(i)
  <2>1. CASE i.op = "Movi" /\ Writes(i.dst, i.imm, Destination(i))
    BY <1>2, <2>1, OperandTypes, WritesType
  <2>2. CASE i.op = "Addi" /\ Writes(i.dst, WrapAdd(regs[i.src], i.imm), Destination(i))
    BY <1>1, <1>2, <2>2, OperandTypes, WritesType, WrapTypes
  <2>3. CASE i.op = "Alu" /\ Writes(i.dst, Compute(i.alu, regs[i.lhs], regs[i.rhs]), Destination(i))
    BY <1>1, <1>2, <2>3, OperandTypes, WritesType, ComputeType
  <2>4. CASE i.op = "Mov" /\ Writes(i.dst, regs[i.src], Destination(i))
    BY <1>1, <1>2, <2>4, OperandTypes, WritesType
  <2> QED BY <1>7, <2>1, <2>2, <2>3, <2>4 DEF ExecArith
<1>8. CASE ExecCall(i)
  <2>1. A0 \in Reg
    BY RegisterFileAssumption DEF A0, Reg
  <2> QED BY <1>2, <1>8, <2>1, WritesType DEF ExecCall
<1>9. CASE ExecControl(i)
  <2>1. Retire(Destination(i)) /\ UNCHANGED <<regs, busVars>>
    BY <1>9 DEF ExecControl
  <2>2. steps' \in Nat /\ pc' \in Word /\ halt' \in HaltReason \cup {"None"}
    BY <1>2, <2>1, RetireType DEF CpuTypeOK
  <2> QED BY <1>1, <2>1, <2>2 DEF CpuTypeOK, BusTypeOK, busVars
<1> QED BY <1>4, <1>5, <1>6, <1>7, <1>8, <1>9 DEF Execute

LEMMA StepType ==
    ASSUME CpuTypeOK, Step
    PROVE  CpuTypeOK'
<1>1. CASE ReturnWithoutExecuting
  BY <1>1 DEF ReturnWithoutExecuting, CpuTypeOK, BusTypeOK, HaltReason, busVars
<1>2. CASE FetchFaults
  <2>1. FetchReply.kind \in Fault
    BY <1>2 DEF FetchFaults, FetchReply, FetchByte, LoadReply, AccessReply, Failed, Err, Ok,
                ErrorKind, Fault
  <2> QED BY <1>2, <2>1, FaultType DEF FetchFaults
<1>3. CASE DecodeFaults
  BY <1>3, FaultType DEF DecodeFaults, Undecodable, Illegal, Unsupported, Fault
<1>4. CASE ExecuteAt
  BY <1>4, FetchType, DecodedType, ExecuteType DEF ExecuteAt, CpuTypeOK
<1> QED BY <1>1, <1>2, <1>3, <1>4 DEF Step

(* The stack pointer of a fresh machine, and what reset() leaves. *)
LEMMA StackPointerType == InitialStackPointer \in Word
<1> DEFINE top == DRAM_BASE + DRAM_SIZE - 16
<1>1. top \in Nat /\ top < WORD
  BY MapAssumption, StackAssumption, SpaceFacts DEF WholeWords
<1>2. ASSUME NEW x \in Nat, x < WORD PROVE x - (x % 16) \in Word
  BY <1>2, SpaceFacts DEF Word
<1> HIDE DEF top
<1> QED BY <1>1, <1>2 DEF InitialStackPointer, AlignDown, top

LEMMA ResetRegsType == ResetRegs(InitialStackPointer) \in [Reg -> Word]
<1>1. 0 \in Word /\ HALT_ADDRESS \in Word
  BY SpaceFacts, HaltAddressAssumption DEF Word
<1> QED BY <1>1, StackPointerType DEF ResetRegs

(* Whatever program runs, and whatever it does to its own code, registers, *)
(* memory and pc hold words and bytes: no operation of the core leaves its  *)
(* width, and no access reaches outside the arrays behind the bus.         *)
THEOREM CpuTyping == CpuSpec => []CpuTypeOK
<1>1. CpuInit => CpuTypeOK
  <2> SUFFICES ASSUME CpuInit PROVE CpuTypeOK
    OBVIOUS
  <2>1. BusTypeOK /\ pc \in Word
    BY StartAssumption DEF CpuInit, BusTypeOK, UartType
  <2>2. regs \in [Reg -> Word]
    BY ResetRegsType DEF CpuInit
  <2> QED BY <2>1, <2>2 DEF CpuInit, CpuTypeOK
<1>2. CpuTypeOK /\ [CpuNext]_cpuAllVars => CpuTypeOK'
  <2> SUFFICES ASSUME CpuTypeOK, [CpuNext]_cpuAllVars PROVE CpuTypeOK'
    OBVIOUS
  <2>1. CASE Step
    BY <2>1, StepType
  <2>2. CASE halt = "None" /\ HaltWith("StepBudgetExhausted") /\ UNCHANGED busVars
    BY <2>2 DEF HaltWith, CpuTypeOK, BusTypeOK, HaltReason, busVars
  <2>3. CASE UNCHANGED cpuAllVars
    BY <2>3 DEF cpuAllVars, cpuVars, CpuTypeOK, BusTypeOK, busVars
  <2> QED BY <2>1, <2>2, <2>3 DEF CpuNext
<1> QED BY <1>1, <1>2, PTL DEF CpuSpec, cpuAllVars

-----------------------------------------------------------------------------
(* What is fetched depends on memory and pc alone. *)
LEMMA SameFetch ==
    ASSUME UNCHANGED <<pc, ram>>
    PROVE  FetchReply' = FetchReply /\ InstSize' = InstSize /\ Decoded' = Decoded
           /\ Sequential' = Sequential
<1>1. ASSUME NEW i \in {0, 1, 2} PROVE FetchByte(i)' = FetchByte(i)
  BY DEF FetchByte, LoadReply, ReadLe
<1>2. InstSize' = InstSize
  BY <1>1 DEF InstSize
<1>3. FetchReply' = FetchReply
  BY <1>1, <1>2 DEF FetchReply
<1> QED BY <1>2, <1>3 DEF Decoded, Sequential

(* An instruction that comes back to itself leaves a state in which it     *)
(* would do so again, unless it is callx0 a0.                              *)
LEMMA SpinningInstruction ==
    ASSUME CpuTypeOK, halt = "None", pc # HALT_ADDRESS, ~ Failed(FetchReply),
           Decoded \in Inst, Decoded \notin Undecodable,
           Execute(Decoded), Retire(Destination(Decoded)), Destination(Decoded) = pc
    PROVE  \/ WouldSpin'
           \/ ~ Failed(FetchReply)' /\ (Decoded = [op |-> "CallReg", reg |-> A0])'
<1> DEFINE i == Decoded
<1>0. pc' = pc /\ Sequential # pc
  BY FetchType DEF Retire, CpuTypeOK
<1>1. i.op \in {"Jump", "JumpReg", "Ret", "Branch", "BranchZero", "Call", "CallReg"}
  BY <1>0 DEF Destination
<1>2. CASE ExecControl(i)
  <2>1. UNCHANGED <<regs, ram>>
    BY <1>2 DEF ExecControl, busVars
  <2>2. FetchReply' = FetchReply /\ Decoded' = Decoded /\ Sequential' = Sequential
    BY <1>0, <2>1, SameFetch
  <2>3. Destination(Decoded)' = Destination(Decoded)
    BY <2>1, <2>2 DEF Destination
  <2> QED BY <1>0, <2>2, <2>3 DEF WouldSpin
<1>3. CASE ExecCall(i)
  <2>1. UNCHANGED ram /\ regs' = [regs EXCEPT ![A0] = Sequential]
    BY <1>3 DEF ExecCall, Writes, busVars
  <2>2. FetchReply' = FetchReply /\ Decoded' = Decoded
    BY <1>0, <2>1, SameFetch
  <2>3. CASE i.op = "Call"
    <3>1. Destination(Decoded)' = Destination(Decoded)
      BY <2>2, <2>3 DEF Destination
    <3> QED BY <1>0, <2>2, <3>1 DEF WouldSpin
  <2>4. CASE i.op = "CallReg" /\ i.reg # A0
    <3>1. i.reg \in Reg /\ regs \in [Reg -> Word]
      BY <2>4, OperandTypes DEF CpuTypeOK
    <3>2. Destination(Decoded)' = Destination(Decoded)
      BY <2>1, <2>2, <2>4, <3>1 DEF Destination
    <3> QED BY <1>0, <2>2, <3>2 DEF WouldSpin
  <2>5. CASE i.op = "CallReg" /\ i.reg = A0
    <3>1. i \in [op : {"JumpReg", "CallReg"}, reg : Reg]
      BY <2>5 DEF Inst, InstOver
    <3>2. i = [op |-> "CallReg", reg |-> A0]
      BY <2>5, <3>1
    <3> QED BY <2>2, <3>2
  <2> QED BY <1>3, <2>3, <2>4, <2>5 DEF ExecCall
<1> QED BY <1>1, <1>2, <1>3 DEF Execute, ExecLoad, ExecStore, ExecL32r, ExecArith

LEMMA StepSpins ==
    ASSUME CpuTypeOK, Step, halt' = "SpinLoop"
    PROVE  \/ WouldSpin'
           \/ ~ Failed(FetchReply)' /\ (Decoded = [op |-> "CallReg", reg |-> A0])'
<1>1. halt = "None"
  BY StepOutcome
<1>2. ASSUME NEW fault \in Fault, FaultWith(fault) PROVE FALSE
  BY <1>2 DEF FaultWith, Fault, ErrorKind
<1>3. ExecuteAt
  <2>1. ASSUME FetchFaults PROVE FALSE
    <3>1. FetchReply.kind \in Fault
      BY <2>1 DEF FetchFaults, FetchReply, FetchByte, LoadReply, AccessReply, Failed, Err,
                  Ok, ErrorKind, Fault
    <3> QED BY <1>2, <2>1, <3>1 DEF FetchFaults
  <2>2. ~ DecodeFaults /\ ~ ReturnWithoutExecuting
    BY DEF DecodeFaults, ReturnWithoutExecuting, FaultWith, Undecodable, Illegal,
           Unsupported
  <2> QED BY <2>1, <2>2 DEF Step
<1>4. /\ pc # HALT_ADDRESS /\ ~ Failed(FetchReply) /\ Execute(Decoded)
      /\ Decoded \notin Undecodable
  BY <1>3 DEF ExecuteAt
<1>5. Decoded \in Inst
  BY <1>4, DecodedType DEF CpuTypeOK
<1>6. Retire(Destination(Decoded))
  BY <1>2, <1>4, ExecuteOutcome DEF Fault
<1>7. Destination(Decoded) = pc
  BY <1>1, <1>6 DEF Retire
<1> QED BY <1>1, <1>4, <1>5, <1>6, <1>7, SpinningInstruction

(* SpinLoop is only said of a fixed point of the control flow, or of       *)
(* callx0 a0 landing on itself, for every program and decoder.             *)
THEOREM SpinLoopsAreFixedPoints == CpuSpec => []SpinLoopIsFixedPointUnlessCallA0
<1>1. CpuInit => SpinLoopIsFixedPointUnlessCallA0
  BY DEF CpuInit, SpinLoopIsFixedPointUnlessCallA0
<1>2. CpuTypeOK /\ SpinLoopIsFixedPointUnlessCallA0 /\ [CpuNext]_cpuAllVars
        => SpinLoopIsFixedPointUnlessCallA0'
  <2> SUFFICES ASSUME CpuTypeOK, SpinLoopIsFixedPointUnlessCallA0, [CpuNext]_cpuAllVars,
                      halt' = "SpinLoop"
               PROVE  \/ WouldSpin'
                      \/ ~ Failed(FetchReply)' /\ (Decoded = [op |-> "CallReg", reg |-> A0])'
    BY DEF SpinLoopIsFixedPointUnlessCallA0
  <2>1. CASE Step
    BY <2>1, StepSpins
  <2>2. CASE halt = "None" /\ HaltWith("StepBudgetExhausted") /\ UNCHANGED busVars
    BY <2>2 DEF HaltWith
  <2>3. CASE UNCHANGED cpuAllVars
    <3>1. UNCHANGED <<ram, pc, regs, halt>>
      BY <2>3 DEF cpuAllVars, cpuVars, busVars
    <3>2. FetchReply' = FetchReply /\ Decoded' = Decoded /\ Sequential' = Sequential
      BY <3>1, SameFetch
    <3>3. Destination(Decoded)' = Destination(Decoded)
      BY <3>1, <3>2 DEF Destination
    <3> QED BY <3>1, <3>2, <3>3 DEF SpinLoopIsFixedPointUnlessCallA0, WouldSpin
  <2> QED BY <2>1, <2>2, <2>3 DEF CpuNext
<1> QED BY <1>1, <1>2, CpuTyping, PTL DEF CpuSpec, cpuAllVars

-----------------------------------------------------------------------------
LEMMA SameRam ==
    ASSUME UNCHANGED ram
    PROVE  ChangedRam = {}
BY DEF ChangedRam

(* A store that succeeds changes bytes of one word of one region, or sends *)
(* one byte, or does nothing (a write to a register that ignores it).      *)
LEMMA StoreEffect ==
    ASSUME BusTypeOK, NEW addr \in Word, NEW size \in Width, NEW value \in Word,
           Store(addr, size, value), ~ Failed(StoreReply(addr, size))
    PROVE  \/ /\ UNCHANGED uart
              /\ \A p, q \in ChangedRam : p[1] = q[1] /\ p[2] \div 4 = q[2] \div 4
           \/ UNCHANGED busVars
           \/ /\ UNCHANGED ram
              /\ uart'.transmitted = uart.transmitted + 1
              /\ Len(uart'.tx) = Len(uart.tx) + 1
<1> DEFINE to == Decode(addr)
<1>1. CASE to.at \in Region
  <2>1. ram' = [ram EXCEPT ![to.at] = WriteLe(@, to.offset, size, value)] /\ UNCHANGED uart
    BY <1>1 DEF Store, Region
  <2>2. addr % size = 0
    BY DEF StoreReply, AccessReply, Failed, Err
  <2>3. \E base \in Nat : base % 4 = 0 /\ to.offset = addr - base /\ to.offset \in Nat
    BY <1>1, DecodeCases, MapAssumption DEF Region, WholeWords, Window, Word
  <2>4. PICK base \in Nat : base % 4 = 0 /\ to.offset = addr - base /\ to.offset \in Nat
    BY <2>3
  <2>5. \A x \in Nat : to.offset <= x /\ x < to.offset + size =>
            x \div 4 = to.offset \div 4
    <3>1. addr \in Nat
      BY SpaceFacts DEF Word
    <3>2. CASE size = 1
      BY <2>4, <3>2
    <3>3. CASE size = 2
      <4>1. to.offset % 2 = 0
        BY <2>2, <2>4, <3>1, <3>3
      <4> HIDE DEF to
      <4> QED BY <2>4, <3>3, <4>1
    <3>4. CASE size = 4
      <4>1. to.offset % 4 = 0
        BY <2>2, <2>4, <3>1, <3>4
      <4> HIDE DEF to
      <4> QED BY <2>4, <3>4, <4>1
    <3> QED BY <3>2, <3>3, <3>4 DEF Width
  <2>6. ASSUME NEW p \in ChangedRam
        PROVE  p[1] = to.at /\ p[2] \in Nat /\ to.offset <= p[2] /\ p[2] < to.offset + size
    <3>1. /\ p \in Region \X (0 .. IRAM_SIZE + DRAM_SIZE) /\ p[2] < RegionSize(p[1])
          /\ ram[p[1]][p[2]] # ram'[p[1]][p[2]]
      BY <2>6 DEF ChangedRam
    <3>2. /\ p[1] \in Region /\ p[2] \in Nat
          /\ DOMAIN ram[p[1]] = 0 .. RegionSize(p[1]) - 1
          /\ p[1] \in DOMAIN ram /\ RegionSize(p[1]) \in Nat
      BY <3>1, MapAssumption DEF BusTypeOK, RamType, Region, RegionSize, WholeWords
    <3>3. p[1] = to.at
      BY <2>1, <3>1, <3>2
    <3>4. ram'[p[1]] = WriteLe(ram[p[1]], to.offset, size, value)
      BY <2>1, <3>2, <3>3
    <3>5. p[2] \in DOMAIN ram[p[1]]
      BY <3>1, <3>2
    <3>6. to.offset <= p[2] /\ p[2] < to.offset + size
      BY <3>1, <3>4, <3>5 DEF WriteLe
    <3> QED BY <3>2, <3>3, <3>6
  <2> HIDE DEF to
  <2> QED BY <2>1, <2>5, <2>6
<1>2. CASE to.at = "Uart0"
  <2>1. uart' = WriteReg(uart, AlignDown(to.offset, 4), value) /\ UNCHANGED ram
    BY <1>2 DEF Store, Region
  <2>2. uart.tx \in Seq(Byte) /\ value % BYTE \in Byte
    BY WordFacts, ByteAssumption DEF BusTypeOK, UartType, Word, Byte
  <2>3. Len(Append(uart.tx, value % BYTE)) = Len(uart.tx) + 1
    BY <2>2
  <2> HIDE DEF to
  <2> QED BY <2>1, <2>3 DEF WriteReg, busVars
<1> QED BY <1>1, <1>2 DEF Store

(* What one instruction does. *)
LEMMA StepEffect ==
    ASSUME CpuTypeOK, Step, steps' = steps + 1
    PROVE  OneEffect
<1>t. /\ steps \in Nat /\ regs \in [Reg -> Word] /\ BusTypeOK /\ pc \in Word
      /\ uart.transmitted \in Nat /\ Len(uart.tx) \in Nat
  BY DEF CpuTypeOK, BusTypeOK, UartType
<1>1. /\ ExecuteAt /\ ~ Failed(FetchReply) /\ Execute(Decoded)
      /\ Retire(Destination(Decoded))
  <2>1. ASSUME NEW fault, FaultWith(fault) PROVE FALSE
    BY <1>t, <2>1 DEF FaultWith
  <2>2. ExecuteAt
    BY <1>t, <2>1 DEF Step, ReturnWithoutExecuting, FetchFaults, DecodeFaults
  <2> QED BY <2>1, <2>2, ExecuteOutcome DEF ExecuteAt
<1> DEFINE i == Decoded
<1>2. /\ i \in Inst /\ pc' = Destination(i)
      /\ Sequential \in {WrapAdd(pc, 2), WrapAdd(pc, 3)}
  <2>1. i \in Inst
    BY <1>1, <1>t, DecodedType DEF ExecuteAt
  <2> QED BY <1>1, <1>t, <2>1, FetchType DEF Retire, Sequential
<1> HIDE DEF i
<1>3. ASSUME NEW dst \in Reg, NEW value, NEW next, Writes(dst, value, next),
             dst = A0 \/ pc' = Sequential
      PROVE  OneEffect
  <2> DEFINE changed == {r \in Reg : regs[r] # regs'[r]}
  <2>1. changed = {} \/ changed = {dst}
    BY <1>3, <1>t DEF Writes
  <2>2. UNCHANGED busVars /\ UNCHANGED ram /\ UNCHANGED uart
    BY <1>3 DEF Writes, busVars
  <2>3. uart'.transmitted - uart.transmitted = 0 /\ Len(uart'.tx) = Len(uart.tx) + 0
    BY <1>t, <2>2
  <2>4. ChangedRam = {}
    BY <2>2, SameRam
  <2>5. pc' \notin {WrapAdd(pc, 2), WrapAdd(pc, 3)} => changed \subseteq {A0}
    BY <1>2, <1>3, <2>1
  <2>6. changed = {} \/ \E r \in Reg : changed = {r}
    BY <2>1
  <2> HIDE DEF changed
  <2> QED BY <2>2, <2>3, <2>4, <2>5, <2>6 DEF OneEffect, changed
<1>4. ASSUME UNCHANGED <<regs, busVars>> PROVE OneEffect
  <2>1. UNCHANGED ram /\ UNCHANGED uart
    BY <1>4 DEF busVars
  <2>2. uart'.transmitted - uart.transmitted = 0 /\ Len(uart'.tx) = Len(uart.tx) + 0
    BY <1>t, <2>1
  <2>3. ChangedRam = {} /\ {r \in Reg : regs[r] # regs'[r]} = {}
    BY <1>4, <2>1, SameRam
  <2> QED BY <1>4, <2>1, <2>2, <2>3 DEF OneEffect
<1>5. CASE ExecStore(i)
  <2> DEFINE addr == WrapAdd(regs[i.base], i.offset)
             size == StoreWidth(i.kind)
  <2>1. i.kind \in StoreKind /\ i.src \in Reg /\ i.base \in Reg /\ i.offset \in Word
    BY <1>2, <1>5, OperandTypes DEF ExecStore
  <2>2. addr \in Word /\ regs[i.src] \in Word /\ size \in Width
    BY <1>t, <2>1, WrapTypes DEF StoreKind, StoreWidth, Width
  <2>3. ~ Failed(StoreReply(addr, size))
    BY <1>5, <1>t DEF ExecStore, FaultWith
  <2>4. Store(addr, size, regs[i.src]) /\ UNCHANGED regs
    BY <1>5, <2>3 DEF ExecStore
  <2>5. pc' \in {WrapAdd(pc, 2), WrapAdd(pc, 3)}
    BY <1>2, <1>5 DEF ExecStore, Destination
  <2> HIDE DEF addr, size
  <2>6. {r \in Reg : regs[r] # regs'[r]} = {}
    BY <2>4
  <2>7. CASE /\ UNCHANGED uart
             /\ \A p, q \in ChangedRam : p[1] = q[1] /\ p[2] \div 4 = q[2] \div 4
    <3>1. uart'.transmitted - uart.transmitted = 0 /\ Len(uart'.tx) = Len(uart.tx) + 0
      BY <1>t, <2>7
    <3> QED BY <2>5, <2>6, <2>7, <3>1 DEF OneEffect
  <2>8. CASE UNCHANGED busVars
    BY <1>4, <2>4, <2>8
  <2>9. CASE /\ UNCHANGED ram
             /\ uart'.transmitted = uart.transmitted + 1
             /\ Len(uart'.tx) = Len(uart.tx) + 1
    <3>1. uart'.transmitted - uart.transmitted = 1
      BY <1>t, <2>9
    <3>2. ChangedRam = {}
      BY <2>9, SameRam
    <3> QED BY <2>5, <2>6, <2>9, <3>1, <3>2 DEF OneEffect
  <2> QED BY <1>t, <2>2, <2>3, <2>4, <2>7, <2>8, <2>9, StoreEffect
<1>6. CASE ExecControl(i)
  BY <1>4, <1>6 DEF ExecControl
<1>7. CASE ExecCall(i)
  <2>1. A0 \in Reg
    BY RegisterFileAssumption DEF A0, Reg
  <2> QED BY <1>3, <1>7, <2>1 DEF ExecCall
<1>8. CASE ExecArith(i)
  <2>1. i.dst \in Reg /\ pc' = Sequential
    BY <1>2, <1>8, OperandTypes DEF ExecArith, Destination
  <2> QED BY <1>3, <1>8, <2>1 DEF ExecArith
<1>9. CASE ExecLoad(i) \/ ExecL32r(i)
  <2>1. i.dst \in Reg /\ pc' = Sequential
    BY <1>2, <1>9, OperandTypes DEF ExecLoad, ExecL32r, Destination
  <2> QED BY <1>3, <1>9, <1>t, <2>1 DEF ExecLoad, ExecL32r, FaultWith
<1>10. Execute(i)
  BY <1>1 DEF i
<1> QED BY <1>5, <1>6, <1>7, <1>8, <1>9, <1>10 DEF Execute

(* One instruction has one effect, whatever the program: the property that *)
(* lets the run loop report registers, memory and output per instruction.  *)
THEOREM OneEffectEach == CpuSpec => OneEffectPerInstruction
<1>1. CpuTypeOK /\ [CpuNext]_cpuAllVars =>
        [steps' = steps + 1 => OneEffect]_cpuAllVars
  <2> SUFFICES ASSUME CpuTypeOK, CpuNext, steps' = steps + 1
               PROVE  OneEffect
    BY DEF cpuAllVars
  <2> QED BY StepEffect DEF CpuNext, HaltWith, CpuTypeOK
<1> QED BY <1>1, CpuTyping, PTL DEF CpuSpec, OneEffectPerInstruction, cpuAllVars
=============================================================================
