--------------------------- MODULE MachineProofs ----------------------------
(***************************************************************************)
(* What a machine guarantees its host for every firmware, every image,     *)
(* every address map, any budgets and any number of loads and runs.        *)
(***************************************************************************)
EXTENDS Trace, CpuProofs, LoaderProofs

-----------------------------------------------------------------------------
(* The type invariant of the machine and its parts. *)
MachineInv == MachineTypeOK /\ LoaderInv

(* A load touches the CPU and RAM, and nothing the run loop keeps.         *)
LEMMA LoadElfEffect ==
    ASSUME LoadElf
    PROVE  /\ loading /\ UNCHANGED <<uart, runVars>>
           /\ \/ Reset(outcome'.entry, InitialStackPointer)
              \/ UNCHANGED cpuVars
<1>1. loading /\ UNCHANGED uart
  BY DEF LoadElf, LoadStep, TruncatedTable, SkipSegment, SegmentMemorySizeTooSmall,
     SegmentFileRangeOutOfBounds, CopyFails, ClearFails, PlaceSegment, FinishLoad,
     InTable, Sound, busVars
<1> QED BY <1>1 DEF LoadElf

(* The entry of a load that succeeds is a word of the image's header.      *)
LEMMA EntryType ==
    ASSUME LoaderInv, LoadStep, outcome'.kind = "Ok"
    PROVE  outcome'.entry \in Word
<1>0. image.entry \in Word
  BY ImageFacts DEF LoaderInv, LoaderTypeOK
<1>1. CASE FinishLoad
  BY <1>0, <1>1 DEF FinishLoad, Return, PlainError
<1>2. CASE SkipSegment \/ PlaceSegment
  BY <1>2 DEF SkipSegment, PlaceSegment, Sound, InTable, LoaderInv
<1>3. CASE TruncatedTable \/ SegmentMemorySizeTooSmall \/ SegmentFileRangeOutOfBounds
           \/ CopyFails \/ ClearFails
  BY <1>3 DEF TruncatedTable, SegmentMemorySizeTooSmall, SegmentFileRangeOutOfBounds,
     CopyFails, ClearFails, Return, PlainError, Error, Failed
<1> QED BY <1>1, <1>2, <1>3 DEF LoadStep

LEMMA ResetType ==
    ASSUME BusTypeOK', NEW entry \in Word, Reset(entry, InitialStackPointer)
    PROVE  CpuTypeOK'
BY ResetRegsType DEF Reset, CpuTypeOK

(* Draining empties the UART into one call, or makes none. *)
LEMMA DrainEffect ==
    ASSUME MachineInv, Drain
    PROVE  /\ BusTypeOK' /\ UNCHANGED ram
           /\ uart'.tx = <<>> /\ uart'.transmitted = uart.transmitted
           /\ delivered' = delivered + Len(uart.tx) /\ delivered' \in Nat
           /\ owed' = IF uart.tx = <<>> THEN owed ELSE 0
           /\ log' = IF uart.tx = <<>> THEN log ELSE Append(log, UartEvent(uart.tx))
<1>1. BusTypeOK /\ delivered \in Nat /\ uart.tx \in Seq(Byte) /\ Len(uart.tx) \in Nat
  BY DEF MachineInv, MachineTypeOK, BusTypeOK, UartType
<1>2. CASE uart.tx = <<>>
  BY <1>1, <1>2 DEF Drain, busVars, BusTypeOK
<1>3. CASE uart.tx # <<>>
  <2>1. uart' = [uart EXCEPT !.tx = <<>>] /\ UNCHANGED ram
    BY <1>3 DEF Drain, TakePending
  <2>2. uart' \in UartType /\ uart'.tx = <<>> /\ uart'.transmitted = uart.transmitted
    <3>1. uart \in UartType /\ <<>> \in Seq(Byte)
      BY <1>1 DEF BusTypeOK
    <3>2. uart' = [tx |-> <<>>, transmitted |-> uart.transmitted] /\ uart.transmitted \in Nat
      BY <2>1, <3>1 DEF UartType
    <3> QED BY <3>1, <3>2 DEF UartType
  <2> QED BY <1>1, <1>3, <2>1, <2>2 DEF Drain, BusTypeOK
<1> QED BY <1>2, <1>3

(* One turn of the run loop: an instruction retires and sends at most one  *)
(* byte, or the CPU halts and sends none.                                  *)
LEMMA RunStepEffect ==
    ASSUME MachineInv, RunStep
    PROVE  /\ CpuTypeOK' /\ control = "loop" /\ halt = "None" /\ ~ OutOfBudget
           /\ \/ /\ steps' = steps + 1 /\ control' = "drain" /\ log' = Append(log, StepEvent)
                 /\ uart'.transmitted - uart.transmitted \in {0, 1}
                 /\ Len(uart'.tx) = Len(uart.tx) + (uart'.transmitted - uart.transmitted)
                 /\ halt' = "None" => pc' # HALT_ADDRESS
              \/ /\ steps' = steps /\ control' = "final" /\ UNCHANGED <<log, busVars>>
                 /\ halt' # "None"
           /\ halt' # "StepBudgetExhausted"
<1>1. CpuTypeOK /\ steps \in Nat /\ Step
  BY DEF MachineInv, MachineTypeOK, RunStep, CpuTypeOK
<1>2. CpuTypeOK' /\ halt = "None"
  BY <1>1, StepType, StepOutcome
<1>3. CASE ReturnWithoutExecuting \/ \E fault \in Fault : FaultWith(fault)
  BY <1>2, <1>3 DEF ReturnWithoutExecuting, FaultWith, Fault, ErrorKind, RunStep
<1>4. CASE pc # HALT_ADDRESS /\ \E next : Retire(next)
  <2>1. steps' = steps + 1 /\ halt' # "StepBudgetExhausted"
        /\ (halt' = "None" => pc' # HALT_ADDRESS)
    BY <1>2, <1>4 DEF Retire
  <2>2. steps' # steps
    BY <1>1, <2>1
  <2>3. OneEffect
    BY <1>1, <2>1, StepEffect
  <2>4. /\ uart'.transmitted - uart.transmitted \in {0, 1}
        /\ Len(uart'.tx) = Len(uart.tx) + (uart'.transmitted - uart.transmitted)
    BY <2>3 DEF OneEffect
  <2> QED BY <1>2, <2>1, <2>2, <2>4 DEF RunStep
<1> QED BY <1>1, <1>3, <1>4, StepOutcome

-----------------------------------------------------------------------------
LEMMA MachineInitType == MachineInit => MachineInv
<1> SUFFICES ASSUME MachineInit PROVE MachineInv
  OBVIOUS
<1>1. LoaderInv /\ BusTypeOK
  BY LoaderInitType DEF MachineInit, LoaderInv, LoaderTypeOK
<1>2. 0 \in Word
  BY SpaceFacts DEF Word
<1>3. regs \in [Reg -> Word] /\ pc \in Word /\ steps \in Nat /\ halt = "None"
  BY <1>2 DEF MachineInit, CpuNew
<1>4. loading = FALSE
  BY DEF MachineInit, LoaderInit
<1> QED BY <1>1, <1>3, <1>4 DEF MachineInit, MachineInv, MachineTypeOK, CpuTypeOK

LEMMA MachineStepType ==
    ASSUME MachineInv, [MachineNext]_machineVars
    PROVE  MachineInv'
<1> USE DEF MachineInv
<1>1. CASE StartLoadElf
  <2>1. LoaderInv'
    BY <1>1, BeginLoadType DEF StartLoadElf
  <2>2. UNCHANGED <<busVars, cpuVars, runVars>> /\ control = "host"
    BY <1>1 DEF StartLoadElf, BeginLoad, Idle
  <2>3. MachineTypeOK'
    BY <2>2 DEF MachineTypeOK, CpuTypeOK, BusTypeOK, busVars, cpuVars, runVars
  <2> QED BY <2>1, <2>3
<1>2. CASE LoadElf
  <2>1. LoaderInv' /\ BusTypeOK'
    BY <1>2, LoadStepType DEF LoadElf, LoaderInv, LoaderTypeOK
  <2>2. CpuTypeOK'
    <3>1. CASE outcome'.kind = "Ok" /\ Reset(outcome'.entry, InitialStackPointer)
      BY <1>2, <2>1, <3>1, EntryType, ResetType DEF LoadElf
    <3>2. CASE UNCHANGED cpuVars
      BY <2>1, <3>2 DEF MachineTypeOK, CpuTypeOK, cpuVars
    <3> QED BY <1>2, <3>1, <3>2 DEF LoadElf
  <2>3. loading /\ UNCHANGED runVars
    BY <1>2, LoadElfEffect
  <2> QED BY <2>1, <2>2, <2>3 DEF MachineTypeOK, runVars
<1>3. CASE HostStore
  <2>1. PICK s \in HostStores : Store(s[1], s[2], s[3])
    BY <1>3 DEF HostStore
  <2>2. s[1] \in Word /\ s[2] \in Width /\ s[3] \in Word
    BY HostAssumption
  <2>3. BusTypeOK' /\ Len(uart'.tx) \in Nat
    BY <2>1, <2>2, StoreType DEF MachineTypeOK, BusTypeOK, UartType
  <2>4. /\ UNCHANGED <<cpuVars, loaderVars, control, budget, started, delivered>>
        /\ owed' = Len(uart'.tx)
    BY <1>3 DEF HostStore
  <2> QED BY <2>3, <2>4
       DEF MachineTypeOK, CpuTypeOK, LoaderInv, LoaderTypeOK, cpuVars, loaderVars
<1>4. CASE StartRun
  <2>1. /\ UNCHANGED <<busVars, cpuVars, loaderVars, owed, delivered>> /\ ~ loading
        /\ control' = "loop" /\ budget' \in Nat /\ started' = steps
    BY <1>4, HostAssumption DEF StartRun, Idle
  <2> QED BY <2>1 DEF MachineTypeOK, CpuTypeOK, BusTypeOK, LoaderInv, LoaderTypeOK,
                      busVars, cpuVars, loaderVars
<1>5. CASE LoopEnds
  <2>1. /\ UNCHANGED <<busVars, loaderVars, budget, owed, started, delivered>>
        /\ UNCHANGED <<regs, pc, steps>> /\ halt' \in {halt, "StepBudgetExhausted"}
        /\ control = "loop" /\ control' = "final"
    BY <1>5 DEF LoopEnds, HaltWith, cpuVars
  <2> QED BY <2>1 DEF MachineTypeOK, CpuTypeOK, BusTypeOK, LoaderInv, LoaderTypeOK,
                      busVars, loaderVars, HaltReason
<1>6. CASE RunStep
  <2>1. CpuTypeOK' /\ control = "loop" /\ control' \in {"drain", "final"}
    BY <1>6, RunStepEffect
  <2>2. UNCHANGED <<loaderVars, budget, owed, started, delivered>>
    BY <1>6 DEF RunStep
  <2> QED BY <2>1, <2>2
       DEF MachineTypeOK, CpuTypeOK, LoaderInv, LoaderTypeOK, loaderVars
<1>7. CASE DrainAfterStep \/ FinishRun
  <2>1. Drain /\ control' \in {"loop", "host"} /\ control # "host"
        /\ UNCHANGED <<cpuVars, loaderVars, budget, started>>
    BY <1>7 DEF DrainAfterStep, FinishRun
  <2>2. BusTypeOK' /\ delivered' \in Nat /\ owed' \in Nat
    BY <2>1, DrainEffect DEF MachineTypeOK
  <2> QED BY <2>1, <2>2
       DEF MachineTypeOK, CpuTypeOK, LoaderInv, LoaderTypeOK, cpuVars, loaderVars
<1>8. CASE UNCHANGED machineVars
  BY <1>8 DEF machineVars, busVars, cpuVars, loaderVars, runVars, MachineTypeOK,
              CpuTypeOK, BusTypeOK, LoaderInv, LoaderTypeOK
<1> QED BY <1>1, <1>2, <1>3, <1>4, <1>5, <1>6, <1>7, <1>8 DEF MachineNext, Running

LEMMA MachineInductive == MachineSpec => []MachineInv
BY MachineInitType, MachineStepType, PTL DEF MachineSpec

(* Over any series of loads, stores of the host and runs, the CPU and the  *)
(* bus stay well typed, and no load is in progress while a run is.         *)
THEOREM MachineTyping == MachineSpec => []MachineTypeOK
<1>1. MachineInv => MachineTypeOK
  BY DEF MachineInv
<1> QED BY <1>1, MachineInductive, PTL

-----------------------------------------------------------------------------
(* Where the bytes in the UART come from: the host's, when no instruction  *)
(* has run since; and the one of the instruction that has just retired.    *)
OutputInv ==
    /\ uart.transmitted = delivered + Len(uart.tx)
    /\ control # "drain" => Len(uart.tx) = owed
    /\ control = "drain" => Len(uart.tx) \in owed .. owed + 1
    /\ control \in {"loop", "final"} /\ log # <<>> => uart.tx = <<>>

LEMMA LenType == MachineInv => Len(uart.tx) \in Nat /\ uart.tx \in Seq(Byte)
                               /\ uart.transmitted \in Nat
BY DEF MachineInv, MachineTypeOK, BusTypeOK, UartType

(* A store of the host sends a byte or leaves the output alone. *)
LEMMA StoreOutput ==
    ASSUME BusTypeOK, NEW addr \in Word, NEW size \in Width, NEW value \in Word,
           Store(addr, size, value)
    PROVE  \E sent \in {0, 1} : /\ uart'.transmitted = uart.transmitted + sent
                               /\ Len(uart'.tx) = Len(uart.tx) + sent
<1>0. Len(uart.tx) \in Nat /\ uart.transmitted \in Nat
  BY DEF BusTypeOK, UartType
<1>1. CASE Failed(StoreReply(addr, size))
  BY <1>0, <1>1 DEF Store, busVars
<1>2. CASE ~ Failed(StoreReply(addr, size))
  <2>1. CASE UNCHANGED uart
    BY <1>0, <2>1
  <2>2. CASE /\ uart'.transmitted = uart.transmitted + 1
             /\ Len(uart'.tx) = Len(uart.tx) + 1
    BY <1>0, <2>2
  <2> QED BY <1>2, <2>1, <2>2, StoreEffect DEF busVars
<1> QED BY <1>1, <1>2

LEMMA OutputStep ==
    ASSUME MachineInv, OutputInv, [MachineNext]_machineVars
    PROVE  OutputInv'
<1>0. /\ Len(uart.tx) \in Nat /\ uart.transmitted \in Nat /\ owed \in Nat /\ delivered \in Nat
      /\ control \in {"host", "loop", "drain", "final"} /\ (loading => control = "host")
  BY LenType DEF MachineInv, MachineTypeOK
<1>1. CASE UNCHANGED <<uart, control, owed, delivered, log>>
  BY <1>1 DEF OutputInv
<1>2. CASE HostStore
  <2>1. PICK s \in HostStores : Store(s[1], s[2], s[3])
    BY <1>2 DEF HostStore
  <2>2. s[1] \in Word /\ s[2] \in Width /\ s[3] \in Word
    BY HostAssumption
  <2>3. \E sent \in {0, 1} : /\ uart'.transmitted = uart.transmitted + sent
                             /\ Len(uart'.tx) = Len(uart.tx) + sent
    BY <2>1, <2>2, StoreOutput DEF MachineInv, MachineTypeOK
  <2>4. owed' = Len(uart'.tx) /\ control' = "host" /\ UNCHANGED delivered
    BY <1>2 DEF HostStore, Idle
  <2>5. uart.transmitted = delivered + Len(uart.tx)
    BY DEF OutputInv
  <2>6. uart'.transmitted = delivered' + Len(uart'.tx)
    BY <1>0, <2>3, <2>4, <2>5
  <2> QED BY <2>4, <2>6 DEF OutputInv
<1>3. CASE StartRun
  BY <1>3 DEF StartRun, Idle, OutputInv, busVars
<1>4. CASE LoopEnds
  BY <1>4 DEF LoopEnds, OutputInv, busVars
<1>5. CASE RunStep
  <2>1. control = "loop" /\ Len(uart.tx) = owed /\ UNCHANGED <<owed, delivered>>
    BY <1>5 DEF RunStep, OutputInv
  <2>2. CASE steps' = steps + 1 /\ control' = "drain"
             /\ uart'.transmitted - uart.transmitted \in {0, 1}
             /\ Len(uart'.tx) = Len(uart.tx) + (uart'.transmitted - uart.transmitted)
    <3>1. uart'.transmitted \in Int
      BY <1>5, RunStepEffect DEF CpuTypeOK, BusTypeOK, UartType
    <3>2. uart.transmitted = delivered + Len(uart.tx)
      BY DEF OutputInv
    <3>3. uart'.transmitted = delivered' + Len(uart'.tx)
      BY <1>0, <2>1, <2>2, <3>1, <3>2
    <3>4. Len(uart'.tx) \in owed' .. owed' + 1
      BY <1>0, <2>1, <2>2, <3>1
    <3> QED BY <2>2, <3>3, <3>4 DEF OutputInv
  <2>3. CASE control' = "final" /\ UNCHANGED <<log, busVars>>
    BY <2>1, <2>3 DEF OutputInv, busVars
  <2> QED BY <1>5, <2>2, <2>3, RunStepEffect
<1>6. CASE DrainAfterStep \/ FinishRun
  <2>1. /\ Drain /\ control \in {"drain", "final"}
        /\ control' \in {"loop", "host"} /\ (control = "final" => control' = "host")
    BY <1>6 DEF DrainAfterStep, FinishRun
  <2>2. /\ uart'.tx = <<>> /\ uart'.transmitted = uart.transmitted
        /\ delivered' = delivered + Len(uart.tx)
        /\ owed' = IF uart.tx = <<>> THEN owed ELSE 0
    BY <2>1, DrainEffect
  <2>3. owed' = 0 /\ Len(uart'.tx) = 0
    BY <1>0, <2>1, <2>2 DEF OutputInv
  <2> QED BY <1>0, <2>1, <2>2, <2>3 DEF OutputInv
<1>7. CASE StartLoadElf
  BY <1>1, <1>7 DEF StartLoadElf, BeginLoad, busVars, runVars
<1>8. CASE LoadElf
  BY <1>1, <1>8, LoadElfEffect DEF runVars
<1>9. CASE UNCHANGED machineVars
  BY <1>1, <1>9 DEF machineVars, busVars, runVars
<1> QED BY <1>2, <1>3, <1>4, <1>5, <1>6, <1>7, <1>8, <1>9 DEF MachineNext, Running

LEMMA OutputInductive == MachineSpec => []OutputInv
<1>1. MachineInit => OutputInv
  BY DEF MachineInit, LoaderInit, BusInit, OutputInv
<1> QED BY <1>1, OutputStep, MachineInductive, PTL DEF MachineSpec

(* No byte is lost, reported twice or left behind, over any series of      *)
(* loads, stores of the host and runs.                                     *)
THEOREM OutputConservation == MachineSpec => []OutputIsConserved
<1>1. OutputInv => OutputIsConserved
  BY DEF OutputInv, OutputIsConserved
<1> QED BY <1>1, OutputInductive, PTL

(* The UART never holds more than one instruction's byte on top of what    *)
(* the host left in it.                                                    *)
THEOREM PendingBound == MachineSpec => []PendingIsOneInstructionsWorth
<1>1. MachineInv /\ OutputInv => PendingIsOneInstructionsWorth
  <2> SUFFICES ASSUME MachineInv, OutputInv PROVE PendingIsOneInstructionsWorth
    OBVIOUS
  <2>1. Len(uart.tx) \in Nat /\ owed \in Nat
    BY LenType DEF MachineInv, MachineTypeOK
  <2> QED BY <2>1 DEF OutputInv, PendingIsOneInstructionsWorth
<1> QED BY <1>1, MachineInductive, OutputInductive, PTL

-----------------------------------------------------------------------------
(* The count never passes the budget, the loop is left with a reason, and  *)
(* a core that may go on is at the sentinel only if it was started there.  *)
BudgetInv ==
    /\ BudgetIsRespected
    /\ control = "drain" => steps <= budget
    /\ halt = "None" /\ steps > 0 => pc # HALT_ADDRESS

LEMMA BudgetStep ==
    ASSUME MachineInv, BudgetInv, [MachineNext]_machineVars
    PROVE  BudgetInv'
<1> USE DEF BudgetInv, BudgetIsRespected
<1>0. /\ steps \in Nat /\ budget \in Nat /\ started \in Nat
      /\ (loading => control = "host")
  BY DEF MachineInv, MachineTypeOK, CpuTypeOK
<1>1. CASE UNCHANGED <<regs, pc, steps, halt, control, budget, started>>
  BY <1>1
<1>2. CASE StartLoadElf \/ HostStore
  BY <1>1, <1>2 DEF StartLoadElf, HostStore, cpuVars, runVars
<1>3. CASE LoadElf
  <2>1. control = "host" /\ UNCHANGED control
    BY <1>0, <1>3, LoadElfEffect DEF runVars
  <2>2. CASE Reset(outcome'.entry, InitialStackPointer)
    BY <2>1, <2>2 DEF Reset
  <2>3. CASE UNCHANGED cpuVars
    BY <2>1, <2>3 DEF cpuVars
  <2> QED BY <1>3, <2>2, <2>3, LoadElfEffect
<1>4. CASE StartRun
  BY <1>4 DEF StartRun, cpuVars
<1>5. CASE LoopEnds
  BY <1>5 DEF LoopEnds, HaltWith, cpuVars
<1>6. CASE RunStep
  <2>1. UNCHANGED <<budget, started>> /\ control = "loop" /\ halt = "None"
    BY <1>6 DEF RunStep
  <2>2. steps < budget
    BY <1>0, <1>6 DEF RunStep, OutOfBudget
  <2> QED BY <1>0, <1>6, <2>1, <2>2, RunStepEffect
<1>7. CASE DrainAfterStep \/ FinishRun
  BY <1>7 DEF DrainAfterStep, FinishRun, cpuVars
<1>8. CASE UNCHANGED machineVars
  BY <1>1, <1>8 DEF machineVars, cpuVars, runVars
<1> QED BY <1>2, <1>3, <1>4, <1>5, <1>6, <1>7, <1>8 DEF MachineNext, Running

LEMMA BudgetInductive == MachineSpec => []BudgetInv
<1>1. MachineInit => BudgetInv
  BY DEF MachineInit, CpuNew, BudgetInv, BudgetIsRespected
<1> QED BY <1>1, BudgetStep, MachineInductive, PTL DEF MachineSpec

(* A run retires no more instructions than its budget, on top of none at   *)
(* all when the count was past it already, and always says why it ended.   *)
THEOREM BudgetBoundsRuns == MachineSpec => []BudgetIsRespected
<1>1. BudgetInv => BudgetIsRespected
  BY DEF BudgetInv
<1> QED BY <1>1, BudgetInductive, PTL

(* No other halt is ever reported as a lack of budget.                     *)
THEOREM ExhaustionIsReal == MachineSpec => ExhaustedOnlyAtBudget
<1>1. MachineInv /\ BudgetInv /\ [MachineNext]_machineVars =>
        [halt' = "StepBudgetExhausted" /\ halt = "None" =>
            steps >= budget /\ (steps > 0 => pc # HALT_ADDRESS)]_machineVars
  <2> SUFFICES ASSUME MachineInv, BudgetInv, MachineNext,
                      halt' = "StepBudgetExhausted", halt = "None"
               PROVE  steps >= budget /\ (steps > 0 => pc # HALT_ADDRESS)
    OBVIOUS
  <2>1. LoopEnds
    <3>1. ~ RunStep
      BY RunStepEffect
    <3>2. ~ LoadElf
      BY LoadElfEffect DEF Reset, cpuVars
    <3> QED BY <3>1, <3>2 DEF MachineNext, Running, StartLoadElf, HostStore, StartRun,
            DrainAfterStep, FinishRun, cpuVars
  <2> QED BY <2>1 DEF LoopEnds, OutOfBudget, cpuVars, BudgetInv
<1> QED BY <1>1, MachineInductive, BudgetInductive, PTL DEF MachineSpec, ExhaustedOnlyAtBudget

(* A load either starts the CPU afresh or leaves it alone.                 *)
THEOREM LoadsAreAllOrNothing == MachineSpec => LoadIsAllOrNothingForCpu
<1>1. [MachineNext]_machineVars =>
        [loading /\ ~ loading' =>
            IF outcome'.kind = "Ok"
            THEN halt' = "None" /\ steps' = 0 /\ pc' = outcome'.entry
                 /\ regs'[A0] = HALT_ADDRESS
            ELSE UNCHANGED cpuVars]_machineVars
  <2> SUFFICES ASSUME MachineNext, loading, ~ loading'
               PROVE  IF outcome'.kind = "Ok"
                      THEN halt' = "None" /\ steps' = 0 /\ pc' = outcome'.entry
                           /\ regs'[A0] = HALT_ADDRESS
                      ELSE UNCHANGED cpuVars
    OBVIOUS
  <2>1. LoadElf
    <3>1. ~ StartLoadElf /\ ~ HostStore /\ ~ StartRun
      BY DEF StartLoadElf, HostStore, StartRun, Idle
    <3>2. ~ LoopEnds /\ ~ RunStep /\ ~ DrainAfterStep /\ ~ FinishRun
      BY DEF LoopEnds, RunStep, DrainAfterStep, FinishRun, loaderVars
    <3> QED BY <3>1, <3>2 DEF MachineNext, Running
  <2>2. A0 \in Reg /\ A0 # A1
    BY RegisterFileAssumption DEF A0, A1, Reg
  <2>3. ASSUME Reset(outcome'.entry, InitialStackPointer)
        PROVE  /\ halt' = "None" /\ steps' = 0 /\ pc' = outcome'.entry
               /\ regs'[A0] = HALT_ADDRESS
    BY <2>2, <2>3 DEF Reset, ResetRegs
  <2> QED BY <2>1, <2>3 DEF LoadElf
<1> QED BY <1>1, PTL DEF MachineSpec, LoadIsAllOrNothingForCpu

-----------------------------------------------------------------------------
(* The calls of a run are a sequence; between an instruction and its drain *)
(* the last of them is that instruction's, with the current count.         *)
LogInv ==
    /\ \E S : log \in Seq(S)
    /\ control = "drain" => /\ log # <<>> /\ log[Len(log)].call = "on_step"
                            /\ log[Len(log)].step = steps

LEMMA AppendLog ==
    ASSUME NEW S, log \in Seq(S), NEW event, log' = Append(log, event)
    PROVE  /\ \E T : log' \in Seq(T)
           /\ log' # <<>> /\ log' # log /\ log'[Len(log')] = event
           /\ ObserverCalls' = Append(ObserverCalls, Numbered(event))
<1>1. log' \in Seq(S \cup {event}) /\ Len(log') = Len(log) + 1 /\ Len(log) \in Nat
      /\ DOMAIN log = 1 .. Len(log) /\ DOMAIN log' = 1 .. Len(log) + 1
  <2>1. log \in Seq(S \cup {event})
    OBVIOUS
  <2> QED BY <2>1
<1>2. log'[Len(log')] = event /\ \A k \in 1 .. Len(log) : log'[k] = log[k]
  BY <1>1
<1> DEFINE T == {Numbered(log[k]) : k \in DOMAIN log}
<1>3. ObserverCalls \in Seq(T) /\ Len(ObserverCalls) = Len(log)
  BY <1>1 DEF ObserverCalls
<1> HIDE DEF T
<1>4. DOMAIN ObserverCalls' = DOMAIN Append(ObserverCalls, Numbered(event))
  BY <1>1, <1>3 DEF ObserverCalls
<1>5. \A k \in 1 .. Len(log) + 1 :
          ObserverCalls'[k] = Append(ObserverCalls, Numbered(event))[k]
  BY <1>1, <1>2, <1>3 DEF ObserverCalls
<1>6. ObserverCalls' = Append(ObserverCalls, Numbered(event))
  BY <1>1, <1>3, <1>4, <1>5 DEF ObserverCalls
<1>7. \A n \in Nat : n + 1 # n
  OBVIOUS
<1>8. log' # log
  BY <1>1, <1>7, Zenon
<1>9. log' # <<>>
  BY <1>1
<1> QED BY <1>1, <1>2, <1>6, <1>8, <1>9, Zenon

LEMMA LogStep ==
    ASSUME MachineInv, LogInv, [MachineNext]_machineVars
    PROVE  LogInv'
<1> USE DEF LogInv
<1>0. loading => control = "host"
  BY DEF MachineInv, MachineTypeOK
<1>1. CASE UNCHANGED <<log, control, steps>>
  BY <1>1
<1>2. CASE StartLoadElf \/ HostStore
  BY <1>1, <1>2 DEF StartLoadElf, HostStore, cpuVars, runVars
<1>3. CASE LoadElf
  BY <1>0, <1>3, LoadElfEffect DEF runVars
<1>4. CASE StartRun
  <2>1. <<>> \in Seq({})
    OBVIOUS
  <2> QED BY <1>4, <2>1 DEF StartRun
<1>5. CASE LoopEnds
  BY <1>5 DEF LoopEnds
<1>6. CASE RunStep
  <2>1. CASE control' = "drain" /\ log' = Append(log, StepEvent)
    <3>1. StepEvent.call = "on_step" /\ StepEvent.step = steps'
      BY DEF StepEvent
    <3> QED BY <2>1, <3>1, AppendLog
  <2>2. CASE control' = "final" /\ UNCHANGED log
    BY <2>2
  <2> QED BY <1>6, <2>1, <2>2, RunStepEffect
<1>7. CASE DrainAfterStep \/ FinishRun
  <2>1. Drain /\ control' \in {"loop", "host"}
    BY <1>7 DEF DrainAfterStep, FinishRun
  <2>2. CASE UNCHANGED log
    BY <2>1, <2>2
  <2>3. CASE log' = Append(log, UartEvent(uart.tx))
    BY <2>1, <2>3, AppendLog
  <2> QED BY <2>1, <2>2, <2>3 DEF Drain
<1>8. CASE UNCHANGED machineVars
  BY <1>1, <1>8 DEF machineVars, cpuVars, runVars
<1> QED BY <1>2, <1>3, <1>4, <1>5, <1>6, <1>7, <1>8 DEF MachineNext, Running

LEMMA LogInductive == MachineSpec => []LogInv
<1>1. MachineInit => LogInv
  <2>1. <<>> \in Seq({})
    OBVIOUS
  <2> QED BY <2>1 DEF MachineInit, LogInv
<1> QED BY <1>1, LogStep, MachineInductive, PTL DEF MachineSpec

(* The calls seen by the observer, before and after a call. *)
LEMMA SameCalls ==
    ASSUME UNCHANGED log
    PROVE  UNCHANGED ObserverCalls
BY DEF ObserverCalls

LEMMA NoCalls ==
    /\ log = <<>> => ObserverCalls = <<>>
    /\ LogInv /\ log # <<>> => ObserverCalls # <<>>
    /\ LogInv => Len(ObserverCalls) = Len(log)
<1>1. ASSUME log = <<>> PROVE ObserverCalls = <<>>
  BY <1>1 DEF ObserverCalls
<1>2. ASSUME LogInv PROVE Len(ObserverCalls) = Len(log) /\ (log # <<>> => ObserverCalls # <<>>)
  <2>1. PICK S : log \in Seq(S)
    BY <1>2 DEF LogInv
  <2>2. DOMAIN log = 1 .. Len(log) /\ Len(log) \in Nat
    BY <2>1
  <2>3. ObserverCalls \in Seq({Numbered(log[k]) : k \in DOMAIN log})
        /\ Len(ObserverCalls) = Len(log)
    BY <2>2 DEF ObserverCalls
  <2> QED BY <2>1, <2>3
<1> QED BY <1>1, <1>2

(* The run loop, with everything behind it, keeps what Observation         *)
(* promises: every instruction is reported, in order and once, and its     *)
(* output right behind it.                                                 *)
THEOREM MachineImplementsObservation == MachineSpec => ObserverProtocol
<1>1. MachineInit => Observed!ObservationInit
  BY NoCalls DEF MachineInit, CpuNew, Observed!ObservationInit
<1>2. MachineInv /\ OutputInv /\ LogInv /\ [MachineNext]_machineVars =>
        [Observed!ObservationNext]_(Observed!observationVars)
  <2> SUFFICES ASSUME MachineInv, OutputInv, LogInv, [MachineNext]_machineVars
               PROVE  Observed!ObservationNext \/ UNCHANGED Observed!observationVars
    OBVIOUS
  <2>0. /\ Len(uart.tx) \in Nat /\ uart.tx \in Seq(Byte) /\ owed \in Nat
        /\ control \in {"host", "loop", "drain", "final"} /\ (loading => control = "host")
    BY LenType DEF MachineInv, MachineTypeOK
  <2>1. CASE UNCHANGED <<log, control, steps, owed>>
    BY <2>1, SameCalls DEF Observed!observationVars
  <2>2. CASE StartLoadElf \/ LoopEnds
    <3>1. CASE StartLoadElf
      BY <2>1, <3>1 DEF StartLoadElf, cpuVars, runVars
    <3>2. CASE LoopEnds
      <4>1. UNCHANGED <<log, steps, owed>> /\ control = "loop" /\ control' = "final"
        BY <3>2 DEF LoopEnds, HaltWith, cpuVars
      <4> QED BY <4>1, SameCalls DEF Observed!observationVars
    <3> QED BY <2>2, <3>1, <3>2
  <2>3. CASE LoadElf
    <3>1. control = "host" /\ UNCHANGED <<control, log, owed>> /\ steps' \in {0, steps}
      BY <2>0, <2>3, LoadElfEffect DEF Reset, cpuVars, runVars
    <3> QED BY <2>0, <3>1, SameCalls DEF Observed!ObservationNext, Observed!Host
  <2>4. CASE HostStore
    <3>1. control = "host" /\ UNCHANGED <<control, log, steps>>
      BY <2>4 DEF HostStore, Idle, cpuVars
    <3>2. owed' \in Nat
      BY MachineStepType DEF MachineInv, MachineTypeOK
    <3> QED BY <3>1, <3>2, SameCalls DEF Observed!ObservationNext, Observed!Host
  <2>5. CASE StartRun
    <3>1. /\ control = "host" /\ control' = "loop" /\ log' = <<>>
          /\ UNCHANGED <<steps, owed>>
      BY <2>5 DEF StartRun, Idle, cpuVars
    <3>2. ObserverCalls' = <<>>
      BY <3>1 DEF ObserverCalls
    <3> QED BY <3>1, <3>2 DEF Observed!ObservationNext, Observed!Begin
  <2>6. CASE RunStep
    <3>1. control = "loop" /\ control' \in {"drain", "final"} /\ UNCHANGED owed
      BY <2>6 DEF RunStep
    <3>2. CASE steps' = steps + 1 /\ log' = Append(log, StepEvent)
      <4>1. Numbered(StepEvent) = [call |-> "on_step", step |-> steps + 1]
        BY <3>2 DEF Numbered, StepEvent
      <4>2. ObserverCalls' = Append(ObserverCalls, [call |-> "on_step", step |-> steps + 1])
        BY <3>2, <4>1, AppendLog DEF LogInv
      <4> QED BY <3>1, <3>2, <4>2
           DEF Observed!ObservationNext, Observed!Retire, Observed!StepEvent
    <3>3. CASE steps' = steps /\ UNCHANGED log
      BY <3>1, <3>3, SameCalls DEF Observed!observationVars
    <3> QED BY <2>6, <3>2, <3>3, RunStepEffect
  <2>7. CASE DrainAfterStep \/ FinishRun
    <3>1. /\ Drain /\ UNCHANGED steps
          /\ \/ control = "drain" /\ control' = "loop"
             \/ control = "final" /\ control' = "host"
      BY <2>7 DEF DrainAfterStep, FinishRun, cpuVars
    <3>2. owed' = 0
      BY <2>0, <3>1, DrainEffect DEF OutputInv
    <3>3. CASE uart.tx = <<>>
      <4>1. UNCHANGED log /\ owed = 0
        BY <2>0, <3>1, <3>2, <3>3, DrainEffect
      <4> QED BY <3>1, <3>2, <4>1, SameCalls
           DEF Observed!ObservationNext, Observed!Leave, Observed!observationVars
    <3>4. CASE uart.tx # <<>>
      <4>1. log' = Append(log, UartEvent(uart.tx))
        BY <3>1, <3>4 DEF Drain
      <4>2. Numbered(UartEvent(uart.tx)) = [call |-> "on_uart_tx", bytes |-> uart.tx]
        BY DEF Numbered, UartEvent
      <4>3. ObserverCalls' = Append(ObserverCalls, [call |-> "on_uart_tx", bytes |-> uart.tx])
        BY <4>1, <4>2, AppendLog DEF LogInv
      <4>4. uart.tx \in [1 .. Len(uart.tx) -> Byte] /\ Len(uart.tx) > 0
        BY <2>0, <3>4
      <4>5. CASE control = "drain" /\ control' = "loop"
        <5>1. Len(uart.tx) \in owed .. owed + 1
          BY <4>5 DEF OutputInv
        <5>2. log # <<>> /\ log[Len(log)].call = "on_step" /\ log[Len(log)].step = steps
          BY <4>5 DEF LogInv
        <5>3. Len(log) \in DOMAIN log
          BY <5>2 DEF LogInv
        <5>4. ObserverCalls # <<>>
              /\ ObserverCalls[Len(ObserverCalls)] = [call |-> "on_step", step |-> steps]
          BY <5>2, <5>3, NoCalls DEF ObserverCalls, Numbered
        <5> QED BY <3>1, <3>2, <4>3, <4>4, <4>5, <5>1, <5>4
             DEF Observed!ObservationNext, Observed!Transmit, Observed!StepEvent,
                 Observed!UartEvent
      <4>6. CASE control = "final" /\ control' = "host"
        <5>1. Len(uart.tx) = owed /\ log = <<>>
          BY <3>4, <4>6 DEF OutputInv
        <5>2. ObserverCalls = <<>>
              /\ ObserverCalls' = <<[call |-> "on_uart_tx", bytes |-> uart.tx]>>
          BY <4>3, <5>1, NoCalls
        <5> QED BY <3>1, <3>2, <4>4, <4>6, <5>1, <5>2
             DEF Observed!ObservationNext, Observed!Leave, Observed!UartEvent
      <4> QED BY <3>1, <4>5, <4>6
    <3> QED BY <3>3, <3>4
  <2>8. CASE UNCHANGED machineVars
    BY <2>1, <2>8 DEF machineVars, cpuVars, runVars
  <2> QED BY <2>2, <2>3, <2>4, <2>5, <2>6, <2>7, <2>8 DEF MachineNext, Running
<1> QED BY <1>1, <1>2, MachineInductive, OutputInductive, LogInductive, PTL
        DEF MachineSpec, ObserverProtocol, Observed!ObservationSpec

-----------------------------------------------------------------------------
(* The line of an instruction that retires: what its reader finds in it.   *)
LEMMA LineFields ==
    /\ Object(StepEvent).step = steps' /\ Object(StepEvent).pc = pc
    /\ Object(StepEvent).len = InstSize /\ Object(StepEvent).a = regs'
    /\ Read(Object(StepEvent)) = Decoded
    /\ Object(StepEvent).op = Mnemonic(Decoded, InstSize)
BY DEF Object, Line, StepEvent, Executed, Read, Decoded

(* The line tells what the instruction has written and where it has gone.  *)
LEMMA LineSays ==
    ASSUME CpuTypeOK, Step, steps' = steps + 1
    PROVE  LET object == Object(StepEvent)
           IN  /\ LeadsTo(object, pc')
               /\ \A r \in Reg \ Written(object) : regs'[r] = regs[r]
               /\ Read(object).op \in {"Call", "CallReg"} => regs'[A0] = WrapAdd(pc, InstSize)
               /\ NamesItsWord(object)
<1> DEFINE object == Object(StepEvent)
           i == Decoded
<1>t. steps \in Nat /\ regs \in [Reg -> Word] /\ BusTypeOK /\ pc \in Word /\ A0 \in Reg
  BY RegisterFileAssumption DEF CpuTypeOK, A0, Reg
<1>1. /\ ExecuteAt /\ ~ Failed(FetchReply) /\ Execute(i) /\ Retire(Destination(i))
  <2>1. ASSUME NEW fault, FaultWith(fault) PROVE FALSE
    BY <1>t, <2>1 DEF FaultWith
  <2>2. ExecuteAt
    BY <1>t, <2>1 DEF Step, ReturnWithoutExecuting, FetchFaults, DecodeFaults
  <2> QED BY <2>1, <2>2, ExecuteOutcome DEF ExecuteAt
<1>2. i \in Inst /\ pc' = Destination(i)
  BY <1>1, <1>t, DecodedType DEF ExecuteAt, Retire
<1>3. Read(object) = i /\ object.a = regs' /\ WrapAdd(object.pc, object.len) = Sequential
  BY LineFields DEF Sequential
<1>4. Sequential = WrapAdd(pc, InstSize)
  BY DEF Sequential
<1>n. NamesItsWord(object)
  <2>1. i \notin Undecodable
    BY <1>1 DEF ExecuteAt
  <2> QED BY <2>1, LineFields DEF NamesItsWord
<1> HIDE DEF object, i
<1>5. ASSUME i.op \notin {"Call", "CallReg"}, NEW changed \in SUBSET Reg,
             \A r \in Reg \ changed : regs'[r] = regs[r],
             i.op \in {"Load", "L32r", "Movi", "Addi", "Alu", "Mov"} => changed \subseteq {i.dst},
             i.op \notin {"Load", "L32r", "Movi", "Addi", "Alu", "Mov"} => changed = {}
      PROVE  \A r \in Reg \ Written(object) : regs'[r] = regs[r]
  BY <1>3, <1>5 DEF Written
<1>6. ASSUME i.op \in {"Load", "Store", "L32r", "Movi", "Addi", "Alu", "Mov", "Memw", "Nop"}
      PROVE  LeadsTo(object, pc')
  <2>1. Destination(i) = Sequential
    BY <1>6 DEF Destination
  <2>2. NextPc(object) = Sequential
    BY <1>3, <1>6 DEF NextPc
  <2> QED BY <1>2, <2>1, <2>2 DEF LeadsTo
<1>7. CASE ExecStore(i)
  <2>1. i.op = "Store" /\ UNCHANGED regs
    BY <1>1, <1>7, <1>t DEF ExecStore, FaultWith
  <2>2. \A r \in Reg \ Written(object) : regs'[r] = regs[r]
    BY <2>1
  <2> QED BY <1>3, <1>6, <1>n, <2>1, <2>2 DEF object
<1>8. CASE ExecControl(i)
  <2>1. UNCHANGED regs /\ i.op \in {"Jump", "JumpReg", "Ret", "Branch", "BranchZero", "Memw", "Nop"}
    BY <1>8 DEF ExecControl
  <2>2. object.a = regs
    BY <1>3, <2>1
  <2>3. NextPc(object) = Destination(i)
    <3>1. CASE i.op = "Jump"
      BY <1>3, <3>1 DEF NextPc, Destination
    <3>2. CASE i.op = "JumpReg"
      BY <1>3, <2>2, <3>2 DEF NextPc, Destination
    <3>3. CASE i.op = "Ret"
      BY <1>3, <2>2, <3>3 DEF NextPc, Destination
    <3>4. CASE i.op = "Branch"
      BY <1>3, <2>2, <3>4 DEF NextPc, Destination
    <3>5. CASE i.op = "BranchZero"
      BY <1>3, <2>2, <3>5 DEF NextPc, Destination
    <3>6. CASE i.op \in {"Memw", "Nop"}
      BY <1>3, <3>6 DEF NextPc, Destination
    <3> QED BY <2>1, <3>1, <3>2, <3>3, <3>4, <3>5, <3>6
  <2>4. \A r \in Reg \ Written(object) : regs'[r] = regs[r]
    BY <2>1
  <2> QED BY <1>2, <1>3, <1>n, <2>1, <2>3, <2>4 DEF LeadsTo, object
<1>9. CASE ExecCall(i)
  <2>1. regs' = [regs EXCEPT ![A0] = Sequential] /\ i.op \in {"Call", "CallReg"}
    BY <1>9 DEF ExecCall, Writes
  <2>2. regs'[A0] = Sequential /\ \A r \in Reg \ {A0} : regs'[r] = regs[r]
    BY <1>t, <2>1
  <2>3. Written(object) = {A0}
    BY <1>3, <2>1 DEF Written
  <2>4. LeadsTo(object, pc')
    <3>1. CASE i.op = "Call"
      <4>1. NextPc(object) = Destination(i)
        BY <1>3, <3>1 DEF NextPc, Destination
      <4> QED BY <1>2, <4>1 DEF LeadsTo
    <3>2. CASE i.op = "CallReg" /\ i.reg # A0
      <4>1. i.reg \in Reg
        BY <1>2, <3>2, OperandTypes
      <4>2. object.a[i.reg] = regs[i.reg]
        BY <1>3, <2>2, <3>2, <4>1
      <4>3. NextPc(object) = Destination(i)
        BY <1>3, <3>2, <4>2 DEF NextPc, Destination
      <4> QED BY <1>2, <4>3 DEF LeadsTo
    <3>3. CASE i.op = "CallReg" /\ i.reg = A0
      <4>1. i \in [op : {"JumpReg", "CallReg"}, reg : Reg]
        BY <1>2, <3>3 DEF Inst, InstOver
      <4>2. i = [op |-> "CallReg", reg |-> A0]
        BY <3>3, <4>1
      <4> QED BY <1>3, <4>2 DEF LeadsTo
    <3> QED BY <2>1, <3>1, <3>2, <3>3
  <2> QED BY <1>4, <1>n, <2>2, <2>3, <2>4 DEF object
<1>10. CASE ExecArith(i) \/ ExecLoad(i) \/ ExecL32r(i)
  <2>1. i.op \in {"Load", "L32r", "Movi", "Addi", "Alu", "Mov"}
    BY <1>10 DEF ExecArith, ExecLoad, ExecL32r
  <2>2. \E value : regs' = [regs EXCEPT ![i.dst] = value]
    BY <1>10, <1>1, <1>t DEF ExecArith, ExecLoad, ExecL32r, Writes, FaultWith
  <2>3. \A r \in Reg \ {i.dst} : regs'[r] = regs[r]
    BY <1>t, <2>2
  <2>4. Written(object) = {i.dst}
    BY <1>3, <2>1 DEF Written
  <2>5. LeadsTo(object, pc')
    BY <1>6, <2>1
  <2> QED BY <1>3, <1>n, <2>1, <2>3, <2>4, <2>5 DEF object
<1> QED BY <1>1, <1>7, <1>8, <1>9, <1>10 DEF Execute

(* One more call behind those of a trace that can be replayed. *)
LEMMA ReplayedOneMore ==
    ASSUME NEW S, NEW calls \in Seq(S), NEW event,
           \A j, k \in Lines(calls) :
              Neighbours(calls, j, k) => Follows(Object(calls[k]), Object(calls[j])),
           event.call = "on_step" =>
              \A k \in Lines(calls) : Last(calls, k) => Follows(Object(event), Object(calls[k]))
    PROVE  LET more == Append(calls, event)
           IN  /\ \A j, k \in Lines(more) :
                     Neighbours(more, j, k) => Follows(Object(more[k]), Object(more[j]))
               /\ \A k \in Lines(more) : Last(more, k) =>
                     IF event.call = "on_step" THEN more[k] = event
                     ELSE k \in Lines(calls) /\ Last(calls, k) /\ more[k] = calls[k]
<1> DEFINE more == Append(calls, event)
           n == Len(calls) + 1
<1>1. /\ Len(calls) \in Nat /\ DOMAIN calls = 1 .. Len(calls) /\ DOMAIN more = 1 .. n
      /\ more[n] = event /\ \A k \in 1 .. Len(calls) : more[k] = calls[k]
  <2>1. calls \in Seq(S \cup {event})
    OBVIOUS
  <2> QED BY <2>1
<1> HIDE DEF more
<1>2. \A k \in Lines(calls) : k \in 1 .. Len(calls) /\ k \in Lines(more) /\ more[k] = calls[k]
  BY <1>1 DEF Lines
<1>3. \A k \in Lines(more) : k \in Lines(calls) \/ (k = n /\ event.call = "on_step")
  BY <1>1 DEF Lines
<1>4. event.call = "on_step" => n \in Lines(more)
  BY <1>1 DEF Lines
<1>5. ASSUME NEW j \in Lines(more), NEW k \in Lines(more), Neighbours(more, j, k)
      PROVE  Follows(Object(more[k]), Object(more[j]))
  <2>1. j < k /\ \A l \in Lines(more) : l <= j \/ k <= l
    BY <1>5 DEF Neighbours
  <2>2. j \in Lines(calls)
    BY <1>1, <1>2, <1>3, <2>1
  <2>3. CASE k \in Lines(calls)
    <3>1. Neighbours(calls, j, k)
      BY <1>2, <2>1 DEF Neighbours
    <3> QED BY <1>2, <2>2, <2>3, <3>1
  <2>4. CASE k = n /\ event.call = "on_step"
    <3>1. Last(calls, j)
      BY <1>1, <1>2, <2>1, <2>4 DEF Last
    <3> QED BY <1>1, <1>2, <2>2, <2>4, <3>1
  <2> QED BY <1>3, <2>3, <2>4
<1>6. ASSUME NEW k \in Lines(more), Last(more, k)
      PROVE  IF event.call = "on_step" THEN more[k] = event
             ELSE k \in Lines(calls) /\ Last(calls, k) /\ more[k] = calls[k]
  <2>1. \A l \in Lines(more) : l <= k
    BY <1>6 DEF Last
  <2>2. CASE event.call = "on_step"
    <3>1. n <= k
      BY <1>4, <2>1, <2>2
    <3>2. k = n
      BY <1>1, <1>2, <1>3, <3>1
    <3> QED BY <1>1, <2>2, <3>2
  <2>3. CASE event.call # "on_step"
    BY <1>2, <1>3, <2>1, <2>3 DEF Last
  <2> QED BY <2>2, <2>3
<1> QED BY <1>5, <1>6 DEF more

LEMMA ReplayStep ==
    ASSUME MachineInv, LogInv, TraceIsReplayable, [MachineNext]_machineVars
    PROVE  TraceIsReplayable'
<1>0. loading => control = "host"
  BY DEF MachineInv, MachineTypeOK
<1>1. ASSUME UNCHANGED log, control # "host", UNCHANGED <<regs, pc, steps>>
      PROVE  TraceIsReplayable'
  BY <1>1 DEF TraceIsReplayable, Last, Lines, Neighbours
<1>9. ASSUME UNCHANGED log, control' = "host"
      PROVE  TraceIsReplayable'
  BY <1>9 DEF TraceIsReplayable, Last, Lines, Neighbours
<1>2. CASE StartLoadElf \/ HostStore
  <2>1. UNCHANGED log /\ control' = "host"
    BY <1>2 DEF StartLoadElf, HostStore, runVars, Idle
  <2> QED BY <1>9, <2>1
<1>3. CASE LoadElf
  <2>1. UNCHANGED log /\ control' = "host"
    BY <1>0, <1>3, LoadElfEffect DEF LoadElf, LoadStep, runVars
  <2> QED BY <1>9, <2>1
<1>4. CASE StartRun
  <2>1. Lines(log)' = {}
    BY <1>4 DEF StartRun, Lines
  <2> QED BY <2>1 DEF TraceIsReplayable
<1>5. CASE LoopEnds
  BY <1>1, <1>5 DEF LoopEnds, HaltWith, cpuVars
<1>6. CASE RunStep
  <2>1. CASE steps' = steps + 1 /\ log' = Append(log, StepEvent)
    <3>1. PICK S : log \in Seq(S)
      BY DEF LogInv
    <3>2. CpuTypeOK /\ Step /\ control = "loop" /\ steps \in Nat
      BY <1>6 DEF RunStep, MachineInv, MachineTypeOK, CpuTypeOK
    <3> DEFINE event == StepEvent
               object == Object(event)
    <3>3. /\ object.step = steps' /\ object.pc = pc /\ object.len = InstSize /\ object.a = regs'
          /\ LeadsTo(object, pc') /\ NamesItsWord(object)
          /\ \A r \in Reg \ Written(object) : regs'[r] = regs[r]
          /\ Read(object).op \in {"Call", "CallReg"} => regs'[A0] = WrapAdd(pc, InstSize)
      BY <2>1, <3>2, LineFields, LineSays
    <3>4. ASSUME NEW k \in Lines(log), Last(log, k)
          PROVE  Follows(object, Object(log[k]))
      <4> DEFINE previous == Object(log[k])
      <4>1. previous.a = regs /\ previous.step = steps /\ LeadsTo(previous, pc)
        BY <3>2, <3>4 DEF TraceIsReplayable
      <4> HIDE DEF previous, object
      <4>2. Follows(object, previous)
        BY <2>1, <3>3, <4>1 DEF Follows
      <4> QED BY <4>2 DEF previous, object
    <3>5. event.call = "on_step" /\ log' = Append(log, event)
      BY <2>1 DEF StepEvent
    <3>6. \A j, k \in Lines(log) :
              Neighbours(log, j, k) => Follows(Object(log[k]), Object(log[j]))
      BY DEF TraceIsReplayable
    <3> HIDE DEF event
    <3>7. /\ \A j, k \in Lines(Append(log, event)) :
                Neighbours(Append(log, event), j, k) =>
                   Follows(Object(Append(log, event)[k]), Object(Append(log, event)[j]))
          /\ \A k \in Lines(Append(log, event)) : Last(Append(log, event), k) =>
                Append(log, event)[k] = event
      BY <3>1, <3>4, <3>5, <3>6, ReplayedOneMore
    <3> QED BY <3>3, <3>5, <3>7 DEF TraceIsReplayable
  <2>2. CASE UNCHANGED log /\ steps' = steps
    <3>1. UNCHANGED <<regs, pc>> /\ control # "host"
      <4>1. Step /\ steps \in Nat /\ control # "host"
        BY <1>6 DEF RunStep, MachineInv, MachineTypeOK, CpuTypeOK
      <4>2. ASSUME NEW next, Retire(next) PROVE FALSE
        BY <2>2, <4>1, <4>2 DEF Retire
      <4> QED BY <4>1, <4>2, StepOutcome DEF ReturnWithoutExecuting, FaultWith
    <3> QED BY <1>1, <2>2, <3>1
  <2> QED BY <1>6, <2>1, <2>2, RunStepEffect
<1>7. CASE DrainAfterStep \/ FinishRun
  <2>1. Drain /\ control # "host" /\ UNCHANGED <<regs, pc, steps>>
    BY <1>7 DEF DrainAfterStep, FinishRun, cpuVars
  <2>2. CASE UNCHANGED log
    BY <1>1, <2>1, <2>2
  <2>3. CASE log' = Append(log, UartEvent(uart.tx))
    <3>1. PICK S : log \in Seq(S)
      BY DEF LogInv
    <3> DEFINE event == UartEvent(uart.tx)
    <3>2. event.call # "on_step" /\ log' = Append(log, event)
      BY <2>3 DEF UartEvent
    <3>3. /\ \A j, k \in Lines(log) :
                Neighbours(log, j, k) => Follows(Object(log[k]), Object(log[j]))
          /\ \A k \in Lines(log) : Last(log, k) =>
                LET last == Object(log[k])
                IN  last.a = regs /\ last.step = steps /\ LeadsTo(last, pc)
      BY <2>1 DEF TraceIsReplayable
    <3> HIDE DEF event
    <3>4. /\ \A j, k \in Lines(Append(log, event)) :
                Neighbours(Append(log, event), j, k) =>
                   Follows(Object(Append(log, event)[k]), Object(Append(log, event)[j]))
          /\ \A k \in Lines(Append(log, event)) : Last(Append(log, event), k) =>
                k \in Lines(log) /\ Last(log, k) /\ Append(log, event)[k] = log[k]
      BY <3>1, <3>2, <3>3, ReplayedOneMore
    <3> QED BY <2>1, <3>2, <3>3, <3>4 DEF TraceIsReplayable
  <2> QED BY <2>1, <2>2, <2>3 DEF Drain
<1>8. CASE UNCHANGED machineVars
  BY <1>1, <1>8 DEF machineVars, cpuVars, runVars, TraceIsReplayable
<1> QED BY <1>2, <1>3, <1>4, <1>5, <1>6, <1>7, <1>8 DEF MachineNext, Running

(* For every firmware, self-modifying ones included: the trace is enough   *)
(* to replay the run, line by line.                                        *)
THEOREM TracesReplay == MachineSpec => []TraceIsReplayable
<1>1. MachineInit => TraceIsReplayable
  <2> SUFFICES ASSUME MachineInit PROVE TraceIsReplayable
    OBVIOUS
  <2>1. Lines(log) = {} /\ control = "host"
    BY DEF MachineInit, Lines
  <2> QED BY <2>1 DEF TraceIsReplayable
<1> QED BY <1>1, ReplayStep, MachineInductive, LogInductive, PTL DEF MachineSpec

-----------------------------------------------------------------------------
(* What is left of a call is a number, and shrinks with each of its steps. *)
LEMMA WorkOfRun ==
    ASSUME MachineInv, ~ loading
    PROVE  /\ StepsLeft \in Nat
           /\ control = "loop" => CallWork = 2 * StepsLeft + 2
           /\ control = "drain" => CallWork = 2 * StepsLeft + 3
           /\ control = "final" => CallWork = 1
           /\ control = "host" => CallWork = 0
<1>1. steps \in Nat /\ budget \in Nat
  BY DEF MachineInv, MachineTypeOK, CpuTypeOK
<1>2. StepsLeft \in Nat
  BY <1>1 DEF StepsLeft
<1> QED BY <1>2 DEF CallWork

LEMMA LeftIsANumber ==
    ASSUME NEW reason, NEW s \in Nat, NEW b \in Nat
    PROVE  (IF reason = "None" /\ s < b THEN b - s ELSE 0) \in Nat
OBVIOUS

LEMMA AStepLess ==
    ASSUME NEW left \in Nat, NEW earlier \in Nat, left <= earlier - 1
    PROVE  2 * left + 3 \in 0 .. (2 * earlier + 2) - 1
OBVIOUS

LEMMA WorkOfLoad ==
    ASSUME MachineInv, LoadElf
    PROVE  CallWork' \in 0 .. CallWork - 1
<1>1. /\ loading /\ control = "host" /\ control' = "host"
      /\ image.phnum \in Nat /\ index \in 0 .. image.phnum
  BY LoadElfEffect, ImageFacts DEF MachineInv, MachineTypeOK, LoaderInv, LoaderTypeOK, runVars
<1>2. CallWork = image.phnum - index + 1
  BY <1>1 DEF CallWork
<1>3. CASE ~ loading'
  BY <1>1, <1>2, <1>3 DEF CallWork
<1>4. CASE loading' /\ UNCHANGED image /\ index' = index + 1 /\ index < image.phnum
  <2>1. CallWork' = image.phnum - (index + 1) + 1
    BY <1>4 DEF CallWork
  <2> QED BY <1>1, <1>2, <1>4, <2>1
<1>5. CASE SkipSegment \/ PlaceSegment
  <2>1. loading /\ UNCHANGED <<loading, image>> /\ index' = index + 1 /\ index < image.phnum
    BY <1>5 DEF SkipSegment, PlaceSegment, Sound, InTable
  <2> QED BY <1>4, <2>1
<1>6. CASE TruncatedTable \/ SegmentMemorySizeTooSmall \/ SegmentFileRangeOutOfBounds
           \/ CopyFails \/ ClearFails \/ FinishLoad
  <2>1. loading' = FALSE
    BY <1>6 DEF TruncatedTable, SegmentMemorySizeTooSmall, SegmentFileRangeOutOfBounds,
       CopyFails, ClearFails, FinishLoad, Return
  <2> QED BY <1>3, <2>1
<1> QED BY <1>5, <1>6 DEF LoadElf, LoadStep

LEMMA WorkOfRunning ==
    ASSUME MachineInv, MachineInv', Running
    PROVE  control # "host" /\ CallWork' \in 0 .. CallWork - 1
<1>1. control # "host" /\ UNCHANGED <<loading, budget>>
  BY DEF Running, LoopEnds, RunStep, DrainAfterStep, FinishRun, loaderVars
<1>2. ~ loading /\ ~ loading' /\ steps \in Nat /\ budget \in Nat
  BY <1>1 DEF MachineInv, MachineTypeOK, CpuTypeOK
<1>3. /\ StepsLeft \in Nat
      /\ control = "loop" => CallWork = 2 * StepsLeft + 2
      /\ control = "drain" => CallWork = 2 * StepsLeft + 3
      /\ control = "final" => CallWork = 1
  BY <1>2, WorkOfRun
<1>4. /\ StepsLeft' \in Nat
      /\ control' = "loop" => CallWork' = 2 * StepsLeft' + 2
      /\ control' = "drain" => CallWork' = 2 * StepsLeft' + 3
      /\ control' = "final" => CallWork' = 1
      /\ control' = "host" => CallWork' = 0
  <2>1. steps' \in Nat /\ budget' \in Nat
    BY DEF MachineInv, MachineTypeOK, CpuTypeOK
  <2>2. StepsLeft' = IF halt' = "None" /\ steps' < budget' THEN budget' - steps' ELSE 0
    BY DEF StepsLeft
  <2>3. StepsLeft' \in Nat
    BY <2>1, <2>2, LeftIsANumber, Zenon
  <2> QED BY <1>2, <2>3 DEF CallWork
<1>5. CASE LoopEnds
  <2>1. control = "loop" /\ control' = "final"
    BY <1>5 DEF LoopEnds
  <2> QED BY <1>1, <1>3, <1>4, <2>1
<1>6. CASE RunStep
  <2>1. control = "loop" /\ halt = "None" /\ steps < budget
    BY <1>2, <1>6 DEF RunStep, OutOfBudget
  <2>2. StepsLeft = budget - steps
    BY <2>1 DEF StepsLeft
  <2>3. CASE control' = "final"
    BY <1>1, <1>3, <1>4, <2>1, <2>3
  <2>4. CASE control' = "drain" /\ steps' = steps + 1
    <3>1. StepsLeft' <= StepsLeft - 1
      BY <1>1, <1>2, <2>1, <2>2, <2>4 DEF StepsLeft
    <3>2. CallWork = 2 * StepsLeft + 2 /\ CallWork' = 2 * StepsLeft' + 3
      BY <1>3, <1>4, <2>1, <2>4
    <3>3. StepsLeft \in Nat /\ StepsLeft' \in Nat
      BY <1>3, <1>4
    <3>4. 2 * StepsLeft' + 3 \in 0 .. (2 * StepsLeft + 2) - 1
      BY <3>1, <3>3, AStepLess, Zenon
    <3>5. CallWork' \in 0 .. CallWork - 1
      BY <3>2, <3>4, Zenon
    <3> QED BY <2>1, <3>5
  <2> QED BY <1>6, <2>3, <2>4, RunStepEffect
<1>7. CASE DrainAfterStep
  <2>1. control = "drain" /\ control' = "loop" /\ StepsLeft' = StepsLeft
    BY <1>7 DEF DrainAfterStep, cpuVars, StepsLeft
  <2> QED BY <1>1, <1>3, <1>4, <2>1
<1>8. CASE FinishRun
  <2>1. control = "final" /\ control' = "host"
    BY <1>8 DEF FinishRun
  <2> QED BY <1>1, <1>3, <1>4, <2>1
<1> QED BY <1>5, <1>6, <1>7, <1>8 DEF Running

(* Every call returns after a number of steps known when it begins,        *)
(* whatever the image and the firmware: what RunReturns and LoadReturns    *)
(* rest on besides fairness.                                               *)
THEOREM CallsHaveABound == MachineSpec => CallsAreBounded
<1>1. MachineInv /\ MachineInv' /\ [MachineNext]_machineVars =>
        [~ Idle => CallWork' \in 0 .. CallWork - 1]_machineVars
  <2> SUFFICES ASSUME MachineInv, MachineInv', MachineNext, ~ Idle
               PROVE  CallWork' \in 0 .. CallWork - 1
    OBVIOUS
  <2>1. LoadElf \/ Running
    BY DEF MachineNext, StartLoadElf, HostStore, StartRun
  <2> QED BY <2>1, WorkOfLoad, WorkOfRunning
<1> QED BY <1>1, MachineInductive, PTL DEF MachineSpec, CallsAreBounded
-----------------------------------------------------------------------------
(* What a store that succeeds sends: the low byte, if it is to the FIFO.   *)
LEMMA StoreSends ==
    ASSUME NEW addr, NEW size, NEW value,
           Store(addr, size, value), ~ Failed(StoreReply(addr, size))
    PROVE  uart'.tx = IF Decode(addr).at = "Uart0" /\ AlignDown(Decode(addr).offset, 4) = FIFO
                      THEN Append(uart.tx, value % BYTE) ELSE uart.tx
<1>1. CASE Decode(addr).at \in Region
  BY <1>1 DEF Store, Region
<1>2. CASE Decode(addr).at = "Uart0"
  <2>1. uart' = WriteReg(uart, AlignDown(Decode(addr).offset, 4), value)
    BY <1>2 DEF Store, Region
  <2> QED BY <1>2, <2>1 DEF WriteReg
<1> QED BY <1>1, <1>2 DEF Store

(* The line tells what the instruction has sent.                           *)
LEMMA LineSends ==
    ASSUME CpuTypeOK, Step, steps' = steps + 1
    PROVE  LET object == Object(StepEvent)
           IN  uart'.tx = IF Sends(object) THEN Append(uart.tx, ByteSent(object)) ELSE uart.tx
<1> DEFINE object == Object(StepEvent)
           i == Decoded
<1>t. steps \in Nat
  BY DEF CpuTypeOK
<1>1. Execute(i) /\ \A fault : ~ FaultWith(fault)
  <2>1. ASSUME NEW fault, FaultWith(fault) PROVE FALSE
    BY <1>t, <2>1 DEF FaultWith
  <2>2. ExecuteAt
    BY <1>t, <2>1 DEF Step, ReturnWithoutExecuting, FetchFaults, DecodeFaults
  <2> QED BY <2>1, <2>2 DEF ExecuteAt
<1>2. Read(object) = i /\ object.a = regs'
  BY LineFields
<1> HIDE DEF object, i
<1>3. CASE ExecStore(i)
  <2> DEFINE addr == WrapAdd(regs[i.base], i.offset)
             size == StoreWidth(i.kind)
             to == Decode(addr)
  <2>1. /\ i.op = "Store" /\ ~ Failed(StoreReply(addr, size))
        /\ Store(addr, size, regs[i.src]) /\ UNCHANGED regs
    BY <1>1, <1>3 DEF ExecStore
  <2>2. Sends(object) <=> to.at = "Uart0" /\ AlignDown(to.offset, 4) = FIFO
    BY <1>2, <2>1 DEF Sends
  <2>3. ByteSent(object) = regs[i.src] % BYTE
    BY <1>2, <2>1 DEF ByteSent
  <2> HIDE DEF addr, size
  <2> QED BY <2>1, <2>2, <2>3, StoreSends DEF object
<1>4. CASE i.op # "Store" /\ UNCHANGED busVars
  <2>1. ~ Sends(object) /\ UNCHANGED uart
    BY <1>2, <1>4 DEF Sends, busVars
  <2> QED BY <2>1 DEF object
<1>5. CASE ~ ExecStore(i)
  <2>1. i.op # "Store" /\ UNCHANGED busVars
    BY <1>1, <1>5 DEF Execute, ExecLoad, ExecL32r, ExecArith, ExecCall, ExecControl, Writes
  <2> QED BY <1>4, <2>1
<1> QED BY <1>3, <1>5

(* While an instruction's bytes wait to be drained, they are those that    *)
(* its line tells of, behind what the host may have left before the first. *)
WaitingIsTold ==
    control = "drain" =>
        LET line == Object(log[Len(log)]) IN
        IF Sends(line)
        THEN /\ uart.tx # <<>> /\ uart.tx[Len(uart.tx)] = ByteSent(line)
             /\ Len(log) > 1 => Len(uart.tx) = 1
        ELSE Len(log) > 1 => uart.tx = <<>>

ToldInv == OutputFollowsTrace /\ WaitingIsTold

LEMMA ToldStep ==
    ASSUME MachineInv, OutputInv, LogInv, ToldInv, [MachineNext]_machineVars
    PROVE  ToldInv'
<1>0. (loading => control = "host") /\ BusTypeOK
  BY DEF MachineInv, MachineTypeOK
<1>1. ASSUME UNCHANGED log, control # "drain", control' # "drain"
      PROVE  ToldInv'
  BY <1>1 DEF ToldInv, OutputFollowsTrace, WaitingIsTold, Lines
<1>l. \E S : log \in Seq(S)
  BY DEF LogInv
<1>n. Len(log) \in Nat /\ DOMAIN log = 1 .. Len(log) /\ (log # <<>> => Len(log) >= 1)
  BY <1>l
<1>a. ASSUME NEW event, log' = Append(log, event)
      PROVE  /\ Len(log') = Len(log) + 1 /\ DOMAIN log' = 1 .. Len(log) + 1
             /\ log'[Len(log) + 1] = event
             /\ \A k \in 1 .. Len(log) : log'[k] = log[k]
  <2>1. PICK S : log \in Seq(S)
    BY <1>l
  <2>2. log \in Seq(S \cup {event})
    BY <2>1
  <2> QED BY <1>a, <2>2
<1>2. CASE StartLoadElf \/ HostStore
  <2>1. UNCHANGED log /\ control = "host" /\ control' = "host"
    BY <1>2 DEF StartLoadElf, HostStore, runVars, Idle
  <2> QED BY <1>1, <2>1
<1>3. CASE LoadElf
  <2>1. UNCHANGED log /\ control = "host" /\ control' = "host"
    BY <1>0, <1>3, LoadElfEffect DEF LoadElf, LoadStep, runVars
  <2> QED BY <1>1, <2>1
<1>4. CASE StartRun
  <2>1. DOMAIN log' = {} /\ control' = "loop"
    BY <1>4 DEF StartRun
  <2> QED BY <2>1 DEF ToldInv, OutputFollowsTrace, WaitingIsTold, Lines
<1>5. CASE LoopEnds
  BY <1>1, <1>5 DEF LoopEnds
<1>6. CASE RunStep
  <2>1. CASE steps' = steps + 1 /\ control' = "drain" /\ log' = Append(log, StepEvent)
    <3>1. CpuTypeOK /\ Step /\ control = "loop"
      BY <1>6 DEF RunStep, MachineInv, MachineTypeOK
    <3> DEFINE event == StepEvent
               object == Object(event)
    <3>2. uart'.tx = IF Sends(object) THEN Append(uart.tx, ByteSent(object)) ELSE uart.tx
      BY <2>1, <3>1, LineSends
    <3>3. event.call = "on_step" /\ log' = Append(log, event)
      BY <2>1 DEF StepEvent
    <3>4. log # <<>> => uart.tx = <<>>
      BY <3>1 DEF OutputInv
    <3> HIDE DEF event
    <3>5. /\ Len(log') = Len(log) + 1 /\ DOMAIN log' = 1 .. Len(log) + 1
          /\ log'[Len(log) + 1] = event /\ \A k \in 1 .. Len(log) : log'[k] = log[k]
      BY <1>a, <3>3
    <3>6. ASSUME Sends(object)
          PROVE  /\ uart'.tx # <<>> /\ uart'.tx[Len(uart'.tx)] = ByteSent(object)
                 /\ Len(log') > 1 => Len(uart'.tx) = 1
      <4>1. uart'.tx = Append(uart.tx, ByteSent(object)) /\ uart.tx \in Seq(Byte)
        BY <1>0, <3>2, <3>6 DEF BusTypeOK, UartType
      <4>2. uart.tx \in Seq(Byte \cup {ByteSent(object)})
        BY <4>1
      <4>3. /\ uart'.tx # <<>> /\ uart'.tx[Len(uart'.tx)] = ByteSent(object)
            /\ Len(uart'.tx) = Len(uart.tx) + 1
        BY <4>1, <4>2
      <4>4. Len(log') > 1 => Len(uart.tx) = 0
        BY <1>n, <3>4, <3>5
      <4> QED BY <4>3, <4>4
    <3>7. ~ Sends(object) /\ Len(log') > 1 => uart'.tx = <<>>
      BY <1>n, <3>2, <3>4, <3>5
    <3>8. WaitingIsTold'
      <4>1. log'[Len(log')] = event
        BY <3>5
      <4> QED BY <3>6, <3>7, <4>1 DEF WaitingIsTold
    <3>9. ASSUME NEW k \in Lines(log'), Sends(Object(log'[k]))
          PROVE  \/ k = Len(log')
                 \/ k < Len(log') /\ log'[k + 1].call = "on_uart_tx"
      <4>1. CASE k \in 1 .. Len(log)
        <5>1. k \in Lines(log) /\ Sends(Object(log[k]))
          BY <1>n, <3>5, <3>9, <4>1 DEF Lines
        <5>2. k < Len(log) /\ log[k + 1].call = "on_uart_tx"
          BY <3>1, <5>1 DEF ToldInv, OutputFollowsTrace
        <5> QED BY <1>n, <3>5, <4>1, <5>2
      <4> QED BY <1>n, <3>5, <4>1 DEF Lines
    <3>10. ASSUME NEW k \in DOMAIN log', log'[k].call = "on_uart_tx", k > 1
           PROVE  LET told == log'[k].bytes IN
                  /\ k - 1 \in Lines(log')
                  /\ IF Sends(Object(log'[k - 1]))
                     THEN told[Len(told)] = ByteSent(Object(log'[k - 1]))
                          /\ (k > 2 => Len(told) = 1)
                     ELSE k = 2
      <4>1. k \in 1 .. Len(log) /\ k - 1 \in 1 .. Len(log)
        BY <1>n, <3>3, <3>5, <3>10
      <4>2. log'[k] = log[k] /\ log'[k - 1] = log[k - 1]
        BY <3>5, <4>1
      <4>3. k - 1 \in Lines(log) => k - 1 \in Lines(log')
        BY <3>5, <4>1, <4>2 DEF Lines
      <4> QED BY <1>n, <3>10, <4>1, <4>2, <4>3 DEF ToldInv, OutputFollowsTrace
    <3>11. OutputFollowsTrace'
      BY <2>1, <3>9, <3>10 DEF OutputFollowsTrace
    <3> QED BY <3>8, <3>11 DEF ToldInv
  <2>2. CASE UNCHANGED log /\ control' = "final"
    BY <1>1, <1>6, <2>2 DEF RunStep
  <2> QED BY <1>6, <2>1, <2>2, RunStepEffect
<1>7. CASE DrainAfterStep \/ FinishRun
  <2>1. /\ Drain /\ control' # "drain" /\ control \in {"drain", "final"}
        /\ WaitingIsTold'
    BY <1>7 DEF DrainAfterStep, FinishRun, WaitingIsTold
  <2>2. CASE UNCHANGED log /\ uart.tx = <<>>
    <3>1. CASE control = "drain"
      <4>1. ~ Sends(Object(log[Len(log)]))
        BY <2>2, <3>1 DEF ToldInv, WaitingIsTold
      <4> QED BY <2>1, <2>2, <4>1 DEF ToldInv, OutputFollowsTrace, Lines
    <3> QED BY <1>1, <2>1, <2>2, <3>1
  <2>3. CASE uart.tx # <<>> /\ log' = Append(log, UartEvent(uart.tx))
    <3> DEFINE event == UartEvent(uart.tx)
    <3>1. event.call = "on_uart_tx" /\ event.bytes = uart.tx /\ log' = Append(log, event)
      BY <2>3 DEF UartEvent
    <3> HIDE DEF event
    <3>2. /\ Len(log') = Len(log) + 1 /\ DOMAIN log' = 1 .. Len(log) + 1
          /\ log'[Len(log) + 1] = event /\ \A k \in 1 .. Len(log) : log'[k] = log[k]
      BY <1>a, <3>1
    <3>3. CASE control = "final"
      <4>1. log = <<>> /\ Len(log) = 0
        BY <2>3, <3>3 DEF OutputInv
      <4>2. DOMAIN log' = {1} /\ Lines(log') = {}
        BY <3>1, <3>2, <4>1 DEF Lines
      <4>3. OutputFollowsTrace'
        BY <4>2 DEF OutputFollowsTrace
      <4> QED BY <2>1, <4>3 DEF ToldInv
    <3>4. CASE control = "drain"
      <4> DEFINE n == Len(log)
                 line == Object(log[n])
      <4>1. n \in Nat /\ n >= 1 /\ log[n].call = "on_step"
        BY <1>n, <3>4 DEF LogInv
      <4>2. /\ Sends(line) => /\ uart.tx[Len(uart.tx)] = ByteSent(line)
                              /\ n > 1 => Len(uart.tx) = 1
            /\ ~ Sends(line) => ~ (n > 1)
        BY <2>3, <3>4 DEF ToldInv, WaitingIsTold
      <4>3. log'[n] = log[n] /\ n \in Lines(log')
        BY <3>2, <4>1 DEF Lines
      <4> HIDE DEF n
      <4>4. n = Len(log)
        BY DEF n
      <4>5. ASSUME NEW k \in Lines(log'), Sends(Object(log'[k]))
            PROVE  k < Len(log') /\ log'[k + 1].call = "on_uart_tx"
        <5>1. k \in 1 .. n
          BY <3>1, <3>2, <4>1, <4>4 DEF Lines
        <5>2. CASE k = n
          BY <3>1, <3>2, <4>1, <4>4, <5>2
        <5>3. CASE k # n
          <6>1. k \in Lines(log) /\ Sends(Object(log[k]))
            BY <1>n, <3>2, <4>4, <4>5, <5>1 DEF Lines
          <6>2. k < n /\ log[k + 1].call = "on_uart_tx"
            BY <4>4, <5>3, <6>1 DEF ToldInv, OutputFollowsTrace
          <6> QED BY <3>2, <4>1, <4>4, <5>1, <6>2
        <5> QED BY <5>2, <5>3
      <4>6. ASSUME NEW k \in DOMAIN log', log'[k].call = "on_uart_tx", k > 1
            PROVE  LET told == log'[k].bytes IN
                   /\ k - 1 \in Lines(log')
                   /\ IF Sends(Object(log'[k - 1]))
                      THEN told[Len(told)] = ByteSent(Object(log'[k - 1]))
                           /\ (k > 2 => Len(told) = 1)
                      ELSE k = 2
        <5>1. CASE k = n + 1
          <6>1. log'[k].bytes = uart.tx /\ k - 1 = n
            BY <3>1, <3>2, <4>1, <4>4, <5>1
          <6> QED BY <4>1, <4>2, <4>3, <5>1, <6>1
        <5>2. CASE k # n + 1
          <6>1. k \in 1 .. n /\ k - 1 \in 1 .. n
            BY <3>2, <4>1, <4>4, <4>6, <5>2
          <6>2. log'[k] = log[k] /\ log'[k - 1] = log[k - 1]
            BY <3>2, <4>4, <6>1
          <6>3. k - 1 \in Lines(log) => k - 1 \in Lines(log')
            BY <3>2, <4>1, <4>4, <6>1, <6>2 DEF Lines
          <6> QED BY <1>n, <4>4, <4>6, <6>1, <6>2, <6>3 DEF ToldInv, OutputFollowsTrace
        <5> QED BY <5>1, <5>2
      <4>7. OutputFollowsTrace'
        BY <4>5, <4>6 DEF OutputFollowsTrace
      <4> QED BY <2>1, <4>7 DEF ToldInv
    <3> QED BY <2>1, <3>3, <3>4
  <2> QED BY <2>1, <2>2, <2>3 DEF Drain
<1>8. CASE UNCHANGED machineVars
  BY <1>8 DEF machineVars, busVars, runVars, ToldInv, OutputFollowsTrace, WaitingIsTold, Lines
<1> QED BY <1>2, <1>3, <1>4, <1>5, <1>6, <1>7, <1>8 DEF MachineNext, Running

(* For every firmware: the trace also accounts for the bytes sent, and the *)
(* report of each byte stands right behind the line of its store.          *)
THEOREM OutputFollows == MachineSpec => []OutputFollowsTrace
<1>1. MachineInit => ToldInv
  <2> SUFFICES ASSUME MachineInit PROVE ToldInv
    OBVIOUS
  <2>1. DOMAIN log = {} /\ control = "host"
    BY DEF MachineInit
  <2> QED BY <2>1 DEF ToldInv, OutputFollowsTrace, WaitingIsTold, Lines
<1>2. ToldInv => OutputFollowsTrace
  BY DEF ToldInv
<1> QED BY <1>1, <1>2, ToldStep, MachineInductive, OutputInductive, LogInductive, PTL
        DEF MachineSpec
-----------------------------------------------------------------------------
(* The core and the loader inside the machine.  What they promise of their *)
(* own specifications they keep in this one, where a load may come between *)
(* two instructions, the host may store, and a halt outlives its run.      *)

(* What a step of the machine is to the core: one of its own steps, the    *)
(* budget's halt, a reset, or nothing.                                     *)
LEMMA CoreSteps ==
    ASSUME MachineNext
    PROVE  \/ Step /\ steps' \in {steps, steps + 1}
           \/ halt = "None" /\ HaltWith("StepBudgetExhausted") /\ UNCHANGED busVars
           \/ Reset(outcome'.entry, InitialStackPointer)
           \/ UNCHANGED cpuVars
<1>1. CASE RunStep
  <2>1. Step  BY <1>1 DEF RunStep
  <2>2. steps' \in {steps, steps + 1}
    BY <2>1, StepOutcome DEF ReturnWithoutExecuting, FaultWith, Retire
  <2> QED BY <2>1, <2>2
<1>2. CASE LoadElf
  BY <1>2, LoadElfEffect
<1> QED BY <1>1, <1>2
     DEF MachineNext, Running, StartLoadElf, HostStore, StartRun, LoopEnds, DrainAfterStep,
         FinishRun

LEMMA ReturnedStep ==
    ASSUME ReturnedAtSentinel, [MachineNext]_machineVars
    PROVE  ReturnedAtSentinel'
<1>1. CASE Step
  BY <1>1, StepReturns
<1>2. CASE halt = "None" /\ HaltWith("StepBudgetExhausted")
  BY <1>2 DEF HaltWith, ReturnedAtSentinel
<1>3. CASE Reset(outcome'.entry, InitialStackPointer)
  BY <1>3 DEF Reset, ReturnedAtSentinel
<1>4. CASE UNCHANGED cpuVars
  BY <1>4 DEF cpuVars, ReturnedAtSentinel
<1> QED BY <1>1, <1>2, <1>3, <1>4, CoreSteps DEF machineVars

(* Over any series of loads, runs and stores of the host: the core reports *)
(* Returned exactly at the sentinel, faults precisely, says SpinLoop of a  *)
(* fixed point only, and every instruction has one effect.                 *)
THEOREM CoreInTheMachine ==
    MachineSpec =>
        /\ []ReturnedAtSentinel
        /\ [][halt' # halt /\ halt' \in Fault =>
                  halt = "None" /\ UNCHANGED <<regs, pc, steps, busVars>>]_machineVars
        /\ [][halt' # halt /\ halt' = "SpinLoop" =>
                  SpinLoopIsFixedPointUnlessCallA0']_machineVars
        /\ OneEffectPerInstruction
<1>1. MachineInit => ReturnedAtSentinel
  BY DEF MachineInit, CpuNew, ReturnedAtSentinel
<1>2. ASSUME MachineInv, [MachineNext]_machineVars
      PROVE  /\ [halt' # halt /\ halt' \in Fault =>
                     halt = "None" /\ UNCHANGED <<regs, pc, steps, busVars>>]_machineVars
             /\ [halt' # halt /\ halt' = "SpinLoop" =>
                     SpinLoopIsFixedPointUnlessCallA0']_machineVars
             /\ [steps' = steps + 1 => OneEffect]_<<busVars, cpuVars>>
  <2>1. CpuTypeOK /\ steps \in Nat
    BY <1>2 DEF MachineInv, MachineTypeOK, CpuTypeOK
  <2>2. CASE Step
    BY <2>1, <2>2, StepFaults, StepSpins, StepEffect DEF SpinLoopIsFixedPointUnlessCallA0
  <2>3. CASE \/ halt = "None" /\ HaltWith("StepBudgetExhausted")
             \/ Reset(outcome'.entry, InitialStackPointer)
             \/ UNCHANGED cpuVars
    <3>1. halt' \in {halt, "None", "StepBudgetExhausted"} /\ steps' \in {steps, 0}
      BY <2>3 DEF HaltWith, Reset, cpuVars
    <3>2. steps' # steps + 1
      BY <2>1, <3>1
    <3>3. halt' = halt \/ halt' \notin Fault \cup {"SpinLoop"}
      BY <3>1 DEF Fault, ErrorKind
    <3> QED BY <3>2, <3>3
  <2>4. CASE UNCHANGED machineVars
    <3>1. UNCHANGED <<busVars, cpuVars>>  BY <2>4 DEF machineVars
    <3> QED BY <2>4, <3>1
  <2> QED BY <1>2, <2>2, <2>3, <2>4, CoreSteps
<1> QED BY <1>1, <1>2, ReturnedStep, MachineInductive, PTL
        DEF MachineSpec, OneEffectPerInstruction

(* What a step of the machine is to the loader. *)
LEMMA LoaderSteps ==
    ASSUME [MachineNext]_machineVars
    PROVE  LoaderNext \/ UNCHANGED loaderVars
<1>1. CASE StartLoadElf \/ LoadElf
  BY <1>1 DEF StartLoadElf, LoadElf, LoaderNext
<1>2. CASE HostStore \/ StartRun \/ Running \/ UNCHANGED machineVars
  BY <1>2 DEF HostStore, StartRun, Running, LoopEnds, RunStep, DrainAfterStep, FinishRun,
              machineVars
<1> QED BY <1>1, <1>2 DEF MachineNext

LEMMA ResultInMachine ==
    ASSUME LoaderInv, ResultInv, [MachineNext]_machineVars
    PROVE  ResultInv'
<1>1. CASE LoaderNext
  BY <1>1, ResultStep
<1>2. CASE UNCHANGED loaderVars
  BY <1>2 DEF loaderVars, ResultInv, AcceptsExactlyWellFormed, ErrorNamesFirstBadSegment,
              Segment
<1> QED BY <1>1, <1>2, LoaderSteps

(* While a load goes on nobody else writes RAM. *)
LEMMA OverlayInMachine ==
    ASSUME MachineInv, ResultInv, loading => RamIsOverlay, [MachineNext]_machineVars
    PROVE  /\ loading' => RamIsOverlay'
           /\ loads' # loads \/ loading => RamIsOverlay' \/ UNCHANGED machineVars
<1>1. CASE LoaderNext
  BY <1>1, OverlayRamStep DEF MachineInv
<1>2. CASE HostStore \/ StartRun \/ Running
  <2>1. ~ loading /\ UNCHANGED loaderVars
    BY <1>2 DEF HostStore, StartRun, Idle, Running, LoopEnds, RunStep, DrainAfterStep,
                FinishRun, MachineInv, MachineTypeOK
  <2> QED BY <2>1 DEF loaderVars
<1>3. CASE UNCHANGED machineVars
  BY <1>3 DEF machineVars, loaderVars, busVars, RamIsOverlay, HalfPlaced, Segment
<1> QED BY <1>1, <1>2, <1>3 DEF MachineNext, StartLoadElf, LoadElf, LoaderNext

(* Whatever the core and the host have left in RAM: a load of the machine's *)
(* lays the image over it to the byte, also when it fails half way, accepts *)
(* exactly the well-formed images, and its error names the first at fault.  *)
THEOREM LoaderInTheMachine ==
    MachineSpec =>
        /\ [](loading => RamIsOverlay)
        /\ [][loads' # loads \/ loading => RamIsOverlay']_machineVars
        /\ [](AcceptsExactlyWellFormed /\ ErrorNamesFirstBadSegment)
<1>1. MachineInit => ResultInv /\ ~ loading
  BY DEF MachineInit, LoaderInit, ResultInv, AcceptsExactlyWellFormed,
         ErrorNamesFirstBadSegment
<1>2. MachineInv => LoaderInv
  BY DEF MachineInv
<1>3. ResultInv => AcceptsExactlyWellFormed /\ ErrorNamesFirstBadSegment
  BY DEF ResultInv
<1>4. MachineInv /\ ResultInv /\ (loading => RamIsOverlay) /\ [MachineNext]_machineVars
        => /\ (loading => RamIsOverlay)'
           /\ [loads' # loads \/ loading => RamIsOverlay']_machineVars
  BY OverlayInMachine
<1> QED BY <1>1, <1>2, <1>3, <1>4, ResultInMachine, MachineInductive, PTL DEF MachineSpec
-----------------------------------------------------------------------------
(* What is known of the summary before it is made: a run that is left      *)
(* spinning has just reported the instruction it spins at, a lack of       *)
(* budget found at the start of a run is an old one and nothing is         *)
(* executed, and one that is found later came exactly at the budget.       *)
LastIsAt(p) == \A k \in DOMAIN log : LastStep(k) => log[k].executed.pc = p

TruthInv ==
    /\ SummaryIsTrue
    /\ control # "host" /\ halt = "SpinLoop" => LastIsAt(pc)
    /\ control \in {"loop", "drain"} /\ halt = "StepBudgetExhausted" => steps = started
    /\ control = "final" /\ halt = "StepBudgetExhausted" /\ steps > started => steps = budget

(* A step of the run loop either retires and reports the instruction at pc, *)
(* which is where a spinning core stays, or halts without executing.       *)
LEMMA SpinsWhereItIs ==
    ASSUME MachineInv, LogInv, RunStep, steps' # steps, halt' = "SpinLoop"
    PROVE  LastIsAt(pc)'
<1>1. pc' = pc
  <2>1. Step /\ halt = "None"
    BY DEF RunStep
  <2>2. PICK next : pc # HALT_ADDRESS /\ Retire(next)
    BY <2>1, StepOutcome DEF ReturnWithoutExecuting, FaultWith
  <2> QED BY <2>1, <2>2 DEF Retire
<1>2. log' = Append(log, StepEvent)
  BY DEF RunStep
<1>3. StepEvent.call = "on_step" /\ StepEvent.executed.pc = pc
  BY DEF StepEvent, Executed
<1> DEFINE event == StepEvent
<1> HIDE DEF event
<1>4. PICK S : log \in Seq(S)
  BY DEF LogInv
<1>5. /\ DOMAIN Append(log, event) = 1 .. Len(log) + 1 /\ Len(log) \in Nat
      /\ Append(log, event)[Len(log) + 1] = event
  BY <1>4
<1>6. DOMAIN log' = 1 .. Len(log) + 1 /\ log'[Len(log) + 1] = event
  BY <1>2, <1>5 DEF event
<1>7. ASSUME NEW k \in DOMAIN log', LastStep(k)' PROVE k = Len(log) + 1
  <2>1. Len(log) + 1 \in DOMAIN log' /\ log'[Len(log) + 1].call = "on_step"
    BY <1>3, <1>5, <1>6 DEF event
  <2>2. ~ (Len(log) + 1 > k)
    BY <1>7, <2>1 DEF LastStep
  <2> QED BY <1>5, <1>6, <1>7, <2>2
<1> QED BY <1>1, <1>3, <1>6, <1>7 DEF LastIsAt, event

(* A drain adds no instruction to what has been reported.                  *)
LEMMA DrainNamesNoOther ==
    ASSUME MachineInv, LogInv, Drain, NEW p, LastIsAt(p)
    PROVE  \A k \in DOMAIN log' : LastStep(k)' => log'[k].executed.pc = p
<1>1. CASE UNCHANGED log
  BY <1>1 DEF LastIsAt, LastStep
<1>2. CASE log' = Append(log, UartEvent(uart.tx))
  <2> DEFINE event == UartEvent(uart.tx)
  <2>1. event.call # "on_step"
    BY DEF UartEvent
  <2> HIDE DEF event
  <2>2. PICK S : log \in Seq(S)
    BY DEF LogInv
  <2>3. /\ DOMAIN Append(log, event) = 1 .. Len(log) + 1 /\ Len(log) \in Nat
        /\ DOMAIN log = 1 .. Len(log)
        /\ Append(log, event)[Len(log) + 1] = event
        /\ \A k \in 1 .. Len(log) : Append(log, event)[k] = log[k]
    BY <2>2
  <2>4. /\ DOMAIN log' = 1 .. Len(log) + 1 /\ log'[Len(log) + 1] = event
        /\ \A k \in 1 .. Len(log) : log'[k] = log[k]
    BY <1>2, <2>3 DEF event
  <2> SUFFICES ASSUME NEW k \in DOMAIN log', LastStep(k)' PROVE log'[k].executed.pc = p
    OBVIOUS
  <2>5. k \in 1 .. Len(log)
    <3>1. log'[k].call = "on_step"
      BY DEF LastStep
    <3>2. k # Len(log) + 1
      BY <2>1, <2>4, <3>1
    <3> QED BY <2>3, <2>4, <3>2
  <2>6. LastStep(k)
    <3>1. \A j \in DOMAIN log : j \in DOMAIN log' /\ log'[j] = log[j]
      BY <2>3, <2>4
    <3> QED BY <2>3, <2>5, <3>1 DEF LastStep
  <2> QED BY <2>3, <2>4, <2>5, <2>6 DEF LastIsAt
<1> QED BY <1>1, <1>2 DEF Drain

LEMMA TruthStep ==
    ASSUME MachineInv, BudgetInv, ReturnedAtSentinel, LogInv, TruthInv,
           [MachineNext]_machineVars
    PROVE  TruthInv'
<1>0. /\ steps \in Nat /\ budget \in Nat /\ started \in Nat
      /\ control \in {"host", "loop", "drain", "final"} /\ (loading => control = "host")
  BY DEF MachineInv, MachineTypeOK, CpuTypeOK
<1>1. CASE control = "host" /\ UNCHANGED runVars
  BY <1>1 DEF runVars, TruthInv, SummaryIsTrue, LastStep
<1>2. CASE StartLoadElf \/ LoadElf
  BY <1>0, <1>1, <1>2, LoadElfEffect DEF StartLoadElf, Idle
<1>3. CASE HostStore
  <2>1. control = "host" /\ control' = "host" /\ UNCHANGED <<summary, log, runs, started, budget>>
    BY <1>3 DEF HostStore, Idle
  <2> QED BY <2>1 DEF TruthInv, SummaryIsTrue, LastStep
<1>4. CASE StartRun
  <2>1. control' = "loop" /\ log' = <<>> /\ started' = steps /\ UNCHANGED steps
    BY <1>4 DEF StartRun, cpuVars
  <2>2. LastIsAt(pc)'
    BY <2>1 DEF LastIsAt
  <2> QED BY <2>1, <2>2 DEF TruthInv, SummaryIsTrue
<1>5. CASE LoopEnds
  <2>1. /\ control = "loop" /\ control' = "final"
        /\ UNCHANGED <<log, budget, started, pc, steps>>
        /\ \/ halt' = halt
           \/ halt = "None" /\ halt' = "StepBudgetExhausted" /\ steps >= budget
    BY <1>5 DEF LoopEnds, HaltWith, OutOfBudget, cpuVars
  <2>2. halt' = "SpinLoop" => LastIsAt(pc)'
    BY <2>1 DEF TruthInv, LastIsAt, LastStep
  <2>3. halt' = "StepBudgetExhausted" /\ steps > started => steps = budget
    <3>1. steps <= budget \/ steps = started
      BY <2>1 DEF BudgetInv, BudgetIsRespected
    <3> QED BY <1>0, <2>1, <3>1 DEF TruthInv
  <2> QED BY <2>1, <2>2, <2>3 DEF TruthInv, SummaryIsTrue
<1>6. CASE RunStep
  <2>1. halt = "None" /\ control = "loop" /\ control' # "host" /\ halt' # "StepBudgetExhausted"
    BY <1>6, RunStepEffect
  <2>2. halt' = "SpinLoop" => LastIsAt(pc)'
    <3>1. CASE steps' # steps
      BY <1>6, <3>1, SpinsWhereItIs
    <3>2. CASE steps' = steps
      <4>1. Step
        BY <1>6 DEF RunStep
      <4>2. halt' # "SpinLoop"
        <5>1. ASSUME NEW next, Retire(next) PROVE FALSE
          BY <1>0, <3>2, <5>1 DEF Retire
        <5> QED BY <4>1, <5>1, StepOutcome DEF ReturnWithoutExecuting, FaultWith, Fault, ErrorKind
      <4> QED BY <4>2
    <3> QED BY <3>1, <3>2
  <2> QED BY <2>1, <2>2 DEF TruthInv, SummaryIsTrue
<1>7. CASE DrainAfterStep
  <2>1. Drain /\ control = "drain" /\ control' = "loop" /\ UNCHANGED <<cpuVars, started, budget>>
    BY <1>7 DEF DrainAfterStep
  <2>2. UNCHANGED <<pc, steps, halt>>
    BY <2>1 DEF cpuVars
  <2>3. halt' = "SpinLoop" => LastIsAt(pc)'
    <3> SUFFICES ASSUME halt' = "SpinLoop" PROVE LastIsAt(pc)'
      OBVIOUS
    <3>1. LastIsAt(pc)
      BY <2>1, <2>2 DEF TruthInv
    <3>2. \A k \in DOMAIN log' : LastStep(k)' => log'[k].executed.pc = pc
      BY <2>1, <3>1, DrainNamesNoOther
    <3> QED BY <2>2, <3>2 DEF LastIsAt
  <2> QED BY <2>1, <2>2, <2>3 DEF TruthInv, SummaryIsTrue
<1>8. CASE FinishRun
  <2>1. /\ Drain /\ control = "final" /\ control' = "host" /\ summary' = Summary
        /\ UNCHANGED <<cpuVars, started, budget>>
    BY <1>8 DEF FinishRun
  <2>2. UNCHANGED <<pc, steps, halt>>
    BY <2>1 DEF cpuVars
  <2>3. halt # "None"
    BY <2>1 DEF BudgetInv, BudgetIsRespected
  <2>4. /\ summary'.final_pc = pc /\ summary'.steps = steps /\ summary'.halt_reason = halt
    BY <2>1, <2>3 DEF Summary
  <2>5. halt = "Returned" => pc = HALT_ADDRESS
    BY DEF ReturnedAtSentinel
  <2>6. halt = "SpinLoop" => \A k \in DOMAIN log' : LastStep(k)' => log'[k].executed.pc = pc
    BY <2>1, DrainNamesNoOther DEF TruthInv
  <2>7. halt = "StepBudgetExhausted" =>
            /\ steps > started => steps = budget
            /\ steps > 0 => pc # HALT_ADDRESS
    BY <2>1 DEF TruthInv, ReturnedAtSentinel
  <2>8. SummaryIsTrue'
    BY <2>1, <2>4, <2>5, <2>6, <2>7 DEF SummaryIsTrue
  <2> QED BY <2>1, <2>8 DEF TruthInv
<1>9. CASE UNCHANGED machineVars
  BY <1>9 DEF machineVars, cpuVars, runVars, TruthInv, SummaryIsTrue, LastIsAt, LastStep
<1> QED BY <1>2, <1>3, <1>4, <1>5, <1>6, <1>7, <1>8, <1>9 DEF MachineNext, Running

(* run() says nothing that is not so: where the core stopped, and how far  *)
(* it got, for every firmware, budget and series of calls.                 *)
THEOREM SummariesAreTrue == MachineSpec => []SummaryIsTrue
<1>1. MachineInit => TruthInv
  BY DEF MachineInit, TruthInv, SummaryIsTrue
<1>2. TruthInv => SummaryIsTrue
  BY DEF TruthInv
<1>3. MachineInit => ReturnedAtSentinel
  BY DEF MachineInit, CpuNew, ReturnedAtSentinel
<1>4. ReturnedAtSentinel /\ [MachineNext]_machineVars => ReturnedAtSentinel'
  BY ReturnedStep
<1> QED BY <1>1, <1>2, <1>3, <1>4, TruthStep, MachineInductive, BudgetInductive,
           LogInductive, PTL DEF MachineSpec
=============================================================================
