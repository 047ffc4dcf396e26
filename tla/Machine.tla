------------------------------ MODULE Machine -------------------------------
(***************************************************************************)
(* crates/simulatr-core/src/machine.rs: a CPU and a bus behind one owner.  *)
(* The host loads images, runs with a budget, and may store through        *)
(* bus_mut() in between; a run steps the CPU and drains the UART into its  *)
(* Observer.  `control' is the point the run loop has reached.             *)
(***************************************************************************)
EXTENDS Cpu, Loader

CONSTANTS
    Budgets,                            \* budgets that run() may be given
    HostStores,                         \* <<addr, size, value>> the host may store
    MAX_RUNS, MAX_HOST_STORES           \* bounds on the calls of the host

ASSUME HostAssumption ==
    Budgets \subseteq Nat /\ HostStores \subseteq Word \X Width \X Word

VARIABLES
    control,                            \* "host", "loop", "drain" or "final"
    budget, summary,                    \* run()'s argument and result
    log,                                \* the Observer's calls in this run
    runs, hostStores,                   \* numbers of calls made by the host
    owed, started, delivered            \* history, see below

(* owed      : bytes the host left in the UART and no run has reported yet *)
(* started   : cpu.steps() when the run began                              *)
(* delivered : bytes reported to observers over the machine's life         *)

runVars == <<control, budget, summary, log, runs, hostStores, owed, started, delivered>>
machineVars == <<busVars, cpuVars, loaderVars, runVars>>

(* struct Executed: the instruction as it was fetched and decoded. *)
Executed == [pc |-> pc, word |-> FetchReply.value, size |-> InstSize, inst |-> Decoded]

(* Mutant: the word is read from RAM again, after the instruction. *)
RereadStepEvent ==
    LET again(i) == ByteAt(ram', WrapAdd(pc, i)) IN
    [call |-> "on_step", step |-> steps', regs |-> regs',
     executed |-> [Executed EXCEPT
         !.word = IF InstSize = 2 THEN again(0) + BYTE * again(1)
                  ELSE again(0) + BYTE * (again(1) + BYTE * again(2))]]

(* Mutant: the registers of before the instruction. *)
StaleStepEvent == [call |-> "on_step", step |-> steps', executed |-> Executed, regs |-> regs]

(* on_step is told the count and the registers the instruction leaves. *)
StepEvent == [call |-> "on_step", step |-> steps', executed |-> Executed, regs |-> regs']

UartEvent(tx) == [call |-> "on_uart_tx", bytes |-> tx]

Idle == control = "host" /\ ~ loading

-----------------------------------------------------------------------------
(* load_elf: the CPU is reset if and only if the loader succeeds. *)
StartLoadElf ==
    /\ Idle /\ loads < MAX_LOADS
    /\ \E img \in Images : BeginLoad(img)
    /\ UNCHANGED <<cpuVars, runVars>>

LoadElf ==
    /\ LoadStep
    /\ \/ outcome'.kind = "Ok" /\ Reset(outcome'.entry, InitialStackPointer)
       \/ outcome'.kind # "Ok" /\ UNCHANGED cpuVars
    /\ UNCHANGED runVars

(* bus_mut(): any store, the UART's registers included. *)
HostStore ==
    /\ Idle /\ hostStores < MAX_HOST_STORES
    /\ \E s \in HostStores : Store(s[1], s[2], s[3])
    /\ hostStores' = hostStores + 1
    /\ owed' = Len(uart'.tx)
    /\ UNCHANGED <<cpuVars, loaderVars, control, budget, summary, log, runs, started, delivered>>

-----------------------------------------------------------------------------
LateBudget == steps > budget            \* mutant
EarlyBudget == steps + 1 >= budget      \* mutant
OutOfBudget == steps >= budget

StartRun ==
    /\ Idle /\ runs < MAX_RUNS
    /\ control' = "loop" /\ budget' \in Budgets /\ log' = <<>>
    /\ runs' = runs + 1 /\ started' = steps
    /\ UNCHANGED <<busVars, cpuVars, loaderVars, summary, hostStores, owed, delivered>>

(* Mutant: the loop neither looks at the CPU's halt nor ends when step()   *)
(* has nothing to do (it goes round for ever).                             *)
LoopIgnoresHalt ==
    /\ control = "loop"
    /\ halt = "None" /\ OutOfBudget /\ HaltWith("StepBudgetExhausted")
    /\ control' = "final"
    /\ UNCHANGED <<busVars, loaderVars, budget, summary, log, runs, hostStores,
                   owed, started, delivered>>

(* The loop's head: already halted, or out of budget. *)
LoopEnds ==
    /\ control = "loop"
    /\ \/ halt # "None" /\ UNCHANGED cpuVars
       \/ halt = "None" /\ OutOfBudget /\ HaltWith("StepBudgetExhausted")
    /\ control' = "final"
    /\ UNCHANGED <<busVars, loaderVars, budget, summary, log, runs, hostStores,
                   owed, started, delivered>>

(* cpu.step(), and on_step when an instruction has retired. *)
RunStep ==
    /\ control = "loop" /\ halt = "None" /\ ~ OutOfBudget
    /\ Step
    /\ \/ steps' # steps /\ control' = "drain" /\ log' = Append(log, StepEvent)
       \/ steps' = steps /\ control' = "final" /\ UNCHANGED log
    /\ UNCHANGED <<loaderVars, budget, summary, runs, hostStores, owed, started, delivered>>

(* Mutant: the bytes are reported but stay pending. *)
PeekingDrain ==
    \/ uart.tx = <<>> /\ UNCHANGED <<busVars, log, delivered, owed>>
    \/ /\ uart.tx # <<>> /\ UNCHANGED busVars
       /\ log' = Append(log, UartEvent(uart.tx))
       /\ delivered' = delivered + Len(uart.tx) /\ owed' = 0

(* Both drains: nothing happens when nothing is pending. *)
Drain ==
    \/ uart.tx = <<>> /\ UNCHANGED <<busVars, log, delivered, owed>>
    \/ /\ uart.tx # <<>>
       /\ TakePending
       /\ log' = Append(log, UartEvent(uart.tx))
       /\ delivered' = delivered + Len(uart.tx) /\ owed' = 0

(* Mutant: output is left for the drain at the end of the run. *)
DrainOnlyAtTheEnd ==
    /\ control = "drain" /\ control' = "loop"
    /\ UNCHANGED <<busVars, log, delivered, owed, cpuVars, loaderVars, budget, summary,
                   runs, hostStores, started>>

DrainAfterStep ==
    /\ control = "drain" /\ Drain /\ control' = "loop"
    /\ UNCHANGED <<cpuVars, loaderVars, budget, summary, runs, hostStores, started>>

Summary == [final_pc |-> pc, steps |-> steps,
            halt_reason |-> IF halt = "None" THEN "StepBudgetExhausted" ELSE halt,
            bytes_transmitted |-> uart.transmitted]

(* Mutant: no drain at the end of the run. *)
FinishWithoutDrain ==
    /\ control = "final" /\ control' = "host"
    /\ summary' = Summary
    /\ UNCHANGED <<busVars, log, delivered, owed, cpuVars, loaderVars, budget, runs,
                   hostStores, started>>

FinishRun ==
    /\ control = "final" /\ Drain /\ control' = "host"
    /\ summary' = Summary
    /\ UNCHANGED <<cpuVars, loaderVars, budget, runs, hostStores, started>>

Running == LoopEnds \/ RunStep \/ DrainAfterStep \/ FinishRun

-----------------------------------------------------------------------------
NoSummary == [halt_reason |-> "None"]

MachineInit ==
    /\ LoaderInit /\ CpuNew
    /\ control = "host" /\ budget = 0 /\ summary = NoSummary /\ log = <<>>
    /\ runs = 0 /\ hostStores = 0 /\ owed = 0 /\ started = 0 /\ delivered = 0

MachineNext == StartLoadElf \/ LoadElf \/ HostStore \/ StartRun \/ Running

(* load_elf and run are calls in one thread: each goes on until it returns. *)
MachineSpec ==
    /\ MachineInit /\ [][MachineNext]_machineVars
    /\ WF_machineVars(LoadElf) /\ WF_machineVars(Running)

-----------------------------------------------------------------------------
IsClean(reason) == reason \in {"Returned", "SpinLoop"}

MachineTypeOK ==
    /\ BusTypeOK /\ CpuTypeOK
    /\ control \in {"host", "loop", "drain", "final"} /\ (loading => control = "host")
    /\ budget \in Nat /\ started \in Nat /\ delivered \in Nat /\ owed \in Nat

(* The run loop as its observer sees it: numbered instructions, each with  *)
(* its bytes right behind it.                                              *)
Numbered(event) ==
    IF event.call = "on_step" THEN [call |-> "on_step", step |-> event.step] ELSE event
ObserverCalls == [k \in DOMAIN log |-> Numbered(log[k])]
Observed == INSTANCE Observation WITH
    log <- ObserverCalls, running <- control # "host", count <- steps
ObserverProtocol == Observed!ObservationSpec

(* The comment on Uart::tx: never more than one instruction's worth of     *)
(* bytes is pending (on top of what the host itself left there), and none  *)
(* is when any instruction of a run but its first starts.                  *)
PendingIsOneInstructionsWorth ==
    /\ Len(uart.tx) <= owed + (IF control = "drain" THEN 1 ELSE 0)
    /\ control = "loop" /\ log # <<>> => uart.tx = <<>>

(* Every byte the firmware or the host ever sent is reported to exactly    *)
(* one on_uart_tx or still pending, over any series of loads and runs, and *)
(* none is left behind by a run that has returned.                         *)
OutputIsConserved ==
    /\ uart.transmitted = delivered + Len(uart.tx)
    /\ control = "host" => Len(uart.tx) = owed

(* A run stops at its budget and never before it for lack of budget; it    *)
(* always has a reason to stop, so unwrap_or in the summary is never used. *)
BudgetIsRespected ==
    /\ control # "host" => steps <= budget \/ steps = started
    /\ control = "final" => halt # "None"

ExhaustedOnlyAtBudget ==
    [][ halt' = "StepBudgetExhausted" /\ halt = "None" =>
            steps >= budget /\ (steps > 0 => pc # HALT_ADDRESS) ]_machineVars

(* A load that fails leaves the CPU as the last load or run left it, and   *)
(* one that succeeds makes the next run start from scratch.                *)
LoadIsAllOrNothingForCpu ==
    [][ loading /\ ~ loading' =>
            IF outcome'.kind = "Ok"
            THEN halt' = "None" /\ steps' = 0 /\ pc' = outcome'.entry /\ regs'[A0] = HALT_ADDRESS
            ELSE UNCHANGED cpuVars ]_machineVars

(* How many steps the call in progress can still take: an iteration per    *)
(* program header; for each instruction that the budget still allows, the  *)
(* instruction and its drain; the loop's end and the return.               *)
StepsLeft == IF halt = "None" /\ steps < budget THEN budget - steps ELSE 0
CallWork ==
    CASE loading -> image.phnum - index + 1
      [] ~ loading /\ control = "loop" -> 2 * StepsLeft + 2
      [] ~ loading /\ control = "drain" -> 2 * StepsLeft + 3
      [] ~ loading /\ control = "final" -> 1
      [] ~ loading /\ control = "host" -> 0

(* load_elf and run are bounded: whatever the image and the firmware do,   *)
(* each step of a call brings it nearer to its return (machine.rs:91).     *)
CallsAreBounded == [][~ Idle => CallWork' \in 0 .. CallWork - 1]_machineVars

(* What run() returns is so: Returned leaves final_pc at the sentinel and  *)
(* SpinLoop at the instruction last reported (machine.rs:39 says that a    *)
(* clean exit is at the sentinel, but is_clean_exit includes SpinLoop); a  *)
(* run that has executed anything and ends exhausted has used up its       *)
(* budget to the instruction (machine.rs:90) and cut off firmware that had *)
(* not just returned.                                                      *)
LastStep(k) ==
    /\ k \in DOMAIN log /\ log[k].call = "on_step"
    /\ \A j \in DOMAIN log : j > k => log[j].call # "on_step"

SummaryIsTrue ==
    control = "host" /\ runs > 0 =>
        /\ summary.halt_reason = "Returned" => summary.final_pc = HALT_ADDRESS
        /\ summary.halt_reason = "SpinLoop" =>
              \A k \in DOMAIN log : LastStep(k) => log[k].executed.pc = summary.final_pc
        /\ summary.halt_reason = "StepBudgetExhausted" =>
              /\ summary.steps > started => summary.steps = budget
              /\ summary.steps > 0 => summary.final_pc # HALT_ADDRESS

(* Every run returns, whatever the firmware does: the budget is finite.    *)
RunReturns == control # "host" ~> control = "host"

-----------------------------------------------------------------------------
(* The comment on run() (machine.rs:90): a run lasts until a halt          *)
(* condition fires or `budget' instructions have retired.                  *)
ExhaustedRunUsedItsBudget ==
    control = "host" /\ summary.halt_reason = "StepBudgetExhausted" => summary.steps >= budget
=============================================================================
