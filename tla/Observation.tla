---------------------------- MODULE Observation -----------------------------
(***************************************************************************)
(* What a run promises its Observer (the trait in machine.rs): each        *)
(* instruction is reported once, numbered on from the last, and what it    *)
(* transmitted follows it at once, before the next instruction; `owed' is  *)
(* the number of bytes the host had left in the UART when the run began,   *)
(* which come out with the first bytes reported.                           *)
(***************************************************************************)
EXTENDS Integers, Sequences

CONSTANT Byte

VARIABLES log, running, count, owed

observationVars == <<log, running, count, owed>>

StepEvent(n) == [call |-> "on_step", step |-> n]
UartEvent(bytes) == [call |-> "on_uart_tx", bytes |-> bytes]

(* Between runs: loads restart the count, the host may leave bytes. *)
Host ==
    /\ ~ running /\ ~ running'
    /\ count' \in {0, count} /\ owed' \in Nat
    /\ UNCHANGED log

Begin ==
    /\ ~ running /\ running'
    /\ log' = <<>>
    /\ UNCHANGED <<count, owed>>

Retire ==
    /\ running
    /\ log' = Append(log, StepEvent(count + 1))
    /\ count' = count + 1
    /\ UNCHANGED <<running, owed>>

(* One instruction sends at most one byte. *)
Transmit ==
    /\ running /\ log # <<>> /\ log[Len(log)] = StepEvent(count)
    /\ \E n \in owed .. owed + 1 : \E bytes \in [1 .. n -> Byte] :
          n > 0 /\ log' = Append(log, UartEvent(bytes))
    /\ owed' = 0
    /\ UNCHANGED <<running, count>>

(* A run that executes nothing still hands over what the host left. *)
Leave ==
    /\ running /\ ~ running'
    /\ \/ owed = 0 /\ UNCHANGED log
       \/ /\ owed > 0 /\ log = <<>>
          /\ \E bytes \in [1 .. owed -> Byte] : log' = <<UartEvent(bytes)>>
    /\ owed' = 0
    /\ UNCHANGED count

ObservationInit == log = <<>> /\ ~ running /\ count = 0 /\ owed = 0

ObservationNext == Host \/ Begin \/ Retire \/ Transmit \/ Leave

ObservationSpec == ObservationInit /\ [][ObservationNext]_observationVars
=============================================================================
