------------------------------ MODULE BusCalls ------------------------------
(***************************************************************************)
(* Any sequence of calls to the bus: Machine::bus_mut hands the whole bus  *)
(* to its caller, and the loader, the CPU and the run loop are callers too. *)
(* `reply' is the last call with its result; `taken' is the history of     *)
(* what take_pending has handed out.                                       *)
(***************************************************************************)
EXTENDS Bus

CONSTANTS
    CallAddr, CallValue, CallBlock,     \* the arguments callers use
    TX_MAX                              \* bound on the bytes transmitted

ASSUME CallAssumption ==
    /\ CallAddr \subseteq Word
    /\ CallValue \subseteq Word
    /\ CallBlock \subseteq Seq(Byte)

VARIABLES reply, taken

callVars == <<busVars, reply, taken>>

Outcome(call, addr, result) == [call |-> call, addr |-> addr, result |-> result.kind]

CallLoad(addr, size) ==
    LET result == LoadReply(addr, size) IN
    /\ reply' = IF Failed(result) THEN Outcome("load", addr, result)
                ELSE [call |-> "load", addr |-> addr, result |-> "Ok",
                      size |-> size, value |-> result.value]
    /\ UNCHANGED <<busVars, taken>>

CallStore(addr, size, value) ==
    /\ uart.transmitted < TX_MAX
    /\ Store(addr, size, value)
    /\ reply' = Outcome("store", addr, StoreReply(addr, size))
    /\ UNCHANGED taken

(* zero_block is the case of a block of zeros. *)
CallWriteBlock(addr, bytes) ==
    /\ WriteBlock(addr, bytes)
    /\ reply' = Outcome("block", addr, BlockReply(addr, Len(bytes)))
    /\ UNCHANGED taken

CallTakePending ==
    /\ TakePending
    /\ reply' = [call |-> "take", bytes |-> uart.tx]
    /\ taken' = taken \o uart.tx

CallInit ==
    /\ BusInit
    /\ reply = [call |-> "none"]
    /\ taken = <<>>

CallNext ==
    \/ \E addr \in CallAddr, size \in Width : CallLoad(addr, size)
    \/ \E addr \in CallAddr, size \in Width, value \in CallValue :
          CallStore(addr, size, value)
    \/ \E addr \in CallAddr, bytes \in CallBlock : CallWriteBlock(addr, bytes)
    \/ CallTakePending

CallSpec == CallInit /\ [][CallNext]_callVars

-----------------------------------------------------------------------------
CallTypeOK == BusTypeOK /\ taken \in Seq(Byte)

(* The abstract memory under the refinement mapping. *)
FlatRam ==
    [a \in Window(IRAM_BASE, IRAM_SIZE) \cup Window(DRAM_BASE, DRAM_SIZE) |->
        IF a \in Window(IRAM_BASE, IRAM_SIZE)
        THEN ram["Iram"][a - IRAM_BASE]
        ELSE ram["Dram"][a - DRAM_BASE]]

Flat == INSTANCE Memory WITH
    mem <- FlatRam, sent <- taken \o uart.tx, handed <- Len(taken)

(* Whatever the callers do, the two regions, the address map and the UART  *)
(* queue behave as one flat byte memory and one output stream: a store     *)
(* changes exactly the bytes it names, a load returns what was last stored  *)
(* there, little-endian across widths, an error changes nothing, and       *)
(* take_pending hands every transmitted byte out once and in order.        *)
BusIsFlatMemory == Flat!MemorySpec

(* Uart::transmitted counts every byte ever pushed, whether it has been    *)
(* drained, is pending, or was stored with a sub-word access.              *)
TransmittedCountsEveryByte == uart.transmitted = Len(taken) + Len(uart.tx)
=============================================================================
