------------------------------- MODULE Trace --------------------------------
(***************************************************************************)
(* crates/simulatr-core/src/trace.rs: what a line of the trace says of a   *)
(* retired instruction.  The line is text in the code; here it is its      *)
(* fields, and the newline that ends it.                                   *)
(***************************************************************************)
EXTENDS Machine

Newline == [object |-> FALSE]

(* write_json_line(). *)
Line(event) ==
    LET executed == event.executed IN
    <<[object |-> TRUE, step |-> event.step, pc |-> executed.pc, raw |-> executed.word,
       len |-> executed.size, op |-> Mnemonic(executed.inst, executed.size), a |-> event.regs],
      Newline>>

Object(event) == Line(event)[1]
Lines(calls) == {k \in DOMAIN calls : calls[k].call = "on_step"}

-----------------------------------------------------------------------------
(* A reader of the trace has nothing else.  From one object it can tell    *)
(* where the next instruction is and which register it may change.         *)
Read(object) == DecodeInst(object.pc, object.raw, object.len)

NextPc(object) ==
    LET i == Read(object)
        past == WrapAdd(object.pc, object.len)
        branch(taken) == IF taken THEN i.target ELSE past
    IN  CASE i.op \in {"Jump", "Call"} -> i.target
          [] i.op \in {"JumpReg", "CallReg"} -> object.a[i.reg]
          [] i.op = "Ret" -> object.a[A0]
          [] i.op = "Branch" -> branch(Holds(i.cond, object.a[i.lhs], object.a[i.rhs]))
          [] i.op = "BranchZero" -> branch(Holds(i.cond, object.a[i.src], 0))
          [] OTHER -> past

(* `callx0 a0' is the one instruction whose target is gone afterwards. *)
LeadsTo(object, next) ==
    Read(object) = [op |-> "CallReg", reg |-> A0] \/ next = NextPc(object)

Written(object) ==
    LET i == Read(object) IN
    CASE i.op \in {"Load", "L32r", "Movi", "Addi", "Alu", "Mov"} -> {i.dst}
      [] i.op \in {"Call", "CallReg"} -> {A0}
      [] OTHER -> {}

(* The word is one the CPU executes, under the name the object gives it.   *)
NamesItsWord(object) ==
    /\ Read(object) \notin Undecodable
    /\ object.op = Mnemonic(Read(object), object.len)

Follows(next, object) ==
    /\ next.step = object.step + 1
    /\ NamesItsWord(next)
    /\ LeadsTo(object, next.pc)
    /\ \A r \in Reg \ Written(next) : next.a[r] = object.a[r]
    /\ Read(next).op \in {"Call", "CallReg"} => next.a[A0] = WrapAdd(next.pc, next.len)

(* The trace of a run can be replayed: each object is the instruction that *)
(* the one before it leads to, on the registers that one left, numbered on *)
(* by one; its word is one that executes, under the name it gives, also    *)
(* where the firmware has just rewritten that word; and the run is where   *)
(* its last object says.                                                   *)
Neighbours(calls, j, k) == j < k /\ \A l \in Lines(calls) : l <= j \/ k <= l
Last(calls, k) == \A l \in Lines(calls) : l <= k

TraceIsReplayable ==
    /\ \A j, k \in Lines(log) :
          Neighbours(log, j, k) => Follows(Object(log[k]), Object(log[j]))
    /\ control # "host" =>
          \A k \in Lines(log) : Last(log, k) =>
              LET last == Object(log[k])
              IN  last.a = regs /\ last.step = steps /\ LeadsTo(last, pc) /\ NamesItsWord(last)
-----------------------------------------------------------------------------
(* The reader can also tell which instructions send a byte, and which one: *)
(* stores to the FIFO's word, whatever their width.                        *)
Sends(object) ==
    LET i == Read(object)
        to == Decode(WrapAdd(object.a[i.base], i.offset))
    IN  i.op = "Store" /\ to.at = "Uart0" /\ AlignDown(to.offset, 4) = FIFO

ByteSent(object) == object.a[Read(object).src] % BYTE

(* The bytes reported follow from the trace: a line that sends is followed *)
(* by a report that ends with its byte, and has no other unless it is the  *)
(* first of the run and brings what the host had left; a line that does    *)
(* not send is followed by such a first report or by none.                 *)
OutputFollowsTrace ==
    /\ \A k \in Lines(log) : Sends(Object(log[k])) =>
          \/ k = Len(log) /\ control = "drain"
          \/ k < Len(log) /\ log[k + 1].call = "on_uart_tx"
    /\ \A k \in DOMAIN log : log[k].call = "on_uart_tx" /\ k > 1 =>
          LET told == log[k].bytes IN
          /\ k - 1 \in Lines(log)
          /\ IF Sends(Object(log[k - 1]))
             THEN told[Len(told)] = ByteSent(Object(log[k - 1])) /\ (k > 2 => Len(told) = 1)
             ELSE k = 2
=============================================================================
