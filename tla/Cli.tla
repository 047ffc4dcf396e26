-------------------------------- MODULE Cli ---------------------------------
(***************************************************************************)
(* The `simulatr' binary, crates/simulatr-cli/src/main.rs: one process     *)
(* that reads a file, loads it, runs it once with two BufWriters as its    *)
(* Observer, and turns the outcome into messages and an exit code.         *)
(* `stage' is the point the process has reached.                           *)
(*                                                                         *)
(* What is outside: the file system, which may change the file between two *)
(* calls; the host's two streams, which may be closed at any time; clap;   *)
(* and std's BufWriter.  A stream and std's own line buffer before it are  *)
(* taken as one.                                                           *)
(***************************************************************************)
EXTENDS Trace

S == INSTANCE SequencesExt

CONSTANTS
    Files,                              \* what the path may name
    MAX_ELF_BYTES,                      \* sanity bound on the image
    CAPACITY                            \* of each BufWriter, in units

Stream == {"uart", "trace"}             \* to stdout and to stderr

(* there, readable: do metadata() and read() succeed; len: the length that *)
(* metadata() gives, which for a device is not what read() gets.           *)
File == [there : BOOLEAN, readable : BOOLEAN, len : Nat, image : Images]

(* The one byte an instruction sends, and a line of the trace, fit.        *)
ASSUME CliAssumption ==
    /\ Files \subseteq File
    /\ CAPACITY \in [Stream -> Nat] /\ CAPACITY["uart"] > 1 /\ CAPACITY["trace"] > 2

VARIABLES
    stage,                              \* where the process is
    args,                               \* "invalid", "help", "run" or "run_trace"
    file,                               \* what the path names
    buffer, host,                       \* per stream: the BufWriter, what has left it
    closed,                             \* streams that take no more
    retryable,                          \* may a write fail that would succeed later?
    exit,                               \* the exit code
    sent                                \* history: the bytes the run has reported

given == <<args, retryable>>            \* what the process is started with
cliVars == <<stage, args, file, buffer, host, closed, retryable, exit, sent>>
vars == <<machineVars, cliVars>>

(* mod exit; and the codes of clap's usage errors and of a Rust panic. *)
OK == 0
USAGE == 1
BUDGET == 2
FAULT == 3
ClapUsage == 2
Panic == 101
NoExit == 256

(* What the process says about itself. *)
Message(about) == [object |-> FALSE, about |-> about]

Exit(code) == stage' = "exit" /\ exit' = code

-----------------------------------------------------------------------------
(* A write that stream s refuses: it has been closed, or cannot be written *)
(* to just now (a full disk, a pipe in non-blocking mode).                 *)
Refuses(s) ==
    \/ closed' = closed \cup {s}
    \/ retryable /\ s \notin closed /\ UNCHANGED closed

(* BufWriter::flush_buf(): the stream takes k units of the buffer, and     *)
(* `rest' is what the buffer holds afterwards.  It fails when the stream   *)
(* does not take everything.                                               *)
Taken(s, k) == k = Len(buffer[s])

FlushBuf(s, k, rest) ==
    /\ s \in closed => k = 0
    /\ host' = [host EXCEPT ![s] = @ \o SubSeq(buffer[s], 1, k)]
    /\ buffer' = [buffer EXCEPT ![s] = rest]
    /\ \/ Taken(s, k) /\ UNCHANGED closed
       \/ ~ Taken(s, k) /\ Refuses(s)

Left(s, k) == SubSeq(buffer[s], k + 1, Len(buffer[s]))
Prefixes(s) == 0 .. Len(buffer[s])

(* Mutant: what fits behind the units that are stuck is kept. *)
WriteWhatFits(s, units) ==
    \E k \in Prefixes(s) :
        LET all == Left(s, k) \o units
            fits == Min({CAPACITY[s], Len(all)})
        IN  FlushBuf(s, k, SubSeq(all, 1, fits))

(* Mutant: the buffer grows while the stream takes nothing. *)
WriteInAnyCase(s, units) == \E k \in Prefixes(s) : FlushBuf(s, k, Left(s, k) \o units)

(* `let _ = write_all(units)': a write that does not fit behind what is    *)
(* buffered empties the buffer first, and is dropped if that fails.        *)
WriteAll(s, units) ==
    \/ /\ Len(buffer[s]) + Len(units) <= CAPACITY[s]
       /\ buffer' = [buffer EXCEPT ![s] = @ \o units] /\ UNCHANGED <<host, closed>>
    \/ /\ Len(buffer[s]) + Len(units) > CAPACITY[s]
       /\ \E k \in Prefixes(s) :
             FlushBuf(s, k, IF Taken(s, k) THEN units ELSE Left(s, k))

(* eprintln!: stderr has no buffer; it panics when the write fails. *)
Eprintln(message) ==
    /\ \/ /\ "trace" \notin closed /\ UNCHANGED closed
          /\ host' = [host EXCEPT !["trace"] = Append(@, message)]
       \/ Refuses("trace") /\ UNCHANGED host
    /\ UNCHANGED buffer

Printed == host' # host

-----------------------------------------------------------------------------
(* main(): clap parses the command line. *)
Parse ==
    /\ stage = "parse"
    /\ \/ args = "invalid" /\ Exit(ClapUsage)
       \/ args = "help" /\ Exit(OK)
       \/ args \in {"run", "run_trace"} /\ stage' = "stat" /\ UNCHANGED exit
    /\ UNCHANGED <<machineVars, given, sent, file, buffer, host, closed>>

(* read_image(): the limit is checked on the metadata. *)
Stat ==
    /\ stage = "stat"
    /\ stage' = IF file.there /\ file.len <= MAX_ELF_BYTES THEN "read" ELSE "complain"
    /\ UNCHANGED <<machineVars, given, sent, file, buffer, host, closed, exit>>

(* Somebody else writes, replaces or removes the file in between. *)
FileChanges ==
    /\ stage = "read"
    /\ file' \in Files
    /\ UNCHANGED <<machineVars, stage, given, sent, buffer, host, closed, exit>>

ReadFails ==
    /\ stage = "read" /\ ~ (file.there /\ file.readable)
    /\ stage' = "complain"
    /\ UNCHANGED <<machineVars, given, sent, file, buffer, host, closed, exit>>

ReadImage ==
    /\ stage = "read" /\ file.there /\ file.readable
    /\ StartLoadElf /\ image' = file.image
    /\ stage' = "load"
    /\ UNCHANGED <<given, sent, file, buffer, host, closed, exit>>

Loading ==
    /\ stage = "load" /\ LoadElf
    /\ UNCHANGED cliVars

Loaded ==
    /\ stage = "load" /\ ~ loading
    /\ \/ outcome.kind = "Ok" /\ StartRun /\ stage' = "run"
       \/ outcome.kind # "Ok" /\ stage' = "complain" /\ UNCHANGED machineVars
    /\ UNCHANGED <<given, sent, file, buffer, host, closed, exit>>

-----------------------------------------------------------------------------
(* impl Observer for Streams: what it does of a call the run makes. *)
Observe(event) ==
    \/ /\ event.call = "on_uart_tx" /\ WriteAll("uart", event.bytes)
       /\ sent' = sent \o event.bytes
    \/ /\ event.call = "on_step" /\ args = "run_trace" /\ WriteAll("trace", Line(event))
       /\ UNCHANGED sent
    \/ event.call = "on_step" /\ args = "run" /\ UNCHANGED <<buffer, host, closed, sent>>

(* Mutant: a closed pipe ends the run. *)
RunUntilPipeCloses ==
    /\ stage = "run"
    /\ \/ closed = {} /\ Running
       \/ closed # {} /\ UNCHANGED machineVars
    /\ \/ log' = log /\ UNCHANGED <<buffer, host, closed, sent>>
       \/ log' # log /\ Observe(log'[Len(log')])
    /\ stage' = IF closed # {} \/ control' = "host" THEN "flush" ELSE "run"
    /\ UNCHANGED <<given, file, exit>>

(* machine.run(): each step of it makes at most one call. *)
RunFirmware ==
    /\ stage = "run" /\ Running
    /\ \/ log' = log /\ UNCHANGED <<buffer, host, closed, sent>>
       \/ log' # log /\ Observe(log'[Len(log')])
    /\ stage' = IF control' = "host" THEN "flush" ELSE "run"
    /\ UNCHANGED <<given, file, exit>>

(* Mutant: flushes again and again until the stream takes everything. *)
FlushOrRetry(s, from, to) ==
    /\ stage = from
    /\ \E k \in Prefixes(s) :
          FlushBuf(s, k, Left(s, k)) /\ stage' = IF Taken(s, k) THEN to ELSE from
    /\ UNCHANGED <<machineVars, given, sent, file, exit>>

(* Mutant: the result of the flush is dropped, as those of the writes are. *)
FlushOrIgnore(s, from, to) ==
    /\ stage = from
    /\ \E k \in Prefixes(s) : FlushBuf(s, k, Left(s, k)) /\ stage' = to
    /\ UNCHANGED <<machineVars, given, sent, file, exit>>

(* Mutant: the writer is left to its drop. *)
LeaveUnflushed(s, from, to) ==
    /\ stage = from /\ stage' = to
    /\ UNCHANGED <<machineVars, given, sent, file, buffer, host, closed, exit>>

(* flush()?: an error leaves run(). *)
FlushOrLeave(s, from, to) ==
    /\ stage = from
    /\ \E k \in Prefixes(s) :
          FlushBuf(s, k, Left(s, k)) /\ stage' = IF Taken(s, k) THEN to ELSE "drop_uart"
    /\ UNCHANGED <<machineVars, given, sent, file, exit>>

Flush ==
    \/ FlushOrLeave("uart", "flush", "flush_trace")
    \/ FlushOrLeave("trace", "flush_trace", "report")

(* On the way out `sink' is dropped, and each BufWriter tries once more,   *)
(* without a word if it fails.  (After two flushes there is nothing left.)  *)
DropWriter(s, from, to) ==
    /\ stage = from /\ stage' = to
    /\ \E k \in Prefixes(s) : FlushBuf(s, k, <<>>)
    /\ UNCHANGED <<machineVars, given, sent, file, exit>>

DropSink ==
    \/ DropWriter("uart", "drop_uart", "drop_trace")
    \/ DropWriter("trace", "drop_trace", "complain")

(* Mutant: only a fault is told apart. *)
FaultOrOk(reason) == IF reason \in Fault THEN FAULT ELSE OK

(* exit_code(). *)
ExitCode(reason) ==
    CASE IsClean(reason) -> OK
      [] reason = "StepBudgetExhausted" -> BUDGET
      [] reason \in Fault -> FAULT

(* report(): a summary, and a second message for a fault. *)
Report ==
    /\ stage = "report"
    /\ Eprintln(Message("summary"))
    /\ \/ ~ Printed /\ Exit(Panic)
       \/ Printed /\ summary.halt_reason \in Fault /\ stage' = "report_fault" /\ UNCHANGED exit
       \/ Printed /\ summary.halt_reason \notin Fault /\ Exit(ExitCode(summary.halt_reason))
    /\ UNCHANGED <<machineVars, given, sent, file>>

ReportFault ==
    /\ stage = "report_fault"
    /\ Eprintln(Message("fault"))
    /\ Exit(IF Printed THEN ExitCode(summary.halt_reason) ELSE Panic)
    /\ UNCHANGED <<machineVars, given, sent, file>>

(* main() on an error of run(). *)
Complain ==
    /\ stage = "complain"
    /\ Eprintln(Message("error"))
    /\ Exit(IF Printed THEN USAGE ELSE Panic)
    /\ UNCHANGED <<machineVars, given, sent, file>>

-----------------------------------------------------------------------------
CliInit ==
    /\ MachineInit
    /\ stage = "parse" /\ args \in {"invalid", "help", "run", "run_trace"}
    /\ file \in Files
    /\ buffer = [s \in Stream |-> <<>>] /\ host = [s \in Stream |-> <<>>]
    /\ closed = {} /\ retryable \in BOOLEAN /\ exit = NoExit /\ sent = <<>>

Process ==
    \/ Parse \/ Stat \/ ReadFails \/ ReadImage \/ Loading \/ Loaded
    \/ RunFirmware \/ Flush \/ DropSink \/ Report \/ ReportFault \/ Complain

CliNext == Process \/ FileChanges

(* The process is one thread that waits for nobody but the host's streams, *)
(* which take what they are given or refuse it.                            *)
CliSpec == CliInit /\ [][CliNext]_vars /\ WF_vars(Process)

-----------------------------------------------------------------------------
CliTypeOK ==
    /\ args \in {"invalid", "help", "run", "run_trace"} /\ closed \subseteq Stream
    /\ exit \in {OK, USAGE, BUDGET, FAULT, Panic, NoExit} /\ (exit # NoExit <=> stage = "exit")
    /\ \A s \in Stream : Len(buffer[s]) <= CAPACITY[s]

RunEnded == runs = 1 /\ exit # NoExit

(* Write errors are dropped one by one and only the last flush is looked   *)
(* at, yet a stdout that is closed for good is never passed over: what has *)
(* come out is at any time the first bytes sent, and it is all of them     *)
(* when the exit code is one of the firmware's.                            *)
OutputIsExactUnlessReported ==
    ~ retryable =>
    /\ S!IsPrefix(host["uart"], sent)
    /\ RunEnded /\ exit \in {OK, BUDGET, FAULT} => host["uart"] = sent

(* stderr is the trace and then the messages: one object per line, in      *)
(* order, none torn or run into the next, whatever writes fail in between  *)
(* (a line that cannot be written is missing as a whole); only the last    *)
(* one may be cut short.                                                   *)
TraceLinesAreWhole ==
    LET units == host["trace"]
        lines == {k \in DOMAIN units : "about" \notin DOMAIN units[k]}
    IN  /\ \A k \in lines : 1 .. k \subseteq lines /\ (units[k].object <=> k % 2 = 1)
        /\ \A j, k \in lines :
              j < k /\ units[j].object /\ units[k].object => units[j].step < units[k].step

(* The objects among units of stderr. *)
Objects(units) ==
    {k \in DOMAIN units : "about" \notin DOMAIN units[k] /\ units[k].object}

(* What a reader of stderr can rely on, whatever has been lost before or   *)
(* after: two lines with neighbouring numbers are neighbouring instructions *)
(* of one run of the machine.                                              *)
StderrIsReplayable ==
    LET units == host["trace"] IN
    \A j, k \in Objects(units) :
        units[k].step = units[j].step + 1 => Follows(units[k], units[j])

(* The summary on stderr is borne out by what came before it: when the     *)
(* exit code is one of the firmware's, as many bytes have come out as it    *)
(* says were transmitted, and the trace has a line for each of its steps,  *)
(* although the result of each single write was dropped.                   *)
SummaryIsBorneOut ==
    ~ retryable /\ RunEnded /\ exit \in {OK, BUDGET, FAULT} =>
        /\ Len(host["uart"]) = summary.bytes_transmitted
        /\ args = "run_trace" =>
              {host["trace"][k].step : k \in Objects(host["trace"])} = 1 .. summary.steps

(* The comment at main.rs:100: when the summary appears, no byte of the    *)
(* firmware's and no line of the trace is still to come.                   *)
SummaryComesLast ==
    (\E k \in DOMAIN host["trace"] : host["trace"][k] = Message("summary"))
        => \A s \in Stream : buffer[s] = <<>>

(* No failure to read, load or write makes a run look better than it was:  *)
(* the codes that speak of the firmware are given only to one that has run  *)
(* and ended so.  (clap's 2 for bad arguments is not the firmware's, and   *)
(* is told apart by the arguments.)                                        *)
ExitCodeNeverFlatters ==
    exit # NoExit /\ args \in {"run", "run_trace"} =>
        /\ exit = OK => runs = 1 /\ IsClean(summary.halt_reason)
        /\ exit = BUDGET => runs = 1 /\ summary.halt_reason = "StepBudgetExhausted"
        /\ exit = FAULT => runs = 1 /\ summary.halt_reason \in Fault

(* The comment at main.rs:140, of a process no write of which has been     *)
(* refused: the exit code reflects the firmware, and nothing it sent is    *)
(* missing.                                                                *)
NothingRefusedNothingHidden ==
    RunEnded /\ closed = {} /\ ~ retryable =>
        /\ exit = CASE summary.halt_reason \in {"Returned", "SpinLoop"} -> OK
                    [] summary.halt_reason = "StepBudgetExhausted" -> BUDGET
                    [] summary.halt_reason \in Fault -> FAULT
        /\ host["uart"] = sent

(* The comment at main.rs:139: a closed pipe does not change what the      *)
(* emulated CPU does, nor does it keep it from going on to the run's end.  *)
MachineUndisturbed ==
    MachineInit /\ [][MachineNext]_machineVars /\ [](exit # NoExit => Idle)

(* Each step of the process takes it on to a later stage, or brings the    *)
(* call it is in, to the loader or the machine, nearer to its return: no   *)
(* stream can send it round in a circle.                                   *)
Ahead == [parse |-> 12, stat |-> 11, read |-> 10, load |-> 9, run |-> 8, flush |-> 7,
          flush_trace |-> 6, report |-> 5, report_fault |-> 4, drop_uart |-> 3,
          drop_trace |-> 2, complain |-> 1, exit |-> 0]

CommandAdvances ==
    [][ UNCHANGED file =>
            \/ Ahead[stage'] < Ahead[stage]
            \/ stage' = stage /\ CallWork' \in 0 .. CallWork - 1 ]_vars

(* The process exits, whatever the firmware and the streams do. *)
CommandEnds == <>(stage = "exit")

-----------------------------------------------------------------------------
(* The comment at main.rs:140: with a closed pipe, the exit code still     *)
(* reflects the firmware.                                                  *)
ExitCodeReflectsFirmware == RunEnded => exit = ExitCode(summary.halt_reason)

(* The comment at main.rs:6: stdout gets exactly the bytes the firmware    *)
(* transmitted; when the exit code says that nothing went wrong, it has.   *)
StdoutIsExact == RunEnded /\ exit = OK => host["uart"] = sent
=============================================================================
