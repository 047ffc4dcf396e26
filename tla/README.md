# simulatr in TLA+

A verification project for `mohakco/simulatr`, a deterministic simulator of an
ESP32-class microcontroller written in Rust: an Xtensa LX core (Call0 ABI, the
instructions of Phase 1), two RAM regions, one UART, an ELF loader, a run loop with a
step budget, and a command line around them. The code is single-threaded: what makes it
hard is not concurrency but width, wrap-around, order and partial failure, in an
interpreter whose input (an image, and the code in it, which may rewrite itself) is
arbitrary. Only the command line meets a world that acts by itself: files and pipes.

Paths below are relative to `src/crates/simulatr-core/src` unless they say otherwise.

## 1. Inventory

| Component | Code | State | Operations | Interacts with |
|---|---|---|---|---|
| SoC profile | `soc/esp32.rs` | none (constants) | `decode`, `initial_stack_pointer` | called by the bus on every access, by `load_elf` |
| Memory bus | `mem/bus.rs` | two byte arrays, the UART | `read8/16/32`, `write8/16/32`, `write_block`, `zero_block` | called by core, loader, host (`bus_mut`) |
| UART | `periph/uart.rs` | queue of pending bytes, total | `write_reg`, `read_reg`, `pending`, `take_pending`, `transmitted` | written through the bus, drained by the run loop |
| ELF loader | `load/elf.rs` | none of its own; writes RAM | `load` | block operations of the bus |
| Decoder | `cpu/decode.rs` | none | `instruction_size`, `decode` | called by the core |
| CPU core | `cpu/core.rs` | 16 registers, pc, step count, halt reason | `new`, `reset`, `step`, `halt_with` | fetches, loads and stores through the bus |
| Machine | `machine.rs` | owns core and bus | `new`, `load_elf`, `bus_mut`, `run` | drives the core, drains the UART, calls an `Observer` |
| Trace | `trace.rs` | none | `write_json_line` | what the command line's observer writes of an instruction |
| Command line | `src/crates/simulatr-cli/src/main.rs` | the image, a `Machine`, two `BufWriter`s whose write errors are dropped, an exit code | `read_image`, `run`, the `Observer` `Streams`, `report`, `exit_code` | Machine, files, stdout/stderr |
| Later phases | `src/docs/PLAN.md` | - | - | no code yet: orchestrator, network, snapshots |

Interaction is by plain calls down a tree of owned values: Machine owns core and bus, the
bus owns the UART. The one callback is the `Observer`; the UART queues bytes and the run loop collects
them. So the shared state is RAM (written by loader, core and host, read by fetch) and
the UART queue (pushed by core and host, taken by the run loop).

What is hard in it, and what makes each component correct (`PROJECT.json` lists every
hazard at its line):

* **Bus and profile**: one subtraction with wrap-around tests both ends of a region;
  alignment, map and overrun are tested in an order; sub-word and little-endian access.
  Correct when it is one flat memory and one output stream.
* **UART**: pushes and drains in any sequence neither lose, repeat nor reorder a byte,
  and the running total agrees.
* **Loader**: a loop with eight ways out of which some leave RAM half written; file part
  and `.bss` tail are placed by two calls at addresses computed apart; two loads in a row
  share RAM. Correct when RAM is at each point the old RAM overlaid by the segments in
  table order, and `Ok` is returned for exactly the images whose segments fit.
* **Decoder**: fields overlap, immediates have special encodings, four ways to compute a
  PC-relative address, each wrapping. Correct when no two readings of a word are mixed
  up: decoding can be undone.
* **Core**: three things can fail inside one instruction after part of it is done; the
  sentinel and the spin test, each in its place; self-modifying code. Correct when faults
  are precise, one instruction has one effect, and each halt reason means what it says.
* **Machine**: a budget compared with a count that outlives runs; two drains; a load that
  fails after overwriting the program. Correct when every byte sent is reported to one
  observer call, budgets hold, runs return, and a failed load leaves the core alone.
* **Trace**: the line is written after the instruction has changed the machine, from a
  record and the registers. Correct when a reader can replay the run from the lines alone,
  also of firmware that rewrites itself.
* **Command line**: either stream may take part of what it is given, refuse now and take
  later, or be closed at any write; results of writes are dropped and those of flushes are
  not; the file may change between the size check and the read. Correct when no failure is
  hidden by an exit code that looks better than the run was, what comes out of a stdout
  that is not merely busy is exact, and no line of the trace is torn or run into another.

## 2. Modules

| Module | Models | Built on |
|---|---|---|
| `Esp32` | address map, wrapping arithmetic, `decode`, initial stack pointer | - |
| `Bus` | `Bus` and `Uart`: results and effects of every call | `Esp32` |
| `Memory` | **abstract**: one flat byte memory and one output stream | `Esp32` |
| `BusCalls` | any sequence of calls to the bus; refines `Memory` | `Bus` |
| `Loader` | `elf::load`, one action per outcome of a loop iteration | `Bus` |
| `Instructions` | `enum Inst` and its operand enums, shared by decoder and core | - |
| `Xtensa` | `decode`, table by table and bit field by bit field | `Instructions` |
| `Cpu` | `Cpu`: reset, step (fetch, decode, execute, retire), halts | `Bus`, `Instructions` |
| `Observation` | **abstract**: what a run tells its `Observer` | - |
| `Machine` | `load_elf`, `bus_mut`, `run`; composes `Cpu` and `Loader` on one bus; refines `Observation` | `Cpu`, `Loader` |
| `Trace` | `write_json_line` as the fields of a line, and a reader that has nothing else | `Machine` |
| `Cli` | the process: `main`, `run`, `read_image`, `Streams`, `report`, `exit_code`, and the streams it writes to | `Trace` |
| `BusLemmas`, `BusCallsProofs`, `CpuProofs`, `LoaderProofs`, `MachineProofs`, `CliProofs`, `XtensaProofs` | theorems and proofs | the modules they name, and each other: bus, then core and loader, then machine, then command line |
| `Esp32Chip` | the machine with the constants of the code, and theorems that they meet the assumptions | `Machine`, `XtensaProofs` |
| `MC*` | instances for TLC | the modules they name |

### How state and actions correspond to the code

* **Scale.** A byte has `BYTE` values and a word is four of them, `WORD = BYTE^4`. The
  code is `BYTE = 256`; TLC checks `BYTE = 4`, where the whole address space has 256
  addresses and every carry, wrap and sub-word case of the real one is still there. The
  map (`IRAM_BASE`, ...) is a parameter under assumptions that the constants of
  `esp32.rs` meet: regions of whole, aligned words, disjoint, inside the address space.
  The proofs hold for every `BYTE` and every such map; `Esp32Chip` proves that the map of
  the code is one.
* **Results and effects.** A fallible call is a state function for its `Result`
  (`LoadReply`, `StoreReply`, `BlockReply`, `FetchReply`) and an action for its effect
  (`Store`, `WriteBlock`). The order of the tests in a reply is the order in the code.
* **Bus** `ram.Iram`/`ram.Dram` are the two arrays, `uart.tx`/`uart.transmitted` the two
  fields of `Uart`. `BusCalls` adds two histories: the last reply, and all bytes taken.
* **Loader.** One step is one iteration of the loop over program headers (or the header
  checks, or the end). `index`, `segments`, `bytes` are the loop variable and the
  `LoadResult` counters; `before` is history: RAM when the load began. The ELF header is
  abstracted to the set of checks it fails and the fields that are used; the checks
  report the first failure in their order. Sums of `usize` wrap modulo `USIZE`, as in a
  release build (a debug build panics instead); `PHDR_SIZE` is the 32 bytes of a table
  entry, and `ImageAssumption` says that an image is a file of the host: shorter than
  `USIZE`.
* **Core.** `regs`, `pc`, `steps`, `halt` are the fields of `Cpu` (`"None"` for `None`).
  One `Step` is one call of `step()`; it is the disjunction of its four ways out.
  The decoder is the operator constant `DecodeInst`, with the only assumption that it
  returns an instruction or a refusal; `Xtensa` shows that the real one does. (The
  `\E i \in {Decoded}` in `ExecuteAt` has one choice: it is there so that TLC decodes once.)
* **Decoder.** Shifts and masks are `\div` and `%`. `DecoderSpec` feeds it inputs; `WORD`
  is a parameter because TLC's integers have 32 bits.
* **Mnemonics.** `Inst` does not keep the opcode, so `mnemonic()` finds the name again
  from operation, operands and size; `Mnemonic` in `Instructions` does the same.
* **Machine.** `control` is the point the loop of `run` has reached (`host`, `loop`,
  `drain`, `final`), `log` the observer's calls of this run, `budget` and `summary` its
  argument and result; `owed`, `started`, `delivered` are histories. Calls are not atomic
  in the model, but no other call starts before one returns (`Idle`), as `&mut self`
  guarantees. `StepEvent` is what `on_step` is given: the count and the registers after
  the instruction, the `Executed` record of before it.
* **Trace.** A line is two units: the object (its fields, not their digits) and the
  newline. `Read`, `NextPc` and `Written` are the reader, who decodes `raw` at `pc`.
* **Command line.** `stage` is the point `main` and `run` have reached:

  | `stage` | Code | Next |
  |---|---|---|
  | `parse` | clap | `exit` (help, usage), `stat` |
  | `stat`, `read` | `read_image`: `metadata` and the limit, then `read` | `read`, `load`, `complain` |
  | `load` | `load_elf` | `run`, `complain` |
  | `run` | `machine.run` with `Streams` observing | `flush` |
  | `flush`, `flush_trace` | the two `flush()?` | `report`, or `drop_uart` on an error |
  | `report`, `report_fault` | the summary, then the fault's message | `exit` |
  | `drop_uart`, `drop_trace` | `sink` is dropped with its `BufWriter`s | `complain` |
  | `complain` | `main` prints the error | `exit` |

  `buffer[s]` is what a `BufWriter` holds, `host[s]` what has left the process, `closed`
  the streams that take no more; `retryable` says whether a write can fail that would
  succeed later. `FlushBuf` lets the stream take any number of units first, `WriteAll` is
  `write_all` of a `BufWriter` (it empties the buffer when the units do not fit behind it,
  and drops the units when that fails), `DropWriter` the flush in its `drop`. `file` may be
  replaced between `stat` and `read` (`FileChanges`). `sent` is history: the bytes the run
  has reported. `exit = NoExit` while the process runs; a failed `eprintln!` is a panic.

## 3. Runs

All instances use `BYTE = 4` (256 addresses): peripherals at 64..95 with UART0 at 80..87
(FIFO at 80, STATUS at 84), DRAM at 112, IRAM at 160. Between the regions lie unmapped
addresses; IRAM and DRAM are not adjacent, as in `esp32.rs`.

| Run | Asks | Bounds |
|---|---|---|
| `bus_calls` | is the bus `Memory`, and is the total exact, for any sequence of calls? | one word per region, 10 addresses (both ends, odd and even, FIFO, STATUS, unmodelled, top of the space), 2 values, 2 blocks, `TX_MAX` = 2 bytes sent |
| `loader` | overlay, acceptance, error attribution, termination | 2 words per region, `MAX_LOADS` = 2 loads in a row of 142 images of at most 2 segments over a 4-byte file; `USIZE` = 256, with offsets whose sums wrap |
| `decoder` | lossless decoding, reach of targets, refusal of windowed code, narrow forms as synonyms, mnemonics, typing | 67584 words: every `op0`, `t`, `r`; `s` and third byte at the ends of their ranges; 4 pcs in all alignments at both ends of a space of 2^22 addresses |
| `cpu` | precise faults, meaning of halts, one effect per instruction | 3 registers, every pair of words of a table that has every variant of `Inst`, 3 entries, `MAX_STEPS` = 5 |
| `machine` | output conserved, prompt and as the trace foretells, budgets, a true summary, observer protocol, a trace that can be replayed, failed loads; is each call bounded, does every run return? | 7 images, among them firmware that prints, spins, faults after printing, loops for ever, or rewrites the instruction it is at, and an image that is placed by half, `MAX_LOADS` = 2, `MAX_RUNS` = 2, budgets 0, 2, 5, `MAX_HOST_STORES` = 1 |
| `cli` | are exit code, stdout, stderr and the summary right whatever the streams and the file do, and is nothing hidden when nothing was refused; does the process exit and let the machine alone? | 5 images in 9 files, budgets 5 and 20, `CAPACITY` = 2 bytes and 3 units of the trace, 3 bytes sent; one load and one run, as `main` makes |

`loader_second_load`, `decoder_literal`, `cpu_spin`, `machine_budget`, `cli_exit_code`
and `cli_stdout` each show one disagreement between code and comment (section 6).

Why the bounds are enough. *Bus*: an access touches at most four bytes of one region, so
one word per region with every offset shows every interaction of two calls; longer
sequences only repeat them. (The view leaves out `reply`, which no action reads; the
refinement is checked on every step all the same.) *Loader*: the loop's state is RAM, index and
counters; two segments show overlap in both orders, gap and failure after success, two
loads show what survives; sizes end exactly at, and one unit past, a region. *Core*:
programs of two arbitrary words and a return reach every pair of consecutive effects, and
branches into the middle of the bytes or stores over them reach instructions nobody wrote;
the properties relate neighbouring states. *Machine*: two runs and two loads in any order
are the least that show state left by one call to the next. *Command line*: three bytes
in a buffer of two, and lines of two units in a buffer of three, make every kind of write
happen: one that fits, one that empties the buffer first, one that finds it stuck, and a
line of which the stream takes a half. Each stream may refuse at every one of them.

Deadlock is not checked where the system really stops: the host makes a bounded number
of calls, a load returns, a program halts, the decoder has decoded its input. It is
checked in `bus_calls`, where some call is always possible. That a command cannot get stuck
before its exit is `CommandEnds`.

**Fairness.** `LoaderSpec` has weak fairness of `LoadStep`, `MachineSpec` of `LoadElf` and
of `Running`: each is a loop in the thread that made the call, with nothing to wait for,
so it goes on as long as it has a next iteration. There is no fairness of the host: it
need not call anything. `LoadReturns` and `RunReturns` use exactly that; the second holds
because `steps` grows with every instruction and the budget is finite, and its mutant (a
loop that looks neither at the halt nor at what `step()` returns) goes round without
taking a step. `LoadReturns` is simple: Rust's `for` moves on by itself, and its mutant is
the loop written as a `while` that does not count the segments it skips. `CliSpec` has
weak fairness of `Process`, one thread that waits for nobody but its two streams. It
assumes that a stream takes what it is given or refuses it; a reader that keeps a pipe
open and never reads blocks the process for ever, and is outside. Nothing is assumed of
whoever changes the file or closes a stream.

Properties worth knowing when reading the code:

* `BusIsFlatMemory`, `ObserverProtocol`: refinement of the two abstract modules.
* `RamIsOverlay`: also during a load and after one that failed half way.
* `AcceptsExactlyWellFormed`: the loader checks file part and tail apart and adds
  addresses with wrap-around, yet accepts only segments that lie whole in one region.
  This relies on a gap behind each region (`GapAssumption`, met by `esp32.rs`), or else a
  segment's file part could end one region and its tail start the other.
* `FirstLoadIsClean` (proved, in no run): what `elf.rs:185` promises of a second load holds
  of the first; the run `loader_second_load` shows that it stops there. It is about a machine whose RAM
  nobody has written: in `Machine` the host may store before it loads.
* `SpinLoopIsFixedPointUnlessCallA0`: a spin is a fixed point, except `callx0 a0`.
* `OneEffectPerInstruction`: one register, or one aligned word of RAM, or one byte sent.
* `PendingIsOneInstructionsWorth`, `OutputIsConserved`: at the final drain
  (`machine.rs:117`) only bytes that the host itself stored can be pending; those of an
  instruction have always been drained, and a fault sends none.
* `NarrowFormsAreSynonyms`, `MnemonicNamesTheWord`: `decode` has one table for two-byte and
  another for three-byte words, and the mnemonic is found without either; they agree.
* `TraceIsReplayable`: each object is the instruction the one before it leads to, on the
  registers that one left, and its word is one that executes under the name it gives, also
  where the instruction has rewritten that very word. (`callx0 a0` hides where it went:
  `LeadsTo`.)
* `TargetsInReach`: the reach of each PC-relative address, L32R's as it is: four bytes or more
  before the word boundary at or after the instruction. What the comment says of it is
  `LiteralPrecedesItsUse`, which `decoder_literal` refutes.
* `OutputFollowsTrace`: the lines also tell which bytes are sent, and the report of each
  stands right behind its line; only the first report of a run may bring more (what the
  host had stored).
* `SummaryIsTrue`: what the comments at `machine.rs:39` and `machine.rs:90` say, where it
  is so: `Returned` stops at the sentinel, `SpinLoop` at the instruction last reported, and
  an exhausted run that has executed anything has used its budget to the instruction, and
  was not at the sentinel.
* `CallsAreBounded` and `CommandAdvances` (the second proved, in no run): a measure that each step lowers, so calls and
  process do not only end, they end after a number of steps known when they begin.
* `OutputIsExactUnlessReported`: although each write's result is dropped, a stdout closed
  for good is never passed over, because what it has refused stays in the buffer and the
  last flush must fail on it. With `retryable` this is not so: `cli_stdout`.
* `TraceLinesAreWhole`: a dropped write drops a whole line, never half of one, because the
  code hands the writer an object with its newline at once.
* `StderrIsReplayable`: two lines on stderr with neighbouring numbers are neighbouring
  instructions, whatever has been lost around them.
* `SummaryIsBorneOut`: with an exit code of the firmware's, stdout has as many bytes as the
  summary says and, with `--trace`, stderr has a line for each of its steps.
* `NothingRefusedNothingHidden`: the comment at `main.rs:140` for a process no write of
  which has been refused (for others see `cli_exit_code`): its exit code is the
  firmware's, and everything sent is out.
* `SummaryComesLast`: the comment at `main.rs:100`. `ExitCodeNeverFlatters`: the codes of
  `exit_code` are given only to firmware that has run (clap's 2, for arguments it refuses,
  apart; see section 6). `MachineUndisturbed`: `MachineSpec`'s
  safety part is what the process makes of the machine, whatever the pipes do.

## 4. Theorems

Checked by TLAPS from the named assumptions on the constants (each evaluated by TLC in
some run), for every map, byte size, program, decoder, image, length of run and pattern of
writes taken and refused. Each safety property of a passing run is proved, and three more that no run repeats:
`ExhaustedOnlyAtBudget`, `FirstLoadIsClean`, `CommandAdvances`.

* **Bus** (`BusLemmas`, `BusCallsProofs`; `ByteAssumption`, `MapAssumption`,
  `DisjointAssumption`, `RegisterAssumption`, `CallAssumption`).
  `DecodeIsMap` shows that the wrapping test is membership of the window; with
  `AlignedFits` it gives `SingleAccessNeverOverruns`, the comment at `bus.rs:40`.
  `CallTyping`: `CallTypeOK` is inductive as it stands. `TransmittedIsExact`: the count
  is inductive together with it. `BusImplementsMemory`: under the mapping `mem <- FlatRam,
  sent <- taken \o uart.tx, handed <- Len(taken)` the initial states correspond and each
  call is a call of `Memory`, one lemma per kind of call.
* **Core** (`CpuProofs`; also `DecoderAssumption`, `HaltAddressAssumption`,
  `RegisterFileAssumption`, `BitwiseAssumption`, `StartAssumption`, `StackAssumption`).
  `CpuTyping`: a load of a width fits that width (`LoadReplyType`, by Horner's rule), so
  a fetched word is one the decoder accepts, and every destination and result is a word.
  `StepOutcome` and `ExecuteOutcome` split a step into return, fault or retirement;
  `FaultsArePrecise` and `ReturnedMeansSentinel` follow from it (both are inductive
  without the typing). `SpinLoopsAreFixedPoints`: what is fetched depends on RAM and pc
  only (`SameFetch`), and an instruction that returns to itself changes neither; it is
  inductive relative to `CpuTypeOK`, which gives that the next address differs from the
  current one. `OneEffectEach`: by cases on the instruction; a store stays in one word
  because it is aligned and regions are (`StoreEffect`).
* **Decoder** (`XtensaProofs`; `SpaceAssumption`: `WORD` is a multiple of
  2^20 and larger). `DecodeIsTotal`: for every word and pc the decoder returns an
  instruction over sixteen registers with word operands, or a refusal: what
  `DecoderAssumption` asks of it. `DecoderTyping` is the type invariant. `DecodedInv` says
  that the result is `Decode` of the word; the rest are facts of it. `DecodingIsLossless`
  goes table by table (`NarrowReassembles`, `QrstReassembles`, ...), `ReachIsBounded` by
  modular arithmetic (`WrapSum`, `DistanceIs`, `LiteralReach`, `CallReach`),
  `WindowedIsRefused` by the words concerned, `FormsAreSynonyms` through the fields of the
  wide form (`FieldsOfRri8`), `MnemonicsName` by table again.
* **Loader** (`LoaderProofs`; also `ImageAssumption`, `HostAddressAssumption`,
  `GapAssumption`). `LoaderInv` is the type invariant and that the loop reads only headers
  that are in the file. `SliceIsExact` and `HeaderIsExact`: the tests on wrapped sums let
  through exactly the slices that are in the file, for any width of `usize`.
  `LoadsLayOver`: `OverlayStep` adds one segment, through what a block write does to one
  byte (`CopiedBytes`, `PlacedBytes`). `AcceptanceIsExact` and `ErrorsNameFirst`: the
  invariant `ResultInv` says that every segment before `index` was in order; `PartsFit` is
  the argument about the gap. `FirstLoadFindsZeros`: `FreshInv` says that RAM is blank
  until a load begins and that the first load's `before` is; then it is `RamIsOverlay`.
* **Machine** (`MachineProofs`; also `HostAssumption`, `LoadsAssumption`). `MachineInv`
  joins the types of core, loader and bus. `OutputConservation` and `PendingBound` are
  inductive together (`OutputInv`), since an instruction sends at most one byte
  (`StepEffect`) and is followed by a drain. `BudgetInv` bounds the count while the loop
  runs. `MachineImplementsObservation`: each step of the machine is a step of
  `Observation` or stutters, where `LogInv` gives that the log is a sequence, so that its
  last call is the one appended. `TracesReplay` is inductive with the typing: `LineSays`
  gives, by cases on the instruction, where the line says control goes and what it says
  has been written, and that its name is that of its word; `ReplayedOneMore` adds a line to a trace that can be replayed.
  `OutputFollows`: `ToldInv` adds what is pending now (`WaitingIsTold`), since the line is
  logged one step before its bytes. `SummariesAreTrue`: `TruthInv` keeps, while the loop
  runs, that a core which has stopped spinning is at the instruction last logged
  (`LastIsAt`), which the final drain does not hide (`DrainNamesNoOther`); the rest is
  `ReturnedAtSentinel` and `BudgetInv`. `CallsHaveABound` is by cases on the step, with
  the type of `CallWork`. `CoreInTheMachine` and `LoaderInTheMachine`: what was proved of
  core and loader on their own holds in the machine, where either finds in RAM and
  registers whatever the other and the host have left; the invariants are the same, and
  the steps of the others keep them.
* **Command line** (`CliProofs`; also `CliAssumption`). `StageInv` ties `stage` to the
  machine: the one run lies between load and flush, and a code of the firmware is that of
  its summary; with `ProcessStepsMachine` it gives `PipesDoNotDisturb` and
  `ExitCodesAreHonest`. `StreamInv` bounds the buffers. What a call does to a stream is
  stated once (`WriteEffect`, `FlushEffect`, `DropEffect`, `EprintlnEffect`) in terms of
  `Through(s)`, the units out and those on their way. `OutputIsExact` rests on `OutInv`:
  until stdout is closed every byte sent is in `Through`; from then on the buffer cannot
  become empty, so the flush cannot succeed. `TraceIsWhole` rests on `TraceInv`: `Through`
  is whole lines with rising numbers, every prefix of such a sequence is one
  (`LinesOfPrefix`), and a message comes only behind an empty buffer. `SummaryIsLast`
  follows with `SummaryInv`. `StderrReplays`: `ReadInv` says it of all lines in `Through`, and while the
  run lasts that a line of the last step leads to the pc and registers the machine now
  has, so that the next one follows it, whatever has been dropped before. `SummaryHasProof`: `CountInv` bounds the lines by the steps, and
  `CompleteInv` says that until stderr is closed no line is missing from `Through`, and
  that afterwards its buffer cannot become empty. `NothingIsHidden`: `UnrefusedInv` says
  that a process without a closed stream takes no way out but the last (`ClosedStaysClosed`,
  `PrintedUnlessRefused`). `EveryStepAdvances` needs the typing of `CallWork`
  and that `load` and `run` end with their call. `MachineInTheCommand`: the invariants of
  the machine hold of the one in the process (`GuestInv`).
* **The chip** (`Esp32Chip`). `ChipMap`, `ChipSentinel`, `ChipDecoder`: with the addresses of
  `esp32.rs`, bytes of 256 values, the sentinel of `core.rs` and `Decode` for the decoder,
  the assumptions on map, registers, stack, gap, sentinel and decoder are theorems, so the
  results above are about the program and not about the instance that TLC checks. What
  stays assumed is what the host and Rust's types give: an image is a file shorter than
  the host's address space, a host address is at least as wide as a simulated one, host
  stores are calls of `Bus`, `BitAnd` and its like take words to words, and the buffers
  hold more than a byte and a line (`CliAssumption`).

Only model-checked: all liveness (`LoadReturns`, `RunReturns`, `CommandEnds`), which is
beyond the prover. What it rests on besides fairness is proved: `CallsHaveABound` and
`EveryStepAdvances` say that a measure falls; that a step is always enabled until then is
what TLC adds. Not listed separately: the properties of the `violation` runs, which are false.

## 5. Not modelled, or abstracted

* Text: the digits and quotes of the JSON, `Display` of errors, the wording of messages and
  of `--help`. Messages are told apart by what they are about.
* The bytes of the ELF header and how fields are read from it.
* The step counter and the UART total are `u64` in the code and naturals here: at one
  step per nanosecond 2^64 takes centuries.
* Of std: the `LineWriter` in `Stdout` is one with the stream behind it (what it holds may
  leave at any later time or never, as in a pipe); a `BufWriter`'s direct write of what is
  larger than its capacity cannot happen to one byte or one line (`CliAssumption`); a
  descriptor that is not open at all (`EBADF`) counts as written, as std has it. clap is
  its verdict on the arguments.
* `MAX_ELF_BYTES` bounds what `metadata()` said before the read (`main.rs:113`): a file that
  grows in between, or a device without a length, is read whole. The model reads what is
  there at the time; how much memory that takes is not in it.
* `lib.rs` (re-exports), example firmware (input), later phases (no code yet).

## 6. Findings

Each is a comment that the code does not bear out, shown by a run that TLC must find
violated.

* `loader_second_load`: `elf.rs:185` says a second load must not see the previous image's
  data; only `.bss` tails are cleared, so gaps and unused RAM keep it.
* `decoder_literal`: `decode.rs:473` (and `docs/PHASE1-NOTES.md:71`) gives L32R's reach as
  PC-262144 to PC-4, so that a literal always precedes its use. The offset counts from pc
  rounded up, so at a pc that is 1, 2 or 3 past a word boundary the nearest literal is at
  PC-1, PC-2 or PC-3: the word that the instruction itself begins in.
* `cpu_spin`: `core.rs:61` calls SpinLoop a fixed point; `callx0 a0` landing on itself is
  reported so although it has overwritten `a0` and would leave.
* `machine_budget`: `machine.rs:90` says a run lasts until a halt fires or the budget has
  retired; once a run is exhausted, a later one with a larger budget executes nothing and
  reports exhaustion again.
* `cli_exit_code`: `main.rs:139` says that with a closed pipe the exit code still reflects
  the firmware; `flush()?` at `main.rs:102` turns it into 1, before the report (and a closed
  stderr into 101, by the panic of `eprintln!`).
* `cli_stdout`: `main.rs:6` says that stdout gets exactly the bytes the firmware
  transmitted; a stdout that refuses once and takes later loses bytes from the middle, with
  exit code 0.

Remarks without a run of their own: `bus.rs:32` says `Unmapped` means that nothing known
covers the address, and a segment on UART0's registers is refused as `Unmapped`
(`bus.rs:198`); `machine.rs:39` says that `final_pc` is `HALT_ADDRESS` on a
clean exit, and `is_clean_exit` includes spin loops, where it is the loop's address
(`SummaryIsTrue` says what holds of each); exit
code 2 is both "budget exhausted" (`main.rs:61`) and clap's for a usage error.

## 7. Plan

Done, in this order: `Esp32`, `Bus`, `Memory`, `BusCalls` and their proofs; `Loader`;
`Instructions`, `Cpu`; `Observation`, `Machine`; `Xtensa` and its proofs; `CpuProofs`;
mnemonics, `Trace`, `Cli`; narrow `usize`; `LoaderProofs`, `MachineProofs`,
`CliProofs`; bounds, truth of the summary and of stderr; the components' theorems inside
the machine and the command; `Esp32Chip`.

Left: what a later phase of the simulator adds, when there is code for it (nodes and a
network between them, snapshots that are restored: the first real interleavings), and the
bytes of the ELF header, whose fields are taken as read.
