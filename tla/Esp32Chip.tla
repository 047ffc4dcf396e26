----------------------------- MODULE Esp32Chip ------------------------------
(***************************************************************************)
(* The machine the program is: the address map, registers and sentinel of  *)
(* crates/simulatr-core/src/soc/esp32.rs and cpu/core.rs, bytes of eight   *)
(* bits, and the Xtensa decoder for the core's.  The theorems about Bus,   *)
(* Cpu, Loader and Machine hold under assumptions on their constants; here *)
(* the code's own constants are shown to meet them.                        *)
(***************************************************************************)
EXTENDS XtensaProofs

CONSTANTS
    BitAnd(_, _), BitOr(_, _), BitXor(_, _),
    RamImages, Entries, Images, USIZE, Budgets, HostStores,
    MAX_STEPS, MAX_LOADS, MAX_RUNS, MAX_HOST_STORES

VARIABLES
    ram, uart, regs, pc, steps, halt,
    loading, image, index, segments, bytes, outcome, loads, before,
    control, budget, summary, log, runs, hostStores, owed, started, delivered

\* Hexadecimal in the source, which is quoted beside each.
Chip == INSTANCE Machine WITH
    BYTE <- 256,
    IRAM_BASE <- 1074266112,            \* 0x4008_0000
    IRAM_SIZE <- 131072,                \* 0x0002_0000
    DRAM_BASE <- 1073414144,            \* 0x3FFB_0000
    DRAM_SIZE <- 196608,                \* 0x0003_0000
    PERIPHERAL_BASE <- 1072693248,      \* 0x3FF0_0000
    PERIPHERAL_SIZE <- 524288,          \* 0x0008_0000
    UART0_BASE <- 1072955392,           \* 0x3FF4_0000
    UART_REGS_SIZE <- 128,              \* 0x80
    FIFO <- 0,
    STATUS <- 28,                       \* 0x1C
    NREGS <- 16,
    HALT_ADDRESS <- 3735928544,         \* 0xDEAD_BEE0
    PHDR_SIZE <- 32,
    DecodeInst <- Decode

LEMMA ChipSpace == Chip!WORD = 4294967296
  BY SMT DEF Chip!WORD

LEMMA ChipWord == Chip!Word = 0 .. Chip!WORD - 1
  BY SMT DEF Chip!Word

(* The address map of the chip is one the bus works for: regions of whole  *)
(* words, apart from each other, with UART0 inside the peripheral window,  *)
(* and nothing right behind a RAM region that a load could run on into.    *)
THEOREM ChipMap ==
    /\ Chip!ByteAssumption
    /\ Chip!MapAssumption
    /\ Chip!DisjointAssumption
    /\ Chip!RegisterAssumption
    /\ Chip!StackAssumption
    /\ Chip!GapAssumption
  BY ChipSpace, SMT
  DEF Chip!ByteAssumption, Chip!MapAssumption, Chip!DisjointAssumption,
      Chip!RegisterAssumption, Chip!StackAssumption, Chip!GapAssumption,
      Chip!WholeWords, Chip!Disjoint, Chip!WrapAdd

LEMMA BeyondWindow ==
    ASSUME NEW base \in Int, NEW size \in Int, NEW addr \in Int, addr >= base + size
    PROVE  addr \notin Chip!Window(base, size)
  BY SMT DEF Chip!Window

(* The sentinel in a0 is where the comment on HALT_ADDRESS says: outside   *)
(* every mapped region, so no return to it can be taken for a fetch.       *)
THEOREM ChipSentinel == Chip!RegisterFileAssumption /\ Chip!HaltAddressAssumption
<1>1. 3735928544 \in Chip!Word
  <2>1. Chip!WORD \in Int /\ 3735928544 < Chip!WORD  BY ChipSpace, SMT
  <2> QED BY <2>1, SMT DEF Chip!Word
<1>2. /\ 3735928544 \notin Chip!Window(1074266112, 131072)
      /\ 3735928544 \notin Chip!Window(1073414144, 196608)
      /\ 3735928544 \notin Chip!Window(1072693248, 524288)
  BY BeyondWindow, SMT
<1>3. Chip!RegisterFileAssumption
  BY SMT DEF Chip!RegisterFileAssumption
<1> QED BY <1>1, <1>2, <1>3, SMT DEF Chip!HaltAddressAssumption

(* On 32-bit words the Xtensa decoder is one the core works for.           *)
THEOREM ChipDecoder ==
    ASSUME WORD = Chip!WORD
    PROVE  Chip!DecoderAssumption
<1>1. Chip!Word = Word /\ Chip!Reg = Reg
  <2>1. Chip!Word = Word  BY ChipWord, Zenon DEF Word
  <2> QED BY <2>1, SMT DEF Chip!Reg, Reg
<1>2. /\ Chip!LoadKind = LoadKind /\ Chip!StoreKind = StoreKind /\ Chip!AluOp = AluOp
      /\ Chip!Cond = Cond /\ Chip!ZeroCond = ZeroCond
  BY SMT DEF Chip!LoadKind, LoadKind, Chip!StoreKind, StoreKind, Chip!AluOp, AluOp,
             Chip!Cond, Cond, Chip!ZeroCond, ZeroCond
<1>3. Chip!Inst = Inst
  BY <1>1, <1>2, SMT DEF Chip!Inst, Inst, Chip!InstOver, InstOver
<1>4. Chip!Undecodable = Undecodable
  BY SMT DEF Chip!Undecodable, Undecodable, Chip!Illegal, Illegal,
             Chip!Unsupported, Unsupported
<1>5. Chip!Weight(2) = 65536 /\ Chip!Weight(3) = 16777216
  BY SMT DEF Chip!Weight
<1>6. ASSUME NEW n \in {2, 3}, NEW w \in 0 .. Chip!Weight(n) - 1
      PROVE  w \in Nat
  BY <1>5, SMT
<1> QED BY <1>1, <1>3, <1>4, <1>6, DecodeIsTotal, SMT DEF Chip!DecoderAssumption
=============================================================================
