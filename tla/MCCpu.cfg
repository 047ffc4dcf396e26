SPECIFICATION CpuSpec
CONSTANTS
    BYTE = 4
    PERIPHERAL_BASE = 64
    PERIPHERAL_SIZE = 32
    UART0_BASE = 80
    UART_REGS_SIZE = 8
    DRAM_BASE = 112
    DRAM_SIZE = 16
    IRAM_BASE = 160
    IRAM_SIZE = 8
    FIFO = 0
    STATUS = 4
    NREGS = 3
    HALT_ADDRESS = 224
    IsNarrow <- MCIsNarrow
    DecodeInst <- MCDecodeInst
    BitAnd <- MCBitAnd
    BitOr <- MCBitOr
    BitXor <- MCBitXor
    RamImages <- MCRamImages
    Entries <- MCEntries
    MAX_STEPS = 5
INVARIANTS
    CpuTypeOK
    ReturnedAtSentinel
    SpinLoopIsFixedPointUnlessCallA0
PROPERTIES
    PreciseFault
    OneEffectPerInstruction
CHECK_DEADLOCK FALSE
