SPECIFICATION CliSpec
CONSTANTS
    BYTE = 4
    PERIPHERAL_BASE = 64
    PERIPHERAL_SIZE = 32
    UART0_BASE = 80
    UART_REGS_SIZE = 8
    DRAM_BASE = 112
    DRAM_SIZE = 16
    IRAM_BASE = 160
    IRAM_SIZE = 24
    FIFO = 0
    STATUS = 4
    NREGS = 3
    HALT_ADDRESS = 224
    IsNarrow <- MCIsNarrow
    DecodeInst <- MCDecodeInst
    BitAnd <- MCBitAnd
    BitOr <- MCBitOr
    BitXor <- MCBitXor
    Images <- MCImages
    PHDR_SIZE = 1
    USIZE = 256
    Budgets <- MCBudgets
    HostStores = {}
    RamImages = {}
    Entries = {}
    MAX_STEPS = 0
    MAX_LOADS = 1
    MAX_RUNS = 1
    MAX_HOST_STORES = 0
    Files <- MCFiles
    MAX_ELF_BYTES = 2
    CAPACITY <- MCCapacity
INVARIANT StdoutIsExact
CHECK_DEADLOCK FALSE
