SPECIFICATION MachineSpec
CONSTANTS
    BYTE = 4
    PERIPHERAL_BASE = 64
    PERIPHERAL_SIZE = 32
    UART0_BASE = 80
    UART_REGS_SIZE = 8
    DRAM_BASE = 112
    DRAM_SIZE = 16
    IRAM_BASE = 160
    IRAM_SIZE = 12
    FIFO = 0
    STATUS = 4
    NREGS = 3
    HALT_ADDRESS = 224
    IsNarrow <- MCIsNarrow
    DecodeInst <- MCDecodeInst
    BitAnd <- MCBitAnd
    BitOr <- MCBitOr
    BitXor <- MCBitXor
    Images <- MCImages
    PHDR_SIZE = 1
    USIZE = 256
    Budgets <- MCBudgets
    HostStores <- MCHostStores
    RamImages = {}
    Entries = {}
    MAX_STEPS = 0
    MAX_LOADS = 2
    MAX_RUNS = 2
    MAX_HOST_STORES = 1
INVARIANTS
    MachineTypeOK
    PendingIsOneInstructionsWorth
    OutputIsConserved
    BudgetIsRespected
    TraceIsReplayable
    OutputFollowsTrace
    SummaryIsTrue
PROPERTIES
    ObserverProtocol
    LoadIsAllOrNothingForCpu
    CallsAreBounded
    RunReturns
CHECK_DEADLOCK FALSE
