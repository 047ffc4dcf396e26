SPECIFICATION LoaderSpec
CONSTANTS
    BYTE = 4
    PERIPHERAL_BASE = 64
    PERIPHERAL_SIZE = 32
    UART0_BASE = 80
    UART_REGS_SIZE = 8
    DRAM_BASE = 112
    DRAM_SIZE = 8
    IRAM_BASE = 160
    IRAM_SIZE = 8
    FIFO = 0
    STATUS = 4
    Images <- MCImages
    PHDR_SIZE = 1
    USIZE = 256
    MAX_LOADS = 2
INVARIANTS
    LoaderTypeOK
    RamIsOverlay
    AcceptsExactlyWellFormed
    ErrorNamesFirstBadSegment
PROPERTY LoadReturns
CHECK_DEADLOCK FALSE
