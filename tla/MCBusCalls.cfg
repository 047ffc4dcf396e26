SPECIFICATION CallSpec
CONSTANTS
    BYTE = 4
    PERIPHERAL_BASE = 64
    PERIPHERAL_SIZE = 32
    UART0_BASE = 80
    UART_REGS_SIZE = 8
    DRAM_BASE = 112
    DRAM_SIZE = 4
    IRAM_BASE = 160
    IRAM_SIZE = 4
    FIFO = 0
    STATUS = 4
    CallAddr <- MCCallAddr
    CallValue <- MCCallValue
    CallBlock <- MCCallBlock
    TX_MAX = 2
VIEW MCView
INVARIANTS
    CallTypeOK
    TransmittedCountsEveryByte
PROPERTY BusIsFlatMemory
