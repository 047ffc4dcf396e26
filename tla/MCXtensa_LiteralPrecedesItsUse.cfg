SPECIFICATION DecoderSpec
CONSTANTS
    WORD = 4194304
    Pcs <- MCPcs
    Words <- MCWords
INVARIANT LiteralPrecedesItsUse
CHECK_DEADLOCK FALSE
