SPECIFICATION DecoderSpec
CONSTANTS
    WORD = 4194304
    Pcs <- MCPcs
    Words <- MCWords
INVARIANTS
    DecoderTypeOK
    DecodingReassembles
    NarrowFormsAreSynonyms
    MnemonicNamesTheWord
    TargetsInReach
    WindowedCodeIsRefused
CHECK_DEADLOCK FALSE
