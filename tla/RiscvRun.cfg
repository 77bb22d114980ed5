SPECIFICATION Spec
CONSTANTS
    WordBits = 8
    MemSize = 88
    Regs = {1, 5, 6, 10, 11, 12, 13, 17}
    UpperShift = 4
    ROM_ENTRY = 4
    ROM_ADDR = 128
    CSR_ADDR = 16
    MTVEC = 5
    MARCHID = 13
    ARCH_ID_ZISK = 77
    OUTPUT_ADDR = 48
    OutWords = 2
    RamEnd = 80
    MainLen = 8
    ChunkLen = 16
    PlainCsrs = {21}
    Elfs <- MCElfs
INVARIANTS
    TypeOK
    NeverLost
    AsmAgreesBar
    RomTrueBar
PROPERTY
    RunsRiscv
