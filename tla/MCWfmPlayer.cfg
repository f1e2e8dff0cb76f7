SPECIFICATION FairSpec
CONSTANTS
    MIN_WORDS = 2
    MAX_WORDS = 4
    ADDRS = 8
    TG_SIZE = 4
    RD_LATENCY = 4
    OUT_WORDS = 10
    STALL = 1
    LOADS = 2
INVARIANTS StoresInOrder CountsWords PlaysInOrder ReadsFit
PROPERTIES EveryWordStored PlayGoesOn
