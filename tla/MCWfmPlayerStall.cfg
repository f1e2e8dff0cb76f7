SPECIFICATION Spec
CONSTANTS
    MIN_WORDS = 2
    MAX_WORDS = 6
    ADDRS = 8
    TG_SIZE = 4
    RD_LATENCY = 4
    OUT_WORDS = 10
    STALL = 4
    LOADS = 1
INVARIANT CountsWords
