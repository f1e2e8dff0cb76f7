SPECIFICATION Spec
CONSTANTS
    FORMING = 5
    APART = 5
    RX_PER_TX = 3
    TX_PER_RX = 3
INVARIANTS LossKept
PROPERTIES EachLossToldOnce
