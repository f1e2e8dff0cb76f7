SPECIFICATION Spec
CONSTANTS
    WIDTHS = {14}
    GROUPS <- MCGroups
    PCT_BUFF_WORDS = 32
    SMPL_BUFF_WORDS = 28
    WRITE_GAP = 2
    HOST_WORDS = 1
    NUMBERS = 32
    STOPS = {}
INVARIANTS HeaderNumbersSamples
