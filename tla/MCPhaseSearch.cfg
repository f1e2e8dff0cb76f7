SPECIFICATION FairSpec
CONSTANTS
    LAST = 15
    STEPS = {2, 3}
    SETTLE = 1
    CMP_LENGTH = 1
    EYES <- MCEyes
    HOST_WAITS = TRUE
INVARIANTS CountsShifts ReadsVerdict EndsInTheMiddle
PROPERTIES SearchEnds
