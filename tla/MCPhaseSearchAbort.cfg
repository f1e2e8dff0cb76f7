SPECIFICATION Spec
CONSTANTS
    LAST = 7
    STEPS = {2, 3}
    SETTLE = 1
    CMP_LENGTH = 1
    EYES <- MCOneEye
    HOST_WAITS = FALSE
INVARIANTS OkMeansRight
