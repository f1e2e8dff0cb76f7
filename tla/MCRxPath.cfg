SPECIFICATION FairSpec
CONSTANTS
    WIDTHS = {12, 16}
    GROUPS <- MCGroups
    PCT_BUFF_WORDS = 20
    SMPL_BUFF_WORDS = 16
    WRITE_GAP = 3
    HOST_WORDS = 0
    NUMBERS = 16
    STOPS = {"close", "disable"}
INVARIANTS SampleReadsServed WholePackets HeaderNumbersSamples PacketFifoHasRoom
PROPERTIES PacketsArrive
