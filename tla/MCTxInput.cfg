CONSTANTS
  CHUNK = 2
  TRNSF_N = 3
  RATIO = 2
  INST0_SIZE = 4
  N_BUFF = 2
  PCT_WORDS = 3
  SYNCH_DIS = FALSE
  MAX_PACKETS = 3
  CLOSES = TRUE
SPECIFICATION FairSpec
INVARIANTS
  ClearTakesOnePacket
PROPERTIES
  ImplementsSlot
  EveryPacketTaken
