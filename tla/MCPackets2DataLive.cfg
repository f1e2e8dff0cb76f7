CONSTANTS
  N_BUFF = 2
  PCT_WORDS = 3
  SYNCH_DIS = FALSE
  SAMPLE_NRS = {1}
  SAMPLE_STEPS = {0, 1}
  MAX_SAMPLE_NR = 2
  MAX_PACKETS = 2
SPECIFICATION FairSpec
PROPERTIES
  StreamDrains
  BuffersDrain
