SPECIFICATION Spec
CONSTANTS
  Counters <- MCCounters
  Pulses <- MCPulses
INVARIANTS
  LineThroughItsPoints
  CorrectsTheSetting
  QuietWhenDisabled
PROPERTY
  TuningEnds
