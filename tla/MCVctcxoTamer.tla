--------------------------- MODULE MCVctcxoTamer ---------------------------
EXTENDS VctcxoTamer

\* Two counters that end after two and four pulses instead of one and ten: the
\* longer one ends in the middle of the second count of the shorter.
MCCounters == {1, 10}
MCPulses == [k \in MCCounters |-> IF k = 1 THEN 2 ELSE 4]
=============================================================================
