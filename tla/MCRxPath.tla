------------------------------ MODULE MCRxPath ------------------------------
\* Module RxPath with small packets and FIFOs, for TLC.
EXTENDS RxPath

\* With 16 bits packets follow each other closest; they must be long enough
\* for the words of the packet before to be written when room is looked for.
MCGroups == [width \in WIDTHS |-> IF width = 16 THEN 8 ELSE 2]

\* What the proof about the numbers assumes.
ASSUME MCKeepsUp == KeepsUp
=============================================================================
