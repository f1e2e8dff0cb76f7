---------------------------- MODULE MCNiosControl ----------------------------
\* Module NiosControl with a PLL index that names no PLL, for TLC.
EXTENDS NiosControl

MCPlls == {0, 1}
MCIndices == {0, 1, 2}
=============================================================================
