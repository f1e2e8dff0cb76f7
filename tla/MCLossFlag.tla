---------------------------- MODULE MCLossFlag ----------------------------
\* Module LossFlag with short packets, for TLC.
EXTENDS LossFlag
=============================================================================
