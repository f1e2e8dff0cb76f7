---------------------------- MODULE MCWfmPlayer ----------------------------
\* Module WfmPlayer with a short waveform and small FIFOs, for TLC.
EXTENDS WfmPlayer
=============================================================================
