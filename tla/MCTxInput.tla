----------------------------- MODULE MCTxInput -----------------------------
\* Module TxInput with small FIFOs and packets, for TLC.
EXTENDS TxInput
=============================================================================
