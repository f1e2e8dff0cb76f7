--------------------------- MODULE MCPackets2Data ---------------------------
(* Two buffers, packets of a header and two data words. *)
EXTENDS Packets2Data
=============================================================================
