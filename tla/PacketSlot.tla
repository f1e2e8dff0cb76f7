----------------------------- MODULE PacketSlot -----------------------------
(***************************************************************************)
(* What the TX stream FIFO promises the unpacker: it shows one packet at a *)
(* time, whole when it first appears; its words come out in order, header  *)
(* first; and packets come out in the order in which the host sent them.   *)
(* The unpacker may throw a packet away once it has its header, and the    *)
(* host may, if WITHDRAWS, withdraw one that has not been touched.         *)
(***************************************************************************)
EXTENDS Integers

CONSTANTS PCT_WORDS, WITHDRAWS

VARIABLES
    left,   \* words of the packet in the slot that have not been read
    out     \* the last word read: number of its packet, place in the packet

slotVars == <<left, out>>

SlotInit == left = 0 /\ out = [id |-> 0, idx |-> 0]

Fill == left = 0 /\ left' = PCT_WORDS /\ out' = out

ReadHeader ==
    /\ left = PCT_WORDS /\ left' = left - 1
    /\ out'.id > out.id /\ out'.idx = 0

ReadData ==
    /\ 0 < left /\ left < PCT_WORDS /\ left' = left - 1
    /\ out' = [id |-> out.id, idx |-> out.idx + 1]

Clear == left = PCT_WORDS - 1 /\ left' = 0 /\ out' = out

Withdraw == WITHDRAWS /\ left = PCT_WORDS /\ left' = 0 /\ out' = out

SlotNext == Fill \/ ReadHeader \/ ReadData \/ Clear \/ Withdraw

SlotSpec == SlotInit /\ [][SlotNext]_slotVars

=============================================================================
