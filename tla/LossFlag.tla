------------------------------ MODULE LossFlag ------------------------------
(***************************************************************************)
(* How the host learns that TX packets were thrown away: tx_path_top       *)
(* raises a flag when a packet is cleared, rx_path_top puts it into the    *)
(* header of every RX packet, and the signal that a header was taken goes  *)
(* back to tx_path_top and lowers the flag.  Each way crosses from one     *)
(* clock to the other through two registers.                               *)
(*                                                                         *)
(* Of the RX packet former only the times matter: a packet is formed for   *)
(* at least FORMING edges of rx_clk, and APART or more separate two.  A    *)
(* packet for which the packet FIFO has no room is formed all the same and *)
(* not written: its header takes the flag and lowers it, and is thrown     *)
(* away with it.                                                           *)
(***************************************************************************)
EXTENDS Integers, Sequences

CONSTANTS
    FORMING, APART,
    RX_PER_TX,      \* most edges of rx_clk between two of tx_clk
    TX_PER_RX       \* most edges of tx_clk between two of rx_clk

\* A pulse of either level is seen on the other side, and the flag is lowered
\* before the next header is taken.
ASSUME LossFlagAssumption ==
    /\ {FORMING, APART, RX_PER_TX, TX_PER_RX} \subseteq Nat \ {0}
    /\ FORMING > RX_PER_TX /\ APART > RX_PER_TX + 1
    /\ FORMING + APART > 3 * RX_PER_TX

VARIABLES
    clr_flag,       \* inst0_in_pct_clr_flag: a packet was cleared
    clr_flag_reg,
    loss_flg,       \* pct_loss_flg_int
    clr_sync,       \* sync_reg7, pct_loss_flg_clr_sync_iq_rdclk last
    clr_sync_reg,
    loss_sync,      \* sync_reg1 of rx_path_top, tx_pct_loss_sync last
    forming,        \* data2packets is in s0 or s1
    hdr_captured,   \* pct_hdr_captured
    edges,          \* edges of rx_clk since forming changed, counted to a limit
    rx_since, tx_since, \* edges of one clock since the last of the other
    pending,        \* a packet was cleared that no header has told the host of
    taken,          \* a header was taken and its signal has not lowered the flag
    raced,          \* the pending loss came too late for that header
    skipped         \* it was in a header that was not written

txSide == <<clr_flag, clr_flag_reg, loss_flg, clr_sync, clr_sync_reg>>
rxSide == <<loss_sync, forming, hdr_captured, edges>>
aux == <<pending, taken, raced, skipped>>
vars == <<txSide, rxSide, rx_since, tx_since, aux>>

Init ==
    /\ clr_flag = FALSE /\ clr_flag_reg = TRUE /\ loss_flg = FALSE
    /\ clr_sync = <<FALSE, FALSE>> /\ clr_sync_reg = FALSE
    /\ loss_sync = <<FALSE, FALSE>> /\ forming = FALSE /\ hdr_captured = FALSE
    /\ edges = 0 /\ rx_since = 0 /\ tx_since = 0
    /\ pending = FALSE /\ taken = FALSE /\ raced = FALSE /\ skipped = FALSE

Lost == clr_flag /\ ~clr_flag_reg
LoweredAtEnd == ~clr_sync[2] /\ clr_sync_reg
Lowered == clr_sync[2] /\ ~clr_sync_reg

LoweredFirst == IF Lowered THEN FALSE ELSE IF Lost THEN TRUE ELSE loss_flg
NextFlag == IF Lost THEN TRUE ELSE IF Lowered THEN FALSE ELSE loss_flg

\* An edge of iq_rdclk; clears says whether a packet is cleared on it.
TxEdge(clears) ==
    /\ tx_since < TX_PER_RX /\ tx_since' = tx_since + 1 /\ rx_since' = 0
    /\ clr_flag' = clears /\ clr_flag_reg' = clr_flag
    /\ loss_flg' = NextFlag
    /\ clr_sync' = <<hdr_captured, clr_sync[1]>> /\ clr_sync_reg' = clr_sync[2]
    /\ pending' = (pending \/ Lost)
    /\ taken' = (taken /\ ~Lowered)
    /\ raced' = IF Lost THEN taken /\ ~Lowered ELSE raced
    /\ skipped' = (skipped /\ ~Lost)
    /\ UNCHANGED rxSide

Saturated(n) == IF n < FORMING + APART THEN n + 1 ELSE n

\* The header of a packet that is written reaches the host.
TellsHost(written) == written /\ loss_sync[2]

\* The first data word of a packet: the header is taken.  Whether the packet is
\* written (pct_buff_wr_dis) was settled before; its signal goes out either way.
HeaderTaken(written) ==
    /\ ~forming /\ edges >= APART /\ forming' = TRUE /\ edges' = 0
    /\ pending' = (pending /\ ~TellsHost(written))
    /\ raced' = (pending /\ ~loss_sync[2])
    /\ skipped' = (pending /\ (IF loss_sync[2] THEN ~written ELSE skipped))
    /\ taken' = TRUE

PacketEnds ==
    /\ forming /\ edges >= FORMING /\ forming' = FALSE /\ edges' = 0
    /\ UNCHANGED aux

PacketGoesOn == edges' = Saturated(edges) /\ UNCHANGED <<forming, aux>>

\* An edge of rx_clk.
RxEdge ==
    /\ rx_since < RX_PER_TX /\ rx_since' = rx_since + 1 /\ tx_since' = 0
    /\ loss_sync' = <<loss_flg, loss_sync[1]>>
    /\ hdr_captured' = forming
    /\ (\E written \in BOOLEAN : HeaderTaken(written)) \/ PacketEnds \/ PacketGoesOn
    /\ UNCHANGED txSide

Next == (\E clears \in BOOLEAN : TxEdge(clears)) \/ RxEdge

Spec == Init /\ [][Next]_vars

-----------------------------------------------------------------------------
(* Type invariant: the ranges of the signals. *)
TypeOK ==
    /\ {clr_flag, clr_flag_reg, loss_flg, clr_sync_reg, forming, hdr_captured,
        pending, taken, raced, skipped} \subseteq BOOLEAN
    /\ clr_sync \in [1..2 -> BOOLEAN] /\ loss_sync \in [1..2 -> BOOLEAN]
    /\ edges \in 0..(FORMING + APART)
    /\ rx_since \in 0..RX_PER_TX /\ tx_since \in 0..TX_PER_RX

\* A header that reaches the host and says that packets were lost tells of a loss
\* that no such header before it told of: the flag is down again, seen from the
\* RX side, before the next header is taken.
EachLossToldOnce == [][HeaderTaken(TRUE) /\ loss_sync[2] => pending]_vars

\* A loss that the host has not been told of keeps the flag up, whatever headers
\* are taken meanwhile, and is forgotten in two ways only: the packet was
\* cleared between the taking of a header and the arrival of its signal, or the
\* header that took the flag was that of a packet that is not written.
LossKept == pending /\ ~raced /\ ~skipped => loss_flg

-----------------------------------------------------------------------------
(* The inductive invariant: where the signal that a header was taken is on *)
(* its way back, how old it can be there, and what that says of the flag.  *)

\* Edges of rx_clk since a header was taken.
Age == IF forming THEN edges ELSE FORMING + 1 + edges

\* The signal rises once for each header.  It rises between forming and
\* hdr_captured, hdr_captured and the synchroniser, inside the synchroniser, and
\* between that and clr_sync_reg, where it lowers the flag.
RisesAtCapture == forming /\ ~hdr_captured
RisesAtSync == hdr_captured /\ ~clr_sync[1]
RisesInSync == clr_sync[1] /\ ~clr_sync[2]

\* It rises nowhere but at the place named.
NoSignal == ~taken /\ ~RisesAtCapture /\ ~RisesAtSync /\ ~RisesInSync /\ ~Lowered
SignalAtCapture ==
    /\ taken /\ RisesAtCapture /\ ~RisesAtSync /\ ~RisesInSync /\ ~Lowered
    /\ edges = 0 /\ ~clr_sync[1]
SignalAtSync ==
    /\ taken /\ ~RisesAtCapture /\ RisesAtSync /\ ~RisesInSync /\ ~Lowered
    /\ forming /\ Age <= rx_since
SignalInSync ==
    /\ taken /\ ~RisesAtCapture /\ ~RisesAtSync /\ RisesInSync
    /\ Age <= RX_PER_TX + rx_since
SignalAtFlag ==
    /\ taken /\ ~RisesAtCapture /\ ~RisesAtSync /\ ~RisesInSync /\ Lowered
    /\ Age <= 2 * RX_PER_TX + rx_since

\* The signal of one header is on its way at most, and reaches the TX side in
\* three edges of its clock.
OneSignal == NoSignal \/ SignalAtCapture \/ SignalAtSync \/ SignalInSync \/ SignalAtFlag

\* The end of the signal follows: it is seen on the TX side in time.
EndSeen ==
    /\ ~forming /\ hdr_captured => edges = 0
    /\ ~forming /\ ~hdr_captured /\ clr_sync[1] => edges <= rx_since

\* The flag tells of a loss that is pending, or the signal that will lower it is
\* on its way, or it is down and the RX side sees this after two edges.
FlagInStep ==
    /\ taken /\ pending => raced \/ skipped
    /\ ~pending /\ ~taken =>
          /\ ~loss_flg
          /\ loss_sync[1] => Age <= 3 * RX_PER_TX
          /\ loss_sync[2] => Age <= 3 * RX_PER_TX + 1

InStep == OneSignal /\ EndSeen /\ FlagInStep /\ LossKept

=============================================================================
