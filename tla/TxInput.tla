------------------------------ MODULE TxInput ------------------------------
(***************************************************************************)
(* How transmit packets reach the unpacker: the host behind the PCIe core, *)
(* the two stream FIFOs (TwoFifo, bus clock) and the write side of the     *)
(* unpacker (P2dWr, TX clock).  The two clocks are unrelated: their edges  *)
(* interleave.  The unpacker's request to clear the FIFO falls on the bus  *)
(* clock side at once (sync_reg's asynchronous reset) and is released      *)
(* there two edges later.                                                  *)
(*                                                                         *)
(* The sample number and the buffers' empty flags are free here: a packet  *)
(* may be found late or not, and may wait for a buffer for any time.       *)
(***************************************************************************)
EXTENDS TwoFifo, P2dWr

CONSTANTS
    MAX_PACKETS,  \* bound: packets the host begins to send
    CLOSES        \* may the host close and reopen the stream?

ASSUME TxInputAssumption ==
    /\ MAX_PACKETS \in Nat /\ CLOSES \in BOOLEAN
    /\ CHUNK * TRNSF_N = PCT_WORDS * RATIO
    /\ CLOSES => MAX_PACKETS >= 2

VARIABLES
    npct,         \* packets the host has begun to send
    nword,        \* words of the current one that it has written
    in_q,         \* output register of the second FIFO
    in_pct_rdy,   \* inst1_in_pct_rdy of rxtx_top
    withdrawn     \* packets begun when the stream was last closed

hostVars == <<npct, nword, withdrawn>>
vars == <<twoVars, wrVars, hostVars, in_q, in_pct_rdy>>

Hdr(n) == [id |-> n, sn |-> 1, dis |-> FALSE]
Piece(n, k) == [pkt |-> n, pos |-> k]
NoPiece == Piece(0, 0)
Pieces == {Piece(n, k) : n \in 1 .. MAX_PACKETS, k \in 1 .. PCT_WORDS * RATIO}

Init ==
    /\ TwoInit(NoPiece) /\ WrInit
    /\ npct = 0 /\ nword = PCT_WORDS * RATIO /\ withdrawn = 0
    /\ in_q = Word(ZeroHdr, 0) /\ in_pct_rdy = FALSE

-----------------------------------------------------------------------------
\* The host writes the words of its packets one after the other, at any pace.
HostContinues ==
    /\ nword < PCT_WORDS * RATIO
    /\ nword' = nword + 1 /\ UNCHANGED <<npct, withdrawn>>

HostBegins ==
    /\ nword = PCT_WORDS * RATIO /\ npct < MAX_PACKETS
    /\ npct' = npct + 1 /\ nword' = 1 /\ UNCHANGED withdrawn

Bus(lag) ==
    /\ \/ UNCHANGED hostVars /\ BusTick(<<>>, in_pct_reset_req, lag)
       \/ (HostContinues \/ HostBegins) /\ BusTick(<<Piece(npct', nword')>>, in_pct_reset_req, lag)
    /\ UNCHANGED <<wrVars, in_q, in_pct_rdy>>

\* A word of the unpacker is RATIO words of the FIFO.
WordOf(p) == Word(Hdr(p.pkt), (p.pos - 1) \div RATIO)

\* rxtx_top: rdusedw is at least a packet.
PacketWaitingOffByOne == Len(inst1) \div RATIO >= PCT_WORDS - 1
PacketWaiting == Len(inst1) \div RATIO >= PCT_WORDS

ReadWords ==
    LET read == in_pct_rdreq /\ Len(inst1) >= RATIO
    IN  /\ in_q' = IF read THEN WordOf(Head(inst1)) ELSE in_q
        /\ IF in_pct_reset_req'
           THEN ClearInst1
           ELSE /\ inst1' = IF read THEN SubSeq(inst1, RATIO + 1, Len(inst1))
                            ELSE inst1
                /\ UNCHANGED <<inst0, inst0_rdreq, inst0_q, inst1_wrreq, t_state,
                               trnsf_cnt, t_rd_cnt, reset_1>>

\* One edge of tx_clk; free are the buffers that are empty.
TxEdge(lag, sample_nr, free) ==
    /\ WrTick(in_pct_rdy, in_q, [i \in Buffers |-> i \in free], sample_nr)
    /\ in_pct_rdy' = (PacketWaiting /\ ~lag)
    /\ ReadWords
    /\ UNCHANGED hostVars

Tx == \E lag \in BOOLEAN, sample_nr \in {0, 2}, free \in {{}, Buffers} :
          TxEdge(lag, sample_nr, free)

\* The host closes the stream while the unpacker waits for a packet: closing
\* clears both FIFOs, with whatever part of a packet is in them, and the next
\* word is the header of a new packet.
Reopen ==
    /\ CLOSES
    /\ w_state = "idle" /\ ~in_pct_rdy /\ ~in_pct_reset_req /\ npct > 0
    /\ inst0' = <<>> /\ inst1' = <<>> /\ TwoReset
    /\ nword' = PCT_WORDS * RATIO /\ withdrawn' = npct
    /\ UNCHANGED <<wrVars, npct, in_q, in_pct_rdy, inst0_q, reset_1>>

Next == (\E lag \in BOOLEAN : Bus(lag)) \/ Tx \/ Reopen

Spec == Init /\ [][Next]_vars

(* Both clocks run, and flags do not lag for ever; the host finishes the    *)
(* packet it has begun; and buffers become free again and again             *)
(* (BuffersDrain of module Packets2Data).                                   *)
Fairness ==
    /\ WF_vars(Bus(FALSE)) /\ WF_vars(HostContinues /\ Bus(FALSE))
    /\ WF_vars(\E sample_nr \in {0, 2} : TxEdge(FALSE, sample_nr, Buffers))

FairSpec == Spec /\ Fairness

-----------------------------------------------------------------------------
(* Properties.                                                             *)

TypeOK ==
    /\ inst0 \in Seq(Pieces) /\ Len(inst0) <= INST0_SIZE
    /\ inst1 \in Seq(Pieces) /\ Len(inst1) <= INST1_SIZE
    /\ inst0_rdreq \in BOOLEAN /\ inst1_wrreq \in BOOLEAN
    /\ inst0_q \in Pieces \cup {NoPiece}
    /\ t_state \in TwoStates /\ trnsf_cnt \in 0 .. TRNSF_N + 1
    /\ t_rd_cnt \in 0 .. CHUNK /\ reset_1 \in 0 .. 2
    /\ {npct, withdrawn} \subseteq 0 .. MAX_PACKETS /\ nword \in 1 .. PCT_WORDS * RATIO
    /\ npct = 0 => nword = PCT_WORDS * RATIO
    /\ w_state \in WrStates /\ {w_rd_cnt, pipe_cnt, pct_data_wrreq_cnt} \subseteq Nat
    /\ {in_pct_rdy, in_pct_rdreq, in_pct_data_valid, in_pct_reset_req} \subseteq BOOLEAN
    /\ in_q.pkt.id \in 0 .. MAX_PACKETS /\ in_q.idx \in 0 .. PCT_WORDS - 1

\* When the unpacker has a late packet cleared out of the second FIFO, all that
\* is there is the rest of that packet, and no word is on its way from the first
\* FIFO: the clear, which resets the transfer FSM from another clock, takes
\* nothing of the next packet and leaves nothing of this one.
ClearTakesOnePacket ==
    w_state = "clr_fifo" =>
        /\ t_state = "check_fifo_1" /\ ~inst0_rdreq /\ ~inst1_wrreq
        /\ Len(inst1) = (PCT_WORDS - 1) * RATIO
        /\ \A j \in 1 .. Len(inst1) : inst1[j].pkt = pct_hdr.id

\* The two FIFOs are a slot for one packet: PacketSlot, which Packets2Data takes
\* for granted.  The packet is in the slot once the last word has arrived.
Moved == t_state = "check_fifo_1" /\ ~inst0_rdreq /\ ~inst1_wrreq
Slot == INSTANCE PacketSlot WITH
            WITHDRAWS <- CLOSES,
            left <- IF Moved THEN Len(inst1) \div RATIO ELSE 0,
            out <- [id |-> in_q.pkt.id, idx |-> in_q.idx]
ImplementsSlot == Slot!SlotSpec

-----------------------------------------------------------------------------
\* Every packet that the host sends is taken, unless the host closes the stream
\* first: the transfer FSM and the unpacker never wait for each other, and a
\* stream that has been closed and opened again works like a new one.
EveryPacketTaken ==
    \A n \in 1 .. MAX_PACKETS : npct = n ~> pct_hdr.id = n \/ withdrawn >= n

-----------------------------------------------------------------------------
(***************************************************************************)
(* Where the packet is.  Words leave the first FIFO in the order in which  *)
(* the host wrote them.  Those of one packet are moved to the second FIFO  *)
(* while the unpacker rests, and it takes them from there while the        *)
(* transfer FSM rests, in check_fifo_1.                                    *)
(***************************************************************************)
Following(p) == IF p.pos = INST1_SIZE THEN Piece(p.pkt + 1, 1) ELSE Piece(p.pkt, p.pos + 1)

\* The words of q follow the k-th of packet n, up to the w-th of packet m.
Follow(q, n, k, m, w) ==
    /\ n <= m
    /\ \A i \in 1 .. Len(q) :
           q[i].pkt <= m /\ q[i] = Following(IF i = 1 THEN Piece(n, k) ELSE q[i - 1])
    /\ Piece(m, w) = IF q = <<>> THEN Piece(n, k) ELSE q[Len(q)]

\* The last word taken from the first FIFO was the k-th of packet n.
InHostOrder(n, k) == Follow(inst0, n, k, npct, nword)

\* Words taken of the packet that is moved; the last may still be in inst0_q.
Taken == Len(inst1) + (IF inst1_wrreq THEN 1 ELSE 0)

MovingTo(n) ==
    /\ InHostOrder(n, Taken)
    /\ \A j \in 1 .. Len(inst1) : inst1[j] = Piece(n, j)
    /\ inst1_wrreq => inst0_q = Piece(n, Taken)

\* A chunk is in the first FIFO as a whole before its first word is asked for.
ChunkInStep ==
    LET asked == IF inst0_rdreq THEN 1 ELSE 0
    IN  /\ t_state = "check_trnsf" =>
               /\ trnsf_cnt \in 0 .. TRNSF_N /\ (inst0_rdreq <=> trnsf_cnt > 0)
               /\ Taken + asked = trnsf_cnt * CHUNK /\ Len(inst0) >= asked
        /\ t_state = "check_fifo_0" =>
               /\ trnsf_cnt \in 1 .. TRNSF_N /\ ~inst0_rdreq /\ t_rd_cnt = 0
               /\ Taken = (trnsf_cnt - 1) * CHUNK
        /\ t_state = "trnsf_fifo" =>
               /\ trnsf_cnt \in 1 .. TRNSF_N /\ t_rd_cnt \in 0 .. (CHUNK - 1)
               /\ inst0_rdreq <=> t_rd_cnt > 0
               /\ Taken + asked = (trnsf_cnt - 1) * CHUNK + t_rd_cnt
               /\ Len(inst0) + t_rd_cnt >= CHUNK + asked
        /\ t_state = "check_fifo_1" => ~inst0_rdreq /\ inst1_wrreq /\ Taken = INST1_SIZE

\* What is left of packet n in the second FIFO, in words of the unpacker.
Stored(n, left) ==
    /\ Len(inst1) = left * RATIO
    /\ \A j \in 1 .. Len(inst1) : inst1[j] = Piece(n, (PCT_WORDS - left) * RATIO + j)
    /\ IF left = PCT_WORDS THEN in_q.pkt.id < n
       ELSE in_q = Word(Hdr(n), PCT_WORDS - left - 1)

HeaderTaken(n, left) ==
    /\ ~in_pct_rdreq /\ ~in_pct_data_valid /\ w_rd_cnt = 1
    /\ pct_data_wrreq_cnt = 1 /\ left = PCT_WORDS - 1 /\ pct_hdr.id = n

\* The unpacker with left words of packet n to be read, as in module Packets2Data.
UnpackerAt(n, left) ==
    /\ w_state \in {"idle", "check_next_buf", "switch_current_buff"} =>
           ~in_pct_rdreq /\ ~in_pct_data_valid
    /\ w_state \in {"idle", "check_next_buf", "switch_current_buff"}
           \/ (w_state = "wait_wr_end" /\ ~in_pct_rdreq) =>
              left \in {0, PCT_WORDS} /\ (in_pct_rdy => left = PCT_WORDS)
    /\ w_state = "rd_hdr" =>
           /\ ~in_pct_rdreq /\ ~in_pct_data_valid
           /\ w_rd_cnt = 0 /\ pct_data_wrreq_cnt = 0 /\ left = PCT_WORDS
    /\ w_state = "wait_cmpr_pipe" =>
           \/ /\ pipe_cnt = 0 /\ in_pct_rdreq /\ ~in_pct_data_valid
              /\ w_rd_cnt = 1 /\ pct_data_wrreq_cnt = 0 /\ left = PCT_WORDS
           \/ /\ pipe_cnt = 1 /\ ~in_pct_rdreq /\ in_pct_data_valid
              /\ w_rd_cnt = 1 /\ pct_data_wrreq_cnt = 0 /\ left = PCT_WORDS - 1
           \/ pipe_cnt > 1 /\ HeaderTaken(n, left)
    /\ w_state \in {"check_smpl_nr", "clr_fifo", "switch_next_buff"} => HeaderTaken(n, left)
    /\ w_state = "rd_pct" =>
           /\ w_rd_cnt \in 1 .. PCT_WORDS - 1
           /\ (in_pct_rdreq <=> w_rd_cnt >= 2) /\ (in_pct_data_valid <=> w_rd_cnt >= 3)
           /\ left = PCT_WORDS - w_rd_cnt + (IF in_pct_rdreq THEN 1 ELSE 0)
    /\ w_state = "wait_wr_end" /\ in_pct_rdreq => in_pct_data_valid /\ left = 1
    /\ in_pct_reset_req => w_state = "idle"
    /\ w_state \notin {"wait_cmpr_pipe", "check_smpl_nr"} => pipe_cnt = 0

\* It rests while nothing is left for it.
InStep ==
    \E n \in 0 .. MAX_PACKETS :
        \/ /\ t_state = "idle" /\ ~inst0_rdreq /\ ~inst1_wrreq /\ inst1 = <<>>
           /\ InHostOrder(n, INST1_SIZE) /\ UnpackerAt(n, 0) /\ in_q.pkt.id <= n
        \/ /\ t_state # "idle" /\ reset_1 = 0
           /\ MovingTo(n) /\ ChunkInStep /\ UnpackerAt(n, 0) /\ in_q.pkt.id < n
        \/ /\ Moved /\ reset_1 = 0 /\ InHostOrder(n, INST1_SIZE)
           /\ \E left \in 0 .. PCT_WORDS : Stored(n, left) /\ UnpackerAt(n, left)

=============================================================================
