------------------------------ MODULE TwoFifo ------------------------------
(***************************************************************************)
(* The TX stream FIFO behind the PCIe core, entity two_fifo_inst: a small  *)
(* FIFO the host writes, a FIFO of exactly one packet that the unpacker    *)
(* reads, and a state machine on the bus clock that moves a packet from    *)
(* the one to the other in TRNSF_N chunks, and only when the second FIFO   *)
(* is empty.                                                               *)
(*                                                                         *)
(* BusTick is one edge of the bus clock.  The flags of the vendor's FIFOs  *)
(* lag behind the other side: a flag that would allow a step may still be  *)
(* low, never the other way round.                                         *)
(***************************************************************************)
EXTENDS Integers, Sequences

CONSTANTS
    CHUNK,      \* words of a transfer: TRNSF_SIZE*8/C_INST0_RDWIDTH
    TRNSF_N,    \* transfers of a packet
    RATIO,      \* words of inst0 in a word that the unpacker reads
    INST0_SIZE  \* words that the first FIFO holds

ASSUME TwoFifoAssumption ==
    /\ CHUNK \in Nat /\ CHUNK > 0
    /\ TRNSF_N \in Nat /\ TRNSF_N > 0
    /\ RATIO \in Nat /\ RATIO > 0 /\ (CHUNK * TRNSF_N) % RATIO = 0
    /\ INST0_SIZE \in Nat /\ INST0_SIZE >= CHUNK

VARIABLES
    inst0,        \* the words in the first FIFO
    inst0_rdreq,
    inst0_q,
    inst1_wrreq,
    inst1,        \* the words in the second FIFO
    t_state,      \* current_state
    trnsf_cnt,
    t_rd_cnt,     \* rd_cnt
    reset_1       \* edges of wrclk until reset_1_n is released

twoVars == <<inst0, inst0_rdreq, inst0_q, inst1_wrreq, inst1, t_state,
             trnsf_cnt, t_rd_cnt, reset_1>>

TwoStates == {"idle", "check_fifo_0", "check_trnsf", "trnsf_fifo", "check_fifo_1"}

INST1_SIZE == CHUNK * TRNSF_N

TwoInit(none) ==
    /\ inst0 = <<>> /\ inst1 = <<>>
    /\ inst0_rdreq = FALSE /\ inst0_q = none /\ inst1_wrreq = FALSE
    /\ t_state = "idle" /\ trnsf_cnt = 0 /\ t_rd_cnt = 0
    /\ reset_1 = 0

\* The state machine and its registers while reset_n is low.
TwoReset ==
    /\ t_state' = "idle" /\ trnsf_cnt' = 0 /\ t_rd_cnt' = 0
    /\ inst0_rdreq' = FALSE /\ inst1_wrreq' = FALSE

-----------------------------------------------------------------------------
TwoGoes(s, t) == t_state = s /\ t_state' = t

ChunkWaiting == Len(inst0) >= CHUNK

\* inst1_wrempty
Inst1EmptyUnchecked == TRUE
Inst1Empty == inst1 = <<>>

PacketMoved == trnsf_cnt >= TRNSF_N

\* With lag, a flag that has just risen is not seen yet.
TwoFsm(lag) ==
    \/ TwoGoes("idle", "check_trnsf") /\ ChunkWaiting /\ Inst1Empty /\ ~lag
    \/ TwoGoes("idle", "idle") /\ (lag \/ ~ChunkWaiting \/ ~Inst1Empty)
    \/ TwoGoes("check_trnsf", "check_fifo_0") /\ ~PacketMoved
    \/ TwoGoes("check_trnsf", "check_fifo_1") /\ PacketMoved
    \/ TwoGoes("check_fifo_0", "trnsf_fifo") /\ ChunkWaiting /\ ~lag
    \/ TwoGoes("check_fifo_0", "check_fifo_0") /\ (lag \/ ~ChunkWaiting)
    \/ TwoGoes("trnsf_fifo", "trnsf_fifo") /\ t_rd_cnt < CHUNK - 1
    \/ TwoGoes("trnsf_fifo", "check_trnsf") /\ t_rd_cnt >= CHUNK - 1
    \/ TwoGoes("check_fifo_1", "idle") /\ Inst1Empty /\ ~lag
    \/ TwoGoes("check_fifo_1", "check_fifo_1") /\ (lag \/ ~Inst1Empty)

TwoRegs ==
    /\ trnsf_cnt' = CASE t_state = "check_trnsf" -> trnsf_cnt + 1
                      [] t_state = "idle" -> 0
                      [] OTHER -> trnsf_cnt
    /\ t_rd_cnt' = IF t_state = "trnsf_fifo" THEN t_rd_cnt + 1 ELSE 0
    /\ inst0_rdreq' = (t_state = "trnsf_fifo")
    /\ inst1_wrreq' = inst0_rdreq

\* Both FIFOs check for underflow and overflow: a read of the empty one gives
\* the last word again, a write to the full one is ignored.
MoveWords(written) ==
    LET read == inst0_rdreq /\ inst0 # <<>>
    IN  /\ inst0' = (IF read THEN Tail(inst0) ELSE inst0) \o written
        /\ inst0_q' = IF read THEN Head(inst0) ELSE inst0_q
        /\ inst1' = IF inst1_wrreq /\ Len(inst1) < INST1_SIZE
                    THEN Append(inst1, inst0_q) ELSE inst1

\* reset_1_n comes from a sync_reg: it falls with the request, without a clock,
\* and is released two edges after the end of the request.
ClearInst1 ==
    /\ TwoReset /\ inst1' = <<>> /\ reset_1' = 2
    /\ UNCHANGED <<inst0, inst0_q>>

\* One edge of wrclk; written is the word the host writes on it, if any, and
\* cleared the request to clear the second FIFO.
BusTick(written, cleared, lag) ==
    /\ Len(inst0) + Len(written) <= INST0_SIZE
    /\ IF reset_1 = 0
       THEN TwoFsm(lag) /\ TwoRegs /\ MoveWords(written) /\ UNCHANGED reset_1
       ELSE /\ reset_1' = IF cleared THEN 2 ELSE reset_1 - 1
            /\ TwoReset
            /\ inst0' = inst0 \o written /\ UNCHANGED <<inst0_q, inst1>>

=============================================================================
