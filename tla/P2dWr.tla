------------------------------- MODULE P2dWr -------------------------------
(***************************************************************************)
(* The write side of the TX packet unpacker, entity p2d_wr_fsm.  It reads  *)
(* one packet at a time from the host stream FIFO, captures the header,    *)
(* compares the sample number in it with the current one, and either asks  *)
(* for the FIFO to be cleared (the packet is late) or copies the data      *)
(* words into the current packet buffer of a ring of N_BUFF.               *)
(*                                                                         *)
(* The module is one clock edge of that entity: WrTick is the conjunction  *)
(* of its processes, its parameters are the entity's input ports.          *)
(***************************************************************************)
EXTENDS Integers, Sequences

CONSTANTS
    N_BUFF,       \* packet buffers in the ring (generic N_BUFF; 2 or 4)
    PCT_WORDS,    \* 128-bit words of a packet, header included (PCT_SIZE*8/128)
    SYNCH_DIS     \* the host's synch_dis configuration bit

\* wait_wr_end sees the tail of the read pipeline only if at least two data
\* words follow the header; the code's packets have 255.
ASSUME WrAssumption ==
    /\ N_BUFF \in Nat /\ N_BUFF >= 2
    /\ PCT_WORDS \in Nat /\ PCT_WORDS >= 3
    /\ SYNCH_DIS \in BOOLEAN

VARIABLES
    w_state,            \* current_state
    next_buff_cnt, next_buff_rdy,
    current_buff_cnt, current_buff_rdy,
    w_rd_cnt,           \* rd_cnt: words requested of the current packet
    pipe_cnt,
    in_pct_rdreq,       \* in_pct_rdreq_int
    in_pct_data_valid,
    pct_data_wrreq_cnt,
    in_pct_reset_req,   \* in_pct_reset_n_req, active high here
    pct_hdr,            \* pct_hdr_0_reg and pct_hdr_1_reg
    pct_hdr_valid,      \* pct_hdr_x_valid, the set of asserted bits
    pct_data,
    pct_data_wrreq,     \* the set of asserted bits
    w_cmp               \* the three stages of the sample number comparator

wrVars == <<w_state, next_buff_cnt, next_buff_rdy, current_buff_cnt,
            current_buff_rdy, w_rd_cnt, pipe_cnt, in_pct_rdreq,
            in_pct_data_valid, pct_data_wrreq_cnt, in_pct_reset_req,
            pct_hdr, pct_hdr_valid, pct_data, pct_data_wrreq, w_cmp>>

Buffers == 0 .. N_BUFF - 1

WrStates == {"idle", "rd_hdr", "wait_cmpr_pipe", "check_smpl_nr", "clr_fifo",
             "switch_next_buff", "rd_pct", "wait_wr_end", "check_next_buf",
             "switch_current_buff"}

\* The header registers after reset: sample number zero, synchronisation on.
ZeroHdr == [id |-> 0, sn |-> 0, dis |-> FALSE]

\* One 128-bit word of the stream: the packet it is cut from and its place in
\* it; word 0 is the header.
Word(p, k) == [pkt |-> p, idx |-> k]

\* lpm_compare: unsigned comparison, delivered through a pipeline of three.  It
\* has no reset: the clock runs while reset is held, so that the pipe has
\* compared zero with zero.
Compare(a, b) == IF a < b THEN "less" ELSE IF a = b THEN "equal" ELSE "greater"
Shift(pipe, x) == <<x, pipe[1], pipe[2]>>
EmptyPipe == <<"equal", "equal", "equal">>

NextBufferOffByOne(i) == IF i < N_BUFF THEN i + 1 ELSE 0
NextBuffer(i) == IF i < N_BUFF - 1 THEN i + 1 ELSE 0

WrInit ==
    /\ w_state = "idle"
    /\ next_buff_cnt = 0 /\ next_buff_rdy = FALSE
    /\ current_buff_cnt = 0 /\ current_buff_rdy = FALSE
    /\ w_rd_cnt = 0 /\ pipe_cnt = 0
    /\ in_pct_rdreq = FALSE /\ in_pct_data_valid = FALSE
    /\ pct_data_wrreq_cnt = 0 /\ in_pct_reset_req = FALSE
    /\ pct_hdr = ZeroHdr /\ pct_hdr_valid = {}
    /\ pct_data = Word(ZeroHdr, 0) /\ pct_data_wrreq = {}
    /\ w_cmp = EmptyPipe

-----------------------------------------------------------------------------
(* The state machine.                                                      *)

WrGoes(s, t) == w_state = s /\ w_state' = t

\* The comparator's verdict counts only for a packet that wants it.
Late == w_cmp[3] = "less" /\ ~pct_hdr.dis /\ ~SYNCH_DIS

\* Guards of the state machine (each behind the mutant that breaks it).
PipeFullTooSoon == pipe_cnt > 2
PipeFull == pipe_cnt > 3
PacketReadTooLate == w_rd_cnt >= PCT_WORDS
PacketRead == w_rd_cnt >= PCT_WORDS - 1
NextFreeUnchecked == TRUE
NextFree == next_buff_rdy
ClearRequestLost == FALSE
ClearRequest == w_state = "clr_fifo"

WrFsm(in_pct_rdy) ==
    \/ ~in_pct_rdy /\ WrGoes("idle", "idle")
    \/ in_pct_rdy /\ WrGoes("idle", "rd_hdr")
    \/ WrGoes("rd_hdr", "wait_cmpr_pipe")
    \/ ~PipeFull /\ WrGoes("wait_cmpr_pipe", "wait_cmpr_pipe")
    \/ PipeFull /\ WrGoes("wait_cmpr_pipe", "check_smpl_nr")
    \/ Late /\ WrGoes("check_smpl_nr", "clr_fifo")
    \/ ~Late /\ current_buff_rdy /\ WrGoes("check_smpl_nr", "switch_next_buff")
    \/ ~Late /\ ~current_buff_rdy /\ WrGoes("check_smpl_nr", "check_smpl_nr")
    \/ WrGoes("clr_fifo", "idle")
    \/ WrGoes("switch_next_buff", "rd_pct")
    \/ ~PacketRead /\ WrGoes("rd_pct", "rd_pct")
    \/ PacketRead /\ WrGoes("rd_pct", "wait_wr_end")
    \/ in_pct_data_valid /\ WrGoes("wait_wr_end", "wait_wr_end")
    \/ ~in_pct_data_valid /\ WrGoes("wait_wr_end", "check_next_buf")
    \/ ~NextFree /\ WrGoes("check_next_buf", "check_next_buf")
    \/ NextFree /\ WrGoes("check_next_buf", "switch_current_buff")
    \/ WrGoes("switch_current_buff", "idle")

\* The two ring positions and the registered empty flags of their buffers.
WrBuffSel(buff_empty) ==
    /\ next_buff_cnt' = IF w_state = "switch_next_buff"
                        THEN NextBuffer(next_buff_cnt) ELSE next_buff_cnt
    /\ next_buff_rdy' = buff_empty[next_buff_cnt]
    /\ current_buff_cnt' = IF w_state = "check_next_buf"
                           THEN next_buff_cnt ELSE current_buff_cnt
    /\ current_buff_rdy' = buff_empty[current_buff_cnt]

WrCounters ==
    /\ w_rd_cnt' = CASE w_state \in {"rd_pct", "rd_hdr"} -> w_rd_cnt + 1
                     [] w_state = "idle" -> 0
                     [] OTHER -> w_rd_cnt
    /\ pipe_cnt' = IF w_state = "wait_cmpr_pipe" THEN pipe_cnt + 1 ELSE 0
    /\ pct_data_wrreq_cnt' = CASE in_pct_data_valid -> pct_data_wrreq_cnt + 1
                               [] ~in_pct_data_valid /\ w_state = "idle" -> 0
                               [] OTHER -> pct_data_wrreq_cnt

\* Request towards the stream FIFO, and the word that comes back: the first
\* of a packet goes to the header registers, the others to the buffer.
WrOutputs(in_pct_data) ==
    LET header == in_pct_data_valid /\ pct_data_wrreq_cnt = 0
        data   == in_pct_data_valid /\ pct_data_wrreq_cnt > 0
    IN  /\ in_pct_rdreq' = (w_state \in {"rd_pct", "rd_hdr"})
        /\ in_pct_data_valid' = in_pct_rdreq
        /\ in_pct_reset_req' = ClearRequest
        /\ pct_hdr' = IF header THEN in_pct_data.pkt ELSE pct_hdr
        /\ pct_hdr_valid' = IF header THEN {current_buff_cnt} ELSE {}
        /\ pct_data' = IF data THEN in_pct_data ELSE pct_data
        /\ pct_data_wrreq' = IF data THEN {current_buff_cnt} ELSE {}

WrCompare(sample_nr) == w_cmp' = Shift(w_cmp, Compare(pct_hdr.sn, sample_nr))

\* One clock edge of p2d_wr_fsm.
WrTick(in_pct_rdy, in_pct_data, buff_empty, sample_nr) ==
    /\ WrFsm(in_pct_rdy)
    /\ WrBuffSel(buff_empty)
    /\ WrCounters
    /\ WrOutputs(in_pct_data)
    /\ WrCompare(sample_nr)

=============================================================================
