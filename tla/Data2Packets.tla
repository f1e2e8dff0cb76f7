---------------------------- MODULE Data2Packets ----------------------------
(***************************************************************************)
(* The RX packet former, entity data2packets_top: a state machine reads    *)
(* the samples of one packet from the sample FIFO, bit_pack packs them     *)
(* into 64-bit words, and data2packets puts a two-word header before them. *)
(* A packet for which the packet FIFO has no room when the reading starts  *)
(* is read and formed all the same and then not written.                   *)
(*                                                                         *)
(* D2pTick is one edge of clk.  Sizes that the code keeps in registers     *)
(* loaded from sample_width follow it at once here: the width is set while *)
(* the path is off.  A word is its kind and, for a data word, the number   *)
(* of the first sample word with bits in it.                               *)
(***************************************************************************)
EXTENDS Integers, Sequences

CONSTANTS
    WIDTHS,         \* the sample widths in use
    GROUPS,         \* for each, the groups of sample words in a packet
    PCT_BUFF_WORDS  \* words that the packet FIFO holds

(***************************************************************************)
(* bit_pack turns a group of sample words into one word less: 4 words of   *)
(* 48 bits into 3, 8 words of 56 bits into 7.  It has StagesOf registers   *)
(* from the sample word that completes a word to its output.               *)
(***************************************************************************)
GroupOf(width) == CASE width = 12 -> 4 [] width = 14 -> 8 [] OTHER -> 1
PackedOf(width) == IF GroupOf(width) = 1 THEN 1 ELSE GroupOf(width) - 1
StagesOf(width) == CASE width = 12 -> 4 [] width = 14 -> 6 [] OTHER -> 1

ReadWordsOf(width) == GROUPS[width] * GroupOf(width)     \* 680, 144 or 510
PctWordsOf(width) == GROUPS[width] * PackedOf(width) + 2 \* 512 or 128

\* The packet former has begun by the time the reading of a packet ends.
ASSUME Data2PacketsAssumption ==
    /\ WIDTHS # {} /\ WIDTHS \subseteq {12, 14, 16}
    /\ GROUPS \in [WIDTHS -> Nat] /\ PCT_BUFF_WORDS \in Nat
    /\ \A width \in WIDTHS : /\ ReadWordsOf(width) >= StagesOf(width) + 4
                              /\ PctWordsOf(width) < PCT_BUFF_WORDS

VARIABLES
    sample_width,
    fsm,            \* current_state of data2packets_fsm
    rd_cnt,         \* smpl_buff_rd_cnt
    rd_done,        \* smpl_buff_rd_done
    wr_dis,         \* pct_buff_wr_dis: FALSE disables writing
    smpl_buff_rdy,
    pct_buff_rdy,
    in_valid,       \* inst1_data_in_valid
    pack_cnt,       \* wr_cnt of pack_48_to_64 or pack_56_to_64
    pack_reg,       \* its data48_in_reg or data56_in_reg
    pipe,           \* the registers of bit_pack, the output last
    former,         \* current_state of data2packets
    data_wr_cnt,    \* pct_data_wr_cnt
    end_cnt,        \* pct_end_cnt
    regs,           \* reg_0, reg_1, reg_2
    wrreq_int,      \* pct_wrreq_int
    done,           \* inst0_data2packets_done
    buff_wrreq,     \* pct_buff_wrreq
    buff_wrdata     \* pct_buff_wrdata

d2pVars == <<sample_width, fsm, rd_cnt, rd_done, wr_dis, smpl_buff_rdy, pct_buff_rdy, in_valid,
             pack_cnt, pack_reg, pipe, former, data_wr_cnt, end_cnt, regs,
             wrreq_int, done, buff_wrreq, buff_wrdata>>

GROUP == GroupOf(sample_width)
PACKED == PackedOf(sample_width)
STAGES == StagesOf(sample_width)
READ_WORDS == ReadWordsOf(sample_width)
PCT_WORDS == PctWordsOf(sample_width)

FsmStates == {"idle", "check_pct_buff", "rd_smpl_buff", "wait_data2packets_done"}
FormerStates == {"idle", "s0", "s1", "s2"}

NoWord == [kind |-> "none", nr |-> 0]

D2pInit ==
    /\ sample_width \in WIDTHS
    /\ fsm = "idle" /\ rd_cnt = 0 /\ rd_done = FALSE /\ wr_dis = FALSE
    /\ smpl_buff_rdy = FALSE /\ pct_buff_rdy = FALSE
    /\ in_valid = FALSE /\ pack_cnt = 0 /\ pack_reg = 0
    /\ pipe = [i \in 1..STAGES |-> NoWord]
    /\ former = "idle" /\ data_wr_cnt = 0 /\ end_cnt = 0
    /\ regs = <<NoWord, NoWord, NoWord>> /\ wrreq_int = FALSE
    /\ done = FALSE /\ buff_wrreq = FALSE /\ buff_wrdata = NoWord

\* While reset_n is low; the host may set another width then.
D2pReset ==
    /\ sample_width' \in WIDTHS
    /\ fsm' = "idle" /\ rd_cnt' = 0 /\ rd_done' = FALSE /\ wr_dis' = FALSE
    /\ smpl_buff_rdy' = FALSE /\ pct_buff_rdy' = FALSE
    /\ in_valid' = FALSE /\ pack_cnt' = 0 /\ pack_reg' = 0
    /\ pipe' = [i \in 1..STAGES' |-> NoWord]
    /\ former' = "idle" /\ data_wr_cnt' = 0 /\ end_cnt' = 0
    /\ regs' = <<NoWord, NoWord, NoWord>> /\ wrreq_int' = FALSE
    /\ done' = FALSE /\ buff_wrreq' = FALSE /\ buff_wrdata' = NoWord

-----------------------------------------------------------------------------
(* data2packets_fsm *)

FsmGoes(s, t) == fsm = s /\ fsm' = t

rdreq == fsm = "rd_smpl_buff"

D2pFsm ==
    \/ FsmGoes("idle", "check_pct_buff") /\ smpl_buff_rdy
    \/ FsmGoes("idle", "idle") /\ ~smpl_buff_rdy
    \/ FsmGoes("check_pct_buff", "rd_smpl_buff")
    \/ FsmGoes("rd_smpl_buff", "rd_smpl_buff") /\ ~rd_done
    \/ FsmGoes("rd_smpl_buff", "wait_data2packets_done") /\ rd_done
    \/ FsmGoes("wait_data2packets_done", "idle") /\ done
    \/ FsmGoes("wait_data2packets_done", "wait_data2packets_done") /\ ~done

WrDisNotCaptured == wr_dis' = pct_buff_rdy
WrDis == wr_dis' = IF fsm = "check_pct_buff" THEN pct_buff_rdy ELSE wr_dis

RdCnt ==
    /\ rd_cnt' = IF rdreq THEN rd_cnt + 1 ELSE 0
    /\ rd_done' = (rd_cnt >= READ_WORDS - 2)

-----------------------------------------------------------------------------
(* bit_pack; q is the sample word that the sample FIFO shows *)

BitPack(q) ==
    LET formed == IF GROUP = 1 THEN [kind |-> "data", nr |-> q]
                  ELSE [kind |-> "data", nr |-> pack_reg]
        valid == in_valid /\ (GROUP = 1 \/ pack_cnt # 0)
    IN  /\ pipe' = <<IF valid THEN formed ELSE NoWord>>
                     \o SubSeq(pipe, 1, STAGES - 1)
        /\ pack_cnt' = IF in_valid THEN (pack_cnt + 1) % GROUP ELSE pack_cnt
        /\ pack_reg' = IF in_valid THEN q ELSE pack_reg
        /\ in_valid' = rdreq

-----------------------------------------------------------------------------
(* data2packets *)

pct_data == pipe[STAGES]
pct_data_wrreq == pct_data.kind # "none"

FormerGoes(s, t) == former = s /\ former' = t

LastButOne == data_wr_cnt = PCT_WORDS - 4

FormerFsm ==
    \/ FormerGoes("idle", "s0") /\ pct_data_wrreq
    \/ FormerGoes("idle", "idle") /\ ~pct_data_wrreq
    \/ FormerGoes("s0", "s1") /\ LastButOne /\ pct_data_wrreq
    \/ FormerGoes("s0", "s0") /\ ~(LastButOne /\ pct_data_wrreq)
    \/ FormerGoes("s1", "s2") /\ pct_data_wrreq
    \/ FormerGoes("s1", "s1") /\ ~pct_data_wrreq
    \/ FormerGoes("s2", "idle") /\ end_cnt = 0
    \/ FormerGoes("s2", "s2") /\ end_cnt # 0

FormerCounters ==
    /\ data_wr_cnt' = CASE former = "s1" -> 0
                        [] former # "s1" /\ pct_data_wrreq -> data_wr_cnt + 1
                        [] OTHER -> data_wr_cnt
    /\ end_cnt' = IF former = "s2" THEN (end_cnt - 1) % 256 ELSE 1

\* The header is loaded with the first data word; then the three registers
\* shift with every word, and twice more in s2.
FormerRegs(hdr_0, hdr_1) ==
    LET load == former = "idle" /\ pct_data_wrreq
        shift == former = "s2" \/ pct_data_wrreq
    IN  /\ regs' = << IF load THEN hdr_0 ELSE IF shift THEN regs[2] ELSE regs[1],
                      IF load THEN hdr_1 ELSE IF shift THEN regs[3] ELSE regs[2],
                      IF pct_data_wrreq THEN pct_data ELSE regs[3] >>
        /\ wrreq_int' = shift

-----------------------------------------------------------------------------
(* data2packets_top *)

PctBuffHasRoomForData(wrusedw) == wrusedw < PCT_BUFF_WORDS - (PCT_WORDS - 2)
PctBuffHasRoomForTwo(wrusedw) == wrusedw < PCT_BUFF_WORDS - 2 * PCT_WORDS
PctBuffHasRoom(wrusedw) == wrusedw < PCT_BUFF_WORDS - PCT_WORDS
EnoughSamplesTooSoon(rdusedw) == rdusedw > READ_WORDS - 2
EnoughSamples(rdusedw) == rdusedw > READ_WORDS

TopRegs(rdusedw, wrusedw) ==
    /\ smpl_buff_rdy' = EnoughSamples(rdusedw)
    /\ pct_buff_rdy' = PctBuffHasRoom(wrusedw)
    /\ done' = (former = "idle")
    /\ buff_wrreq' = (wrreq_int /\ wr_dis)
    /\ buff_wrdata' = regs[1]

\* rdusedw and wrusedw are the fill of the two FIFOs as their counters show it.
D2pTick(q, rdusedw, wrusedw, hdr_0, hdr_1) ==
    /\ UNCHANGED sample_width
    /\ D2pFsm /\ WrDis /\ RdCnt
    /\ BitPack(q)
    /\ FormerFsm /\ FormerCounters /\ FormerRegs(hdr_0, hdr_1)
    /\ TopRegs(rdusedw, wrusedw)

=============================================================================
