------------------------------- MODULE P2dRd -------------------------------
(***************************************************************************)
(* The read side of the TX packet unpacker, entity p2d_rd.  It keeps the   *)
(* header of the packet in every buffer, compares all of them with the     *)
(* current sample number, and empties the buffers in ring order: into the  *)
(* sample FIFO when the packet's time has come or synchronisation is off,  *)
(* by clearing the buffer when the time has passed.                        *)
(***************************************************************************)
EXTENDS P2dWr

VARIABLES
    pct_hdr_array,        \* pct_hdr_0_array and pct_hdr_1_array
    r_cmp,                \* the comparator pipeline of every buffer
    crnt_buff_cnt,
    crnt_buff_rdy, crnt_buff_pct_synch_dis,
    crnt_buff_pct_smpl_nr,  \* the registered equal and less flags, as one
    r_rd_cnt,             \* rd_cnt: 64-bit words requested of the buffer
    r_state               \* current_state

rdVars == <<pct_hdr_array, r_cmp, crnt_buff_cnt, crnt_buff_rdy,
            crnt_buff_pct_synch_dis, crnt_buff_pct_smpl_nr, r_rd_cnt, r_state>>

RdStates == {"idle", "switch_next_buff", "check_next_buf", "rd_buff",
             "rd_hold", "clr_buff"}

\* 64-bit words of the data of a packet: ((PCT_SIZE-PCT_HDR_SIZE)*8)/64.
RD_WORDS == 2 * (PCT_WORDS - 1)

RdInit ==
    /\ pct_hdr_array = [i \in Buffers |-> ZeroHdr]
    /\ r_cmp = [i \in Buffers |-> EmptyPipe]
    /\ crnt_buff_cnt = 0
    /\ crnt_buff_rdy = FALSE
    /\ crnt_buff_pct_synch_dis = FALSE
    /\ crnt_buff_pct_smpl_nr = "greater"
    /\ r_rd_cnt = 0
    /\ r_state = "idle"

RdHeaders ==
    pct_hdr_array' = [i \in Buffers |-> IF i \in pct_hdr_valid
                                        THEN pct_hdr ELSE pct_hdr_array[i]]

RdCompare(sample_nr) ==
    r_cmp' = [i \in Buffers |->
                 Shift(r_cmp[i], Compare(pct_hdr_array[i].sn, sample_nr))]

\* Ring position, and the registered multiplexers behind it.
RdBuffSel(buff_rdy) ==
    /\ crnt_buff_cnt' = IF r_state = "switch_next_buff"
                        THEN NextBuffer(crnt_buff_cnt) ELSE crnt_buff_cnt
    /\ crnt_buff_rdy' = buff_rdy[crnt_buff_cnt]
    /\ crnt_buff_pct_synch_dis' = pct_hdr_array[crnt_buff_cnt].dis
    /\ crnt_buff_pct_smpl_nr' = r_cmp[crnt_buff_cnt][3]

\* rd_req_int
RdReq(almost_full) == r_state = "rd_buff" /\ ~almost_full

\* pct_buff_rdreq and the cleared bits of pct_buff_clr_n.
BuffRdReq(almost_full) == IF RdReq(almost_full) THEN {crnt_buff_cnt} ELSE {}
BuffClrLost == {}
BuffClr == IF r_state = "clr_buff" THEN {crnt_buff_cnt} ELSE {}

RdCounter(almost_full) ==
    r_rd_cnt' = CASE r_state = "idle" -> 0
                  [] r_state # "idle" /\ RdReq(almost_full) -> r_rd_cnt + 1
                  [] OTHER -> r_rd_cnt

-----------------------------------------------------------------------------
RdGoes(s, t) == r_state = s /\ r_state' = t

Unsynchronised == SYNCH_DIS \/ crnt_buff_pct_synch_dis

\* The verdicts on the time of a packet; the first is looked at first.
DueOrPast == crnt_buff_pct_smpl_nr \in {"equal", "less"}
Due == crnt_buff_pct_smpl_nr = "equal"
Past == crnt_buff_pct_smpl_nr = "less"

BuffReadTooSoon == r_rd_cnt >= RD_WORDS - 2
BuffRead == r_rd_cnt >= RD_WORDS - 1

RdFsm(almost_full) ==
    \/ ~crnt_buff_rdy /\ RdGoes("idle", "idle")
    \/ crnt_buff_rdy /\ Unsynchronised /\ RdGoes("idle", "rd_buff")
    \/ /\ crnt_buff_rdy /\ ~Unsynchronised
       /\ \/ Due /\ RdGoes("idle", "rd_buff")
          \/ ~Due /\ Past /\ RdGoes("idle", "clr_buff")
          \/ ~Due /\ ~Past /\ RdGoes("idle", "idle")
    \/ RdGoes("clr_buff", "switch_next_buff")
    \/ /\ ~almost_full /\ ~BuffRead
       /\ RdGoes("rd_buff", "rd_buff")
    \/ /\ ~almost_full /\ BuffRead
       /\ RdGoes("rd_buff", "switch_next_buff")
    \/ almost_full /\ RdGoes("rd_buff", "rd_hold")
    \/ ~almost_full /\ RdGoes("rd_hold", "rd_buff")
    \/ almost_full /\ RdGoes("rd_hold", "rd_hold")
    \/ RdGoes("switch_next_buff", "check_next_buf")
    \/ RdGoes("check_next_buf", "idle")

\* One clock edge of p2d_rd.
RdTick(buff_rdy, almost_full, sample_nr) ==
    /\ RdHeaders
    /\ RdCompare(sample_nr)
    /\ RdBuffSel(buff_rdy)
    /\ RdCounter(almost_full)
    /\ RdFsm(almost_full)

=============================================================================
