---------------------------- MODULE Packets2Data ----------------------------
(***************************************************************************)
(* The TX packet unpacker, entity packets2data with the part of rxtx_top   *)
(* that feeds it: p2d_wr_fsm and p2d_rd around a ring of packet buffers,   *)
(* on one clock (rxtx_top ties pct_wrclk and iq_rdclk to tx_clk).          *)
(*                                                                         *)
(* The stream FIFO in front holds one packet at most: module TxInput shows *)
(* why.  The sample FIFO behind is a flag that may rise at any time.       *)
(***************************************************************************)
EXTENDS P2dRd

CONSTANTS
    SAMPLE_NRS,    \* sample numbers a host writes into packet headers
    SAMPLE_STEPS,  \* by how much the sample number may move on a clock edge
    MAX_SAMPLE_NR, \* bound: the sample number stops there
    MAX_PACKETS    \* bound: packets the host sends

ASSUME P2dAssumption ==
    /\ SAMPLE_NRS \subseteq Nat
    /\ SAMPLE_STEPS \subseteq Nat
    /\ \E d \in SAMPLE_STEPS : \A e \in SAMPLE_STEPS : e <= d
    /\ MAX_SAMPLE_NR \in Nat
    /\ MAX_PACKETS \in Nat

VARIABLES
    npct,          \* packets the host has sent
    in_pct,        \* the packet in the stream FIFO
    in_left,       \* and how many of its words have not been read
    in_q,          \* output register of the stream FIFO
    in_pct_rdy,    \* inst1_in_pct_rdy of rxtx_top
    sample_nr,     \* rx_sample_nr_iq_rdclk
    buf,           \* contents of the packet buffers, in 64-bit words
    rd_sees_all,   \* has the last word written reached rdusedw
    wrempty,       \* instx_wrempty
    pct_buff_rdy,  \* pct_buff_rdy_int
    pct_data_clr,  \* inst1_pct_data_clr
    in_pct_clr_flag,
    buff_q,        \* instx_q, output registers of the packet buffers
    smpl_buff_valid_int, smpl_buff_valid, smpl_buff_q,
    last_smpl      \* history: the last 64-bit word delivered

bufVars == <<buf, rd_sees_all, wrempty, pct_buff_rdy, buff_q>>
inVars  == <<npct, in_pct, in_left, in_q, in_pct_rdy>>
outVars == <<pct_data_clr, in_pct_clr_flag, smpl_buff_valid_int,
             smpl_buff_valid, smpl_buff_q, last_smpl>>
vars == <<wrVars, rdVars, inVars, bufVars, outVars, sample_nr>>

Packets == [id : 1 .. MAX_PACKETS, sn : SAMPLE_NRS, dis : BOOLEAN]

\* A 64-bit word: the packet it belongs to and its place in the packet's data.
Half(p, j) == [pkt |-> p, pos |-> j]
NoHalf == Half(ZeroHdr, 0)
Halves(w) == <<Half(w.pkt, 2 * w.idx - 1), Half(w.pkt, 2 * w.idx)>>

\* The state that reset leaves.  The host's rx_en bit resets every register and
\* clears every FIFO at once, so that what follows a reset is again a behaviour
\* of Spec.
P2dInit ==
    /\ npct = 0
    /\ in_pct = ZeroHdr /\ in_left = 0 /\ in_q = Word(ZeroHdr, 0)
    /\ in_pct_rdy = FALSE
    /\ sample_nr = 0
    /\ buf = [i \in Buffers |-> <<>>]
    /\ rd_sees_all = [i \in Buffers |-> TRUE]
    /\ wrempty = [i \in Buffers |-> TRUE]
    /\ pct_buff_rdy = [i \in Buffers |-> FALSE]
    /\ pct_data_clr = FALSE /\ in_pct_clr_flag = FALSE
    /\ buff_q = [i \in Buffers |-> NoHalf]
    /\ smpl_buff_valid_int = FALSE /\ smpl_buff_valid = FALSE
    /\ smpl_buff_q = NoHalf /\ last_smpl = NoHalf

Init == WrInit /\ RdInit /\ P2dInit

-----------------------------------------------------------------------------
(* The stream FIFO, seen from tx_clk.                                      *)

HostSends(p) ==
    /\ in_left = 0 /\ ~in_pct_reset_req
    /\ npct < MAX_PACKETS /\ p.id = npct + 1
    /\ npct' = npct + 1
    /\ in_pct' = p /\ in_left' = PCT_WORDS
    /\ in_q' = in_q

HostSilent ==
    /\ UNCHANGED <<npct, in_pct>>
    /\ in_left' = CASE in_pct_reset_req -> 0
                    [] ~in_pct_reset_req /\ in_pct_rdreq /\ in_left > 0
                          -> in_left - 1
                    [] OTHER -> in_left
    /\ in_q' = IF in_pct_rdreq /\ in_left > 0
               THEN Word(in_pct, PCT_WORDS - in_left) ELSE in_q

\* rxtx_top: rdusedw is not less than the size of a packet.
PacketWaitingOffByOne == in_left >= PCT_WORDS - 1
PacketWaiting == in_left >= PCT_WORDS

StreamFifo ==
    /\ HostSilent \/ \E p \in Packets : HostSends(p)
    /\ in_pct_rdy' = PacketWaiting

\* The receive side's sample counter, brought to tx_clk by sync_fifo_rw.
SampleNr ==
    \E d \in SAMPLE_STEPS :
        /\ sample_nr + d <= MAX_SAMPLE_NR
        /\ sample_nr' = sample_nr + d

-----------------------------------------------------------------------------
(* The packet buffers, instances of fifo_inst (dual clock FIFO of the      *)
(* vendor).  Its flags lag behind the other side: fresh are the buffers    *)
(* whose flags catch up on this edge.                                      *)

Capacity == 2 * PCT_WORDS
Popped(i, full) == IF i \in BuffRdReq(full) /\ buf[i] # <<>>
                   THEN Tail(buf[i]) ELSE buf[i]
Pushed(i, full) == IF i \in pct_data_wrreq /\ Len(buf[i]) + 2 <= Capacity
                   THEN Popped(i, full) \o Halves(pct_data)
                   ELSE Popped(i, full)

BufferFifos(full, fresh) ==
    /\ buf' = [i \in Buffers |-> IF i \in BuffClr THEN <<>> ELSE Pushed(i, full)]
    /\ rd_sees_all' = [i \in Buffers |->
          \/ i \in BuffClr
          \/ i \notin pct_data_wrreq /\ (rd_sees_all[i] \/ i \in fresh)]
    /\ wrempty' = [i \in Buffers |->
          buf'[i] = <<>> /\ (wrempty[i] \/ i \in BuffClr \/ i \in fresh)]
    /\ buff_q' = [i \in Buffers |->
          IF i \in BuffRdReq(full) /\ buf[i] # <<>>
          THEN Head(buf[i]) ELSE buff_q[i]]

\* A buffer is ready when rdusedw is the size of the data of a packet.
BuffFull(i) == rd_sees_all[i] /\ Len(buf[i]) = RD_WORDS
BuffReady == pct_buff_rdy' = [i \in Buffers |-> BuffFull(i)]

\* The two clear requests, and the two register stages behind the buffers.
OutputRegs(full) ==
    /\ pct_data_clr' = (BuffClr # {})
    /\ in_pct_clr_flag' = (pct_data_clr \/ in_pct_reset_req)
    /\ smpl_buff_valid_int' = RdReq(full)
    /\ smpl_buff_valid' = smpl_buff_valid_int
    /\ smpl_buff_q' = buff_q[crnt_buff_cnt]
    /\ last_smpl' = IF smpl_buff_valid THEN smpl_buff_q ELSE last_smpl

\* One edge of tx_clk: every process of the design takes its step.
Tick(full, fresh) ==
    /\ WrTick(in_pct_rdy, in_q, wrempty, sample_nr)
    /\ RdTick(pct_buff_rdy, full, sample_nr)
    /\ StreamFifo
    /\ SampleNr
    /\ BufferFifos(full, fresh)
    /\ BuffReady
    /\ OutputRegs(full)

Next == \E full \in BOOLEAN, fresh \in SUBSET Buffers : Tick(full, fresh)

Spec == Init /\ [][Next]_vars

(* The clock runs and flags do not lag for ever; the receive side keeps     *)
(* counting samples; and the transmitter empties the sample FIFO: almost    *)
(* full is not raised at every attempt to read, since the words in flight   *)
(* run out while the reader holds and nothing else fills the FIFO.          *)
Fairness ==
    /\ WF_vars(\E full \in BOOLEAN : Tick(full, Buffers))
    /\ WF_vars(Next /\ sample_nr' # sample_nr)
    /\ SF_vars(r_state = "rd_buff" /\ \E fresh \in SUBSET Buffers : Tick(FALSE, fresh))

FairSpec == Spec /\ Fairness

-----------------------------------------------------------------------------
(* Properties.                                                             *)

Hdrs == Packets \cup {ZeroHdr}
WordsOf == [pkt : Hdrs, idx : 0 .. PCT_WORDS - 1]
HalvesOf == [pkt : Hdrs, pos : 0 .. RD_WORDS]
Verdicts == {"less", "equal", "greater"}

\* Every register and FIFO holds a value of its kind.
TypeOK ==
    /\ w_state \in WrStates
    /\ next_buff_cnt \in Buffers /\ current_buff_cnt \in Buffers
    /\ next_buff_rdy \in BOOLEAN /\ current_buff_rdy \in BOOLEAN
    /\ w_rd_cnt \in 0 .. PCT_WORDS /\ pipe_cnt \in 0 .. 5
    /\ in_pct_rdreq \in BOOLEAN /\ in_pct_data_valid \in BOOLEAN
    /\ pct_data_wrreq_cnt \in 0 .. PCT_WORDS
    /\ in_pct_reset_req \in BOOLEAN
    /\ pct_hdr \in Hdrs /\ pct_hdr_valid \in SUBSET Buffers
    /\ pct_data \in WordsOf /\ pct_data_wrreq \in SUBSET Buffers
    /\ w_cmp \in Verdicts \X Verdicts \X Verdicts
    /\ pct_hdr_array \in [Buffers -> Hdrs]
    /\ r_cmp \in [Buffers -> Verdicts \X Verdicts \X Verdicts]
    /\ crnt_buff_cnt \in Buffers
    /\ crnt_buff_rdy \in BOOLEAN /\ crnt_buff_pct_synch_dis \in BOOLEAN
    /\ crnt_buff_pct_smpl_nr \in Verdicts
    /\ r_rd_cnt \in 0 .. RD_WORDS /\ r_state \in RdStates
    /\ npct \in 0 .. MAX_PACKETS
    /\ in_pct \in Hdrs /\ in_left \in 0 .. PCT_WORDS /\ in_q \in WordsOf
    /\ in_pct_rdy \in BOOLEAN
    /\ sample_nr \in 0 .. MAX_SAMPLE_NR
    /\ buf \in [Buffers -> Seq(HalvesOf)]
    /\ rd_sees_all \in [Buffers -> BOOLEAN] /\ wrempty \in [Buffers -> BOOLEAN]
    /\ pct_buff_rdy \in [Buffers -> BOOLEAN]
    /\ pct_data_clr \in BOOLEAN /\ in_pct_clr_flag \in BOOLEAN
    /\ buff_q \in [Buffers -> HalvesOf]
    /\ smpl_buff_valid_int \in BOOLEAN /\ smpl_buff_valid \in BOOLEAN
    /\ smpl_buff_q \in HalvesOf /\ last_smpl \in HalvesOf

\* The write FSM asks the stream FIFO for a word only when there is one: it
\* takes in_pct_rdy, a cycle old, for the presence of a whole packet, also right
\* after it had the FIFO cleared.
StreamReadsServed == in_pct_rdreq => in_left > 0

\* A word on its way to a buffer finds room for it within the size of one
\* packet, so that a ready buffer, found by an exact comparison of its fill, is
\* never overshot.
RoomForEveryWord ==
    \A i \in pct_data_wrreq : Len(buf[i]) + 2 <= RD_WORDS

\* Whatever a buffer holds is a run of consecutive words of one packet, the one
\* whose header the read side keeps for that buffer.
BuffersMatchHeaders ==
    \A i \in Buffers : \A j \in 1 .. Len(buf[i]) :
        buf[i][j] = Half(pct_hdr_array[i], buf[i][1].pos + j - 1)

\* While the read FSM empties a buffer, what is left in it is exactly what the
\* FSM still has to read; and it clears whole packets only.
ReaderInStep ==
    /\ r_state \in {"rd_buff", "rd_hold"} =>
          Len(buf[crnt_buff_cnt]) = RD_WORDS - r_rd_cnt
    /\ r_state = "clr_buff" => Len(buf[crnt_buff_cnt]) = RD_WORDS

\* The 64-bit words delivered are whole packets: each word follows the one
\* before it in the same packet, or starts a later packet after the last word
\* of an earlier one.
Follows(a, b) ==
    \/ b.pkt = a.pkt /\ b.pos = a.pos + 1
    \/ b.pkt.id > a.pkt.id /\ b.pos = 1 /\ (a.pos = RD_WORDS \/ a = NoHalf)

OutputInOrder == [][smpl_buff_valid => Follows(last_smpl, smpl_buff_q)]_vars

\* A synchronised packet is started at its sample number: never before, and
\* after it by no more than the comparator and multiplexer pipeline of four.
MaxStep == CHOOSE d \in SAMPLE_STEPS : \A e \in SAMPLE_STEPS : e <= d
StartsOnTime ==
    [][ LET p == Head(buf[crnt_buff_cnt]).pkt
        IN  r_state = "idle" /\ r_state' = "rd_buff" /\ ~SYNCH_DIS /\ ~p.dis
              => p.sn <= sample_nr /\ sample_nr <= p.sn + 4 * MaxStep ]_vars

\* Only late packets are dropped, by the write FSM before they reach a buffer
\* and by the read FSM out of one: the verdict acted on is about this packet,
\* not about the one that was in the comparator before it.
MayDrop(p) == p.sn < sample_nr /\ ~p.dis /\ ~SYNCH_DIS
DropsOnlyLate ==
    /\ w_state = "clr_fifo" => MayDrop(in_pct)
    /\ r_state = "clr_buff" => MayDrop(Head(buf[crnt_buff_cnt]).pkt)

\* The unpacker uses the stream FIFO as the slot for one packet that module
\* TxInput shows it to be: it clears it only with the header read and the data
\* not begun.
Slot == INSTANCE PacketSlot WITH
            WITHDRAWS <- FALSE,
            left <- in_left, out <- [id |-> in_q.pkt.id, idx |-> in_q.idx]
ImplementsSlot == Slot!SlotSpec

-----------------------------------------------------------------------------
(* The inductive invariant: where every word of the packet in hand is, for *)
(* each state of the write FSM and each stage of its read pipeline, and    *)
(* what the read FSM may rely on.                                          *)

HeaderTaken ==
    /\ ~in_pct_rdreq /\ ~in_pct_data_valid /\ ~in_pct_rdy
    /\ w_rd_cnt = 1 /\ pct_data_wrreq_cnt = 1 /\ in_left = PCT_WORDS - 1

Writing == w_state \in {"rd_pct", "wait_wr_end"}

\* The stream FIFO, the read request pipeline and the two counters agree.
WrInStep ==
    /\ w_state = "idle" =>
          /\ ~in_pct_rdreq /\ ~in_pct_data_valid
          /\ \/ /\ ~in_pct_reset_req /\ in_left \in {0, PCT_WORDS}
                /\ in_pct_rdy => in_left = PCT_WORDS
             \/ in_pct_reset_req /\ in_left = PCT_WORDS - 1 /\ ~in_pct_rdy
    /\ w_state = "rd_hdr" =>
          /\ ~in_pct_rdreq /\ ~in_pct_data_valid
          /\ w_rd_cnt = 0 /\ pct_data_wrreq_cnt = 0 /\ in_left = PCT_WORDS
    /\ w_state = "wait_cmpr_pipe" =>
          \/ /\ pipe_cnt = 0 /\ in_pct_rdreq /\ ~in_pct_data_valid
             /\ w_rd_cnt = 1 /\ pct_data_wrreq_cnt = 0 /\ in_left = PCT_WORDS
          \/ /\ pipe_cnt = 1 /\ ~in_pct_rdreq /\ in_pct_data_valid
             /\ w_rd_cnt = 1 /\ pct_data_wrreq_cnt = 0 /\ in_left = PCT_WORDS - 1
          \/ pipe_cnt \in 2 .. 4 /\ HeaderTaken
    /\ w_state \in {"check_smpl_nr", "clr_fifo", "switch_next_buff"} => HeaderTaken
    /\ w_state = "rd_pct" =>
          /\ w_rd_cnt \in 1 .. PCT_WORDS - 1
          /\ (in_pct_rdreq <=> w_rd_cnt >= 2) /\ (in_pct_data_valid <=> w_rd_cnt >= 3)
          /\ in_left = PCT_WORDS - w_rd_cnt + (IF in_pct_rdreq THEN 1 ELSE 0)
          /\ pct_data_wrreq_cnt = PCT_WORDS - in_left
                                     - (IF in_pct_data_valid THEN 1 ELSE 0)
    /\ w_state = "wait_wr_end" =>
          /\ w_rd_cnt = PCT_WORDS
          /\ \/ /\ in_pct_rdreq /\ in_pct_data_valid
                /\ in_left = 1 /\ pct_data_wrreq_cnt = PCT_WORDS - 2
             \/ /\ ~in_pct_rdreq /\ in_left \in {0, PCT_WORDS}
                /\ \/ in_pct_data_valid /\ pct_data_wrreq_cnt = PCT_WORDS - 1
                   \/ ~in_pct_data_valid /\ pct_data_wrreq_cnt = PCT_WORDS
    /\ w_state \in {"check_next_buf", "switch_current_buff"} =>
          /\ ~in_pct_rdreq /\ ~in_pct_data_valid
          /\ in_left \in {0, PCT_WORDS}
    /\ in_pct_reset_req => w_state = "idle"
    /\ w_state # "wait_cmpr_pipe" => pipe_cnt = 0 \/ w_state = "check_smpl_nr"
    /\ in_pct_data_valid => in_q.idx = pct_data_wrreq_cnt
    /\ pct_data_wrreq # {} => pct_data.idx >= 1

\* The buffer being written: empty up to the first word, then filled by every
\* word that has come through; the next one is another buffer, and free once
\* the write FSM says so.
WrBuffers ==
    /\ \A i \in Buffers : wrempty[i] => buf[i] = <<>>
    /\ pct_data_wrreq # {} => Writing /\ pct_data_wrreq = {current_buff_cnt}
    /\ ~Writing /\ w_state # "check_next_buf" =>
          buf[current_buff_cnt] = <<>> /\ next_buff_cnt = current_buff_cnt
    /\ Writing =>
          /\ next_buff_cnt # current_buff_cnt
          /\ Len(buf[current_buff_cnt]) =
                2 * (pct_data_wrreq_cnt - 1
                        - (IF pct_data_wrreq = {} THEN 0 ELSE 1))
          /\ pct_data_wrreq_cnt > 0
          /\ w_state = "wait_wr_end" /\ pct_data_wrreq_cnt = PCT_WORDS =>
                pct_data_wrreq # {}
    /\ w_state \in {"wait_wr_end", "check_next_buf"} /\ next_buff_rdy =>
          buf[next_buff_cnt] = <<>>

\* The read FSM works on a buffer that is ready, and that nobody writes.
RdBuffers ==
    /\ \A i \in Buffers :
          /\ pct_buff_rdy[i]
          /\ i # crnt_buff_cnt \/ r_state \in {"idle", "check_next_buf"}
          => Len(buf[i]) = RD_WORDS
    /\ r_state = "idle" /\ crnt_buff_rdy => Len(buf[crnt_buff_cnt]) = RD_WORDS
    /\ r_state = "switch_next_buff" => buf[crnt_buff_cnt] = <<>>
    /\ r_state \in {"rd_buff", "rd_hold"} => r_rd_cnt < RD_WORDS
    /\ Writing /\ crnt_buff_cnt = current_buff_cnt =>
          r_state \notin {"rd_buff", "rd_hold", "clr_buff"}

\* The word last read is the one before the first that is left.
StreamInOrder ==
    /\ in_pct.id = npct /\ in_q.pkt.id <= npct
    /\ in_left = PCT_WORDS => in_q.pkt.id < npct
    /\ 0 < in_left /\ in_left < PCT_WORDS =>
          in_q = Word(in_pct, PCT_WORDS - in_left - 1)

\* The stream FIFO, the read pipeline, the counters of both FSMs and the fill
\* of the buffers are in step.
ControlInStep == WrInStep /\ StreamInOrder /\ WrBuffers /\ RdBuffers /\ ReaderInStep

(* What the words are, on top of where they are.                           *)

\* The header registers hold the header of the packet being handled from the
\* third cycle of wait_cmpr_pipe on; the read side's copy follows a cycle later.
HeaderHeld == \/ w_state = "wait_cmpr_pipe" /\ pipe_cnt >= 2
              \/ w_state \in {"check_smpl_nr", "clr_fifo", "switch_next_buff"}
              \/ Writing
HeaderCopied == HeaderHeld /\ (w_state = "wait_cmpr_pipe" => pipe_cnt >= 3)

HeadersInStep ==
    /\ HeaderHeld => pct_hdr = in_q.pkt
    /\ HeaderCopied => pct_hdr_array[current_buff_cnt] = pct_hdr
    /\ pct_hdr_valid = IF w_state = "wait_cmpr_pipe" /\ pipe_cnt = 2
                       THEN {current_buff_cnt} ELSE {}
    /\ pct_data_wrreq # {} => pct_data = Word(pct_hdr, pct_data_wrreq_cnt - 1)

\* A buffer is filled from the first word of its packet on, and read up to the
\* last one.
Held(i) == buf[i] # <<>> \/ (Writing /\ i = current_buff_cnt)
FirstPos(i) == IF Writing /\ i = current_buff_cnt THEN 1
               ELSE RD_WORDS + 1 - Len(buf[i])
WordsInStep ==
    \A i \in Buffers : \A j \in 1 .. Len(buf[i]) :
        buf[i][j] = Half(pct_hdr_array[i], FirstPos(i) + j - 1)

\* A verdict that is k edges old is right about the header it was made for: a
\* packet once late stays late, and one met on time is late by k steps at most.
Sound(v, sn, now, k) ==
    /\ v = "less" => sn < now
    /\ v = "equal" => sn <= now /\ now <= sn + k * MaxStep
WrVerdict(k) == w_cmp[k] = "less" => pct_hdr.sn < sample_nr
RdVerdict(i, k) == Sound(r_cmp[i][k], pct_hdr_array[i].sn, sample_nr, k)

\* The stages of the comparators that have seen the header in hand.
VerdictsInStep ==
    /\ w_state = "wait_cmpr_pipe" =>
          /\ pipe_cnt >= 3 => WrVerdict(1)
          /\ pipe_cnt >= 4 => WrVerdict(2) /\ RdVerdict(current_buff_cnt, 1)
    /\ w_state = "check_smpl_nr" =>
          /\ WrVerdict(1) /\ WrVerdict(2) /\ WrVerdict(3)
          /\ RdVerdict(current_buff_cnt, 1) /\ RdVerdict(current_buff_cnt, 2)
    /\ w_state = "clr_fifo" => MayDrop(pct_hdr)
    /\ \A i \in Buffers :
          Held(i) \/ (w_state = "switch_next_buff" /\ i = current_buff_cnt) =>
             RdVerdict(i, 1) /\ RdVerdict(i, 2) /\ RdVerdict(i, 3)
    /\ r_state = "idle" /\ crnt_buff_rdy =>
          /\ crnt_buff_pct_synch_dis = pct_hdr_array[crnt_buff_cnt].dis
          /\ Sound(crnt_buff_pct_smpl_nr, pct_hdr_array[crnt_buff_cnt].sn,
                   sample_nr, 4)
    /\ r_state = "clr_buff" => MayDrop(pct_hdr_array[crnt_buff_cnt])

\* How far behind n a buffer is in the ring.
Behind(n, i) == IF i < n THEN n - i ELSE n - i + N_BUFF

\* The buffers from c up to the one before n; none if c itself is not used.
RingFrom(used, c, n) ==
    IF c \in used THEN used = {i \in Buffers : Behind(n, i) <= Behind(n, c)}
    ELSE used = {} /\ c = n

\* The buffers in use are those from the one the read FSM is at to the one
\* before the next to fill, and hold packets in the order of the ring, which is
\* the order in which they were read from the stream FIFO.
NewHeader == ~Writing /\ (HeaderHeld \/ in_pct_data_valid)
InUse == {i \in Buffers : Held(i) \/ (r_state = "switch_next_buff" /\ i = crnt_buff_cnt)}
RingInOrder ==
    /\ ~Writing /\ w_state # "check_next_buf" => current_buff_cnt \notin InUse
    /\ w_state \in {"wait_wr_end", "check_next_buf"} /\ next_buff_rdy =>
          next_buff_cnt \notin InUse
    /\ Writing /\ crnt_buff_cnt = current_buff_cnt => r_state # "switch_next_buff"
    /\ RingFrom(InUse, crnt_buff_cnt, next_buff_cnt)
    /\ \A i, j \in InUse :
          Behind(next_buff_cnt, j) < Behind(next_buff_cnt, i)
          => pct_hdr_array[i].id < pct_hdr_array[j].id
    /\ \A i \in InUse :
          /\ pct_hdr_array[i].id <= in_q.pkt.id
          /\ NewHeader => pct_hdr_array[i].id < in_q.pkt.id

\* The newest word on its way out of the unpacker, and the one before it.
Delivered == IF smpl_buff_valid THEN smpl_buff_q ELSE last_smpl
Newest == IF smpl_buff_valid_int THEN buff_q[crnt_buff_cnt] ELSE Delivered

Reading == r_state \in {"rd_buff", "rd_hold"} /\ r_rd_cnt > 0
LastOfPacket(a) == a.pos = RD_WORDS \/ a = NoHalf

OutputInStep ==
    /\ smpl_buff_valid => Follows(last_smpl, smpl_buff_q)
    /\ smpl_buff_valid_int => Follows(Delivered, buff_q[crnt_buff_cnt])
    /\ Reading => Newest = Half(pct_hdr_array[crnt_buff_cnt], r_rd_cnt)
    /\ ~Reading => LastOfPacket(Newest)
    /\ \A i \in InUse :
          \/ Newest.pkt.id < pct_hdr_array[i].id
          \/ /\ i = crnt_buff_cnt /\ Newest.pkt.id = pct_hdr_array[i].id
             /\ Reading \/ r_state = "switch_next_buff"
    /\ Newest.pkt.id <= in_q.pkt.id
    /\ NewHeader => Newest.pkt.id < in_q.pkt.id

DataInStep ==
    HeadersInStep /\ WordsInStep /\ VerdictsInStep /\ RingInOrder /\ OutputInStep

\* At every clock edge the two FSMs, the FIFOs and their counters are in step,
\* and every word, header and verdict is where the packet it belongs to is.
InStep == ControlInStep /\ DataInStep

-----------------------------------------------------------------------------
\* A packet in the stream FIFO is always taken, to a buffer or to be dropped,
\* and a packet in a buffer always leaves it: neither side waits for ever.
StreamDrains == in_left > 0 ~> in_left = 0
BuffersDrain == \A i \in Buffers : buf[i] # <<>> ~> buf[i] = <<>>

=============================================================================
