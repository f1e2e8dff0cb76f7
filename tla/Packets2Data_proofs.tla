------------------------ MODULE Packets2Data_proofs ------------------------
(***************************************************************************)
(* Proofs about the TX packet unpacker, for any number of buffers, any     *)
(* packet size and any host.  First its control: the inductive invariant   *)
(* TypeOK /\ ControlInStep and what follows from it; then its data.        *)
(***************************************************************************)
EXTENDS Packets2Data, TLAPS

IInv == TypeOK /\ ControlInStep

\* The constants are what the entity's generics may be.
LEMMA Constants ==
    /\ N_BUFF \in Nat /\ N_BUFF >= 2 /\ PCT_WORDS \in Nat /\ PCT_WORDS >= 3
    /\ RD_WORDS \in Nat /\ RD_WORDS = 2 * (PCT_WORDS - 1) /\ RD_WORDS >= 4
    /\ 0 \in Buffers
    /\ SAMPLE_NRS \subseteq Nat /\ SAMPLE_STEPS \subseteq Nat
    /\ MAX_SAMPLE_NR \in Nat /\ MAX_PACKETS \in Nat /\ SYNCH_DIS \in BOOLEAN
  BY WrAssumption, P2dAssumption DEF RD_WORDS, Buffers

\* The ring has at least two buffers: the next one is another one.
LEMMA NextBufferType ==
    ASSUME NEW i \in Buffers
    PROVE  NextBuffer(i) \in Buffers /\ NextBuffer(i) # i
  BY Constants DEF NextBuffer, Buffers

\* A comparison has one of three verdicts, and a pipeline of verdicts stays one.
LEMMA PipeType ==
    ASSUME NEW pipe \in Verdicts \X Verdicts \X Verdicts, NEW a, NEW b
    PROVE  Shift(pipe, Compare(a, b)) \in Verdicts \X Verdicts \X Verdicts
  BY DEF Shift, Compare, Verdicts

LEMMA InitIInv == Init => IInv
<1> SUFFICES ASSUME Init PROVE IInv
  OBVIOUS
<1> USE Constants
<1>1. ZeroHdr \in Hdrs
  BY DEF Hdrs
<1>2. EmptyPipe \in Verdicts \X Verdicts \X Verdicts
  BY DEF EmptyPipe, Verdicts
<1>3. NoHalf \in HalvesOf /\ Word(ZeroHdr, 0) \in WordsOf
  BY <1>1 DEF NoHalf, Half, HalvesOf, Word, WordsOf
<1>4. <<>> \in Seq(HalvesOf) /\ Len(<<>>) = 0
  OBVIOUS
<1>5. TypeOK
  BY <1>1, <1>2, <1>3, <1>4
  DEF Init, WrInit, RdInit, P2dInit, TypeOK, WrStates, RdStates, Verdicts
<1>6. ControlInStep
  BY <1>4 DEF Init, WrInit, RdInit, P2dInit, ControlInStep, WrInStep, WrBuffers,
              RdBuffers, ReaderInStep, HeaderTaken, Writing, StreamInOrder,
              ZeroHdr, Word
<1> QED
  BY <1>5, <1>6 DEF IInv

-----------------------------------------------------------------------------
(* What one clock edge does to a packet buffer.                            *)

\* Two 64-bit words of a data word.
LEMMA HalvesType ==
    ASSUME TypeOK, pct_data.idx >= 1
    PROVE  Halves(pct_data) \in Seq(HalvesOf) /\ Len(Halves(pct_data)) = 2
<1>1. pct_data.pkt \in Hdrs /\ pct_data.idx \in 1 .. PCT_WORDS - 1
  BY Constants DEF TypeOK, WordsOf
<1>2. Half(pct_data.pkt, 2 * pct_data.idx - 1) \in HalvesOf
  BY <1>1, Constants DEF Half, HalvesOf
<1>3. Half(pct_data.pkt, 2 * pct_data.idx) \in HalvesOf
  BY <1>1, Constants DEF Half, HalvesOf
<1> QED
  BY <1>2, <1>3 DEF Halves

\* Nobody reads or clears the buffer that a word is written to, and it has
\* room for the word.
LEMMA WriteAlone ==
    ASSUME IInv, NEW i \in pct_data_wrreq
    PROVE  /\ i = current_buff_cnt /\ i \in Buffers /\ Writing
           /\ ~(i = crnt_buff_cnt /\ r_state \in {"rd_buff", "rd_hold", "clr_buff"})
           /\ pct_data_wrreq_cnt >= 2
           /\ Len(buf[i]) = 2 * (pct_data_wrreq_cnt - 2)
           /\ Len(buf[i]) + 2 <= RD_WORDS
<1>1. i = current_buff_cnt /\ i \in Buffers /\ Writing
  BY DEF IInv, ControlInStep, WrBuffers, TypeOK
<1>2. Len(buf[i]) = 2 * (pct_data_wrreq_cnt - 2) /\ Len(buf[i]) \in Nat
  BY <1>1, Constants DEF IInv, ControlInStep, WrBuffers, TypeOK
<1>3. pct_data_wrreq_cnt \in 0 .. PCT_WORDS
  BY DEF IInv, TypeOK
<1>4. pct_data_wrreq_cnt >= 2 /\ Len(buf[i]) + 2 <= RD_WORDS
  BY <1>2, <1>3, Constants
<1> QED
  BY <1>1, <1>2, <1>4 DEF IInv, ControlInStep, RdBuffers

LEMMA BufferStep ==
    ASSUME IInv, NEW full \in BOOLEAN, NEW fresh \in SUBSET Buffers,
           BufferFifos(full, fresh), NEW i \in Buffers
    PROVE  /\ buf'[i] \in Seq(HalvesOf) /\ buff_q'[i] \in HalvesOf
           /\ i \in pct_data_wrreq =>
                /\ i \notin BuffClr /\ i \notin BuffRdReq(full)
                /\ buf'[i] = buf[i] \o Halves(pct_data)
                /\ Len(buf'[i]) = Len(buf[i]) + 2
           /\ i \notin pct_data_wrreq /\ i \notin BuffClr /\ i \notin BuffRdReq(full)
                => buf'[i] = buf[i]
           /\ i \in BuffClr => buf'[i] = <<>>
           /\ i \in BuffRdReq(full) =>
                /\ Len(buf[i]) > 0 /\ Len(buf'[i]) = Len(buf[i]) - 1
                /\ buf'[i] = Tail(buf[i]) /\ buff_q'[i] = Head(buf[i])
           /\ i \notin BuffRdReq(full) => buff_q'[i] = buff_q[i]
<1>1. buf[i] \in Seq(HalvesOf) /\ buff_q[i] \in HalvesOf
  BY DEF IInv, TypeOK
<1>2. /\ buf'[i] = IF i \in BuffClr THEN <<>> ELSE Pushed(i, full)
      /\ buff_q'[i] = IF i \in BuffRdReq(full) /\ buf[i] # <<>>
                      THEN Head(buf[i]) ELSE buff_q[i]
  BY DEF BufferFifos
<1>3. CASE i \in pct_data_wrreq
  <2>1. i \notin BuffClr /\ i \notin BuffRdReq(full)
    BY <1>3, WriteAlone DEF BuffClr, BuffRdReq, RdReq
  <2>2. Len(buf[i]) + 2 <= Capacity
    <3>1. Len(buf[i]) \in Nat /\ Len(buf[i]) + 2 <= RD_WORDS
      BY <1>3, <1>1, WriteAlone
    <3> QED
      BY <3>1, Constants DEF Capacity
  <2>3. buf'[i] = buf[i] \o Halves(pct_data)
    BY <1>2, <1>3, <2>1, <2>2 DEF Pushed, Popped
  <2>4. pct_data.idx >= 1
    BY <1>3 DEF IInv, ControlInStep, WrInStep
  <2>5. Halves(pct_data) \in Seq(HalvesOf) /\ Len(Halves(pct_data)) = 2
    BY <2>4, HalvesType DEF IInv
  <2>6. \A s, t \in Seq(HalvesOf) : s \o t \in Seq(HalvesOf)
                                    /\ Len(s \o t) = Len(s) + Len(t)
    OBVIOUS
  <2>7. buf'[i] \in Seq(HalvesOf) /\ Len(buf'[i]) = Len(buf[i]) + 2
    BY <1>1, <2>3, <2>5, <2>6
  <2>8. buff_q'[i] \in HalvesOf
    BY <1>1, <1>2, <2>1
  <2> QED
    BY <1>2, <1>3, <2>1, <2>3, <2>7, <2>8
<1>4. CASE i \notin pct_data_wrreq /\ i \in BuffRdReq(full)
  <2>1. i = crnt_buff_cnt /\ r_state = "rd_buff" /\ i \notin BuffClr
    BY <1>4 DEF BuffRdReq, RdReq, BuffClr
  <2>2. Len(buf[i]) = RD_WORDS - r_rd_cnt /\ r_rd_cnt < RD_WORDS
    BY <2>1 DEF IInv, ControlInStep, ReaderInStep, RdBuffers
  <2>3. Len(buf[i]) > 0
    BY <2>2, Constants DEF IInv, TypeOK
  <2>4. buf[i] # <<>>
    BY <2>3, <1>1
  <2>5. buf'[i] = Tail(buf[i]) /\ buff_q'[i] = Head(buf[i])
    BY <1>2, <1>4, <2>1, <2>4 DEF Pushed, Popped
  <2> QED
    BY <1>1, <1>4, <2>1, <2>3, <2>4, <2>5
<1>5. CASE i \notin pct_data_wrreq /\ i \notin BuffRdReq(full)
  BY <1>1, <1>2, <1>5 DEF Pushed, Popped
<1> QED
  BY <1>3, <1>4, <1>5

-----------------------------------------------------------------------------
(* What one clock edge does to the stream FIFO.                            *)

LEMMA StreamStep ==
    ASSUME IInv, StreamFifo
    PROVE  /\ in_pct_rdreq => in_left > 0 /\ ~in_pct_reset_req
           /\ in_pct_rdreq => /\ in_left' = in_left - 1
                              /\ in_q' = Word(in_pct, PCT_WORDS - in_left)
           /\ ~in_pct_rdreq => in_q' = in_q
           /\ ~in_pct_rdreq /\ ~in_pct_reset_req /\ in_left > 0 => in_left' = in_left
           /\ ~in_pct_reset_req /\ in_left = 0 => in_left' \in {0, PCT_WORDS}
           /\ in_pct_reset_req => in_left' = 0
           /\ in_pct_rdy' <=> in_left >= PCT_WORDS
<1> USE Constants
<1>0. in_left \in 0 .. PCT_WORDS /\ w_state \in WrStates /\ w_rd_cnt \in Nat
  BY DEF IInv, TypeOK
<1>1. in_pct_rdreq => w_state \in {"wait_cmpr_pipe", "rd_pct", "wait_wr_end"}
  BY <1>0 DEF WrStates, IInv, ControlInStep, WrInStep, HeaderTaken
<1>2. in_pct_rdreq => in_left > 0 /\ ~in_pct_reset_req
  BY <1>0, <1>1 DEF IInv, ControlInStep, WrInStep, HeaderTaken
<1>3. in_pct_rdy' <=> in_left >= PCT_WORDS
  BY DEF StreamFifo, PacketWaiting
<1>4. CASE HostSilent
  BY <1>0, <1>2, <1>3, <1>4 DEF HostSilent
<1>5. CASE \E p \in Packets : HostSends(p)
  BY <1>0, <1>2, <1>3, <1>5 DEF HostSends
<1> QED
  BY <1>4, <1>5 DEF StreamFifo

LEMMA StreamInOrderStep ==
    ASSUME IInv, StreamFifo
    PROVE  StreamInOrder'
<1> USE Constants
<1>1. in_left \in 0 .. PCT_WORDS /\ npct \in Nat /\ StreamInOrder
  BY DEF IInv, ControlInStep, TypeOK
<1>2. in_q.pkt.id \in Nat
  BY DEF IInv, TypeOK, WordsOf, Hdrs, Packets, ZeroHdr
<1>3. CASE HostSilent
  <2>1. CASE in_pct_rdreq /\ in_left > 0
    <3>1. in_left' = in_left - 1 /\ in_q' = Word(in_pct, PCT_WORDS - in_left)
      BY <2>1, StreamStep
    <3> QED
      BY <1>1, <1>3, <2>1, <3>1 DEF HostSilent, StreamInOrder, Word
  <2>2. CASE ~in_pct_rdreq
    BY <1>1, <1>3, <2>2 DEF HostSilent, StreamInOrder, Word
  <2> QED
    BY <2>1, <2>2, StreamStep
<1>4. CASE \E p \in Packets : HostSends(p)
  BY <1>1, <1>2, <1>4 DEF HostSends, StreamInOrder, Word, Packets
<1> QED
  BY <1>3, <1>4 DEF StreamFifo

\* What the stream FIFO does is a step of the slot, or none.
LEMMA SlotStep ==
    ASSUME IInv, StreamFifo
    PROVE  [Slot!SlotNext]_(Slot!slotVars)
<1> USE Constants
<1>1. in_left \in 0 .. PCT_WORDS /\ npct \in Nat /\ StreamInOrder
  BY DEF IInv, ControlInStep, TypeOK
<1>2. CASE HostSilent
  <2>1. CASE in_pct_rdreq /\ in_left = PCT_WORDS
    <3>1. in_left' = in_left - 1 /\ in_q' = Word(in_pct, 0)
      BY <2>1, StreamStep
    <3>2. Slot!ReadHeader
      BY <1>1, <2>1, <3>1 DEF Slot!ReadHeader, StreamInOrder, Word
    <3> QED
      BY <3>2 DEF Slot!SlotNext
  <2>2. CASE in_pct_rdreq /\ in_left # PCT_WORDS
    <3>1. in_left > 0 /\ in_left' = in_left - 1
          /\ in_q' = Word(in_pct, PCT_WORDS - in_left)
      BY <2>2, StreamStep
    <3>2. in_q = Word(in_pct, PCT_WORDS - in_left - 1)
      BY <1>1, <2>2, <3>1 DEF StreamInOrder
    <3>3. Slot!ReadData
      BY <1>1, <2>2, <3>1, <3>2 DEF Slot!ReadData, Word
    <3> QED
      BY <3>3 DEF Slot!SlotNext
  <2>3. CASE ~in_pct_rdreq /\ in_pct_reset_req
    <3>1. in_left = PCT_WORDS - 1
      BY <2>3 DEF IInv, ControlInStep, WrInStep
    <3>2. Slot!Clear
      BY <1>2, <2>3, <3>1 DEF HostSilent, Slot!Clear
    <3> QED
      BY <3>2 DEF Slot!SlotNext
  <2>4. CASE ~in_pct_rdreq /\ ~in_pct_reset_req
    <3>1. in_left' = in_left /\ in_q' = in_q
      BY <1>2, <2>4 DEF HostSilent
    <3> QED
      BY <3>1 DEF Slot!slotVars
  <2> QED
    BY <2>1, <2>2, <2>3, <2>4
<1>3. CASE \E p \in Packets : HostSends(p)
  <2>1. Slot!Fill
    BY <1>3 DEF HostSends, Slot!Fill
  <2> QED
    BY <2>1 DEF Slot!SlotNext
<1> QED
  BY <1>2, <1>3 DEF StreamFifo

-----------------------------------------------------------------------------
(* The write FSM, its counters and its read pipeline.                      *)

LEMMA WrInStepStep ==
    ASSUME IInv, NEW full \in BOOLEAN, NEW fresh \in SUBSET Buffers,
           Tick(full, fresh)
    PROVE  WrInStep'
<1> USE Constants
<1>1. WrInStep /\ TypeOK
  BY DEF IInv, ControlInStep
<1>2. /\ w_state \in WrStates /\ w_rd_cnt \in 0 .. PCT_WORDS
      /\ pipe_cnt \in 0 .. 5 /\ pct_data_wrreq_cnt \in 0 .. PCT_WORDS
      /\ in_left \in 0 .. PCT_WORDS
      /\ in_pct_rdreq \in BOOLEAN /\ in_pct_data_valid \in BOOLEAN
      /\ in_pct_reset_req \in BOOLEAN /\ in_pct_rdy \in BOOLEAN
  BY <1>1 DEF TypeOK
<1>3. WrFsm(in_pct_rdy) /\ WrCounters /\ WrOutputs(in_q) /\ StreamFifo
  BY DEF Tick, WrTick
<1>4. /\ in_pct_rdreq => in_left > 0 /\ ~in_pct_reset_req
      /\ in_pct_rdreq => in_left' = in_left - 1
      /\ ~in_pct_rdreq /\ ~in_pct_reset_req /\ in_left > 0 => in_left' = in_left
      /\ ~in_pct_reset_req /\ in_left = 0 => in_left' \in {0, PCT_WORDS}
      /\ in_pct_reset_req => in_left' = 0
      /\ in_pct_rdy' <=> in_left >= PCT_WORDS
  BY <1>3, StreamStep
<1>5. /\ in_pct_rdreq' <=> w_state \in {"rd_pct", "rd_hdr"}
      /\ in_pct_data_valid' <=> in_pct_rdreq
      /\ in_pct_reset_req' <=> w_state = "clr_fifo"
  BY <1>2, <1>3 DEF WrOutputs, ClearRequest
<1>6. /\ w_state \in {"rd_pct", "rd_hdr"} => w_rd_cnt' = w_rd_cnt + 1
      /\ w_state = "idle" => w_rd_cnt' = 0
      /\ w_state \notin {"rd_pct", "rd_hdr", "idle"} => w_rd_cnt' = w_rd_cnt
      /\ w_state = "wait_cmpr_pipe" => pipe_cnt' = pipe_cnt + 1
      /\ w_state # "wait_cmpr_pipe" => pipe_cnt' = 0
      /\ in_pct_data_valid => pct_data_wrreq_cnt' = pct_data_wrreq_cnt + 1
      /\ ~in_pct_data_valid /\ w_state = "idle" => pct_data_wrreq_cnt' = 0
      /\ ~in_pct_data_valid /\ w_state # "idle"
            => pct_data_wrreq_cnt' = pct_data_wrreq_cnt
  BY <1>2, <1>3 DEF WrCounters
<1>7. in_pct_data_valid' => in_q'.idx = pct_data_wrreq_cnt'
  <2> SUFFICES ASSUME in_pct_rdreq PROVE in_q'.idx = pct_data_wrreq_cnt'
    BY <1>5
  <2>1. in_q'.idx = PCT_WORDS - in_left
    BY <1>3, StreamStep DEF Word
  <2>2. w_state \in {"wait_cmpr_pipe", "rd_pct", "wait_wr_end"}
    BY <1>1, <1>2 DEF WrStates, WrInStep, HeaderTaken
  <2>3. PCT_WORDS - in_left = pct_data_wrreq_cnt'
    BY <1>1, <1>2, <1>6, <2>2 DEF WrInStep, HeaderTaken
  <2> QED
    BY <2>1, <2>3
<1>8. pct_data_wrreq' # {} => pct_data'.idx >= 1
  BY <1>1, <1>2, <1>3 DEF WrOutputs, WrInStep
<1>9. CASE w_state = "idle"
  BY <1>1, <1>2, <1>3, <1>4, <1>5, <1>6, <1>7, <1>8, <1>9
  DEF WrFsm, WrGoes, WrInStep, HeaderTaken
<1>10. CASE w_state = "rd_hdr"
  BY <1>1, <1>2, <1>3, <1>4, <1>5, <1>6, <1>7, <1>8, <1>10
  DEF WrFsm, WrGoes, WrInStep, HeaderTaken
<1>11. CASE w_state = "wait_cmpr_pipe"
  BY <1>1, <1>2, <1>3, <1>4, <1>5, <1>6, <1>7, <1>8, <1>11
  DEF WrFsm, WrGoes, WrInStep, HeaderTaken, PipeFull
<1>12. CASE w_state \in {"check_smpl_nr", "clr_fifo", "switch_next_buff"}
  BY <1>1, <1>2, <1>3, <1>4, <1>5, <1>6, <1>7, <1>8, <1>12
  DEF WrFsm, WrGoes, WrInStep, HeaderTaken
<1>13. CASE w_state = "rd_pct"
  BY <1>1, <1>2, <1>3, <1>4, <1>5, <1>6, <1>7, <1>8, <1>13
  DEF WrFsm, WrGoes, WrInStep, HeaderTaken, PacketRead
<1>14. CASE w_state = "wait_wr_end"
  BY <1>1, <1>2, <1>3, <1>4, <1>5, <1>6, <1>7, <1>8, <1>14
  DEF WrFsm, WrGoes, WrInStep, HeaderTaken
<1>15. CASE w_state \in {"check_next_buf", "switch_current_buff"}
  BY <1>1, <1>2, <1>3, <1>4, <1>5, <1>6, <1>7, <1>8, <1>15
  DEF WrFsm, WrGoes, WrInStep, HeaderTaken
<1> QED
  BY <1>2, <1>9, <1>10, <1>11, <1>12, <1>13, <1>14, <1>15 DEF WrStates

-----------------------------------------------------------------------------
(* The buffer being written, and the buffer being read.                    *)

\* An empty buffer that no word is written to stays empty.
LEMMA EmptyStays ==
    ASSUME IInv, NEW full \in BOOLEAN, NEW fresh \in SUBSET Buffers,
           BufferFifos(full, fresh),
           NEW i \in Buffers, i \notin pct_data_wrreq, buf[i] = <<>>
    PROVE  buf'[i] = <<>>
<1>1. i \notin BuffRdReq(full)
  BY BufferStep
<1> QED
  BY <1>1, BufferStep

\* A full buffer is not the one being written.
LEMMA FullNotWritten ==
    ASSUME IInv, NEW i \in Buffers, Len(buf[i]) = RD_WORDS
    PROVE  i \notin pct_data_wrreq /\ (Writing => i # current_buff_cnt)
<1>1. i \notin pct_data_wrreq
  BY WriteAlone, Constants
<1>2. SUFFICES ASSUME Writing, i = current_buff_cnt PROVE FALSE
  BY <1>1
<1>3. pct_data_wrreq = {}
  BY <1>1, <1>2 DEF IInv, ControlInStep, WrBuffers
<1>4. Len(buf[current_buff_cnt]) = 2 * (pct_data_wrreq_cnt - 1 - 0)
  BY <1>2, <1>3 DEF IInv, ControlInStep, WrBuffers
<1>5. pct_data_wrreq_cnt = PCT_WORDS
  BY <1>2, <1>4, Constants DEF IInv, TypeOK
<1>6. w_state # "rd_pct"
  BY <1>5, Constants DEF IInv, ControlInStep, WrInStep
<1> QED
  BY <1>2, <1>3, <1>5, <1>6 DEF Writing, IInv, ControlInStep, WrBuffers

LEMMA WrBuffersStep ==
    ASSUME IInv, NEW full \in BOOLEAN, NEW fresh \in SUBSET Buffers,
           Tick(full, fresh)
    PROVE  WrBuffers'
<1> USE Constants
<1>1. WrFsm(in_pct_rdy) /\ WrBuffSel(wrempty) /\ WrCounters /\ WrOutputs(in_q)
      /\ BufferFifos(full, fresh)
  BY DEF Tick, WrTick
<1>2. WrInStep /\ WrBuffers /\ RdBuffers
  BY DEF IInv, ControlInStep
<1>3. /\ current_buff_cnt \in Buffers /\ next_buff_cnt \in Buffers
      /\ w_state \in WrStates /\ pct_data_wrreq_cnt \in 0 .. PCT_WORDS
      /\ w_rd_cnt \in 0 .. PCT_WORDS /\ in_left \in 0 .. PCT_WORDS
      /\ in_pct_rdreq \in BOOLEAN /\ in_pct_data_valid \in BOOLEAN
  BY DEF IInv, TypeOK
<1>4. /\ w_state = "switch_next_buff" => next_buff_cnt' = NextBuffer(next_buff_cnt)
      /\ w_state # "switch_next_buff" => next_buff_cnt' = next_buff_cnt
      /\ w_state = "check_next_buf" => current_buff_cnt' = next_buff_cnt
      /\ w_state # "check_next_buf" => current_buff_cnt' = current_buff_cnt
      /\ next_buff_rdy' = wrempty[next_buff_cnt]
  BY <1>1 DEF WrBuffSel
<1>5. \A i \in Buffers : wrempty'[i] => buf'[i] = <<>>
  BY <1>1 DEF BufferFifos
<1>6. /\ pct_data_wrreq' = IF in_pct_data_valid /\ pct_data_wrreq_cnt > 0
                           THEN {current_buff_cnt} ELSE {}
      /\ pct_data_wrreq_cnt' = CASE in_pct_data_valid -> pct_data_wrreq_cnt + 1
                               [] ~in_pct_data_valid /\ w_state = "idle" -> 0
                               [] OTHER -> pct_data_wrreq_cnt
  BY <1>1 DEF WrOutputs, WrCounters
<1>7. pct_data_wrreq' # {} => Writing' /\ pct_data_wrreq' = {current_buff_cnt'}
  <2> SUFFICES ASSUME in_pct_data_valid, pct_data_wrreq_cnt > 0
               PROVE  Writing' /\ current_buff_cnt' = current_buff_cnt
    BY <1>6
  <2>1. Writing
    BY <1>2, <1>3 DEF WrInStep, WrStates, HeaderTaken, Writing
  <2> QED
    BY <2>1, <1>1, <1>4 DEF WrFsm, WrGoes, Writing
<1>8. ~Writing' /\ w_state' # "check_next_buf" =>
        buf'[current_buff_cnt'] = <<>> /\ next_buff_cnt' = current_buff_cnt'
  <2> SUFFICES ASSUME ~Writing', w_state' # "check_next_buf"
               PROVE  buf'[current_buff_cnt'] = <<>>
                      /\ next_buff_cnt' = current_buff_cnt'
    OBVIOUS
  <2>1. ~Writing /\ w_state # "switch_next_buff"
    BY <1>1 DEF WrFsm, WrGoes, Writing
  <2>2. pct_data_wrreq = {}
    BY <2>1, <1>2 DEF WrBuffers
  <2>3. CASE w_state = "check_next_buf"
    <3>1. next_buff_rdy
      BY <2>3, <1>1 DEF WrFsm, WrGoes, NextFree
    <3>2. buf[next_buff_cnt] = <<>>
      BY <2>3, <3>1, <1>2 DEF WrBuffers
    <3> QED
      BY <2>2, <2>3, <3>2, <1>1, <1>3, <1>4, EmptyStays
  <2>4. CASE w_state # "check_next_buf"
    <3>1. buf[current_buff_cnt] = <<>> /\ next_buff_cnt = current_buff_cnt
      BY <2>1, <2>4, <1>2 DEF WrBuffers
    <3> QED
      BY <2>1, <2>2, <2>4, <3>1, <1>1, <1>3, <1>4, EmptyStays
  <2> QED
    BY <2>3, <2>4
<1>9. ASSUME Writing'
      PROVE  /\ next_buff_cnt' # current_buff_cnt'
             /\ Len(buf'[current_buff_cnt']) =
                   2 * (pct_data_wrreq_cnt' - 1
                           - (IF pct_data_wrreq' = {} THEN 0 ELSE 1))
             /\ pct_data_wrreq_cnt' > 0
             /\ w_state' = "wait_wr_end" /\ pct_data_wrreq_cnt' = PCT_WORDS =>
                   pct_data_wrreq' # {}
  <2>1. Writing \/ w_state = "switch_next_buff"
    BY <1>9, <1>1 DEF WrFsm, WrGoes, Writing
  <2>2. CASE w_state = "switch_next_buff"
    <3>1. /\ buf[current_buff_cnt] = <<>> /\ next_buff_cnt = current_buff_cnt
          /\ pct_data_wrreq = {}
      BY <2>2, <1>2 DEF WrBuffers, Writing
    <3>2. buf'[current_buff_cnt] = <<>>
      BY <3>1, <1>1, <1>3, EmptyStays
    <3>3. ~in_pct_data_valid /\ pct_data_wrreq_cnt = 1
      BY <2>2, <1>2 DEF WrInStep, HeaderTaken
    <3>4. pct_data_wrreq_cnt' = 1 /\ pct_data_wrreq' = {}
      BY <3>3, <2>2, <1>6
    <3>5. next_buff_cnt' # current_buff_cnt' /\ current_buff_cnt' = current_buff_cnt
      BY <2>2, <3>1, <1>3, <1>4, NextBufferType
    <3> QED
      BY <3>2, <3>4, <3>5
  <2>3. CASE Writing
    <3>1. w_state \in {"rd_pct", "wait_wr_end"}
      BY <2>3 DEF Writing
    <3>2. /\ next_buff_cnt # current_buff_cnt /\ pct_data_wrreq_cnt > 0
          /\ Len(buf[current_buff_cnt]) =
                2 * (pct_data_wrreq_cnt - 1
                        - (IF pct_data_wrreq = {} THEN 0 ELSE 1))
      BY <2>3, <1>2 DEF WrBuffers
    <3>3. Len(buf'[current_buff_cnt]) = 2 * (pct_data_wrreq_cnt - 1)
      <4>1. CASE pct_data_wrreq = {}
        <5>1. current_buff_cnt \notin BuffClr
              /\ current_buff_cnt \notin BuffRdReq(full)
          BY <2>3, <1>2 DEF RdBuffers, BuffClr, BuffRdReq, RdReq
        <5>2. buf'[current_buff_cnt] = buf[current_buff_cnt]
          BY <4>1, <5>1, <1>1, <1>3, BufferStep
        <5> QED
          BY <4>1, <5>2, <3>2, <1>3
      <4>2. CASE pct_data_wrreq # {}
        <5>1. current_buff_cnt \in pct_data_wrreq
          BY <4>2, <1>2 DEF WrBuffers
        <5>2. Len(buf'[current_buff_cnt]) = Len(buf[current_buff_cnt]) + 2
          BY <5>1, <1>1, <1>3, BufferStep
        <5> QED
          BY <4>2, <5>2, <3>2, <1>3
      <4> QED
        BY <4>1, <4>2
    <3>4. pct_data_wrreq_cnt' - 1 - (IF pct_data_wrreq' = {} THEN 0 ELSE 1)
             = pct_data_wrreq_cnt - 1 /\ pct_data_wrreq_cnt' > 0
      <4>1. pct_data_wrreq_cnt > 0 /\ pct_data_wrreq_cnt \in Nat
        BY <3>2, <1>3
      <4>2. CASE in_pct_data_valid
        <5>1. pct_data_wrreq' # {} /\ pct_data_wrreq_cnt' = pct_data_wrreq_cnt + 1
          BY <4>1, <4>2, <1>6
        <5> QED
          BY <4>1, <5>1
      <4>3. CASE ~in_pct_data_valid
        <5>1. pct_data_wrreq' = {} /\ pct_data_wrreq_cnt' = pct_data_wrreq_cnt
          BY <3>1, <4>3, <1>6
        <5> QED
          BY <4>1, <5>1
      <4> QED
        BY <4>2, <4>3
    <3>5. w_state' = "wait_wr_end" /\ pct_data_wrreq_cnt' = PCT_WORDS =>
             pct_data_wrreq' # {}
      <4>1. w_state = "rd_pct" => pct_data_wrreq_cnt' < PCT_WORDS
        BY <1>2, <1>3, <1>6 DEF WrInStep
      <4>2. w_state = "wait_wr_end" /\ w_state' = "wait_wr_end" => in_pct_data_valid
        BY <1>1 DEF WrFsm, WrGoes
      <4> QED
        BY <3>1, <3>2, <4>1, <4>2, <1>6
    <3> QED
      BY <3>1, <3>2, <3>3, <3>4, <3>5, <1>4
  <2> QED
    BY <2>1, <2>2, <2>3
<1>10. ASSUME w_state' \in {"wait_wr_end", "check_next_buf"}, next_buff_rdy'
       PROVE  buf'[next_buff_cnt'] = <<>>
  <2>1. w_state \in {"rd_pct", "wait_wr_end", "check_next_buf"}
    BY <1>10, <1>1 DEF WrFsm, WrGoes
  <2>2. next_buff_cnt' = next_buff_cnt /\ buf[next_buff_cnt] = <<>>
    BY <2>1, <1>10, <1>2, <1>3, <1>4 DEF WrBuffers
  <2>3. next_buff_cnt \notin pct_data_wrreq
    BY <2>1, <1>2 DEF WrBuffers, Writing
  <2> QED
    BY <2>2, <2>3, <1>1, <1>3, EmptyStays
<1> QED
  BY <1>5, <1>7, <1>8, <1>9, <1>10 DEF WrBuffers

LEMMA RdBuffersStep ==
    ASSUME IInv, NEW full \in BOOLEAN, NEW fresh \in SUBSET Buffers,
           Tick(full, fresh)
    PROVE  RdBuffers' /\ ReaderInStep'
<1> USE Constants
<1>1. /\ RdFsm(full) /\ RdCounter(full) /\ RdBuffSel(pct_buff_rdy) /\ BuffReady
      /\ BufferFifos(full, fresh) /\ WrFsm(in_pct_rdy) /\ WrBuffSel(wrempty)
  BY DEF Tick, RdTick, WrTick
<1>2. WrBuffers /\ RdBuffers /\ ReaderInStep
  BY DEF IInv, ControlInStep
<1>3. /\ crnt_buff_cnt \in Buffers /\ current_buff_cnt \in Buffers
      /\ r_state \in RdStates /\ r_rd_cnt \in 0 .. RD_WORDS
      /\ buf[crnt_buff_cnt] \in Seq(HalvesOf)
  BY DEF IInv, TypeOK
<1>4. /\ r_state # "switch_next_buff" => crnt_buff_cnt' = crnt_buff_cnt
      /\ crnt_buff_rdy' = pct_buff_rdy[crnt_buff_cnt]
      /\ w_state # "check_next_buf" => current_buff_cnt' = current_buff_cnt
  BY <1>1 DEF RdBuffSel, WrBuffSel
<1>5. /\ r_state = "idle" => r_rd_cnt' = 0
      /\ r_state = "rd_buff" /\ ~full => r_rd_cnt' = r_rd_cnt + 1
      /\ r_state = "rd_buff" /\ full => r_rd_cnt' = r_rd_cnt
      /\ r_state = "rd_hold" => r_rd_cnt' = r_rd_cnt
  BY <1>1 DEF RdCounter, RdReq
\* A buffer the read FSM is not at work on, and nobody writes, keeps its fill.
<1>6. ASSUME NEW i \in Buffers, i \notin pct_data_wrreq,
             i # crnt_buff_cnt \/ (r_state # "clr_buff" /\ ~(r_state = "rd_buff" /\ ~full))
      PROVE  buf'[i] = buf[i]
  <2>1. i \notin BuffClr /\ i \notin BuffRdReq(full)
    BY <1>6 DEF BuffClr, BuffRdReq, RdReq
  <2> QED
    BY <1>1, <1>6, <2>1, BufferStep
<1>7. ASSUME NEW i \in Buffers, pct_buff_rdy'[i],
             i # crnt_buff_cnt' \/ r_state' \in {"idle", "check_next_buf"}
      PROVE  Len(buf'[i]) = RD_WORDS
  <2>1. Len(buf[i]) = RD_WORDS
    BY <1>1, <1>7 DEF BuffReady, BuffFull
  <2>2. i \notin pct_data_wrreq
    BY <2>1, FullNotWritten
  <2>3. i # crnt_buff_cnt \/ r_state \notin {"clr_buff", "rd_buff"}
    BY <1>1, <1>4, <1>7 DEF RdFsm, RdGoes
  <2> QED
    BY <1>6, <2>1, <2>2, <2>3
<1>8. ASSUME r_state' = "idle", crnt_buff_rdy'
      PROVE  Len(buf'[crnt_buff_cnt']) = RD_WORDS
  <2>1. r_state \in {"idle", "check_next_buf"}
    BY <1>1, <1>8 DEF RdFsm, RdGoes
  <2>2. Len(buf[crnt_buff_cnt]) = RD_WORDS
    BY <1>2, <1>3, <1>4, <1>8, <2>1 DEF RdBuffers
  <2> QED
    BY <1>3, <1>4, <1>6, <2>1, <2>2, FullNotWritten
<1>9. ASSUME r_state' = "switch_next_buff"
      PROVE  buf'[crnt_buff_cnt'] = <<>>
  <2>1. r_state = "clr_buff" \/ (r_state = "rd_buff" /\ ~full /\ BuffRead)
    BY <1>1, <1>9 DEF RdFsm, RdGoes
  <2>2. CASE r_state = "clr_buff"
    BY <1>1, <1>3, <1>4, <2>2, BufferStep DEF BuffClr
  <2>3. CASE r_state = "rd_buff" /\ ~full /\ BuffRead
    <3>1. Len(buf[crnt_buff_cnt]) = 1
      <4>1. r_rd_cnt < RD_WORDS /\ Len(buf[crnt_buff_cnt]) = RD_WORDS - r_rd_cnt
        BY <1>2, <2>3 DEF RdBuffers, ReaderInStep
      <4> QED
        BY <1>3, <2>3, <4>1 DEF BuffRead
    <3>2. crnt_buff_cnt \in BuffRdReq(full)
      BY <2>3 DEF BuffRdReq, RdReq
    <3>3. Len(buf'[crnt_buff_cnt]) = 0 /\ buf'[crnt_buff_cnt] \in Seq(HalvesOf)
      BY <1>1, <1>3, <3>1, <3>2, BufferStep
    <3> QED
      BY <1>4, <2>3, <3>3
  <2> QED
    BY <2>1, <2>2, <2>3
\* Where the read FSM can be if it is at work on a buffer after the edge.
<1>10. ASSUME r_state' \in {"rd_buff", "rd_hold", "clr_buff"}
       PROVE  /\ crnt_buff_cnt' = crnt_buff_cnt
              /\ \/ r_state = "idle" /\ Len(buf[crnt_buff_cnt]) = RD_WORDS
                 \/ /\ r_state \in {"rd_buff", "rd_hold"}
                    /\ r_state' \in {"rd_buff", "rd_hold"}
                    /\ r_state = "rd_buff" /\ ~full => ~BuffRead
  <2>1. \/ r_state = "idle" /\ crnt_buff_rdy
        \/ /\ r_state \in {"rd_buff", "rd_hold"}
           /\ r_state' \in {"rd_buff", "rd_hold"}
           /\ r_state = "rd_buff" /\ ~full => ~BuffRead
    BY <1>1, <1>10 DEF RdFsm, RdGoes
  <2> QED
    BY <1>2, <1>4, <2>1 DEF RdBuffers
<1>11. ASSUME r_state' \in {"rd_buff", "rd_hold"}
       PROVE  r_rd_cnt' < RD_WORDS
              /\ Len(buf'[crnt_buff_cnt']) = RD_WORDS - r_rd_cnt'
  <2>1. CASE r_state = "idle" /\ Len(buf[crnt_buff_cnt]) = RD_WORDS
    <3>1. buf'[crnt_buff_cnt] = buf[crnt_buff_cnt]
      BY <1>3, <1>6, <2>1, FullNotWritten
    <3> QED
      BY <1>5, <1>10, <1>11, <2>1, <3>1
  <2>2. CASE r_state \in {"rd_buff", "rd_hold"}
    <3>1. r_rd_cnt < RD_WORDS /\ Len(buf[crnt_buff_cnt]) = RD_WORDS - r_rd_cnt
      BY <1>2, <2>2 DEF RdBuffers, ReaderInStep
    <3>2. crnt_buff_cnt \notin pct_data_wrreq
      BY <2>2, WriteAlone
    <3>3. CASE r_state = "rd_buff" /\ ~full
      <4>1. Len(buf'[crnt_buff_cnt]) = Len(buf[crnt_buff_cnt]) - 1
        BY <1>1, <1>3, <3>3, BufferStep DEF BuffRdReq, RdReq
      <4>2. ~BuffRead
        BY <1>10, <1>11, <3>3
      <4> QED
        BY <1>3, <1>5, <1>10, <1>11, <3>1, <3>3, <4>1, <4>2 DEF BuffRead
    <3>4. CASE ~(r_state = "rd_buff" /\ ~full)
      <4>1. buf'[crnt_buff_cnt] = buf[crnt_buff_cnt]
        BY <1>3, <1>6, <2>2, <3>2, <3>4
      <4> QED
        BY <1>5, <1>10, <1>11, <2>2, <3>1, <3>4, <4>1
    <3> QED
      BY <3>3, <3>4
  <2> QED
    BY <1>10, <1>11, <2>1, <2>2
<1>12. r_state' = "clr_buff" => Len(buf'[crnt_buff_cnt']) = RD_WORDS
  BY <1>3, <1>6, <1>10, FullNotWritten
<1>13. ASSUME Writing', crnt_buff_cnt' = current_buff_cnt',
              r_state' \in {"rd_buff", "rd_hold", "clr_buff"}
       PROVE  FALSE
  <2>1. (Writing \/ w_state = "switch_next_buff") /\ crnt_buff_cnt = current_buff_cnt
    BY <1>1, <1>4, <1>10, <1>13 DEF WrFsm, WrGoes, Writing
  <2>2. w_state = "switch_next_buff" => Len(buf[crnt_buff_cnt]) = 0
    BY <1>2, <2>1 DEF WrBuffers, Writing
  <2>3. CASE r_state = "idle" /\ Len(buf[crnt_buff_cnt]) = RD_WORDS
    BY <1>3, <2>1, <2>2, <2>3, FullNotWritten
  <2>4. CASE r_state \in {"rd_buff", "rd_hold"}
    BY <1>2, <1>3, <2>1, <2>2, <2>4 DEF RdBuffers, ReaderInStep
  <2> QED
    BY <1>10, <1>13, <2>3, <2>4
<1>14. RdBuffers'
  BY <1>7, <1>8, <1>9, <1>11, <1>13 DEF RdBuffers
<1> QED
  BY <1>11, <1>12, <1>14 DEF ReaderInStep

-----------------------------------------------------------------------------
(* Types.                                                                  *)

LEMMA WrTypeStep ==
    ASSUME IInv, NEW full \in BOOLEAN, NEW fresh \in SUBSET Buffers,
           Tick(full, fresh)
    PROVE  /\ w_state' \in WrStates
           /\ next_buff_cnt' \in Buffers /\ current_buff_cnt' \in Buffers
           /\ next_buff_rdy' \in BOOLEAN /\ current_buff_rdy' \in BOOLEAN
           /\ w_rd_cnt' \in 0 .. PCT_WORDS /\ pipe_cnt' \in 0 .. 5
           /\ in_pct_rdreq' \in BOOLEAN /\ in_pct_data_valid' \in BOOLEAN
           /\ pct_data_wrreq_cnt' \in 0 .. PCT_WORDS
           /\ in_pct_reset_req' \in BOOLEAN
           /\ pct_hdr' \in Hdrs /\ pct_hdr_valid' \in SUBSET Buffers
           /\ pct_data' \in WordsOf /\ pct_data_wrreq' \in SUBSET Buffers
           /\ w_cmp' \in Verdicts \X Verdicts \X Verdicts
<1> USE Constants
<1>1. /\ WrFsm(in_pct_rdy) /\ WrBuffSel(wrempty) /\ WrCounters /\ WrOutputs(in_q)
      /\ WrCompare(sample_nr)
  BY DEF Tick, WrTick
<1>2. TypeOK /\ WrInStep
  BY DEF IInv, ControlInStep
<1>3. w_state' \in WrStates
  BY <1>1 DEF WrFsm, WrGoes, WrStates
<1>4. next_buff_cnt' \in Buffers /\ current_buff_cnt' \in Buffers
  BY <1>1, <1>2, NextBufferType DEF WrBuffSel, TypeOK
<1>5. next_buff_rdy' \in BOOLEAN /\ current_buff_rdy' \in BOOLEAN
  BY <1>1, <1>2 DEF WrBuffSel, TypeOK
<1>6. w_rd_cnt' \in 0 .. PCT_WORDS
  <2>1. w_state \in {"rd_pct", "rd_hdr"} => w_rd_cnt < PCT_WORDS
    BY <1>2 DEF WrInStep
  <2>2. w_rd_cnt \in 0 .. PCT_WORDS
    BY <1>2 DEF TypeOK
  <2>3. \/ w_rd_cnt' \in {0, w_rd_cnt}
        \/ w_state \in {"rd_pct", "rd_hdr"} /\ w_rd_cnt' = w_rd_cnt + 1
    BY <1>1 DEF WrCounters
  <2> QED
    BY <2>1, <2>2, <2>3
<1>7. pipe_cnt' \in 0 .. 5
  <2>1. w_state = "wait_cmpr_pipe" => pipe_cnt \in 0 .. 4
    BY <1>2 DEF WrInStep
  <2> QED
    BY <1>1, <2>1 DEF WrCounters
<1>8. pct_data_wrreq_cnt' \in 0 .. PCT_WORDS
  <2>1. in_pct_data_valid => pct_data_wrreq_cnt < PCT_WORDS
    BY <1>2 DEF WrInStep, HeaderTaken, WrStates, TypeOK
  <2>2. pct_data_wrreq_cnt \in 0 .. PCT_WORDS
    BY <1>2 DEF TypeOK
  <2>3. \/ pct_data_wrreq_cnt' \in {0, pct_data_wrreq_cnt}
        \/ in_pct_data_valid /\ pct_data_wrreq_cnt' = pct_data_wrreq_cnt + 1
    BY <1>1 DEF WrCounters
  <2> QED
    BY <2>1, <2>2, <2>3
<1>9. /\ in_pct_rdreq' \in BOOLEAN /\ in_pct_data_valid' \in BOOLEAN
      /\ in_pct_reset_req' \in BOOLEAN
  BY <1>1, <1>2 DEF WrOutputs, ClearRequest, TypeOK
<1>10. in_q.pkt \in Hdrs
  BY <1>2 DEF TypeOK, WordsOf
<1>11. pct_hdr' \in Hdrs /\ pct_hdr_valid' \in SUBSET Buffers
  BY <1>1, <1>2, <1>10 DEF WrOutputs, TypeOK
<1>12. pct_data' \in WordsOf /\ pct_data_wrreq' \in SUBSET Buffers
  BY <1>1, <1>2 DEF WrOutputs, TypeOK
<1>13. w_cmp' \in Verdicts \X Verdicts \X Verdicts
  BY <1>1, <1>2, PipeType DEF WrCompare, TypeOK
<1> QED
  BY <1>3, <1>4, <1>5, <1>6, <1>7, <1>8, <1>9, <1>11, <1>12, <1>13

LEMMA RdTypeStep ==
    ASSUME IInv, NEW full \in BOOLEAN, NEW fresh \in SUBSET Buffers,
           Tick(full, fresh)
    PROVE  /\ pct_hdr_array' \in [Buffers -> Hdrs]
           /\ r_cmp' \in [Buffers -> Verdicts \X Verdicts \X Verdicts]
           /\ crnt_buff_cnt' \in Buffers
           /\ crnt_buff_rdy' \in BOOLEAN /\ crnt_buff_pct_synch_dis' \in BOOLEAN
           /\ crnt_buff_pct_smpl_nr' \in Verdicts
           /\ r_rd_cnt' \in 0 .. RD_WORDS /\ r_state' \in RdStates
<1> USE Constants
<1>1. /\ RdFsm(full) /\ RdCounter(full) /\ RdBuffSel(pct_buff_rdy)
      /\ RdHeaders /\ RdCompare(sample_nr)
  BY DEF Tick, RdTick
<1>2. TypeOK /\ RdBuffers
  BY DEF IInv, ControlInStep
<1>3. pct_hdr_array' \in [Buffers -> Hdrs]
  BY <1>1, <1>2 DEF RdHeaders, TypeOK
<1>4. r_cmp' \in [Buffers -> Verdicts \X Verdicts \X Verdicts]
  <2>1. \A i \in Buffers :
           Shift(r_cmp[i], Compare(pct_hdr_array[i].sn, sample_nr))
              \in Verdicts \X Verdicts \X Verdicts
    BY <1>2, PipeType DEF TypeOK
  <2> QED
    BY <1>1, <2>1 DEF RdCompare
<1>5. crnt_buff_cnt' \in Buffers
  BY <1>1, <1>2, NextBufferType DEF RdBuffSel, TypeOK
<1>6. crnt_buff_rdy' \in BOOLEAN /\ crnt_buff_pct_synch_dis' \in BOOLEAN
  <2>1. pct_buff_rdy[crnt_buff_cnt] \in BOOLEAN
        /\ pct_hdr_array[crnt_buff_cnt] \in Hdrs
    BY <1>2 DEF TypeOK
  <2>2. ASSUME NEW p \in Hdrs PROVE p.dis \in BOOLEAN
    <3>1. CASE p \in Packets
      BY <3>1 DEF Packets
    <3>2. CASE p = ZeroHdr
      BY <3>2 DEF ZeroHdr
    <3> QED
      BY <3>1, <3>2 DEF Hdrs
  <2> QED
    BY <1>1, <2>1, <2>2 DEF RdBuffSel
<1>7. crnt_buff_pct_smpl_nr' \in Verdicts
  BY <1>1, <1>2 DEF RdBuffSel, TypeOK
<1>8. r_rd_cnt' \in 0 .. RD_WORDS
  <2>1. RdReq(full) => r_rd_cnt < RD_WORDS
    BY <1>2 DEF RdReq, RdBuffers
  <2>2. r_rd_cnt \in 0 .. RD_WORDS
    BY <1>2 DEF TypeOK
  <2>3. \/ r_rd_cnt' \in {0, r_rd_cnt}
        \/ RdReq(full) /\ r_rd_cnt' = r_rd_cnt + 1
    BY <1>1 DEF RdCounter
  <2> QED
    BY <2>1, <2>2, <2>3
<1>9. r_state' \in RdStates
  BY <1>1 DEF RdFsm, RdGoes, RdStates
<1> QED
  BY <1>3, <1>4, <1>5, <1>6, <1>7, <1>8, <1>9

LEMMA StreamTypeStep ==
    ASSUME IInv, NEW full \in BOOLEAN, NEW fresh \in SUBSET Buffers,
           Tick(full, fresh)
    PROVE  /\ npct' \in 0 .. MAX_PACKETS
           /\ in_pct' \in Hdrs /\ in_left' \in 0 .. PCT_WORDS /\ in_q' \in WordsOf
           /\ in_pct_rdy' \in BOOLEAN
           /\ sample_nr' \in 0 .. MAX_SAMPLE_NR
<1> USE Constants
<1>1. StreamFifo /\ SampleNr
  BY DEF Tick
<1>2. /\ npct \in 0 .. MAX_PACKETS /\ in_pct \in Hdrs /\ in_left \in 0 .. PCT_WORDS
      /\ in_q \in WordsOf /\ sample_nr \in 0 .. MAX_SAMPLE_NR
  BY DEF IInv, TypeOK
<1>3. in_pct_rdy' \in BOOLEAN
  BY <1>1 DEF StreamFifo, PacketWaiting
<1>4. sample_nr' \in 0 .. MAX_SAMPLE_NR
  <2>1. PICK d \in SAMPLE_STEPS :
           sample_nr + d <= MAX_SAMPLE_NR /\ sample_nr' = sample_nr + d
    BY <1>1 DEF SampleNr
  <2>2. d \in Nat
    BY <2>1
  <2> QED
    BY <1>2, <2>1, <2>2
<1>5. in_q' \in WordsOf
  <2>1. in_pct_rdreq => in_left > 0 /\ in_q' = Word(in_pct, PCT_WORDS - in_left)
    BY <1>1, StreamStep
  <2>2. ~in_pct_rdreq => in_q' = in_q
    BY <1>1, StreamStep
  <2>3. in_left > 0 => Word(in_pct, PCT_WORDS - in_left) \in WordsOf
    BY <1>2 DEF Word, WordsOf
  <2> QED
    BY <1>2, <2>1, <2>2, <2>3
<1>6. npct' \in 0 .. MAX_PACKETS /\ in_pct' \in Hdrs /\ in_left' \in 0 .. PCT_WORDS
  <2>1. CASE HostSilent
    BY <1>2, <2>1 DEF HostSilent
  <2>2. CASE \E p \in Packets : HostSends(p)
    BY <1>2, <2>2 DEF HostSends, Hdrs
  <2> QED
    BY <1>1, <2>1, <2>2 DEF StreamFifo
<1> QED
  BY <1>3, <1>4, <1>5, <1>6

LEMMA BufferTypeStep ==
    ASSUME IInv, NEW full \in BOOLEAN, NEW fresh \in SUBSET Buffers,
           Tick(full, fresh)
    PROVE  /\ buf' \in [Buffers -> Seq(HalvesOf)]
           /\ rd_sees_all' \in [Buffers -> BOOLEAN]
           /\ wrempty' \in [Buffers -> BOOLEAN]
           /\ pct_buff_rdy' \in [Buffers -> BOOLEAN]
           /\ pct_data_clr' \in BOOLEAN /\ in_pct_clr_flag' \in BOOLEAN
           /\ buff_q' \in [Buffers -> HalvesOf]
           /\ smpl_buff_valid_int' \in BOOLEAN /\ smpl_buff_valid' \in BOOLEAN
           /\ smpl_buff_q' \in HalvesOf /\ last_smpl' \in HalvesOf
<1>1. BufferFifos(full, fresh) /\ BuffReady /\ OutputRegs(full)
  BY DEF Tick
<1>2. TypeOK
  BY DEF IInv
<1>3. \A i \in Buffers : buf'[i] \in Seq(HalvesOf) /\ buff_q'[i] \in HalvesOf
  BY <1>1, BufferStep
<1>4. /\ buf' = [i \in Buffers |-> buf'[i]]
      /\ buff_q' = [i \in Buffers |-> buff_q'[i]]
  BY <1>1 DEF BufferFifos
<1>5. buf' \in [Buffers -> Seq(HalvesOf)] /\ buff_q' \in [Buffers -> HalvesOf]
  BY <1>3, <1>4
<1>6. /\ rd_sees_all' \in [Buffers -> BOOLEAN] /\ wrempty' \in [Buffers -> BOOLEAN]
  BY <1>1 DEF BufferFifos
<1>7. pct_buff_rdy' \in [Buffers -> BOOLEAN]
  BY <1>1 DEF BuffReady, BuffFull
<1>8. /\ pct_data_clr' \in BOOLEAN /\ in_pct_clr_flag' \in BOOLEAN
      /\ smpl_buff_valid_int' \in BOOLEAN /\ smpl_buff_valid' \in BOOLEAN
  BY <1>1, <1>2 DEF OutputRegs, RdReq, TypeOK
<1>9. smpl_buff_q' \in HalvesOf /\ last_smpl' \in HalvesOf
  BY <1>1, <1>2 DEF OutputRegs, TypeOK
<1> QED
  BY <1>5, <1>6, <1>7, <1>8, <1>9

-----------------------------------------------------------------------------
(* The theorems.                                                           *)

LEMMA NextIInv == IInv /\ [Next]_vars => IInv'
<1> SUFFICES ASSUME IInv, [Next]_vars PROVE IInv'
  OBVIOUS
<1>1. CASE Next
  <2> PICK full \in BOOLEAN, fresh \in SUBSET Buffers : Tick(full, fresh)
    BY <1>1 DEF Next
  <2>1. TypeOK'
    BY WrTypeStep, RdTypeStep, StreamTypeStep, BufferTypeStep
    DEF TypeOK, Buffers, RD_WORDS, WrStates, RdStates, Verdicts, Hdrs, Packets,
        ZeroHdr, WordsOf, HalvesOf
  <2>2. StreamInOrder'
    BY StreamInOrderStep DEF Tick
  <2>3. ControlInStep'
    BY <2>2, WrInStepStep, WrBuffersStep, RdBuffersStep DEF ControlInStep
  <2> QED
    BY <2>1, <2>3 DEF IInv
<1>2. CASE UNCHANGED vars
  <2> USE <1>2 DEF vars
  <2>1. /\ UNCHANGED wrVars /\ UNCHANGED rdVars /\ UNCHANGED inVars
        /\ UNCHANGED bufVars /\ UNCHANGED outVars /\ sample_nr' = sample_nr
    OBVIOUS
  <2>2. TypeOK'
    BY <2>1 DEF IInv, TypeOK, wrVars, rdVars, inVars, bufVars, outVars
  <2>3. ControlInStep'
    BY <2>1 DEF IInv, ControlInStep, WrInStep, WrBuffers, RdBuffers, ReaderInStep,
                StreamInOrder, HeaderTaken, Writing, wrVars, rdVars, inVars, bufVars, outVars
  <2> QED
    BY <2>2, <2>3 DEF IInv
<1> QED
  BY <1>1, <1>2

\* In every reachable state the stream FIFO, the read request pipeline, the
\* counters of p2d_wr_fsm and p2d_rd and the fill of the packet buffers agree.
THEOREM Invariant == Spec => []IInv
<1>1. Init => IInv
  BY InitIInv
<1>2. IInv /\ [Next]_vars => IInv'
  BY NextIInv
<1> QED
  BY <1>1, <1>2, PTL DEF Spec

\* Every register stays in its range: in particular no counter of p2d_wr_fsm and
\* p2d_rd overruns, whatever the host sends and whenever the sample FIFO fills.
THEOREM TypeCorrect == Spec => []TypeOK
<1>1. IInv => TypeOK
  BY DEF IInv
<1> QED
  BY <1>1, Invariant, PTL

\* The registers, FIFOs and counters are in step.
THEOREM ControlStaysInStep == Spec => []ControlInStep
<1>1. IInv => ControlInStep
  BY DEF IInv
<1> QED
  BY <1>1, Invariant, PTL

\* p2d_wr_fsm never reads the empty stream FIFO.
THEOREM StreamReadsAreServed == Spec => []StreamReadsServed
<1>1. IInv => StreamReadsServed
  <2> SUFFICES ASSUME IInv, in_pct_rdreq PROVE in_left > 0
    BY DEF StreamReadsServed
  <2>1. w_state \in {"wait_cmpr_pipe", "rd_pct", "wait_wr_end"}
    BY DEF IInv, TypeOK, ControlInStep, WrStates, WrInStep, HeaderTaken
  <2> QED
    BY <2>1, Constants DEF IInv, TypeOK, ControlInStep, WrInStep, HeaderTaken
<1> QED
  BY <1>1, Invariant, PTL

\* No packet buffer is filled beyond the size of one packet, whatever the number
\* of buffers and the size of a packet.
THEOREM BuffersHaveRoom == Spec => []RoomForEveryWord
<1>1. IInv => RoomForEveryWord
  BY WriteAlone DEF RoomForEveryWord
<1> QED
  BY <1>1, Invariant, PTL

\* p2d_rd counts exactly the words that its buffer holds, and clears only whole
\* packets.
THEOREM ReaderStaysInStep == Spec => []ReaderInStep
<1>1. IInv => ReaderInStep
  BY DEF IInv, ControlInStep
<1> QED
  BY <1>1, Invariant, PTL

\* The unpacker respects the contract of the stream FIFO, which module TxInput
\* implements: it takes packets in order, header first and word by word, and has
\* one cleared only between its header and its data.
THEOREM UsesSlot == Spec => ImplementsSlot
<1>1. Init => Slot!SlotInit
  BY DEF Init, P2dInit, Slot!SlotInit, Word, ZeroHdr
<1>2. IInv /\ [Next]_vars => [Slot!SlotNext]_(Slot!slotVars)
  <2> SUFFICES ASSUME IInv, [Next]_vars PROVE [Slot!SlotNext]_(Slot!slotVars)
    OBVIOUS
  <2>1. CASE Next
    <3>1. StreamFifo
      BY <2>1 DEF Next, Tick
    <3> QED
      BY <3>1, SlotStep
  <2>2. CASE UNCHANGED vars
    BY <2>2 DEF vars, inVars, Slot!slotVars
  <2> QED
    BY <2>1, <2>2
<1> QED
  BY <1>1, <1>2, Invariant, PTL DEF Spec, ImplementsSlot, Slot!SlotSpec

-----------------------------------------------------------------------------
(***************************************************************************)
(* The data, on top of the control: which word, header and verdict belongs *)
(* to which packet, in which order the packets go around the ring of       *)
(* buffers, and what reaches the sample FIFO.                              *)
(***************************************************************************)

DataInv == IInv /\ DataInStep

\* What a packet header is made of.
LEMMA HdrType ==
    ASSUME NEW p \in Hdrs
    PROVE  p.id \in Nat /\ p.sn \in Nat /\ p.dis \in BOOLEAN
<1>1. CASE p \in Packets
  <2>1. p.id \in 1 .. MAX_PACKETS /\ p.sn \in SAMPLE_NRS /\ p.dis \in BOOLEAN
    BY <1>1 DEF Packets
  <2>2. (\A k \in 1 .. MAX_PACKETS : k \in Nat) /\ (\A k \in SAMPLE_NRS : k \in Nat)
    BY Constants
  <2> QED
    BY <2>1, <2>2
<1>2. CASE p = ZeroHdr
  BY <1>2 DEF ZeroHdr
<1> QED
  BY <1>1, <1>2 DEF Hdrs

LEMMA MaxStepType ==
    MaxStep \in SAMPLE_STEPS /\ MaxStep \in Nat /\ \A e \in SAMPLE_STEPS : e <= MaxStep
<1>1. \E d \in SAMPLE_STEPS : \A e \in SAMPLE_STEPS : e <= d
  BY P2dAssumption
<1>2. MaxStep \in SAMPLE_STEPS /\ \A e \in SAMPLE_STEPS : e <= MaxStep
  BY <1>1 DEF MaxStep
<1> QED
  BY <1>2, Constants

\* The sample number never goes back, and moves by a bounded step.
LEMMA SampleStep ==
    ASSUME TypeOK, SampleNr
    PROVE  /\ sample_nr \in Nat /\ sample_nr' \in Nat
           /\ sample_nr <= sample_nr' /\ sample_nr' <= sample_nr + MaxStep
<1>1. PICK d \in SAMPLE_STEPS : sample_nr' = sample_nr + d
  BY DEF SampleNr
<1>2. d \in Nat /\ d <= MaxStep /\ sample_nr \in Nat /\ MaxStep \in Nat
  BY <1>1, MaxStepType, Constants DEF TypeOK
<1> QED
  BY <1>1, <1>2

\* No new request is made of the stream FIFO for a word of the next packet while
\* a packet is being handled.
LEMMA StreamHeader ==
    ASSUME IInv, StreamFifo
    PROVE  /\ ~in_pct_rdreq => in_q' = in_q
           /\ in_pct_rdreq => in_q'.pkt = in_pct
           /\ in_pct_rdreq /\ Writing => in_pct = in_q.pkt
           /\ in_pct_rdreq /\ ~Writing =>
                 w_state = "wait_cmpr_pipe" /\ pipe_cnt = 0 /\ in_q.pkt.id < in_pct.id
           /\ in_q.pkt \in Hdrs /\ in_q'.pkt \in Hdrs /\ in_q.pkt.id <= in_q'.pkt.id
<1> USE Constants
<1>1. WrInStep /\ StreamInOrder /\ TypeOK
  BY DEF IInv, ControlInStep
<1>2. in_left \in 0 .. PCT_WORDS /\ in_q.pkt \in Hdrs /\ in_pct \in Hdrs
      /\ w_state \in WrStates /\ w_rd_cnt \in 0 .. PCT_WORDS /\ in_pct_rdreq \in BOOLEAN
  BY <1>1 DEF TypeOK, WordsOf
<1>3. in_q.pkt.id \in Nat /\ in_pct.id \in Nat
  BY <1>2, HdrType
<1>4. /\ ~in_pct_rdreq => in_q' = in_q
      /\ in_pct_rdreq => in_q'.pkt = in_pct
  BY StreamStep DEF Word
<1>5. in_pct_rdreq /\ Writing => in_pct = in_q.pkt
  <2> SUFFICES ASSUME in_pct_rdreq, Writing PROVE in_pct = in_q.pkt
    OBVIOUS
  <2>1. 0 < in_left /\ in_left < PCT_WORDS
    BY <1>1, <1>2 DEF WrInStep, Writing
  <2> QED
    BY <1>1, <2>1 DEF StreamInOrder, Word
<1>6. in_pct_rdreq /\ ~Writing =>
         w_state = "wait_cmpr_pipe" /\ pipe_cnt = 0 /\ in_q.pkt.id < in_pct.id
  <2> SUFFICES ASSUME in_pct_rdreq, ~Writing
               PROVE  w_state = "wait_cmpr_pipe" /\ pipe_cnt = 0 /\ in_q.pkt.id < in_pct.id
    OBVIOUS
  <2>1. w_state = "wait_cmpr_pipe" /\ pipe_cnt = 0 /\ in_left = PCT_WORDS
    BY <1>1, <1>2 DEF WrInStep, Writing, WrStates, HeaderTaken
  <2> QED
    BY <1>1, <2>1 DEF StreamInOrder
<1> QED
  BY <1>2, <1>3, <1>4, <1>5, <1>6

\* Where the write FSM was if it holds a header after the edge.
LEMMA WrBefore ==
    ASSUME IInv, WrFsm(in_pct_rdy), WrCounters
    PROVE  /\ Writing' => Writing \/ w_state = "switch_next_buff"
           /\ HeaderHeld' => HeaderHeld \/ (w_state = "wait_cmpr_pipe" /\ pipe_cnt = 1)
           /\ HeaderCopied' => HeaderCopied \/ (w_state = "wait_cmpr_pipe" /\ pipe_cnt = 2)
           /\ w_state' = "wait_cmpr_pipe" /\ pipe_cnt' >= 1 =>
                 w_state = "wait_cmpr_pipe" /\ pipe_cnt' = pipe_cnt + 1
           /\ w_state' = "wait_cmpr_pipe" /\ w_state # "wait_cmpr_pipe" =>
                 w_state = "rd_hdr" /\ pipe_cnt' = 0
           /\ pipe_cnt \in Nat /\ pipe_cnt' \in Nat
<1>1. pipe_cnt \in 0 .. 5 /\ w_state \in WrStates
  BY DEF IInv, TypeOK
<1>2. pipe_cnt' = IF w_state = "wait_cmpr_pipe" THEN pipe_cnt + 1 ELSE 0
  BY DEF WrCounters
<1>3. pipe_cnt \in Nat /\ pipe_cnt' \in Nat
  BY <1>1, <1>2
<1>4. w_state # "wait_cmpr_pipe" /\ w_state # "check_smpl_nr" => pipe_cnt = 0
  BY DEF IInv, ControlInStep, WrInStep
<1> QED
  BY <1>1, <1>2, <1>3, <1>4
  DEF WrFsm, WrGoes, HeaderHeld, HeaderCopied, Writing, PipeFull

-----------------------------------------------------------------------------
(* Headers.                                                                *)

\* A header is taken in the second cycle of wait_cmpr_pipe, and only there.
LEMMA HeaderTakenThere ==
    ASSUME IInv
    PROVE  in_pct_data_valid /\ pct_data_wrreq_cnt = 0 <=>
              w_state = "wait_cmpr_pipe" /\ pipe_cnt = 1
  BY Constants DEF IInv, ControlInStep, TypeOK, WrInStep, WrBuffers, Writing,
                   WrStates, HeaderTaken

LEMMA HeadersStep ==
    ASSUME DataInv, NEW full \in BOOLEAN, NEW fresh \in SUBSET Buffers,
           Tick(full, fresh)
    PROVE  HeadersInStep'
<1> USE Constants
<1>1. /\ WrFsm(in_pct_rdy) /\ WrBuffSel(wrempty) /\ WrCounters /\ WrOutputs(in_q)
      /\ StreamFifo /\ RdHeaders
  BY DEF Tick, WrTick, RdTick
<1>2. IInv /\ HeadersInStep /\ WrInStep /\ WrBuffers /\ TypeOK
  BY DEF DataInv, DataInStep, IInv, ControlInStep
<1>3. /\ w_state \in WrStates /\ pipe_cnt \in 0 .. 5
      /\ pct_data_wrreq_cnt \in 0 .. PCT_WORDS
      /\ in_pct_rdreq \in BOOLEAN /\ in_pct_data_valid \in BOOLEAN
      /\ current_buff_cnt \in Buffers
  BY <1>2 DEF TypeOK
<1>4. /\ ~in_pct_rdreq => in_q' = in_q
      /\ in_pct_rdreq => in_q'.pkt = in_pct
      /\ in_pct_rdreq /\ Writing => in_pct = in_q.pkt
      /\ in_pct_rdreq /\ ~Writing => w_state = "wait_cmpr_pipe" /\ pipe_cnt = 0
  BY <1>1, <1>2, StreamHeader
<1>5. in_pct_data_valid /\ pct_data_wrreq_cnt = 0 <=>
         w_state = "wait_cmpr_pipe" /\ pipe_cnt = 1
  BY <1>2, HeaderTakenThere
<1>6. HeaderHeld' => pct_hdr' = in_q'.pkt
  <2>1. CASE w_state = "wait_cmpr_pipe" /\ pipe_cnt = 1
    <3>1. pct_hdr' = in_q.pkt
      BY <1>1, <1>5, <2>1 DEF WrOutputs
    <3> QED
      BY <1>4, <2>1, <3>1 DEF Writing
  <2>2. CASE HeaderHeld
    <3>1. pct_hdr' = pct_hdr /\ pct_hdr = in_q.pkt
      BY <1>1, <1>2, <1>5, <2>2 DEF WrOutputs, HeaderHeld, HeadersInStep, Writing
    <3>2. in_q'.pkt = in_q.pkt
      BY <1>4, <2>2 DEF HeaderHeld, Writing
    <3> QED
      BY <3>1, <3>2
  <2> QED
    BY <1>1, <1>2, <2>1, <2>2, WrBefore
<1>7. /\ w_state # "check_next_buf" => current_buff_cnt' = current_buff_cnt
      /\ HeaderHeld' => current_buff_cnt' = current_buff_cnt
  BY <1>1 DEF WrBuffSel, WrFsm, WrGoes, HeaderHeld, Writing
<1>8. HeaderCopied' => pct_hdr_array'[current_buff_cnt'] = pct_hdr'
  <2> SUFFICES ASSUME HeaderCopied'
               PROVE  pct_hdr_array'[current_buff_cnt] = pct_hdr'
    BY <1>7 DEF HeaderCopied
  <2>1. pct_hdr' = pct_hdr
    BY <1>1, <1>2, <1>5, WrBefore DEF WrOutputs, HeaderCopied, HeaderHeld, Writing
  <2>2. CASE w_state = "wait_cmpr_pipe" /\ pipe_cnt = 2
    <3>1. current_buff_cnt \in pct_hdr_valid
      BY <1>2, <2>2 DEF HeadersInStep
    <3> QED
      BY <1>1, <1>3, <2>1, <3>1 DEF RdHeaders
  <2>3. CASE HeaderCopied
    <3>1. pct_hdr_valid = {} /\ pct_hdr_array[current_buff_cnt] = pct_hdr
      BY <1>2, <1>3, <2>3 DEF HeadersInStep, HeaderCopied
    <3> QED
      BY <1>1, <1>3, <2>1, <3>1 DEF RdHeaders
  <2> QED
    BY <1>1, <1>2, <2>2, <2>3, WrBefore
<1>9. pct_hdr_valid' = IF w_state' = "wait_cmpr_pipe" /\ pipe_cnt' = 2
                       THEN {current_buff_cnt'} ELSE {}
  <2>1. w_state' = "wait_cmpr_pipe" /\ pipe_cnt' = 2 <=>
           w_state = "wait_cmpr_pipe" /\ pipe_cnt = 1
    BY <1>1, <1>3 DEF WrFsm, WrGoes, WrCounters, PipeFull
  <2>2. pct_hdr_valid' = IF w_state = "wait_cmpr_pipe" /\ pipe_cnt = 1
                         THEN {current_buff_cnt} ELSE {}
    BY <1>1, <1>5 DEF WrOutputs
  <2> QED
    BY <1>7, <2>1, <2>2
<1>10. pct_data_wrreq' # {} => pct_data' = Word(pct_hdr', pct_data_wrreq_cnt' - 1)
  <2> SUFFICES ASSUME in_pct_data_valid, pct_data_wrreq_cnt > 0
               PROVE  pct_data' = Word(pct_hdr', pct_data_wrreq_cnt' - 1)
    BY <1>1 DEF WrOutputs
  <2>1. pct_data' = in_q /\ pct_hdr' = pct_hdr
        /\ pct_data_wrreq_cnt' = pct_data_wrreq_cnt + 1
    BY <1>1 DEF WrOutputs, WrCounters
  <2>2. Writing
    BY <1>2, <1>3 DEF WrInStep, WrStates, HeaderTaken, Writing
  <2>3. in_q.pkt = pct_hdr /\ in_q.idx = pct_data_wrreq_cnt /\ in_q \in WordsOf
    BY <1>2, <2>2 DEF HeadersInStep, HeaderHeld, WrInStep, TypeOK
  <2>4. in_q = Word(in_q.pkt, in_q.idx)
    BY <2>3 DEF WordsOf, Word
  <2> QED
    BY <1>3, <2>1, <2>3, <2>4
<1> QED
  BY <1>6, <1>8, <1>9, <1>10 DEF HeadersInStep

-----------------------------------------------------------------------------
(* The words in the buffers.                                               *)

\* A buffer in use keeps its header, also over the edge.
LEMMA HeaderKept ==
    ASSUME DataInv, NEW full \in BOOLEAN, NEW fresh \in SUBSET Buffers,
           Tick(full, fresh), NEW i \in Buffers,
           i \in InUse \/ buf'[i] # <<>>
    PROVE  pct_hdr_array'[i] = pct_hdr_array[i]
<1>1. IInv /\ BufferFifos(full, fresh) /\ RdHeaders
  BY DEF Tick, RdTick, DataInv
<1>2. WrBuffers /\ HeadersInStep /\ RingInOrder
  BY <1>1 DEF DataInv, DataInStep, IInv, ControlInStep
<1>3. CASE i \in pct_hdr_valid
  <2>1. w_state = "wait_cmpr_pipe" /\ i = current_buff_cnt
    BY <1>2, <1>3 DEF HeadersInStep
  <2>2. buf[i] = <<>> /\ pct_data_wrreq = {} /\ i \notin InUse
    BY <1>2, <2>1 DEF WrBuffers, Writing, RingInOrder
  <2> QED
    BY <1>1, <2>2, EmptyStays
<1>4. CASE i \notin pct_hdr_valid
  BY <1>1, <1>4 DEF RdHeaders
<1> QED
  BY <1>3, <1>4

\* Over an edge every word in a buffer stays the word of its place.
LEMMA WordsStep ==
    ASSUME DataInv, NEW full \in BOOLEAN, NEW fresh \in SUBSET Buffers,
           Tick(full, fresh)
    PROVE  WordsInStep'
<1> USE Constants
<1>1. IInv /\ BufferFifos(full, fresh) /\ WrFsm(in_pct_rdy) /\ WrBuffSel(wrempty)
  BY DEF Tick, WrTick, DataInv
<1>2. WrBuffers /\ RdBuffers /\ HeadersInStep /\ WordsInStep /\ WrInStep /\ TypeOK
  BY <1>1 DEF DataInv, DataInStep, IInv, ControlInStep
<1>3. current_buff_cnt \in Buffers /\ pct_data_wrreq_cnt \in 0 .. PCT_WORDS
      /\ w_state \in WrStates
  BY <1>2 DEF TypeOK
<1> SUFFICES ASSUME NEW i \in Buffers, NEW j \in 1 .. Len(buf'[i])
             PROVE  buf'[i][j] = Half(pct_hdr_array'[i], FirstPos(i)' + j - 1)
  BY DEF WordsInStep
<1>4. buf[i] \in Seq(HalvesOf) /\ buf'[i] \in Seq(HalvesOf) /\ buf'[i] # <<>>
  <2>1. buf[i] \in Seq(HalvesOf) /\ buf'[i] \in Seq(HalvesOf)
    BY <1>1, <1>2, BufferStep DEF TypeOK
  <2>2. Len(buf'[i]) \in Nat /\ Len(buf'[i]) > 0
    BY <2>1
  <2> QED
    BY <2>1, <2>2
<1>5. pct_hdr_array'[i] = pct_hdr_array[i]
  BY <1>4, HeaderKept
<1>6. \A k \in 1 .. Len(buf[i]) : buf[i][k] = Half(pct_hdr_array[i], FirstPos(i) + k - 1)
  BY <1>2 DEF WordsInStep
\* A buffer that was empty and is not written stays empty.
<1>7. buf[i] # <<>> \/ i \in pct_data_wrreq
  BY <1>1, <1>4, EmptyStays
<1>8. Writing' /\ i = current_buff_cnt' => Writing /\ i = current_buff_cnt
  <2> SUFFICES ASSUME Writing', i = current_buff_cnt', ~(Writing /\ i = current_buff_cnt)
               PROVE  FALSE
    OBVIOUS
  <2>1. (Writing \/ w_state = "switch_next_buff") /\ current_buff_cnt' = current_buff_cnt
    BY <1>1 DEF WrFsm, WrGoes, Writing, WrBuffSel
  <2>2. w_state = "switch_next_buff" /\ i = current_buff_cnt
    BY <2>1
  <2> QED
    BY <1>2, <1>7, <2>2 DEF WrBuffers, Writing
<1>9. Writing /\ i = current_buff_cnt =>
         \/ Writing' /\ i = current_buff_cnt'
         \/ ~Writing' /\ i \in pct_data_wrreq /\ Len(buf[i]) = RD_WORDS - 2
  <2> SUFFICES ASSUME Writing, i = current_buff_cnt, ~Writing'
               PROVE  i \in pct_data_wrreq /\ Len(buf[i]) = RD_WORDS - 2
    BY <1>1 DEF Writing, WrBuffSel
  <2>1. w_state = "wait_wr_end" /\ ~in_pct_data_valid
    BY <1>1 DEF Writing, WrFsm, WrGoes
  <2>2. pct_data_wrreq_cnt = PCT_WORDS
    BY <1>2, <2>1 DEF WrInStep
  <2> QED
    BY <1>2, <2>1, <2>2 DEF WrBuffers
<1>10. CASE i \in pct_data_wrreq
  <2>1. /\ i = current_buff_cnt /\ Writing
        /\ Len(buf[i]) = 2 * (pct_data_wrreq_cnt - 2) /\ pct_data_wrreq_cnt >= 2
    BY <1>1, <1>10, WriteAlone
  <2>2. buf'[i] = buf[i] \o Halves(pct_data) /\ Len(buf'[i]) = Len(buf[i]) + 2
    BY <1>1, <1>10, BufferStep
  <2>3. FirstPos(i) = 1 /\ FirstPos(i)' = 1
    BY <1>9, <2>1, <2>2 DEF FirstPos
  <2>4. pct_data = Word(pct_hdr, pct_data_wrreq_cnt - 1)
        /\ pct_hdr_array[i] = pct_hdr
    BY <1>2, <1>10, <2>1 DEF HeadersInStep, HeaderCopied, HeaderHeld, Writing
  <2>5. Halves(pct_data) = <<Half(pct_hdr, Len(buf[i]) + 1), Half(pct_hdr, Len(buf[i]) + 2)>>
    <3>1. 2 * (pct_data_wrreq_cnt - 1) - 1 = Len(buf[i]) + 1
          /\ 2 * (pct_data_wrreq_cnt - 1) = Len(buf[i]) + 2
      BY <1>3, <2>1
    <3> QED
      BY <2>4, <3>1 DEF Halves, Word
  <2>6. CASE j \in 1 .. Len(buf[i])
    <3>1. buf'[i][j] = buf[i][j]
      BY <1>4, <2>2, <2>5, <2>6
    <3> QED
      BY <1>5, <1>6, <2>3, <2>6, <3>1
  <2>7. CASE j = Len(buf[i]) + 1
    <3>1. buf'[i][j] = Half(pct_hdr, Len(buf[i]) + 1)
      BY <1>4, <2>2, <2>5, <2>7
    <3> QED
      BY <1>4, <1>5, <2>3, <2>4, <2>7, <3>1
  <2>8. CASE j = Len(buf[i]) + 2
    <3>1. buf'[i][j] = Half(pct_hdr, Len(buf[i]) + 2)
      BY <1>4, <2>2, <2>5, <2>8
    <3> QED
      BY <1>4, <1>5, <2>3, <2>4, <2>8, <3>1
  <2> QED
    BY <1>4, <2>2, <2>6, <2>7, <2>8
<1>11. CASE i \notin pct_data_wrreq /\ i \in BuffRdReq(full)
  <2>1. i = crnt_buff_cnt /\ r_state = "rd_buff"
    BY <1>11 DEF BuffRdReq, RdReq
  <2>2. ~(Writing /\ i = current_buff_cnt)
    BY <1>2, <2>1 DEF RdBuffers
  <2>3. buf'[i] = Tail(buf[i]) /\ Len(buf'[i]) = Len(buf[i]) - 1
    BY <1>1, <1>11, BufferStep
  <2>4. FirstPos(i) \in Int /\ FirstPos(i)' = FirstPos(i) + 1
    <3>1. FirstPos(i) = RD_WORDS + 1 - Len(buf[i])
          /\ FirstPos(i)' = RD_WORDS + 1 - Len(buf'[i])
      BY <1>8, <2>2 DEF FirstPos, RD_WORDS
    <3>2. Len(buf[i]) \in Nat
      BY <1>4
    <3> QED
      BY <2>3, <3>1, <3>2
  <2>5. buf'[i][j] = buf[i][j + 1] /\ j + 1 \in 1 .. Len(buf[i])
    BY <1>4, <2>3
  <2>6. FirstPos(i) + (j + 1) - 1 = FirstPos(i)' + j - 1
    BY <2>4
  <2> QED
    BY <1>5, <1>6, <2>5, <2>6
<1>12. CASE i \notin pct_data_wrreq /\ i \notin BuffRdReq(full)
  <2>1. i \notin BuffClr
    BY <1>1, <1>4, BufferStep
  <2>2. buf'[i] = buf[i]
    BY <1>1, <1>12, <2>1, BufferStep
  <2>3. FirstPos(i)' = FirstPos(i)
    BY <1>8, <1>9, <1>12, <2>2 DEF FirstPos
  <2> QED
    BY <1>5, <1>6, <2>2, <2>3
<1> QED
  BY <1>10, <1>11, <1>12

-----------------------------------------------------------------------------
(* Verdicts of the sample number comparators.                              *)

\* A comparison just made, one edge later, and an older one, one edge later.
LEMMA FreshSound ==
    ASSUME NEW sn \in Nat, NEW s \in Nat, NEW t \in Nat, s <= t, t <= s + MaxStep
    PROVE  Sound(Compare(sn, s), sn, t, 1)
  BY MaxStepType DEF Sound, Compare

LEMMA LaterSound ==
    ASSUME NEW sn \in Nat, NEW s \in Nat, NEW t \in Nat, s <= t, t <= s + MaxStep,
           NEW v, NEW k \in 1 .. 3, Sound(v, sn, s, k)
    PROVE  Sound(v, sn, t, k + 1)
<1>1. MaxStep \in Nat
  BY MaxStepType
<1>2. CASE k = 1
  BY <1>1, <1>2 DEF Sound
<1>3. CASE k = 2
  BY <1>1, <1>3 DEF Sound
<1>4. CASE k = 3
  BY <1>1, <1>4 DEF Sound
<1> QED
  BY <1>2, <1>3, <1>4

\* The pipeline of a buffer whose header stays.
LEMMA PipeSound ==
    ASSUME DataInv, SampleNr, RdCompare(sample_nr), NEW i \in Buffers,
           pct_hdr_array'[i] = pct_hdr_array[i]
    PROVE  /\ RdVerdict(i, 1)'
           /\ RdVerdict(i, 1) => RdVerdict(i, 2)'
           /\ RdVerdict(i, 2) => RdVerdict(i, 3)'
           /\ RdVerdict(i, 3) => Sound(r_cmp[i][3], pct_hdr_array[i].sn, sample_nr', 4)
<1> DEFINE sn == pct_hdr_array[i].sn
<1>1. TypeOK
  BY DEF DataInv, IInv
<1>2. sn \in Nat
  BY <1>1, HdrType DEF TypeOK
<1>3. /\ sample_nr \in Nat /\ sample_nr' \in Nat
      /\ sample_nr <= sample_nr' /\ sample_nr' <= sample_nr + MaxStep
  BY <1>1, SampleStep
<1>4. /\ r_cmp'[i][1] = Compare(sn, sample_nr)
      /\ r_cmp'[i][2] = r_cmp[i][1] /\ r_cmp'[i][3] = r_cmp[i][2]
  BY DEF RdCompare, Shift
<1>5. Sound(r_cmp'[i][1], sn, sample_nr', 1)
  BY <1>2, <1>3, <1>4, FreshSound
<1>6. Sound(r_cmp[i][1], sn, sample_nr, 1) => Sound(r_cmp[i][1], sn, sample_nr', 2)
  BY <1>2, <1>3, LaterSound
<1>7. Sound(r_cmp[i][2], sn, sample_nr, 2) => Sound(r_cmp[i][2], sn, sample_nr', 3)
  BY <1>2, <1>3, LaterSound
<1>8. Sound(r_cmp[i][3], sn, sample_nr, 3) => Sound(r_cmp[i][3], sn, sample_nr', 4)
  BY <1>2, <1>3, LaterSound
<1>9. RdVerdict(i, 1)' /\ (RdVerdict(i, 1) => RdVerdict(i, 2)')
  BY <1>4, <1>5, <1>6 DEF RdVerdict
<1>10. RdVerdict(i, 2) => RdVerdict(i, 3)'
  BY <1>4, <1>7 DEF RdVerdict
<1> QED
  BY <1>8, <1>9, <1>10 DEF RdVerdict

LEMMA VerdictsStep ==
    ASSUME DataInv, NEW full \in BOOLEAN, NEW fresh \in SUBSET Buffers,
           Tick(full, fresh)
    PROVE  VerdictsInStep'
<1> USE Constants
<1>1. /\ WrFsm(in_pct_rdy) /\ WrBuffSel(wrempty) /\ WrCounters /\ WrOutputs(in_q)
      /\ WrCompare(sample_nr) /\ SampleNr /\ BufferFifos(full, fresh)
      /\ RdFsm(full) /\ RdBuffSel(pct_buff_rdy) /\ RdCompare(sample_nr) /\ RdHeaders
  BY DEF Tick, WrTick, RdTick
<1>2. /\ IInv /\ HeadersInStep /\ VerdictsInStep /\ RingInOrder /\ WrInStep
      /\ WrBuffers /\ RdBuffers /\ TypeOK
  BY DEF DataInv, DataInStep, IInv, ControlInStep
<1>3. /\ w_state \in WrStates /\ pipe_cnt \in 0 .. 5 /\ current_buff_cnt \in Buffers
      /\ crnt_buff_cnt \in Buffers
  BY <1>2 DEF TypeOK
<1>4. /\ sample_nr \in Nat /\ sample_nr' \in Nat /\ sample_nr <= sample_nr'
      /\ pct_hdr.sn \in Nat
  BY <1>1, <1>2, SampleStep, HdrType DEF TypeOK
\* The comparator of the write FSM.
<1>5. HeaderHeld => pct_hdr' = pct_hdr
  BY <1>1, <1>2, HeaderTakenThere DEF WrOutputs, HeaderHeld, Writing
<1>6. HeaderHeld =>
         /\ WrVerdict(1)'
         /\ WrVerdict(1) => WrVerdict(2)'
         /\ WrVerdict(2) => WrVerdict(3)'
         /\ WrVerdict(3) => (w_cmp[3] = "less" => pct_hdr'.sn < sample_nr')
  <2> SUFFICES ASSUME HeaderHeld
               PROVE  /\ WrVerdict(1)'
                      /\ WrVerdict(1) => WrVerdict(2)'
                      /\ WrVerdict(2) => WrVerdict(3)'
                      /\ WrVerdict(3) => (w_cmp[3] = "less" => pct_hdr'.sn < sample_nr')
    OBVIOUS
  <2>1. /\ w_cmp'[1] = Compare(pct_hdr.sn, sample_nr)
        /\ w_cmp'[2] = w_cmp[1] /\ w_cmp'[3] = w_cmp[2]
    BY <1>1 DEF WrCompare, Shift
  <2>2. pct_hdr'.sn = pct_hdr.sn
    BY <1>5
  <2>3. w_cmp'[1] = "less" => pct_hdr.sn < sample_nr
    BY <2>1, <1>4 DEF Compare
  <2> QED
    BY <1>4, <2>1, <2>2, <2>3 DEF WrVerdict
\* The comparator of the buffer that the header is copied to.
<1>7. ASSUME HeaderCopied, NEW i \in Buffers, i = current_buff_cnt
      PROVE  /\ RdVerdict(i, 1)'
             /\ RdVerdict(i, 1) => RdVerdict(i, 2)'
             /\ RdVerdict(i, 2) => RdVerdict(i, 3)'
  <2>1. pct_hdr_valid = {}
    BY <1>2, <1>3, <1>7 DEF HeadersInStep, HeaderCopied
  <2>2. pct_hdr_array'[i] = pct_hdr_array[i]
    BY <1>1, <2>1 DEF RdHeaders
  <2> QED
    BY <1>1, <2>2, PipeSound
<1>8. current_buff_cnt' = current_buff_cnt \/ w_state = "check_next_buf"
  BY <1>1 DEF WrBuffSel
<1>9. ASSUME w_state' = "wait_cmpr_pipe", NEW i \in Buffers, i = current_buff_cnt
      PROVE  /\ pipe_cnt' >= 3 => WrVerdict(1)'
             /\ pipe_cnt' >= 4 => WrVerdict(2)' /\ RdVerdict(i, 1)'
  <2>1. pipe_cnt' >= 3 => w_state = "wait_cmpr_pipe" /\ pipe_cnt' = pipe_cnt + 1
    <3>1. pipe_cnt' \in Nat
      BY <1>1, <1>2, WrBefore
    <3> QED
      BY <1>1, <1>2, <1>9, <3>1, WrBefore
  <2>2. pipe_cnt' >= 3 => HeaderHeld
    BY <1>3, <2>1 DEF HeaderHeld
  <2>3. pipe_cnt' >= 4 => pipe_cnt' >= 3
    BY <1>1, <1>2, WrBefore
  <2>4. pipe_cnt' >= 4 => HeaderCopied /\ WrVerdict(1)
    <3>1. pipe_cnt' >= 4 => w_state = "wait_cmpr_pipe" /\ pipe_cnt >= 3
      BY <1>3, <2>1, <2>3
    <3> QED
      BY <1>2, <3>1, <2>2, <2>3 DEF HeaderCopied, VerdictsInStep
  <2> QED
    BY <1>6, <1>7, <1>9, <2>2, <2>3, <2>4
<1>10. ASSUME w_state' = "check_smpl_nr", NEW i \in Buffers, i = current_buff_cnt
       PROVE  /\ WrVerdict(1)' /\ WrVerdict(2)' /\ WrVerdict(3)'
              /\ RdVerdict(i, 1)' /\ RdVerdict(i, 2)'
  <2>1. \/ w_state = "wait_cmpr_pipe" /\ pipe_cnt >= 4
        \/ w_state = "check_smpl_nr"
    BY <1>1, <1>3, <1>10 DEF WrFsm, WrGoes, PipeFull
  <2>2. HeaderHeld /\ HeaderCopied
    BY <1>3, <2>1 DEF HeaderHeld, HeaderCopied
  <2>3. WrVerdict(1) /\ WrVerdict(2) /\ RdVerdict(i, 1)
    BY <1>2, <1>3, <1>10, <2>1 DEF VerdictsInStep
  <2> QED
    BY <1>6, <1>7, <1>10, <2>2, <2>3
<1>11. w_state' = "clr_fifo" => MayDrop(pct_hdr)'
  <2> SUFFICES ASSUME w_state' = "clr_fifo" PROVE MayDrop(pct_hdr)'
    OBVIOUS
  <2>1. w_state = "check_smpl_nr" /\ Late
    BY <1>1 DEF WrFsm, WrGoes
  <2>2. HeaderHeld /\ WrVerdict(3)
    BY <1>2, <2>1 DEF HeaderHeld, VerdictsInStep
  <2> QED
    BY <1>5, <1>6, <2>1, <2>2 DEF Late, MayDrop
<1>12. ASSUME NEW i \in Buffers,
              Held(i)' \/ (w_state' = "switch_next_buff" /\ i = current_buff_cnt')
       PROVE  RdVerdict(i, 1)' /\ RdVerdict(i, 2)' /\ RdVerdict(i, 3)'
  <2>1. \/ Held(i)
        \/ w_state \in {"check_smpl_nr", "switch_next_buff"} /\ i = current_buff_cnt
    <3>1. CASE buf'[i] # <<>>
      <4>1. buf[i] # <<>> \/ i \in pct_data_wrreq
        BY <1>1, <1>2, <3>1, EmptyStays
      <4> QED
        BY <1>2, <4>1, WriteAlone DEF Held
    <3>2. CASE Writing' /\ i = current_buff_cnt'
      <4>1. Writing \/ w_state = "switch_next_buff"
        BY <1>1, <1>2, <3>2, WrBefore
      <4> QED
        BY <1>8, <3>2, <4>1 DEF Held, Writing
    <3>3. CASE w_state' = "switch_next_buff" /\ i = current_buff_cnt'
      BY <1>1, <1>8, <3>3 DEF WrFsm, WrGoes
    <3> QED
      BY <1>12, <3>1, <3>2, <3>3 DEF Held
  <2>2. CASE Held(i)
    <3>1. pct_hdr_array'[i] = pct_hdr_array[i]
      BY <2>2, HeaderKept DEF InUse
    <3>2. RdVerdict(i, 1) /\ RdVerdict(i, 2)
      BY <1>2, <2>2 DEF VerdictsInStep
    <3> QED
      BY <1>1, <3>1, <3>2, PipeSound
  <2>3. CASE w_state \in {"check_smpl_nr", "switch_next_buff"} /\ i = current_buff_cnt
    <3>1. HeaderCopied
      BY <2>3 DEF HeaderCopied, HeaderHeld
    <3>2. RdVerdict(i, 1) /\ RdVerdict(i, 2)
      BY <1>2, <2>3 DEF VerdictsInStep
    <3> QED
      BY <1>7, <2>3, <3>1, <3>2
  <2> QED
    BY <2>1, <2>2, <2>3
\* The read FSM acts on the verdict that its multiplexer took an edge before.
<1>13. ASSUME r_state' = "idle", crnt_buff_rdy'
       PROVE  /\ crnt_buff_pct_synch_dis' = pct_hdr_array'[crnt_buff_cnt'].dis
              /\ Sound(crnt_buff_pct_smpl_nr', pct_hdr_array'[crnt_buff_cnt'].sn,
                       sample_nr', 4)
  <2>1. r_state \in {"idle", "check_next_buf"} /\ pct_buff_rdy[crnt_buff_cnt]
        /\ crnt_buff_cnt' = crnt_buff_cnt
    BY <1>1, <1>13 DEF RdFsm, RdGoes, RdBuffSel
  <2>2. Len(buf[crnt_buff_cnt]) = RD_WORDS
    BY <1>2, <1>3, <2>1 DEF RdBuffers
  <2>3. Held(crnt_buff_cnt)
    BY <2>2 DEF Held
  <2>4. pct_hdr_array'[crnt_buff_cnt] = pct_hdr_array[crnt_buff_cnt]
    BY <1>3, <2>3, HeaderKept DEF InUse
  <2>5. RdVerdict(crnt_buff_cnt, 3)
    BY <1>2, <1>3, <2>3 DEF VerdictsInStep
  <2>6. Sound(r_cmp[crnt_buff_cnt][3], pct_hdr_array[crnt_buff_cnt].sn, sample_nr', 4)
    BY <1>1, <1>3, <2>4, <2>5, PipeSound
  <2> QED
    BY <1>1, <2>1, <2>4, <2>6 DEF RdBuffSel
<1>14. r_state' = "clr_buff" => MayDrop(pct_hdr_array[crnt_buff_cnt])'
  <2> SUFFICES ASSUME r_state' = "clr_buff"
               PROVE  MayDrop(pct_hdr_array[crnt_buff_cnt])'
    OBVIOUS
  <2>1. /\ r_state = "idle" /\ crnt_buff_rdy /\ ~Unsynchronised
        /\ crnt_buff_pct_smpl_nr = "less" /\ crnt_buff_cnt' = crnt_buff_cnt
    BY <1>1 DEF RdFsm, RdGoes, RdBuffSel, Past
  <2>2. Len(buf[crnt_buff_cnt]) = RD_WORDS
    BY <1>2, <2>1 DEF RdBuffers
  <2>3. Held(crnt_buff_cnt)
    BY <2>2 DEF Held
  <2>4. pct_hdr_array'[crnt_buff_cnt] = pct_hdr_array[crnt_buff_cnt]
    BY <1>3, <2>3, HeaderKept DEF InUse
  <2>5. /\ crnt_buff_pct_synch_dis = pct_hdr_array[crnt_buff_cnt].dis
        /\ pct_hdr_array[crnt_buff_cnt].sn < sample_nr
    BY <1>2, <2>1 DEF VerdictsInStep, Sound
  <2>6. pct_hdr_array[crnt_buff_cnt].sn \in Nat
    BY <1>2, <1>3, HdrType DEF TypeOK
  <2> QED
    BY <1>4, <2>1, <2>4, <2>5, <2>6 DEF MayDrop, Unsynchronised
<1>15. w_state' \in {"wait_cmpr_pipe", "check_smpl_nr"} => current_buff_cnt' = current_buff_cnt
  BY <1>1, <1>8 DEF WrFsm, WrGoes
<1>16. ASSUME w_state' = "wait_cmpr_pipe"
       PROVE  /\ pipe_cnt' >= 3 => WrVerdict(1)'
              /\ pipe_cnt' >= 4 => WrVerdict(2)' /\ RdVerdict(current_buff_cnt, 1)'
  BY <1>3, <1>9, <1>15, <1>16 DEF RdVerdict
<1>17. ASSUME w_state' = "check_smpl_nr"
       PROVE  /\ WrVerdict(1)' /\ WrVerdict(2)' /\ WrVerdict(3)'
              /\ RdVerdict(current_buff_cnt, 1)' /\ RdVerdict(current_buff_cnt, 2)'
  BY <1>3, <1>10, <1>15, <1>17 DEF RdVerdict
<1> QED
  BY <1>11, <1>12, <1>13, <1>14, <1>16, <1>17 DEF VerdictsInStep

-----------------------------------------------------------------------------
(* The ring of buffers.                                                    *)

LEMMA BehindStep ==
    ASSUME NEW n \in Buffers, NEW i \in Buffers
    PROVE  /\ Behind(n, i) \in 1 .. N_BUFF
           /\ Behind(n, i) = N_BUFF <=> i = n
           /\ Behind(NextBuffer(n), i) = IF i = n THEN 1 ELSE Behind(n, i) + 1
           /\ Behind(n, i) = 1 <=> NextBuffer(i) = n
           /\ Behind(n, i) > 1 => Behind(n, NextBuffer(i)) = Behind(n, i) - 1
           /\ \A j \in Buffers : Behind(n, i) = Behind(n, j) => i = j
  BY Constants DEF Behind, NextBuffer, Buffers

\* The next buffer to fill is taken into use.
LEMMA RingTake ==
    ASSUME NEW used \in SUBSET Buffers, NEW c \in Buffers, NEW n \in Buffers,
           RingFrom(used, c, n), n \notin used
    PROVE  RingFrom(used \cup {n}, c, NextBuffer(n))
<1>1. CASE c \in used
  <2>1. used = {i \in Buffers : Behind(n, i) <= Behind(n, c)} /\ c # n
    BY <1>1 DEF RingFrom
  <2>2. \A i \in Buffers : i # n =>
           Behind(NextBuffer(n), i) = Behind(n, i) + 1 /\ Behind(n, i) \in 1 .. N_BUFF
    BY BehindStep
  <2>3. Behind(NextBuffer(n), n) = 1
    BY BehindStep
  <2>4. \A i \in Buffers : i \in used \cup {n} <=>
           Behind(NextBuffer(n), i) <= Behind(NextBuffer(n), c)
    BY <1>1, <2>1, <2>2, <2>3
  <2> QED
    BY <1>1, <2>4 DEF RingFrom
<1>2. CASE c \notin used
  <2>1. used = {} /\ c = n
    BY <1>2 DEF RingFrom
  <2>2. \A i \in Buffers : i \in {n} <=>
           Behind(NextBuffer(n), i) <= Behind(NextBuffer(n), n)
    BY BehindStep, Constants
  <2> QED
    BY <2>1, <2>2 DEF RingFrom
<1> QED
  BY <1>1, <1>2

\* The buffer the read FSM is at is given back.
LEMMA RingRelease ==
    ASSUME NEW used \in SUBSET Buffers, NEW c \in Buffers, NEW n \in Buffers,
           RingFrom(used, c, n), c \in used
    PROVE  RingFrom(used \ {c}, NextBuffer(c), n)
<1>1. used = {i \in Buffers : Behind(n, i) <= Behind(n, c)}
  BY DEF RingFrom
<1>2. \A i \in Buffers : /\ Behind(n, i) \in 1 .. N_BUFF
                         /\ Behind(n, i) = Behind(n, c) => i = c
  BY BehindStep
<1>3. CASE Behind(n, c) = 1
  <2>1. NextBuffer(c) = n /\ used \ {c} = {}
    BY <1>1, <1>2, <1>3, BehindStep
  <2> QED
    BY <2>1 DEF RingFrom
<1>4. CASE Behind(n, c) > 1
  <2>1. Behind(n, NextBuffer(c)) = Behind(n, c) - 1 /\ NextBuffer(c) \in Buffers
    BY <1>4, BehindStep, NextBufferType
  <2>2. \A i \in Buffers : i \in used \ {c} <=> Behind(n, i) <= Behind(n, NextBuffer(c))
    BY <1>1, <1>2, <2>1
  <2> QED
    BY <1>2, <2>1, <2>2 DEF RingFrom
<1> QED
  BY <1>2, <1>3, <1>4

\* Which buffers come into use on an edge, and which one is given back.
LEMMA InUseStep ==
    ASSUME DataInv, NEW full \in BOOLEAN, NEW fresh \in SUBSET Buffers,
           Tick(full, fresh)
    PROVE  InUse' = (IF r_state = "switch_next_buff" THEN InUse \ {crnt_buff_cnt} ELSE InUse)
                    \cup (IF w_state = "switch_next_buff" THEN {next_buff_cnt} ELSE {})
<1> USE Constants
<1>1. /\ WrFsm(in_pct_rdy) /\ WrBuffSel(wrempty) /\ WrCounters
      /\ BufferFifos(full, fresh) /\ RdFsm(full) /\ RdBuffSel(pct_buff_rdy)
  BY DEF Tick, WrTick, RdTick
<1>2. /\ IInv /\ RingInOrder /\ WrInStep /\ WrBuffers /\ RdBuffers /\ ReaderInStep
      /\ TypeOK
  BY DEF DataInv, DataInStep, IInv, ControlInStep
<1>3. /\ current_buff_cnt \in Buffers /\ next_buff_cnt \in Buffers
      /\ crnt_buff_cnt \in Buffers /\ r_state \in RdStates /\ w_state \in WrStates
      /\ r_rd_cnt \in 0 .. RD_WORDS /\ buf \in [Buffers -> Seq(HalvesOf)]
  BY <1>2 DEF TypeOK
<1>4. r_state \in {"rd_buff", "clr_buff"} => buf[crnt_buff_cnt] # <<>>
  <2>1. r_state \in {"rd_buff", "clr_buff"} => Len(buf[crnt_buff_cnt]) > 0
    BY <1>2, <1>3 DEF RdBuffers, ReaderInStep
  <2> QED
    BY <1>3, <2>1
<1>5. w_state = "switch_next_buff" =>
         current_buff_cnt = next_buff_cnt /\ next_buff_cnt \notin InUse
  BY <1>2 DEF WrBuffers, RingInOrder, Writing
<1>6. /\ Writing' => Writing \/ w_state = "switch_next_buff"
      /\ w_state = "switch_next_buff" => Writing'
      /\ Writing => current_buff_cnt' = current_buff_cnt
      /\ w_state = "switch_next_buff" => current_buff_cnt' = current_buff_cnt
      /\ r_state' = "switch_next_buff" =>
            r_state \in {"rd_buff", "clr_buff"} /\ crnt_buff_cnt' = crnt_buff_cnt
  BY <1>1 DEF WrFsm, WrGoes, Writing, WrBuffSel, RdFsm, RdGoes, RdBuffSel
<1>7. r_state = "switch_next_buff" => crnt_buff_cnt \in InUse /\ r_state' # "switch_next_buff"
  BY <1>1, <1>3 DEF InUse, RdFsm, RdGoes
\* No buffer comes into use but the one the write FSM turns to.
<1>8. ASSUME NEW i \in Buffers, i \in InUse'
      PROVE  i \in InUse \/ (w_state = "switch_next_buff" /\ i = next_buff_cnt)
  <2>1. CASE buf'[i] # <<>>
    <3>1. buf[i] # <<>> \/ i \in pct_data_wrreq
      BY <1>1, <1>2, <2>1, EmptyStays
    <3> QED
      BY <1>2, <3>1, WriteAlone DEF InUse, Held
  <2>2. CASE Writing' /\ i = current_buff_cnt'
    BY <1>5, <1>6, <2>2 DEF InUse, Held
  <2>3. CASE r_state' = "switch_next_buff" /\ i = crnt_buff_cnt'
    BY <1>4, <1>6, <2>3 DEF InUse, Held
  <2> QED
    BY <1>8, <2>1, <2>2, <2>3 DEF InUse, Held
\* A buffer in use stays so, unless the read FSM leaves it.
<1>9. ASSUME NEW i \in InUse, ~(r_state = "switch_next_buff" /\ i = crnt_buff_cnt)
      PROVE  i \in InUse'
  <2>1. i \in Buffers /\ Held(i)
    BY <1>9 DEF InUse
  <2>2. CASE i \in pct_data_wrreq
    <3>1. Len(buf[i]) \in Nat
      BY <1>3, <2>1
    <3>2. Len(buf'[i]) = Len(buf[i]) + 2
      BY <1>1, <1>2, <2>1, <2>2, BufferStep
    <3>3. buf'[i] # <<>>
      BY <3>1, <3>2
    <3> QED
      BY <2>1, <3>3 DEF InUse, Held
  <2>3. CASE i \notin pct_data_wrreq /\ Writing /\ i = current_buff_cnt
    <3>1. Writing'
      <4> SUFFICES ASSUME ~Writing' PROVE FALSE
        OBVIOUS
      <4>1. w_state = "wait_wr_end" /\ ~in_pct_data_valid
        BY <1>1, <2>3 DEF WrFsm, WrGoes, Writing
      <4>2. pct_data_wrreq_cnt = PCT_WORDS
        BY <1>2, <4>1 DEF WrInStep
      <4> QED
        BY <1>2, <2>3, <4>1, <4>2 DEF WrBuffers
    <3> QED
      BY <1>6, <2>1, <2>3, <3>1 DEF InUse, Held
  <2>4. CASE i \notin pct_data_wrreq /\ buf[i] # <<>>
    <3>1. CASE i \in BuffClr
      <4>1. r_state = "clr_buff" /\ i = crnt_buff_cnt
        BY <3>1 DEF BuffClr
      <4> QED
        BY <1>1, <2>1, <4>1 DEF RdFsm, RdGoes, RdBuffSel, InUse
    <3>2. CASE i \in BuffRdReq(full)
      <4>1. r_state = "rd_buff" /\ ~full /\ i = crnt_buff_cnt
        BY <3>2 DEF BuffRdReq, RdReq
      <4>2. CASE BuffRead
        BY <1>1, <2>1, <4>1, <4>2 DEF RdFsm, RdGoes, RdBuffSel, InUse
      <4>3. CASE ~BuffRead
        <5>1. Len(buf[i]) > 1
          <6>1. Len(buf[i]) = RD_WORDS - r_rd_cnt
            BY <1>2, <4>1 DEF ReaderInStep
          <6>2. r_rd_cnt < RD_WORDS - 1
            BY <1>3, <4>3 DEF BuffRead
          <6> QED
            BY <1>3, <6>1, <6>2
        <5>2. Len(buf'[i]) = Len(buf[i]) - 1
          BY <1>1, <1>2, <2>1, <3>2, BufferStep
        <5>3. buf'[i] # <<>>
          BY <1>3, <2>1, <5>1, <5>2
        <5> QED
          BY <2>1, <5>3 DEF InUse, Held
      <4> QED
        BY <4>2, <4>3
    <3>3. CASE i \notin BuffClr /\ i \notin BuffRdReq(full)
      <4>1. buf'[i] = buf[i]
        BY <1>1, <1>2, <2>1, <2>4, <3>3, BufferStep
      <4> QED
        BY <2>1, <2>4, <4>1 DEF InUse, Held
    <3> QED
      BY <3>1, <3>2, <3>3
  <2> QED
    BY <2>1, <2>2, <2>3, <2>4 DEF Held
\* The one the read FSM leaves is empty, and nobody turns to it.
<1>10. r_state = "switch_next_buff" => crnt_buff_cnt \notin InUse'
  <2> SUFFICES ASSUME r_state = "switch_next_buff" PROVE crnt_buff_cnt \notin InUse'
    OBVIOUS
  <2>1. buf[crnt_buff_cnt] = <<>> /\ crnt_buff_cnt \notin pct_data_wrreq
    BY <1>2 DEF RdBuffers, WrBuffers, RingInOrder
  <2>2. buf'[crnt_buff_cnt] = <<>>
    BY <1>1, <1>2, <1>3, <2>1, EmptyStays
  <2>3. ~(Writing' /\ crnt_buff_cnt = current_buff_cnt')
    BY <1>2, <1>5, <1>6, <1>7 DEF RingInOrder
  <2> QED
    BY <1>7, <2>2, <2>3 DEF InUse, Held
<1>11. w_state = "switch_next_buff" => next_buff_cnt \in InUse'
  BY <1>3, <1>5, <1>6 DEF InUse, Held
<1>12. InUse \subseteq Buffers /\ InUse' \subseteq Buffers
  BY DEF InUse
<1> QED
  BY <1>3, <1>5, <1>7, <1>8, <1>9, <1>10, <1>11, <1>12

\* Over an edge after which the packet in hand has not been given a buffer, it
\* is either the packet from before or a later one.
LEMMA NewHeaderStep ==
    ASSUME DataInv, NEW full \in BOOLEAN, NEW fresh \in SUBSET Buffers,
           Tick(full, fresh)
    PROVE  NewHeader' => NewHeader \/ in_q.pkt.id < in_q'.pkt.id
<1> SUFFICES ASSUME NewHeader' PROVE NewHeader \/ in_q.pkt.id < in_q'.pkt.id
  OBVIOUS
<1> USE Constants
<1>1. /\ WrFsm(in_pct_rdy) /\ WrCounters /\ WrOutputs(in_q) /\ StreamFifo
  BY DEF Tick, WrTick
<1>2. IInv /\ WrInStep /\ TypeOK /\ w_state \in WrStates
  BY DEF DataInv, IInv, ControlInStep, TypeOK
<1>3. in_pct_rdreq /\ ~Writing => in_q.pkt.id < in_q'.pkt.id
  BY <1>1, <1>2, StreamHeader
<1>4. CASE HeaderHeld'
  <2>1. HeaderHeld \/ (w_state = "wait_cmpr_pipe" /\ pipe_cnt = 1)
    BY <1>1, <1>2, <1>4, WrBefore
  <2>2. ~Writing
    BY <1>1, <1>4 DEF NewHeader, WrFsm, WrGoes, Writing, HeaderHeld
  <2> QED
    BY <1>2, <2>1, <2>2, HeaderTakenThere DEF NewHeader
<1>5. CASE in_pct_data_valid'
  <2>1. in_pct_rdreq
    BY <1>1, <1>5 DEF WrOutputs
  <2>2. ~Writing
    <3> SUFFICES ASSUME Writing PROVE FALSE
      OBVIOUS
    <3>1. w_state = "wait_wr_end" /\ ~in_pct_data_valid
      BY <1>1 DEF NewHeader, WrFsm, WrGoes, Writing
    <3> QED
      BY <1>2, <2>1, <3>1 DEF WrInStep
  <2> QED
    BY <1>3, <2>1, <2>2
<1> QED
  BY <1>4, <1>5 DEF NewHeader

\* The buffer that the write FSM turns to has the header of the packet in hand.
LEMMA NewBufferHeader ==
    ASSUME DataInv, NEW full \in BOOLEAN, NEW fresh \in SUBSET Buffers,
           Tick(full, fresh), HeadersInStep', w_state = "switch_next_buff"
    PROVE  /\ pct_hdr_array'[next_buff_cnt] = in_q.pkt /\ in_q' = in_q
           /\ next_buff_cnt \notin InUse
<1> USE Constants
<1>1. WrFsm(in_pct_rdy) /\ WrBuffSel(wrempty) /\ WrOutputs(in_q) /\ StreamFifo
  BY DEF Tick, WrTick
<1>2. IInv /\ RingInOrder /\ WrInStep /\ WrBuffers /\ HeadersInStep
  BY DEF DataInv, DataInStep, IInv, ControlInStep
<1>3. current_buff_cnt = next_buff_cnt /\ current_buff_cnt' = current_buff_cnt
      /\ next_buff_cnt \notin InUse
  BY <1>1, <1>2 DEF WrBuffers, WrBuffSel, RingInOrder, Writing
<1>4. ~in_pct_rdreq /\ ~in_pct_data_valid
  BY <1>2 DEF WrInStep, HeaderTaken
<1>5. pct_hdr' = pct_hdr /\ in_q' = in_q
  BY <1>1, <1>2, <1>4, StreamHeader DEF WrOutputs
<1>6. pct_hdr_array'[current_buff_cnt'] = pct_hdr'
  BY <1>1 DEF WrFsm, WrGoes, HeadersInStep, HeaderCopied, HeaderHeld, Writing
<1>7. pct_hdr = in_q.pkt
  BY <1>2 DEF HeadersInStep, HeaderHeld
<1> QED
  BY <1>3, <1>5, <1>6, <1>7

LEMMA RingStep ==
    ASSUME DataInv, NEW full \in BOOLEAN, NEW fresh \in SUBSET Buffers,
           Tick(full, fresh), HeadersInStep'
    PROVE  RingInOrder'
<1> USE Constants
<1>1. /\ WrFsm(in_pct_rdy) /\ WrBuffSel(wrempty) /\ WrCounters /\ WrOutputs(in_q)
      /\ StreamFifo /\ BufferFifos(full, fresh) /\ RdFsm(full) /\ RdBuffSel(pct_buff_rdy)
  BY DEF Tick, WrTick, RdTick
<1>2. /\ IInv /\ RingInOrder /\ WrInStep /\ WrBuffers /\ RdBuffers /\ ReaderInStep
      /\ HeadersInStep /\ TypeOK
  BY DEF DataInv, DataInStep, IInv, ControlInStep
<1>3. /\ current_buff_cnt \in Buffers /\ next_buff_cnt \in Buffers
      /\ crnt_buff_cnt \in Buffers /\ r_state \in RdStates /\ w_state \in WrStates
      /\ pct_hdr_array \in [Buffers -> Hdrs] /\ in_pct_rdreq \in BOOLEAN
      /\ in_pct_data_valid \in BOOLEAN /\ r_rd_cnt \in 0 .. RD_WORDS
  BY <1>2 DEF TypeOK
<1>4. /\ w_state = "switch_next_buff" => /\ next_buff_cnt' = NextBuffer(next_buff_cnt)
                                         /\ current_buff_cnt' = current_buff_cnt
                                         /\ current_buff_cnt = next_buff_cnt
                                         /\ next_buff_cnt \notin InUse
      /\ w_state # "switch_next_buff" => next_buff_cnt' = next_buff_cnt
      /\ w_state = "check_next_buf" => current_buff_cnt' = next_buff_cnt
      /\ w_state # "check_next_buf" => current_buff_cnt' = current_buff_cnt
      /\ r_state = "switch_next_buff" => /\ crnt_buff_cnt' = NextBuffer(crnt_buff_cnt)
                                         /\ crnt_buff_cnt \in InUse
      /\ r_state # "switch_next_buff" => crnt_buff_cnt' = crnt_buff_cnt
  BY <1>1, <1>2, <1>3 DEF WrBuffSel, RdBuffSel, WrBuffers, RingInOrder, Writing, InUse
<1>5. InUse' = (IF r_state = "switch_next_buff" THEN InUse \ {crnt_buff_cnt} ELSE InUse)
               \cup (IF w_state = "switch_next_buff" THEN {next_buff_cnt} ELSE {})
  BY InUseStep
<1>6. InUse \subseteq Buffers
  BY DEF InUse
<1>7. ~Writing' /\ w_state' # "check_next_buf" => current_buff_cnt' \notin InUse'
  <2> SUFFICES ASSUME ~Writing', w_state' # "check_next_buf"
               PROVE  current_buff_cnt' \notin InUse
    BY <1>1, <1>5 DEF WrFsm, WrGoes, Writing
  <2>1. CASE w_state = "check_next_buf"
    <3>1. next_buff_rdy
      BY <1>1, <2>1 DEF WrFsm, WrGoes, NextFree
    <3> QED
      BY <1>2, <1>4, <2>1, <3>1 DEF RingInOrder
  <2>2. CASE w_state # "check_next_buf"
    <3>1. ~Writing
      BY <1>1, <2>2 DEF WrFsm, WrGoes, Writing
    <3> QED
      BY <1>2, <1>4, <2>2, <3>1 DEF RingInOrder
  <2> QED
    BY <2>1, <2>2
<1>8. w_state' \in {"wait_wr_end", "check_next_buf"} /\ next_buff_rdy' =>
         next_buff_cnt' \notin InUse'
  <2> SUFFICES ASSUME w_state' \in {"wait_wr_end", "check_next_buf"}, next_buff_rdy'
               PROVE  next_buff_cnt' \notin InUse'
    OBVIOUS
  <2>1. w_state \in {"rd_pct", "wait_wr_end", "check_next_buf"}
    BY <1>1 DEF WrFsm, WrGoes
  <2>2. next_buff_cnt' = next_buff_cnt /\ buf[next_buff_cnt] = <<>>
        /\ ~(Writing /\ next_buff_cnt = current_buff_cnt)
    BY <1>1, <1>2, <1>3, <2>1 DEF WrBuffSel, WrBuffers
  <2>3. next_buff_cnt \in InUse =>
           r_state = "switch_next_buff" /\ next_buff_cnt = crnt_buff_cnt
    BY <2>2 DEF InUse, Held
  <2> QED
    BY <1>5, <2>1, <2>2, <2>3
<1>9. Writing' /\ crnt_buff_cnt' = current_buff_cnt' => r_state' # "switch_next_buff"
  <2> SUFFICES ASSUME Writing', crnt_buff_cnt' = current_buff_cnt',
                      r_state' = "switch_next_buff"
               PROVE  FALSE
    OBVIOUS
  <2>1. r_state \in {"rd_buff", "clr_buff"} /\ crnt_buff_cnt' = crnt_buff_cnt
    BY <1>1, <1>4 DEF RdFsm, RdGoes
  <2>2. crnt_buff_cnt \in InUse
    <3>1. Len(buf[crnt_buff_cnt]) > 0
      BY <1>2, <1>3, <2>1 DEF RdBuffers, ReaderInStep
    <3>2. buf[crnt_buff_cnt] # <<>>
      BY <3>1
    <3> QED
      BY <1>3, <3>2 DEF InUse, Held
  <2>3. CASE Writing
    BY <1>2, <1>4, <2>1, <2>3 DEF RdBuffers, Writing
  <2>4. CASE ~Writing
    <3>1. w_state = "switch_next_buff"
      BY <1>1, <1>2, <2>4, WrBefore
    <3> QED
      BY <1>4, <2>1, <2>2, <3>1
  <2> QED
    BY <2>3, <2>4
<1>10. RingFrom(InUse', crnt_buff_cnt', next_buff_cnt')
  <2>1. RingFrom(InUse, crnt_buff_cnt, next_buff_cnt)
    BY <1>2 DEF RingInOrder
  <2> DEFINE freed == IF r_state = "switch_next_buff" THEN InUse \ {crnt_buff_cnt} ELSE InUse
  <2>2. RingFrom(freed, crnt_buff_cnt', next_buff_cnt) /\ freed \subseteq Buffers
    BY <1>3, <1>4, <1>6, <2>1, RingRelease
  <2>3. crnt_buff_cnt' \in Buffers
    BY <1>3, <1>4, NextBufferType
  <2> HIDE DEF freed
  <2>4. CASE w_state = "switch_next_buff"
    <3>1. next_buff_cnt \notin freed
      BY <1>4, <2>4 DEF freed
    <3>2. RingFrom(freed \cup {next_buff_cnt}, crnt_buff_cnt', NextBuffer(next_buff_cnt))
      BY <1>3, <2>2, <2>3, <3>1, RingTake
    <3> QED
      BY <1>4, <1>5, <2>4, <3>2 DEF freed
  <2>5. CASE w_state # "switch_next_buff"
    <3>1. InUse' = freed
      BY <1>5, <2>5 DEF freed
    <3> QED
      BY <1>4, <2>2, <2>5, <3>1
  <2> QED
    BY <2>4, <2>5
\* The headers: those of the buffers in use stay, a new one is the newest.
<1>11. \A i \in InUse : pct_hdr_array'[i] = pct_hdr_array[i] /\ pct_hdr_array[i].id \in Nat
  BY <1>3, <1>6, HeaderKept, HdrType
<1>12. w_state = "switch_next_buff" =>
          /\ pct_hdr_array'[next_buff_cnt] = in_q.pkt /\ in_q' = in_q
          /\ \A i \in InUse : pct_hdr_array[i].id < in_q.pkt.id
  BY <1>2, NewBufferHeader DEF RingInOrder, NewHeader, HeaderHeld, Writing
<1>13. ASSUME NEW i \in InUse', NEW j \in InUse',
              Behind(next_buff_cnt', j) < Behind(next_buff_cnt', i)
       PROVE  pct_hdr_array'[i].id < pct_hdr_array'[j].id
  <2>1. i \in Buffers /\ j \in Buffers /\ Behind(next_buff_cnt, i) \in 1 .. N_BUFF
        /\ Behind(next_buff_cnt, j) \in 1 .. N_BUFF
    BY <1>3, <1>5, <1>6, BehindStep
  <2>2. CASE w_state = "switch_next_buff"
    <3>1. /\ Behind(next_buff_cnt', i) =
                IF i = next_buff_cnt THEN 1 ELSE Behind(next_buff_cnt, i) + 1
          /\ Behind(next_buff_cnt', j) =
                IF j = next_buff_cnt THEN 1 ELSE Behind(next_buff_cnt, j) + 1
      BY <1>3, <1>4, <2>1, <2>2, BehindStep
    <3>2. i # next_buff_cnt /\ i \in InUse
      BY <1>5, <1>13, <2>1, <2>2, <3>1
    <3>3. CASE j = next_buff_cnt
      BY <1>11, <1>12, <2>2, <3>2, <3>3
    <3>4. CASE j # next_buff_cnt
      <4>1. j \in InUse /\ Behind(next_buff_cnt, j) < Behind(next_buff_cnt, i)
        BY <1>5, <1>13, <2>1, <2>2, <3>1, <3>2, <3>4
      <4> QED
        BY <1>2, <1>11, <3>2, <4>1 DEF RingInOrder
    <3> QED
      BY <3>3, <3>4
  <2>3. CASE w_state # "switch_next_buff"
    <3>1. i \in InUse /\ j \in InUse
          /\ Behind(next_buff_cnt, j) < Behind(next_buff_cnt, i)
      BY <1>4, <1>5, <1>13, <2>3
    <3> QED
      BY <1>2, <1>11, <3>1 DEF RingInOrder
  <2> QED
    BY <2>2, <2>3
<1>14. /\ in_q.pkt.id \in Nat /\ in_q'.pkt.id \in Nat /\ in_q.pkt.id <= in_q'.pkt.id
       /\ NewHeader' => NewHeader \/ in_q.pkt.id < in_q'.pkt.id
  BY NewHeaderStep, <1>1, <1>2, StreamHeader, HdrType
<1>15. ASSUME NEW i \in InUse'
       PROVE  /\ pct_hdr_array'[i].id <= in_q'.pkt.id
              /\ NewHeader' => pct_hdr_array'[i].id < in_q'.pkt.id
  <2>1. CASE i \in InUse
    <3>1. /\ pct_hdr_array[i].id <= in_q.pkt.id
          /\ NewHeader => pct_hdr_array[i].id < in_q.pkt.id
      BY <1>2, <2>1 DEF RingInOrder
    <3> QED
      BY <1>11, <1>14, <2>1, <3>1
  <2>2. CASE w_state = "switch_next_buff" /\ i = next_buff_cnt
    <3>1. ~NewHeader'
      BY <1>1, <2>2 DEF WrFsm, WrGoes, NewHeader, Writing
    <3> QED
      BY <1>12, <1>14, <2>2, <3>1
  <2> QED
    BY <1>5, <1>15, <2>1, <2>2
<1> QED
  BY <1>7, <1>8, <1>9, <1>10, <1>13, <1>15 DEF RingInOrder

-----------------------------------------------------------------------------
(* What reaches the sample FIFO.                                           *)

\* The word that a read takes out of its buffer.
LEMMA WordRead ==
    ASSUME DataInv, NEW full \in BOOLEAN, RdReq(full)
    PROVE  /\ crnt_buff_cnt \in InUse /\ r_state = "rd_buff" /\ ~full
           /\ r_rd_cnt \in 0 .. RD_WORDS - 1
           /\ Head(buf[crnt_buff_cnt]) = Half(pct_hdr_array[crnt_buff_cnt], r_rd_cnt + 1)
<1> USE Constants
<1>1. RdBuffers /\ ReaderInStep /\ WordsInStep /\ TypeOK
  BY DEF DataInv, DataInStep, IInv, ControlInStep
<1>2. r_state = "rd_buff" /\ ~full /\ crnt_buff_cnt \in Buffers
  BY <1>1 DEF RdReq, TypeOK
<1>3. buf[crnt_buff_cnt] \in Seq(HalvesOf) /\ r_rd_cnt \in 0 .. RD_WORDS
  BY <1>1, <1>2 DEF TypeOK
<1>4. Len(buf[crnt_buff_cnt]) = RD_WORDS - r_rd_cnt /\ r_rd_cnt < RD_WORDS
  BY <1>1, <1>2 DEF RdBuffers, ReaderInStep
<1>5. FirstPos(crnt_buff_cnt) = RD_WORDS + 1 - Len(buf[crnt_buff_cnt])
  BY <1>1, <1>2 DEF FirstPos, RdBuffers
<1>6. FirstPos(crnt_buff_cnt) = r_rd_cnt + 1 /\ 1 \in 1 .. Len(buf[crnt_buff_cnt])
  BY <1>3, <1>4, <1>5
<1>7. buf[crnt_buff_cnt][1] =
         Half(pct_hdr_array[crnt_buff_cnt], FirstPos(crnt_buff_cnt) + 1 - 1)
  BY <1>1, <1>2, <1>6 DEF WordsInStep
<1>8. Head(buf[crnt_buff_cnt]) = Half(pct_hdr_array[crnt_buff_cnt], r_rd_cnt + 1)
  <2>1. r_rd_cnt + 1 + 1 - 1 = r_rd_cnt + 1
    BY <1>3
  <2>2. Head(buf[crnt_buff_cnt]) = buf[crnt_buff_cnt][1]
    BY <1>3, <1>6
  <2> QED
    BY <1>6, <1>7, <2>1, <2>2
<1>9. crnt_buff_cnt \in InUse
  BY <1>2, <1>3, <1>6 DEF InUse, Held
<1> QED
  BY <1>2, <1>3, <1>4, <1>8, <1>9

LEMMA OutputStep ==
    ASSUME DataInv, NEW full \in BOOLEAN, NEW fresh \in SUBSET Buffers,
           Tick(full, fresh), HeadersInStep', RingInOrder'
    PROVE  OutputInStep'
<1> USE Constants
<1>1. /\ WrFsm(in_pct_rdy) /\ WrBuffSel(wrempty) /\ WrOutputs(in_q)
      /\ StreamFifo /\ BufferFifos(full, fresh) /\ RdFsm(full)
      /\ RdBuffSel(pct_buff_rdy) /\ RdCounter(full) /\ OutputRegs(full)
  BY DEF Tick, WrTick, RdTick
<1>2. /\ IInv /\ RingInOrder /\ OutputInStep /\ RdBuffers /\ TypeOK
  BY DEF DataInv, DataInStep, IInv, ControlInStep
<1>3. /\ crnt_buff_cnt \in Buffers /\ next_buff_cnt \in Buffers /\ r_state \in RdStates
      /\ r_rd_cnt \in 0 .. RD_WORDS /\ buff_q \in [Buffers -> HalvesOf]
      /\ pct_hdr_array \in [Buffers -> Hdrs]
      /\ smpl_buff_q \in HalvesOf /\ last_smpl \in HalvesOf
  BY <1>2 DEF TypeOK
<1>4. /\ Newest \in HalvesOf /\ Newest.pkt.id \in Nat
      /\ \A i \in Buffers : pct_hdr_array[i].id \in Nat
  <2>1. Newest \in HalvesOf
    BY <1>3 DEF Newest, Delivered
  <2>2. Newest.pkt \in Hdrs
    BY <2>1 DEF HalvesOf
  <2> QED
    BY <1>3, <2>1, <2>2, HdrType
<1>5. InUse' = (IF r_state = "switch_next_buff" THEN InUse \ {crnt_buff_cnt} ELSE InUse)
               \cup (IF w_state = "switch_next_buff" THEN {next_buff_cnt} ELSE {})
  BY InUseStep
<1>6. \A i \in InUse : i \in Buffers /\ pct_hdr_array'[i] = pct_hdr_array[i]
  BY HeaderKept DEF InUse
\* The register stages move on by one.
<1>7. Delivered' = Newest
  BY <1>1 DEF OutputRegs, Delivered, Newest
<1>8. RdReq(full) =>
         /\ Newest' = Half(pct_hdr_array[crnt_buff_cnt], r_rd_cnt + 1)
         /\ buff_q'[crnt_buff_cnt'] = Half(pct_hdr_array[crnt_buff_cnt], r_rd_cnt + 1)
         /\ crnt_buff_cnt' = crnt_buff_cnt /\ crnt_buff_cnt \in InUse
         /\ pct_hdr_array'[crnt_buff_cnt] = pct_hdr_array[crnt_buff_cnt]
         /\ r_state = "rd_buff" /\ ~full /\ r_rd_cnt \in 0 .. RD_WORDS - 1
         /\ r_rd_cnt' = r_rd_cnt + 1
  <2> SUFFICES ASSUME RdReq(full)
               PROVE  /\ buff_q'[crnt_buff_cnt] = Half(pct_hdr_array[crnt_buff_cnt],
                                                       r_rd_cnt + 1)
                      /\ crnt_buff_cnt \in InUse /\ r_state = "rd_buff" /\ ~full
                      /\ r_rd_cnt \in 0 .. RD_WORDS - 1
    BY <1>1, <1>6 DEF Newest, OutputRegs, RdBuffSel, RdCounter
  <2>1. /\ crnt_buff_cnt \in InUse /\ r_state = "rd_buff" /\ ~full
        /\ r_rd_cnt \in 0 .. RD_WORDS - 1
        /\ Head(buf[crnt_buff_cnt]) = Half(pct_hdr_array[crnt_buff_cnt], r_rd_cnt + 1)
    BY WordRead
  <2>2. crnt_buff_cnt \in BuffRdReq(full)
    BY DEF BuffRdReq
  <2>3. buff_q'[crnt_buff_cnt] = Head(buf[crnt_buff_cnt])
    BY <1>1, <1>2, <1>3, <2>2, BufferStep
  <2> QED
    BY <2>1, <2>3
<1>9. ~RdReq(full) => Newest' = Newest /\ ~smpl_buff_valid_int'
  BY <1>1, <1>7 DEF Newest, OutputRegs
\* Where the read FSM is before and after.
<1>10. /\ Reading /\ ~RdReq(full) => Reading' /\ r_rd_cnt' = r_rd_cnt
                                     /\ crnt_buff_cnt' = crnt_buff_cnt
       /\ Reading' /\ ~RdReq(full) => Reading
       /\ RdReq(full) => \/ Reading'
                         \/ r_state' = "switch_next_buff" /\ r_rd_cnt = RD_WORDS - 1
  <2>1. CASE RdReq(full)
    <3>1. /\ r_state = "rd_buff" /\ ~full /\ r_rd_cnt' = r_rd_cnt + 1
          /\ r_rd_cnt \in 0 .. RD_WORDS - 1
      BY <1>8, <2>1
    <3>2. \/ r_state' = "rd_buff"
          \/ r_state' = "switch_next_buff" /\ r_rd_cnt >= RD_WORDS - 1
      BY <1>1, <3>1 DEF RdFsm, RdGoes, BuffRead
    <3> QED
      BY <2>1, <3>1, <3>2 DEF Reading
  <2>2. CASE ~RdReq(full)
    <3>1. r_state \in {"rd_buff", "rd_hold"} => r_state' \in {"rd_buff", "rd_hold"}
      BY <1>1, <2>2 DEF RdFsm, RdGoes, RdReq
    <3>2. /\ r_state = "idle" => r_rd_cnt' = 0
          /\ r_state # "idle" => r_rd_cnt' = r_rd_cnt
          /\ r_state # "switch_next_buff" => crnt_buff_cnt' = crnt_buff_cnt
      BY <1>1, <2>2 DEF RdCounter, RdBuffSel
    <3>3. r_state' \in {"rd_buff", "rd_hold"} => r_state \in {"idle", "rd_buff", "rd_hold"}
      BY <1>1 DEF RdFsm, RdGoes
    <3> QED
      BY <2>2, <3>1, <3>2, <3>3 DEF Reading
  <2> QED
    BY <2>1, <2>2
<1>11. Reading => crnt_buff_cnt \in InUse
  <2> SUFFICES ASSUME Reading PROVE buf[crnt_buff_cnt] # <<>>
    BY <1>3 DEF InUse, Held
  <2>1. Len(buf[crnt_buff_cnt]) > 0
    BY <1>2, <1>3 DEF Reading, IInv, ControlInStep, RdBuffers, ReaderInStep
  <2> QED
    BY <2>1
<1>12. smpl_buff_valid' => Follows(last_smpl', smpl_buff_q')
  BY <1>1, <1>2 DEF OutputRegs, OutputInStep, Delivered
<1>13. smpl_buff_valid_int' => Follows(Delivered', buff_q'[crnt_buff_cnt'])
  <2> SUFFICES ASSUME RdReq(full)
               PROVE  Follows(Newest, Half(pct_hdr_array[crnt_buff_cnt], r_rd_cnt + 1))
    BY <1>7, <1>8, <1>9
  <2>1. CASE r_rd_cnt > 0
    <3>1. Newest = Half(pct_hdr_array[crnt_buff_cnt], r_rd_cnt)
      BY <1>2, <1>8, <2>1 DEF OutputInStep, Reading
    <3> QED
      BY <3>1 DEF Follows, Half
  <2>2. CASE r_rd_cnt = 0
    <3>1. ~Reading
      BY <2>2 DEF Reading
    <3>2. LastOfPacket(Newest) /\ Newest.pkt.id < pct_hdr_array[crnt_buff_cnt].id
      BY <1>2, <1>8, <3>1 DEF OutputInStep
    <3> QED
      BY <2>2, <3>2 DEF Follows, Half, LastOfPacket
  <2> QED
    BY <1>3, <2>1, <2>2
<1>14. Reading' => Newest' = Half(pct_hdr_array'[crnt_buff_cnt'], r_rd_cnt')
  <2>1. CASE RdReq(full)
    BY <1>8, <2>1
  <2>2. CASE ~RdReq(full)
    <3> SUFFICES ASSUME Reading'
                 PROVE  Newest' = Half(pct_hdr_array'[crnt_buff_cnt'], r_rd_cnt')
      OBVIOUS
    <3>1. Reading /\ r_rd_cnt' = r_rd_cnt /\ crnt_buff_cnt' = crnt_buff_cnt
      BY <1>10, <2>2
    <3>2. Newest = Half(pct_hdr_array[crnt_buff_cnt], r_rd_cnt)
      BY <1>2, <3>1 DEF OutputInStep
    <3> QED
      BY <1>6, <1>9, <1>11, <2>2, <3>1, <3>2
  <2> QED
    BY <2>1, <2>2
<1>15. ~Reading' => LastOfPacket(Newest')
  <2>1. CASE RdReq(full)
    <3> SUFFICES ASSUME ~Reading' PROVE LastOfPacket(Newest')
      OBVIOUS
    <3>1. r_rd_cnt = RD_WORDS - 1
      BY <1>10, <2>1
    <3>2. r_rd_cnt + 1 = RD_WORDS
      BY <3>1
    <3> QED
      BY <1>8, <2>1, <3>2 DEF LastOfPacket, Half
  <2>2. CASE ~RdReq(full)
    BY <1>2, <1>9, <1>10, <2>2 DEF OutputInStep, LastOfPacket
  <2> QED
    BY <2>1, <2>2
\* A packet about to be put into a buffer is later than any word read.
<1>16. w_state = "switch_next_buff" =>
          /\ pct_hdr_array'[next_buff_cnt] = in_q.pkt /\ next_buff_cnt \notin InUse
          /\ Newest.pkt.id < in_q.pkt.id
          /\ \A i \in InUse : pct_hdr_array[i].id < in_q.pkt.id
  <2> SUFFICES ASSUME w_state = "switch_next_buff"
               PROVE  /\ pct_hdr_array'[next_buff_cnt] = in_q.pkt
                      /\ next_buff_cnt \notin InUse
                      /\ Newest.pkt.id < in_q.pkt.id
                      /\ \A i \in InUse : pct_hdr_array[i].id < in_q.pkt.id
    OBVIOUS
  <2>1. NewHeader
    BY DEF HeaderHeld, NewHeader, Writing
  <2>2. pct_hdr_array'[next_buff_cnt] = in_q.pkt /\ next_buff_cnt \notin InUse
    BY NewBufferHeader
  <2> QED
    BY <1>2, <2>1, <2>2 DEF RingInOrder, OutputInStep
<1>17. ASSUME NEW i \in InUse'
       PROVE  \/ Newest'.pkt.id < pct_hdr_array'[i].id
              \/ /\ i = crnt_buff_cnt' /\ Newest'.pkt.id = pct_hdr_array'[i].id
                 /\ Reading' \/ r_state' = "switch_next_buff"
  <2>1. CASE i \in InUse /\ RdReq(full)
    <3>1. Newest'.pkt.id = pct_hdr_array[crnt_buff_cnt].id
      BY <1>8, <2>1 DEF Half
    <3>2. CASE i = crnt_buff_cnt
      BY <1>6, <1>8, <1>10, <2>1, <3>1, <3>2
    <3>3. CASE i # crnt_buff_cnt
      <4>1. Behind(next_buff_cnt, i) <= Behind(next_buff_cnt, crnt_buff_cnt)
        BY <1>2, <1>8, <2>1 DEF RingInOrder, RingFrom
      <4>2. /\ Behind(next_buff_cnt, i) # Behind(next_buff_cnt, crnt_buff_cnt)
            /\ Behind(next_buff_cnt, i) \in 1 .. N_BUFF
            /\ Behind(next_buff_cnt, crnt_buff_cnt) \in 1 .. N_BUFF
        BY <1>3, <1>6, <2>1, <3>3, BehindStep
      <4>3. Behind(next_buff_cnt, i) < Behind(next_buff_cnt, crnt_buff_cnt)
        BY <4>1, <4>2
      <4>4. pct_hdr_array[crnt_buff_cnt].id < pct_hdr_array[i].id
        BY <1>2, <1>8, <2>1, <4>3 DEF RingInOrder
      <4> QED
        BY <1>6, <2>1, <3>1, <4>4
    <3> QED
      BY <3>2, <3>3
  <2>2. CASE i \in InUse /\ ~RdReq(full)
    <3>1. \/ Newest.pkt.id < pct_hdr_array[i].id
          \/ /\ i = crnt_buff_cnt /\ Newest.pkt.id = pct_hdr_array[i].id
             /\ Reading \/ r_state = "switch_next_buff"
      BY <1>2, <2>2 DEF OutputInStep
    <3>2. CASE r_state = "switch_next_buff"
      <4>1. i # crnt_buff_cnt
        <5>1. w_state = "switch_next_buff" => next_buff_cnt \notin InUse
          BY <1>16
        <5> QED
          BY <1>5, <1>17, <2>2, <3>2, <5>1
      <4> QED
        BY <1>6, <1>9, <2>2, <3>1, <4>1
    <3>3. CASE r_state # "switch_next_buff"
      BY <1>6, <1>9, <1>10, <2>2, <3>1, <3>3
    <3> QED
      BY <3>2, <3>3
  <2>3. CASE w_state = "switch_next_buff" /\ i = next_buff_cnt
    <3>1. CASE RdReq(full)
      BY <1>8, <1>16, <2>3, <3>1 DEF Half
    <3>2. CASE ~RdReq(full)
      BY <1>9, <1>16, <2>3, <3>2
    <3> QED
      BY <3>1, <3>2
  <2> QED
    BY <1>5, <1>17, <2>1, <2>2, <2>3
<1>18. /\ in_q.pkt.id \in Nat /\ in_q'.pkt.id \in Nat /\ in_q.pkt.id <= in_q'.pkt.id
       /\ NewHeader' => NewHeader \/ in_q.pkt.id < in_q'.pkt.id
  BY NewHeaderStep, <1>1, <1>2, StreamHeader, HdrType
<1>19. /\ Newest'.pkt.id <= in_q'.pkt.id
       /\ NewHeader' => Newest'.pkt.id < in_q'.pkt.id
  <2>1. CASE RdReq(full)
    <3>1. Newest'.pkt.id = pct_hdr_array[crnt_buff_cnt].id
      BY <1>8, <2>1 DEF Half
    <3>2. /\ pct_hdr_array[crnt_buff_cnt].id <= in_q.pkt.id
          /\ NewHeader => pct_hdr_array[crnt_buff_cnt].id < in_q.pkt.id
      BY <1>2, <1>8, <2>1 DEF RingInOrder
    <3> QED
      BY <1>3, <1>4, <1>18, <3>1, <3>2
  <2>2. CASE ~RdReq(full)
    <3>1. /\ Newest.pkt.id <= in_q.pkt.id
          /\ NewHeader => Newest.pkt.id < in_q.pkt.id
      BY <1>2 DEF OutputInStep
    <3> QED
      BY <1>4, <1>9, <1>18, <2>2, <3>1
  <2> QED
    BY <2>1, <2>2
<1> QED
  BY <1>12, <1>13, <1>14, <1>15, <1>17, <1>19 DEF OutputInStep

-----------------------------------------------------------------------------
(* The theorems.                                                           *)

LEMMA InitDataInv == Init => DataInv
<1> SUFFICES ASSUME Init PROVE DataInv
  OBVIOUS
<1> USE Constants
<1>1. IInv
  BY InitIInv
<1>2. /\ w_state = "idle" /\ r_state = "idle" /\ current_buff_cnt = 0
      /\ next_buff_cnt = 0 /\ crnt_buff_cnt = 0 /\ ~in_pct_data_valid
      /\ pct_data_wrreq = {} /\ pct_hdr_valid = {} /\ ~crnt_buff_rdy
      /\ \A i \in Buffers : buf[i] = <<>>
      /\ ~smpl_buff_valid_int /\ ~smpl_buff_valid
      /\ last_smpl = NoHalf /\ in_q = Word(ZeroHdr, 0)
  BY DEF Init, WrInit, RdInit, P2dInit
<1>3. ~Writing /\ ~HeaderHeld /\ ~HeaderCopied /\ ~NewHeader
      /\ (\A i \in Buffers : ~Held(i)) /\ InUse = {}
  BY <1>2 DEF Writing, HeaderHeld, HeaderCopied, NewHeader, Held, InUse
<1>4. HeadersInStep
  BY <1>2, <1>3 DEF HeadersInStep
<1>5. WordsInStep
  <2>1. \A i \in Buffers : 1 .. Len(buf[i]) = {}
    <3>1. Len(<<>>) = 0
      OBVIOUS
    <3> QED
      BY <1>2, <3>1
  <2> QED
    BY <2>1 DEF WordsInStep
<1>6. VerdictsInStep
  BY <1>2, <1>3 DEF VerdictsInStep
<1>7. RingInOrder
  BY <1>2, <1>3 DEF RingInOrder, RingFrom
<1>8. OutputInStep
  BY <1>2, <1>3 DEF OutputInStep, Newest, Delivered, Reading, LastOfPacket, NoHalf,
                    Half, Word, ZeroHdr
<1> QED
  BY <1>1, <1>4, <1>5, <1>6, <1>7, <1>8 DEF DataInv, DataInStep

LEMMA NextDataInv == DataInv /\ [Next]_vars => DataInv'
<1> SUFFICES ASSUME DataInv, [Next]_vars PROVE DataInv'
  OBVIOUS
<1>1. IInv'
  BY NextIInv DEF DataInv
<1>2. CASE Next
  <2> PICK full \in BOOLEAN, fresh \in SUBSET Buffers : Tick(full, fresh)
    BY <1>2 DEF Next
  <2>1. HeadersInStep'
    BY HeadersStep
  <2>2. RingInOrder'
    BY <2>1, RingStep
  <2>3. DataInStep'
    BY <2>1, <2>2, WordsStep, VerdictsStep, OutputStep DEF DataInStep
  <2> QED
    BY <1>1, <2>3 DEF DataInv
<1>3. CASE UNCHANGED vars
  <2>1. /\ UNCHANGED wrVars /\ UNCHANGED rdVars /\ UNCHANGED inVars
        /\ UNCHANGED bufVars /\ UNCHANGED outVars /\ sample_nr' = sample_nr
    BY <1>3 DEF vars
  <2>2. HeadersInStep' /\ WordsInStep'
    BY <2>1 DEF DataInv, DataInStep, HeadersInStep, WordsInStep, HeaderHeld,
                HeaderCopied, Writing, FirstPos, wrVars, rdVars, inVars, bufVars
  <2>3. VerdictsInStep'
    BY <2>1 DEF DataInv, DataInStep, VerdictsInStep, WrVerdict, RdVerdict, MayDrop,
                Held, Writing, wrVars, rdVars, inVars, bufVars
  <2>4. InUse' = InUse /\ NewHeader' = NewHeader
    BY <2>1 DEF InUse, Held, Writing, NewHeader, HeaderHeld, wrVars, rdVars, bufVars
  <2>5. RingInOrder'
    BY <2>1, <2>4 DEF DataInv, DataInStep, RingInOrder, Writing, wrVars, rdVars, inVars
  <2>6. OutputInStep'
    BY <2>1, <2>4 DEF DataInv, DataInStep, OutputInStep, Newest, Delivered, Reading,
                      wrVars, rdVars, inVars, bufVars, outVars
  <2> QED
    BY <1>1, <2>2, <2>3, <2>5, <2>6 DEF DataInv, DataInStep
<1> QED
  BY <1>2, <1>3

\* In every reachable state every header, word and verdict belongs to the packet
\* that the FSMs take it to belong to, and the ring of buffers is in order.
THEOREM DataInvariant == Spec => []DataInv
<1>1. Init => DataInv
  BY InitDataInv
<1>2. DataInv /\ [Next]_vars => DataInv'
  BY NextDataInv
<1> QED
  BY <1>1, <1>2, PTL DEF Spec

\* The registers, FIFOs and counters of the unpacker are in step, and so is what
\* they hold.
THEOREM StaysInStep == Spec => []InStep
<1>1. DataInv => InStep
  BY DEF DataInv, IInv, InStep
<1> QED
  BY <1>1, DataInvariant, PTL

\* What p2d_rd finds in a packet buffer is a run of words of one packet, the one
\* whose header it compares: no word of another packet is mixed in, whatever
\* packets were dropped and however the FSMs interleave.
THEOREM BuffersHoldOnePacket == Spec => []BuffersMatchHeaders
<1>1. DataInv => BuffersMatchHeaders
  <2> SUFFICES ASSUME DataInv, NEW i \in Buffers, NEW j \in 1 .. Len(buf[i])
               PROVE  buf[i][j] = Half(pct_hdr_array[i], buf[i][1].pos + j - 1)
    BY DEF BuffersMatchHeaders
  <2>1. buf[i] \in Seq(HalvesOf) /\ Len(buf[i]) \in Nat
    BY DEF DataInv, IInv, TypeOK
  <2>2. 1 \in 1 .. Len(buf[i])
    BY <2>1
  <2>3. /\ buf[i][1] = Half(pct_hdr_array[i], FirstPos(i) + 1 - 1)
        /\ buf[i][j] = Half(pct_hdr_array[i], FirstPos(i) + j - 1)
    BY <2>2 DEF DataInv, DataInStep, WordsInStep
  <2>4. FirstPos(i) \in Int
    BY <2>1, Constants DEF FirstPos
  <2>5. buf[i][1].pos = FirstPos(i)
    BY <2>3, <2>4 DEF Half
  <2> QED
    BY <2>3, <2>5
<1> QED
  BY <1>1, DataInvariant, PTL

\* The packet at the head of a full buffer is the one of its header.
LEMMA HeadOfBuffer ==
    ASSUME DataInv, NEW i \in Buffers, Len(buf[i]) = RD_WORDS
    PROVE  Head(buf[i]).pkt = pct_hdr_array[i]
<1>1. buf[i] \in Seq(HalvesOf) /\ 1 \in 1 .. Len(buf[i])
  BY Constants DEF DataInv, IInv, TypeOK
<1>2. Head(buf[i]) = buf[i][1]
  BY <1>1
<1>3. buf[i][1] = Half(pct_hdr_array[i], FirstPos(i) + 1 - 1)
  BY <1>1 DEF DataInv, DataInStep, WordsInStep
<1> QED
  BY <1>2, <1>3 DEF Half

\* p2d_wr_fsm and p2d_rd drop a packet only when its own sample number has
\* passed: a verdict of the comparators is never taken for another packet's.
THEOREM OnlyLateAreDropped == Spec => []DropsOnlyLate
<1>1. DataInv => DropsOnlyLate
  <2> SUFFICES ASSUME DataInv PROVE DropsOnlyLate
    OBVIOUS
  <2>1. ASSUME w_state = "clr_fifo" PROVE MayDrop(in_pct)
    <3>1. MayDrop(pct_hdr) /\ pct_hdr = in_q.pkt
      BY <2>1 DEF DataInv, DataInStep, VerdictsInStep, HeadersInStep, HeaderHeld
    <3>2. in_left = PCT_WORDS - 1
      BY <2>1 DEF DataInv, IInv, ControlInStep, WrInStep, HeaderTaken
    <3>3. in_q = Word(in_pct, PCT_WORDS - in_left - 1)
      BY <3>2, Constants DEF DataInv, IInv, ControlInStep, StreamInOrder
    <3> QED
      BY <3>1, <3>3 DEF Word
  <2>2. ASSUME r_state = "clr_buff" PROVE MayDrop(Head(buf[crnt_buff_cnt]).pkt)
    <3>1. MayDrop(pct_hdr_array[crnt_buff_cnt])
      BY <2>2 DEF DataInv, DataInStep, VerdictsInStep
    <3>2. Len(buf[crnt_buff_cnt]) = RD_WORDS /\ crnt_buff_cnt \in Buffers
      BY <2>2 DEF DataInv, IInv, TypeOK, ControlInStep, ReaderInStep
    <3>3. Head(buf[crnt_buff_cnt]).pkt = pct_hdr_array[crnt_buff_cnt]
      BY <3>2, HeadOfBuffer
    <3> QED
      BY <3>1, <3>3
  <2> QED
    BY <2>1, <2>2 DEF DropsOnlyLate
<1> QED
  BY <1>1, DataInvariant, PTL

\* The sample FIFO receives whole packets, word after word, in the order in which
\* the host sent them.
THEOREM OutputStaysInOrder == Spec => OutputInOrder
<1>1. DataInv => (smpl_buff_valid => Follows(last_smpl, smpl_buff_q))
  BY DEF DataInv, DataInStep, OutputInStep
<1> QED
  BY <1>1, DataInvariant, PTL DEF OutputInOrder

\* A packet that asks for it is started at its sample number, or no later than
\* the comparator and the multiplexer take to say so: four edges of the clock.
THEOREM StartsAreOnTime == Spec => StartsOnTime
<1> DEFINE OnTime == LET p == Head(buf[crnt_buff_cnt]).pkt
                     IN  r_state = "idle" /\ r_state' = "rd_buff" /\ ~SYNCH_DIS /\ ~p.dis
                           => p.sn <= sample_nr /\ sample_nr <= p.sn + 4 * MaxStep
<1>1. DataInv /\ [Next]_vars => [OnTime]_vars
  <2> SUFFICES ASSUME DataInv, Next, r_state = "idle", r_state' = "rd_buff", ~SYNCH_DIS,
                      ~Head(buf[crnt_buff_cnt]).pkt.dis
               PROVE  /\ Head(buf[crnt_buff_cnt]).pkt.sn <= sample_nr
                      /\ sample_nr <= Head(buf[crnt_buff_cnt]).pkt.sn + 4 * MaxStep
    OBVIOUS
  <2>1. PICK full \in BOOLEAN, fresh \in SUBSET Buffers : Tick(full, fresh)
    BY DEF Next
  <2>2. crnt_buff_rdy /\ (Unsynchronised \/ crnt_buff_pct_smpl_nr = "equal")
    BY <2>1 DEF Tick, RdTick, RdFsm, RdGoes, Due
  <2>3. Len(buf[crnt_buff_cnt]) = RD_WORDS /\ crnt_buff_cnt \in Buffers
    BY <2>2 DEF DataInv, IInv, TypeOK, ControlInStep, RdBuffers
  <2>4. Head(buf[crnt_buff_cnt]).pkt = pct_hdr_array[crnt_buff_cnt]
    BY <2>3, HeadOfBuffer
  <2>5. /\ crnt_buff_pct_synch_dis = pct_hdr_array[crnt_buff_cnt].dis
        /\ Sound(crnt_buff_pct_smpl_nr, pct_hdr_array[crnt_buff_cnt].sn, sample_nr, 4)
    BY <2>2 DEF DataInv, DataInStep, VerdictsInStep
  <2>6. crnt_buff_pct_smpl_nr = "equal"
    BY <2>2, <2>4, <2>5 DEF Unsynchronised
  <2> QED
    BY <2>4, <2>5, <2>6 DEF Sound
<1> QED
  BY <1>1, DataInvariant, PTL DEF StartsOnTime, Spec

=============================================================================
