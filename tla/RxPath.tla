------------------------------- MODULE RxPath -------------------------------
(***************************************************************************)
(* The RX path, entity rx_path_top, between the receiver that writes       *)
(* sample words into the sample FIFO and the host that reads the packet    *)
(* FIFO behind the PCIe core.  Two counters number the sample words: one   *)
(* counts those received and is the time that the TX path synchronises to, *)
(* the other those read, and is put, delayed, into the packet's header.    *)
(***************************************************************************)
EXTENDS Data2Packets

CONSTANTS
    SMPL_BUFF_WORDS,    \* words that the sample FIFO holds
    WRITE_GAP,          \* clock edges from one received word to the next
    HOST_WORDS,         \* words that the host reads between two edges
    NUMBERS,            \* 2^cnt_width: the counters wrap around
    STOPS               \* how the path is stopped, a subset of {"close", "disable"}

ASSUME RxPathAssumption ==
    /\ SMPL_BUFF_WORDS \in Nat
    /\ \A width \in WIDTHS : SMPL_BUFF_WORDS > ReadWordsOf(width)
    /\ WRITE_GAP \in Nat /\ WRITE_GAP > 0
    /\ HOST_WORDS \in Nat
    /\ NUMBERS \in Nat /\ NUMBERS >= SMPL_BUFF_WORDS
    /\ STOPS \subseteq {"close", "disable"}

VARIABLES
    smpl_fifo,      \* numbers of the words in smpl_fifo_inst1
    smpl_q,         \* its output
    rdusedw_reg,    \* smpl_buff_rdusedw_reg
    wr_gap,         \* edges until the receiver may write again
    cnt_wr,         \* smpl_cnt_inst4: words received
    cnt_rd,         \* smpl_cnt_inst3: words read
    delayed,        \* its output register and delay_chain
    pct_used,       \* words in the packet FIFO
    pct_wrusedw,    \* pct_fifo_wusedw
    place,          \* place in its packet of the last word written
    first,          \* number in the header of that packet
    cut             \* rx_en was cleared since the last header, the stream open

rxVars == <<smpl_fifo, smpl_q, rdusedw_reg, wr_gap, cnt_wr, cnt_rd, delayed>>
pctVars == <<pct_used, pct_wrusedw, place, first>>
vars == <<d2pVars, rxVars, pctVars, cut>>

\* Registers of a cnt_mux and of delay_chain.
DELAY == 1 + 6

RxInit ==
    /\ D2pInit
    /\ smpl_fifo = <<>> /\ smpl_q = 0 /\ rdusedw_reg = 0 /\ wr_gap = 0
    /\ cnt_wr = 0 /\ cnt_rd = 0
    /\ delayed = [i \in 1..DELAY |-> 0]

RxReset ==
    /\ D2pReset
    /\ smpl_fifo' = <<>> /\ smpl_q' = 0 /\ rdusedw_reg' = 0 /\ wr_gap' = 0
    /\ cnt_wr' = 0 /\ cnt_rd' = 0
    /\ delayed' = [i \in 1..DELAY |-> 0]

PctInit ==
    /\ pct_used = 0 /\ pct_wrusedw = 0 /\ place = PCT_WORDS - 1 /\ first = 0
    /\ cut = FALSE

Init == RxInit /\ PctInit

-----------------------------------------------------------------------------
pct_hdr_0 == [kind |-> "hdr_0", nr |-> 0]
pct_hdr_1 == [kind |-> "hdr_1", nr |-> delayed[DELAY]]

Received(written) == IF written THEN <<cnt_wr>> ELSE <<>>

SampleFifo(written) ==
    LET read == rdreq /\ smpl_fifo # <<>>
        kept == IF Len(smpl_fifo) < SMPL_BUFF_WORDS THEN Received(written) ELSE <<>>
    IN  /\ smpl_fifo' = (IF read THEN Tail(smpl_fifo) ELSE smpl_fifo) \o kept
        /\ smpl_q' = IF read THEN Head(smpl_fifo) ELSE smpl_q
        /\ rdusedw_reg' = Len(smpl_fifo)

RdCountsOnlyWritten(written) ==
    /\ cnt_wr' = IF written THEN (cnt_wr + 1) % NUMBERS ELSE cnt_wr
    /\ cnt_rd' = IF rdreq /\ wr_dis THEN (cnt_rd + 1) % NUMBERS ELSE cnt_rd
    /\ delayed' = <<cnt_rd>> \o SubSeq(delayed, 1, DELAY - 1)

SampleCounters(written) ==
    /\ cnt_wr' = IF written THEN (cnt_wr + 1) % NUMBERS ELSE cnt_wr
    /\ cnt_rd' = IF rdreq THEN (cnt_rd + 1) % NUMBERS ELSE cnt_rd
    /\ delayed' = <<cnt_rd>> \o SubSeq(delayed, 1, DELAY - 1)

\* The vendor's FIFO shows a write in wrusedw after one edge or two.
PacketFifo(taken) ==
    /\ pct_used' = pct_used - taken
         + (IF buff_wrreq /\ pct_used < PCT_BUFF_WORDS THEN 1 ELSE 0)
    /\ pct_wrusedw' \in {pct_used, pct_used'}
    /\ place' = CASE buff_wrreq /\ buff_wrdata.kind = "hdr_0" -> 0
                  [] buff_wrreq /\ buff_wrdata.kind # "hdr_0" -> place + 1
                  [] OTHER -> place
    /\ first' = IF buff_wrreq /\ buff_wrdata.kind = "hdr_1"
                THEN buff_wrdata.nr ELSE first
    /\ cut' = (cut /\ ~(buff_wrreq /\ buff_wrdata.kind = "hdr_0"))

\* What the host may have read since the last edge: a few words, or all there is.
HostReads == {n \in 0..pct_used : n <= HOST_WORDS \/ n = pct_used}

\* An edge of rx_clk: the receiver may write a word, and the host has read taken words.
Tick(written, taken) ==
    /\ written => wr_gap = 0
    /\ wr_gap' = IF written THEN WRITE_GAP - 1 ELSE IF wr_gap > 0 THEN wr_gap - 1 ELSE 0
    /\ D2pTick(smpl_q, rdusedw_reg, pct_wrusedw, pct_hdr_0, pct_hdr_1)
    /\ SampleFifo(written) /\ SampleCounters(written) /\ PacketFifo(taken)

\* The host closes the stream: this clears the packet FIFO and, through
\* rx_en and F2H_S0_open, resets the RX path.
Close ==
    /\ "close" \in STOPS /\ RxReset
    /\ pct_used' = 0 /\ pct_wrusedw' = 0 /\ place' = PCT_WORDS' - 1 /\ first' = 0
    /\ cut' = FALSE

\* The host clears rx_en and sets it again while the stream stays open.
Disable == "disable" \in STOPS /\ RxReset /\ cut' = TRUE /\ UNCHANGED <<sample_width, pctVars>>

Next ==
    \/ \E written \in BOOLEAN, taken \in HostReads : Tick(written, taken)
    \/ Close
    \/ Disable

Spec == Init /\ [][Next]_vars

(***************************************************************************)
(* The clock runs, the receiver keeps writing, and now and then the host   *)
(* has read all there is.                                                  *)
(***************************************************************************)
SamplesArrive == \E taken \in HostReads : Tick(TRUE, taken)
HostDrains == pct_used > 0 /\ \E written \in BOOLEAN : Tick(written, pct_used)
Ticks == \E written \in BOOLEAN, taken \in HostReads : Tick(written, taken)

FairSpec ==
    Spec /\ WF_vars(Ticks) /\ WF_vars(SamplesArrive) /\ WF_vars(HostDrains)

-----------------------------------------------------------------------------
(* Type invariant: the ranges of the signals. *)
Numbers == 0..(NUMBERS - 1)
Words == [kind : {"none", "hdr_0", "hdr_1", "data"}, nr : Numbers]

TypeOK ==
    /\ sample_width \in WIDTHS
    /\ fsm \in FsmStates /\ former \in FormerStates
    /\ rd_cnt \in 0..READ_WORDS /\ data_wr_cnt \in 0..PCT_WORDS /\ end_cnt \in 0..255
    /\ {rd_done, wr_dis, smpl_buff_rdy, pct_buff_rdy, in_valid, wrreq_int, done,
         buff_wrreq} \subseteq BOOLEAN
    /\ pack_cnt \in 0..(GROUP - 1) /\ pack_reg \in Numbers
    /\ pipe \in [1..STAGES -> Words] /\ regs \in [1..3 -> Words] /\ buff_wrdata \in Words
    /\ smpl_fifo \in Seq(Numbers) /\ Len(smpl_fifo) <= SMPL_BUFF_WORDS
    /\ {smpl_q, cnt_wr, cnt_rd} \subseteq Numbers
    /\ delayed \in [1..DELAY -> Numbers]
    /\ rdusedw_reg \in 0..SMPL_BUFF_WORDS /\ wr_gap \in 0..(WRITE_GAP - 1)
    /\ {pct_used, pct_wrusedw} \subseteq 0..PCT_BUFF_WORDS
    /\ place \in 0..(PCT_WORDS - 1) /\ first \in Numbers /\ cut \in BOOLEAN

\* data2packets_fsm asks for samples that are there: what it knows of the
\* sample FIFO when it leaves idle is several clock edges old, and it never
\* looks again while it reads.
SampleReadsServed == rdreq => smpl_fifo # <<>>

\* The packet FIFO has room for every word of a packet that is written, though
\* its fill is looked at once per packet, late, and while the last words of
\* the packet before are still on their way.
PacketFifoHasRoom == buff_wrreq => pct_used < PCT_BUFF_WORDS

\* What the host reads is a sequence of packets, each of two header words and
\* all its data words and no others; a packet that is not written leaves
\* no word behind.  Only rx_en, cleared while the stream stays open, cuts the
\* packet that is on its way, and none but that one.
WholePackets ==
    buff_wrreq => CASE buff_wrdata.kind = "hdr_0" -> cut \/ place = PCT_WORDS - 1
                    [] buff_wrdata.kind = "hdr_1" -> place = 0
                    [] buff_wrdata.kind = "data" -> place \in 1..(PCT_WORDS - 2)
                    [] OTHER -> FALSE

\* The samples in the data words, from the first of a packet.
FirstIn(width, word) ==
    (word \div PackedOf(width)) * GroupOf(width) + (word % PackedOf(width))
FirstSampleIn(word) == FirstIn(sample_width, word)

\* The sample number in a packet's header is the time at which its first sample
\* was received, and the words of the packet follow in the order received:
\* no sample is lost, doubled or moved between the receiver and the host, and
\* packets that are not written are counted in the numbers of those that are.
HeaderNumbersSamples ==
    buff_wrreq /\ buff_wrdata.kind = "data" /\ place >= 1
        => buff_wrdata.nr = (first + FirstSampleIn(place - 1)) % NUMBERS

\* As long as samples arrive and the host reads, it gets packets, unless it
\* stops the path again and again.
PacketsArrive == []<>buff_wrreq \/ []<><<Disable \/ Close>>_vars

-----------------------------------------------------------------------------
(***************************************************************************)
(* Where the path is.  It is quiet, or there is a packet on its way, and   *)
(* then the number of edges since its reading began, t, says which sample  *)
(* words have been packed, which words have been formed and how many of    *)
(* them the packet former has shifted out: no signal stops the packet.     *)
(***************************************************************************)
\* Sample words packed by an edge n edges after the first is asked for.
PackedBy(width, n) ==
    IF n < 0 THEN 0 ELSE IF n > ReadWordsOf(width) THEN ReadWordsOf(width) ELSE n

\* Words formed from the first n sample words of a packet, and whether the
\* n-th of them completes one.
Formed(width, n) ==
    IF GroupOf(width) = 1 THEN n ELSE n - (n + GroupOf(width) - 1) \div GroupOf(width)
Completes(width, n) ==
    n \in 1..ReadWordsOf(width) /\ (GroupOf(width) = 1 \/ (n - 1) % GroupOf(width) # 0)

\* How often the packet former has shifted its registers: once for each word that
\* has arrived, and twice at the end.
LastArrives(width) == ReadWordsOf(width) + StagesOf(width)
AGES == 0..(LastArrives(sample_width) + 4)
Shifts(width, t) ==
    Formed(width, PackedBy(width, t - StagesOf(width) - 1))
        + (IF t > LastArrives(width) + 1 THEN 1 ELSE 0)
        + (IF t > LastArrives(width) + 2 THEN 1 ELSE 0)

\* The n-th word of a packet.
KindOf(n) == CASE n = 1 -> "hdr_0" [] n = 2 -> "hdr_1" [] OTHER -> "data"

ReadingAt(t) ==
    /\ fsm = IF t < READ_WORDS THEN "rd_smpl_buff" ELSE "wait_data2packets_done"
    /\ rd_cnt = IF t <= READ_WORDS THEN t ELSE 0
    /\ rd_done <=> t \in (READ_WORDS - 1)..(READ_WORDS + 1)
    /\ t >= READ_WORDS => (done <=> t = LastArrives(sample_width) + 4)

PackingAt(t) ==
    /\ in_valid <=> t \in 1..READ_WORDS
    /\ pack_cnt = PackedBy(sample_width, t - 1) % GROUP
    /\ \A i \in 1..STAGES :
           pipe[i].kind = IF Completes(sample_width, t - i) THEN "data" ELSE "none"

\* The packet former after p shifts.
FormingAt(p) ==
    /\ former = "idle" <=> p \in {0, PCT_WORDS}
    /\ former = "s0" <=> p \in 1..(PCT_WORDS - 4)
    /\ former = "s1" <=> p = PCT_WORDS - 3
    /\ former = "s2" <=> p \in {PCT_WORDS - 2, PCT_WORDS - 1}
    /\ data_wr_cnt = IF p < PCT_WORDS - 2 THEN p ELSE 0
    /\ p = PCT_WORDS - 2 => end_cnt = 1
    /\ p = PCT_WORDS - 1 => end_cnt = 0
    /\ p >= 1 => \A i \in 1..3 : regs[i].kind = KindOf(p + i - 1)

\* p shifts, of which q an edge earlier and n two edges earlier: n words are written.
WritingAt(p, q, n) ==
    /\ wrreq_int <=> p > q
    /\ buff_wrreq <=> wr_dis /\ q > n
    /\ q >= 1 => buff_wrdata.kind = KindOf(q)
    /\ IF wr_dis /\ n >= 1 THEN ~cut /\ place = n - 1 ELSE cut \/ place = PCT_WORDS - 1

\* Before the first word, and when the last is written, all is as with no shift.
Quiet ==
    /\ fsm \in {"idle", "check_pct_buff"} /\ rd_cnt = 0 /\ ~rd_done
    /\ PackingAt(0) /\ FormingAt(0) /\ WritingAt(0, 0, 0)

OnItsWay(t) ==
    /\ ReadingAt(t) /\ PackingAt(t)
    /\ FormingAt(Shifts(sample_width, t))
    /\ WritingAt(Shifts(sample_width, t), Shifts(sample_width, t - 1), Shifts(sample_width, t - 2))

\* The fill that the FSM goes by when it begins is old, but none has been read since.
EnoughAt(t) ==
    /\ t < READ_WORDS => Len(smpl_fifo) > READ_WORDS - t
    /\ t > READ_WORDS => rdusedw_reg <= Len(smpl_fifo)
    /\ t > READ_WORDS + 1 /\ smpl_buff_rdy => Len(smpl_fifo) > READ_WORDS

EnoughQuiet ==
    /\ rdusedw_reg <= Len(smpl_fifo)
    /\ smpl_buff_rdy \/ fsm = "check_pct_buff" => Len(smpl_fifo) > READ_WORDS

\* Once n words of the packet are written there is room for the others.
RoomAt(n) == wr_dis => pct_used + (PCT_WORDS - n) <= PCT_BUFF_WORDS

RoomQuiet ==
    fsm = "check_pct_buff" /\ pct_buff_rdy => pct_used + PCT_WORDS <= PCT_BUFF_WORDS

InStep ==
    /\ \/ Quiet /\ EnoughQuiet /\ RoomQuiet
       \/ \E t \in AGES : OnItsWay(t) /\ EnoughAt(t) /\ RoomAt(Shifts(sample_width, t - 2))
    /\ pct_used <= pct_wrusedw + 1     \* its fill lags by a word

-----------------------------------------------------------------------------
(***************************************************************************)
(* Which numbers the words of the path carry: those of the packet on its   *)
(* way follow from the number b of its first sample word.                  *)
(***************************************************************************)
\* The sample word that comes n after the first.
After(b, n) == (b + n) % NUMBERS

\* nr is the number in the n-th word of a packet.  With 14 bits the delayed number
\* comes too late for the header.
NrOfWord(width, b, n, nr) ==
    /\ n = 2 /\ width # 14 => nr = b
    /\ n >= 3 => nr = After(b, FirstIn(width, n - 3))

\* No word received is lost.
FifoNumbered ==
    /\ cnt_wr = After(cnt_rd, Len(smpl_fifo))
    /\ \A i \in 1..Len(smpl_fifo) : smpl_fifo[i] = After(cnt_rd, i - 1)

PackingNumbered(b, t) ==
    /\ t \in 1..READ_WORDS => smpl_q = After(b, t - 1)
    /\ t \in 2..(READ_WORDS + 1) => pack_reg = After(b, t - 2)
    /\ \A i \in 1..STAGES : Completes(sample_width, t - i) =>
           pipe[i].nr = After(b, FirstIn(sample_width, Formed(sample_width, t - i) - 1))

CountNumbered(b, t) ==
    /\ cnt_rd = After(b, PackedBy(sample_width, t))
    /\ \A i \in 1..DELAY : delayed[i] = After(b, PackedBy(sample_width, t - i))

FormingNumbered(b, p) ==
    p >= 1 => \A i \in 1..3 : p + i - 1 <= PCT_WORDS =>
                  NrOfWord(sample_width, b, p + i - 1, regs[i].nr)

WritingNumbered(b, q, n) ==
    /\ q >= 1 => NrOfWord(sample_width, b, q, buff_wrdata.nr)
    /\ wr_dis /\ n >= 2 /\ sample_width # 14 => first = b

\* When the next packet begins, its header shows what was read before it.
QuietNumbered ==
    \A i \in 1..DELAY : i < DELAY \/ fsm = "check_pct_buff" => delayed[i] = cnt_rd

NumberedAt(b, t) ==
    /\ PackingNumbered(b, t) /\ CountNumbered(b, t)
    /\ FormingNumbered(b, Shifts(sample_width, t))
    /\ WritingNumbered(b, Shifts(sample_width, t - 1), Shifts(sample_width, t - 2))

(***************************************************************************)
(* The sample FIFO in clock edges, WRITE_GAP for each word: Held grows by  *)
(* one at an edge, whether the receiver writes or not.                     *)
(***************************************************************************)
Held == WRITE_GAP * Len(smpl_fifo) - wr_gap

HeldAsShown ==
    /\ Held <= WRITE_GAP * rdusedw_reg + 1
    /\ ~smpl_buff_rdy => Held <= WRITE_GAP * READ_WORDS + 2

HeldQuiet == Held <= WRITE_GAP * READ_WORDS + (IF fsm = "idle" THEN 3 ELSE 4)

HeldAt(t) == Held <= WRITE_GAP * (READ_WORDS - PackedBy(sample_width, t)) + 5 + t

\* Reading a packet, with all that it takes, is faster than receiving one, and the
\* sample FIFO has room for what is received until the reading begins.
KeepsUp ==
    \A width \in WIDTHS :
        /\ WRITE_GAP * ReadWordsOf(width) >= ReadWordsOf(width) + StagesOf(width) + 7
        /\ WRITE_GAP * SMPL_BUFF_WORDS > WRITE_GAP * ReadWordsOf(width) + 5

InOrder ==
    /\ FifoNumbered /\ HeldAsShown
    /\ \/ Quiet /\ EnoughQuiet /\ RoomQuiet /\ QuietNumbered /\ HeldQuiet
       \/ \E t \in AGES, b \in Numbers :
              /\ OnItsWay(t) /\ EnoughAt(t) /\ RoomAt(Shifts(sample_width, t - 2))
              /\ NumberedAt(b, t) /\ HeldAt(t)

=============================================================================
