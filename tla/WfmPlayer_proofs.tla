-------------------------- MODULE WfmPlayer_proofs --------------------------
(***************************************************************************)
(* That the waveform player stores the words of the host in order and      *)
(* plays them over and over, for waveforms, memories and FIFOs of any size *)
(* and a memory that keeps its commands waiting for any time, as long as   *)
(* its fixed wait after a write is long enough (WritesSettle).  The run    *)
(* wfm_player_stall shows that it need not be; RoomIsEnough, that it is    *)
(* where every write finds room in the command FIFO.                       *)
(***************************************************************************)
EXTENDS WfmPlayer, SequenceTheorems, TLAPS

\* When wfm_player is about to end its wait after a write, all words that it
\* promised have left the input FIFO: the comment in state do_write_idle of
\* wfm_player.vhd says why this matters.
WritesSettle ==
    fsm = "do_write_idle" /\ idle_cnt > 2 => ~do_write_reg /\ tstate = "idle"

\* A write that was begun never waits for room in the FIFO of commands.
WritesFindRoom == do_write_reg \/ tstate = "write_burst" => ~TgFull

-----------------------------------------------------------------------------
(* The invariant: what is promised and what is known of the input FIFO.    *)

Bit(b) == IF b THEN 1 ELSE 0

Types ==
    /\ load \in BOOLEAN /\ play \in BOOLEAN /\ loads \in 0 .. LOADS
    /\ sent \in 0 .. MAX_WORDS /\ taken \in 0 .. sent /\ rdusedw \in 0 .. MAX_WORDS
    /\ fsm \in {"idle", "check_wfm_infifo", "do_write", "do_burst_write", "do_write_idle",
                "check_wfm_outfifo", "do_read"}
    /\ burst_cnt_max \in 0 .. MAX_WORDS \div 2 /\ burst_wr_cnt \in Nat /\ idle_cnt \in Nat
    /\ write_addr \in Places /\ write_max_words \in Places
    /\ read_addr \in Places /\ read_max_addr \in Places /\ read_burst_max_addr \in Places
    /\ tstate \in {"idle", "write_burst"} /\ do_write_reg \in BOOLEAN /\ do_read_reg \in BOOLEAN
    /\ write_reg \in Bursts /\ read_reg \in Bursts /\ last_write \in Bursts
    /\ tg_reg \in Cmds /\ tg \in Seq(Cmds) /\ avl \in Cmds
    /\ stall \in 0 .. STALL /\ mem \in [Places -> Words] /\ beat \in Bursts
    /\ returning \in Seq(Words)
    /\ half \in Words /\ pair \in Words \X Words /\ pair_reg \in Words \X Words
    /\ out_used \in Nat /\ wrusedw \in Nat /\ heard \in Words

\* Words that were promised to avalon_traffic_gen and not fetched yet.
Due == (IF do_write_reg THEN write_reg.size ELSE 0) + Bit(tstate = "write_burst")

PromisesKept ==
    /\ write_max_words = taken
    /\ taken + Due = write_addr /\ write_addr <= sent
    /\ do_write_reg => write_reg.size \in {1, 2} /\ write_reg.addr + write_reg.size = write_addr
    /\ tstate = "write_burst" => last_write = [addr |-> taken - 1, size |-> 2]

\* Outside of its writes the player has nothing due, and believes at most as
\* many words in the input FIFO as there are.
CountsKnown ==
    /\ fsm \notin {"do_burst_write", "do_write_idle"} => ~do_write_reg /\ tstate = "idle"
    /\ fsm \notin {"do_write", "do_burst_write", "do_write_idle"} =>
           rdusedw <= sent - taken /\ 2 * burst_cnt_max <= rdusedw
    /\ fsm = "do_write" => ~do_read_reg /\ write_addr + 1 <= sent
    /\ fsm = "do_write_idle" => idle_cnt <= 4 /\ (idle_cnt = 4 => rdusedw <= sent - taken)
    /\ fsm # "do_write_idle" => idle_cnt \in {0, 5}

\* In a row of bursts burst_wr_cnt and burst_cnt_max both move, and neither is
\* up to date: the words are counted from the place where the row started.
BurstsPromised ==
    fsm = "do_burst_write" =>
        /\ ~do_read_reg
        /\ burst_wr_cnt = 0 => ~do_write_reg /\ tstate = "idle"
        /\ 0 <= write_addr - 2 * burst_wr_cnt /\ write_addr - 2 * burst_wr_cnt <= taken
        /\ write_addr + 2 <= sent
        /\ rdusedw <= sent - (write_addr - 2 * burst_wr_cnt)
        /\ write_addr + 2 <= rdusedw + taken
        /\ 2 * burst_cnt_max <= sent - (write_addr - 2 * burst_wr_cnt)
        /\ 2 * burst_cnt_max <= rdusedw + taken - (write_addr - 2 * burst_wr_cnt)
        /\ write_addr + 1 <= 2 * burst_cnt_max + taken

\* Reads are given only when all words have left the input FIFO.
Reading ==
    \/ fsm \in {"check_wfm_outfifo", "do_read"} \/ do_read_reg
    \/ tg_reg.op = "read" \/ avl.op = "read" \/ \E i \in 1 .. Len(tg) : tg[i].op = "read"
ReadsLast ==
    Reading =>
        /\ ~load /\ taken = sent /\ ~do_write_reg /\ tstate = "idle"
        /\ fsm \notin {"do_write", "do_burst_write"}
        /\ read_max_addr = (write_max_words - 1) % ADDRS
        /\ read_burst_max_addr = (write_max_words - 2) % ADDRS

-----------------------------------------------------------------------------
(* The invariant: the words on their way to the memory.                    *)

\* The command that writes the word of place p, b being that of place 0, when
\* seconds are the places of the second words of bursts.
WriteCmd(b, p, seconds) ==
    Cmd("write", [addr |-> IF p \in seconds THEN p - 1 ELSE p,
                  size |-> IF p \in seconds \/ p + 1 \in seconds THEN 2 ELSE 1], b + p)

IsWrite(cmd) == Bit(cmd.op = "write")

\* The second words of bursts, the next one that is fetched included.
Seconds(seconds) ==
    /\ \A p \in seconds : p > 0 /\ p <= taken /\ p + 1 \notin seconds
    /\ taken \in seconds <=> tstate = "write_burst"

\* The first d words are stored; the first w commands of the FIFO are writes.
Storing(b, d, w, seconds) ==
    /\ d + IsWrite(avl) + w + IsWrite(tg_reg) = taken /\ w <= Len(tg)
    /\ Seconds(seconds)
    /\ beat.size = Bit(d \in seconds) /\ (d \in seconds => beat.addr = d)
    /\ \A a \in 0 .. d - 1 : mem[a] = b + a
    /\ avl.op = "write" => avl = WriteCmd(b, d, seconds)
    /\ avl.op = "read" => w = 0 /\ tg_reg.op # "write"
    /\ \A i \in 1 .. w : tg[i] = WriteCmd(b, d + IsWrite(avl) + i - 1, seconds)
    /\ \A i \in w + 1 .. Len(tg) : tg[i].op = "read"
    /\ tg_reg.op = "write" => tg_reg = WriteCmd(b, d + IsWrite(avl) + w, seconds) /\ w = Len(tg)

Stores == \E d, w \in Nat, seconds \in SUBSET Nat : Storing(Word(0), d, w, seconds)

WriteSide == Types /\ PromisesKept /\ CountsKnown /\ BurstsPromised /\ ReadsLast /\ Stores

-----------------------------------------------------------------------------
(* The invariant: the room for what is read.                               *)

\* Commands to the memory that it has not taken, of reads once all is written.
Commands == Bit(avl.op # "none") + Len(tg) + Bit(tg_reg.op # "none") + Bit(do_read_reg)

\* Words in the transmitter's FIFO, and before it.
Data == 2 * (out_used + Bit(pair_reg # NoPair) + Bit(pair # NoPair)) + Bit(half # NoWord)

\* Words that are in the transmitter's FIFO or may come there.
Asked == Data + Len(returning) + 2 * Commands

RoomKept ==
    /\ Len(tg) + Bit(tg_reg.op # "none") < TG_SIZE
    /\ out_used <= OUT_WORDS /\ wrusedw <= OUT_WORDS
    /\ pair # NoPair => pair_reg = NoPair /\ half = NoWord
    /\ Len(returning) + Bit(pair # NoPair) <= RD_LATENCY
    /\ play => ~load /\ sent >= MIN_WORDS
    /\ play => out_used + Bit(pair_reg # NoPair) <= wrusedw + 1
    /\ taken < sent => out_used = 0 /\ wrusedw = 0
    /\ play /\ taken < sent =>
           returning = <<>> /\ half = NoWord /\ pair = NoPair /\ pair_reg = NoPair
    /\ play /\ taken = sent => Asked <= 2 * OUT_WORDS + 1
    /\ play /\ fsm = "do_read" => Asked <= 2 * OUT_WORDS - 1

-----------------------------------------------------------------------------
(* The invariant: the words on their way to the transmitter.               *)

\* The word of position n when the waveform is played over and over, and the
\* place of its read number j: a pass takes Pairs reads.
Loops(n) == Word(n % sent)
Pairs == (sent + 1) \div 2
Place(j) == 2 * (j % Pairs)

ReadBurst(j) == [addr |-> Place(j), size |-> IF Place(j) + 1 = sent THEN 1 ELSE 2]
ReadOf(j) == Cmd("read", ReadBurst(j), NoWord)
IsRead(cmd) == Bit(cmd.op = "read")

\* The position of the word that the memory returns next, k being that of the
\* word that the transmitter's FIFO gets next.
Came(k) == k + 2 * Bit(pair_reg # NoPair) + 2 * Bit(pair # NoPair) + Bit(half # NoWord)

Lanes(k) ==
    /\ IF heard = NoWord THEN k = 0 ELSE k > 0 /\ heard = Loops(k - 1)
    /\ pair_reg # NoPair => pair_reg = <<Loops(k), Loops(k + 1)>>
    /\ pair # NoPair => pair = <<Loops(k), Loops(k + 1)>>
    /\ half # NoWord => half = Loops(Came(k) - 1)

Returns(k) == \A i \in 1 .. Len(returning) : returning[i] = Loops(Came(k) + i - 1)

\* Read number j is the first that the memory has not taken, and w writes are
\* before the reads in the FIFO of commands.
CommandsInOrder(j, w) ==
    /\ w <= Len(tg) /\ (tg_reg.op = "write" => w = Len(tg))
    /\ avl.op = "read" => w = 0 /\ tg_reg.op # "write" /\ avl = ReadOf(j)
    /\ \A i \in 1 .. w : tg[i].op # "read"
    /\ \A i \in w + 1 .. Len(tg) : tg[i] = ReadOf(j + IsRead(avl) + i - w - 1)

\* The number of the next read that goes to the FIFO.
Entering(j, w) == j + IsRead(avl) + Len(tg) - w
RequestsInOrder(e) ==
    /\ tg_reg.op = "read" => tg_reg = ReadOf(e)
    /\ do_read_reg => read_reg = ReadBurst(e + IsRead(tg_reg))
    /\ read_addr = Place(e + IsRead(tg_reg) + Bit(do_read_reg))

\* The memory has still to take the reads from the position where it is.
Continues(k, j) == (Came(k) + Len(returning)) % sent = Place(j)

Playing(k, j, w) ==
    /\ Lanes(k) /\ Returns(k) /\ Continues(k, j)
    /\ CommandsInOrder(j, w) /\ RequestsInOrder(Entering(j, w))

InOrder ==
    play \/ (NoReads /\ sent >= MIN_WORDS) => \E k, j, w \in Nat : Playing(k, j, w)

-----------------------------------------------------------------------------
(* Constants, addresses and words.                                         *)

LEMMA Constants ==
    /\ MIN_WORDS \in Nat /\ MIN_WORDS >= 2 /\ MAX_WORDS \in Nat /\ ADDRS \in Nat /\ ADDRS > MAX_WORDS
    /\ TG_SIZE \in Nat /\ TG_SIZE > 2 /\ RD_LATENCY \in Nat /\ RD_LATENCY > 3
    /\ OUT_WORDS \in Nat /\ OUT_WORDS > RD_LATENCY + TG_SIZE /\ STALL \in Nat /\ LOADS \in Nat
BY WfmPlayerAssumption

LEMMA Mod ==
    ASSUME NEW n \in Int
    PROVE  /\ n % ADDRS \in Places
           /\ n \in Places => n % ADDRS = n
BY Constants DEF Places

\* Words of places are words, and numbered from that of place 0.
LEMMA WordsAre ==
    ASSUME loads \in 0 .. LOADS
    PROVE  /\ Word(0) \in Nat
           /\ \A p \in Places : Word(p) \in Words /\ Word(p) = Word(0) + p
<1>1. \A x, y \in Nat : x * y \in Nat
  OBVIOUS
<1>2. ADDRS * loads \in Nat
  BY <1>1, Constants
<1>3. ASSUME NEW p \in Places PROVE Word(p) \in Words
  BY <1>3 DEF Word, Words
<1> QED  BY <1>2, <1>3 DEF Word, Places

-----------------------------------------------------------------------------
(* What avalon_traffic_gen fetches in a step of the clock.                 *)

\* A write that is fetched finds its word, and which one it is.
LEMMA Fetches ==
    ASSUME Types, PromisesKept
    PROVE  /\ wdata_req => taken < write_addr /\ taken < sent /\ wdata = Word(taken)
           /\ wdata_req <=> tg_in.op = "write"
           /\ wdata_req => ~TgFull
           /\ tg_in.op = "read" => ~TgFull /\ do_read_reg /\ ~do_write_reg /\ tstate = "idle"
           /\ tg_in.op \in {"none", "write", "read"}
           /\ wdata_req /\ tstate = "idle" =>
                  tg_in = Cmd("write", [addr |-> taken, size |-> write_reg.size], Word(taken))
           /\ wdata_req /\ tstate = "write_burst" =>
                  tg_in = Cmd("write", [addr |-> taken - 1, size |-> 2], Word(taken))
           /\ tg_in.op = "read" => tg_in = Cmd("read", read_reg, NoWord)
<1>1. wdata_req => taken < write_addr /\ taken < sent
  BY Constants DEF Types, PromisesKept, wdata_req, Due, Bit, Bursts
<1>2. wdata_req => wdata = Word(taken)
  BY <1>1 DEF wdata, infifo_rdempty, Types
<1>3. wdata_req /\ tstate = "idle" => do_write_reg /\ write_reg.addr = taken
  BY Constants DEF Types, PromisesKept, wdata_req, Due, Bit, Bursts, Places
<1>4. wdata_req /\ tstate = "write_burst" => last_write = [addr |-> taken - 1, size |-> 2]
  BY DEF PromisesKept
<1>5. tstate \in {"idle", "write_burst"}
  BY DEF Types
<1> QED  BY <1>1, <1>2, <1>3, <1>4, <1>5 DEF tg_in, Cmd, NoCmd, wdata_req

\* A write that is promised is of words that are there.
LEMMA PromisesRoom ==
    ASSUME Types, CountsKnown, BurstsPromised, Writes
    PROVE  write_addr + WriteSize <= sent /\ write_addr + WriteSize \in Places
BY Constants DEF Types, CountsKnown, BurstsPromised, Writes, WriteSize, Places

LEMMA PromisesStep ==
    ASSUME Types, PromisesKept, CountsKnown, BurstsPromised,
           NEW arrives, NEW avl_ready, NEW returns, NEW drains,
           Tick(arrives, avl_ready, returns, drains)
    PROVE  PromisesKept'
<1> USE Constants
<1>1. taken' = taken + Bit(wdata_req) /\ write_max_words' = taken + Bit(wdata_req)
  <2>1. /\ taken' = IF wdata_req /\ ~infifo_rdempty THEN taken + 1 ELSE taken
        /\ write_max_words' = IF wdata_req THEN (write_max_words + 1) % ADDRS ELSE write_max_words
    BY DEF Tick, InFifo, WriteRegs, WrittenWords
  <2>2. wdata_req => ~infifo_rdempty /\ taken + 1 \in Places
    BY Fetches DEF infifo_rdempty, Types, Places
  <2> QED  BY <2>1, <2>2, Mod DEF PromisesKept, Bit
<1>2. write_addr' = write_addr + (IF Writes THEN WriteSize ELSE 0) /\ write_addr' <= sent
  <2>1. write_addr' = IF Writes THEN (write_addr + WriteSize) % ADDRS ELSE write_addr
    BY DEF Tick, WriteRegs
  <2>2. Writes => write_addr + WriteSize <= sent /\ write_addr + WriteSize \in Places
    BY PromisesRoom
  <2>3. write_addr \in Nat /\ WriteSize \in Nat /\ write_addr <= sent
    BY DEF Types, WriteSize, PromisesKept, Places
  <2> QED  BY <2>1, <2>2, <2>3, Mod DEF Places
<1>3. sent' \in Nat /\ sent' >= sent
  BY DEF Tick, InFifo, Types
<1>4. /\ do_write_reg' = IF ready THEN Writes ELSE do_write_reg
      /\ write_reg' = IF ready THEN [addr |-> write_addr, size |-> WriteSize] ELSE write_reg
      /\ last_write' = IF ~TgFull /\ tstate = "idle" /\ do_write_reg THEN write_reg ELSE last_write
      /\ ~TgFull /\ tstate = "idle" /\ do_write_reg /\ write_reg.size > 1 => tstate' = "write_burst"
      /\ ~TgFull /\ tstate = "write_burst" => tstate' = "idle"
      /\ TgFull => tstate' = tstate
      /\ tstate = "idle" /\ ~(do_write_reg /\ write_reg.size > 1) => tstate' = "idle"
  BY DEF Tick, TgInputs, TgFsm
<1>5. Writes => ready
  BY DEF Writes
<1>6. WriteSize \in {1, 2} /\ write_addr \in Nat /\ taken \in Nat
  BY DEF WriteSize, Types, Places
<1>7. tstate \in {"idle", "write_burst"} /\ do_write_reg \in BOOLEAN /\ write_reg \in Bursts
  BY DEF Types
<1>8. ready => ~do_write_reg \/ (~TgFull /\ tstate = "idle")
  BY DEF ready, Pending
<1>9. do_write_reg' => write_reg'.size \in {1, 2} /\ write_reg'.addr + write_reg'.size = write_addr'
  <2>1. CASE ready
    BY <1>2, <1>4, <1>6, <2>1
  <2>2. CASE ~ready
    BY <1>2, <1>4, <1>5, <1>6, <2>2 DEF PromisesKept
  <2> QED  BY <2>1, <2>2
<1>10. taken' + Due' = write_addr'
  <2>1. write_reg.size \in Nat /\ WriteSize \in Nat
    BY <1>6, <1>7 DEF Bursts
  <2>2. CASE do_write_reg /\ tstate = "idle" /\ ~TgFull
    <3>1. taken' = taken + 1 /\ ready /\ taken + write_reg.size = write_addr
      BY <1>1, <1>6, <2>1, <2>2 DEF PromisesKept, Due, Bit, wdata_req, ready
    <3>2. Bit(tstate' = "write_burst") = write_reg.size - 1
      BY <1>4, <2>2 DEF Bit, PromisesKept
    <3>3. (IF do_write_reg' THEN write_reg'.size ELSE 0) = IF Writes THEN WriteSize ELSE 0
      BY <1>4, <3>1
    <3> QED  BY <1>2, <1>6, <2>1, <3>1, <3>2, <3>3 DEF Due
  <2>3. CASE do_write_reg /\ ~(tstate = "idle" /\ ~TgFull)
    <3>1. ~ready /\ ~Writes
      BY <1>5, <1>8, <2>3
    <3>2. do_write_reg' = do_write_reg /\ write_reg' = write_reg /\ write_addr' = write_addr
      BY <1>2, <1>4, <1>6, <3>1
    <3>3. taken' + Bit(tstate' = "write_burst") = taken + Bit(tstate = "write_burst")
      BY <1>1, <1>4, <1>6, <1>7, <2>3 DEF Bit, wdata_req
    <3> QED  BY <1>1, <1>6, <2>1, <3>2, <3>3 DEF PromisesKept, Due, Bit
  <2>4. CASE ~do_write_reg
    <3>1. (IF do_write_reg' THEN write_reg'.size ELSE 0) = IF Writes THEN WriteSize ELSE 0
      BY <1>4, <1>5, <2>4
    <3>2. taken' + Bit(tstate' = "write_burst") = write_addr
      <4>1. taken + Bit(tstate = "write_burst") = write_addr
        BY <1>6, <2>4 DEF PromisesKept, Due, Bit
      <4>2. taken' + Bit(tstate' = "write_burst") = taken + Bit(tstate = "write_burst")
        BY <1>1, <1>4, <1>6, <1>7, <2>4 DEF Bit, wdata_req
      <4> QED  BY <4>1, <4>2
    <3>3. taken' \in Nat /\ Bit(tstate' = "write_burst") \in Nat
      BY <1>1, <1>6 DEF Bit
    <3> QED  BY <1>2, <1>6, <3>1, <3>2, <3>3 DEF Due
  <2> QED  BY <1>7, <2>2, <2>3, <2>4
<1>11. tstate' = "write_burst" => last_write' = [addr |-> taken' - 1, size |-> 2]
  <2>1. CASE ~TgFull /\ tstate = "idle" /\ do_write_reg /\ write_reg.size > 1
    <3>1. write_reg.size = 2 /\ write_reg.addr = taken /\ taken' = taken + 1
      BY <1>1, <1>6, <1>7, <2>1 DEF PromisesKept, Due, Bit, wdata_req, Bursts, Places
    <3>2. write_reg = [addr |-> taken, size |-> 2]
      BY <1>7, <3>1 DEF Bursts
    <3> QED  BY <1>4, <1>6, <2>1, <3>1, <3>2
  <2>2. CASE ~(~TgFull /\ tstate = "idle" /\ do_write_reg /\ write_reg.size > 1)
    <3>1. tstate' = "write_burst" => tstate = "write_burst" /\ TgFull
      BY <1>4, <1>7, <2>2
    <3>2. TgFull => taken' = taken
      BY <1>1, <1>6 DEF wdata_req, Bit
    <3> QED  BY <1>4, <3>1, <3>2 DEF PromisesKept
  <2> QED  BY <2>1, <2>2
<1> QED  BY <1>1, <1>2, <1>3, <1>9, <1>10, <1>11 DEF PromisesKept, Types

\* When nothing is due nothing is fetched.
LEMMA NothingDue ==
    ASSUME Types, ~do_write_reg, tstate = "idle", ~Writes,
           NEW arrives, NEW avl_ready, NEW returns, NEW drains,
           Tick(arrives, avl_ready, returns, drains)
    PROVE  /\ ~do_write_reg' /\ tstate' = "idle" /\ ~wdata_req
           /\ taken' = taken /\ write_max_words' = write_max_words /\ write_addr' = write_addr
<1>1. ~wdata_req
  BY DEF wdata_req
<1> QED  BY <1>1 DEF Tick, InFifo, WriteRegs, WrittenWords, TgInputs, TgFsm

\* The count of the input FIFO's words, which may be one edge old.
LEMMA CountMoves ==
    ASSUME Types, PromisesKept, CountsKnown, BurstsPromised,
           NEW arrives, NEW avl_ready, NEW returns, NEW drains,
           Tick(arrives, avl_ready, returns, drains)
    PROVE  /\ sent' \in Nat /\ sent <= sent' /\ (sent' > sent => load)
           /\ taken' \in Nat /\ taken <= taken' /\ taken' <= taken + 1 /\ taken' <= sent
           /\ rdusedw' \in {sent - taken, sent' - taken'} /\ rdusedw' \in Nat
           /\ burst_cnt_max' \in Nat /\ rdusedw - 1 <= 2 * burst_cnt_max' /\ 2 * burst_cnt_max' <= rdusedw
<1>1. /\ sent' = IF arrives THEN sent + 1 ELSE sent
      /\ taken' = IF wdata_req /\ ~infifo_rdempty THEN taken + 1 ELSE taken
      /\ rdusedw' \in {sent - taken, sent' - taken'}
      /\ burst_cnt_max' = rdusedw \div 2 /\ (arrives => load)
  BY DEF Tick, InFifo, BurstCounts
<1>2. sent \in Nat /\ taken \in Nat /\ taken <= sent /\ rdusedw \in Nat
  BY DEF Types
<1>3. wdata_req => taken < sent
  BY Fetches
<1>4. rdusedw \div 2 \in Nat /\ rdusedw - 1 <= 2 * (rdusedw \div 2) /\ 2 * (rdusedw \div 2) <= rdusedw
  BY <1>2
<1> QED  BY <1>1, <1>2, <1>3, <1>4

LEMMA CountsStep ==
    ASSUME Types, PromisesKept, CountsKnown, BurstsPromised, WritesSettle,
           NEW arrives, NEW avl_ready, NEW returns, NEW drains,
           Tick(arrives, avl_ready, returns, drains)
    PROVE  CountsKnown'
<1>1. WfmFsm /\ idle_cnt' = (IF fsm = "do_write_idle" THEN idle_cnt + 1 ELSE 0)
  BY DEF Tick, BurstCounts
<1>2. /\ fsm' = "do_write_idle" => fsm \in {"do_write", "do_burst_write", "do_write_idle"}
      /\ fsm' = "do_write_idle" /\ fsm = "do_write_idle" => ~Settled
      /\ fsm' # "do_write_idle" /\ fsm = "do_write_idle" => Settled /\ fsm' = "check_wfm_infifo"
      /\ fsm' \notin {"do_burst_write", "do_write_idle"} => fsm \notin {"do_write", "do_burst_write"}
      /\ fsm' = "do_write" => fsm = "check_wfm_infifo" /\ ~infifo_rdempty /\ ready
  BY <1>1 DEF WfmFsm, Goes
<1>3. idle_cnt \in Nat /\ sent \in Nat /\ taken \in Nat /\ rdusedw \in Nat /\ burst_cnt_max \in Nat
      /\ taken <= sent /\ write_addr \in Nat
  BY Constants DEF Types, Places
<1>4. ASSUME fsm' \notin {"do_burst_write", "do_write_idle"} \/ (fsm = "do_write_idle" /\ idle_cnt = 3)
      PROVE  /\ ~do_write_reg /\ tstate = "idle" /\ ~Writes
             /\ ~do_write_reg' /\ tstate' = "idle" /\ taken' = taken /\ write_addr' = write_addr
  <2>1. ~Writes
    BY <1>2, <1>4 DEF Writes
  <2>2. ~do_write_reg /\ tstate = "idle"
    BY <1>2, <1>3, <1>4 DEF CountsKnown, WritesSettle, Settled
  <2> QED  BY <2>1, <2>2, NothingDue
<1>5. ASSUME fsm' \notin {"do_write", "do_burst_write", "do_write_idle"}
      PROVE  rdusedw' <= sent' - taken' /\ 2 * burst_cnt_max' <= rdusedw'
  <2>1. taken' = taken
    BY <1>4, <1>5
  <2>2. rdusedw <= sent - taken
    BY <1>2, <1>3, <1>5 DEF CountsKnown, Settled
  <2> QED  BY <1>3, <2>1, <2>2, CountMoves
<1>6. ASSUME fsm' = "do_write"
      PROVE  ~do_read_reg' /\ write_addr' + 1 <= sent'
  <2>1. write_addr = taken /\ taken < sent
    BY <1>2, <1>3, <1>4, <1>6 DEF PromisesKept, Due, Bit, infifo_rdempty
  <2>2. do_read_reg' = Reads
    BY <1>2, <1>6 DEF Tick, TgInputs
  <2>3. ~Reads
    BY <1>2, <1>6 DEF Reads
  <2> QED  BY <1>3, <1>4, <1>6, <2>1, <2>2, <2>3, CountMoves
<1>7. ASSUME fsm' = "do_write_idle"
      PROVE  idle_cnt' <= 4 /\ (idle_cnt' = 4 => rdusedw' <= sent' - taken')
  <2>1. CASE fsm # "do_write_idle"
    BY <1>1, <2>1
  <2>2. CASE fsm = "do_write_idle"
    <3>1. idle_cnt' = idle_cnt + 1 /\ idle_cnt <= 3
      BY <1>1, <1>2, <1>3, <1>7, <2>2 DEF Settled
    <3>2. idle_cnt' = 4 => taken' = taken
      BY <1>3, <1>4, <2>2, <3>1
    <3> QED  BY <1>3, <3>1, <3>2, CountMoves
  <2> QED  BY <2>1, <2>2
<1>8. fsm' # "do_write_idle" => idle_cnt' \in {0, 5}
  BY <1>1, <1>2, <1>3 DEF Settled, CountsKnown
<1> QED  BY <1>4, <1>5, <1>6, <1>7, <1>8 DEF CountsKnown

LEMMA BurstsStep ==
    ASSUME Types, PromisesKept, CountsKnown, BurstsPromised,
           NEW arrives, NEW avl_ready, NEW returns, NEW drains,
           Tick(arrives, avl_ready, returns, drains)
    PROVE  BurstsPromised'
<1> SUFFICES ASSUME fsm' = "do_burst_write" PROVE BurstsPromised'
  BY DEF BurstsPromised
<1>1. WfmFsm /\ burst_wr_cnt' = (CASE fsm = "do_burst_write" /\ ready -> burst_wr_cnt + 1
                                   [] fsm = "do_burst_write" /\ ~ready -> burst_wr_cnt
                                   [] OTHER -> 0)
  BY DEF Tick, BurstCounts
<1>2. \/ fsm = "check_wfm_infifo" /\ ~infifo_rdempty /\ ready /\ burst_cnt_max > 0 /\ burst_wr_cnt' = 0
      \/ fsm = "do_burst_write" /\ ~ready /\ burst_wr_cnt' = burst_wr_cnt
      \/ fsm = "do_burst_write" /\ ready /\ MoreBursts /\ burst_wr_cnt' = burst_wr_cnt + 1
  BY <1>1 DEF WfmFsm, Goes
<1>3. /\ sent \in Nat /\ taken \in Nat /\ rdusedw \in Nat /\ burst_cnt_max \in Nat
      /\ burst_wr_cnt \in Nat /\ taken <= sent /\ write_addr \in Nat
  BY Constants DEF Types, Places
<1>4. /\ do_read_reg' = IF ready THEN Reads ELSE do_read_reg
      /\ write_addr' = IF Writes THEN (write_addr + WriteSize) % ADDRS ELSE write_addr
  BY DEF Tick, TgInputs, WriteRegs
<1>5. ~Reads
  BY <1>2 DEF Reads
<1>6. CASE fsm = "check_wfm_infifo" /\ ~infifo_rdempty /\ ready /\ burst_cnt_max > 0 /\ burst_wr_cnt' = 0
  <2>1. ~Writes /\ ~do_write_reg /\ tstate = "idle" /\ rdusedw <= sent - taken /\ 2 * burst_cnt_max <= rdusedw
    BY <1>6 DEF Writes, CountsKnown
  <2>2. ~do_write_reg' /\ tstate' = "idle" /\ taken' = taken /\ write_addr' = write_addr
    BY <2>1, NothingDue
  <2>3. write_addr = taken
    BY <1>3, <2>1 DEF PromisesKept, Due, Bit
  <2>4. ~do_read_reg'
    BY <1>4, <1>5, <1>6
  <2>5. /\ write_addr' - 2 * burst_wr_cnt' = taken' /\ write_addr' + 2 <= sent'
        /\ rdusedw' <= sent' - taken' /\ write_addr' + 2 <= rdusedw' + taken'
        /\ 2 * burst_cnt_max' <= sent' - taken' /\ 2 * burst_cnt_max' <= rdusedw'
        /\ write_addr' + 1 <= 2 * burst_cnt_max' + taken'
    BY <1>3, <1>6, <2>1, <2>2, <2>3, CountMoves
  <2> QED  BY <1>3, <2>2, <2>3, <2>4, <2>5, CountMoves DEF BurstsPromised
<1>7. CASE fsm = "do_burst_write" /\ ~ready /\ burst_wr_cnt' = burst_wr_cnt
  <2>1. ~Writes /\ write_addr' = write_addr /\ ~do_read_reg'
    BY <1>4, <1>7 DEF Writes, BurstsPromised
  <2>2. burst_wr_cnt # 0
    BY <1>7 DEF ready, Pending, BurstsPromised
  <2> QED  BY <1>3, <1>7, <2>1, <2>2, CountMoves DEF BurstsPromised
<1>8. CASE fsm = "do_burst_write" /\ ready /\ MoreBursts /\ burst_wr_cnt' = burst_wr_cnt + 1
  <2>1. write_addr' = write_addr + 2
    <3>1. write_addr + WriteSize \in Places /\ WriteSize = 2 /\ Writes
      BY <1>8, PromisesRoom DEF Writes, WriteSize
    <3>2. (write_addr + WriteSize) % ADDRS = write_addr + 2
      BY <1>3, <3>1, Mod
    <3> QED  BY <1>4, <3>1, <3>2
  <2>2. taken <= write_addr
    <3>1. write_reg.size \in Nat
      BY DEF Types, Bursts
    <3>2. Due \in Nat
      BY <3>1 DEF Due, Bit
    <3> QED  BY <1>3, <3>2 DEF PromisesKept
  <2>3. burst_wr_cnt + 1 < burst_cnt_max
    BY <1>3, <1>8, <2>2 DEF MoreBursts, BurstsPromised
  <2>4. ~do_read_reg'
    BY <1>4, <1>5, <1>8
  <2> QED  BY <1>3, <1>8, <2>1, <2>3, <2>4, CountMoves DEF BurstsPromised
<1> QED  BY <1>2, <1>6, <1>7, <1>8

-----------------------------------------------------------------------------
(* The FIFO of commands.                                                   *)

\* The FIFO gives its first command to the memory's port.
Issued(avl_ready) == CanIssue(avl_ready) /\ tg # <<>>

LEMMA TgMoves ==
    ASSUME Types, NEW avl_ready \in BOOLEAN, TgFifo(avl_ready)
    PROVE  /\ Len(tg) - Bit(Issued(avl_ready)) \in Nat /\ tg' \in Seq(Cmds)
           /\ Len(tg') = Len(tg) - Bit(Issued(avl_ready)) + Bit(tg_reg.op # "none")
           /\ \A i \in 1 .. Len(tg) - Bit(Issued(avl_ready)) : tg'[i] = tg[i + Bit(Issued(avl_ready))]
           /\ tg_reg.op # "none" => tg'[Len(tg')] = tg_reg
           /\ Issued(avl_ready) => avl' = tg[1] /\ Len(tg) > 0
           /\ CanIssue(avl_ready) /\ ~Issued(avl_ready) => avl' = NoCmd /\ Len(tg) = 0
           /\ ~CanIssue(avl_ready) => avl' = avl
           /\ tg_reg' = tg_in
<1> DEFINE q == IF Issued(avl_ready) THEN Tail(tg) ELSE tg
           x == IF tg_reg.op = "none" THEN <<>> ELSE <<tg_reg>>
<1>1. tg \in Seq(Cmds) /\ tg_reg \in Cmds
  BY DEF Types
<1>2. /\ q \in Seq(Cmds) /\ Len(q) = Len(tg) - Bit(Issued(avl_ready)) /\ Len(q) \in Nat
      /\ \A i \in 1 .. Len(q) : q[i] = tg[i + Bit(Issued(avl_ready))]
      /\ Issued(avl_ready) => Head(tg) = tg[1] /\ Len(tg) > 0
  <2>1. CASE Issued(avl_ready)
    <3>1. tg # <<>>
      BY <2>1 DEF Issued
    <3>2. /\ Tail(tg) \in Seq(Cmds) /\ Len(Tail(tg)) = Len(tg) - 1 /\ Len(tg) \in Nat /\ Len(tg) > 0
          /\ \A i \in 1 .. Len(Tail(tg)) : Tail(tg)[i] = tg[i + 1]
          /\ Head(tg) = tg[1]
      BY <1>1, <3>1, HeadTailProperties, LenProperties, EmptySeq
    <3> QED  BY <2>1, <3>2 DEF Bit
  <2>2. CASE ~Issued(avl_ready)
    BY <1>1, <2>2, LenProperties DEF Bit
  <2> QED  BY <2>1, <2>2
<1>3. /\ x \in Seq(Cmds) /\ Len(x) = Bit(tg_reg.op # "none")
      /\ tg_reg.op # "none" => x[1] = tg_reg
  BY <1>1 DEF Bit
<1>4. tg' = q \o x /\ tg_reg' = tg_in
  BY DEF TgFifo, Issued
<1>5. /\ q \o x \in Seq(Cmds) /\ Len(q \o x) = Len(q) + Len(x)
      /\ \A i \in 1 .. Len(q) + Len(x) : (q \o x)[i] = IF i <= Len(q) THEN q[i] ELSE x[i - Len(q)]
  <2>1. \A u, v \in Seq(Cmds) :
            /\ u \o v \in Seq(Cmds) /\ Len(u \o v) = Len(u) + Len(v)
            /\ \A i \in 1 .. Len(u) + Len(v) :
                   (u \o v)[i] = IF i <= Len(u) THEN u[i] ELSE v[i - Len(u)]
    BY ConcatProperties
  <2> HIDE DEF q, x
  <2> QED  BY <1>2, <1>3, <2>1, Zenon
<1>6. /\ Issued(avl_ready) => avl' = tg[1]
      /\ CanIssue(avl_ready) /\ ~Issued(avl_ready) => avl' = NoCmd
      /\ ~CanIssue(avl_ready) => avl' = avl
  BY <1>2 DEF TgFifo, Issued
<1>7. CanIssue(avl_ready) /\ ~Issued(avl_ready) => Len(tg) = 0
  BY <1>1, EmptySeq DEF Issued
<1> HIDE DEF q, x
<1>8. /\ Len(tg') = Len(q) + Len(x) /\ tg' \in Seq(Cmds) /\ Len(x) \in {0, 1}
      /\ \A i \in 1 .. Len(q) : tg'[i] = q[i]
  BY <1>2, <1>3, <1>4, <1>5 DEF Bit
<1>9. ASSUME tg_reg.op # "none" PROVE tg'[Len(tg')] = tg_reg
  <2>1. Len(x) = 1 /\ x[1] = tg_reg
    BY <1>3, <1>9 DEF Bit
  <2>2. Len(tg') \in 1 .. Len(q) + Len(x) /\ ~(Len(tg') <= Len(q)) /\ Len(tg') - Len(q) = 1
    BY <1>2, <1>8, <2>1
  <2> QED  BY <1>4, <1>5, <2>1, <2>2
<1> QED  BY <1>2, <1>3, <1>4, <1>6, <1>7, <1>8, <1>9

\* Only from idle does the player begin to read.
LEMMA ReadingBefore ==
    ASSUME Types, PromisesKept, NEW arrives, NEW avl_ready \in BOOLEAN, NEW returns, NEW drains,
           Tick(arrives, avl_ready, returns, drains), Reading'
    PROVE  Reading \/ (fsm = "idle" /\ ~MayWrite)
<1>0. WfmFsm /\ TgFifo(avl_ready)
  BY DEF Tick
<1>1. CASE fsm' \in {"check_wfm_outfifo", "do_read"}
  BY <1>0, <1>1 DEF WfmFsm, Goes, Reading
<1>2. CASE do_read_reg'
  <2>1. do_read_reg' = IF ready THEN Reads ELSE do_read_reg
    BY DEF Tick, TgInputs
  <2> QED  BY <1>2, <2>1 DEF Reads, Reading
<1>3. CASE tg_reg'.op = "read"
  BY <1>0, <1>3, TgMoves, Fetches DEF Reading
<1>4. CASE avl'.op = "read"
  <2>1. Len(tg) \in Nat
    BY LenProperties DEF Types
  <2>2. (avl' = tg[1] /\ 1 \in 1 .. Len(tg)) \/ avl' = NoCmd \/ avl' = avl
    BY <1>0, <2>1, TgMoves
  <2> QED  BY <1>4, <2>2 DEF Reading, NoCmd
<1>5. CASE \E i \in 1 .. Len(tg') : tg'[i].op = "read"
  <2>1. PICK i \in 1 .. Len(tg') : tg'[i].op = "read"
    BY <1>5
  <2> DEFINE k == Bit(Issued(avl_ready))
  <2>2. Len(tg) - k \in Nat /\ Len(tg') = Len(tg) - k + Bit(tg_reg.op # "none") /\ k \in {0, 1}
        /\ Len(tg) \in Nat
    BY <1>0, TgMoves, LenProperties DEF Bit, Types
  <2>3. CASE i <= Len(tg) - k
    <3>1. tg'[i] = tg[i + k] /\ i + k \in 1 .. Len(tg)
      BY <1>0, <2>2, <2>3, TgMoves
    <3> QED  BY <2>1, <3>1 DEF Reading
  <2>4. CASE ~(i <= Len(tg) - k)
    <3>1. i = Len(tg') /\ tg_reg.op # "none"
      BY <2>2, <2>4 DEF Bit
    <3> QED  BY <1>0, <2>1, <3>1, TgMoves DEF Reading
  <2> QED  BY <2>3, <2>4
<1> QED  BY <1>1, <1>2, <1>3, <1>4, <1>5 DEF Reading

LEMMA ReadsLastStep ==
    ASSUME Types, PromisesKept, CountsKnown, BurstsPromised, ReadsLast,
           NEW arrives, NEW avl_ready \in BOOLEAN, NEW returns, NEW drains,
           Tick(arrives, avl_ready, returns, drains)
    PROVE  ReadsLast'
<1> SUFFICES ASSUME Reading' PROVE ReadsLast'
  BY DEF ReadsLast
<1>1. WfmFsm /\ TgFifo(avl_ready) /\ (arrives => load) /\ load' = load
      /\ sent' = IF arrives THEN sent + 1 ELSE sent
  BY DEF Tick, InFifo, ctlVars
<1>2. Reading \/ (fsm = "idle" /\ ~MayWrite)
  BY ReadingBefore
<1>3. /\ ~load /\ taken = sent /\ ~do_write_reg /\ tstate = "idle"
      /\ fsm \notin {"do_write", "do_burst_write"}
  BY <1>2 DEF ReadsLast, MayWrite, infifo_rdempty, CountsKnown
<1>4. ~Writes
  BY <1>3 DEF Writes
<1>5. ~do_write_reg' /\ tstate' = "idle" /\ taken' = taken /\ write_max_words' = write_max_words
  BY <1>3, <1>4, NothingDue
<1>6. /\ read_max_addr' = (write_max_words - 1) % ADDRS
      /\ read_burst_max_addr' = (write_max_words - 2) % ADDRS
  BY DEF Tick, ReadRegs
<1>7. fsm' \notin {"do_write", "do_burst_write"}
  BY <1>1, <1>3 DEF WfmFsm, Goes, infifo_rdempty
<1>8. ~load' /\ sent' = sent
  BY <1>1, <1>3
<1> QED  BY <1>3, <1>5, <1>6, <1>7, <1>8 DEF ReadsLast

-----------------------------------------------------------------------------
(* The words on their way to the memory.                                   *)

\* The words of places below p are not concerned by a burst that begins at p.
LEMMA SameWriteCmd ==
    ASSUME NEW b \in Nat, NEW n \in Nat, NEW S \in SUBSET Nat, NEW T \in SUBSET Nat,
           T = S \/ T = S \union {n + 1}
    PROVE  /\ \A p \in Nat : p < n => WriteCmd(b, p, T) = WriteCmd(b, p, S)
           /\ \A p \in Nat : p <= n => (p \in T <=> p \in S)
<1>1. \A p \in Nat : p <= n => (p \in T <=> p \in S)
  OBVIOUS
<1>2. ASSUME NEW p \in Nat, p < n PROVE WriteCmd(b, p, T) = WriteCmd(b, p, S)
  <2>1. (p \in T <=> p \in S) /\ (p + 1 \in T <=> p + 1 \in S)
    BY <1>1, <1>2
  <2> QED  BY <2>1 DEF WriteCmd
<1> QED  BY <1>1, <1>2

\* What is known of the words on their way, in figures.
LEMMA StoringFacts ==
    ASSUME Types, NEW b \in Nat, NEW d \in Nat, NEW w \in Nat, NEW S \in SUBSET Nat,
           Storing(b, d, w, S)
    PROVE  /\ IsWrite(avl) \in {0, 1} /\ IsWrite(tg_reg) \in {0, 1} /\ Len(tg) \in Nat
           /\ d + IsWrite(avl) + w + IsWrite(tg_reg) = taken /\ taken \in Nat /\ taken < ADDRS
           /\ avl.op = "write" => At = d /\ avl.data = b + d /\ d < taken
           /\ avl.op = "write" => avl.size = IF d \in S \/ d + 1 \in S THEN 2 ELSE 1
<1>1. IsWrite(avl) \in {0, 1} /\ IsWrite(tg_reg) \in {0, 1} /\ Len(tg) \in Nat
  BY LenProperties DEF IsWrite, Bit, Types
<1>2. taken \in Nat /\ taken < ADDRS
  BY Constants DEF Types
<1>3. d + IsWrite(avl) + w + IsWrite(tg_reg) = taken
  BY DEF Storing
<1>4. ASSUME avl.op = "write"
      PROVE  At = d /\ avl.data = b + d /\ d < taken /\ avl.size = IF d \in S \/ d + 1 \in S THEN 2 ELSE 1
  <2>1. avl = WriteCmd(b, d, S) /\ beat.size = Bit(d \in S) /\ (d \in S => beat.addr = d)
    BY <1>4 DEF Storing
  <2>2. avl.addr = (IF d \in S THEN d - 1 ELSE d) /\ avl.data = b + d
        /\ avl.size = IF d \in S \/ d + 1 \in S THEN 2 ELSE 1
    BY <2>1 DEF WriteCmd, Cmd
  <2>3. At = d
    BY <2>1, <2>2 DEF At, Bit
  <2>4. d < taken
    BY <1>1, <1>2, <1>3, <1>4 DEF IsWrite, Bit
  <2> QED  BY <2>2, <2>3, <2>4
<1> QED  BY <1>1, <1>2, <1>3, <1>4

\* In a step a burst may begin, d becomes d1, and w becomes w1.
Begins(T, S) ==
    T = IF wdata_req /\ tstate = "idle" /\ write_reg.size = 2 THEN S \union {taken + 1} ELSE S
StoresTo(d1, d, avl_ready) == d1 = d + Bit(avl.op = "write" /\ avl_ready)
WaitTo(w1, w, avl_ready) == w1 = w - Bit(Issued(avl_ready) /\ w > 0) + IsWrite(tg_reg)

\* In the FIFO w writes are before the reads, the first of the word of place p.
WritesFirst(b, p, w, S) ==
    /\ \A i \in 1 .. w : tg[i] = WriteCmd(b, p + i - 1, S)
    /\ \A i \in w + 1 .. Len(tg) : tg[i].op = "read"

\* The FIFO of commands and the memory's port in a step.
LEMMA StoringFifo ==
    ASSUME Types, NEW b \in Nat, NEW d \in Nat, NEW w \in Nat, NEW S \in SUBSET Nat,
           Storing(b, d, w, S), NEW T \in SUBSET Nat, Begins(T, S),
           NEW avl_ready \in BOOLEAN, TgFifo(avl_ready),
           NEW d1 \in Nat, StoresTo(d1, d, avl_ready), NEW w1, WaitTo(w1, w, avl_ready)
    PROVE  /\ w1 \in Nat /\ w1 <= Len(tg')
           /\ IsWrite(avl') \in {0, 1} /\ d1 + IsWrite(avl') + w1 = taken
           /\ \A p : p = d1 + IsWrite(avl') => WritesFirst(b, p, w1, T)'
           /\ avl'.op = "write" => avl' = WriteCmd(b, d1, T)
           /\ avl'.op = "read" => Reading /\ w1 = 0
           /\ ~Reading => w1 = Len(tg')
<1> DEFINE k == Bit(Issued(avl_ready))
           j == Bit(Issued(avl_ready) /\ w > 0)
           n == Len(tg)
           c == d + IsWrite(avl)
<1>1. /\ k \in {0, 1} /\ j \in {0, 1} /\ j <= k /\ j <= w /\ (w > 0 => j = k) /\ n \in Nat
      /\ IsWrite(avl) \in {0, 1} /\ IsWrite(tg_reg) \in {0, 1} /\ c \in Nat
      /\ c + w + IsWrite(tg_reg) = taken /\ taken \in Nat /\ w <= n /\ w1 = w - j + IsWrite(tg_reg)
  <2>1. /\ IsWrite(avl) \in {0, 1} /\ IsWrite(tg_reg) \in {0, 1} /\ n \in Nat
        /\ c + w + IsWrite(tg_reg) = taken /\ taken \in Nat
    BY StoringFacts
  <2>2. w <= n
    BY DEF Storing
  <2>3. k \in {0, 1} /\ j \in {0, 1} /\ j <= k /\ j <= w /\ (w > 0 => j = k)
    BY DEF Bit
  <2> HIDE DEF k, j, n
  <2> QED  BY <2>1, <2>2, <2>3 DEF j, WaitTo
<1>2. /\ \A i \in 1 .. w : tg[i] = WriteCmd(b, c + i - 1, S)
      /\ \A i \in w + 1 .. n : tg[i].op = "read"
      /\ tg_reg.op = "write" => tg_reg = WriteCmd(b, c + w, S) /\ w = n
      /\ avl.op = "write" => avl = WriteCmd(b, d, S)
      /\ avl.op = "read" => w = 0 /\ tg_reg.op # "write"
  BY DEF Storing
<1>3. \A p \in Nat : p < taken => WriteCmd(b, p, T) = WriteCmd(b, p, S)
  <2>1. taken \in Nat /\ (T = S \/ T = S \union {taken + 1})
    BY <1>1 DEF Begins
  <2> QED  BY <2>1, SameWriteCmd
<1>4. \A p \in Nat : WriteCmd(b, p, S).op = "write"
  BY DEF WriteCmd, Cmd
<1>5. /\ n - k \in Nat /\ Len(tg') = n - k + Bit(tg_reg.op # "none")
      /\ \A i \in 1 .. n - k : tg'[i] = tg[i + k]
      /\ tg_reg.op # "none" => tg'[Len(tg')] = tg_reg
      /\ Issued(avl_ready) => avl' = tg[1] /\ n > 0
      /\ CanIssue(avl_ready) /\ ~Issued(avl_ready) => avl' = NoCmd /\ n = 0
      /\ ~CanIssue(avl_ready) => avl' = avl
  BY TgMoves
<1>6. tg_reg.op \in {"none", "write", "read"} /\ avl.op \in {"none", "write", "read"}
  BY DEF Types, Cmds
<1>7. Issued(avl_ready) <=> k = 1
  BY DEF Bit
<1>8. Issued(avl_ready) => CanIssue(avl_ready)
  BY DEF Issued
<1>9. /\ CanIssue(avl_ready) => d1 = c
      /\ ~CanIssue(avl_ready) => d1 = d
  BY <1>6 DEF CanIssue, IsWrite, Bit, StoresTo
<1> HIDE DEF k, j, n, c
<1>10. Issued(avl_ready) => IF w > 0 THEN avl' = WriteCmd(b, c, S) ELSE avl'.op = "read" /\ Reading
  <2>1. CASE w > 0
    <3>1. tg[1] = WriteCmd(b, c + 1 - 1, S)
      BY <1>1, <1>2, <2>1
    <3> QED  BY <1>1, <1>5, <2>1, <3>1
  <2>2. CASE ~(w > 0) /\ Issued(avl_ready)
    <3>1. 1 \in w + 1 .. n
      BY <1>1, <1>5, <2>2
    <3> QED  BY <1>2, <1>5, <2>2, <3>1 DEF Reading, n
  <2> QED  BY <2>1, <2>2
<1>11. /\ IsWrite(avl') = IF Issued(avl_ready) THEN j ELSE IF CanIssue(avl_ready) THEN 0 ELSE IsWrite(avl)
       /\ Issued(avl_ready) /\ w > 0 => j = 1
       /\ Issued(avl_ready) /\ ~(w > 0) => j = 0
       /\ ~Issued(avl_ready) => j = 0
  <2>1. /\ Issued(avl_ready) /\ w > 0 => j = 1
        /\ Issued(avl_ready) /\ ~(w > 0) => j = 0
        /\ ~Issued(avl_ready) => j = 0
    BY <1>1 DEF j, Bit
  <2>2. Issued(avl_ready) /\ w > 0 => avl'.op = "write"
    BY <1>1, <1>4, <1>10
  <2>3. Issued(avl_ready) /\ ~(w > 0) => avl'.op = "read"
    BY <1>10
  <2>4. CanIssue(avl_ready) /\ ~Issued(avl_ready) => avl'.op = "none"
    BY <1>5 DEF NoCmd
  <2> QED  BY <1>5, <1>8, <2>1, <2>2, <2>3, <2>4 DEF IsWrite, Bit
<1>12. IsWrite(avl') \in {0, 1} /\ d1 + IsWrite(avl') = c + j
  <2>1. c = d + IsWrite(avl)
    BY DEF c
  <2>2. CASE CanIssue(avl_ready)
    <3>1. d1 = c /\ IsWrite(avl') = j
      BY <1>9, <1>11, <2>2
    <3> QED  BY <1>1, <3>1
  <2>3. CASE ~CanIssue(avl_ready)
    <3>1. d1 = d /\ IsWrite(avl') = IsWrite(avl) /\ j = 0
      BY <1>8, <1>9, <1>11, <2>3
    <3> QED  BY <1>1, <2>1, <3>1
  <2> QED  BY <2>2, <2>3
<1>13. w1 \in Nat /\ d1 + IsWrite(avl') + w1 = taken
  BY <1>1, <1>12
<1>14. w1 <= Len(tg')
  <2>1. IsWrite(tg_reg) <= Bit(tg_reg.op # "none") /\ Bit(tg_reg.op # "none") \in Nat
    BY DEF IsWrite, Bit
  <2>2. w - j <= n - k
    BY <1>1, <1>5, <1>7
  <2> QED  BY <1>1, <1>5, <2>1, <2>2
<1>15. ASSUME tg_reg.op = "write" PROVE Bit(tg_reg.op # "none") = 1 /\ IsWrite(tg_reg) = 1 /\ w = n /\ j = k
  BY <1>1, <1>2, <1>5, <1>7, <1>15 DEF IsWrite, Bit
<1>16. ASSUME tg_reg.op # "write" PROVE IsWrite(tg_reg) = 0
  BY <1>16 DEF IsWrite, Bit
<1>17. ASSUME NEW i \in 1 .. w1 PROVE tg'[i] = WriteCmd(b, d1 + IsWrite(avl') + i - 1, T)
  <2>1. /\ i \in Nat /\ i >= 1 /\ i <= w1
        /\ c + j + i - 1 \in Nat /\ c + j + i - 1 < taken /\ d1 + IsWrite(avl') + i - 1 = c + j + i - 1
    BY <1>1, <1>12, <1>13
  <2>2. WriteCmd(b, c + j + i - 1, T) = WriteCmd(b, c + j + i - 1, S)
    BY <1>3, <2>1
  <2>3. CASE i <= w - j
    <3>1. i + k \in 1 .. w /\ i \in 1 .. n - k /\ j = k
      BY <1>1, <1>5, <2>1, <2>3
    <3>2. tg'[i] = WriteCmd(b, c + (i + k) - 1, S)
      BY <1>2, <1>5, <3>1
    <3>3. c + (i + k) - 1 = c + j + i - 1
      BY <1>1, <2>1, <3>1
    <3> QED  BY <2>1, <2>2, <3>2, <3>3
  <2>4. CASE ~(i <= w - j)
    <3>1. tg_reg.op = "write"
      BY <1>1, <1>16, <2>1, <2>4
    <3>2. i = Len(tg') /\ c + w = c + j + i - 1
      BY <1>1, <1>5, <1>15, <2>1, <2>4, <3>1
    <3>3. tg'[i] = WriteCmd(b, c + w, S)
      BY <1>2, <1>5, <3>1, <3>2
    <3> QED  BY <2>1, <2>2, <3>2, <3>3
  <2> QED  BY <2>3, <2>4
<1>18. ASSUME NEW i \in w1 + 1 .. Len(tg') PROVE tg'[i].op = "read"
  <2>1. i \in Nat /\ i > w1 /\ i <= Len(tg') /\ tg_reg.op # "write"
    <3>1. i \in Nat /\ i > w1 /\ i <= Len(tg')
      BY <1>13
    <3>2. ASSUME tg_reg.op = "write" PROVE w1 = Len(tg')
      BY <1>1, <1>5, <1>15, <3>2
    <3> QED  BY <1>13, <3>1, <3>2
  <2>2. i > w - j
    BY <1>1, <1>16, <2>1
  <2>3. CASE i <= n - k
    <3>1. i + k \in w + 1 .. n /\ i \in 1 .. n - k
      BY <1>1, <1>5, <2>1, <2>2, <2>3, SMTT(20)
    <3> QED  BY <1>2, <1>5, <3>1
  <2>4. CASE ~(i <= n - k)
    <3>1. tg_reg.op # "none" /\ i = Len(tg')
      BY <1>5, <2>1, <2>4 DEF Bit
    <3> QED  BY <1>5, <1>6, <2>1, <3>1
  <2> QED  BY <2>3, <2>4
<1>19. ASSUME avl'.op = "write" PROVE avl' = WriteCmd(b, d1, T)
  <2>1. CASE Issued(avl_ready)
    <3>1. w > 0 /\ avl' = WriteCmd(b, c, S) /\ c < taken
      BY <1>1, <1>10, <1>19, <2>1
    <3> QED  BY <1>1, <1>3, <1>8, <1>9, <2>1, <3>1
  <2>2. CASE ~Issued(avl_ready) /\ CanIssue(avl_ready)
    BY <1>5, <1>19, <2>2 DEF NoCmd
  <2>3. CASE ~CanIssue(avl_ready)
    <3>1. avl' = WriteCmd(b, d, S) /\ d < taken
      BY <1>2, <1>5, <1>19, <2>3, StoringFacts
    <3> QED  BY <1>3, <1>9, <2>3, <3>1
  <2> QED  BY <2>1, <2>2, <2>3
<1>20. ASSUME avl'.op = "read" PROVE Reading /\ w1 = 0
  <2>1. CASE Issued(avl_ready)
    <3>1. w = 0 /\ Reading /\ n > 0
      BY <1>1, <1>4, <1>5, <1>10, <1>20, <2>1
    <3>2. tg_reg.op # "write"
      BY <1>2, <3>1
    <3> QED  BY <1>1, <1>16, <3>1, <3>2
  <2>2. CASE ~Issued(avl_ready) /\ CanIssue(avl_ready)
    BY <1>5, <1>20, <2>2 DEF NoCmd
  <2>3. CASE ~CanIssue(avl_ready)
    <3>1. avl.op = "read" /\ w = 0 /\ tg_reg.op # "write"
      BY <1>2, <1>5, <1>20, <2>3
    <3> QED  BY <1>1, <1>16, <3>1 DEF Reading
  <2> QED  BY <2>1, <2>2, <2>3
<1>21. ASSUME ~Reading PROVE w1 = Len(tg')
  <2>1. \A i \in 1 .. n : tg[i].op # "read"
    BY <1>21 DEF Reading, n
  <2>2. tg_reg.op # "read"
    BY <1>21 DEF Reading
  <2>3. w = n
    <3>1. ASSUME w < n PROVE FALSE
      <4>1. n \in 1 .. n /\ n \in w + 1 .. n
        BY <1>1, <3>1
      <4> QED  BY <1>2, <2>1, <4>1
    <3> QED  BY <1>1, <3>1
  <2>4. IsWrite(tg_reg) = Bit(tg_reg.op # "none") /\ j = k
    BY <1>1, <1>5, <1>6, <1>7, <2>2, <2>3 DEF IsWrite, Bit
  <2> QED  BY <1>1, <1>5, <2>3, <2>4
<1>22. ASSUME NEW p, p = d1 + IsWrite(avl') PROVE WritesFirst(b, p, w1, T)'
  BY <1>17, <1>18, <1>22 DEF WritesFirst
<1> QED  BY <1>12, <1>13, <1>14, <1>19, <1>20, <1>21, <1>22

\* The memory in a step.
LEMMA StoringMemory ==
    ASSUME Types, NEW b \in Nat, NEW d \in Nat, NEW w \in Nat, NEW S \in SUBSET Nat,
           Storing(b, d, w, S), NEW T \in SUBSET Nat, Begins(T, S),
           NEW avl_ready \in BOOLEAN, NEW returns, Memory(avl_ready, returns),
           NEW d1 \in Nat, StoresTo(d1, d, avl_ready)
    PROVE  /\ beat'.size = Bit(d1 \in T) /\ (d1 \in T => beat'.addr = d1)
           /\ \A a \in 0 .. d1 - 1 : mem'[a] = b + a
<1>1. /\ taken \in Nat /\ taken < ADDRS /\ d <= taken /\ ADDRS \in Nat
  <2>1. /\ d + IsWrite(avl) + w + IsWrite(tg_reg) = taken
        /\ IsWrite(avl) \in {0, 1} /\ IsWrite(tg_reg) \in {0, 1}
        /\ taken \in Nat /\ taken < ADDRS
    BY StoringFacts
  <2> QED  BY <2>1, Constants
<1>2. \A p \in Nat : p <= taken => (p \in T <=> p \in S)
  BY <1>1 DEF Begins
<1>3. /\ beat.size = Bit(d \in S) /\ (d \in S => beat.addr = d)
      /\ \A a \in 0 .. d - 1 : mem[a] = b + a
      /\ \A p \in S : p + 1 \notin S
  BY DEF Storing, Seconds
<1>4. CASE ~(avl.op = "write" /\ avl_ready)
  <2>1. beat' = beat /\ mem' = mem /\ d1 = d
    BY <1>4 DEF Memory, Bit, StoresTo
  <2> QED  BY <1>1, <1>2, <1>3, <2>1 DEF Bit
<1>5. CASE avl.op = "write" /\ avl_ready
  <2>1. /\ d1 = d + 1 /\ At = d /\ avl.data = b + d /\ d < taken
        /\ avl.size = IF d \in S \/ d + 1 \in S THEN 2 ELSE 1
    BY <1>5, StoringFacts DEF Bit, StoresTo
  <2>2. /\ mem' = [mem EXCEPT ![At] = avl.data]
        /\ beat' = [addr |-> (At + 1) % ADDRS,
                    size |-> (IF beat.size = 0 THEN avl.size ELSE beat.size) - 1]
    BY <1>5 DEF Memory
  <2>3. d + 1 \in Places /\ d \in Places
    BY <1>1, <2>1 DEF Places
  <2>4. beat'.addr = d + 1
    <3>1. (d + 1) % ADDRS = d + 1
      BY <2>3, Mod DEF Places
    <3> QED  BY <2>1, <2>2, <3>1
  <2>5. beat'.size = Bit(d1 \in S)
    <3>1. beat'.size = (IF beat.size = 0 THEN avl.size ELSE beat.size) - 1
      BY <2>2
    <3>2. CASE d \in S
      <4>1. beat.size = 1 /\ d + 1 \notin S
        BY <1>3, <3>2 DEF Bit
      <4> QED  BY <2>1, <3>1, <4>1 DEF Bit
    <3>3. CASE d \notin S
      <4>1. beat.size = 0
        BY <1>3, <3>3 DEF Bit
      <4> QED  BY <2>1, <3>1, <3>3, <4>1 DEF Bit
    <3> QED  BY <3>2, <3>3
  <2>6. d1 \in T <=> d1 \in S
    BY <1>1, <1>2, <2>1
  <2>7. ASSUME NEW a \in 0 .. d1 - 1 PROVE mem'[a] = b + a
    <3>1. mem \in [Places -> Words] /\ a \in Places
      BY <1>1, <2>1 DEF Types, Places
    <3>2. mem'[a] = IF a = d THEN b + d ELSE mem[a]
      BY <2>1, <2>2, <2>3, <3>1
    <3>3. a # d => a \in 0 .. d - 1
      BY <2>1
    <3> QED  BY <1>3, <3>2, <3>3
  <2> QED  BY <2>1, <2>4, <2>5, <2>6, <2>7 DEF Bit
<1> QED  BY <1>4, <1>5

\* The places of second words when the player fetches a word.
LEMMA StoringFetch ==
    ASSUME Types, PromisesKept, NEW d \in Nat, NEW w \in Nat,
           NEW S \in SUBSET Nat, Storing(Word(0), d, w, S),
           NEW arrives, NEW avl_ready \in BOOLEAN, NEW returns, NEW drains,
           Tick(arrives, avl_ready, returns, drains),
           NEW T \in SUBSET Nat, Begins(T, S)
    PROVE  /\ taken' = taken + Bit(wdata_req)
           /\ Seconds(T)'
           /\ wdata_req => tg_in = WriteCmd(Word(0), taken, T)
<1>1. taken \in Nat /\ write_reg \in Bursts /\ tstate \in {"idle", "write_burst"} /\ do_write_reg \in BOOLEAN
  BY DEF Types
<1>2. taken' = taken + Bit(wdata_req)
  <2>1. taken' = IF wdata_req /\ ~infifo_rdempty THEN taken + 1 ELSE taken
    BY DEF Tick, InFifo
  <2>2. wdata_req => ~infifo_rdempty
    BY <1>1, Fetches DEF infifo_rdempty
  <2> QED  BY <1>1, <2>1, <2>2 DEF Bit
<1>3. /\ \A p \in S : p > 0 /\ p <= taken /\ p + 1 \notin S /\ p \in Nat
      /\ taken \in S <=> tstate = "write_burst"
  BY DEF Storing, Seconds
<1>4. /\ ~TgFull /\ tstate = "idle" /\ do_write_reg /\ write_reg.size > 1 => tstate' = "write_burst"
      /\ ~TgFull /\ tstate = "write_burst" => tstate' = "idle"
      /\ TgFull => tstate' = tstate
      /\ tstate = "idle" /\ ~(do_write_reg /\ write_reg.size > 1) => tstate' = "idle"
  BY DEF Tick, TgFsm
<1>5. wdata_req <=> ~TgFull /\ (tstate = "write_burst" \/ do_write_reg)
  BY DEF wdata_req
<1>6. wdata_req => taken < ADDRS /\ taken \in Places /\ Word(taken) = Word(0) + taken
  <2>1. wdata_req => taken < sent
    BY Fetches
  <2>2. wdata_req => taken \in Places
    BY <1>1, <2>1, Constants DEF Types, Places
  <2> QED  BY <1>1, <2>2, Constants, WordsAre DEF Types, Places
<1>7. CASE wdata_req /\ tstate = "idle" /\ write_reg.size = 2
  <2>1. T = S \union {taken + 1} /\ taken \notin S /\ taken' = taken + 1 /\ tstate' = "write_burst"
    BY <1>1, <1>2, <1>3, <1>4, <1>5, <1>7 DEF Bit, Begins
  <2>2. \A p \in T : p > 0 /\ p <= taken' /\ p + 1 \notin T
    BY <1>1, <1>3, <2>1
  <2>3. tg_in = Cmd("write", [addr |-> taken, size |-> 2], Word(0) + taken)
    BY <1>6, <1>7, Fetches
  <2>4. taken \notin T /\ taken + 1 \in T
    BY <1>1, <2>1
  <2>5. tg_in = WriteCmd(Word(0), taken, T)
    BY <2>3, <2>4 DEF WriteCmd
  <2> QED  BY <1>2, <2>1, <2>2, <2>4, <2>5 DEF Seconds
<1>8. CASE wdata_req /\ tstate = "idle" /\ write_reg.size # 2
  <2>1. write_reg.size = 1
    BY <1>5, <1>8 DEF PromisesKept
  <2>2. T = S /\ taken \notin S /\ taken' = taken + 1 /\ tstate' = "idle" /\ taken + 1 \notin S
    BY <1>1, <1>2, <1>3, <1>4, <1>8, <2>1 DEF Bit, Begins
  <2>3. \A p \in T : p > 0 /\ p <= taken' /\ p + 1 \notin T
    BY <1>1, <1>3, <2>2
  <2>4. tg_in = Cmd("write", [addr |-> taken, size |-> 1], Word(0) + taken)
    BY <1>6, <1>8, <2>1, Fetches
  <2>5. tg_in = WriteCmd(Word(0), taken, T)
    BY <2>2, <2>4 DEF WriteCmd
  <2> QED  BY <1>2, <2>2, <2>3, <2>5 DEF Seconds
<1>9. CASE wdata_req /\ tstate = "write_burst"
  <2>1. T = S /\ taken \in S /\ taken' = taken + 1 /\ tstate' = "idle" /\ taken + 1 \notin S
    BY <1>1, <1>2, <1>3, <1>4, <1>5, <1>9 DEF Bit, Begins
  <2>2. \A p \in T : p > 0 /\ p <= taken' /\ p + 1 \notin T
    BY <1>1, <1>3, <2>1
  <2>3. tg_in = Cmd("write", [addr |-> taken - 1, size |-> 2], Word(0) + taken)
    BY <1>6, <1>9, Fetches
  <2>4. tg_in = WriteCmd(Word(0), taken, T)
    BY <2>1, <2>3 DEF WriteCmd
  <2> QED  BY <1>2, <2>1, <2>2, <2>4 DEF Seconds
<1>10. CASE ~wdata_req
  <2>1. T = S /\ taken' = taken
    BY <1>1, <1>2, <1>10 DEF Bit, Begins
  <2>2. tstate' = tstate
    BY <1>1, <1>4, <1>5, <1>10
  <2> QED  BY <1>2, <1>3, <1>10, <2>1, <2>2 DEF Seconds
<1> QED  BY <1>1, <1>7, <1>8, <1>9, <1>10

LEMMA StoresStep ==
    ASSUME Types, PromisesKept, CountsKnown, ReadsLast, Stores,
           NEW arrives, NEW avl_ready \in BOOLEAN, NEW returns, NEW drains,
           Tick(arrives, avl_ready, returns, drains)
    PROVE  Stores'
<1>1. PICK d, w \in Nat, S \in SUBSET Nat : Storing(Word(0), d, w, S)
  BY DEF Stores
<1>2. PICK b \in Nat : b = Word(0)
  BY WordsAre DEF Types
<1>3. Storing(b, d, w, S)
  BY <1>1, <1>2
<1>4. Word(0)' = b
  BY <1>2 DEF Tick, ctlVars, Word
<1>5. PICK U \in SUBSET Nat : Begins(U, S)
  <2>1. taken + 1 \in Nat
    BY DEF Types
  <2>2. S \union {taken + 1} \in SUBSET Nat /\ S \in SUBSET Nat
    BY <2>1
  <2> QED  BY <2>2 DEF Begins
<1>7. PICK d1 \in Nat : StoresTo(d1, d, avl_ready)
  BY DEF Bit, StoresTo
<1>8. PICK w1 : WaitTo(w1, w, avl_ready)
  BY DEF WaitTo
<1>9. TgFifo(avl_ready) /\ Memory(avl_ready, returns)
  BY DEF Tick
<1>10. /\ taken' = taken + Bit(wdata_req) /\ Seconds(U)'
       /\ wdata_req => tg_in = WriteCmd(b, taken, U)
  BY <1>1, <1>2, <1>5, StoringFetch, SMTT(30)
<1>11. /\ w1 \in Nat /\ w1 <= Len(tg')
       /\ IsWrite(avl') \in {0, 1} /\ d1 + IsWrite(avl') + w1 = taken
       /\ \A p : p = d1 + IsWrite(avl') => WritesFirst(b, p, w1, U)'
       /\ avl'.op = "write" => avl' = WriteCmd(b, d1, U)
       /\ avl'.op = "read" => Reading /\ w1 = 0
       /\ ~Reading => w1 = Len(tg')
  BY <1>3, <1>5, <1>7, <1>8, <1>9, StoringFifo, SMTT(60)
<1>12. /\ beat'.size = Bit(d1 \in U) /\ (d1 \in U => beat'.addr = d1)
       /\ \A a \in 0 .. d1 - 1 : mem'[a] = b + a
  BY <1>3, <1>5, <1>7, <1>9, StoringMemory, SMTT(60)
<1>13. tg_reg' = tg_in /\ (tg_in.op = "write" <=> wdata_req)
  BY <1>9, Fetches, TgMoves
<1>14. wdata_req => ~Reading
  BY DEF ReadsLast, wdata_req
<1>15. IsWrite(tg_reg') = Bit(wdata_req)
  BY <1>13 DEF IsWrite, Bit
<1>16. Storing(b, d1, w1, U)'
  <2>1. d1 + IsWrite(avl') + w1 + IsWrite(tg_reg') = taken' /\ w1 <= Len(tg')
    BY <1>10, <1>11, <1>15
  <2>2. avl'.op = "read" => w1 = 0 /\ tg_reg'.op # "write"
    BY <1>11, <1>13, <1>14
  <2>3. tg_reg'.op = "write" => tg_reg' = WriteCmd(b, d1 + IsWrite(avl') + w1, U) /\ w1 = Len(tg')
    BY <1>10, <1>11, <1>13, <1>14
  <2>4. PICK p : p = d1 + IsWrite(avl')
    OBVIOUS
  <2>5. WritesFirst(b, p, w1, U)'
    BY <1>11, <2>4
  <2>6. /\ \A i \in 1 .. w1 : tg'[i] = WriteCmd(b, d1 + IsWrite(avl') + i - 1, U)
        /\ \A i \in w1 + 1 .. Len(tg') : tg'[i].op = "read"
    BY <2>4, <2>5 DEF WritesFirst
  <2> QED  BY <1>10, <1>11, <1>12, <2>1, <2>2, <2>3, <2>6 DEF Storing
<1> QED  BY <1>4, <1>11, <1>16 DEF Stores

-----------------------------------------------------------------------------
(* Types.                                                                  *)

\* The words that the memory sends back when it takes a read.
Read(avl_ready) ==
    IF avl.op = "read" /\ avl_ready
    THEN [i \in 1 .. avl.size |-> mem[(avl.addr + i - 1) % ADDRS]] ELSE <<>>
Left(returns) == IF returns THEN Tail(returning) ELSE returning

LEMMA ReturningMoves ==
    ASSUME Types, NEW avl_ready \in BOOLEAN, NEW returns \in BOOLEAN, returns => returning # <<>>,
           Memory(avl_ready, returns)
    PROVE  /\ returning' = Left(returns) \o Read(avl_ready) /\ returning' \in Seq(Words)
           /\ Left(returns) \in Seq(Words) /\ Read(avl_ready) \in Seq(Words)
           /\ Len(returning) \in Nat /\ Len(Left(returns)) = Len(returning) - Bit(returns)
           /\ Len(Read(avl_ready)) = IF avl.op = "read" /\ avl_ready THEN avl.size ELSE 0
           /\ Len(returning') = Len(Left(returns)) + Len(Read(avl_ready))
           /\ returns => Head(returning) = returning[1] /\ Head(returning) \in Words
<1>1. returning \in Seq(Words) /\ Len(returning) \in Nat
  BY LenProperties DEF Types
<1>2. returns => /\ Tail(returning) \in Seq(Words) /\ Len(Tail(returning)) = Len(returning) - 1
                 /\ Head(returning) = returning[1] /\ Head(returning) \in Words
  BY <1>1, HeadTailProperties
<1>3. Left(returns) \in Seq(Words) /\ Len(Left(returns)) = Len(returning) - Bit(returns)
  BY <1>1, <1>2 DEF Left, Bit
<1>4. /\ Read(avl_ready) \in Seq(Words)
      /\ Len(Read(avl_ready)) = IF avl.op = "read" /\ avl_ready THEN avl.size ELSE 0
  <2>1. CASE avl.op = "read" /\ avl_ready
    <3>1. avl.size \in Nat /\ avl.addr \in Int /\ mem \in [Places -> Words]
      BY Constants DEF Types, Cmds, Places
    <3>2. \A i \in 1 .. avl.size : mem[(avl.addr + i - 1) % ADDRS] \in Words
      <4>1. ASSUME NEW i \in 1 .. avl.size PROVE mem[(avl.addr + i - 1) % ADDRS] \in Words
        <5>1. (avl.addr + i - 1) % ADDRS \in Places
          BY <3>1, Mod
        <5> QED  BY <3>1, <5>1
      <4> QED  BY <4>1
    <3>3. [i \in 1 .. avl.size |-> mem[(avl.addr + i - 1) % ADDRS]] \in [1 .. avl.size -> Words]
      BY <3>2
    <3>4. Read(avl_ready) \in [1 .. avl.size -> Words]
      BY <2>1, <3>3 DEF Read
    <3>5. Read(avl_ready) \in Seq(Words) /\ DOMAIN Read(avl_ready) = 1 .. avl.size
      BY <3>1, <3>4, SeqDef
    <3>6. Len(Read(avl_ready)) \in Nat /\ 1 .. Len(Read(avl_ready)) = 1 .. avl.size
      BY <3>5, LenProperties
    <3>7. \A m, n \in Nat : 1 .. m = 1 .. n => m = n
      OBVIOUS
    <3> QED  BY <2>1, <3>1, <3>5, <3>6, <3>7
  <2>2. CASE ~(avl.op = "read" /\ avl_ready)
    <3>1. Read(avl_ready) = <<>>
      BY <2>2 DEF Read
    <3> QED  BY <2>2, <3>1, EmptySeq
  <2> QED  BY <2>1, <2>2
<1>5. returning' = Left(returns) \o Read(avl_ready)
  BY DEF Memory, Left, Read
<1> QED  BY <1>1, <1>2, <1>3, <1>4, <1>5, ConcatProperties

LEMMA TypesStep ==
    ASSUME Types, PromisesKept, CountsKnown, BurstsPromised, Stores,
           NEW arrives \in BOOLEAN, NEW avl_ready \in BOOLEAN, NEW returns \in BOOLEAN,
           NEW drains \in BOOLEAN, Tick(arrives, avl_ready, returns, drains)
    PROVE  Types'
<1> USE Constants
<1>1. load' \in BOOLEAN /\ play' \in BOOLEAN /\ loads' \in 0 .. LOADS
  BY DEF Types, Tick, ctlVars
<1>2. sent' \in 0 .. MAX_WORDS /\ taken' \in 0 .. sent' /\ rdusedw' \in 0 .. MAX_WORDS
  <2>1. sent' = (IF arrives THEN sent + 1 ELSE sent) /\ (arrives => sent < MAX_WORDS)
    BY DEF Tick, InFifo
  <2>2. sent' \in 0 .. MAX_WORDS
    BY <2>1 DEF Types
  <2>3. /\ sent \in Nat /\ taken \in Nat /\ sent <= sent' /\ taken' \in Nat /\ taken' <= sent
        /\ rdusedw' \in {sent - taken, sent' - taken'} /\ rdusedw' \in Nat
    BY CountMoves DEF Types
  <2>4. PICK s1, t1 \in Nat : s1 = sent' /\ t1 = taken' /\ s1 <= MAX_WORDS
    BY <2>2, <2>3
  <2>5. rdusedw' = sent - taken \/ rdusedw' = s1 - t1
    BY <2>3, <2>4
  <2>6. sent \in Nat /\ taken \in Nat /\ sent <= s1 /\ s1 \in Nat /\ t1 \in Nat /\ s1 <= MAX_WORDS
    BY <2>3, <2>4
  <2>7. sent - taken <= MAX_WORDS /\ s1 - t1 <= MAX_WORDS
    BY <2>6
  <2>8. rdusedw' <= MAX_WORDS
    BY <2>5, <2>7
  <2> QED  BY <2>2, <2>3, <2>8
<1>3. fsm' \in {"idle", "check_wfm_infifo", "do_write", "do_burst_write", "do_write_idle",
                "check_wfm_outfifo", "do_read"}
  BY DEF Tick, WfmFsm, Goes
<1>4. burst_cnt_max' \in 0 .. MAX_WORDS \div 2 /\ burst_wr_cnt' \in Nat /\ idle_cnt' \in Nat
  <2>1. burst_cnt_max' \in 0 .. MAX_WORDS \div 2
    <3>1. burst_cnt_max' = rdusedw \div 2 /\ rdusedw \in 0 .. MAX_WORDS
      BY DEF Tick, BurstCounts, Types
    <3> QED  BY <3>1
  <2>2. burst_wr_cnt' \in Nat /\ idle_cnt' \in Nat
    <3>1. /\ burst_wr_cnt' \in {burst_wr_cnt + 1, burst_wr_cnt, 0}
          /\ idle_cnt' \in {idle_cnt + 1, 0}
      <4>1. BurstCounts
        BY DEF Tick
      <4>2. fsm = "do_burst_write" \/ fsm # "do_burst_write"
        OBVIOUS
      <4>3. ready \/ ~ready
        OBVIOUS
      <4> QED  BY <4>1, <4>2, <4>3 DEF BurstCounts
    <3> QED  BY <3>1 DEF Types
  <2> QED  BY <2>1, <2>2
<1>5. /\ write_addr' \in Places /\ write_max_words' \in Places
      /\ read_addr' \in Places /\ read_max_addr' \in Places /\ read_burst_max_addr' \in Places
  <2>1. /\ write_addr \in Places /\ write_max_words \in Places /\ read_addr \in Places
        /\ write_addr \in Int /\ write_max_words \in Int /\ read_addr \in Int /\ 0 \in Places
    BY DEF Types, Places
  <2>2. /\ write_addr' = (write_addr + WriteSize) % ADDRS \/ write_addr' = write_addr
        /\ write_max_words' = (write_max_words + 1) % ADDRS \/ write_max_words' = write_max_words
    BY DEF Tick, WriteRegs, WrittenWords
  <2>3. /\ read_max_addr' = (write_max_words - 1) % ADDRS
        /\ read_burst_max_addr' = (write_max_words - 2) % ADDRS
        /\ read_addr' \in {0, read_addr, (read_addr + 2) % ADDRS}
    BY DEF Tick, ReadRegs, NextReadAddr
  <2>4. /\ (write_addr + WriteSize) % ADDRS \in Places /\ (write_max_words + 1) % ADDRS \in Places
        /\ (write_max_words - 1) % ADDRS \in Places /\ (write_max_words - 2) % ADDRS \in Places
        /\ (read_addr + 2) % ADDRS \in Places
    <3>1. WriteSize \in Int
      BY DEF WriteSize
    <3>2. /\ write_addr + WriteSize \in Int /\ write_max_words + 1 \in Int
          /\ write_max_words - 1 \in Int /\ write_max_words - 2 \in Int /\ read_addr + 2 \in Int
      BY <2>1, <3>1
    <3>3. \A n \in Int : n % ADDRS \in Places
      BY Mod
    <3> QED  BY <3>2, <3>3
  <2> QED  BY <2>1, <2>2, <2>3, <2>4
<1>6. tstate' \in {"idle", "write_burst"} /\ do_write_reg' \in BOOLEAN /\ do_read_reg' \in BOOLEAN
  <2>1. tstate' \in {"idle", "write_burst"}
    BY DEF Tick, TgFsm, Types
  <2>2. Writes \in BOOLEAN /\ Reads \in BOOLEAN
    BY DEF Writes, Reads
  <2>3. do_write_reg' \in BOOLEAN
    BY <2>2 DEF Tick, TgInputs, Types
  <2>4. do_read_reg' \in BOOLEAN
    BY <2>2 DEF Tick, TgInputs, Types
  <2> QED  BY <2>1, <2>3, <2>4
<1>7. write_reg' \in Bursts /\ read_reg' \in Bursts /\ last_write' \in Bursts
  <2>1. [addr |-> write_addr, size |-> WriteSize] \in Bursts /\ [addr |-> read_addr, size |-> ReadSize] \in Bursts
    BY DEF Bursts, Types, WriteSize, ReadSize
  <2>2. write_reg \in Bursts /\ read_reg \in Bursts /\ last_write \in Bursts
    BY DEF Types
  <2>3. /\ write_reg' \in {write_reg, [addr |-> write_addr, size |-> WriteSize]}
        /\ read_reg' \in {read_reg, [addr |-> read_addr, size |-> ReadSize]}
        /\ last_write' \in {last_write, write_reg}
    BY DEF Tick, TgInputs
  <2> QED  BY <2>1, <2>2, <2>3
<1>8. tg_reg' \in Cmds /\ tg' \in Seq(Cmds) /\ avl' \in Cmds
  <2>1. TgFifo(avl_ready)
    BY DEF Tick
  <2>2. NoCmd \in Cmds
    BY DEF NoCmd, Cmds, Words, Places
  <2>3. wdata \in Words
    <3>1. taken \in Places /\ loads \in 0 .. LOADS
      BY DEF Types, Places
    <3>2. Word(taken) \in Words
      BY <3>1, WordsAre
    <3>3. Junk \in Words
      BY DEF Words
    <3> QED  BY <3>2, <3>3 DEF wdata
  <2>4. tg_in \in Cmds
    <3>1. write_reg \in Bursts /\ last_write \in Bursts /\ read_reg \in Bursts /\ NoWord \in Words
      BY DEF Types, Words
    <3>2. \A burst \in Bursts, data \in Words : Cmd("write", burst, data) \in Cmds /\ Cmd("read", burst, data) \in Cmds
      BY DEF Cmd, Cmds, Bursts
    <3>3. tg_in \in {Cmd("write", write_reg, wdata), Cmd("write", last_write, wdata), Cmd("read", read_reg, NoWord), NoCmd}
      BY DEF tg_in
    <3> QED  BY <2>2, <2>3, <3>1, <3>2, <3>3
  <2>5. avl' \in Cmds
    <3>1. Len(tg) > 0 => tg[1] \in Cmds
      BY LenProperties, ElementOfSeq DEF Types
    <3> QED  BY <2>1, <2>2, <3>1, TgMoves DEF Types
  <2> QED  BY <2>1, <2>4, <2>5, TgMoves
<1>9. stall' \in 0 .. STALL /\ mem' \in [Places -> Words]
  <2>1. Memory(avl_ready, returns)
    BY DEF Tick
  <2>2. stall' \in 0 .. STALL
    <3>1. stall' = 0 \/ stall' = stall \/ (stall < STALL /\ stall' = stall + 1)
      BY <2>1 DEF Memory
    <3> QED  BY <3>1 DEF Types
  <2>3. mem \in [Places -> Words] /\ avl.data \in Words
    BY DEF Types, Cmds
  <2>4. mem' = mem \/ mem' = [mem EXCEPT ![At] = avl.data]
    BY <2>1 DEF Memory
  <2> QED  BY <2>2, <2>3, <2>4
<1>10. beat' \in Bursts
  <2>1. PICK d, w \in Nat, S \in SUBSET Nat : Storing(Word(0), d, w, S)
    BY DEF Stores
  <2>2. avl.op = "write" => avl.size \in {1, 2}
    <3>1. Word(0) \in Nat
      BY WordsAre DEF Types
    <3> QED  BY <2>1, <3>1, StoringFacts
  <2>3. beat' = beat \/ (avl.op = "write" /\ beat' = [addr |-> (At + 1) % ADDRS,
                            size |-> (IF beat.size = 0 THEN avl.size ELSE beat.size) - 1])
    BY DEF Tick, Memory
  <2>4. At + 1 \in Int /\ beat \in Bursts /\ beat.size \in 0 .. 2
    BY DEF At, Types, Cmds, Bursts, Places
  <2>5. (At + 1) % ADDRS \in Places
    BY <2>4, Mod
  <2> QED  BY <2>2, <2>3, <2>4, <2>5 DEF Bursts
<1>11. returning' \in Seq(Words)
  BY ReturningMoves DEF Tick
<1>12. half' \in Words /\ pair' \in Words \X Words /\ pair_reg' \in Words \X Words
  <2>1. /\ Unpack(returns) /\ (returns => Head(returning) \in Words)
    BY ReturningMoves DEF Tick
  <2>2. NoWord \in Words /\ NoPair \in Words \X Words /\ half \in Words /\ pair \in Words \X Words
    BY DEF NoPair, Words, Types
  <2> QED  BY <2>1, <2>2 DEF Unpack
<1>13. out_used' \in Nat /\ wrusedw' \in Nat /\ heard' \in Words
  <2>1. OutFifo(drains) /\ (drains => out_used > 0)
    BY DEF Tick
  <2>2. out_used \in Nat /\ pair_reg \in Words \X Words /\ heard \in Words /\ NoWord \in Words
    BY DEF Types, Words
  <2>3. out_used' \in Nat /\ wrusedw' \in Nat
    BY <2>1, <2>2 DEF OutFifo
  <2>4. heard' \in Words
    BY <2>1, <2>2 DEF OutFifo
  <2> QED  BY <2>3, <2>4
<1> QED  BY <1>1, <1>2, <1>3, <1>4, <1>5, <1>6, <1>7, <1>8, <1>9, <1>10, <1>11, <1>12, <1>13 DEF Types

-----------------------------------------------------------------------------
(* WriteSide is an invariant.                                              *)

\* The player when it is reset, and when it begins, has nothing to do.
LEMMA ResetFacts ==
    ASSUME PlayerReset, sent' = 0, taken' = 0, rdusedw' = 0, beat'.size = 0
    PROVE  PromisesKept' /\ CountsKnown' /\ BurstsPromised' /\ ReadsLast' /\ Stores'
<1> USE DEF PlayerReset
<1>1. PromisesKept'
  BY DEF PromisesKept, Due, Bit
<1>2. CountsKnown'
  BY DEF CountsKnown
<1>3. BurstsPromised'
  BY DEF BurstsPromised
<1>4. Len(tg') = 0 /\ avl'.op = "none" /\ tg_reg'.op = "none"
  BY EmptySeq DEF NoCmd
<1>5. ReadsLast'
  BY <1>4 DEF ReadsLast, Reading
<1>6. Storing(Word(0), 0, 0, {})'
  <2>1. Seconds({})'
    BY DEF Seconds
  <2>2. IsWrite(avl') = 0 /\ IsWrite(tg_reg') = 0 /\ Bit(0 \in {}) = 0
    BY <1>4 DEF IsWrite, Bit
  <2> QED  BY <1>4, <2>1, <2>2 DEF Storing
<1>7. 0 \in Nat /\ {} \in SUBSET Nat
  OBVIOUS
<1> QED  BY <1>1, <1>2, <1>3, <1>5, <1>6, <1>7 DEF Stores

LEMMA InitWriteSide == Init => WriteSide
<1> SUFFICES ASSUME Init PROVE WriteSide
  OBVIOUS
<1> USE DEF Init
<1>1. Types
  <2>1. NoWord \in Words /\ Junk \in Words /\ 0 \in Places
    BY Constants DEF Words, Places
  <2>2. NoCmd \in Cmds /\ NoBurst \in Bursts /\ NoPair \in Words \X Words
    BY <2>1 DEF NoCmd, Cmds, NoBurst, Bursts, NoPair
  <2>3. mem \in [Places -> Words]
    BY <2>1 DEF Places
  <2>4. burst_cnt_max \in 0 .. MAX_WORDS \div 2
    BY Constants
  <2> QED  BY <2>1, <2>2, <2>3, <2>4, Constants, EmptySeq DEF Types
<1>2. PromisesKept
  BY DEF PromisesKept, Due, Bit
<1>3. CountsKnown /\ BurstsPromised
  BY DEF CountsKnown, BurstsPromised
<1>4. Len(tg) = 0 /\ avl.op = "none" /\ tg_reg.op = "none" /\ beat.size = 0
  BY EmptySeq DEF NoCmd, NoBurst
<1>5. ReadsLast
  BY <1>4 DEF ReadsLast, Reading
<1>6. Storing(Word(0), 0, 0, {})
  <2>1. Seconds({})
    BY DEF Seconds
  <2>2. IsWrite(avl) = 0 /\ IsWrite(tg_reg) = 0 /\ Bit(0 \in {}) = 0
    BY <1>4 DEF IsWrite, Bit
  <2> QED  BY <1>4, <2>1, <2>2 DEF Storing
<1>7. 0 \in Nat /\ {} \in SUBSET Nat
  OBVIOUS
<1> QED  BY <1>1, <1>2, <1>3, <1>5, <1>6, <1>7 DEF Stores, WriteSide

LEMMA LoadWriteSide == ASSUME WriteSide, Load PROVE WriteSide'
<1>1. sent' = 0 /\ taken' = 0 /\ rdusedw' = 0 /\ beat' = beat /\ beat.size = 0 /\ PlayerReset
  BY DEF Load, NoWrites, memVars
<1>2. PromisesKept' /\ CountsKnown' /\ BurstsPromised' /\ ReadsLast' /\ Stores'
  BY <1>1, ResetFacts
<1>3. Types'
  <2>1. NoCmd \in Cmds /\ NoBurst \in Bursts /\ 0 \in Places
    BY Constants DEF NoCmd, Cmds, NoBurst, Bursts, Words, Places
  <2>2. load' \in BOOLEAN /\ play' \in BOOLEAN /\ loads' \in 0 .. LOADS
    <3>1. load' = TRUE /\ play' = FALSE /\ loads' = loads + 1 /\ loads < LOADS
      BY DEF Load
    <3>2. loads \in Nat
      BY DEF WriteSide, Types
    <3>3. loads + 1 \in 0 .. LOADS
      BY <3>1, <3>2, Constants
    <3> QED  BY <3>1, <3>3
  <2>3. burst_cnt_max' \in 0 .. MAX_WORDS \div 2
    BY Constants DEF Load, PlayerReset
  <2>4. tg' \in Seq(Cmds)
    BY EmptySeq DEF Load, PlayerReset
  <2>5. UNCHANGED <<memVars, outVars>>
    BY DEF Load
  <2> QED  BY <1>1, <2>1, <2>2, <2>3, <2>4, <2>5, Constants
            DEF PlayerReset, WriteSide, Types, memVars, outVars
<1> QED  BY <1>2, <1>3 DEF WriteSide

\* The write side depends on play and load only in that reads do not begin
\* while a waveform is loaded.
LEMMA KeptWriteSide ==
    ASSUME WriteSide, UNCHANGED <<loads, inVars, fsmVars, tgVars, memVars, outVars>>,
           load' \in BOOLEAN, play' \in BOOLEAN, load' => load
    PROVE  WriteSide'
<1> USE DEF inVars, fsmVars, tgVars, memVars, outVars
<1>1. Types'
  BY DEF WriteSide, Types
<1>2. PromisesKept' /\ CountsKnown' /\ BurstsPromised'
  BY DEF WriteSide, PromisesKept, Due, Bit, CountsKnown, BurstsPromised
<1>3. ReadsLast'
  BY DEF WriteSide, ReadsLast, Reading
<1>4. Stores'
  <2>1. PICK d, w \in Nat, S \in SUBSET Nat : Storing(Word(0), d, w, S)
    BY DEF WriteSide, Stores
  <2>2. Seconds(S)' <=> Seconds(S)
    BY DEF Seconds
  <2>3. Storing(Word(0), d, w, S)'
    BY <2>1, <2>2 DEF Storing, Word
  <2> QED  BY <2>3 DEF Stores
<1> QED  BY <1>1, <1>2, <1>3, <1>4 DEF WriteSide

LEMMA NextWriteSide ==
    ASSUME WriteSide, WritesSettle, [Next]_vars
    PROVE  WriteSide'
<1>1. ASSUME NEW arrives \in BOOLEAN, NEW avl_ready \in BOOLEAN, NEW returns \in BOOLEAN,
             NEW drains \in BOOLEAN, Tick(arrives, avl_ready, returns, drains)
      PROVE  WriteSide'
  <2>1. Types /\ PromisesKept /\ CountsKnown /\ BurstsPromised /\ ReadsLast /\ Stores
    BY DEF WriteSide
  <2>2. Types'
    BY <1>1, <2>1, TypesStep
  <2>3. PromisesKept' /\ CountsKnown' /\ BurstsPromised'
    BY <1>1, <2>1, PromisesStep, CountsStep, BurstsStep
  <2>4. ReadsLast' /\ Stores'
    BY <1>1, <2>1, ReadsLastStep, StoresStep
  <2> QED  BY <2>2, <2>3, <2>4 DEF WriteSide
<1>2. ASSUME Play \/ Stop \/ UNCHANGED vars PROVE WriteSide'
  <2>1. UNCHANGED <<loads, inVars, fsmVars, tgVars, memVars, outVars>>
    BY <1>2 DEF Play, Stop, vars, ctlVars
  <2>2. load' \in BOOLEAN /\ play' \in BOOLEAN /\ (load' => load)
    <3>1. load \in BOOLEAN /\ play \in BOOLEAN
      BY DEF WriteSide, Types
    <3>2. CASE Play
      BY <3>2 DEF Play
    <3>3. CASE Stop
      BY <3>1, <3>3 DEF Stop
    <3>4. CASE UNCHANGED vars
      BY <3>1, <3>4 DEF vars, ctlVars
    <3> QED  BY <1>2, <3>2, <3>3, <3>4
  <2> QED  BY <2>1, <2>2, KeptWriteSide
<1> QED  BY <1>1, <1>2, LoadWriteSide DEF Next

-----------------------------------------------------------------------------
(* What follows of the writes.                                             *)

\* write_max_words counts the words that were taken from the input FIFO.
THEOREM WordsAreCounted == Spec /\ []WritesSettle => []CountsWords
<1>1. WriteSide => CountsWords
  BY DEF WriteSide, PromisesKept, CountsWords
<1> QED  BY <1>1, InitWriteSide, NextWriteSide, PTL DEF Spec

\* Each beat that goes to the memory carries the word of its address.
THEOREM WordsStoredInOrder == Spec /\ []WritesSettle => []StoresInOrder
<1>1. WriteSide => StoresInOrder
  <2> SUFFICES ASSUME WriteSide, avl.op = "write" PROVE avl.data = Word(At)
    BY DEF StoresInOrder
  <2>1. Types
    BY DEF WriteSide
  <2>2. PICK d, w \in Nat, S \in SUBSET Nat : Storing(Word(0), d, w, S)
    BY DEF WriteSide, Stores
  <2>3. At = d /\ avl.data = Word(0) + d /\ d < taken
    BY <2>1, <2>2, StoringFacts, WordsAre DEF Types
  <2>4. d \in Places
    BY <2>1, <2>3, Constants DEF Types, Places
  <2> QED  BY <2>1, <2>3, <2>4, WordsAre DEF Types
<1> QED  BY <1>1, InitWriteSide, NextWriteSide, PTL DEF Spec

\* How far avalon_traffic_gen is with the last write when wfm_player waits, if
\* it finds room for each of its commands.
WaitSettles ==
    /\ tstate \in {"idle", "write_burst"}
    /\ fsm = "do_write_idle" =>
        \/ idle_cnt = 0
        \/ idle_cnt = 1 /\ ~(do_write_reg /\ tstate = "write_burst")
        \/ idle_cnt = 2 /\ ~do_write_reg
        \/ idle_cnt \in Nat /\ idle_cnt > 2 /\ ~do_write_reg /\ tstate = "idle"

\* Each edge of the wait brings the last write one step closer to its end.
LEMMA NextWaitSettles ==
    ASSUME WaitSettles, WritesFindRoom, [Next]_vars
    PROVE  WaitSettles'
<1>1. ASSUME NEW arrives, NEW avl_ready, NEW returns, NEW drains,
             Tick(arrives, avl_ready, returns, drains)
      PROVE  WaitSettles'
  <2>1. /\ tstate' \in {"idle", "write_burst"} /\ tstate \in {"idle", "write_burst"}
        /\ ~TgFull /\ tstate = "write_burst" => tstate' = "idle"
        /\ tstate = "idle" /\ ~do_write_reg => tstate' = "idle"
    <3>1. tstate \in {"idle", "write_burst"}
      BY DEF WaitSettles
    <3>2. /\ tstate' \in {"idle", "write_burst", tstate}
          /\ ~TgFull /\ tstate = "write_burst" => tstate' = "idle"
          /\ tstate = "idle" /\ ~do_write_reg => tstate' = "idle"
      BY <1>1 DEF Tick, TgFsm
    <3> QED  BY <3>1, <3>2
  <2>2. /\ fsm = "do_write_idle" => idle_cnt' = idle_cnt + 1
        /\ fsm # "do_write_idle" => idle_cnt' = 0
    BY <1>1 DEF Tick, BurstCounts
  <2>3. fsm = "do_write_idle" => ~Writes
    BY DEF Writes
  <2>4. /\ ~do_write_reg => ~do_write_reg' \/ Writes
        /\ ~TgFull /\ tstate = "idle" => ~do_write_reg' \/ Writes
    <3>1. do_write_reg' = IF ready THEN Writes ELSE do_write_reg
      BY <1>1 DEF Tick, TgInputs
    <3>2. ~do_write_reg => (ready \/ ~do_write_reg')
      BY <3>1
    <3>3. ~TgFull /\ tstate = "idle" => ready
      BY DEF ready
    <3> QED  BY <3>1, <3>2, <3>3, Zenon
  <2>5. do_write_reg \/ tstate = "write_burst" => ~TgFull
    BY DEF WritesFindRoom
  <2>6. CASE fsm = "do_write_idle"
    <3>1. /\ ~do_write_reg => ~do_write_reg'
          /\ tstate = "idle" => ~do_write_reg'
          /\ tstate = "write_burst" => tstate' = "idle"
          /\ tstate = "idle" /\ ~do_write_reg => tstate' = "idle"
      BY <2>1, <2>3, <2>4, <2>5, <2>6, Zenon
    <3>2. idle_cnt' = idle_cnt + 1
      BY <2>2, <2>6
    <3>3. CASE idle_cnt = 0
      <4>1. ~(do_write_reg' /\ tstate' = "write_burst")
        BY <2>1, <3>1, Zenon
      <4>2. idle_cnt' = 1
        BY <3>2, <3>3
      <4> QED  BY <2>1, <4>1, <4>2 DEF WaitSettles
    <3>4. CASE idle_cnt = 1 /\ ~(do_write_reg /\ tstate = "write_burst")
      <4>1. ~do_write_reg'
        BY <2>1, <3>1, <3>4, Zenon
      <4>2. idle_cnt' = 2
        BY <3>2, <3>4
      <4> QED  BY <2>1, <4>1, <4>2 DEF WaitSettles
    <3>5. CASE idle_cnt = 2 /\ ~do_write_reg
      <4>1. ~do_write_reg' /\ tstate' = "idle"
        BY <2>1, <3>1, <3>5, Zenon
      <4>2. idle_cnt' = 3
        BY <3>2, <3>5
      <4> QED  BY <2>1, <4>1, <4>2 DEF WaitSettles
    <3>6. CASE idle_cnt \in Nat /\ idle_cnt > 2 /\ ~do_write_reg /\ tstate = "idle"
      <4>1. ~do_write_reg' /\ tstate' = "idle"
        BY <3>1, <3>6, Zenon
      <4>2. idle_cnt' \in Nat /\ idle_cnt' > 2
        BY <3>2, <3>6
      <4> QED  BY <2>1, <4>1, <4>2 DEF WaitSettles
    <3> QED  BY <2>6, <3>3, <3>4, <3>5, <3>6 DEF WaitSettles
  <2>7. CASE fsm # "do_write_idle"
    BY <2>1, <2>2, <2>7 DEF WaitSettles
  <2> QED  BY <2>6, <2>7
<1>2. CASE Load
  BY <1>2 DEF Load, PlayerReset, WaitSettles
<1>3. CASE Play \/ Stop \/ UNCHANGED vars
  BY <1>3 DEF Play, Stop, vars, fsmVars, tgVars, WaitSettles
<1> QED  BY <1>1, <1>2, <1>3 DEF Next

\* The fixed wait after a write is long enough whenever the FIFO of commands has
\* room for it: only a memory that keeps many commands waiting breaks it.
THEOREM RoomIsEnough == Spec /\ []WritesFindRoom => []WritesSettle
<1>1. Init => WaitSettles
  BY DEF Init, WaitSettles
<1>2. WaitSettles => WritesSettle
  BY DEF WaitSettles, WritesSettle
<1> QED  BY <1>1, <1>2, NextWaitSettles, PTL DEF Spec

-----------------------------------------------------------------------------
(* The room for what is read.                                              *)

\* Only a read that is given adds to the commands once nothing is fetched.
LEMMA CommandsMove ==
    ASSUME Types, PromisesKept, ~wdata_req,
           NEW arrives, NEW avl_ready \in BOOLEAN, NEW returns, NEW drains,
           Tick(arrives, avl_ready, returns, drains)
    PROVE  /\ Commands \in Nat /\ Commands' \in Nat
           /\ Commands' + Bit(avl.op # "none" /\ avl_ready) <= Commands + Bit(Reads)
<1> DEFINE k == Bit(Issued(avl_ready))
           n == Len(tg)
           v == Bit(avl.op # "none")
           g == Bit(tg_reg.op # "none")
           m == Bit(avl.op # "none" /\ avl_ready)
           q == Bit(do_read_reg)
           c == Bit(Reads)
<1>1. PICK n1, v1, g1, q1 : /\ n1 = Len(tg') /\ v1 = Bit(avl'.op # "none")
                            /\ g1 = Bit(tg_reg'.op # "none") /\ q1 = Bit(do_read_reg')
  OBVIOUS
<1>2. /\ n - k \in Nat /\ n1 = n - k + g /\ n \in Nat
      /\ CanIssue(avl_ready) /\ ~Issued(avl_ready) => avl' = NoCmd /\ n = 0
      /\ ~CanIssue(avl_ready) => avl' = avl
      /\ tg_reg' = tg_in
  BY <1>1, TgMoves, LenProperties DEF Tick, Types
<1>3. /\ k \in {0, 1} /\ v \in {0, 1} /\ g \in {0, 1} /\ m \in {0, 1} /\ q \in {0, 1} /\ c \in {0, 1}
      /\ v1 \in {0, 1} /\ g1 \in {0, 1} /\ q1 \in {0, 1}
  BY <1>1 DEF Bit
<1>4. v1 + m <= v + k
  <2>1. CASE Issued(avl_ready)
    <3>1. k = 1 /\ v >= m
      BY <2>1 DEF Bit
    <3> QED  BY <1>3, <3>1
  <2>2. CASE CanIssue(avl_ready) /\ ~Issued(avl_ready)
    <3>1. v1 = 0 /\ m <= v
      BY <1>1, <1>2, <2>2 DEF Bit, NoCmd
    <3> QED  BY <1>3, <3>1
  <2>3. CASE ~CanIssue(avl_ready)
    <3>1. v1 = v /\ m = 0
      BY <1>1, <1>2, <2>3 DEF Bit, CanIssue
    <3> QED  BY <1>3, <3>1
  <2>4. Issued(avl_ready) => CanIssue(avl_ready)
    BY DEF Issued
  <2> QED  BY <2>1, <2>2, <2>3, <2>4
<1>5. g1 + q1 <= q + c
  <2>1. do_read_reg' = IF ready THEN Reads ELSE do_read_reg
    BY DEF Tick, TgInputs
  <2>2. /\ tg_in.op \in {"none", "read"}
        /\ tg_in.op = "read" => do_read_reg /\ ready
    BY Fetches DEF ready
  <2>3. CASE tg_in.op = "read"
    <3>1. q = 1 /\ g1 = 1 /\ q1 = c
      BY <1>1, <1>2, <2>1, <2>2, <2>3 DEF Bit
    <3> QED  BY <1>3, <3>1
  <2>4. CASE tg_in.op = "none"
    <3>1. g1 = 0 /\ (q1 = c \/ q1 = q)
      BY <1>1, <1>2, <2>1, <2>4 DEF Bit
    <3> QED  BY <1>3, <3>1
  <2> QED  BY <2>2, <2>3, <2>4
<1>6. Commands = v + n + g + q
  BY DEF Commands
<1>7. Commands' = v1 + n1 + g1 + q1
  BY <1>1 DEF Commands
<1> HIDE DEF k, n, v, g, m, q, c
<1>8. v + n + g + q \in Nat /\ v1 + n1 + g1 + q1 \in Nat /\ v1 + n1 + g1 + q1 + m <= v + n + g + q + c
  BY <1>2, <1>3, <1>4, <1>5
<1> QED  BY <1>6, <1>7, <1>8 DEF m, c

\* The FIFO of commands is declared full early enough.
LEMMA CommandRoom ==
    ASSUME Types, PromisesKept, Len(tg) + Bit(tg_reg.op # "none") < TG_SIZE,
           NEW arrives, NEW avl_ready \in BOOLEAN, NEW returns, NEW drains,
           Tick(arrives, avl_ready, returns, drains)
    PROVE  Len(tg') + Bit(tg_reg'.op # "none") < TG_SIZE
<1> DEFINE k == Bit(Issued(avl_ready))
           n == Len(tg)
           g == Bit(tg_reg.op # "none")
<1>1. PICK n1, g1 : n1 = Len(tg') /\ g1 = Bit(tg_reg'.op # "none")
  OBVIOUS
<1>2. /\ n - k \in Nat /\ n1 = n - k + g /\ n \in Nat /\ tg_reg' = tg_in
  BY <1>1, TgMoves, LenProperties DEF Tick, Types
<1>3. k \in {0, 1} /\ g \in {0, 1} /\ g1 \in {0, 1}
  BY <1>1 DEF Bit
<1>4. g1 = 1 => ~TgFull
  <2>1. tg_in.op # "none" => ~TgFull
    BY Fetches
  <2> QED  BY <1>1, <1>2, <2>1 DEF Bit
<1>5. ~TgFull => n < TG_SIZE - 2
  BY <1>2, Constants DEF TgFull
<1>6. n + g < TG_SIZE
  OBVIOUS
<1> HIDE DEF k, n, g
<1>7. n1 + g1 < TG_SIZE
  BY <1>2, <1>3, <1>4, <1>5, <1>6, Constants
<1> QED  BY <1>1, <1>7

\* What the memory has to return, and what it returned.
LEMMA ReturnsMove ==
    ASSUME Types, NEW arrives, NEW avl_ready \in BOOLEAN, NEW returns \in BOOLEAN, NEW drains,
           Tick(arrives, avl_ready, returns, drains)
    PROVE  /\ Len(returning) \in Nat /\ Len(returning') \in Nat /\ Bit(returns) <= Len(returning)
           /\ Len(returning') <= Len(returning) - Bit(returns) + 2 * Bit(avl.op # "none" /\ avl_ready)
           /\ ~avl_ready => Len(returning') = Len(returning) - Bit(returns)
           /\ avl_ready => Len(returning) <= RD_LATENCY - 2
           /\ returns => Head(returning) = returning[1] /\ Head(returning) \in Words
<1>1. /\ Memory(avl_ready, returns) /\ (returns => returning # <<>>)
      /\ Busy => ~avl_ready /\ returns
  BY DEF Tick
<1>2. /\ Len(returning) \in Nat /\ Len(Left(returns)) = Len(returning) - Bit(returns)
      /\ Left(returns) \in Seq(Words)
      /\ Len(Read(avl_ready)) = IF avl.op = "read" /\ avl_ready THEN avl.size ELSE 0
      /\ Len(returning') = Len(Left(returns)) + Len(Read(avl_ready))
      /\ returns => Head(returning) = returning[1] /\ Head(returning) \in Words
  BY <1>1, ReturningMoves
<1>3. PICK n1 : n1 = Len(returning')
  OBVIOUS
<1>4. Len(Left(returns)) \in Nat /\ Bit(returns) \in {0, 1}
  BY <1>2, LenProperties DEF Bit
<1>5. avl.size \in {0, 1, 2}
  BY DEF Types, Cmds
<1>6. /\ Len(Read(avl_ready)) \in Nat /\ Len(Read(avl_ready)) <= 2 * Bit(avl.op # "none" /\ avl_ready)
      /\ ~avl_ready => Len(Read(avl_ready)) = 0
      /\ Bit(avl.op # "none" /\ avl_ready) \in {0, 1}
  BY <1>2, <1>5 DEF Bit
<1>7. avl_ready => Len(returning) <= RD_LATENCY - 2
  BY <1>1, <1>2, Constants DEF Busy
<1>8. n1 = Len(Left(returns)) + Len(Read(avl_ready))
  BY <1>2, <1>3
<1>9. /\ n1 \in Nat /\ Bit(returns) <= Len(returning)
      /\ n1 <= Len(returning) - Bit(returns) + 2 * Bit(avl.op # "none" /\ avl_ready)
      /\ ~avl_ready => n1 = Len(returning) - Bit(returns)
  BY <1>2, <1>4, <1>6, <1>8
<1> QED  BY <1>2, <1>3, <1>7, <1>9

\* Words go on to the transmitter's FIFO, none is added on the way.
LEMMA DataMoves ==
    ASSUME Types, pair # NoPair => pair_reg = NoPair /\ half = NoWord, play,
           NEW arrives, NEW avl_ready, NEW returns \in BOOLEAN, NEW drains \in BOOLEAN,
           Tick(arrives, avl_ready, returns, drains)
    PROVE  /\ Data \in Nat /\ Data' \in Nat /\ Data' <= Data + Bit(returns)
           /\ Bit(pair' # NoPair) <= Bit(returns)
           /\ pair' # NoPair => pair_reg' = NoPair /\ half' = NoWord
           /\ out_used' + Bit(pair_reg' # NoPair) <= wrusedw' + 1
           /\ wrusedw' \in {out_used, out_used'}
           /\ out_used' <= out_used + Bit(pair_reg # NoPair) /\ out_used' \in Nat
<1> DEFINE r == Bit(pair_reg # NoPair)
           p == Bit(pair # NoPair)
           h == Bit(half # NoWord)
           t == Bit(returns)
           d == Bit(drains)
<1>1. PICK o1, r1, p1, h1 : /\ o1 = out_used' /\ r1 = Bit(pair_reg' # NoPair)
                            /\ p1 = Bit(pair' # NoPair) /\ h1 = Bit(half' # NoWord)
  OBVIOUS
<1>2. /\ out_used' = out_used + r - d /\ wrusedw' \in {out_used, out_used'}
      /\ drains => out_used > 0
  BY DEF Tick, OutFifo, Bit
<1>3. /\ r \in {0, 1} /\ p \in {0, 1} /\ h \in {0, 1} /\ t \in {0, 1} /\ d \in {0, 1}
      /\ r1 \in {0, 1} /\ p1 \in {0, 1} /\ h1 \in {0, 1} /\ out_used \in Nat
  BY <1>1 DEF Bit, Types
<1>4. d <= out_used
  BY <1>2, <1>3 DEF Bit
<1>5. /\ pair_reg' = pair
      /\ ~returns => half' = half /\ pair' = NoPair
      /\ returns /\ half = NoWord => pair' = NoPair
      /\ returns /\ half # NoWord => half' = NoWord
  BY DEF Tick, Unpack
<1>6. r1 = p /\ 2 * p1 + h1 <= h + t /\ p1 <= t
  <2>1. r1 = p
    BY <1>1, <1>5
  <2>2. CASE ~returns
    <3>1. h1 = h /\ p1 = 0
      BY <1>1, <1>5, <2>2 DEF Bit
    <3> QED  BY <1>3, <2>1, <3>1
  <2>3. CASE returns /\ half = NoWord
    <3>1. p1 = 0 /\ t = 1
      BY <1>1, <1>5, <2>3 DEF Bit
    <3> QED  BY <1>3, <2>1, <3>1
  <2>4. CASE returns /\ half # NoWord
    <3>1. h1 = 0 /\ t = 1 /\ h = 1
      BY <1>1, <1>5, <2>4 DEF Bit
    <3> QED  BY <1>3, <2>1, <3>1
  <2> QED  BY <2>2, <2>3, <2>4
<1>7. pair' # NoPair => pair_reg' = NoPair /\ half' = NoWord
  <2>1. pair' # NoPair => returns /\ half # NoWord
    BY <1>5
  <2>2. half # NoWord => pair = NoPair
    OBVIOUS
  <2> QED  BY <1>5, <2>1, <2>2
<1>8. r + p <= 1
  BY DEF Bit
<1>9. Data = 2 * (out_used + r + p) + h
  BY DEF Data
<1>10. Data' = 2 * (o1 + r1 + p1) + h1
  BY <1>1 DEF Data
<1> HIDE DEF r, p, h, t, d
<1>11. o1 = out_used + r - d /\ o1 \in Nat /\ o1 <= out_used + r
  BY <1>1, <1>2, <1>3, <1>4
<1>12. /\ 2 * (out_used + r + p) + h \in Nat /\ 2 * (o1 + r1 + p1) + h1 \in Nat
       /\ 2 * (o1 + r1 + p1) + h1 <= 2 * (out_used + r + p) + h + t
  BY <1>3, <1>6, <1>11
<1>13. o1 + r1 <= o1 + 1 /\ o1 + r1 <= out_used + 1
  BY <1>3, <1>6, <1>8, <1>11
<1>14. wrusedw' = out_used \/ wrusedw' = o1
  BY <1>1, <1>2
<1>15. o1 + r1 <= wrusedw' + 1
  BY <1>13, <1>14
<1> QED  BY <1>1, <1>2, <1>6, <1>7, <1>9, <1>10, <1>11, <1>12, <1>15 DEF r, t

\* When wfm_player decides to read there is room for what was asked already and
\* for the read, and two reads more.
LEMMA ReadyRoom ==
    ASSUME Types, RoomKept, play, ready, OutFifoHasRoom
    PROVE  Asked <= 2 * OUT_WORDS - RD_LATENCY + 1 /\ Asked \in Nat
<1> DEFINE n == Len(tg)
           v == Bit(avl.op # "none")
           g == Bit(tg_reg.op # "none")
           q == Bit(do_read_reg)
           r == Bit(pair_reg # NoPair)
           p == Bit(pair # NoPair)
           h == Bit(half # NoWord)
           l == Len(returning)
<1>1. /\ v \in {0, 1} /\ g \in {0, 1} /\ q \in {0, 1} /\ r \in {0, 1} /\ p \in {0, 1} /\ h \in {0, 1}
      /\ n \in Nat /\ l \in Nat /\ out_used \in Nat /\ wrusedw \in Nat
  BY LenProperties DEF Bit, Types
<1>2. n + g < TG_SIZE /\ l + p <= RD_LATENCY /\ out_used + r <= wrusedw + 1
  BY DEF RoomKept
<1>3. p + h <= 1
  BY DEF RoomKept, Bit
<1>4. wrusedw + 1 <= OUT_WORDS - RD_LATENCY - TG_SIZE
  BY <1>1, Constants DEF OutFifoHasRoom
<1>5. q = 0 \/ n < TG_SIZE - 2
  <2>1. ~do_read_reg \/ ~TgFull
    BY DEF ready, Pending
  <2>2. ~TgFull => n < TG_SIZE - 2
    BY <1>1, Constants DEF TgFull
  <2> QED  BY <2>1, <2>2 DEF Bit
<1>6. Asked = 2 * (out_used + r + p) + h + l + 2 * (v + n + g + q)
  BY DEF Asked, Data, Commands
<1> HIDE DEF n, v, g, q, r, p, h, l
<1>7. v + n + g + q <= TG_SIZE
  BY <1>1, <1>2, <1>5, Constants
<1>8. 2 * p + h + l <= RD_LATENCY + 1
  BY <1>1, <1>2, <1>3, Constants
<1>9. out_used + r <= OUT_WORDS - RD_LATENCY - TG_SIZE
  BY <1>1, <1>2, <1>4, Constants
<1> QED  BY <1>1, <1>6, <1>7, <1>8, <1>9, Constants

\* Once all words are written each step asks for one read more at most.
LEMMA AskedMoves ==
    ASSUME Types, PromisesKept, RoomKept, play, taken = sent,
           NEW arrives, NEW avl_ready \in BOOLEAN, NEW returns \in BOOLEAN, NEW drains \in BOOLEAN,
           Tick(arrives, avl_ready, returns, drains)
    PROVE  Asked \in Nat /\ Asked' \in Nat /\ Asked' <= Asked + 2 * Bit(Reads)
<1>1. ~wdata_req
  <2>1. wdata_req => taken < sent
    BY Fetches
  <2> QED  BY <2>1 DEF Types
<1>2. PICK c1, d1, l1 : c1 = Commands' /\ d1 = Data' /\ l1 = Len(returning')
  OBVIOUS
<1> DEFINE m == Bit(avl.op # "none" /\ avl_ready)
           t == Bit(returns)
           r == Bit(Reads)
<1>3. Commands \in Nat /\ c1 \in Nat /\ c1 + m <= Commands + r
  BY <1>1, <1>2, CommandsMove
<1>4. Data \in Nat /\ d1 \in Nat /\ d1 <= Data + t
  <2>1. pair # NoPair => pair_reg = NoPair /\ half = NoWord
    BY DEF RoomKept
  <2> QED  BY <1>2, <2>1, DataMoves
<1>5. Len(returning) \in Nat /\ l1 \in Nat /\ t <= Len(returning) /\ l1 <= Len(returning) - t + 2 * m
  BY <1>2, ReturnsMove
<1>6. m \in {0, 1} /\ t \in {0, 1} /\ r \in {0, 1}
  BY DEF Bit
<1>7. Asked = Data + Len(returning) + 2 * Commands
  BY DEF Asked
<1>8. Asked' = d1 + l1 + 2 * c1
  BY <1>2 DEF Asked
<1> HIDE DEF m, t, r
<1>9. /\ Data + Len(returning) + 2 * Commands \in Nat /\ d1 + l1 + 2 * c1 \in Nat
      /\ d1 + l1 + 2 * c1 <= Data + Len(returning) + 2 * Commands + 2 * r
  BY <1>3, <1>4, <1>5, <1>6
<1> QED  BY <1>7, <1>8, <1>9 DEF r

\* A player that plays before all words are written has nothing to play yet.
LEMMA QuietMoves ==
    ASSUME Types, ReadsLast, RoomKept, play, taken < sent,
           NEW arrives, NEW avl_ready \in BOOLEAN, NEW returns \in BOOLEAN, NEW drains \in BOOLEAN,
           Tick(arrives, avl_ready, returns, drains)
    PROVE  /\ returning' = <<>> /\ half' = NoWord /\ pair' = NoPair /\ pair_reg' = NoPair
           /\ out_used' = 0 /\ wrusedw' = 0 /\ ~Reading
<1>1. /\ out_used = 0 /\ returning = <<>> /\ half = NoWord /\ pair = NoPair /\ pair_reg = NoPair
  BY DEF RoomKept
<1>2. ~Reading
  BY DEF ReadsLast, Types
<1>3. ~returns /\ ~drains
  BY <1>1 DEF Tick
<1>4. half' = NoWord /\ pair' = NoPair /\ pair_reg' = NoPair
  BY <1>1, <1>3 DEF Tick, Unpack
<1>5. out_used' = 0 /\ wrusedw' = 0
  <2>1. /\ out_used' = out_used + (IF pair_reg # NoPair THEN 1 ELSE 0) - (IF drains THEN 1 ELSE 0)
        /\ wrusedw' \in {out_used, out_used'}
    BY DEF Tick, OutFifo
  <2>2. out_used' = 0 + 0 - 0
    BY <1>1, <1>3, <2>1
  <2> QED  BY <1>1, <2>1, <2>2
<1>6. returning' = <<>>
  <2>1. avl.op # "read"
    BY <1>2 DEF Reading
  <2>2. returning' = <<>> \o <<>>
    BY <1>1, <1>3, <2>1 DEF Tick, Memory
  <2> QED  BY <2>2
<1> QED  BY <1>2, <1>4, <1>5, <1>6

LEMMA RoomStep ==
    ASSUME Types, PromisesKept, ReadsLast, RoomKept,
           NEW arrives \in BOOLEAN, NEW avl_ready \in BOOLEAN, NEW returns \in BOOLEAN,
           NEW drains \in BOOLEAN, Tick(arrives, avl_ready, returns, drains)
    PROVE  RoomKept'
<1>1. /\ play' = play /\ load' = load /\ (arrives => load)
      /\ sent' = IF arrives THEN sent + 1 ELSE sent
      /\ taken' = IF wdata_req /\ ~infifo_rdempty THEN taken + 1 ELSE taken
  BY DEF Tick, InFifo, ctlVars
<1>2. sent \in Nat /\ taken \in Nat /\ taken <= sent /\ out_used \in Nat /\ wrusedw \in Nat
  BY DEF Types
<1>3. Len(tg') + Bit(tg_reg'.op # "none") < TG_SIZE
  BY CommandRoom DEF RoomKept
<1>4. Len(returning') + Bit(pair' # NoPair) <= RD_LATENCY
  <2>1. PICK n1, p1 : n1 = Len(returning') /\ p1 = Bit(pair' # NoPair)
    OBVIOUS
  <2>2. Bit(returns) \in {0, 1} /\ Bit(avl.op # "none" /\ avl_ready) \in {0, 1}
        /\ Bit(pair # NoPair) \in {0, 1} /\ p1 \in {0, 1}
    BY <2>1 DEF Bit
  <2>3. p1 <= Bit(returns)
    <3>1. pair' # NoPair => returns
      BY DEF Tick, Unpack
    <3> QED  BY <2>1, <3>1 DEF Bit
  <2>4. /\ Len(returning) \in Nat /\ n1 \in Nat
        /\ n1 <= Len(returning) - Bit(returns) + 2 * Bit(avl.op # "none" /\ avl_ready)
        /\ ~avl_ready => n1 = Len(returning) - Bit(returns)
        /\ avl_ready => Len(returning) <= RD_LATENCY - 2
    BY <2>1, ReturnsMove
  <2>5. Len(returning) + Bit(pair # NoPair) <= RD_LATENCY
    BY DEF RoomKept
  <2>6. n1 + p1 <= RD_LATENCY
    BY <2>2, <2>3, <2>4, <2>5, Constants
  <2> QED  BY <2>1, <2>6
<1>5. CASE ~play
  <2>1. pair' = NoPair /\ out_used' = 0 /\ wrusedw' = 0 /\ ~play'
    BY <1>1, <1>5 DEF Tick, Unpack, OutFifo
  <2>2. 0 <= OUT_WORDS
    BY Constants
  <2> QED  BY <1>3, <1>4, <2>1, <2>2 DEF RoomKept
<1>6. CASE play
  <2>1. ~load /\ sent >= MIN_WORDS /\ sent' = sent
    BY <1>1, <1>6 DEF RoomKept
  <2>2. /\ pair' # NoPair => pair_reg' = NoPair /\ half' = NoWord
        /\ out_used' + Bit(pair_reg' # NoPair) <= wrusedw' + 1
        /\ wrusedw' \in {out_used, out_used'}
        /\ out_used' <= out_used + Bit(pair_reg # NoPair) /\ out_used' \in Nat
    <3>1. pair # NoPair => pair_reg = NoPair /\ half = NoWord
      BY DEF RoomKept
    <3> QED  BY <1>6, <3>1, DataMoves
  <2>3. ASSUME taken < sent
        PROVE  /\ returning' = <<>> /\ half' = NoWord /\ pair' = NoPair /\ pair_reg' = NoPair
               /\ out_used' = 0 /\ wrusedw' = 0 /\ ~Reading
    BY <1>6, <2>3, QuietMoves
  <2>4. CASE taken < sent
    <3>1. Asked' <= 2 * OUT_WORDS + 1
      <4>1. PICK n1, v1, g1, q1 : /\ n1 = Len(tg') /\ v1 = Bit(avl'.op # "none")
                                  /\ g1 = Bit(tg_reg'.op # "none") /\ q1 = Bit(do_read_reg')
        OBVIOUS
      <4>2. v1 \in {0, 1} /\ g1 \in {0, 1} /\ q1 \in {0, 1} /\ n1 \in Nat
        <5>1. tg' \in Seq(Cmds)
          BY TgMoves DEF Tick
        <5> QED  BY <4>1, <5>1, LenProperties DEF Bit
      <4>3. n1 + g1 < TG_SIZE
        BY <1>3, <4>1
      <4>4. Commands' = v1 + n1 + g1 + q1
        BY <4>1 DEF Commands
      <4>5. Data' = 0
        BY <2>3, <2>4 DEF Data, Bit
      <4>6. Len(returning') = 0
        BY <2>3, <2>4, EmptySeq
      <4>7. Asked' = 0 + 0 + 2 * (v1 + n1 + g1 + q1)
        BY <4>4, <4>5, <4>6 DEF Asked
      <4>8. 0 + 0 + 2 * (v1 + n1 + g1 + q1) <= 2 * OUT_WORDS + 1
        BY <4>2, <4>3, Constants
      <4> QED  BY <4>7, <4>8
    <3>2. fsm' # "do_read"
      <4>1. fsm \notin {"check_wfm_outfifo", "do_read"}
        BY <2>3, <2>4 DEF Reading
      <4> QED  BY <4>1 DEF Tick, WfmFsm, Goes
    <3>3. 0 <= OUT_WORDS
      BY Constants
    <3> QED  BY <1>1, <1>3, <1>4, <1>6, <2>1, <2>2, <2>3, <2>4, <3>1, <3>2, <3>3 DEF RoomKept
  <2>5. CASE taken = sent
    <3>1. Asked \in Nat /\ Asked' \in Nat /\ Asked' <= Asked + 2 * Bit(Reads)
      BY <1>6, <2>5, AskedMoves
    <3>2. PICK a1 : a1 = Asked'
      OBVIOUS
    <3>3. /\ Asked <= 2 * OUT_WORDS + 1
          /\ fsm = "do_read" => Asked <= 2 * OUT_WORDS - 1
      BY <1>6, <2>5 DEF RoomKept
    <3>4. Reads => fsm = "do_read"
      BY DEF Reads
    <3>5. a1 <= 2 * OUT_WORDS + 1
      <4>1. CASE Reads
        BY <3>1, <3>2, <3>3, <3>4, <4>1, Constants DEF Bit
      <4>2. CASE ~Reads
        BY <3>1, <3>2, <3>3, <4>2, Constants DEF Bit
      <4> QED  BY <4>1, <4>2
    <3>6. ASSUME fsm' = "do_read" PROVE a1 <= 2 * OUT_WORDS - 1
      <4>1. OutFifoHasRoom /\ ready
        BY <3>6 DEF Tick, WfmFsm, Goes
      <4>2. Asked <= 2 * OUT_WORDS - RD_LATENCY + 1
        BY <1>6, <4>1, ReadyRoom
      <4>3. Bit(Reads) \in {0, 1}
        BY DEF Bit
      <4> QED  BY <3>1, <3>2, <4>2, <4>3, Constants
    <3>7. out_used' <= OUT_WORDS /\ wrusedw' <= OUT_WORDS
      <4>1. PICK o1 : o1 = out_used'
        OBVIOUS
      <4> DEFINE r == Bit(pair_reg # NoPair)
                 p == Bit(pair # NoPair)
                 h == Bit(half # NoWord)
                 l == Len(returning)
      <4>2. r \in {0, 1} /\ p \in {0, 1} /\ h \in {0, 1} /\ l \in Nat
        BY LenProperties DEF Bit, Types
      <4>3. Commands \in Nat
        <5>1. wdata_req => taken < sent
          BY Fetches
        <5> QED  BY <1>2, <2>5, <5>1, CommandsMove
      <4>4. Asked = 2 * (out_used + r + p) + h + l + 2 * Commands
        BY DEF Asked, Data
      <4> HIDE DEF r, p, h, l
      <4>5. out_used + r <= OUT_WORDS
        BY <1>2, <3>3, <4>2, <4>3, <4>4, Constants
      <4>6. o1 <= OUT_WORDS /\ out_used <= OUT_WORDS
        BY <1>2, <2>2, <4>1, <4>2, <4>5, Constants DEF r
      <4> QED  BY <2>2, <4>1, <4>6
    <3>8. taken' = taken
      <4>1. wdata_req => taken < sent
        BY Fetches
      <4> QED  BY <1>1, <1>2, <2>5, <4>1
    <3> QED  BY <1>1, <1>3, <1>4, <1>6, <2>1, <2>2, <2>5, <3>2, <3>5, <3>6, <3>7, <3>8, <1>2 DEF RoomKept
  <2> QED  BY <1>2, <2>4, <2>5
<1> QED  BY <1>5, <1>6

LEMMA InitRoom == Init => RoomKept
<1> SUFFICES ASSUME Init PROVE RoomKept
  OBVIOUS
<1> USE DEF Init
<1>1. Len(tg) = 0 /\ Len(returning) = 0 /\ Bit(tg_reg.op # "none") = 0 /\ Bit(pair # NoPair) = 0
  BY EmptySeq DEF Bit, NoCmd
<1>2. 0 + 0 < TG_SIZE /\ 0 <= OUT_WORDS /\ 0 + 0 <= RD_LATENCY
  BY Constants
<1> QED  BY <1>1, <1>2 DEF RoomKept

LEMMA NextRoom ==
    ASSUME WriteSide, RoomKept, [Next]_vars
    PROVE  RoomKept'
<1>1. Types /\ PromisesKept /\ ReadsLast
  BY DEF WriteSide
<1>2. ASSUME NEW arrives \in BOOLEAN, NEW avl_ready \in BOOLEAN, NEW returns \in BOOLEAN,
             NEW drains \in BOOLEAN, Tick(arrives, avl_ready, returns, drains)
      PROVE  RoomKept'
  BY <1>1, <1>2, RoomStep
<1>3. ASSUME Load PROVE RoomKept'
  <2>1. /\ ~play' /\ sent' = 0 /\ taken' = 0 /\ tg' = <<>> /\ tg_reg' = NoCmd
        /\ returning' = returning /\ pair' = pair /\ pair_reg' = pair_reg /\ half' = half
        /\ out_used' = out_used /\ wrusedw' = wrusedw
    BY <1>3 DEF Load, PlayerReset, memVars, outVars
  <2>2. Len(tg') = 0 /\ Bit(tg_reg'.op # "none") = 0
    BY <2>1, EmptySeq DEF Bit, NoCmd
  <2>3. Len(tg') + Bit(tg_reg'.op # "none") < TG_SIZE
    BY <2>2, Constants
  <2> QED  BY <2>1, <2>3 DEF RoomKept
<1>4. ASSUME Play PROVE RoomKept'
  <2>1. /\ play' /\ ~load' /\ sent >= MIN_WORDS /\ fsm # "do_read"
        /\ returning = <<>> /\ half = NoWord /\ pair = NoPair /\ pair_reg = NoPair /\ out_used = 0
    BY <1>4 DEF Play, NoReads
  <2>2. UNCHANGED <<loads, inVars, fsmVars, tgVars, memVars, outVars>>
    BY <1>4 DEF Play
  <2> DEFINE n == Len(tg)
             v == Bit(avl.op # "none")
             g == Bit(tg_reg.op # "none")
             q == Bit(do_read_reg)
  <2>3. n \in Nat /\ v \in {0, 1} /\ g \in {0, 1} /\ q \in {0, 1} /\ n + g < TG_SIZE
    BY <1>1, LenProperties DEF Bit, Types, RoomKept
  <2>4. Commands = v + n + g + q
    BY DEF Commands
  <2>5. Data = 0 /\ Len(returning) = 0
    BY <2>1, EmptySeq DEF Data, Bit
  <2>6. Asked = 0 + 0 + 2 * (v + n + g + q)
    BY <2>4, <2>5 DEF Asked
  <2> HIDE DEF n, v, g, q
  <2>7. Asked <= 2 * OUT_WORDS + 1
    BY <2>3, <2>6, Constants
  <2>8. Asked' = Asked
    BY <2>2 DEF Asked, Data, Commands, tgVars, memVars, outVars
  <2>9. wrusedw \in Nat /\ 0 + 0 <= wrusedw + 1 /\ Bit(pair_reg # NoPair) = 0
    BY <1>1, <2>1 DEF Types, Bit
  <2> QED  BY <2>1, <2>2, <2>7, <2>8, <2>9 DEF RoomKept, inVars, fsmVars, tgVars, memVars, outVars
<1>5. ASSUME Stop \/ UNCHANGED vars PROVE RoomKept'
  <2>1. /\ UNCHANGED <<load, inVars, fsmVars, tgVars, memVars, outVars>>
        /\ play' => play
    BY <1>5 DEF Stop, vars, ctlVars
  <2>2. Asked' = Asked
    BY <2>1 DEF Asked, Data, Commands, tgVars, memVars, outVars
  <2> QED  BY <2>1, <2>2 DEF RoomKept, inVars, fsmVars, tgVars, memVars, outVars
<1> QED  BY <1>2, <1>3, <1>4, <1>5 DEF Next

\* The transmitter's FIFO has room for all that was asked of the memory.
THEOREM AllReadsFit == Spec /\ []WritesSettle => []ReadsFit
<1>1. WriteSide /\ RoomKept => ReadsFit
  <2> SUFFICES ASSUME WriteSide, RoomKept, play, pair_reg # NoPair PROVE out_used < OUT_WORDS
    BY DEF ReadsFit
  <2>1. Types /\ PromisesKept
    BY DEF WriteSide
  <2>2. taken = sent /\ sent \in Nat
    BY <2>1 DEF RoomKept, Types
  <2>3. Asked <= 2 * OUT_WORDS + 1
    BY <2>2 DEF RoomKept
  <2> DEFINE p == Bit(pair # NoPair)
             h == Bit(half # NoWord)
             l == Len(returning)
             n == Len(tg)
             v == Bit(avl.op # "none")
             g == Bit(tg_reg.op # "none")
             q == Bit(do_read_reg)
  <2>4. /\ p \in {0, 1} /\ h \in {0, 1} /\ v \in {0, 1} /\ g \in {0, 1} /\ q \in {0, 1}
        /\ l \in Nat /\ n \in Nat /\ out_used \in Nat
    BY <2>1, LenProperties DEF Bit, Types
  <2>5. Bit(pair_reg # NoPair) = 1
    BY DEF Bit
  <2>6. Asked = 2 * (out_used + 1 + p) + h + l + 2 * (v + n + g + q)
    BY <2>5 DEF Asked, Data, Commands
  <2> HIDE DEF p, h, l, n, v, g, q
  <2> QED  BY <2>3, <2>4, <2>6, Constants
<1> QED  BY <1>1, InitWriteSide, NextWriteSide, InitRoom, NextRoom, PTL DEF Spec

-----------------------------------------------------------------------------
(* Positions in the waveform, and places.                                  *)

\* What comes after a remainder.
LEMMA Turns ==
    ASSUME NEW s \in Nat, s > 0, NEW n \in Nat
    PROVE  /\ n % s \in 0 .. s - 1
           /\ (n + 1) % s = IF (n % s) + 1 = s THEN 0 ELSE (n % s) + 1
           /\ n < s => n % s = n
<1>1. n % s \in 0 .. s - 1 /\ n \div s \in Nat /\ (n < s => n % s = n)
  OBVIOUS
<1>2. PICK q \in Nat : q = n \div s
  BY <1>1
<1>3. PICK m \in Nat : m = n % s /\ m < s
  BY <1>1
<1>4. PICK x : x = s * q
  OBVIOUS
<1>5. n = x + m
  BY <1>2, <1>3, <1>4
<1>6. \A u, r \in Nat : r < s => (s * u + r) % s = r
  OBVIOUS
<1>7. CASE m + 1 = s
  <2>1. n + 1 = s * (q + 1) + 0
    BY <1>4, <1>5, <1>7
  <2>2. (s * (q + 1) + 0) % s = 0
    BY <1>6
  <2> QED  BY <1>1, <1>3, <1>7, <2>1, <2>2
<1>8. CASE m + 1 # s
  <2>1. n + 1 = s * q + (m + 1) /\ m + 1 \in Nat /\ m + 1 < s
    BY <1>3, <1>4, <1>5, <1>8
  <2>2. (s * q + (m + 1)) % s = m + 1
    BY <1>6, <2>1
  <2> QED  BY <1>1, <1>3, <1>8, <2>1, <2>2
<1> QED  BY <1>7, <1>8

\* The reads of a pass go to every second place, from the first one.
LEMMA PlaceSteps ==
    ASSUME sent \in Nat, sent > 0, NEW j \in Nat
    PROVE  /\ Place(j) \in 0 .. sent - 1 /\ Place(j) % 2 = 0
           /\ Place(j + 1) = IF Place(j) + 2 >= sent THEN 0 ELSE Place(j) + 2
<1>1. Pairs \in Nat /\ Pairs > 0 /\ sent <= 2 * Pairs /\ 2 * Pairs <= sent + 1
  BY DEF Pairs
<1>2. PICK m : m = j % Pairs
  OBVIOUS
<1>3. m \in 0 .. Pairs - 1 /\ (j + 1) % Pairs = IF m + 1 = Pairs THEN 0 ELSE m + 1
  BY <1>1, <1>2, Turns
<1>4. Place(j) = 2 * m /\ Place(j + 1) = 2 * (IF m + 1 = Pairs THEN 0 ELSE m + 1)
  BY <1>2, <1>3 DEF Place
<1>5. 2 * m \in 0 .. sent - 1 /\ (2 * m) % 2 = 0
  BY <1>1, <1>3
<1>6. 2 * (IF m + 1 = Pairs THEN 0 ELSE m + 1) = IF 2 * m + 2 >= sent THEN 0 ELSE 2 * m + 2
  BY <1>1, <1>3
<1> QED  BY <1>4, <1>5, <1>6

\* The words of the waveform when it is played over and over.
LEMMA LoopsAre ==
    ASSUME Types, sent > 0, NEW n \in Nat
    PROVE  /\ Loops(n) = Word(0) + (n % sent) /\ Loops(n) \in Nat /\ Loops(n) # NoWord
           /\ Loops(n + 1) = Succ(Loops(n))
<1>1. sent \in Nat /\ sent <= MAX_WORDS /\ loads \in 0 .. LOADS
  BY DEF Types
<1>2. PICK m \in 0 .. sent - 1 : m = n % sent
  BY <1>1, Turns
<1>3. m \in Nat /\ m \in Places
  BY <1>1, <1>2, Constants DEF Places
<1>4. Word(0) \in Nat /\ Word(m) = Word(0) + m
  BY <1>1, <1>3, WordsAre
<1>5. Loops(n) = Word(m)
  BY <1>2 DEF Loops
<1>6. (n + 1) % sent = (m + 1) % sent
  BY <1>1, <1>2, <1>3, Turns
<1>7. Word(m) - Word(0) + 1 = m + 1
  BY <1>3, <1>4
<1>8. Loops(n + 1) = Succ(Loops(n))
  BY <1>5, <1>6, <1>7 DEF Succ, Loops
<1>9. Word(0) + m \in Nat /\ Word(0) + m # NoWord
  BY <1>3, <1>4 DEF NoWord
<1>10. Loops(n) = Word(0) + m
  BY <1>4, <1>5
<1>11. Loops(n) \in Nat /\ Loops(n) # NoWord
  BY <1>9, <1>10
<1>12. Loops(n) = Word(0) + (n % sent)
  BY <1>2, <1>10
<1> QED  BY <1>8, <1>11, <1>12

\* A read of the place of position r gives the words of the positions from r,
\* and the position after them has the place of the next read.
LEMMA ReadPositions ==
    ASSUME Types, sent > 0, NEW r \in Nat, NEW j \in Nat, r % sent = Place(j)
    PROVE  /\ ReadBurst(j).size \in {1, 2} /\ ReadBurst(j).addr = Place(j)
           /\ \A i \in 1 .. ReadBurst(j).size :
                  Place(j) + i - 1 \in 0 .. sent - 1 /\ Loops(r + i - 1) = Word(Place(j) + i - 1)
           /\ (r + ReadBurst(j).size) % sent = Place(j + 1)
<1>1. sent \in Nat
  BY DEF Types
<1>2. PICK p : p = Place(j)
  OBVIOUS
<1>3. p \in 0 .. sent - 1 /\ p \in Nat /\ p % 2 = 0 /\ Place(j + 1) = IF p + 2 >= sent THEN 0 ELSE p + 2
  <2>1. /\ Place(j) \in 0 .. sent - 1 /\ Place(j) % 2 = 0
        /\ Place(j + 1) = IF Place(j) + 2 >= sent THEN 0 ELSE Place(j) + 2
    BY <1>1, PlaceSteps
  <2>2. p \in 0 .. sent - 1 /\ p % 2 = 0 /\ Place(j + 1) = IF p + 2 >= sent THEN 0 ELSE p + 2
    BY <1>2, <2>1
  <2>3. p \in Nat
    BY <1>1, <2>2
  <2> QED  BY <2>2, <2>3
<1>4. (r + 1) % sent = IF p + 1 = sent THEN 0 ELSE p + 1
  BY <1>1, <1>2, Turns
<1>5. p + 1 # sent => (r + 2) % sent = IF p + 2 = sent THEN 0 ELSE p + 2
  <2>1. ((r + 1) + 1) % sent = IF ((r + 1) % sent) + 1 = sent THEN 0 ELSE ((r + 1) % sent) + 1
    BY <1>1, Turns
  <2>2. (r + 1) + 1 = r + 2 /\ (p + 1) + 1 = p + 2
    BY <1>3
  <2> QED  BY <1>4, <2>1, <2>2
<1>6. ReadBurst(j).addr = p /\ ReadBurst(j).size = IF p + 1 = sent THEN 1 ELSE 2
  BY <1>2 DEF ReadBurst
<1>7. Loops(r) = Word(p) /\ Loops(r + 1) = Word(IF p + 1 = sent THEN 0 ELSE p + 1)
  BY <1>2, <1>4 DEF Loops
<1>8. CASE p + 1 = sent
  <2>1. (r + 1) % sent = Place(j + 1)
    BY <1>1, <1>3, <1>4, <1>8
  <2>2. ASSUME NEW i \in 1 .. 1 PROVE p + i - 1 = p /\ r + i - 1 = r
    BY <1>3
  <2> QED  BY <1>2, <1>3, <1>6, <1>7, <1>8, <2>1, <2>2
<1>9. CASE p + 1 # sent
  <2>1. (r + 2) % sent = Place(j + 1)
    BY <1>1, <1>3, <1>5, <1>9
  <2>2. p + 1 \in 0 .. sent - 1
    BY <1>1, <1>3, <1>9
  <2>3. ASSUME NEW i \in 1 .. 2
        PROVE  \/ p + i - 1 = p /\ r + i - 1 = r
               \/ p + i - 1 = p + 1 /\ r + i - 1 = r + 1
    BY <1>3
  <2> QED  BY <1>2, <1>3, <1>6, <1>7, <1>9, <2>1, <2>2, <2>3
<1> QED  BY <1>8, <1>9

-----------------------------------------------------------------------------
(* The words on their way to the transmitter.                              *)

\* The position of what the transmitter's FIFO gets next, after a step.
Forward(k1, k) == k1 = k + 2 * Bit(pair_reg # NoPair)

LEMMA LanesStep ==
    ASSUME Types, sent > 0, sent' = sent, loads' = loads, play,
           pair # NoPair => pair_reg = NoPair /\ half = NoWord,
           NEW k \in Nat, Lanes(k), Returns(k), NEW k1 \in Nat, Forward(k1, k),
           NEW arrives, NEW avl_ready \in BOOLEAN, NEW returns \in BOOLEAN, NEW drains,
           Tick(arrives, avl_ready, returns, drains)
    PROVE  Lanes(k1)' /\ Came(k1)' = Came(k) + Bit(returns) /\ Came(k) \in Nat
<1> DEFINE r == Bit(pair_reg # NoPair)
           p == Bit(pair # NoPair)
           h == Bit(half # NoWord)
           t == Bit(returns)
           c == Came(k)
<1>1. PICK r1, p1, h1 : /\ r1 = Bit(pair_reg' # NoPair) /\ p1 = Bit(pair' # NoPair)
                        /\ h1 = Bit(half' # NoWord)
  OBVIOUS
<1>2. /\ r \in {0, 1} /\ p \in {0, 1} /\ h \in {0, 1} /\ t \in {0, 1}
      /\ r1 \in {0, 1} /\ p1 \in {0, 1} /\ h1 \in {0, 1}
  BY <1>1 DEF Bit
<1>3. c = k + 2 * r + 2 * p + h /\ k1 = k + 2 * r
  BY DEF Came, Forward
<1>4. Came(k1)' = k1 + 2 * r1 + 2 * p1 + h1
  BY <1>1 DEF Came
<1>5. /\ pair_reg' = pair
      /\ ~returns => half' = half /\ pair' = NoPair
      /\ returns /\ half = NoWord => half' = Head(returning) /\ pair' = NoPair
      /\ returns /\ half # NoWord => half' = NoWord /\ pair' = <<half, Head(returning)>>
      /\ heard' = IF pair_reg # NoPair THEN pair_reg[2] ELSE heard
  BY DEF Tick, Unpack, OutFifo
<1>6. \A n : Loops(n)' = Loops(n)
  BY DEF Loops, Word
<1>7. \A n \in Nat : Loops(n) # NoWord
  BY LoopsAre
<1>8. c \in Nat /\ (half # NoWord => half = Loops(c - 1) /\ c = k1 + 1)
  <2>1. half # NoWord => half = Loops(c - 1)
    BY DEF Lanes
  <2>2. half # NoWord => p = 0 /\ h = 1
    BY DEF Bit
  <2> HIDE DEF r, p, h, c
  <2> QED  BY <1>2, <1>3, <2>1, <2>2
<1>9. returns => Head(returning) = Loops(c)
  <2>1. returns => Head(returning) = returning[1] /\ 1 \in 1 .. Len(returning)
    <3>1. /\ Len(returning) \in Nat /\ Bit(returns) <= Len(returning)
          /\ returns => Head(returning) = returning[1]
      BY ReturnsMove
    <3> QED  BY <3>1 DEF Bit
  <2>2. c + 1 - 1 = c
    BY <1>8
  <2> QED  BY <2>1, <2>2 DEF Returns
<1> HIDE DEF r, p, h, t, c
<1>10. r1 = p /\ 2 * p1 + h1 = h + t
  <2>1. r1 = p
    BY <1>1, <1>5 DEF p
  <2>2. CASE ~returns
    <3>1. h1 = h /\ p1 = 0 /\ t = 0
      BY <1>1, <1>5, <2>2 DEF Bit, h, t
    <3> QED  BY <1>2, <2>1, <3>1
  <2>3. CASE returns /\ half = NoWord
    <3>1. half' # NoWord
      BY <1>5, <1>7, <1>8, <1>9, <2>3
    <3>2. p1 = 0 /\ t = 1 /\ h = 0 /\ h1 = 1
      BY <1>1, <1>5, <2>3, <3>1 DEF Bit, h, t
    <3> QED  BY <1>2, <2>1, <3>2
  <2>4. CASE returns /\ half # NoWord
    <3>1. pair' # NoPair
      BY <1>5, <2>4 DEF NoPair
    <3>2. h1 = 0 /\ t = 1 /\ h = 1 /\ p1 = 1
      BY <1>1, <1>5, <2>4, <3>1 DEF Bit, h, t
    <3> QED  BY <1>2, <2>1, <3>2
  <2> QED  BY <2>2, <2>3, <2>4
<1>11. Came(k1)' = c + t
  <2>1. k1 + 2 * r1 + 2 * p1 + h1 = c + t
    BY <1>2, <1>3, <1>10
  <2> QED  BY <1>4, <2>1
<1>12. IF heard' = NoWord THEN k1 = 0 ELSE k1 > 0 /\ heard' = Loops(k1 - 1)
  <2>1. CASE pair_reg # NoPair
    <3>1. pair_reg = <<Loops(k), Loops(k + 1)>> /\ r = 1
      BY <2>1 DEF Lanes, Bit, r
    <3>2. k1 > 0 /\ k1 - 1 = k + 1 /\ k + 1 \in Nat
      BY <1>3, <3>1
    <3>3. heard' = Loops(k + 1)
      BY <1>5, <2>1, <3>1
    <3> QED  BY <1>7, <3>2, <3>3
  <2>2. CASE pair_reg = NoPair
    <3>1. k1 = k /\ heard' = heard
      BY <1>3, <1>5, <2>2 DEF Bit, r
    <3> QED  BY <3>1 DEF Lanes
  <2> QED  BY <2>1, <2>2
<1>13. pair_reg' # NoPair => pair_reg' = <<Loops(k1), Loops(k1 + 1)>>
  <2>1. pair # NoPair => r = 0 /\ pair = <<Loops(k), Loops(k + 1)>>
    BY DEF Lanes, Bit, r
  <2>2. r = 0 => k1 = k
    BY <1>3
  <2> QED  BY <1>5, <2>1, <2>2
<1>14. pair' # NoPair => pair' = <<Loops(k1), Loops(k1 + 1)>>
  <2>1. pair' # NoPair => returns /\ half # NoWord
    BY <1>5
  <2>2. half # NoWord => c - 1 = k1 /\ c = k1 + 1
    BY <1>8
  <2> QED  BY <1>5, <1>8, <1>9, <2>1, <2>2
<1>15. half' # NoWord => half' = Loops(c + t - 1)
  <2>1. CASE ~returns
    <3>1. half' = half /\ c + t - 1 = c - 1
      BY <1>5, <1>8, <2>1 DEF Bit, t
    <3> QED  BY <1>8, <3>1
  <2>2. CASE returns /\ half = NoWord
    <3>1. half' = Loops(c) /\ c + t - 1 = c
      BY <1>5, <1>8, <1>9, <2>2 DEF Bit, t
    <3> QED  BY <3>1
  <2>3. CASE returns /\ half # NoWord
    BY <1>5, <2>3
  <2> QED  BY <2>1, <2>2, <2>3
<1>16. Lanes(k1)'
  <2>1. half' # NoWord => half' = Loops(Came(k1) - 1)'
    <3>1. PICK x : x = c + t - 1
      OBVIOUS
    <3>2. Loops(Came(k1) - 1)' = Loops(x)'
      <4>1. Came(k1)' - 1 = x
        <5>1. x = (c + t) - 1
          BY <1>2, <1>8, <3>1
        <5> QED  BY <1>11, <5>1, Zenon
      <4> QED  BY <4>1, Zenon DEF Loops, Word
    <3> QED  BY <1>6, <1>15, <3>1, <3>2
  <2>2. /\ Loops(k1 - 1)' = Loops(k1 - 1) /\ Loops(k1)' = Loops(k1)
        /\ Loops(k1 + 1)' = Loops(k1 + 1)
    BY <1>6
  <2> QED  BY <1>12, <1>13, <1>14, <2>1, <2>2 DEF Lanes
<1> QED  BY <1>8, <1>11, <1>16 DEF c, t

\* A read finds all words of the waveform in the memory.
LEMMA MemoryFull ==
    ASSUME Types, ReadsLast, Stores, avl.op = "read"
    PROVE  \A a \in 0 .. sent - 1 : mem[a] = Word(a)
<1>1. PICK d, w \in Nat, S \in SUBSET Nat : Storing(Word(0), d, w, S)
  BY DEF Stores
<1>2. taken = sent /\ sent \in Nat /\ sent <= MAX_WORDS /\ loads \in 0 .. LOADS
  BY DEF ReadsLast, Reading, Types
<1>3. d = sent
  <2>1. w = 0 /\ IsWrite(avl) = 0 /\ IsWrite(tg_reg) = 0 /\ d + IsWrite(avl) + w + IsWrite(tg_reg) = taken
    BY <1>1 DEF Storing, IsWrite, Bit
  <2> QED  BY <1>2, <2>1
<1>4. ASSUME NEW a \in 0 .. sent - 1 PROVE mem[a] = Word(a)
  <2>1. mem[a] = Word(0) + a
    BY <1>1, <1>3, <1>4 DEF Storing
  <2>2. a \in Places
    BY <1>2, <1>4, Constants DEF Places
  <2> QED  BY <1>2, <2>1, <2>2, WordsAre
<1> QED  BY <1>4

\* The read that is the first not taken, after a step.
TakesRead(j1, j, avl_ready) == j1 = j + Bit(avl.op = "read" /\ avl_ready)

LEMMA ReturnsStep ==
    ASSUME Types, ReadsLast, Stores, sent > 0, sent' = sent, loads' = loads,
           NEW k \in Nat, Returns(k), Came(k) \in Nat, NEW j \in Nat, Continues(k, j),
           avl.op = "read" => avl = ReadOf(j),
           NEW arrives, NEW avl_ready \in BOOLEAN, NEW returns \in BOOLEAN, NEW drains,
           Tick(arrives, avl_ready, returns, drains),
           NEW k1 \in Nat, Came(k1)' = Came(k) + Bit(returns),
           NEW j1 \in Nat, TakesRead(j1, j, avl_ready)
    PROVE  Returns(k1)' /\ Continues(k1, j1)'
<1> DEFINE c == Came(k)
           t == Bit(returns)
           l == Len(returning)
           L == Left(returns)
           R == Read(avl_ready)
<1>1. /\ returning' = L \o R /\ L \in Seq(Words) /\ R \in Seq(Words)
      /\ l \in Nat /\ Len(L) = l - t /\ Len(returning') = Len(L) + Len(R)
      /\ Len(R) = IF avl.op = "read" /\ avl_ready THEN avl.size ELSE 0
  BY ReturningMoves DEF Tick
<1>2. c \in Nat /\ t \in {0, 1} /\ Len(L) \in Nat /\ Len(R) \in Nat
  BY <1>1, LenProperties DEF Bit
<1>3. \A i \in 1 .. Len(L) : L[i] = Loops((c + t) + i - 1)
  <2>1. \A i \in 1 .. Len(L) : L[i] = returning[i + t] /\ i + t \in 1 .. l
    <3>1. CASE returns
      <4>1. returning # <<>> /\ returning \in Seq(Words)
        BY <3>1 DEF Tick, Types
      <4>2. \A i \in 1 .. Len(Tail(returning)) : Tail(returning)[i] = returning[i + 1]
        BY <4>1, HeadTailProperties
      <4>3. L = Tail(returning) /\ t = 1
        BY <3>1 DEF Left, Bit
      <4> QED  BY <1>1, <1>2, <4>2, <4>3
    <3>2. CASE ~returns
      <4>1. L = returning /\ t = 0
        BY <3>2 DEF Left, Bit
      <4> QED  BY <1>1, <4>1
    <3> QED  BY <3>1, <3>2
  <2>2. \A i \in 1 .. l : returning[i] = Loops(c + i - 1)
    BY DEF Returns
  <2> HIDE DEF L, c, t, l
  <2>3. ASSUME NEW i \in 1 .. Len(L) PROVE L[i] = Loops((c + t) + i - 1)
    <3>1. L[i] = Loops(c + (i + t) - 1)
      BY <2>1, <2>2, <2>3
    <3>2. c + (i + t) - 1 = (c + t) + i - 1
      BY <1>2, <2>3
    <3> QED  BY <3>1, <3>2
  <2> QED  BY <2>3
<1>4. /\ \A i \in 1 .. Len(R) : R[i] = Loops((c + l) + i - 1)
      /\ ((c + l) + Len(R)) % sent = Place(j1)
  <2>1. PICK n \in Nat : n = c + l
    BY <1>1, <1>2
  <2>2. n % sent = Place(j)
    BY <2>1 DEF Continues
  <2>3. CASE avl.op = "read" /\ avl_ready
    <3>1. avl.addr = Place(j) /\ avl.size = ReadBurst(j).size /\ j1 = j + 1
      BY <2>3 DEF ReadOf, Cmd, ReadBurst, TakesRead, Bit
    <3>2. /\ ReadBurst(j).size \in {1, 2}
          /\ \A i \in 1 .. ReadBurst(j).size :
                 Place(j) + i - 1 \in 0 .. sent - 1 /\ Loops(n + i - 1) = Word(Place(j) + i - 1)
          /\ (n + ReadBurst(j).size) % sent = Place(j + 1)
      BY <2>2, ReadPositions
    <3>3. Len(R) = ReadBurst(j).size
      BY <1>1, <2>3, <3>1
    <3>4. ASSUME NEW i \in 1 .. Len(R) PROVE R[i] = Loops(n + i - 1)
      <4>1. R[i] = mem[(Place(j) + i - 1) % ADDRS]
        BY <2>3, <3>1, <3>3 DEF Read
      <4>2. Place(j) + i - 1 \in 0 .. sent - 1 /\ Loops(n + i - 1) = Word(Place(j) + i - 1)
        BY <3>2, <3>3
      <4>3. PICK a : a = Place(j) + i - 1
        OBVIOUS
      <4>4. a \in 0 .. sent - 1 /\ a \in Places
        BY <4>2, <4>3, Constants DEF Types, Places
      <4>5. a % ADDRS = a
        BY <4>4, Mod DEF Places
      <4>6. mem[a] = Word(a)
        BY <2>3, <4>4, MemoryFull
      <4> QED  BY <4>1, <4>2, <4>3, <4>5, <4>6
    <3> QED  BY <2>1, <3>1, <3>2, <3>3, <3>4
  <2>4. CASE ~(avl.op = "read" /\ avl_ready)
    <3>1. Len(R) = 0 /\ j1 = j
      BY <1>1, <2>4 DEF TakesRead, Bit
    <3>2. n + 0 = n
      OBVIOUS
    <3> QED  BY <2>1, <2>2, <3>1, <3>2
  <2> QED  BY <2>3, <2>4
<1>5. \A n : Loops(n)' = Loops(n)
  BY DEF Loops, Word
<1>6. Place(j1)' = Place(j1)
  BY DEF Place, Pairs
<1> HIDE DEF c, t, l, L, R
<1>7. PICK c1, n1 \in Nat : c1 = c + t /\ n1 = Len(L) + Len(R)
  <2>1. c + t \in Nat /\ Len(L) + Len(R) \in Nat
    BY <1>2
  <2> QED  BY <2>1
<1>8. Came(k1)' = c1 /\ Len(returning') = n1
  BY <1>1, <1>7 DEF c, t
<1>9. c1 + n1 = (c + l) + Len(R)
  <2>1. l \in Nat /\ Len(L) = l - t
    BY <1>1
  <2>2. (c + t) + ((l - t) + Len(R)) = (c + l) + Len(R)
    BY <1>2, <2>1
  <2> QED  BY <1>7, <2>1, <2>2
<1>10. ASSUME NEW i \in 1 .. n1 PROVE returning'[i] = Loops(c1 + i - 1)
  <2>1. \A m \in 1 .. Len(L) + Len(R) : (L \o R)[m] = IF m <= Len(L) THEN L[m] ELSE R[m - Len(L)]
    BY <1>1, ConcatProperties
  <2>2. CASE i <= Len(L)
    <3>1. returning'[i] = L[i] /\ i \in 1 .. Len(L)
      BY <1>1, <1>2, <1>7, <1>10, <2>1, <2>2
    <3> QED  BY <1>3, <1>7, <3>1
  <2>3. CASE ~(i <= Len(L))
    <3>1. PICK m : m = i - Len(L)
      OBVIOUS
    <3>2. m \in 1 .. Len(R) /\ (c + l) + m - 1 = c1 + i - 1
      <4>1. i \in Nat /\ i <= Len(L) + Len(R) /\ i > Len(L)
        BY <1>2, <1>7, <1>10, <2>3
      <4>2. l \in Nat /\ Len(L) = l - t
        BY <1>1
      <4> QED  BY <1>2, <1>7, <3>1, <4>1, <4>2
    <3>3. returning'[i] = R[m]
      BY <1>1, <1>7, <1>10, <2>1, <2>3, <3>1
    <3> QED  BY <1>4, <3>2, <3>3
  <2> QED  BY <2>2, <2>3
<1>11. Returns(k1)'
  <2>1. ASSUME NEW i \in 1 .. n1 PROVE returning'[i] = Loops(Came(k1) + i - 1)'
    <3>1. PICK x : x = c1 + i - 1
      OBVIOUS
    <3>2. Loops(Came(k1) + i - 1)' = Loops(x)'
      BY <1>8, <3>1, Zenon DEF Loops, Word
    <3> QED  BY <1>5, <1>10, <3>1, <3>2
  <2> QED  BY <1>8, <2>1 DEF Returns
<1>12. (c1 + n1) % sent = Place(j1)
  BY <1>4, <1>9
<1>13. Continues(k1, j1)'
  BY <1>6, <1>8, <1>12 DEF Continues
<1> QED  BY <1>11, <1>13

\* The reads on their way to the memory.
LEMMA CommandsStep ==
    ASSUME Types, PromisesKept, ReadsLast, sent' = sent,
           NEW j \in Nat, NEW w \in Nat, CommandsInOrder(j, w), RequestsInOrder(Entering(j, w)),
           NEW arrives, NEW avl_ready \in BOOLEAN, NEW returns, NEW drains,
           Tick(arrives, avl_ready, returns, drains),
           NEW j1 \in Nat, TakesRead(j1, j, avl_ready), NEW w1, WaitTo(w1, w, avl_ready)
    PROVE  /\ w1 \in Nat /\ CommandsInOrder(j1, w1)'
           /\ Entering(j, w) \in Nat /\ Entering(j1, w1)' = Entering(j, w) + IsRead(tg_reg)
<1> DEFINE k == Bit(Issued(avl_ready))
           f == Bit(Issued(avl_ready) /\ w > 0)
           n == Len(tg)
           g == Bit(tg_reg.op # "none")
           v == IsWrite(tg_reg)
           r == IsRead(tg_reg)
           p == j + IsRead(avl)
           e == Entering(j, w)
<1>1. PICK n1, p1 : n1 = Len(tg') /\ p1 = j1 + IsRead(avl')
  OBVIOUS
<1>2. /\ n - k \in Nat /\ n1 = n - k + g /\ n \in Nat
      /\ \A i \in 1 .. n - k : tg'[i] = tg[i + k]
      /\ tg_reg.op # "none" => tg'[n1] = tg_reg
      /\ Issued(avl_ready) => avl' = tg[1] /\ n > 0
      /\ CanIssue(avl_ready) /\ ~Issued(avl_ready) => avl' = NoCmd /\ n = 0
      /\ ~CanIssue(avl_ready) => avl' = avl
      /\ tg_reg' = tg_in
  BY <1>1, TgMoves, LenProperties DEF Tick, Types
<1>3. tg_reg.op \in {"none", "write", "read"} /\ avl.op \in {"none", "write", "read"}
  BY DEF Types, Cmds
<1>4. /\ w <= n /\ (tg_reg.op = "write" => w = n)
      /\ avl.op = "read" => w = 0 /\ tg_reg.op # "write" /\ avl = ReadOf(j)
      /\ \A i \in 1 .. w : tg[i].op # "read"
      /\ \A i \in w + 1 .. n : tg[i] = ReadOf(p + i - w - 1)
  BY DEF CommandsInOrder
<1>5. /\ k \in {0, 1} /\ f \in {0, 1} /\ v \in {0, 1} /\ r \in {0, 1} /\ g = v + r /\ p \in Nat
      /\ (Issued(avl_ready) <=> k = 1) /\ (f = 1 <=> k = 1 /\ w > 0)
      /\ (v = 1 <=> tg_reg.op = "write") /\ (r = 1 <=> tg_reg.op = "read")
  BY <1>3 DEF Bit, IsWrite, IsRead
<1>6. e = p + n - w /\ e \in Nat
  <2>1. e = p + n - w
    BY DEF Entering
  <2> HIDE DEF e, p, n
  <2> QED  BY <1>2, <1>4, <1>5, <2>1
<1>7. \A i \in Int : ReadOf(i).op = "read" /\ ReadOf(i)' = ReadOf(i)
  BY DEF ReadOf, Cmd, ReadBurst, Place, Pairs
<1>8. /\ CanIssue(avl_ready) => j1 = p
      /\ ~CanIssue(avl_ready) => j1 = j
      /\ Issued(avl_ready) => CanIssue(avl_ready)
  BY <1>3 DEF CanIssue, Issued, IsRead, Bit, TakesRead
<1>9. w1 = w - f + v
  BY DEF WaitTo
<1> HIDE DEF k, f, n, g, v, r, p, e
<1>10. /\ p1 = p + k - f
       /\ avl'.op = "read" => avl' = ReadOf(j1) /\ w = 0 /\ tg_reg.op # "write" /\ Reading
  <2>1. CASE Issued(avl_ready) /\ w = 0
    <3>1. 1 \in w + 1 .. n /\ p + 1 - w - 1 = p
      BY <1>2, <1>5, <2>1
    <3>2. avl' = ReadOf(p) /\ tg[1] = ReadOf(p)
      BY <1>2, <1>4, <2>1, <3>1
    <3>3. avl' = ReadOf(j1) /\ IsRead(avl') = 1
      BY <1>7, <1>8, <2>1, <3>2 DEF IsRead, Bit
    <3>4. tg_reg.op # "write"
      BY <1>2, <1>4, <2>1
    <3>5. Reading
      <4>1. tg[1].op = "read" /\ 1 \in 1 .. n
        BY <1>2, <1>5, <1>7, <2>1, <3>2
      <4> QED  BY <4>1 DEF Reading, n
    <3>6. p1 = p + k - f
      BY <1>1, <1>5, <1>8, <2>1, <3>3
    <3> QED  BY <2>1, <3>3, <3>4, <3>5, <3>6
  <2>2. CASE Issued(avl_ready) /\ w > 0
    <3>1. avl'.op # "read"
      <4>1. 1 \in 1 .. w
        BY <2>2
      <4> QED  BY <1>2, <1>4, <2>2, <4>1
    <3>2. IsRead(avl') = 0
      BY <3>1 DEF IsRead, Bit
    <3> QED  BY <1>1, <1>5, <1>8, <2>2, <3>1, <3>2
  <2>3. CASE CanIssue(avl_ready) /\ ~Issued(avl_ready)
    <3>1. avl'.op # "read" /\ IsRead(avl') = 0
      BY <1>2, <2>3 DEF IsRead, Bit, NoCmd
    <3> QED  BY <1>1, <1>5, <1>8, <2>3, <3>1
  <2>4. CASE ~CanIssue(avl_ready)
    <3>1. avl' = avl /\ j1 = j /\ k = 0 /\ f = 0
      BY <1>2, <1>5, <1>8, <2>4
    <3>2. p1 = p
      BY <1>1, <3>1 DEF p
    <3>3. avl'.op = "read" => Reading
      BY <3>1 DEF Reading
    <3> QED  BY <1>4, <1>5, <3>1, <3>2, <3>3
  <2> QED  BY <1>8, <2>1, <2>2, <2>3, <2>4
<1>11. w1 \in Nat /\ w1 <= n1
  BY <1>2, <1>4, <1>5, <1>9
<1>12. ASSUME NEW i \in 1 .. w1 PROVE tg'[i].op # "read"
  <2>1. i \in Nat /\ i >= 1 /\ i <= w1
    BY <1>11
  <2>2. CASE i <= w - f
    <3>1. i + k \in 1 .. w /\ i \in 1 .. n - k
      BY <1>2, <1>4, <1>5, <2>1, <2>2
    <3> QED  BY <1>2, <1>4, <3>1
  <2>3. CASE ~(i <= w - f)
    <3>1. v = 1 /\ i = n1
      BY <1>2, <1>4, <1>5, <1>9, <2>1, <2>3
    <3> QED  BY <1>2, <1>5, <3>1
  <2> QED  BY <2>2, <2>3
<1>13. ASSUME NEW i \in w1 + 1 .. n1 PROVE tg'[i] = ReadOf(p1 + i - w1 - 1)
  <2>1. i \in Nat /\ i > w1 /\ i <= n1 /\ v = 0
    BY <1>2, <1>4, <1>5, <1>9, <1>11
  <2>2. CASE i <= n - k
    <3>1. i + k \in w + 1 .. n /\ i \in 1 .. n - k
      BY <1>2, <1>4, <1>5, <1>9, <1>11, <2>1, <2>2
    <3>2. tg'[i] = ReadOf(p + (i + k) - w - 1)
      BY <1>2, <1>4, <3>1
    <3>3. p + (i + k) - w - 1 = p1 + i - w1 - 1
      BY <1>5, <1>9, <1>10, <1>11, <2>1
    <3> QED  BY <3>2, <3>3
  <2>3. CASE ~(i <= n - k)
    <3>1. r = 1 /\ i = n1 /\ n1 = n - k + 1
      BY <1>2, <1>5, <2>1, <2>3
    <3>2. tg'[i] = ReadOf(e)
      BY <1>2, <1>5, <3>1 DEF RequestsInOrder, e
    <3>3. e = p1 + i - w1 - 1
      <4>1. p1 = p + k - f /\ w1 = w - f /\ n - k \in Nat /\ n \in Nat
        BY <1>2, <1>5, <1>9, <1>10, <2>1
      <4> QED  BY <1>5, <1>6, <3>1, <4>1
    <3> QED  BY <3>2, <3>3
  <2> QED  BY <2>2, <2>3
<1>14. wdata_req => ~Reading
  BY DEF ReadsLast, wdata_req
<1>15. tg_reg'.op = "write" => ~Reading
  BY <1>2, <1>14, Fetches
<1>16. tg_reg'.op = "write" => w1 = n1
  <2>1. ~Reading => w = n /\ r = 0
    <3>1. ASSUME ~Reading, w < n PROVE FALSE
      <4>1. n \in 1 .. n /\ n \in w + 1 .. n /\ p + n - w - 1 \in Int
        BY <1>2, <1>5, <3>1
      <4> QED  BY <1>4, <1>7, <3>1, <4>1 DEF Reading, n
    <3>2. ~Reading => r = 0
      BY <1>5 DEF Reading
    <3> QED  BY <1>2, <1>4, <3>1, <3>2
  <2>2. w = n /\ r = 0 => w1 = n1
    BY <1>2, <1>5, <1>9
  <2> QED  BY <1>15, <2>1, <2>2
<1>17. avl'.op = "read" => w1 = 0 /\ tg_reg'.op # "write" /\ avl' = ReadOf(j1)
  <2>1. w = 0 /\ tg_reg.op # "write" => w1 = 0
    BY <1>5, <1>9
  <2> QED  BY <1>10, <1>15, <2>1
<1>18. CommandsInOrder(j1, w1)'
  <2>1. j1 \in Int /\ ReadOf(j1)' = ReadOf(j1)
    BY <1>7
  <2>2. ASSUME NEW i \in w1 + 1 .. n1 PROVE tg'[i] = ReadOf(j1 + IsRead(avl) + i - w1 - 1)'
    <3>1. PICK x : x = p1 + i - w1 - 1
      OBVIOUS
    <3>2. x \in Int
      BY <1>5, <1>10, <1>11, <2>2, <3>1
    <3>3. ReadOf(j1 + IsRead(avl) + i - w1 - 1)' = ReadOf(x)'
      BY <1>1, <3>1, Zenon DEF ReadOf, ReadBurst, Place
    <3> QED  BY <1>7, <1>13, <2>2, <3>1, <3>2, <3>3
  <2> QED  BY <1>1, <1>11, <1>12, <1>16, <1>17, <2>1, <2>2 DEF CommandsInOrder
<1>19. Entering(j1, w1)' = p1 + n1 - w1
  BY <1>1 DEF Entering
<1>20. p1 + n1 - w1 = e + r
  BY <1>2, <1>5, <1>6, <1>9, <1>10, <1>11
<1> QED  BY <1>6, <1>11, <1>18, <1>19, <1>20 DEF e, r

\* The number of the next read that goes to the FIFO, after a step.
EntersTo(e1, e) == e1 = e + IsRead(tg_reg)

\* The reads that wfm_player gives to avalon_traffic_gen.
LEMMA RequestsStep ==
    ASSUME Types, PromisesKept, ReadsLast, sent' = sent, sent >= 2, play,
           NEW e \in Nat, RequestsInOrder(e),
           NEW arrives, NEW avl_ready \in BOOLEAN, NEW returns, NEW drains,
           Tick(arrives, avl_ready, returns, drains),
           NEW e1 \in Nat, EntersTo(e1, e)
    PROVE  RequestsInOrder(e1)'
<1>1. /\ do_read_reg' = IF ready THEN Reads ELSE do_read_reg
      /\ read_reg' = IF ready THEN [addr |-> read_addr, size |-> ReadSize] ELSE read_reg
      /\ read_addr' = IF Reads THEN NextReadAddr ELSE read_addr
      /\ tg_reg' = tg_in
  BY DEF Tick, TgInputs, TgFifo, ReadRegs
<1>2. /\ do_read_reg => read_reg = ReadBurst(e1)
      /\ read_addr = Place(e1 + Bit(do_read_reg))
  BY DEF RequestsInOrder, EntersTo
<1>3. PICK m \in Nat : m = e1 + Bit(do_read_reg)
  BY DEF Bit
<1>4. /\ tg_in.op = "read" => ~TgFull /\ do_read_reg /\ tstate = "idle"
      /\ tg_in.op = "read" => tg_in = Cmd("read", read_reg, NoWord)
  BY Fetches
<1>5. do_read_reg /\ ready => tg_in.op = "read"
  <2>1. do_read_reg => ~do_write_reg /\ tstate = "idle"
    BY DEF ReadsLast, Reading
  <2> QED  BY <2>1 DEF ready, Pending, tg_in, wdata_req, Cmd
<1>6. ~ready => tg_in.op # "read"
  BY <1>4 DEF ready
<1>7. ready => IsRead(tg_in) = Bit(do_read_reg)
  BY <1>4, <1>5 DEF IsRead, Bit
<1>8. /\ ready => e1 + IsRead(tg_in) = m
      /\ ~ready => IsRead(tg_in) = 0
  BY <1>3, <1>6, <1>7 DEF IsRead, Bit
<1>9. \A n : Place(n)' = Place(n) /\ ReadBurst(n)' = ReadBurst(n) /\ ReadOf(n)' = ReadOf(n)
  BY DEF Place, Pairs, ReadBurst, ReadOf
<1>10. Reads => [addr |-> read_addr, size |-> ReadSize] = ReadBurst(m) /\ NextReadAddr = Place(m + 1)
  <2> SUFFICES ASSUME Reads
               PROVE  [addr |-> read_addr, size |-> ReadSize] = ReadBurst(m) /\ NextReadAddr = Place(m + 1)
    OBVIOUS
  <2>1. /\ write_max_words = sent /\ sent \in Nat /\ sent < ADDRS /\ ADDRS \in Nat
        /\ read_max_addr = (sent - 1) % ADDRS /\ read_burst_max_addr = (sent - 2) % ADDRS
    BY Constants DEF Reads, Reading, ReadsLast, PromisesKept, Types
  <2>2. read_max_addr = sent - 1 /\ read_burst_max_addr = sent - 2
    <3>1. sent - 1 \in Places /\ sent - 2 \in Places /\ sent - 1 \in Int /\ sent - 2 \in Int
      BY <2>1 DEF Places
    <3> QED  BY <2>1, <3>1, Mod
  <2>3. PICK p \in Nat : p = Place(m) /\ p <= sent - 1 /\ p % 2 = 0
    <3>1. Place(m) \in 0 .. sent - 1 /\ Place(m) % 2 = 0
      <4>1. sent \in Nat /\ sent > 0
        BY <2>1
      <4> QED  BY <4>1, PlaceSteps
    <3>2. Place(m) \in Nat /\ Place(m) <= sent - 1
      BY <2>1, <3>1
    <3> QED  BY <3>1, <3>2
  <2>4. read_addr = p
    BY <1>2, <1>3, <2>3
  <2>5. Place(m + 1) = IF p + 2 >= sent THEN 0 ELSE p + 2
    <3>1. sent \in Nat /\ sent > 0
      BY <2>1
    <3>2. Place(m + 1) = IF Place(m) + 2 >= sent THEN 0 ELSE Place(m) + 2
      BY <3>1, PlaceSteps
    <3> QED  BY <2>3, <3>2
  <2>6. ReadSize = IF p + 1 = sent THEN 1 ELSE 2
    <3>1. p + 1 = sent => sent % 2 = 1
      BY <2>3
    <3>2. p = sent - 1 <=> p + 1 = sent
      BY <2>1, <2>3
    <3> QED  BY <2>1, <2>2, <2>4, <3>1, <3>2 DEF ReadSize, LastIsSingle
  <2>7. NextReadAddr = IF p + 2 >= sent THEN 0 ELSE p + 2
    <3>1. p < sent - 2 <=> ~(p + 2 >= sent)
      BY <2>1, <2>3
    <3>2. p < sent - 2 => (p + 2) % ADDRS = p + 2
      BY <2>1, <2>3, Mod DEF Places
    <3> QED  BY <2>2, <2>4, <3>1, <3>2 DEF NextReadAddr
  <2> QED  BY <2>3, <2>4, <2>5, <2>6, <2>7 DEF ReadBurst
<1>11. tg_reg'.op = "read" => tg_reg' = ReadOf(e1)
  BY <1>1, <1>2, <1>4 DEF ReadOf
<1>12. PICK q1, d1 : q1 = IsRead(tg_reg') /\ d1 = Bit(do_read_reg')
  OBVIOUS
<1>13. Reads => ready
  BY DEF Reads
<1>14. do_read_reg' => read_reg' = ReadBurst(e1 + q1)
  <2>1. CASE ready
    <3>1. e1 + q1 = m
      BY <1>1, <1>8, <1>12, <2>1
    <3> QED  BY <1>1, <1>10, <2>1, <3>1
  <2>2. CASE ~ready
    <3>1. e1 + q1 = e1
      BY <1>1, <1>8, <1>12, <2>2
    <3> QED  BY <1>1, <1>2, <2>2, <3>1
  <2> QED  BY <2>1, <2>2
<1>15. read_addr' = Place(e1 + q1 + d1)
  <2>1. CASE Reads
    <3>1. e1 + q1 = m /\ d1 = 1
      BY <1>1, <1>8, <1>12, <1>13, <2>1 DEF Bit
    <3> QED  BY <1>1, <1>10, <2>1, <3>1
  <2>2. CASE ~Reads /\ ready
    <3>1. e1 + q1 = m /\ d1 = 0
      BY <1>1, <1>8, <1>12, <2>2 DEF Bit
    <3>2. e1 + q1 + d1 = m
      BY <3>1
    <3> QED  BY <1>1, <1>2, <1>3, <2>2, <3>2
  <2>3. CASE ~ready
    <3>1. q1 = 0 /\ d1 = Bit(do_read_reg) /\ ~Reads
      BY <1>1, <1>8, <1>12, <1>13, <2>3
    <3>2. e1 + q1 + d1 = e1 + Bit(do_read_reg)
      BY <3>1
    <3> QED  BY <1>1, <1>2, <3>1, <3>2
  <2> QED  BY <2>1, <2>2, <2>3
<1>16. /\ ReadBurst(e1 + IsRead(tg_reg))' = ReadBurst(e1 + q1)
       /\ Place(e1 + IsRead(tg_reg) + Bit(do_read_reg))' = Place(e1 + q1 + d1)
  <2>1. /\ ReadBurst(e1 + IsRead(tg_reg))' = ReadBurst(e1 + q1)'
        /\ Place(e1 + IsRead(tg_reg) + Bit(do_read_reg))' = Place(e1 + q1 + d1)'
    BY <1>12, Zenon DEF ReadBurst, Place
  <2> QED  BY <1>9, <2>1
<1>17. ReadOf(e1)' = ReadOf(e1)
  BY <1>9
<1> QED  BY <1>11, <1>14, <1>15, <1>16, <1>17 DEF RequestsInOrder

LEMMA PairsPositive ==
    ASSUME NEW n \in Nat, n > 0
    PROVE  (n + 1) \div 2 \in Nat /\ (n + 1) \div 2 > 0
OBVIOUS

\* A player that has come to rest begins with the first word.
LEMMA RestInOrder ==
    ASSUME Types', NoReads', heard' = NoWord, sent' > 0
    PROVE  \E k, j, w \in Nat : Playing(k, j, w)'
<1>1. PICK n \in Nat : n = Len(tg')
  <2>1. tg' \in Seq(Cmds)
    BY DEF Types
  <2> QED  BY <2>1, LenProperties
<1>2. PICK s \in Nat : s = sent' /\ s > 0
  BY DEF Types
<1>4. /\ ~do_read_reg' /\ returning' = <<>> /\ tg_reg'.op # "read" /\ avl'.op # "read"
      /\ read_addr' = 0 /\ half' = NoWord /\ pair' = NoPair /\ pair_reg' = NoPair
  BY DEF NoReads
<1>5. \A i \in 1 .. n : tg'[i].op # "read"
  <2>1. tg' \in Seq(Cmds)
    BY DEF Types
  <2>2. \A i \in 1 .. n : tg'[i] \in ToSet(tg')
    BY <1>1, <2>1, LenProperties DEF ToSet
  <2> QED  BY <2>2 DEF NoReads
<1>6. Len(returning') = 0
  BY <1>4, EmptySeq
<1>7. Place(0)' = 0
  <2>1. PICK c : c = (s + 1) \div 2
    OBVIOUS
  <2>2. c \in Nat /\ c > 0
    BY <1>2, <2>1, PairsPositive
  <2>3. 0 % c = 0
    BY <2>2, Turns
  <2>4. Place(0)' = 2 * (0 % c)
    BY <1>2, <2>1 DEF Place, Pairs
  <2> QED  BY <2>3, <2>4
<1>8. Came(0)' = 0
  BY <1>4 DEF Came, Bit
<1>9. Lanes(0)' /\ Returns(0)'
  BY <1>4, <1>6 DEF Lanes, Returns
<1>10. Continues(0, 0)'
  <2>1. 0 % s = 0
    BY <1>2, Turns
  <2> QED  BY <1>2, <1>6, <1>7, <1>8, <2>1 DEF Continues
<1>11. CommandsInOrder(0, n)'
  BY <1>1, <1>4, <1>5 DEF CommandsInOrder
<1>12. RequestsInOrder(Entering(0, n))'
  <2>1. IsRead(avl') = 0 /\ IsRead(tg_reg') = 0 /\ Bit(do_read_reg') = 0
    BY <1>4 DEF IsRead, Bit
  <2>2. 0 + 0 + n - n = 0
    BY <1>1
  <2>3. Entering(0, n)' = 0
    BY <1>1, <2>1, <2>2 DEF Entering
  <2>4. 0 + 0 + 0 = 0
    OBVIOUS
  <2>5. Place(Entering(0, n) + IsRead(tg_reg) + Bit(do_read_reg))' = Place(0)'
    BY <2>1, <2>3, <2>4 DEF Place
  <2> QED  BY <1>4, <1>7, <2>5 DEF RequestsInOrder
<1>13. Playing(0, 0, n)'
  BY <1>9, <1>10, <1>11, <1>12 DEF Playing
<1> QED  BY <1>13

LEMMA TickInOrder ==
    ASSUME WriteSide, RoomKept, InOrder, Types',
           NEW arrives \in BOOLEAN, NEW avl_ready \in BOOLEAN, NEW returns \in BOOLEAN,
           NEW drains \in BOOLEAN, Tick(arrives, avl_ready, returns, drains)
    PROVE  InOrder'
<1>1. Types /\ PromisesKept /\ ReadsLast /\ Stores
  BY DEF WriteSide
<1>2. CASE ~play
  <2> SUFFICES ASSUME NoReads', sent' >= MIN_WORDS
               PROVE  \E k, j, w \in Nat : Playing(k, j, w)'
    BY <1>2 DEF Tick, ctlVars, InOrder
  <2>1. heard' = NoWord
    BY <1>2 DEF Tick, OutFifo
  <2>2. sent' > 0
    <3>1. sent' \in Nat
      BY DEF Types
    <3> QED  BY <3>1, Constants
  <2> QED  BY <2>1, <2>2, RestInOrder
<1>3. CASE play
  <2>1. PICK k, j, w \in Nat : Playing(k, j, w)
    BY <1>3 DEF InOrder
  <2>2. Lanes(k) /\ Returns(k) /\ Continues(k, j) /\ CommandsInOrder(j, w) /\ RequestsInOrder(Entering(j, w))
    BY <2>1 DEF Playing
  <2>3. sent' = sent /\ loads' = loads
    BY <1>3 DEF RoomKept, Tick, InFifo, ctlVars
  <2>4. sent >= 2 /\ sent > 0
    <3>1. sent \in Nat /\ sent >= MIN_WORDS
      BY <1>1, <1>3 DEF RoomKept, Types
    <3> QED  BY <3>1, Constants
  <2>5. PICK k1 \in Nat : Forward(k1, k)
    BY DEF Forward, Bit
  <2>6. PICK j1 \in Nat : TakesRead(j1, j, avl_ready)
    BY DEF TakesRead, Bit
  <2>7. PICK w1 : WaitTo(w1, w, avl_ready)
    BY DEF WaitTo
  <2>8. pair # NoPair => pair_reg = NoPair /\ half = NoWord
    BY DEF RoomKept
  <2>9. Lanes(k1)' /\ Came(k1)' = Came(k) + Bit(returns) /\ Came(k) \in Nat
    BY <1>1, <1>3, <2>2, <2>3, <2>4, <2>5, <2>8, LanesStep, SMTT(60)
  <2>10. avl.op = "read" => avl = ReadOf(j)
    BY <2>2 DEF CommandsInOrder
  <2>11. Returns(k1)' /\ Continues(k1, j1)'
    BY <1>1, <2>2, <2>3, <2>4, <2>6, <2>9, <2>10, ReturnsStep, SMTT(60)
  <2>12. /\ w1 \in Nat /\ CommandsInOrder(j1, w1)'
         /\ Entering(j, w) \in Nat /\ Entering(j1, w1)' = Entering(j, w) + IsRead(tg_reg)
    <3>1. Types /\ PromisesKept /\ ReadsLast /\ sent' = sent
      BY <1>1, <2>3
    <3>2. CommandsInOrder(j, w) /\ RequestsInOrder(Entering(j, w))
      BY <2>2
    <3> QED  BY <2>6, <2>7, <3>1, <3>2, CommandsStep, SMTT(60)
  <2>13. PICK e \in Nat : e = Entering(j, w)
    BY <2>12
  <2>14. PICK e1 \in Nat : EntersTo(e1, e)
    BY DEF EntersTo, IsRead, Bit
  <2>15. RequestsInOrder(e1)'
    <3>1. RequestsInOrder(e)
      BY <2>2, <2>13
    <3> QED  BY <1>1, <1>3, <2>3, <2>4, <2>14, <3>1, RequestsStep, SMTT(60)
  <2>16. RequestsInOrder(Entering(j1, w1))'
    <3>1. Entering(j1, w1)' = e1
      BY <2>12, <2>13, <2>14 DEF EntersTo
    <3> QED  BY <2>15, <3>1, Zenon DEF RequestsInOrder, ReadOf, ReadBurst, Place
  <2>17. Playing(k1, j1, w1)'
    BY <2>9, <2>11, <2>12, <2>16 DEF Playing
  <2> QED  BY <2>12, <2>17 DEF InOrder
<1> QED  BY <1>2, <1>3

LEMMA NextInOrder ==
    ASSUME WriteSide, RoomKept, InOrder, WritesSettle, [Next]_vars
    PROVE  InOrder'
<1>1. ASSUME NEW arrives \in BOOLEAN, NEW avl_ready \in BOOLEAN, NEW returns \in BOOLEAN,
             NEW drains \in BOOLEAN, Tick(arrives, avl_ready, returns, drains)
      PROVE  InOrder'
  <2>1. Types'
    BY NextWriteSide DEF WriteSide
  <2> QED  BY <1>1, <2>1, TickInOrder
<1>2. ASSUME Load PROVE InOrder'
  <2>1. ~play' /\ sent' = 0
    BY <1>2 DEF Load
  <2> QED  BY <2>1, Constants DEF InOrder
<1>3. ASSUME Play \/ Stop \/ UNCHANGED vars PROVE InOrder'
  <2>1. /\ UNCHANGED <<loads, inVars, fsmVars, tgVars, memVars, outVars>>
        /\ play' => play \/ (NoReads /\ sent >= MIN_WORDS)
    BY <1>3 DEF Play, Stop, vars, ctlVars
  <2>2. NoReads' <=> NoReads
    BY <2>1 DEF NoReads, fsmVars, tgVars, memVars, outVars
  <2>3. ASSUME NEW k, NEW j, NEW w, Playing(k, j, w) PROVE Playing(k, j, w)'
    <3>1. /\ \A n : Loops(n)' = Loops(n) /\ Place(n)' = Place(n) /\ ReadBurst(n)' = ReadBurst(n)
          /\ \A n : ReadOf(n)' = ReadOf(n)
      BY <2>1 DEF Loops, Word, Place, Pairs, ReadBurst, ReadOf, inVars
    <3>2. Lanes(k)' /\ Returns(k)' /\ Continues(k, j)'
      BY <2>1, <2>3 DEF Playing, Lanes, Returns, Continues, Came, Loops, Word, Place, Pairs,
                        inVars, memVars, outVars
    <3>3. CommandsInOrder(j, w)'
      BY <2>1, <2>3 DEF Playing, CommandsInOrder, ReadOf, ReadBurst, Place, Pairs, inVars, tgVars
    <3>4. RequestsInOrder(Entering(j, w))'
      BY <2>1, <2>3 DEF Playing, RequestsInOrder, Entering, ReadOf, ReadBurst, Place, Pairs,
                        inVars, fsmVars, tgVars
    <3> QED  BY <3>2, <3>3, <3>4 DEF Playing
  <2>4. sent' = sent
    BY <2>1 DEF inVars
  <2> QED  BY <2>1, <2>2, <2>3, <2>4 DEF InOrder
<1> QED  BY <1>1, <1>2, <1>3 DEF Next

\* The transmitter gets the words of the waveform in their order, over and over.
THEOREM WordsPlayedInOrder == Spec /\ []WritesSettle => []PlaysInOrder
<1>1. Init => InOrder
  BY Constants DEF Init, InOrder
<1>2. WriteSide /\ RoomKept /\ InOrder => PlaysInOrder
  <2> SUFFICES ASSUME WriteSide, RoomKept, InOrder, play, pair_reg # NoPair
               PROVE  /\ pair_reg[1] = IF heard = NoWord THEN Word(0) ELSE Succ(heard)
                      /\ pair_reg[2] = Succ(pair_reg[1])
    BY DEF PlaysInOrder
  <2>1. Types
    BY DEF WriteSide
  <2>2. sent \in Nat /\ sent > 0
    <3>1. sent \in Nat /\ sent >= MIN_WORDS
      BY <2>1 DEF RoomKept, Types
    <3> QED  BY <3>1, Constants
  <2>3. PICK k \in Nat : Lanes(k)
    BY DEF InOrder, Playing
  <2>4. pair_reg = <<Loops(k), Loops(k + 1)>>
    BY <2>3 DEF Lanes
  <2>5. Loops(k + 1) = Succ(Loops(k))
    BY <2>1, <2>2, LoopsAre
  <2>6. CASE heard = NoWord
    <3>1. k = 0
      BY <2>3, <2>6 DEF Lanes
    <3>2. 0 % sent = 0
      BY <2>2, Turns
    <3> QED  BY <2>4, <2>5, <2>6, <3>1, <3>2 DEF Loops
  <2>7. CASE heard # NoWord
    <3>1. k > 0 /\ heard = Loops(k - 1)
      BY <2>3, <2>7 DEF Lanes
    <3>2. k - 1 \in Nat /\ (k - 1) + 1 = k
      BY <3>1
    <3>3. Loops((k - 1) + 1) = Succ(Loops(k - 1))
      BY <2>1, <2>2, <3>2, LoopsAre
    <3> QED  BY <2>4, <2>5, <2>7, <3>1, <3>2, <3>3
  <2> QED  BY <2>6, <2>7
<1> QED  BY <1>1, <1>2, InitWriteSide, NextWriteSide, InitRoom, NextRoom, NextInOrder, PTL DEF Spec

-----------------------------------------------------------------------------
(* The ranges of the counters and registers.                               *)

BurstCount == burst_wr_cnt \in 0 .. MAX_WORDS

\* A row of bursts is of words that are there.
LEMMA NextBurstCount ==
    ASSUME WriteSide, BurstCount, [Next]_vars
    PROVE  BurstCount'
<1>1. burst_wr_cnt \in Nat /\ burst_wr_cnt <= MAX_WORDS /\ sent \in Nat /\ sent <= MAX_WORDS
      /\ write_addr \in Nat
  BY Constants DEF WriteSide, Types, Places, BurstCount
<1>2. ASSUME NEW arrives, NEW avl_ready, NEW returns, NEW drains,
             Tick(arrives, avl_ready, returns, drains)
      PROVE  BurstCount'
  <2>1. burst_wr_cnt' = (CASE fsm = "do_burst_write" /\ ready -> burst_wr_cnt + 1
                           [] fsm = "do_burst_write" /\ ~ready -> burst_wr_cnt
                           [] OTHER -> 0)
    BY <1>2 DEF Tick, BurstCounts
  <2>2. fsm = "do_burst_write" => burst_wr_cnt + 1 <= MAX_WORDS
    <3>1. fsm = "do_burst_write" => 0 <= write_addr - 2 * burst_wr_cnt /\ write_addr + 2 <= sent
      BY DEF WriteSide, BurstsPromised
    <3> QED  BY <1>1, <3>1, Constants
  <2>3. CASE fsm = "do_burst_write" /\ ready
    BY <1>1, <2>1, <2>2, <2>3 DEF BurstCount
  <2>4. CASE ~(fsm = "do_burst_write" /\ ready)
    <3>1. burst_wr_cnt' \in {burst_wr_cnt, 0}
      BY <2>1, <2>4
    <3> QED  BY <1>1, <3>1, Constants DEF BurstCount
  <2> QED  BY <2>3, <2>4
<1>3. CASE Load
  BY <1>3, Constants DEF Load, PlayerReset, BurstCount
<1>4. CASE Play \/ Stop \/ UNCHANGED vars
  BY <1>4 DEF Play, Stop, vars, fsmVars, BurstCount
<1> QED  BY <1>2, <1>3, <1>4 DEF Next

\* Every counter and register is in its range.
THEOREM InRange == Spec /\ []WritesSettle => []TypeOK
<1>1. Init => BurstCount
  BY Constants DEF Init, BurstCount
<1>2. WriteSide /\ RoomKept /\ BurstCount => TypeOK
  <2> SUFFICES ASSUME WriteSide, RoomKept, BurstCount PROVE TypeOK
    OBVIOUS
  <2>1. Types
    BY DEF WriteSide
  <2>2. idle_cnt \in 0 .. 5
    <3>1. idle_cnt \in Nat
      BY <2>1 DEF Types
    <3>2. idle_cnt <= 4 \/ idle_cnt \in {0, 5}
      BY DEF WriteSide, CountsKnown
    <3> QED  BY <3>1, <3>2
  <2>3. \A n \in Nat, m \in Nat : n <= m => n \in 0 .. m
    OBVIOUS
  <2>4. out_used \in 0 .. OUT_WORDS /\ wrusedw \in 0 .. OUT_WORDS
    <3>1. out_used \in Nat /\ wrusedw \in Nat /\ OUT_WORDS \in Nat
      BY <2>1, Constants DEF Types
    <3>2. out_used <= OUT_WORDS /\ wrusedw <= OUT_WORDS
      BY DEF RoomKept
    <3> QED  BY <2>3, <3>1, <3>2
  <2>5. Len(tg) <= TG_SIZE /\ Len(returning) <= RD_LATENCY
    <3>1. Len(tg) \in Nat /\ Len(returning) \in Nat
      BY <2>1, LenProperties DEF Types
    <3>2. Len(tg) + Bit(tg_reg.op # "none") < TG_SIZE /\ Len(returning) + Bit(pair # NoPair) <= RD_LATENCY
      BY DEF RoomKept
    <3>3. Bit(tg_reg.op # "none") \in {0, 1} /\ Bit(pair # NoPair) \in {0, 1}
      BY DEF Bit
    <3> QED  BY <3>1, <3>2, <3>3, Constants
  <2>6. ToSet(tg) \subseteq Cmds /\ ToSet(returning) \subseteq Words
    <3>1. tg \in Seq(Cmds) /\ returning \in Seq(Words)
      BY <2>1 DEF Types
    <3>2. /\ \A i \in DOMAIN tg : tg[i] \in Cmds
          /\ \A i \in DOMAIN returning : returning[i] \in Words
      <4>1. DOMAIN tg = 1 .. Len(tg) /\ DOMAIN returning = 1 .. Len(returning)
        BY <3>1, LenProperties
      <4>2. ASSUME NEW i \in 1 .. Len(tg) PROVE tg[i] \in Cmds
        BY <3>1, <4>2, ElementOfSeq
      <4>3. ASSUME NEW i \in 1 .. Len(returning) PROVE returning[i] \in Words
        BY <3>1, <4>3, ElementOfSeq
      <4> QED  BY <4>1, <4>2, <4>3
    <3>3. ToSet(tg) = {tg[i] : i \in DOMAIN tg} /\ ToSet(returning) = {returning[i] : i \in DOMAIN returning}
      BY DEF ToSet
    <3>4. ToSet(tg) \subseteq Cmds
      BY <3>2, <3>3
    <3>5. ToSet(returning) \subseteq Words
      BY <3>2, <3>3
    <3> QED  BY <3>4, <3>5
  <2>7. /\ {write_addr, write_max_words, read_addr, read_max_addr, read_burst_max_addr} \subseteq Places
        /\ {write_reg, read_reg, last_write, beat} \subseteq Bursts
        /\ {tg_reg, avl} \union ToSet(tg) \subseteq Cmds
    BY <2>1, <2>6 DEF Types
  <2> QED  BY <2>1, <2>2, <2>4, <2>5, <2>6, <2>7 DEF Types, TypeOK, BurstCount
<1> QED  BY <1>1, <1>2, InitWriteSide, NextWriteSide, InitRoom, NextRoom, NextBurstCount, PTL DEF Spec

=============================================================================
