----------------------------- MODULE WfmPlayer -----------------------------
(***************************************************************************)
(* The waveform player: wfm_player writes the words that the host loads    *)
(* into external memory, one after the other, and then reads them from     *)
(* there over and over into the FIFO of the transmitter.  It gives its     *)
(* commands to avalon_traffic_gen, which has a FIFO of them before the     *)
(* memory's port, and fetches the data of a write from the input FIFO when *)
(* the command gets its turn, not when the command is given.               *)
(*                                                                         *)
(* Tick is an edge of afi_half_clk, which drives everything here.  A word  *)
(* is 64 bits, and its value tells its waveform and its place there; two   *)
(* words make one of the transmitter's FIFO (16-bit samples).              *)
(***************************************************************************)
EXTENDS Integers, Sequences, SequencesExt

CONSTANTS
    MIN_WORDS, MAX_WORDS,   \* bounds: words in a waveform
    ADDRS,                  \* addresses of the memory, 2^avl_addr_width
    TG_SIZE,                \* avl_traffic_gen_buff_size
    RD_LATENCY,             \* avl_rd_latency_words
    OUT_WORDS,              \* wfm_outfifo_wrwords_size
    STALL,                  \* bound: edges for which the memory may not be ready
    LOADS                   \* bound: waveforms loaded

ASSUME WfmPlayerAssumption ==
    /\ MIN_WORDS \in Nat /\ MAX_WORDS \in Nat /\ 2 <= MIN_WORDS /\ MIN_WORDS <= MAX_WORDS
    /\ ADDRS \in Nat /\ ADDRS > MAX_WORDS
    /\ TG_SIZE \in Nat /\ TG_SIZE > 2
    /\ RD_LATENCY \in Nat /\ RD_LATENCY > 3
    /\ OUT_WORDS \in Nat /\ OUT_WORDS > RD_LATENCY + TG_SIZE
    /\ STALL \in Nat /\ LOADS \in Nat

VARIABLES
    load, play,         \* wfm_load and wfm_play_stop
    loads,              \* waveforms begun
    sent, taken,        \* words that came into the input FIFO, and left it
    rdusedw,            \* wfm_infifo_rdusedw
    fsm,                \* current_state
    burst_cnt_max, burst_wr_cnt, idle_cnt,
    write_addr, write_max_words,
    read_addr, read_max_addr, read_burst_max_addr,
    tstate,             \* state of avalon_traffic_gen
    do_write_reg, do_read_reg, write_reg, read_reg, last_write,
    tg_reg, tg,         \* the register before its FIFO, and the FIFO
    avl,                \* the command on the memory's port
    stall,              \* edges for which it has not been taken
    mem, beat,          \* the memory, and where it is in a burst
    returning,          \* words on their way back from it
    half, pair, pair_reg, \* registers of bit_unpack_64
    out_used, wrusedw,  \* words in the transmitter's FIFO, wfm_outfifo_wrusedw
    heard               \* the last word that was put there

ctlVars == <<load, play, loads>>
inVars == <<sent, taken, rdusedw>>
fsmVars == <<fsm, burst_cnt_max, burst_wr_cnt, idle_cnt, write_addr, write_max_words,
             read_addr, read_max_addr, read_burst_max_addr>>
tgVars == <<tstate, do_write_reg, do_read_reg, write_reg, read_reg, last_write,
            tg_reg, tg, avl>>
memVars == <<stall, mem, beat, returning>>
outVars == <<half, pair, pair_reg, out_used, wrusedw, heard>>
vars == <<ctlVars, inVars, fsmVars, tgVars, memVars, outVars>>

NoWord == -1
Junk == -2                              \* what is in a cell or register never written
NoCmd == [op |-> "none", addr |-> 0, size |-> 0, data |-> NoWord]
NoBurst == [addr |-> 0, size |-> 0]
NoPair == <<NoWord, NoWord>>

Word(place) == ADDRS * loads + place

PlayerReset ==
    /\ fsm' = "idle" /\ burst_cnt_max' = 0 /\ burst_wr_cnt' = 0 /\ idle_cnt' = 0
    /\ write_addr' = 0 /\ write_max_words' = 0
    /\ read_addr' = 0 /\ read_max_addr' = 0 /\ read_burst_max_addr' = 0
    /\ tstate' = "idle" /\ do_write_reg' = FALSE /\ do_read_reg' = FALSE
    /\ write_reg' = NoBurst /\ read_reg' = NoBurst /\ last_write' = NoBurst
    /\ tg_reg' = NoCmd /\ tg' = <<>> /\ avl' = NoCmd

Init ==
    /\ load = FALSE /\ play = FALSE /\ loads = 0
    /\ sent = 0 /\ taken = 0 /\ rdusedw = 0
    /\ fsm = "idle" /\ burst_cnt_max = 0 /\ burst_wr_cnt = 0 /\ idle_cnt = 0
    /\ write_addr = 0 /\ write_max_words = 0
    /\ read_addr = 0 /\ read_max_addr = 0 /\ read_burst_max_addr = 0
    /\ tstate = "idle" /\ do_write_reg = FALSE /\ do_read_reg = FALSE
    /\ write_reg = NoBurst /\ read_reg = NoBurst /\ last_write = NoBurst
    /\ tg_reg = NoCmd /\ tg = <<>> /\ avl = NoCmd
    /\ stall = 0 /\ mem = [a \in 0..(ADDRS - 1) |-> Junk] /\ beat = NoBurst
    /\ returning = <<>>
    /\ half = NoWord /\ pair = NoPair /\ pair_reg = NoPair
    /\ out_used = 0 /\ wrusedw = 0 /\ heard = NoWord

-----------------------------------------------------------------------------
(* avalon_traffic_gen *)

\* The FIFO of commands is declared full early, for the register before it.
TgFull == Len(tg) >= TG_SIZE - 2

Pending == do_write_reg \/ do_read_reg

ReadyWhenIdle == ~Pending
ready == ~Pending \/ (~TgFull /\ tstate = "idle")
wdata_req == ~TgFull /\ (tstate = "write_burst" \/ do_write_reg)

infifo_rdempty == taken = sent
wdata == IF infifo_rdempty THEN Junk ELSE Word(taken)

Cmd(op, burst, data) == [op |-> op, addr |-> burst.addr, size |-> burst.size, data |-> data]

tg_in == CASE wdata_req /\ tstate = "idle" -> Cmd("write", write_reg, wdata)
           [] wdata_req /\ tstate = "write_burst" -> Cmd("write", last_write, wdata)
           [] ~TgFull /\ tstate = "idle" /\ ~do_write_reg /\ do_read_reg ->
                Cmd("read", read_reg, NoWord)
           [] OTHER -> NoCmd

TgFsm ==
    tstate' = CASE ~TgFull /\ tstate = "idle" /\ do_write_reg /\ write_reg.size > 1 -> "write_burst"
                [] ~TgFull /\ tstate = "write_burst" -> "idle"
                [] OTHER -> tstate

\* The commands of the player, and its addresses and sizes.
TgInputs(do_write, write, do_read, read) ==
    /\ do_write_reg' = IF ready THEN do_write ELSE do_write_reg
    /\ do_read_reg' = IF ready THEN do_read ELSE do_read_reg
    /\ write_reg' = IF ready THEN write ELSE write_reg
    /\ read_reg' = IF ready THEN read ELSE read_reg
    /\ last_write' = IF ~TgFull /\ tstate = "idle" /\ do_write_reg THEN write_reg ELSE last_write

CanIssue(avl_ready) == avl_ready \/ avl.op = "none"

TgFifo(avl_ready) ==
    LET issued == CanIssue(avl_ready) /\ tg # <<>>
        written == IF tg_reg.op = "none" THEN <<>> ELSE <<tg_reg>>
    IN  /\ tg_reg' = tg_in
        /\ tg' = (IF issued THEN Tail(tg) ELSE tg) \o written
        /\ avl' = CASE issued -> Head(tg)
                    [] CanIssue(avl_ready) /\ tg = <<>> -> NoCmd
                    [] OTHER -> avl

-----------------------------------------------------------------------------
(* wfm_player: writing *)

Writes == fsm \in {"do_write", "do_burst_write"} /\ ready
WriteSize == IF fsm = "do_burst_write" THEN 2 ELSE 1

BurstCounts ==
    /\ burst_cnt_max' = rdusedw \div 2
    /\ burst_wr_cnt' = CASE fsm = "do_burst_write" /\ ready -> burst_wr_cnt + 1
                         [] fsm = "do_burst_write" /\ ~ready -> burst_wr_cnt
                         [] OTHER -> 0
    /\ idle_cnt' = IF fsm = "do_write_idle" THEN idle_cnt + 1 ELSE 0

\* write_max_words counts the words that are taken from the input FIFO.
WrittenWords == IF wdata_req THEN (write_max_words + 1) % ADDRS ELSE write_max_words

WriteRegsByWord ==
    /\ write_addr' = IF Writes THEN (write_addr + 1) % ADDRS ELSE write_addr
    /\ write_max_words' = WrittenWords
WriteRegs ==
    /\ write_addr' = IF Writes THEN (write_addr + WriteSize) % ADDRS ELSE write_addr
    /\ write_max_words' = WrittenWords

-----------------------------------------------------------------------------
(* wfm_player: reading *)

Reads == fsm = "do_read" /\ ready
LastIsSingle == read_addr = read_max_addr /\ write_max_words % 2 = 1
ReadSize == IF LastIsSingle THEN 1 ELSE 2

NextReadAddrTooFar == IF read_addr < read_max_addr THEN (read_addr + 2) % ADDRS ELSE 0
NextReadAddr == IF read_addr < read_burst_max_addr THEN (read_addr + 2) % ADDRS ELSE 0

ReadRegs ==
    /\ read_max_addr' = (write_max_words - 1) % ADDRS
    /\ read_burst_max_addr' = (write_max_words - 2) % ADDRS
    /\ read_addr' = CASE ~play -> 0
                      [] play /\ Reads -> NextReadAddr
                      [] OTHER -> read_addr

-----------------------------------------------------------------------------
(* wfm_player: the state machine *)

Goes(s, t) == fsm = s /\ fsm' = t

OutFifoHasRoomForWords == wrusedw < OUT_WORDS
OutFifoHasRoom == wrusedw < OUT_WORDS - RD_LATENCY - TG_SIZE

SettledAtOnce == TRUE
\* The words in the input FIFO are counted again some edges after a write.
Settled == idle_cnt > 3

\* The difference is unsigned: it wraps when burst_cnt_max is zero.
MoreBursts == burst_cnt_max = 0 \/ burst_wr_cnt < burst_cnt_max - 1

MayWriteWhileLoading == load
MayWrite == load \/ ~infifo_rdempty

WfmFsm ==
    \/ Goes("idle", CASE MayWrite -> "check_wfm_infifo"
                      [] ~MayWrite /\ play -> "check_wfm_outfifo"
                      [] OTHER -> "idle")
    \/ Goes("check_wfm_infifo", IF burst_cnt_max > 0 THEN "do_burst_write" ELSE "do_write")
        /\ ~infifo_rdempty /\ ready
    \/ Goes("check_wfm_infifo", "idle") /\ (infifo_rdempty \/ ~ready)
    \/ Goes("do_burst_write", IF ~ready \/ MoreBursts THEN "do_burst_write" ELSE "do_write_idle")
    \/ Goes("do_write", "do_write_idle")
    \/ Goes("do_write_idle", IF Settled THEN "check_wfm_infifo" ELSE "do_write_idle")
    \/ Goes("check_wfm_outfifo", IF OutFifoHasRoom /\ ready THEN "do_read" ELSE "idle")
    \/ Goes("do_read", CASE load \/ ~play -> "idle"
                         [] ~load /\ play /\ OutFifoHasRoom /\ ready -> "do_read"
                         [] OTHER -> "check_wfm_outfifo")

-----------------------------------------------------------------------------
(* The input FIFO, the memory, bit_unpack_64 and the transmitter's FIFO *)

\* The count of words may show a change one edge late.
InFifo(arrives) ==
    /\ sent' = IF arrives THEN sent + 1 ELSE sent
    /\ taken' = IF wdata_req /\ ~infifo_rdempty THEN taken + 1 ELSE taken
    /\ rdusedw' \in {sent - taken, sent' - taken'}

\* The memory takes the beats of a burst at the addresses that follow the first.
At == IF beat.size = 0 THEN avl.addr ELSE beat.addr
Memory(avl_ready, returns) ==
    LET writes == avl.op = "write" /\ avl_ready
        left == IF beat.size = 0 THEN avl.size ELSE beat.size
        read == IF avl.op = "read" /\ avl_ready
                THEN [i \in 1..avl.size |-> mem[(avl.addr + i - 1) % ADDRS]] ELSE <<>>
    IN  /\ mem' = IF writes THEN [mem EXCEPT ![At] = avl.data] ELSE mem
        /\ beat' = IF writes THEN [addr |-> (At + 1) % ADDRS, size |-> left - 1] ELSE beat
        /\ returning' = (IF returns THEN Tail(returning) ELSE returning) \o read
        /\ stall' = CASE avl.op = "none" \/ avl_ready -> 0
                        [] avl.op # "none" /\ ~avl_ready /\ stall < STALL -> stall + 1
                        [] OTHER -> stall

Unpack(returns) ==
    IF play
    THEN LET word == IF returns THEN Head(returning) ELSE NoWord
         IN  /\ half' = CASE returns /\ half = NoWord -> word
                          [] returns /\ half # NoWord -> NoWord
                          [] OTHER -> half
             /\ pair' = IF returns /\ half # NoWord THEN <<half, word>> ELSE NoPair
             /\ pair_reg' = pair
    ELSE half' = NoWord /\ pair' = NoPair /\ pair_reg' = NoPair

OutFifo(drains) ==
    IF play
    THEN /\ out_used' = out_used + (IF pair_reg # NoPair THEN 1 ELSE 0)
                                 - (IF drains THEN 1 ELSE 0)
         /\ wrusedw' \in {out_used, out_used'}
         /\ heard' = IF pair_reg # NoPair THEN pair_reg[2] ELSE heard
    ELSE out_used' = 0 /\ wrusedw' = 0 /\ heard' = NoWord

\* The memory takes no command while it has as many words to return as it may.
Busy == Len(returning) > RD_LATENCY - 2

\* An edge of afi_half_clk.
Tick(arrives, avl_ready, returns, drains) ==
    /\ arrives => load /\ sent < MAX_WORDS
    /\ ~avl_ready => stall < STALL \/ Busy
    /\ Busy => ~avl_ready /\ returns
    /\ returns => returning # <<>>
    /\ drains => out_used > 0
    /\ WfmFsm /\ BurstCounts /\ WriteRegs /\ ReadRegs
    /\ TgFsm
    /\ TgInputs(Writes, [addr |-> write_addr, size |-> WriteSize],
                Reads, [addr |-> read_addr, size |-> ReadSize])
    /\ TgFifo(avl_ready)
    /\ InFifo(arrives) /\ Memory(avl_ready, returns) /\ Unpack(returns) /\ OutFifo(drains)
    /\ UNCHANGED ctlVars

-----------------------------------------------------------------------------
(* The host, whose register writes are far apart. *)

\* No word is on its way to the memory.
NoWrites ==
    /\ ~do_write_reg /\ tstate = "idle" /\ beat.size = 0
    /\ \A cmd \in {tg_reg, avl} \union ToSet(tg) : cmd.op # "write"

\* Nor is one on its way from there, and the stopped player has come to rest.
NoReads ==
    /\ ~do_read_reg /\ returning = <<>> /\ fsm \notin {"check_wfm_outfifo", "do_read"}
    /\ \A cmd \in {tg_reg, avl} \union ToSet(tg) : cmd.op # "read"
    /\ read_addr = 0 /\ half = NoWord /\ pair = NoPair /\ pair_reg = NoPair /\ out_used = 0

\* wfm_load rises: this resets the player, stops it playing, and selects the
\* input FIFO, which was cleared when the host opened the stream.
Load ==
    /\ loads < LOADS /\ ~load /\ infifo_rdempty /\ fsm \notin {"do_write", "do_burst_write"} /\ NoWrites
    /\ load' = TRUE /\ play' = FALSE /\ loads' = loads + 1
    /\ sent' = 0 /\ taken' = 0 /\ rdusedw' = 0
    /\ PlayerReset
    /\ UNCHANGED <<memVars, outVars>>

\* The host sets wfm_play and clears wfm_load when it has sent all the words.
Play ==
    /\ ~play /\ sent >= MIN_WORDS /\ NoReads
    /\ load' = FALSE /\ play' = TRUE
    /\ UNCHANGED <<loads, inVars, fsmVars, tgVars, memVars, outVars>>

Stop ==
    /\ play /\ play' = FALSE
    /\ UNCHANGED <<load, loads, inVars, fsmVars, tgVars, memVars, outVars>>

Next ==
    \/ \E arrives, avl_ready, returns, drains \in BOOLEAN :
            Tick(arrives, avl_ready, returns, drains)
    \/ Load \/ Play \/ Stop

Spec == Init /\ [][Next]_vars

Returned == half' # half \/ Len(returning') < Len(returning)
Drained == IF pair_reg = NoPair THEN out_used' < out_used ELSE out_used' = out_used

\* The clock runs (only the host changes ctlVars), the memory answers reads and
\* the transmitter takes words from its FIFO.
Fairness ==
    /\ []<><<UNCHANGED ctlVars>>_vars
    /\ []<>(returning = <<>>) \/ []<><<Returned>>_vars
    /\ []<>(out_used = 0) \/ []<><<Drained>>_vars

FairSpec == Spec /\ Fairness

-----------------------------------------------------------------------------
(* Properties *)

Places == 0..(ADDRS - 1)
Words == {NoWord, Junk} \union {ADDRS * n + p : n \in 0..LOADS, p \in Places}
Cmds == [op : {"none", "write", "read"}, addr : Places, size : 0..2, data : Words]
Bursts == [addr : Places, size : 0..2]

\* Every counter and register is in its range: the input FIFO never gives more
\* than was put in, and the FIFO of commands and the counts of bursts and of
\* edges between writes stay small.
TypeOK ==
    /\ load \in BOOLEAN /\ play \in BOOLEAN /\ loads \in 0..LOADS
    /\ sent \in 0..MAX_WORDS /\ taken \in 0..sent /\ rdusedw \in 0..MAX_WORDS
    /\ fsm \in {"idle", "check_wfm_infifo", "do_write", "do_burst_write", "do_write_idle",
                "check_wfm_outfifo", "do_read"}
    /\ burst_cnt_max \in 0..MAX_WORDS \div 2 /\ burst_wr_cnt \in 0..MAX_WORDS
    /\ idle_cnt \in 0..5
    /\ {write_addr, write_max_words, read_addr, read_max_addr, read_burst_max_addr} \subseteq Places
    /\ tstate \in {"idle", "write_burst"} /\ do_write_reg \in BOOLEAN /\ do_read_reg \in BOOLEAN
    /\ {write_reg, read_reg, last_write, beat} \subseteq Bursts
    /\ {tg_reg, avl} \union ToSet(tg) \subseteq Cmds /\ Len(tg) <= TG_SIZE
    /\ stall \in 0..STALL /\ mem \in [Places -> Words]
    /\ Len(returning) <= RD_LATENCY /\ ToSet(returning) \subseteq Words
    /\ half \in Words /\ pair \in Words \X Words /\ pair_reg \in Words \X Words
    /\ out_used \in 0..OUT_WORDS /\ wrusedw \in 0..OUT_WORDS /\ heard \in Words

\* Each beat that goes to the memory carries the word that belongs at its
\* address: although the data of a write are fetched when its command gets its
\* turn, in avalon_traffic_gen, they are those that the state machine of
\* wfm_player meant, and no address is skipped.
StoresInOrder == avl.op = "write" => avl.data = Word(At)

\* write_max_words, which ends the waveform when it is played, is the number of
\* words that were taken from the input FIFO, so no write was begun for a word
\* that an earlier one had been promised.
CountsWords == write_max_words = taken

Succ(word) == Word((word - Word(0) + 1) % sent)

\* The transmitter gets the words of the waveform in their order from the first
\* one, over and over, with no gap where the waveform ends and begins again, an
\* odd number of words included, and nothing from a waveform loaded before.
PlaysInOrder ==
    play /\ pair_reg # NoPair =>
        /\ pair_reg[1] = IF heard = NoWord THEN Word(0) ELSE Succ(heard)
        /\ pair_reg[2] = Succ(pair_reg[1])

\* The transmitter's FIFO has room for all that was asked of the memory before
\* the count of its words shows it.
ReadsFit == play /\ pair_reg # NoPair => out_used < OUT_WORDS

\* Each word the host sends is stored in the end, those still in the input FIFO
\* when the host clears wfm_load and sets wfm_play included.
EveryWordStored == \A n \in 1..MAX_WORDS : sent >= n ~> taken >= n /\ NoWrites

\* A player that is not stopped comes back to the start of the waveform again
\* and again: the reads never wait for words that do not come.
PlayGoesOn == []<>(~play) \/ []<>(pair_reg[1] = Word(0))
=============================================================================
