# A verification development of the LimeSDR-QPCIe gateware

The gateware moves packets of samples between a PCIe host and an RF
transceiver, synchronises them to a sample counter, and carries a soft CPU
whose firmware answers control commands.  This directory holds TLA+ modules
translated from the VHDL sources, TLC configurations that check them on small
instances, and proofs checked by TLAPS.

Paths below are relative to `src/limesdr-qpcie-lms7_trx/src/` unless they start
with `software/`, which is next to it.

Contents: 1 the system, 2 the plan, 3 the modules and the code, 4 the runs,
5 fairness, 6 the proofs, 7 what is left to TLC and what is not modelled.

## 1. The system

Data flow.  The host writes transmit packets (a header of 128 bits and 4080
bytes of samples) into a stream FIFO behind the PCIe core.  The *TX packet
unpacker* takes them one at a time, drops those whose sample number has passed,
keeps the others in a ring of buffers and plays each at its sample number into
the sample FIFO from which the transceiver is driven.  In the other direction
the receive interface fills a sample FIFO, two counters number the samples, and
the *RX packetiser* cuts the stream into packets with a header that carries the
number of the first sample and a flag that tells the host that transmit packets
were dropped.  Beside these two paths a *waveform player* stores a waveform in
DDR memory and replays it, and FSMs that the host starts *reconfigure the PLLs
and search for their best phase* by comparing received samples with a test
pattern.

Everything is synchronous logic on several unrelated clocks.  Inside one clock
domain nothing interleaves, but decisions are taken on values that are several
registers old; between domains, flags and pulses arrive late and at an
uncertain edge.  That is where the difficulty of this design lies, and what the
properties are about.

| component | source | state and operations | how it interacts | what is hard | what makes it correct |
|---|---|---|---|---|---|
| TX packet unpacker | `tx_path_top/packets2data/synth` | write FSM, read FSM, ring of packet buffers, captured headers, comparator pipelines; take, drop, store, start, play, discard a packet | reads the stream FIFO through a request and data pipeline, asks for it to be cleared, fills the sample FIFO | decisions on comparisons five cycles old, exact fill comparisons, two FSMs that share a ring without locks | whole packets, in order, at their time; only late ones dropped; neither side blocks |
| TX stream FIFOs | `pcie/two_fifo_inst.vhd` | two FIFOs and a transfer FSM; move a packet, clear it | bus clock in front, TX clock behind; cleared from the TX clock | an asynchronous clear that must take exactly the rest of one packet | holds one packet at a time, no word lost, never stuck |
| RX packetiser | `rx_path_top/data2packets/synth`, `rx_path_top/bit_pack/synth` | reading FSM, packing pipeline, packet former; read the samples of a packet, write it or skip it | reads the sample FIFO, writes the packet FIFO, takes the header from the RX path | space looked at once per packet while older words are on their way | every packet whole, never overflows, reading ends |
| RX path and sample counters | `rx_path_top/rx_path/synth`, `rx_path_top/smpl_cnt/synth` | sample FIFO, counters of samples written and read, delay chain of the header, resets | sets the time for the TX path, takes the loss flag from it | the header's number and the samples travel on different pipelines that must have equal length, for every sample width | the number in a header is that of the packet's first sample |
| PCIe endpoint FIFOs | `pcie` (but `two_fifo_inst`) | FIFOs between the Xillybus core and the design, open and close of each stream | reset by the host's open and close | a reset of one side only | what the host reads and writes stays aligned to packets |
| TX packet loss flag | `tx_path_top/tx_path/synth/tx_path_top.vhd` | flag, edge detectors | raised on the TX clock, read on the RX clock, lowered by a signal that comes back | a loss that falls between the taking of a header and the arrival of its signal | each loss told once, none forgotten |
| TX path top, rxtx_top | `tx_path_top/tx_path/synth`, `rxtx_top/synth` | synchronisers, packet-ready threshold, clear of the stream FIFO, resets, mux of the player | glue of the paths | thresholds one word off | see the paths |
| PLL phase search | `dyn_ps/synth`, `rx_path_top/smpl_cmp/synth`, `rx_pll_top_cyc5/synth` | search FSM, shift controller, sample comparator; reset, shift, compare, go to the middle | the host starts and stops it; comparator on the clock under search, which stops while the PLL is unlocked | completion taken from the fall of busy; results through separate synchronisers | every shift counted once, verdict is of this phase, success means samples are right, ends |
| PLL top | `pll_top` | ORed comparator enable, bus multiplexer | shared by the TX and RX searches and by reconfiguration | two searches at once | one user of the bus and comparator at a time |
| PLL configuration | `spi/pllcfg.vhd`, `spi/pll_ctrl.vhd`, `software/nios4usb_app/pll_rcfg.c` | index, settings and start bits, status; reconfigure, reset | the host writes registers through the firmware, whose loop samples the start bits and writes the status | a start is sampled one round before it is acted upon, a status read before the new start was seen | what is configured is what was asked for, once |
| Waveform player | `wfm_player/synth`, `avalon_traffic_gen/synth`, `tx_path_top/bit_unpack/synth` | player FSM, command generator with its FIFO, unpacker, output FIFO; load, store, play, loop, stop | input FIFO from PCIe, DDR controller, transmitter | word counts known late, data fetched when a command gets its turn, reads in flight | words stored in order and counted, replayed in order with no gap, FIFOs never overflow |
| NIOS firmware | `software/nios4usb_app` | endless loop: PLL starts, tamer, one request of the host | FIFOs to the PCIe control endpoint, SPI and I2C, memory-mapped registers | one loop polls everything; answers carry no number; the streams may be closed in the middle | each answer belongs to its request |
| VCTCXO tamer | `vctcxo_tamer`, `software/nios4usb_app/vctcxo_tamer.c`, its part of `main.c` | counters between GPS pulses, interrupt bit; coarse and fine tuning states, cached DAC setting | the loop polls the interrupt bit and the host's enable bit one after the other, and sets the DAC | an error counted before or across a change of the DAC; an interrupt beside a disable | each error is used for the setting it was counted under; a disabled tamer is quiet |
| GNSS and NMEA parser | `limegnss_gpio` | parser FSMs | UART | - | not instantiated by the top |
| SPI configuration registers | `spi` | shift register, address and data phase FSM, register file | host and firmware write, all blocks read | bits used on other clocks | a write changes one register |
| LMS7002 interfaces | `rx_path_top/diq2fifo`, `tx_path_top/fifo2diq`, `lms7002` | DDR capture, sample formats, prefetch of TX samples | fill and drain the sample FIFOs | valid strobes with a fixed rhythm | samples in order |
| Clock-domain helpers | `general`, `tx_path_top/handshake_sync`, `tx_path_top/pulse_gen`, `tx_path_top/tx_path/synth/sync_fifo_rw.vhd` | registers, request and acknowledge pairs | everywhere | pulses shorter than the other clock | each pulse arrives once |
| ADC and DAC interfaces | `adc`, `dac5672` | capture registers | - | fixed-rate data | - |
| Peripheral pins, LEDs, self test | `74HC595`, `general_periph`, `self_test` | shift registers, counters | pins | - | pins mirror the registers |
| Legacy modules | `avmm_arb`, `wfm_ram_buffer`, older FSMs of `packets2data` | - | not instantiated | - | - |
| Signal processing | `lms_nco`, `hb`, `invsinc`, `cfr`, `adpd`, `correctors` | arithmetic | - | - | - |
| Vendored and generated | Xillybus core, Intel IP, NIOS system and its support package | - | external | - | - |

`PROJECT.json` lists every component with its exact sources, and under
`hazards` the places where the code is hard to test, each at its line with the
properties that watch it.

## 2. The plan

Order: the TX path first (the hardest control), the RX path, what joins the
two, then the blocks beside them.

1. **TX packet unpacker**: `P2dWr`, `P2dRd`, `Packets2Data`; the control,
   then packets and their times, proved in `Packets2Data_proofs`.  *Done.*
2. **TX stream FIFOs**: `TwoFifo`; `TxInput` composes it with `P2dWr` on two
   clocks; abstract specification `PacketSlot`, implemented by `TxInput` and
   relied on by `Packets2Data`; proofs in `TxInput_proofs`.  *Done.*
3. **RX path**: `Data2Packets`; `RxPath` composes it with FIFOs, counters and
   host; the control, then the numbers, proved in `RxPath_proofs`.  *Done.*
4. **Loss flag** between both paths: `LossFlag`, proofs in `LossFlag_proofs`.
   *Done.*
5. **PLL phase search**: `PhaseSearch`, proofs in `PhaseSearch_proofs`.  *Done.*
6. **Waveform player**: `WfmPlayer`, proofs in `WfmPlayer_proofs`.  *Done.*
7. **VCTCXO tamer**: `VctcxoTamer`, firmware and counters together; proofs in
   `VctcxoTamer_proofs`.  *Done.*
8. **Control channel and PLL configuration**: `NiosControl`, the firmware's loop
   between the host and the PLLs; proofs in `NiosControl_proofs`.  *Done.*
9. Clock-domain helpers: `handshake_sync` and `pulse_gen` against an abstract
   channel that delivers each pulse once; the sample-FIFO prefetch of the
   transmit interface; the SISO and MIMO modes of the sample counter.
10. PLL top: two searches that share comparator and bus, on top of
    `PhaseSearch`.
11. Pure algorithms: the slices of `bit_pack` and `bit_unpack` for 12 and 14
    bits against the concatenation of samples; the shift registers of the pins.

Abstract specifications worth stating: the packet slot (done); the RX path as a
source of numbered packets with gaps only where packets were skipped; a channel
that delivers each pulse once; the player as an endless replay.

Theorems, in order: type correctness and the inductive invariants of the
unpacker, their consequences and its use of the slot (done); `LossKept` and
`EachLossToldOnce` (done); the invariants of the tamer and of the control
channel (done); those of the RX path and of the phase search (done); `TxInput`
implements the slot (done); `CountsWords` and `PlaysInOrder` of the player
(done).

## 3. The modules and the code

Modelling conventions.  In the gateware, one action is one edge of a clock: all registers of the
domain change at once, primed variables are the D inputs.  Names of signals and
states are those of the VHDL where two blocks do not share one (then a prefix:
`w_state` and `r_state`, `t_state`, `fsm`, `tstate`).  A combinational signal
is an operator.  A data word stands for its packet and its place in the packet,
or for its number in the stream; nothing in the control looks at sample bits.
Comparators that report in pipeline stages keep their stages.  A dual-clock
FIFO of the vendor is its contents and flags; a flag that has to cross may lag
(`lag`, `fresh`, a choice between old and new value), always to the safe side,
as the vendor's FIFOs do.  Reset is an action only where the program can
be reset in the middle of an operation without everything else being reset.
The firmware is one thread: its position in the endless loop is `pc`, and a
stretch of it between two looks at what others change is one action.

| module | models | actions |
|---|---|---|
| `P2dWr` | `p2d_wr_fsm.vhd`: the write FSM, read request pipeline, comparators | `WrTick` |
| `P2dRd` | `p2d_rd.vhd`: header array, comparators per buffer, multiplexer, read FSM | `RdTick` |
| `Packets2Data` | `packets2data.vhd` with its buffers, and the part of `rxtx_top.vhd` that feeds it; sample number from the receive side | `Tick(full, fresh)`: one edge, with the sample FIFO full or not and some flags catching up |
| `TwoFifo` | `two_fifo_inst.vhd` | `BusTick` |
| `TxInput` | `TwoFifo`, `P2dWr`, the host and the stream of `pcie_top.vhd`, on two clocks | `Bus`, `Tx`, `Reopen` |
| `PacketSlot` | abstract: a slot for one packet | `Fill`, `ReadHeader`, `ReadData`, `Clear`, `Withdraw` |
| `Data2Packets` | `data2packets_fsm.vhd`, `data2packets.vhd`, `bit_pack` | `D2pTick`, `D2pReset` |
| `RxPath` | `rx_path_top.vhd`, sample counters, `delay_chain.vhd`, packet FIFO of `pcie_top.vhd`, host | `Tick(written, taken)`, `Close`, `Disable` |
| `LossFlag` | flag of `tx_path_top.vhd`, its synchronisers, header signal of `data2packets.vhd` for packets that `data2packets_top.vhd` writes and does not write | `TxEdge`, `RxEdge` (`HeaderTaken`, `PacketEnds`, `PacketGoesOn`) |
| `PhaseSearch` | `pll_ps_fsm.vhd`, `pll_ps_av.v`, `smpl_cmp.vhd`, synchronisers; the PLL, the bus and the host from their use | `PsEdge`, `RxEdge`, `PllLocks`, `Host` |
| `WfmPlayer` | `wfm_player.vhd`, `avalon_traffic_gen.vhd`, `unpack_64_to_64.vhd`, FIFOs of `wfm_player_x2_top.vhd`; memory, transmitter and host from their use | `Tick`, `Load`, `Play`, `Stop` |
| `VctcxoTamer` | `vctcxo_tamer.c`, the tamer's part of the loop in `main.c`, `vctcxo_tamer.vhd`, `pps_counter.vhd` | hardware: `Pps`, `CountValid`, `HoldOver`; loop: `PollIrq`, `vctcxo_tamer_isr_stop`, `vctcxo_tamer_isr_read`, `PollEnable`, `CoarseTuneMin`, `CoarseTuneMax`, `CoarseTuneDone`, `FineTune`, `NoRequest`; commands: `NoCommand`, `SetEnable`, `SetDac`, `ReleaseDac` |
| `NiosControl` | the loop in `main.c`, `GetPLLCFG_Base`, `ResetPLL`, `UpdatePLLCFG`, the end of `start_Reconfig`; the control FIFOs of `pcie_top.vhd`; the host from its use | loop: `ServeConfiguration`, `ServeReset`, `SampleStarts`, `NoRequest`, `BrdspiWr`, `BrdspiRd`, `OtherRequest`, `WriteAnswer`; host: `Open`, `SendRequest`, `ReadAnswer`, `Close` |

How they compose.  `Packets2Data` takes for granted that the stream FIFO holds
one packet at most, whole when first seen.  `TxInput` shows that the two FIFOs
with their transfer FSM and the *same* `P2dWr` behave like that, for any
pattern of late packets and busy buffers: both modules have `PacketSlot` as a
property under a refinement mapping, and for both it is also proved (`UsesSlot`
and `FifosAreSlot`).
The sample number that `Packets2Data` sees moves by steps chosen freely from a
set, which covers a counter that comes late over `sync_fifo_rw` and skips
values.

Facts about single modules that a reader of the code will look for:

* `Packets2Data`: the reset of both paths is not an action.  The host's `rx_en`
  resets every register and clears every FIFO of the TX path at once, so what
  follows is again a behaviour of `Spec`.  The comparison of 64-bit sample
  numbers is in three parts with three pipeline stages, here three verdicts of
  which the model keeps the order of arrival.
* `TxInput`: `CLOSES` lets the host close and reopen the stream while the
  unpacker waits for a packet.  Closing in the middle of the taking of a packet
  resets one side of the pair only and needs `rx_en` too, as the host's library
  does; it is not modelled.
* `RxPath`: sample *words* are numbered; the number in a header is that of the
  first word.  Groups of words become packed words as `bit_pack` does: 3 to 4
  words for 12 bits, 7 to 8 for 14 bits, 1 to 1 for 16 bits, with the two edges
  more that `pack_56_to_64` takes.  `NUMBERS` is the modulus of the 64-bit
  counters.  The sample width is a variable that the host sets while the path
  is off.  `Disable` is `rx_en` cleared and set again with the stream open:
  `rx_path_top` and `lms7_trx_top` connect a clear of the packet FIFO for that
  case, which `pcie_top` takes as a port and does not use, so the piece of the
  packet on its way stays in the FIFO.  The history variable `cut` says that
  the last packet may be such a piece; `WholePackets` allows that one and no
  other.
* `LossFlag`: `raced`, `pending` and `skipped` are history variables for the two
  ways in which the design forgets a loss.  A packet cleared between the taking
  of a header and the arrival of its signal on the TX side sets a flag that this
  signal then lowers (`raced`).  And the header of an RX packet that is not
  written, for want of room in the packet FIFO, takes the bit and lowers the
  flag like any other, although the host never reads it (`skipped`;
  `data2packets_top.vhd:188-199` and 290).  `LossKept` states that there is no
  third way, which is a limit of the design and no claim of its text.
* `PhaseSearch`: automatic mode only.  `pll_ps_av` is reduced to idle, write,
  poll and end, with the bus and the PLL answering at any edge.  The reset of
  the PLL takes its phase to zero and unlocks it, which stops the clock of
  `smpl_cmp`; it locks later.  `ps_reset_at_start` is 1 as wired in
  `pll_ps_top`.  If no wrong phase follows the window, because it reaches the
  end of the range, `check_max_steps` counts one step that was not shifted: the
  final phase is then one less than the middle, may be outside a window of a
  few steps at the very end, and the search then reports an error.
  `EndsInTheMiddle` is about windows that a wrong phase follows; `OkMeansRight`
  is about all.  `PhaseSearchAssumption` takes the length of a comparison to be
  at least 1: with `cmp_length` 0, which the host may write, `smpl_cmp.vhd:177`
  compares its 16-bit counter with 0 - 1, which wraps: the comparison then ends
  only at a wrong sample, and the search hangs at a right phase.  `SearchEnds`
  is checked for a host that waits for the end of a search (`HOST_WAITS`);
  whether a search that follows an aborted one ends is not.
* `WfmPlayer`: a word carries the number of the waveform it belongs to, so that
  a stale one is told apart.  The host loads a waveform once the words of the
  one before are in memory and starts to play once its own register writes,
  which take thousands of clock edges, are done (`NoWrites`, `NoReads`).
* `VctcxoTamer`: in this build `lms7_trx_top` ties the enable and interrupt bits
  to zero and does not instantiate `limegnss_gpio_top`, which holds the tamer;
  the loop then does all this without effect.  The module is the firmware and
  the tamer as `limegnss_gpio_top` connects them.  An error is its age: "now"
  while the DAC keeps the setting that it was counted under, "old" once the DAC
  has been set, before the end of the count or after; the arithmetic of the
  line, its casts to 16 bits included, is left out.
  The loop looks at the interrupt bit and then at the enable bit (`main.c:955`
  and 964), and the pulses of the reference are asynchronous to both.  If a
  count ends between the two looks and the host has cleared the enable bit, the
  tamer is disabled with an interrupt left over.  The next round serves it:
  `COARSE_TUNE_MIN` runs although the tamer is disabled, sets the DAC to its
  lowest value and enables interrupts again.  When the host enables the tamer
  later, `vctcxo_tamer_init` leaves a request that runs `COARSE_TUNE_MAX` at once,
  with the error of before, so point 0 of the line is wrong.  So the comment of
  `vctcxo_tamer_dis` ("Default VCTCXO Tamer and its interrupts to be disabled")
  holds but for this case.  The history variable `late` names the case and
  `spoilt` the points of the line that it spoils; `QuietWhenDisabled` and
  `LineThroughItsPoints` say what holds otherwise and how far the damage goes.
  The host may also write to the DAC (`SetDac`) or three-state it
  (`ReleaseDac`) at any time, as the handlers in `main.c` have no guard; a
  three-state keeps the cached setting, which then is not that of the DAC.
  Errors counted meanwhile are true of no setting of the tuning, and the
  properties are about the others (`HostHasDac`).
* `NiosControl`: a start is acted upon one round after the loop has sampled it,
  with the settings the registers hold by then; one request is served in
  between.  So the host must leave them alone until it has looked at the
  status, and its first look may still show the end of the configuration
  before (`SecondLookIsTrue`); the busy status is never seen at all, because
  nothing is served while a configuration is made.  A reset of a PLL that is
  started together with a configuration writes its own status over that
  configuration's error.  An index without a reconfiguration block means the
  first PLL for `UpdatePLLCFG` and none for `ResetPLL`, which is how
  `ConfiguredAsAsked` states it.
  The reset of the answer FIFO that the loop toggles before each request
  (`F2H_C0_aclrn`) is not connected in `pcie_top`: that answers stay in step
  is owed to a host that reads every answer or closes the streams.  A host that
  gave up on an answer without closing would take it for that of its next
  request; one that reopens sooner than a request takes to be served would find
  its answer: both are left out by `SendRequest` and `Open`.
  Requests that change nothing modelled (`main.c:1114-1215` and 1249-1450) are
  `OtherRequest`; of these, reading an unknown analog channel and an unknown
  kind of LMS7002 reset are answered as completed too.  Those that set the DAC
  are actions of `VctcxoTamer`.

## 4. The runs

| run | module, size | shows |
|---|---|---|
| `tx_unpacker` | `Packets2Data`; 2 buffers, packets of 3 words, 3 packets, a sample counter up to 6 | the FSMs agree about every word (`InStep`, the inductive invariant of the proofs); only late packets are dropped; packets are delivered whole, in order and at their time; the unpacker uses the FIFO as a slot |
| `tx_unpacker_live` | the same with 2 packets | every packet leaves the stream FIFO and every buffer |
| `tx_input` | `TxInput`; chunks of 2 words, 3 chunks, 3 packets, close and reopen | a clear takes exactly one packet; the FIFOs implement the slot, so no word is lost; every packet is taken |
| `rx` | `RxPath`; 12 bits with packets of 2 groups and 16 bits with packets of 8, changed at a close; host closes, disables, and reads everything or nothing | samples that are asked for are there, none is dropped, packets are whole and numbered right, there is room for them, and they keep coming |
| `rx_14_number` | `RxPath`, 14 bits | **violated**: `HeaderNumbersSamples` |
| `loss_flag` | `LossFlag`; clocks up to 3 to 1 either way, shortest packets that the assumption allows | each loss is told once, and kept unless it races with a header or goes into the header of a packet that is not written |
| `phase_search` | `PhaseSearch`; 4-bit counters, steps of 2 and 3, five windows | shifts are counted, verdicts are fresh, the search ends, in the middle of the window |
| `phase_search_abort` | `PhaseSearch`; 3-bit counters, one window, host may stop a search at any time | success means that samples are right, also after a search that was aborted |
| `wfm_player` | `WfmPlayer`; up to 4 words, 2 waveforms, memory stalls by 1 edge | words stored in order, counted, replayed in order; FIFOs never overflow; everything is stored and replay goes on |
| `wfm_player_stall` | `WfmPlayer`; up to 6 words, memory stalls by up to 4 edges | **violated**: `CountsWords` |
| `tamer` | `VctcxoTamer`; counters of 2 and 4 pulses that end at any moment, host enables, disables, sets and releases the DAC at any time | errors are used for the setting they were counted under, a disabled tamer is quiet, both but for the cases that the history variables name, and the coarse tuning ends |
| `nios` | `NiosControl`; two PLLs, an index that names none, two settings, timeouts, close and reopen | answers belong to requests; what was asked for is configured, once, and never lost; the second look at the status is true |

### Bounds, and why they are enough

* `tx_unpacker`: with two buffers each one is next to both its neighbours and
  with three packets the ring wraps around.  A packet of three words has a
  first, a middle and a last word, so every comparison of the counters (equal
  to zero, less than the end, the end) is taken both ways.  Packets for sample
  number 1 with a counter from 0 to 6 come early, on time and late, and become
  late in a buffer; the counter goes beyond 1 + 4, so that a start later than
  `StartsOnTime` allows would be seen.  The code has 2 buffers (`g_TX_N_BUFF`; 4 is the other size it allows) and 256 words; the
  proof covers all sizes.
* `tx_input`: two words in a chunk, three chunks, and two FIFO words per word
  of the unpacker are the least that tell each counter's end from its start.
  `MAX_PACKETS` 3 lets a clear meet a following packet that is partly sent.
* `rx`: 20 words of packet FIFO hold a packet and part of the next;
  `HOST_WORDS` 0 makes the host read everything or nothing, so that the FIFO
  does run full and packets are skipped.  `NUMBERS` is small so that the
  counters wrap.  `WRITE_GAP` is the rhythm of the receiver, one word every
  2 edges at most in the code.  The run uses 3: about ten edges pass between the
  reading of two packets whatever their size, which is little beside the 510 or
  680 words of a real packet but would outlast the 8 words of the model at the
  full rate (TLC then finds the sample FIFO overflowing, as it should).  With 3
  the model has the same order of slack as the code.  Packets of 16-bit samples
  follow each other closest and are long enough that the words of one have
  been written when room for the next is looked for; `Data2PacketsAssumption`
  says how long.
* `loss_flag`: `FORMING` 5 and `APART` 5 are the shortest times, one of them by
  one edge, that `LossFlagAssumption` allows for clocks that differ by 3 to 1;
  the code has hundreds of edges.  Everything else is boolean, and the proof
  covers all values.
* `phase_search`: 16 phases with five windows: inside, of one phase, at the
  start, reaching over the end, and beyond the range.  `SETTLE` stands for 254
  edges and `CMP_LENGTH` for up to 65535: they are counts that end, and one of
  each is enough because nothing else depends on their length but the skew of
  the synchronisers, which is modelled.
* `wfm_player`: lengths 2, 3 and 4 are even and odd and one burst or two; the
  command FIFO has 4 places instead of 16, reads in flight 4 instead of 64, the
  output FIFO is as much larger as the code leaves (limit 175 of 255).  `STALL`
  1 means that the memory refuses at most one edge in a row; longer stalls fill
  the command FIFO, which is `wfm_player_stall`.  `MIN_WORDS` 2 leaves out a
  waveform of a single word.  The proofs cover all sizes and stalls, if
  `RD_LATENCY` exceeds 3 (the limit of the output FIFO needs room for what was
  asked for before its count shows it).
* `tamer`: the counters end after 2 and 4 pulses instead of 1, 10 and 100: the
  longer one ends in the middle of the second count of the shorter, and a count
  can be cut by anything that happens between two pulses.  The proof covers all
  lengths and any number of counters.  The commands of the host are not bounded.
* `nios`: with two settings, a new one is told from the old; the numbers of
  requests alternate, so that an answer left over from the request before is
  told from the right one.  Nothing else is bounded, and the proof covers any
  PLLs, indices and settings.
* All counters of packets and loads (`MAX_PACKETS`, `MAX_SAMPLE_NR`, `LOADS`)
  only end the run; no guard of the code depends on them.

### What the violations show

1. `rx_14_number`.  The delay chain of the header is six registers for every
   sample width, though `pack_56_to_64` gives its first word two edges later
   than `pack_48_to_64`.  With 14-bit samples a header carries the number of the
   second word of the packet: it is off by one word.
2. `wfm_player_stall`.  `wfm_player` waits a fixed number of edges after a write
   to know how many words are left.  If the command FIFO is full then, the word
   leaves the input FIFO later, and a second write may be begun for the same
   word: `write_max_words` counts one too many.  With 6 words, 4 places and
   stalls of at most 3 edges it does not happen: the memory has to refuse for
   long enough to fill the command FIFO.

`TypeOK` of `Packets2Data` is an invariant of its run, being part of what is
proved to be inductive; those of the other modules are stated where the reader
looks for the ranges, and no run lists them: they are proved for `TxInput`, `RxPath`,
`PhaseSearch`, `VctcxoTamer` and `NiosControl`, and for `WfmPlayer` under the
hypothesis of its other theorems.

## 5. Fairness, and why the code justifies it

All fairness is on clocks and on the environment; nothing is assumed of a
choice inside a block.

* `Packets2Data`, `TxInput`: the clocks run, and a flag that lags catches up
  (the vendor's FIFOs settle in two or three edges of the other clock).  The
  sample number keeps growing: the receiver delivers samples all the time.  The
  transmitter drains its FIFO: strong fairness on "a step that finds it not
  almost full while the reader reads", since the reader holds while it is
  almost full and nothing else fills the FIFO.  In `TxInput` a host that has
  begun a packet completes it, and buffers become free again and again, which
  `BuffersDrain` of `tx_unpacker_live` justifies.
* `RxPath`: the clock runs, samples arrive, and the host reads everything now
  and then.  `PacketsArrive` excepts a host that stops the path for ever.
* `PhaseSearch`: both clocks run (that of the comparator only while the PLL is
  locked), the PLL locks again after a reset, the bus answers.  Nothing is
  assumed of the host: `SearchEnds` does not need it.
* `WfmPlayer`: the clock runs, the memory answers reads, the transmitter takes
  words.  Stated with `[]<>` over observed progress, since these are parts of
  one step of the clock.  That the memory takes commands follows from `STALL`.

* `VctcxoTamer`: the loop goes on, the pulses of the reference keep coming while
  the tamer is on (weak fairness), the reset of the counters is over and counts
  that have ended are handed over although the loop may stop the counters again
  (strong fairness: that takes 850 us or less than a second, and the loop stops
  them only for an interrupt).  `TuningEnds` is about a host that leaves the
  tamer enabled and the DAC alone.  It rests on two facts of the hardware: a
  count at the lowest or highest setting of the DAC is always off by more than
  the tolerance (`Verdicts`), and the hold of the counters outlasts a step of
  the tuning (`HoldOver`).
* `NiosControl`: the loop goes on.  Nothing is assumed of the host, and a
  configuration is made even if it goes away.

Deadlock is checked in every run: the clocks can always tick.

## 6. The proofs

### The TX packet unpacker

`Packets2Data_proofs` proves for every number of buffers, every packet size and
every set of sample-number steps (`WrAssumption` and `P2dAssumption`: `N_BUFF >= 2`, `PCT_WORDS >= 3`, constants
have their types, and the steps have a largest one):

| theorem | says |
|---|---|
| `TypeCorrect` | every register and counter stays in its range |
| `ControlStaysInStep` | stream FIFO, read pipeline, counters of both FSMs and fill of the buffers agree at every edge |
| `StreamReadsAreServed` | `p2d_wr_fsm` never requests a word of an empty stream FIFO |
| `BuffersHaveRoom` | no buffer is filled beyond one packet |
| `ReaderStaysInStep` | `p2d_rd` counts exactly the words its buffer holds, and clears only whole packets |
| `UsesSlot` | the unpacker implements `PacketSlot` without `Withdraw`: every edge of the clock is a step of the slot or leaves it alone |
| `StaysInStep` | every header, word and verdict belongs to the packet that the FSMs take it for, and the ring of buffers is in order (`InStep`, which the run checks) |
| `BuffersHoldOnePacket` | a buffer holds words of one packet, the one whose header is compared |
| `OnlyLateAreDropped` | a packet is dropped only when its own sample number has passed |
| `OutputStaysInOrder` | the output is whole packets in the order of the host |
| `StartsAreOnTime` | a synchronised packet starts at its sample number, or at most four steps later |

The argument.  The properties one wants are not inductive, because the FSMs do
not look at what they rely on: a buffer is ready if its fill *equals* the size
of a packet, the end of a packet is a count of requests made two registers
earlier, and a buffer is free according to a flag that may be old.  The control
half of the invariant, `ControlInStep`, says where every word is:

* `WrInStep`: for each state of the write FSM, what is in the stream FIFO, the
  request and valid registers and the two counters, as a function of one another
  (for instance while reading, the words left are those not requested plus
  the one in the request register);
* `StreamInOrder`: the word last read is the one before the first that is left,
  so that the header captured and the data written are of the same packet;
* `WrBuffers`: the buffer being written holds exactly the words that have come
  through the pipeline; the next one is another buffer and is empty when the FSM
  believes it is;
* `RdBuffers`: a buffer that is believed ready holds a whole packet, and the
  buffer being read is not the one being written;
* `ReaderInStep`: what is left in the buffer being read is what remains to be
  counted.

Its lemmas follow the parts: `WriteAlone` (only one buffer is pushed to and it
is not popped), `BufferStep` (what an edge does to the fill of a buffer),
`StreamStep`, then one lemma per conjunct for the step, split over the states of
the FSM, and `NextIInv`.  `UsesSlot` takes it as the invariant under which a
step of `Tick` is a step of `SlotNext` (`SlotStep`).

The data half rests on the control half and says *whose* words and verdicts
they are.  A verdict in a comparator is as old as the stage it stands in, so the
invariant gives each stage its age: before the write FSM looks, the pipe has
compared nothing but the header it has captured, and a packet once found late
stays late because the sample number only grows.  The buffers in use are a
stretch of the ring from the one being read to the one being written, and the
packets in them ascend along it; that both FSMs skip and wrap alike, without
ever looking at each other, is what makes the output ordered.  For the start,
the verdict that is acted upon is four edges old, hence the four steps.  TLC
checks `InStep` in `tx_unpacker`.

### The TX stream FIFOs

`TxInput_proofs` proves for chunks, words and packets of any size, any number of
packets and a host that closes the stream or does not (`TwoFifoAssumption`,
`WrAssumption`, `TxInputAssumption`: a packet is `TRNSF_N` chunks and
`PCT_WORDS` words of `RATIO` each, and a chunk fits in the first FIFO):

| theorem | says |
|---|---|
| `TypeCorrect` | every register stays in its range and neither FIFO overflows |
| `StaysInStep` | words stay in the order of the host, and the transfer FSM and the unpacker take turns |
| `ClearsTakeOnePacket` | the clear of a late packet takes exactly the rest of it |
| `FifosAreSlot` | the FIFOs implement `PacketSlot`: every edge of either clock, and a close of the stream, is a step of the slot or leaves it alone |

The argument.  Two FSMs on unrelated clocks share the second FIFO, and the clear
of one resets the other between any two edges.  Nothing but the empty flag keeps
them apart, so the invariant `InStep` names the packet and says which of
three things holds of it:

* it has been used up: both FSMs rest, and a clear may still be held
  (`reset_1`);
* it is being moved: `MovingTo` gives the place of each word that has left
  the first FIFO, the one in `inst0_q` included, and `ChunkInStep` the count of
  them in each state of the transfer FSM.  A chunk is asked for only when all of
  it is there, so no read of the first FIFO is lost.  The unpacker rests, since
  a second FIFO that is not full never shows it a packet (`NotWaiting`);
* it is in the second FIFO (`Moved`): `Stored` says which of its words are left
  and `UnpackerAt`, as in `Packets2Data`, where the write FSM is with them.  The
  transfer FSM rests in `check_fifo_1` until the last word has been read.  Only
  here can the clear fall, which is why it finds that FSM at rest.

What is in the first FIFO is a chain from the last word taken to the last word
written (`Follow`); lemmas `FollowTaken`, `FollowWritten` and `FollowBegins`
shorten it, extend it, and start the next packet at its head.  They take the
place of an induction over the FIFO's contents.  A close empties both FIFOs
while the write FSM waits, and the chain starts anew behind the packet the host
began last.  Fill is the edge that stores the last word of a packet, because until then
`rxtx_top` does not show it.  TLC agrees with `InStep` for the constants of `tx_input`.

### The RX path

`RxPath_proofs` proves for any packet and FIFO sizes, any counter width, any gap between words received and any host
(`Data2PacketsAssumption`, `RxPathAssumption`):

| theorem | says |
|---|---|
| `TypeCorrect` | every register and pipeline stage stays in its range |
| `StaysInStep` | reading FSM, packing pipeline, packet former and fill of the FIFOs agree at every edge |
| `ReadsAreServed` | no sample is read that is not there |
| `PacketsAreWhole` | the host reads whole packets |
| `PacketFifoNeverFull` | every word written has room |
| `StaysInOrder`, if `KeepsUp` | all words on their way are numbered by the first word of their packet, and none is lost |
| `HeadersNumberSamples`, if `KeepsUp` | for 12 and 16 bits, the number in a header is that of its first sample |

The argument.  Nothing stops a packet once its reading has begun: no block
waits for another, they only run in parallel for the right number of edges.  So
the invariant is a function of one number, the edges `t` since the reading
began: what the reading FSM counts (`ReadingAt`), which words stand in the
packing pipeline (`PackingAt`), how often the packet former has shifted
(`Shifts`, `FormingAt`) and what has been written (`WritingAt`).  The path is
quiet, or one `t` explains all of it (`OnItsWay`).  The two decisions are taken
on old values, so they need their own parts: the fill of the sample FIFO that
the FSM goes by is at most the true one because nothing has been read since
(`EnoughAt`), and the words still to be written fit in the packet FIFO from the
moment room was looked for (`RoomAt`; `Data2PacketsAssumption` has the length
from which the words of the packet before are written by then).

The numbers add one more unknown, the number `b` of the first word of the
packet: every word at its place is `b` plus a function of `t`
(`NumberedAt`).  The header's number comes out of the delay chain when the
first word comes out of the packing: the chain shows `b` until edge 7, and that
word is there by edge 6 with 12 and 16 bits but at edge 8 with 14, which is
what `rx_14_number` finds and why the theorem excepts 14 bits.  A sample FIFO
that overflows loses words that the counter has counted, so all of this holds
only if it does not: `KeepsUp` says that a packet is read, with all the edges
this takes, faster than it is received.  Under it `Held`, the FIFO's fill in
clock edges, is bounded at every `t`.  `MCRxPath` assumes `KeepsUp` of the run's
constants, where TLC evaluates it.

### The TX packet loss flag

`LossFlag_proofs` proves for every ratio of the clocks and every length of the
packets that satisfy `LossFlagAssumption` (a packet is formed for longer than the
gap between two TX edges, packets are as far apart and one edge more, and two
headers are more than three such gaps apart):

| theorem | says |
|---|---|
| `LossIsKept` | the flag stays up until a header has told of the loss, unless the loss fell between a header and its signal, or the header is that of a packet that is not written |
| `LossesToldOnce` | two headers never tell of the same loss |

Its invariant `TypeOK /\ InStep` follows the signal that a header was taken
through the registers on its way to the TX side: it rises at one place at most
(`OneSignal`, one disjunct for each place), each place bounds its age in edges of
the RX clock, and its end is not missed (`EndSeen`); from this `FlagInStep` says
what the flag and its two synchroniser stages may hold once it has been told.
The age is what makes it inductive: the code has no interlock between the two
sides and works because headers are far apart.  TLC agrees with `InStep` for the
constants of the run; the run itself checks the two results.

### The VCTCXO tamer

`VctcxoTamer_proofs` proves for any set of counters that holds the one of a
second and any numbers of pulses in which that one is the shortest
(`TamerAssumption`), and for a host that gives any commands at any time:

| theorem | says |
|---|---|
| `TypeCorrect` | every register and variable stays in its range |
| `StaysInStep` | the inductive invariant `InStep` |
| `LineIsRight` | the line of the fine tuning goes through errors counted at the lowest and at the highest setting, but for points in `spoilt` |
| `CorrectionsAreRight` | each step corrects the setting that its error was counted under, if that is one of the tuning |
| `DisabledIsQuiet` | no counter of a disabled tamer runs, and its interrupts are disabled and its tuning at the beginning unless it was disabled with an interrupt left over |

The argument.  A count may be read long after it was taken, so the invariant
follows it from the counter (`RunningCounts`: a counter that runs has seen no
setting but the present one) through the registers of the interrupt and the
packet of the firmware (`WaitingErrors`).  What makes that inductive is that
the tuning sets the DAC only while the counters are held in reset, which
`WhileOn` says for every place of the loop, and that the counter of one second
ends first after each release (`SecondsFirst`): the coarse steps read its error
without a look at its flag.  If the host takes the DAC these parts say nothing,
until a step of the tuning sets it again, with the counters in reset.
`WhileOff` tells the three things that a disabled tamer can be: at rest
(`AtRest`), with an interrupt left over that is waiting or being served
(`LeftOver`), or past the one step that this causes (`BegunAnyway`); the last two
only if `late`.  From there a tamer that is enabled begins with the second step
instead of the first (`Starting`), which `Progress` lets spoil point 0 and
nothing else.  `HostSeen` says when loop and host agree about the enable bit.

### The PLL phase search

`PhaseSearch_proofs` proves for counters of any width, any step sizes, any
windows, any lengths of the comparison and of the settling (`PhaseSearchAssumption`):

| theorem | says |
|---|---|
| `TypeCorrect` | every register and synchroniser stage stays in its range |
| `StaysInStep` | search, shift controller, comparator and synchronisers agree at every edge |
| `VerdictsAreRead` | the verdict read is that of the present phase |
| `OkIsRight` | success means that samples are right at the phase the PLL is left with |
| `ShiftsAreCounted`, if `HOST_WAITS` | the counter of the search is the phase of the PLL |
| `MiddleIsFound`, if `HOST_WAITS` | the search ends in the middle of the window |

The first four hold also when the host stops and starts searches at any moment.
The argument has three layers.

* The comparison (`CompareInStep`).  `smpl_cmp` has been reset, runs, or has its
  verdict.  It runs for nothing but the state `cmp_smpls`, and outside that
  state the verdict goes in one order: enable, its two synchroniser stages,
  `smpl_cmp`, then the two stages of `done`.  The guard of `check_cmp_status` on
  the last of these is what makes the next verdict a fresh one, and `error` is
  never later than `done` because it is set with it or before it.
* The shift (`ShiftInStep`).  In `ph_shift` the controller has yet to write to
  the PLL (`ToShift`) or has done so (`HasShifted`); busy rises and falls once.
  Elsewhere it is idle, which is why the fall of busy can stand for an answer.
* The search (`SearchInStep`, with `HOST_WAITS`).  Up to the phase it looks at,
  what there is of the window has been found (`FoundBelow`); then the two ends
  are known (`LastFound`) or the window reaches the end of the range (`NoLast`);
  then the arithmetic of `prep_phase` gives the way back to the middle.  A
  search that is stopped half-way leaves a phase that the next one does not know
  of, so this layer needs a host that waits.

`DoneInStep` joins the first and the last: what a search says at its end, it has
just read.

### The control channel

`NiosControl_proofs` proves for any PLLs, indices and settings
(`ControlAssumption`):

| theorem | says |
|---|---|
| `TypeCorrect` | every variable stays in its range |
| `StaysInStep` | the inductive invariant `InStep` |
| `AnswersMatch` | an answer that the host reads is to the request it waits for |
| `ConfigurationsAreAsked` | what is configured is what was asked for, and nothing else |
| `SecondLooksAreTrue` | the second look at the status is at that of the host's own configuration |

The argument.  There is one request, before the loop, in it or behind it
(`OneRequest`).  A configuration is asked for exactly while its start bit has
yet to be sampled or has been sampled and not been looked at (`StartsSampled`),
and all that time the registers hold what was asked for (`SettingsKept`).  The
last part needs that the host can look at the status at most once before the
loop acts, in the request between sampling and acting.

### The waveform player

`WfmPlayer_proofs` proves for waveforms, memories and FIFOs of any size and a
memory that keeps a command waiting for any bounded time (`WfmPlayerAssumption`):

| theorem | says |
|---|---|
| `WordsAreCounted`, if `[]WritesSettle` | `write_max_words` is the number of words taken |
| `WordsStoredInOrder`, if `[]WritesSettle` | each beat carries the word of its address |
| `AllReadsFit`, if `[]WritesSettle` | the transmitter's FIFO has room for every word that was asked for |
| `WordsPlayedInOrder`, if `[]WritesSettle` | the words come in order, over and over, with no gap at the end of the waveform |
| `InRange`, if `[]WritesSettle` | every register stays in its range |
| `RoomIsEnough`, if `[]WritesFindRoom` | `WritesSettle` holds: the wait after a write is long enough |

The hypothesis.  `wfm_player` waits a fixed number of edges after a write to
know how many words are left, and the run `wfm_player_stall` shows a memory for
which that is too short, so `CountsWords` is not an invariant of `Spec`.
`WritesSettle` is what the wait is there for: when it ends, nothing that was
promised to `avalon_traffic_gen` is still to be fetched.  It is the only
hypothesis of the theorems, and one more result says when it holds:
`RoomIsEnough` reduces it to the cause.  The wait is long enough whenever a write
that was begun finds room in the FIFO of commands, which is `WritesFindRoom`.
Whether it does depends on the memory: TLC finds both conditions invariant for
the stalls of one edge of the run `wfm_player`.

The argument has three layers.

* Writing (`WriteSide`).  A word is promised by `wfm_player` (`write_addr`)
  before `avalon_traffic_gen` fetches it (`taken`), and `Due` is the difference
  (`PromisesKept`).  What is believed of the input FIFO is one to three edges
  old; `CountsKnown` and, in a row of bursts, `BurstsPromised` bound the belief
  from above, counted from the place where the row began, so that a promise is
  always of words that are there.  Of the words fetched, `Stores` gives the
  place of each: `d` are in the memory, then one on the port, `w` in the FIFO
  and one in front of it, where `seconds` are the places of second words of
  bursts, whose commands carry the address of the first.  Reads are given only
  after all words have been fetched (`ReadsLast`).
* Room (`RoomKept`).  `Asked` is everything that may still come to the
  transmitter's FIFO, in words: what is there, in the unpacker, on its way back
  and in commands.  Once the words are written, only a new read makes it grow,
  by two, and the limit that the player compares with leaves room for a full
  FIFO of commands and a full read pipeline (`ReadyRoom`).
* Order (`InOrder`).  The waveform is played as if it were endless: `Loops(n)`
  is word `n` of the repetition and `ReadOf(j)` its `j`th read.  Three numbers
  then place everything between the player and the transmitter: `k` for the
  next word to be heard (`Lanes`, `Returns`), `j` for the first read the memory
  has not taken (`CommandsInOrder`, `RequestsInOrder`) and `w` for the writes
  in front of the reads; `Continues` joins them where the memory is.  An odd
  number of words is where this is delicate: the last read of a pass asks for
  one word, so passes begin with either half of the unpacker.

Outside the prover's reach and left to TLC: liveness under fairness and
`ENABLED`; anything by induction over data; `RECURSIVE` operators (no module
here declares one).

## 7. Only model-checked, and not modelled

Only model-checked: the liveness properties, which are out of the prover's
reach.  Every safety property that a passing run checks is stated by a theorem,
those of `WfmPlayer` under the hypothesis that section 6 discusses.  The
inductive invariants of `TxInput`, `RxPath`, `PhaseSearch`, `LossFlag`, `VctcxoTamer`,
`NiosControl` and `WfmPlayer` are proved and not listed by a run.

Not modelled, and why:

* PLL top, the SPI shift-register FSM, transmit interface, `handshake_sync`,
  `pulse_gen`, pin shift registers: planned (section 2).  In `pll_top` the TX
  and RX searches share one comparator through an OR of their enables (line
  552), and the RX search gets the bus only while its start bit and the
  automatic mode are set (line 560): what two searches at once do to each other
  is not covered.
* Inside the modelled parts of the gateware: a change of the sample width while
  the stream stays open; the clear and the load of the sample counters; 14-bit
  TX packets (`tx_path_top.vhd:231` takes a buffer to be ready at a quarter of
  the words that `p2d_rd` reads); the modes of `smpl_cnt` for one and two
  channels (line 96 shifts the counter); a close while the write FSM waits for
  words of a packet (`p2d_wr_fsm.vhd:239`); a step size of zero, with which the
  phase search never ends, and a comparison of length zero; a waveform of one word or none; a load begun,
  which resets the player, while it is still in a write burst; stream 1 and 2 and
  the second player, which are copies; unpacking of 12-bit waveforms; manual
  mode of the phase search and the test FSM of `pll_ps_top`.
* Inside the firmware: the bytes of the requests and of the SPI devices, flash,
  potentiometers and temperature behind them, which keep no state that another
  part of the program depends on; the phase request, whose handler is
  commented out in `main.c` and which writes a status with the result of the
  last configuration; the switch of the ADC test pattern; the words of a
  configuration.  Of the C files, only `main.c`, `vctcxo_tamer.c` and
  `pll_rcfg.c` hold logic of the project.  The rest, by far the larger part of
  the C code, is the calibration sequencer that the memory controller's
  generator emits and the processor's support package.
* Sample bits, arithmetic on samples, DDR capture and pins: data without
  control.
* Blocks that this build does not contain: GNSS and NMEA parser, legacy arbiter and waveform buffer, older unpackers, clock self test.
* Vendored and generated code: Xillybus core, Intel FIFOs, PLLs, memory
  controller, NIOS system.  They are external: FIFOs with checked underflow and
  overflow, a memory and a PLL that answer when they like.
* Time: clocks are unrelated and interleave freely, or have a bounded ratio
  where the design needs one (`LossFlag`).  Metastability is the edge at which
  a synchroniser settles, left open.
