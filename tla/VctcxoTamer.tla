------------------------------ MODULE VctcxoTamer ------------------------------
(***************************************************************************)
(* The taming of the board's oscillator (VCTCXO) by the NIOS firmware: the *)
(* part of its endless loop (main.c) that serves the tamer, the routines   *)
(* of vctcxo_tamer.c, and the hardware they drive (vctcxo_tamer.vhd and    *)
(* pps_counter.vhd), which counts oscillator cycles between pulses of a    *)
(* 1 PPS reference and raises an interrupt bit when a count is off.  The   *)
(* loop polls that bit, and then the enable bit of the host, one after the *)
(* other; the host's commands are served at the end of the same loop.  A   *)
(* count may end between the two looks: if the host has cleared the enable *)
(* bit by then, the tamer is disabled with an interrupt left over.         *)
(*                                                                         *)
(* An error is true of the setting that the DAC had while it was counted,  *)
(* which is what the tuning depends on.  It is represented by its age: it  *)
(* is "now" while the DAC keeps that setting, and "old" once the DAC has   *)
(* been set, be it before the count ended or after.                        *)
(*                                                                         *)
(* lms7_trx_top ties the tamer's enable and interrupt bits to zero and     *)
(* does not instantiate limegnss_gpio_top, which holds the tamer: in that  *)
(* build this part of the loop runs without effect.  The module is the     *)
(* firmware with the tamer as limegnss_gpio_top connects the two.          *)
(***************************************************************************)
EXTENDS Integers

CONSTANTS
  Counters,  \* the counters, named by the seconds they count: 1, 10 and 100
  Pulses     \* PPS_PULSES of each counter (scaled down for TLC)

ASSUME TamerAssumption ==
  /\ Counters \subseteq Nat /\ 1 \in Counters
  /\ Pulses \in [Counters -> Nat \ {0}]
  /\ \A k \in Counters \ {1} : k > 1 /\ Pulses[1] < Pulses[k]

VARIABLES
  ctrl,        \* mm_control_reg, of which the firmware keeps a copy
  mm_irq,      \* the interrupt bit
  error,       \* the last count of each counter
  error_v,     \* whether it was off by more than the tolerance
  hold,        \* vctcxo_reset_hold: the counters wait for the DAC to settle
  cnt,         \* the three pps_counters
  state_reg,   \* mm_tune_state_reg, which tells the host that the tamer is coarsely tuned
  en_reg,      \* the host's enable bit (tamercfg)
  pc,          \* where the loop is
  tamer_en,    \* vctcxo_tamer_en, the enable bit the loop has seen
  ready,       \* vctcxo_tamer_pkt.ready: a request is pending
  pkt,         \* vctcxo_tamer_pkt: the errors and the flags
  tune_state,
  point,       \* the settings that the errors of trimdac_cal_line.point[0]
               \* and [1] are true of
  trim_dac,    \* vctcxo_trim_dac_value, the cached setting of the DAC
  dac,         \* the setting of the DAC, "off" while its output is three-stated
  late,        \* history: the tamer was disabled with an interrupt left over,
               \* and has not begun to tune since
  spoilt       \* history: the points whose error was taken with the DAC in the
               \* hands of the host, or left over from before the tuning

hardware == <<mm_irq, error, error_v>>
firmware == <<tamer_en, ready, pkt, tune_state, point>>
dacs == <<trim_dac, dac>>
history == <<late, spoilt>>
vars == <<ctrl, hardware, hold, cnt, state_reg, en_reg, pc, firmware, dacs, history>>

Settings == {"mid", "host", "off", "min", "max", "tuned"}
Ages == {"now", "old"}
TuneStates == {"COARSE_TUNE_MIN", "COARSE_TUNE_MAX", "COARSE_TUNE_DONE", "FINE_TUNE"}
Modes == {"DISABLED", "1_PPS"}

Idle == [state |-> "IDLE", pps_count |-> 0, age |-> "old"]
AllIdle == [k \in Counters |-> Idle]
AllOld == [k \in Counters |-> "old"]
NoFlags == [k \in Counters |-> FALSE]

TypeOK ==
  /\ ctrl \in [mode : Modes, irq_en : BOOLEAN, reset : BOOLEAN]
  /\ mm_irq \in BOOLEAN
  /\ error \in [Counters -> Ages]
  /\ error_v \in [Counters -> BOOLEAN]
  /\ hold \in BOOLEAN
  /\ cnt \in [Counters -> [state : {"IDLE", "INCREMENT", "HANDSHAKE_REQ"},
                           pps_count : Nat, age : Ages]]
  /\ state_reg \in {0, 1}
  /\ en_reg \in BOOLEAN
  /\ pc \in {"irq", "isr_stop", "isr_read", "enable", "tune", "command"}
  /\ tamer_en \in BOOLEAN
  /\ ready \in BOOLEAN
  /\ pkt \in [error : [Counters -> Ages], flag : [Counters -> BOOLEAN]]
  /\ tune_state \in TuneStates
  /\ point \in [{0, 1} -> Settings \cup {"none"}]
  /\ trim_dac \in Settings /\ dac \in Settings
  /\ late \in BOOLEAN /\ spoilt \subseteq {0, 1}

Init ==
  /\ ctrl = [mode |-> "DISABLED", irq_en |-> FALSE, reset |-> TRUE]
  /\ mm_irq = FALSE
  /\ error = AllOld /\ error_v = NoFlags
  /\ hold = TRUE
  /\ cnt = AllIdle
  /\ state_reg = 0
  /\ en_reg = FALSE
  /\ pc = "irq"
  /\ tamer_en = FALSE
  /\ ready = FALSE
  /\ pkt = [error |-> AllOld, flag |-> NoFlags]
  /\ tune_state = "COARSE_TUNE_MIN"
  /\ point = [i \in {0, 1} |-> "none"]
  /\ trim_dac = "mid" /\ dac = "mid"
  /\ late = FALSE /\ spoilt = {}

-----------------------------------------------------------------------------
(* The hardware.                                                           *)

\* A pulse of the reference starts the idle counters, and ends those that
\* have seen all theirs.  A count is handed over long before the next pulse.
Pulse(k) ==
  CASE cnt[k].state = "IDLE" ->
         [state |-> "INCREMENT", pps_count |-> 0, age |-> "now"]
    [] cnt[k].state = "INCREMENT" /\ cnt[k].pps_count + 1 < Pulses[k] ->
         [cnt[k] EXCEPT !.pps_count = @ + 1]
    [] OTHER -> [cnt[k] EXCEPT !.pps_count = Pulses[k], !.state = "HANDSHAKE_REQ"]

Pps ==
  /\ ctrl.mode = "1_PPS" /\ ~ ctrl.reset /\ ~ hold
  /\ \A k \in Counters : cnt[k].state # "HANDSHAKE_REQ"
  /\ cnt' = [k \in Counters |-> Pulse(k)]
  /\ UNCHANGED <<ctrl, hardware, hold, state_reg, en_reg, pc, firmware, dacs, history>>

\* Whether a count is off.  The ends of the DAC's range always are: the
\* coarse tuning waits for their interrupts.
Verdicts(age) == IF age = "now" /\ dac \in {"min", "max"} THEN {TRUE} ELSE BOOLEAN

\* int_req_proc: a count arrives in the clock domain of the processor.
CountValid(k) ==
  /\ cnt[k].state = "HANDSHAKE_REQ"
  /\ IF ctrl.irq_en
       THEN \E off \in Verdicts(cnt[k].age) :
              /\ error' = [error EXCEPT ![k] = cnt[k].age]
              /\ error_v' = [error_v EXCEPT ![k] = @ \/ off]
              /\ mm_irq' = (mm_irq \/ off)
       ELSE UNCHANGED hardware
  /\ cnt' = [cnt EXCEPT ![k] = Idle]
  /\ UNCHANGED <<ctrl, hold, state_reg, en_reg, pc, firmware, dacs, history>>

\* The counters stay in reset for 850 us after they are let go, longer than
\* the loop needs from there to the end of the tuning step.
HoldOver ==
  /\ hold /\ ~ ctrl.reset /\ pc # "tune"
  /\ hold' = FALSE
  /\ UNCHANGED <<ctrl, hardware, cnt, state_reg, en_reg, pc, firmware, dacs, history>>

-----------------------------------------------------------------------------
(* The routines of vctcxo_tamer.c, as what they leave in the control       *)
(* register, and what the register then does to the counters.              *)

vctcxo_tamer_reset_counters(c, b) == [c EXCEPT !.reset = b]
vctcxo_tamer_enable_isr(c, b) == [c EXCEPT !.irq_en = b]
SetTuneModeIrqOn(m) == [mode |-> m, irq_en |-> TRUE, reset |-> m = "DISABLED"]
vctcxo_tamer_set_tune_mode(m) ==
  [mode |-> m, irq_en |-> m # "DISABLED", reset |-> m = "DISABLED"]

\* A write that resets the counters, if only for a moment.
ResetCounters == cnt' = AllIdle /\ hold' = TRUE

IsrStopCountersRunning ==
  /\ pc = "isr_stop"
  /\ ctrl' = vctcxo_tamer_enable_isr(ctrl, FALSE)
  /\ pc' = "isr_read"
  /\ UNCHANGED <<hardware, hold, cnt, state_reg, en_reg, firmware, dacs, history>>

\* vctcxo_tamer_isr, in two steps: first interrupts and counters are
\* stopped, then the errors and the flags are read and the bit is cleared.
vctcxo_tamer_isr_stop ==
  /\ pc = "isr_stop"
  /\ ctrl' = vctcxo_tamer_reset_counters(vctcxo_tamer_enable_isr(ctrl, FALSE), TRUE)
  /\ ResetCounters
  /\ pc' = "isr_read"
  /\ UNCHANGED <<hardware, state_reg, en_reg, firmware, dacs, history>>

vctcxo_tamer_isr_read ==
  /\ pc = "isr_read"
  /\ ready' = TRUE
  /\ pkt' = [error |-> error, flag |-> error_v]
  /\ mm_irq' = FALSE /\ error_v' = NoFlags
  /\ pc' = "enable"
  /\ UNCHANGED <<ctrl, error, hold, cnt, state_reg, en_reg, tamer_en, tune_state, point,
                 dacs, history>>

vctcxo_tamer_init ==
  /\ ctrl' = vctcxo_tamer_set_tune_mode("1_PPS")
  /\ ResetCounters
  /\ state_reg' = 0

vctcxo_tamer_dis ==
  /\ ctrl' = vctcxo_tamer_set_tune_mode("DISABLED")
  /\ ResetCounters
  /\ state_reg' = 0

-----------------------------------------------------------------------------
(* The loop of main.c.                                                     *)

PollIrq ==
  /\ pc = "irq"
  /\ pc' = IF mm_irq THEN "isr_stop" ELSE "enable"
  /\ UNCHANGED <<ctrl, hardware, hold, cnt, state_reg, en_reg, firmware, dacs, history>>

PollEnable ==
  /\ pc = "enable"
  /\ tamer_en' = en_reg
  /\ \/ /\ en_reg = tamer_en
        /\ UNCHANGED <<ctrl, hold, cnt, state_reg, ready, tune_state, late>>
     \/ /\ en_reg /\ ~ tamer_en
        /\ vctcxo_tamer_init
        /\ ready' = TRUE
        /\ UNCHANGED <<tune_state, late>>
     \/ /\ ~ en_reg /\ tamer_en
        /\ vctcxo_tamer_dis
        /\ tune_state' = "COARSE_TUNE_MIN"
        /\ ready' = FALSE
        /\ late' = mm_irq
  /\ pc' = "tune"
  /\ UNCHANGED <<hardware, en_reg, pkt, point, dacs, spoilt>>

\* The setting of the DAC is the host's, not one of the tuning.
HostHasDac == dac \in {"host", "off"}

\* What a new setting does to counts and errors.
CountsOlder == [k \in Counters |-> [cnt[k] EXCEPT !.age = "old"]]
ErrorsOlder == error' = AllOld /\ pkt' = [pkt EXCEPT !.error = AllOld]

DacNotCached(oe, v) ==
  /\ dac' = IF oe THEN v ELSE "off"
  /\ cnt' = CountsOlder /\ ErrorsOlder
  /\ UNCHANGED trim_dac

\* Without oe the output is three-stated and the cached setting stays.
Control_TCXO_DAC(oe, v) ==
  /\ dac' = IF oe THEN v ELSE "off"
  /\ trim_dac' = IF oe THEN v ELSE trim_dac
  /\ cnt' = CountsOlder /\ ErrorsOlder

RequestCountersHeld ==
  /\ pc = "tune" /\ ready
  /\ ready' = FALSE
  /\ ctrl' = vctcxo_tamer_enable_isr(ctrl, TRUE)
  /\ pc' = "command"
  /\ late' = (late /\ ~ tamer_en)
  /\ UNCHANGED <<mm_irq, error_v, hold, en_reg, tamer_en>>

\* The counters are let go and the interrupt is enabled after every request.
Request ==
  /\ pc = "tune" /\ ready
  /\ ready' = FALSE
  /\ ctrl' = vctcxo_tamer_enable_isr(vctcxo_tamer_reset_counters(ctrl, FALSE), TRUE)
  /\ pc' = "command"
  /\ late' = (late /\ ~ tamer_en)
  /\ UNCHANGED <<mm_irq, error_v, hold, en_reg, tamer_en>>

CoarseTuneMin ==
  /\ Request /\ tune_state = "COARSE_TUNE_MIN"
  /\ Control_TCXO_DAC(TRUE, "min")
  /\ tune_state' = "COARSE_TUNE_MAX"
  /\ UNCHANGED <<point, state_reg, spoilt>>

\* The setting of the tuning that an error is true of, if there is one.
SettingOf(age) == IF age = "now" /\ ~ HostHasDac THEN dac ELSE "none"

CoarseTuneMax ==
  /\ Request /\ tune_state = "COARSE_TUNE_MAX"
  /\ point' = [point EXCEPT ![0] = SettingOf(pkt.error[1])]
  /\ Control_TCXO_DAC(TRUE, "max")
  /\ tune_state' = "COARSE_TUNE_DONE"
  /\ spoilt' = IF late \/ HostHasDac THEN {0} ELSE {}
  /\ UNCHANGED state_reg

CoarseTuneDone ==
  /\ Request /\ tune_state = "COARSE_TUNE_DONE"
  /\ state_reg' = 1
  /\ point' = [point EXCEPT ![1] = SettingOf(pkt.error[1])]
  /\ Control_TCXO_DAC(TRUE, "tuned")
  /\ tune_state' = "FINE_TUNE"
  /\ spoilt' = spoilt \cup IF HostHasDac THEN {1} ELSE {}

\* The error that a fine step corrects: the first one that is flagged.
Chosen(k) == pkt.flag[k] /\ \A j \in Counters : pkt.flag[j] => k <= j

\* The step takes the cached setting of the DAC and subtracts from it.
FineTune ==
  /\ Request /\ tune_state = "FINE_TUNE"
  /\ IF \E k \in Counters : Chosen(k)
       THEN Control_TCXO_DAC(TRUE, "tuned")
       ELSE UNCHANGED <<dacs, cnt, error, pkt>>
  /\ UNCHANGED <<tune_state, point, state_reg, spoilt>>

NoRequest ==
  /\ pc = "tune" /\ ~ ready
  /\ pc' = "command"
  /\ UNCHANGED <<ctrl, hardware, hold, cnt, state_reg, en_reg, firmware, dacs, history>>

NoCommand ==
  /\ pc = "command"
  /\ pc' = "irq"
  /\ UNCHANGED <<ctrl, hardware, hold, cnt, state_reg, en_reg, firmware, dacs, history>>

\* A command of the host: one of those below.
Command ==
  /\ pc = "command"
  /\ pc' = "irq"
  /\ UNCHANGED <<ctrl, mm_irq, error_v, hold, state_reg, tamer_en, ready, tune_state,
                 point, history>>

\* CMD_BRDSPI16_WR to the enable bit.
SetEnable ==
  /\ Command
  /\ en_reg' = ~ en_reg
  /\ UNCHANGED <<cnt, error, pkt, dacs>>

\* CMD_ANALOG_VAL_WR, also while the tamer tunes.
SetDac ==
  /\ Command
  /\ Control_TCXO_DAC(TRUE, "host")
  /\ UNCHANGED en_reg

\* CMD_ADF4002_WR, which leaves the oscillator to the ADF4002.
ReleaseDac ==
  /\ Command
  /\ Control_TCXO_DAC(FALSE, "host")
  /\ UNCHANGED en_reg

Hardware == Pps \/ HoldOver \/ \E k \in Counters : CountValid(k)
Tune == CoarseTuneMin \/ CoarseTuneMax \/ CoarseTuneDone \/ FineTune \/ NoRequest
Loop ==
  \/ PollIrq \/ vctcxo_tamer_isr_stop \/ vctcxo_tamer_isr_read \/ PollEnable \/ Tune
  \/ NoCommand \/ SetEnable \/ SetDac \/ ReleaseDac
Next == Hardware \/ Loop

\* The loop never stops and the pulses keep coming.
Fairness ==
  /\ WF_vars(Loop)
  /\ WF_vars(Pps)
  /\ SF_vars(HoldOver)
  /\ \A k \in Counters : SF_vars(CountValid(k))

Spec == Init /\ [][Next]_vars /\ Fairness

-----------------------------------------------------------------------------
(* Properties.                                                             *)

\* The line the fine tuning goes by (main.c:1013) is drawn through the error
\* at the lowest setting and the error at the highest: each was counted from
\* its first cycle to its last with the DAC at the setting it is paired with,
\* unless the host set the DAC at that time or, for the first, the tamer had
\* been disabled with an interrupt left over.  Then the step for the lowest
\* setting is taken while the tamer is disabled, and enabling it pairs the
\* lowest setting with an error of before.
LineThroughItsPoints ==
  tune_state = "FINE_TUNE" =>
    /\ 0 \notin spoilt => point[0] = "min"
    /\ 1 \notin spoilt => point[1] = "max"

\* An error that moves the DAC was counted wholly under the setting that it
\* corrects, never before or across a change of it (the counters are stopped
\* before the interrupt is served and let go after the DAC is written), and
\* the cached setting that the step subtracts from is that of the DAC: if the
\* setting is one of the tuning.
CorrectsTheSetting ==
  pc = "tune" /\ ready /\ tune_state = "FINE_TUNE" /\ ~ HostHasDac =>
    /\ trim_dac = dac
    /\ \A k \in Counters : Chosen(k) => pkt.error[k] = "now"

\* While the loop sees the tamer disabled no counter runs, its interrupts are
\* disabled, and the next tuning will begin with the lowest setting (the
\* comment in vctcxo_tamer_dis: "Default VCTCXO Tamer and its interrupts to be
\* disabled").  An interrupt left over breaks the last two, by no more than
\* the one step that it causes.
QuietWhenDisabled ==
  pc = "irq" /\ ~ tamer_en =>
    /\ \A k \in Counters : cnt[k].state = "IDLE"
    /\ ~ late => ~ ctrl.irq_en /\ tune_state = "COARSE_TUNE_MIN"
    /\ late => tune_state \in {"COARSE_TUNE_MIN", "COARSE_TUNE_MAX"}

\* A tamer that the host leaves enabled, and the DAC alone, gets past the
\* coarse tuning and tells the host so: it never waits for an interrupt that
\* is disabled or for counters that are held in reset.
TuningEnds ==
  <>[](en_reg /\ ~ HostHasDac) => <>[](tune_state = "FINE_TUNE" /\ state_reg = 1)

-----------------------------------------------------------------------------
(* Why the safety properties hold: what is true between any two steps.     *)

\* The loop has just enabled the tamer and has not yet set the DAC.
Starting ==
  /\ pc = "tune" /\ ready
  /\ ctrl.irq_en /\ ~ ctrl.reset /\ hold

\* The loop and the host agree when the host may give commands.
HostSeen == pc \in {"tune", "command"} => tamer_en = en_reg

\* A disabled tamer: at rest, with an interrupt left over that is waiting or
\* being served, or after the one step that such an interrupt causes.
AtRest ==
  /\ ctrl.reset /\ ~ ctrl.irq_en /\ ~ mm_irq /\ ~ ready
  /\ tune_state = "COARSE_TUNE_MIN"
  /\ pc \notin {"isr_stop", "isr_read"}

LeftOver ==
  /\ ctrl.reset /\ ~ ctrl.irq_en
  /\ tune_state = "COARSE_TUNE_MIN"
  /\ \/ mm_irq /\ ~ ready /\ pc # "enable"
     \/ ~ mm_irq /\ ready /\ pc \in {"enable", "tune"}

BegunAnyway ==
  /\ ~ ctrl.reset /\ ctrl.irq_en /\ ~ mm_irq /\ ~ ready
  /\ tune_state = "COARSE_TUNE_MAX"
  /\ pc \notin {"isr_stop", "isr_read"}

WhileOff ==
  ~ tamer_en =>
    /\ ctrl.mode = "DISABLED"
    /\ AtRest \/ (late /\ (LeftOver \/ BegunAnyway))

\* From the service of an interrupt to the end of the tuning step the counters
\* are in reset and interrupts are disabled; at all other times neither is so.
WhileOn ==
  tamer_en =>
    /\ tune_state = "COARSE_TUNE_MIN" => Starting
    /\ Starting => \/ tune_state = "COARSE_TUNE_MIN"
                   \/ tune_state = "COARSE_TUNE_MAX" /\ late
    /\ pc \in {"irq", "isr_stop", "command"} => ctrl.irq_en /\ ~ ready
    /\ pc = "isr_read" => ctrl.reset /\ ~ ready
    /\ pc \in {"enable", "tune"} =>
         (ready /\ ctrl.reset) \/ (~ ready /\ ctrl.irq_en) \/ Starting

\* A counter that runs has seen no setting but the present one, if that is
\* one of the tuning.
RunningCounts ==
  \A k \in Counters : cnt[k].state # "IDLE" =>
    /\ tamer_en /\ ~ ctrl.reset /\ ~ hold
    /\ HostHasDac \/ cnt[k].age = "now"

\* So was an error that is waiting to be served, or is being served.
WaitingErrors ==
  /\ tamer_en /\ mm_irq => HostHasDac \/ error[1] = "now"
  /\ \A k \in Counters : error_v[k] =>
       mm_irq /\ (tamer_en => HostHasDac \/ error[k] = "now")
  /\ pc \in {"isr_stop", "isr_read"} => mm_irq
  /\ ready => ~ mm_irq
  /\ tamer_en /\ ready /\ ~ Starting /\ ~ HostHasDac =>
       /\ pkt.error[1] = "now"
       /\ \A k \in Counters : pkt.flag[k] => pkt.error[k] = "now"

\* After the counters were let go, the one of a second is the first to end.
SecondsFirst ==
  \/ HostHasDac
  \/ error[1] = "now"
  \/ \A k \in Counters : cnt[k].state = "IDLE"
  \/ /\ cnt[1].pps_count < Pulses[1]
     /\ \A k \in Counters :
          cnt[k].state = "INCREMENT" /\ cnt[k].pps_count = cnt[1].pps_count
  \/ /\ cnt[1].state = "HANDSHAKE_REQ"
     /\ \A k \in Counters \ {1} : cnt[k].state = "INCREMENT"

\* What each state of the tuning stands for.
Progress ==
  /\ ~ HostHasDac => trim_dac = dac
  /\ tamer_en /\ tune_state = "COARSE_TUNE_MAX" /\ ~ late => HostHasDac \/ dac = "min"
  /\ tune_state = "COARSE_TUNE_DONE" =>
       /\ HostHasDac \/ dac = "max"
       /\ 0 \notin spoilt => point[0] = "min"
  /\ LineThroughItsPoints

InStep ==
  /\ HostSeen /\ WhileOff /\ WhileOn
  /\ RunningCounts /\ WaitingErrors /\ SecondsFirst /\ Progress
=============================================================================
