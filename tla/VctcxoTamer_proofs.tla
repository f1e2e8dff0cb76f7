------------------------- MODULE VctcxoTamer_proofs -------------------------
(***************************************************************************)
(* Proofs about the tamer, for counters of any number and length of which  *)
(* the one of a second is the shortest.                                    *)
(***************************************************************************)
EXTENDS VctcxoTamer, TLAPS

Control == [mode : Modes, irq_en : BOOLEAN, reset : BOOLEAN]
Packet == [error : [Counters -> Ages], flag : [Counters -> BOOLEAN]]
Count == [state : {"IDLE", "INCREMENT", "HANDSHAKE_REQ"}, pps_count : Nat, age : Ages]

LEMMA Constants ==
    /\ 1 \in Counters
    /\ \A k \in Counters : Pulses[k] \in Nat \ {0}
    /\ \A k \in Counters \ {1} : Pulses[1] < Pulses[k]
  BY TamerAssumption

-----------------------------------------------------------------------------
(* Types.                                                                  *)

LEMMA TypeInit == Init => TypeOK
<1> SUFFICES ASSUME Init PROVE TypeOK
  OBVIOUS
<1>1. /\ AllIdle \in [Counters -> Count] /\ NoFlags \in [Counters -> BOOLEAN]
      /\ AllOld \in [Counters -> Ages]
  BY DEF AllIdle, Idle, Count, NoFlags, AllOld, Ages
<1>2. pkt \in Packet /\ ctrl \in Control
  BY <1>1 DEF Init, Packet, Control, Modes
<1> QED
  BY <1>1, <1>2 DEF Init, TypeOK, Packet, Control, Count, Settings, TuneStates

\* A pulse leaves every counter a counter.
LEMMA PulseType ==
    ASSUME TypeOK, NEW k \in Counters
    PROVE  Pulse(k) \in Count
<1>1. cnt[k] \in Count /\ Pulses[k] \in Nat
  BY Constants DEF TypeOK, Count
<1>2. CASE cnt[k].state = "IDLE"
  BY <1>1, <1>2 DEF Pulse, Count, Ages
<1>3. CASE cnt[k].state = "INCREMENT" /\ cnt[k].pps_count + 1 < Pulses[k]
  BY <1>1, <1>3 DEF Pulse, Count
<1>4. CASE cnt[k].state # "IDLE" /\ ~ (cnt[k].state = "INCREMENT" /\ cnt[k].pps_count + 1 < Pulses[k])
  BY <1>1, <1>4 DEF Pulse, Count
<1> QED
  BY <1>2, <1>3, <1>4

\* What a new setting of the DAC does to the types.
LEMMA DacType ==
    ASSUME TypeOK, NEW oe \in BOOLEAN, NEW v \in Settings, Control_TCXO_DAC(oe, v)
    PROVE  /\ cnt' \in [Counters -> Count] /\ error' \in [Counters -> Ages] /\ pkt' \in Packet
           /\ trim_dac' \in Settings /\ dac' \in Settings
<1>1. ASSUME NEW k \in Counters
      PROVE  [cnt[k] EXCEPT !.age = "old"] \in Count
  BY DEF TypeOK, Count, Ages
<1>2. AllOld \in [Counters -> Ages]
  BY DEF AllOld, Ages
<1> QED
  BY <1>1, <1>2 DEF Control_TCXO_DAC, CountsOlder, ErrorsOlder, TypeOK, Packet, Settings

\* The types after the end of a request.
LEMMA RequestType ==
    ASSUME TypeOK, Request
    PROVE  /\ ctrl' \in Control /\ ready' \in BOOLEAN /\ late' \in BOOLEAN
           /\ mm_irq' \in BOOLEAN /\ error_v' \in [Counters -> BOOLEAN] /\ hold' \in BOOLEAN
           /\ en_reg' \in BOOLEAN /\ tamer_en' \in BOOLEAN /\ pc' = "command"
  BY DEF TypeOK, Request, Control, vctcxo_tamer_enable_isr, vctcxo_tamer_reset_counters

LEMMA TuneType ==
    ASSUME TypeOK, Tune
    PROVE  TypeOK'
<1> USE DEF Control, Packet, Count
<1>p. SettingOf(pkt.error[1]) \in Settings \cup {"none"}
  BY DEF TypeOK, SettingOf
<1>s. "min" \in Settings /\ "max" \in Settings /\ "tuned" \in Settings
  BY DEF Settings
<1>1. CASE CoarseTuneMin
  BY <1>1, <1>s, RequestType, DacType DEF TypeOK, CoarseTuneMin, TuneStates
<1>2. CASE CoarseTuneMax
  BY <1>2, <1>s, <1>p, RequestType, DacType DEF TypeOK, CoarseTuneMax, TuneStates
<1>3. CASE CoarseTuneDone
  BY <1>3, <1>s, <1>p, RequestType, DacType DEF TypeOK, CoarseTuneDone, TuneStates
<1>4. CASE FineTune
  <2>1. CASE \E k \in Counters : Chosen(k)
    BY <1>4, <2>1, <1>s, RequestType, DacType DEF TypeOK, FineTune
  <2>2. CASE ~ \E k \in Counters : Chosen(k)
    BY <1>4, <2>2, RequestType DEF TypeOK, FineTune, dacs
  <2> QED
    BY <2>1, <2>2
<1>5. CASE NoRequest
  BY <1>5 DEF TypeOK, NoRequest, hardware, firmware, dacs, history
<1> QED
  BY <1>1, <1>2, <1>3, <1>4, <1>5 DEF Tune

LEMMA TypeNext == TypeOK /\ [Next]_vars => TypeOK'
<1> SUFFICES ASSUME TypeOK, [Next]_vars PROVE TypeOK'
  OBVIOUS
<1> USE DEF TypeOK, hardware, firmware, dacs, history
<1>i. /\ Idle \in Count /\ AllIdle \in [Counters -> Count]
      /\ NoFlags \in [Counters -> BOOLEAN]
  BY DEF Idle, AllIdle, Count, NoFlags, Ages
<1>1. CASE Pps
  <2>1. cnt' \in [Counters -> Count]
    BY <1>1, PulseType DEF Pps
  <2> QED
    BY <1>1, <2>1 DEF Pps, Count
<1>2. CASE HoldOver
  BY <1>2 DEF HoldOver
<1>3. ASSUME NEW k \in Counters, CountValid(k)
      PROVE  TypeOK'
  <2>1. cnt' \in [Counters -> Count]
    BY <1>3, <1>i DEF CountValid, Count
  <2>2. \A off \in Verdicts(cnt[k].age) : off \in BOOLEAN
    BY DEF Verdicts
  <2>3. cnt[k].age \in Ages
    OBVIOUS
  <2>4. /\ mm_irq' \in BOOLEAN /\ error' \in [Counters -> Ages]
        /\ error_v' \in [Counters -> BOOLEAN]
    <3>1. CASE ctrl.irq_en
      <4>1. PICK off \in BOOLEAN :
              /\ error' = [error EXCEPT ![k] = cnt[k].age]
              /\ error_v' = [error_v EXCEPT ![k] = @ \/ off]
              /\ mm_irq' = (mm_irq \/ off)
        BY <1>3, <2>2, <3>1 DEF CountValid
      <4>2. (mm_irq \/ off) \in BOOLEAN /\ (error_v[k] \/ off) \in BOOLEAN
        OBVIOUS
      <4> QED
        BY <4>1, <4>2, <2>3
    <3>2. CASE ~ ctrl.irq_en
      BY <1>3, <3>2 DEF CountValid
    <3> QED
      BY <3>1, <3>2
  <2> QED
    BY <1>3, <2>1, <2>4 DEF CountValid, Count
<1>4. CASE PollIrq
  BY <1>4 DEF PollIrq
<1>5. CASE vctcxo_tamer_isr_stop
  <2>1. ctrl' \in Control
    <3>1. \A c \in Control : vctcxo_tamer_enable_isr(c, FALSE) \in Control
      BY DEF vctcxo_tamer_enable_isr, Control
    <3>2. \A c \in Control : vctcxo_tamer_reset_counters(c, TRUE) \in Control
      BY DEF vctcxo_tamer_reset_counters, Control
    <3>3. ctrl \in Control
      BY DEF Control
    <3> QED
      BY <1>5, <3>1, <3>2, <3>3 DEF vctcxo_tamer_isr_stop
  <2>2. cnt' \in [Counters -> Count] /\ hold' \in BOOLEAN
    BY <1>5, <1>i DEF vctcxo_tamer_isr_stop, ResetCounters
  <2> QED
    BY <1>5, <2>1, <2>2 DEF vctcxo_tamer_isr_stop, Control, Count
<1>6. CASE vctcxo_tamer_isr_read
  BY <1>6, <1>i DEF vctcxo_tamer_isr_read
<1>7. CASE PollEnable
  <2>1. /\ vctcxo_tamer_set_tune_mode("1_PPS") \in Control
        /\ vctcxo_tamer_set_tune_mode("DISABLED") \in Control
    BY DEF vctcxo_tamer_set_tune_mode, Control, Modes
  <2>2. ctrl \in Control /\ cnt \in [Counters -> Count]
    BY DEF Control, Count
  <2>3. /\ ctrl' \in Control /\ hold' \in BOOLEAN /\ cnt' \in [Counters -> Count]
        /\ state_reg' \in {0, 1} /\ ready' \in BOOLEAN /\ tune_state' \in TuneStates
        /\ late' \in BOOLEAN
    BY <1>7, <1>i, <2>1, <2>2 DEF PollEnable, vctcxo_tamer_init, vctcxo_tamer_dis,
                                  ResetCounters, TuneStates
  <2> QED
    BY <1>7, <2>3 DEF PollEnable, Control, Packet, Count
<1>8. CASE Tune
  BY <1>8, TuneType
<1>9. CASE NoCommand \/ SetEnable
  BY <1>9 DEF NoCommand, SetEnable, Command
<1>10. CASE SetDac \/ ReleaseDac
  <2>1. PICK oe \in BOOLEAN : Control_TCXO_DAC(oe, "host") /\ Command /\ UNCHANGED en_reg
    BY <1>10 DEF SetDac, ReleaseDac
  <2>2. /\ cnt' \in [Counters -> Count] /\ error' \in [Counters -> Ages] /\ pkt' \in Packet
        /\ trim_dac' \in Settings /\ dac' \in Settings
    BY <2>1, DacType DEF Settings
  <2> QED
    BY <2>1, <2>2 DEF Command, Count, Packet
<1>11. CASE UNCHANGED vars
  BY <1>11 DEF vars
<1> QED
  BY <1>1, <1>2, <1>3, <1>4, <1>5, <1>6, <1>7, <1>8, <1>9, <1>10, <1>11 DEF Next, Hardware, Loop

\* Every reachable state has the types of TypeOK.
THEOREM TypeCorrect == Spec => []TypeOK
  BY TypeInit, TypeNext, PTL DEF Spec

-----------------------------------------------------------------------------
(* The invariant.  InStep holds between any two steps.                     *)

LEMMA InStepInit == Init => InStep
<1> SUFFICES ASSUME Init PROVE InStep
  OBVIOUS
<1>1. \A k \in Counters : cnt[k].state = "IDLE" /\ ~ error_v[k]
  BY DEF Init, AllIdle, Idle, NoFlags
<1> QED
  BY <1>1 DEF Init, InStep, HostSeen, WhileOff, AtRest, WhileOn, Starting, RunningCounts,
              WaitingErrors, SecondsFirst, Progress, LineThroughItsPoints

\* Interrupts are enabled while a counter runs.
LEMMA RunningMeansEnabled ==
    ASSUME TypeOK, InStep, NEW k \in Counters, cnt[k].state # "IDLE"
    PROVE  ctrl.irq_en /\ tamer_en /\ ~ ctrl.reset /\ ~ hold
<1>1. tamer_en /\ ~ ctrl.reset /\ ~ hold
  BY DEF InStep, RunningCounts
<1>2. pc \in {"irq", "isr_stop", "isr_read", "enable", "tune", "command"}
  BY DEF TypeOK
<1> QED
  BY <1>1, <1>2 DEF InStep, WhileOn, Starting

LEMMA InStepPps ==
    ASSUME TypeOK, InStep, Pps
    PROVE  InStep'
<1> USE DEF Pps, hardware, firmware, dacs, history
<1>1. HostSeen' /\ WhileOff' /\ WhileOn' /\ WaitingErrors' /\ Progress'
  BY DEF InStep, HostSeen, WhileOff, AtRest, LeftOver, BegunAnyway, WhileOn, Starting,
         WaitingErrors, Progress, LineThroughItsPoints, HostHasDac
<1>2. \A k \in Counters : cnt'[k] = Pulse(k) /\ cnt[k].state \in {"IDLE", "INCREMENT"}
  BY DEF TypeOK
<1>3. RunningCounts'
  <2> SUFFICES ASSUME NEW k \in Counters
               PROVE  /\ tamer_en /\ ~ ctrl.reset /\ ~ hold
                      /\ HostHasDac \/ cnt'[k].age = "now"
    BY DEF RunningCounts, HostHasDac
  <2>1. tamer_en /\ ~ ctrl.reset /\ ~ hold
    BY DEF InStep, WhileOff
  <2>2. cnt[k] \in Count
    BY DEF TypeOK, Count
  <2>3. HostHasDac \/ cnt'[k].age = "now"
    BY <1>2, <2>2 DEF InStep, RunningCounts, Pulse, Count
  <2> QED
    BY <2>1, <2>3
<1>4. SecondsFirst'
  <2>1. \A k \in Counters : cnt[k] \in Count /\ Pulses[k] \in Nat
    BY Constants DEF TypeOK, Count
  <2>2. CASE HostHasDac \/ error[1] = "now"
    BY <2>2 DEF SecondsFirst, HostHasDac
  <2>3. CASE \A k \in Counters : cnt[k].state = "IDLE"
    <3>1. \A k \in Counters : cnt'[k].state = "INCREMENT" /\ cnt'[k].pps_count = 0
      BY <1>2, <2>1, <2>3 DEF Pulse
    <3> QED
      BY <3>1, Constants DEF SecondsFirst
  <2>4. CASE /\ cnt[1].pps_count < Pulses[1]
             /\ \A k \in Counters :
                  cnt[k].state = "INCREMENT" /\ cnt[k].pps_count = cnt[1].pps_count
    <3>1. CASE cnt[1].pps_count + 1 < Pulses[1]
      <4>1. \A k \in Counters : cnt[k].pps_count + 1 < Pulses[k]
        <5>1. \A k \in Counters : Pulses[1] <= Pulses[k] /\ cnt[k].pps_count \in Nat
          BY <2>1, Constants DEF Count
        <5> QED
          BY <2>1, <2>4, <3>1, <5>1, Constants
      <4>2. \A k \in Counters : /\ cnt'[k].state = "INCREMENT"
                                /\ cnt'[k].pps_count = cnt[1].pps_count + 1
        BY <1>2, <2>1, <2>4, <4>1 DEF Pulse, Count
      <4> QED
        BY <3>1, <4>2, Constants DEF SecondsFirst
    <3>2. CASE ~ (cnt[1].pps_count + 1 < Pulses[1])
      <4>1. cnt'[1].state = "HANDSHAKE_REQ"
        BY <1>2, <2>1, <2>4, <3>2, Constants DEF Pulse, Count
      <4>2. \A k \in Counters \ {1} : cnt[k].pps_count + 1 < Pulses[k]
        BY <2>1, <2>4, Constants DEF Count
      <4>3. \A k \in Counters \ {1} : cnt'[k].state = "INCREMENT"
        BY <1>2, <2>1, <2>4, <4>2 DEF Pulse, Count
      <4> QED
        BY <4>1, <4>3 DEF SecondsFirst
    <3> QED
      BY <3>1, <3>2
  <2> QED
    BY <2>2, <2>3, <2>4, Constants, <1>2 DEF InStep, SecondsFirst
<1> QED
  BY <1>1, <1>3, <1>4 DEF InStep

LEMMA InStepCountValid ==
    ASSUME TypeOK, InStep, NEW k \in Counters, CountValid(k)
    PROVE  InStep'
<1> USE DEF hardware, firmware, dacs, history
<1>1. /\ ctrl.irq_en /\ tamer_en /\ ~ ctrl.reset /\ ~ hold
      /\ HostHasDac \/ cnt[k].age = "now"
      /\ cnt[k].state = "HANDSHAKE_REQ"
  BY RunningMeansEnabled DEF CountValid, InStep, RunningCounts
<1>2. PICK off \in BOOLEAN :
        /\ error' = [error EXCEPT ![k] = cnt[k].age]
        /\ error_v' = [error_v EXCEPT ![k] = @ \/ off]
        /\ mm_irq' = (mm_irq \/ off)
  BY <1>1 DEF CountValid, Verdicts
<1>3. /\ cnt' = [cnt EXCEPT ![k] = Idle]
      /\ UNCHANGED <<ctrl, hold, state_reg, en_reg, pc, firmware, dacs, history>>
  BY DEF CountValid
<1>4. HostHasDac \/ error'[1] = "now"
  <2>1. CASE k = 1
    BY <1>1, <1>2, <2>1, Constants DEF TypeOK
  <2>2. CASE k # 1
    <3>1. HostHasDac \/ error[1] = "now"
      BY <1>1, <2>2 DEF InStep, SecondsFirst
    <3> QED
      BY <1>2, <2>2, <3>1, Constants DEF TypeOK
  <2> QED
    BY <2>1, <2>2
<1>5. HostSeen' /\ WhileOff' /\ WhileOn' /\ Progress'
  <2>1. HostSeen' /\ WhileOff'
    BY <1>1, <1>3 DEF InStep, HostSeen, WhileOff
  <2>2. WhileOn'
    BY <1>3 DEF InStep, WhileOn, Starting
  <2>3. Progress'
    BY <1>3 DEF InStep, Progress, LineThroughItsPoints, HostHasDac
  <2> QED
    BY <2>1, <2>2, <2>3
<1>6. RunningCounts'
  BY <1>3 DEF InStep, RunningCounts, TypeOK, Idle, HostHasDac
<1>7. ~ ready
  <2>1. pc \in {"irq", "isr_stop", "isr_read", "enable", "tune", "command"}
    BY DEF TypeOK
  <2> QED
    BY <1>1, <2>1 DEF InStep, WhileOn, Starting
<1>8. \A j \in Counters : error_v'[j] => mm_irq' /\ (HostHasDac \/ error'[j] = "now")
  <2> SUFFICES ASSUME NEW j \in Counters, error_v'[j]
               PROVE  mm_irq' /\ (HostHasDac \/ error'[j] = "now")
    OBVIOUS
  <2>1. CASE j = k
    <3>1. (HostHasDac \/ error'[j] = "now") /\ (error_v[k] \/ off)
      BY <1>1, <1>2, <2>1 DEF TypeOK
    <3> QED
      BY <1>2, <3>1 DEF InStep, WaitingErrors
  <2>2. CASE j # k
    <3>1. error_v[j] /\ error'[j] = error[j]
      BY <1>2, <2>2 DEF TypeOK
    <3> QED
      BY <1>1, <1>2, <3>1 DEF InStep, WaitingErrors
  <2> QED
    BY <2>1, <2>2
<1>9. WaitingErrors'
  BY <1>2, <1>3, <1>4, <1>7, <1>8 DEF InStep, WaitingErrors, HostHasDac
<1>10. SecondsFirst'
  BY <1>3, <1>4 DEF SecondsFirst, HostHasDac
<1> QED
  BY <1>5, <1>6, <1>9, <1>10 DEF InStep

\* Two reads of the loop that change nothing else.
LEMMA InStepQuietSteps ==
    ASSUME TypeOK, InStep, HoldOver \/ PollIrq \/ NoRequest \/ NoCommand \/ SetEnable
    PROVE  InStep'
<1> USE DEF hardware, firmware, dacs, history, HoldOver, PollIrq, NoRequest, NoCommand,
            SetEnable, Command, HostHasDac
<1>t. pc \in {"irq", "isr_stop", "isr_read", "enable", "tune", "command"}
  BY DEF TypeOK
<1>1. HostSeen' /\ WhileOff'
  BY <1>t DEF InStep, HostSeen, WhileOff, AtRest, LeftOver, BegunAnyway, WhileOn
<1>2. WhileOn'
  BY <1>t DEF InStep, WhileOn, Starting
<1>3. RunningCounts'
  BY DEF InStep, RunningCounts
<1>4. WaitingErrors'
  BY DEF InStep, WaitingErrors, Starting
<1>5. SecondsFirst' /\ Progress'
  BY DEF InStep, SecondsFirst, Progress, LineThroughItsPoints
<1> QED
  BY <1>1, <1>2, <1>3, <1>4, <1>5 DEF InStep

\* After the counters were reset nothing runs.
LEMMA AfterReset ==
    ASSUME ResetCounters
    PROVE  RunningCounts' /\ SecondsFirst'
  BY DEF ResetCounters, AllIdle, Idle, RunningCounts, SecondsFirst

LEMMA InStepIsrStop ==
    ASSUME TypeOK, InStep, vctcxo_tamer_isr_stop
    PROVE  InStep'
<1> USE DEF vctcxo_tamer_isr_stop, hardware, firmware, dacs, history
<1>0. ctrl'.reset /\ ~ ctrl'.irq_en
  BY DEF TypeOK, vctcxo_tamer_reset_counters, vctcxo_tamer_enable_isr
<1>m. ctrl'.mode = ctrl.mode
  BY DEF TypeOK, vctcxo_tamer_reset_counters, vctcxo_tamer_enable_isr
<1>1. HostSeen' /\ WhileOff' /\ WhileOn'
  BY <1>0, <1>m DEF InStep, HostSeen, WhileOff, AtRest, LeftOver, BegunAnyway, WhileOn, Starting
<1>2. WaitingErrors' /\ Progress'
  BY DEF InStep, WaitingErrors, Starting, Progress, LineThroughItsPoints, HostHasDac
<1> QED
  BY <1>1, <1>2, AfterReset DEF InStep

LEMMA InStepIsrRead ==
    ASSUME TypeOK, InStep, vctcxo_tamer_isr_read
    PROVE  InStep'
<1> USE DEF vctcxo_tamer_isr_read, dacs, history, HostHasDac
<1>0. /\ ready' /\ pkt'.error = error /\ pkt'.flag = error_v
      /\ \A k \in Counters : ~ error_v'[k]
  BY DEF NoFlags
<1>1. mm_irq /\ (tamer_en => ctrl.reset)
  BY DEF InStep, WhileOn, WaitingErrors
<1>2. HostSeen' /\ WhileOff' /\ WhileOn'
  BY <1>0, <1>1 DEF InStep, HostSeen, WhileOff, AtRest, LeftOver, BegunAnyway, WhileOn, Starting
<1>3. WaitingErrors'
  BY <1>0, <1>1 DEF InStep, WaitingErrors
<1>4. RunningCounts' /\ SecondsFirst' /\ Progress'
  BY DEF InStep, RunningCounts, SecondsFirst, Progress, LineThroughItsPoints
<1> QED
  BY <1>2, <1>3, <1>4 DEF InStep

LEMMA InStepPollEnable ==
    ASSUME TypeOK, InStep, PollEnable
    PROVE  InStep'
<1> USE DEF PollEnable, hardware, dacs, history, HostHasDac
<1>1. CASE en_reg = tamer_en
  <2>1. UNCHANGED <<ctrl, hold, cnt, ready, tune_state, late>> /\ UNCHANGED tamer_en
    BY <1>1
  <2>2. HostSeen' /\ WhileOff' /\ WhileOn'
    BY <2>1 DEF InStep, HostSeen, WhileOff, AtRest, LeftOver, BegunAnyway, WhileOn, Starting
  <2>3. WaitingErrors'
    BY <2>1 DEF InStep, WaitingErrors, Starting
  <2>4. RunningCounts' /\ SecondsFirst' /\ Progress'
    BY <2>1 DEF InStep, RunningCounts, SecondsFirst, Progress, LineThroughItsPoints
  <2> QED
    BY <2>2, <2>3, <2>4 DEF InStep
<1>2. CASE en_reg /\ ~ tamer_en
  <2>0. /\ tamer_en' /\ ready' /\ UNCHANGED <<tune_state, late>>
        /\ \/ tune_state = "COARSE_TUNE_MIN"
           \/ tune_state = "COARSE_TUNE_MAX" /\ late
        /\ ctrl'.irq_en /\ ~ ctrl'.reset /\ ResetCounters /\ ~ mm_irq
    <3>1. /\ vctcxo_tamer_init /\ UNCHANGED <<tune_state, late>> /\ tamer_en' = en_reg
          /\ ready' = TRUE
      BY <1>2
    <3>3. ctrl'.irq_en /\ ~ ctrl'.reset /\ ResetCounters
      BY <3>1 DEF vctcxo_tamer_init, vctcxo_tamer_set_tune_mode
    <3>4. /\ ~ mm_irq
          /\ tune_state = "COARSE_TUNE_MIN" \/ (tune_state = "COARSE_TUNE_MAX" /\ late)
      BY <1>2 DEF InStep, WhileOff, AtRest, LeftOver, BegunAnyway
    <3> QED
      BY <1>2, <3>1, <3>3, <3>4
  <2>1. HostSeen' /\ WhileOff' /\ WhileOn'
    BY <2>0 DEF InStep, HostSeen, WhileOff, WhileOn, Starting, ResetCounters
  <2>2. Starting'
    BY <2>0 DEF Starting, ResetCounters
  <2>3. WaitingErrors' /\ Progress'
    BY <2>0, <2>2 DEF InStep, WaitingErrors, Progress, LineThroughItsPoints
  <2> QED
    BY <2>0, <2>1, <2>3, AfterReset DEF InStep
<1>3. CASE ~ en_reg /\ tamer_en
  <2>0. /\ ~ tamer_en' /\ ~ ready' /\ tune_state' = "COARSE_TUNE_MIN" /\ late' = mm_irq
        /\ ctrl'.mode = "DISABLED" /\ ~ ctrl'.irq_en /\ ctrl'.reset /\ ResetCounters
    <3>1. /\ vctcxo_tamer_dis /\ tune_state' = "COARSE_TUNE_MIN" /\ tamer_en' = en_reg
          /\ ready' = FALSE /\ late' = mm_irq
      BY <1>3
    <3>3. ctrl'.mode = "DISABLED" /\ ~ ctrl'.irq_en /\ ctrl'.reset /\ ResetCounters
      BY <3>1 DEF vctcxo_tamer_dis, vctcxo_tamer_set_tune_mode
    <3> QED
      BY <1>3, <3>1, <3>3
  <2>1. HostSeen' /\ WhileOff' /\ WhileOn'
    BY <2>0, <1>3 DEF InStep, HostSeen, WhileOff, AtRest, LeftOver, WhileOn, WaitingErrors
  <2>2. WaitingErrors' /\ Progress'
    BY <2>0 DEF InStep, WaitingErrors, Progress, LineThroughItsPoints
  <2> QED
    BY <2>0, <2>1, <2>2, AfterReset DEF InStep
<1> QED
  BY <1>1, <1>2, <1>3

\* A request is served with nothing running and no interrupt pending; after it
\* interrupts are enabled and the counters released.
LEMMA AtRequest ==
    ASSUME TypeOK, InStep, Request
    PROVE  /\ UNCHANGED <<tamer_en, en_reg>> /\ tamer_en = en_reg
           /\ pc' = "command" /\ ready' = FALSE /\ ctrl'.mode = ctrl.mode
           /\ ctrl'.irq_en /\ ~ ctrl'.reset
           /\ ~ mm_irq' /\ (\A k \in Counters : ~ error_v'[k] /\ cnt[k].state = "IDLE")
           /\ late' = (late /\ ~ tamer_en)
<1>1. tamer_en = en_reg /\ ~ mm_irq /\ \A k \in Counters : ~ error_v[k]
  BY DEF Request, InStep, HostSeen, WaitingErrors
<1>2. /\ UNCHANGED <<mm_irq, error_v, en_reg, tamer_en>> /\ pc' = "command"
      /\ ready' = FALSE /\ late' = (late /\ ~ tamer_en)
  BY DEF Request
<1>3. ctrl'.mode = ctrl.mode /\ ctrl'.irq_en /\ ~ ctrl'.reset
  BY DEF Request, TypeOK, vctcxo_tamer_enable_isr, vctcxo_tamer_reset_counters
<1>4. tamer_en => ctrl.reset \/ hold
  BY DEF Request, InStep, WhileOn, Starting
<1>5. \A k \in Counters : cnt[k].state = "IDLE"
  BY <1>4 DEF InStep, RunningCounts
<1> QED
  BY <1>1, <1>2, <1>3, <1>5

\* A step of the tuning is taken while the tamer is enabled, but for the first.
LEMMA TunesWhileEnabled ==
    ASSUME InStep, Request
    PROVE  /\ tamer_en \/ (tune_state = "COARSE_TUNE_MIN" /\ late /\ ctrl.mode = "DISABLED")
           /\ tamer_en /\ Starting =>
                tune_state = "COARSE_TUNE_MIN" \/ (tune_state = "COARSE_TUNE_MAX" /\ late)
  BY DEF Request, InStep, WhileOff, AtRest, LeftOver, BegunAnyway, WhileOn

\* A new setting does not touch counters that are idle.
LEMMA DacWhenIdle ==
    ASSUME TypeOK, NEW v, Control_TCXO_DAC(TRUE, v), \A k \in Counters : cnt[k].state = "IDLE"
    PROVE  dac' = v /\ trim_dac' = v /\ \A k \in Counters : cnt'[k].state = "IDLE"
  BY DEF TypeOK, Control_TCXO_DAC, CountsOlder

\* What is left to show of a tuning step: it ends with the tamer enabled, or it
\* was the one step that a late interrupt causes.
LEMMA AfterRequest ==
    ASSUME TypeOK, InStep, Request, tune_state' # "COARSE_TUNE_MIN", Progress',
           tamer_en \/ tune_state' = "COARSE_TUNE_MAX",
           \A k \in Counters : cnt'[k].state = "IDLE"
    PROVE  InStep'
<1>1. WhileOff'
  <2>1. ~ tamer_en => late /\ ctrl.mode = "DISABLED"
    BY TunesWhileEnabled
  <2> QED
    BY <2>1, AtRequest DEF WhileOff, BegunAnyway
<1>2. HostSeen' /\ WhileOn'
  BY AtRequest DEF HostSeen, WhileOn, Starting
<1>3. RunningCounts' /\ SecondsFirst' /\ WaitingErrors'
  BY AtRequest DEF RunningCounts, SecondsFirst, WaitingErrors
<1> QED
  BY <1>1, <1>2, <1>3 DEF InStep

\* The error that a coarse step stores was counted under the present setting,
\* if that is one of the tuning and no interrupt was left over.
LEMMA StoredError ==
    ASSUME InStep, Request, tune_state # "COARSE_TUNE_MIN",
           tune_state = "COARSE_TUNE_MAX" => ~ late, ~ HostHasDac
    PROVE  SettingOf(pkt.error[1]) = dac
<1>1. tamer_en /\ ~ Starting
  BY TunesWhileEnabled
<1>2. ready
  BY DEF Request
<1> QED
  BY <1>1, <1>2 DEF InStep, WaitingErrors, SettingOf

LEMMA InStepTune ==
    ASSUME TypeOK, InStep, CoarseTuneMin \/ CoarseTuneMax \/ CoarseTuneDone \/ FineTune
    PROVE  InStep'
<1>r. Request
  BY DEF CoarseTuneMin, CoarseTuneMax, CoarseTuneDone, FineTune
<1>i. \A k \in Counters : cnt[k].state = "IDLE"
  BY <1>r, AtRequest
<1>e. tamer_en \/ tune_state = "COARSE_TUNE_MIN"
  BY <1>r, TunesWhileEnabled
<1>h. \A v \in {"min", "max", "tuned"} : dac' = v => ~ HostHasDac'
  BY DEF HostHasDac
<1>1. CASE CoarseTuneMin
  <2>1. Control_TCXO_DAC(TRUE, "min") /\ tune_state' = "COARSE_TUNE_MAX"
    BY <1>1 DEF CoarseTuneMin
  <2>2. Progress'
    BY <1>i, <2>1, DacWhenIdle DEF Progress, LineThroughItsPoints
  <2> QED
    BY <1>r, <1>i, <2>1, <2>2, DacWhenIdle, AfterRequest
<1>2. CASE CoarseTuneMax
  <2>1. /\ Control_TCXO_DAC(TRUE, "max") /\ tune_state' = "COARSE_TUNE_DONE"
        /\ point' = [point EXCEPT ![0] = SettingOf(pkt.error[1])]
        /\ spoilt' = IF late \/ HostHasDac THEN {0} ELSE {}
        /\ tune_state = "COARSE_TUNE_MAX"
    BY <1>2 DEF CoarseTuneMax
  <2>2. ASSUME ~ late, ~ HostHasDac
        PROVE  point'[0] = "min"
    <3>1. dac = "min"
      BY <1>e, <2>1, <2>2 DEF InStep, Progress
    <3>2. SettingOf(pkt.error[1]) = "min"
      BY <1>r, <2>1, <2>2, <3>1, StoredError
    <3> QED
      BY <2>1, <3>2 DEF TypeOK
  <2>3. 0 \notin spoilt' => point'[0] = "min"
    BY <2>1, <2>2
  <2>4. dac' = "max" /\ trim_dac' = "max" /\ \A k \in Counters : cnt'[k].state = "IDLE"
    BY <1>i, <2>1, DacWhenIdle
  <2>5. Progress'
    BY <2>1, <2>3, <2>4 DEF Progress, LineThroughItsPoints
  <2> QED
    BY <1>r, <1>e, <2>1, <2>4, <2>5, AfterRequest
<1>3. CASE CoarseTuneDone
  <2>1. /\ Control_TCXO_DAC(TRUE, "tuned") /\ tune_state' = "FINE_TUNE"
        /\ point' = [point EXCEPT ![1] = SettingOf(pkt.error[1])]
        /\ spoilt' = spoilt \cup IF HostHasDac THEN {1} ELSE {}
        /\ tune_state = "COARSE_TUNE_DONE"
    BY <1>3 DEF CoarseTuneDone
  <2>2. ASSUME ~ HostHasDac
        PROVE  point'[1] = "max"
    <3>1. dac = "max"
      BY <2>1, <2>2 DEF InStep, Progress
    <3>2. SettingOf(pkt.error[1]) = "max"
      BY <1>r, <2>1, <2>2, <3>1, StoredError
    <3> QED
      BY <2>1, <3>2 DEF TypeOK
  <2>3. /\ 0 \notin spoilt' => point'[0] = "min"
        /\ 1 \notin spoilt' => point'[1] = "max"
    <3>1. point'[0] = point[0]
      BY <2>1 DEF TypeOK
    <3>2. 0 \notin spoilt => point[0] = "min"
      BY <2>1 DEF InStep, Progress
    <3> QED
      BY <2>1, <2>2, <3>1, <3>2
  <2>4. dac' = "tuned" /\ trim_dac' = "tuned" /\ \A k \in Counters : cnt'[k].state = "IDLE"
    BY <1>i, <2>1, DacWhenIdle
  <2>5. Progress'
    BY <2>1, <2>3, <2>4 DEF Progress, LineThroughItsPoints
  <2> QED
    BY <1>r, <1>e, <2>1, <2>4, <2>5, AfterRequest
<1>4. CASE FineTune
  <2>1. tune_state = "FINE_TUNE" /\ UNCHANGED <<tune_state, point, spoilt>>
    BY <1>4 DEF FineTune
  <2>2. (HostHasDac' \/ dac' = trim_dac') /\ \A k \in Counters : cnt'[k].state = "IDLE"
    <3>1. CASE \E k \in Counters : Chosen(k)
      BY <1>4, <1>i, <3>1, DacWhenIdle DEF FineTune
    <3>2. CASE ~ \E k \in Counters : Chosen(k)
      BY <1>4, <1>i, <3>2 DEF FineTune, dacs, InStep, Progress, HostHasDac
    <3> QED
      BY <3>1, <3>2
  <2>3. Progress'
    BY <2>1, <2>2 DEF InStep, Progress, LineThroughItsPoints
  <2> QED
    BY <1>r, <1>e, <2>1, <2>2, <2>3, AfterRequest
<1> QED
  BY <1>1, <1>2, <1>3, <1>4

LEMMA InStepSetDac ==
    ASSUME TypeOK, InStep, SetDac \/ ReleaseDac
    PROVE  InStep'
<1>1. /\ pc = "command" /\ pc' = "irq" /\ HostHasDac' /\ cnt' = CountsOlder
      /\ UNCHANGED <<ctrl, mm_irq, error_v, hold, en_reg, tamer_en, ready, tune_state,
                     point, late, spoilt>>
  BY DEF SetDac, ReleaseDac, Command, Control_TCXO_DAC, HostHasDac, history
<1>2. \A k \in Counters : cnt'[k].state = cnt[k].state
  BY <1>1 DEF CountsOlder, TypeOK
<1>3. HostSeen' /\ WhileOff' /\ WhileOn'
  BY <1>1 DEF InStep, HostSeen, WhileOff, AtRest, LeftOver, BegunAnyway, WhileOn, Starting
<1>4. RunningCounts'
  BY <1>1, <1>2 DEF InStep, RunningCounts
<1>5. SecondsFirst' /\ Progress'
  BY <1>1 DEF InStep, SecondsFirst, Progress, LineThroughItsPoints
<1>6. WaitingErrors'
  BY <1>1 DEF InStep, WaitingErrors
<1> QED
  BY <1>3, <1>4, <1>5, <1>6 DEF InStep

LEMMA InStepNext ==
    ASSUME TypeOK, InStep, [Next]_vars
    PROVE  InStep'
<1>1. CASE Next
  BY <1>1, InStepPps, InStepCountValid, InStepQuietSteps, InStepIsrStop, InStepIsrRead,
     InStepPollEnable, InStepTune, InStepSetDac DEF Next, Hardware, Loop, Tune
<1>2. CASE UNCHANGED vars
  <2>1. HostSeen' /\ WhileOff' /\ WhileOn' /\ RunningCounts'
    BY <1>2 DEF vars, hardware, firmware, dacs, history, InStep, HostSeen, WhileOff, AtRest,
                LeftOver, BegunAnyway, WhileOn, Starting, RunningCounts, HostHasDac
  <2>2. WaitingErrors' /\ SecondsFirst' /\ Progress'
    BY <1>2 DEF vars, hardware, firmware, dacs, history, InStep, Starting, WaitingErrors,
                SecondsFirst, Progress, LineThroughItsPoints, HostHasDac
  <2> QED
    BY <2>1, <2>2 DEF InStep
<1> QED
  BY <1>1, <1>2

\* The states of the loop, the control register, the counters and the errors
\* fit together at every step, whenever a count ends and whatever the host
\* does to the DAC and the enable bit (InStep).
THEOREM StaysInStep == Spec => []InStep
<1>1. TypeOK /\ InStep /\ [Next]_vars => InStep'
  BY InStepNext
<1> QED
  BY <1>1, InStepInit, TypeCorrect, PTL DEF Spec

\* The line of the fine tuning goes through errors that were counted under the
\* two settings it pairs them with, but for those that the host's use of the
\* DAC or an interrupt left over has spoilt.
THEOREM LineIsRight == Spec => []LineThroughItsPoints
<1>1. InStep => LineThroughItsPoints
  BY DEF InStep, Progress
<1> QED
  BY <1>1, StaysInStep, PTL

\* Every fine step corrects the setting that its error was counted under,
\* starting from the cached value of that setting, if the setting is one of
\* the tuning.
THEOREM CorrectionsAreRight == Spec => []CorrectsTheSetting
<1>1. InStep => CorrectsTheSetting
  <2> SUFFICES ASSUME InStep, pc = "tune", ready, tune_state = "FINE_TUNE", ~ HostHasDac
               PROVE  /\ trim_dac = dac
                      /\ \A k \in Counters : Chosen(k) => pkt.error[k] = "now"
    BY DEF CorrectsTheSetting
  <2>1. tamer_en /\ ~ Starting
    BY DEF InStep, WhileOff, AtRest, LeftOver, BegunAnyway, WhileOn
  <2> QED
    BY <2>1 DEF InStep, Progress, WaitingErrors, Chosen
<1> QED
  BY <1>1, StaysInStep, PTL

\* While the tamer is disabled no counter runs, its interrupts are disabled and
\* its tuning starts anew, but for the one step that an interrupt left over
\* causes.
THEOREM DisabledIsQuiet == Spec => []QuietWhenDisabled
<1>1. InStep => QuietWhenDisabled
  BY DEF InStep, WhileOff, AtRest, LeftOver, BegunAnyway, RunningCounts, QuietWhenDisabled
<1> QED
  BY <1>1, StaysInStep, PTL
=============================================================================
