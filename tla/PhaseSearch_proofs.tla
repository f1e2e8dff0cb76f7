------------------------- MODULE PhaseSearch_proofs -------------------------
(***************************************************************************)
(* Proofs about the phase search, for any width of the counters, any step  *)
(* sizes, waits and windows: each shift is counted, each verdict read is   *)
(* that of the phase just set, a search that says it is done leaves the    *)
(* PLL at a right phase, and one that the host lets come to its end finds  *)
(* the middle of the window.                                               *)
(***************************************************************************)
EXTENDS PhaseSearch, TLAPS

IInv == TypeOK /\ InStep

-----------------------------------------------------------------------------
(* The initial states. *)

LEMMA InitType == Init => TypeOK
<1> SUFFICES ASSUME Init PROVE TypeOK
  OBVIOUS
<1>1. eye \in EYES /\ phase \in Int
  BY DEF Init
<1>2. /\ fsm \in FsmStates /\ av \in {"idle", "write", "poll", "end"}
      /\ cmp \in {"idle", "wait_cyc", "compare", "compare_done"}
  BY DEF Init, FsmStates, CmpInit
<1>3. {ps_en, ps_updwn, ps_en_reg, ps_updwn_reg, busy_reg, find_min, find_max,
        pll_reset_req, smpl_cmp_en, ctrl_en, ctrl_updwn, ps_done, ps_status,
        en_reg, busy, locked, start_reg, compare_stop, smpl_err, done, error}
            \subseteq BOOLEAN
  BY DEF Init, CmpInit
<1>4. {locked_sync, done_sync, error_sync, start_sync, was} \subseteq BOOLEAN \X BOOLEAN
  <2>1. <<TRUE, TRUE>> \in BOOLEAN \X BOOLEAN /\ <<FALSE, FALSE>> \in BOOLEAN \X BOOLEAN
    OBVIOUS
  <2> QED  BY <2>1, Zenon DEF Init
<1>5. /\ ps_step_size \in STEPS /\ ps_step_size_reg \in STEPS \union {0}
      /\ {step_cnt, step_cnt_min, step_cnt_max, step_cnt_max_reg, diff, middle, reverse,
            ctrl_phase} \subseteq Counters
  BY PhaseSearchAssumption DEF Init, Counters
<1>6. /\ prep_phase_cnt \in 0..4 /\ settle_cnt \in 0..(SETTLE + 1)
      /\ wait_cnt \in 0..5 /\ compare_cnt \in 0..(CMP_LENGTH + 2)
  BY PhaseSearchAssumption DEF Init, CmpInit
<1> QED  BY <1>1, <1>2, <1>3, <1>4, <1>5, <1>6 DEF TypeOK

LEMMA InitIInv == Init => IInv
<1> SUFFICES ASSUME Init PROVE IInv
  OBVIOUS
<1>1. TypeOK
  BY InitType
<1>2. CompareInStep
  BY DEF Init, CmpInit, CompareInStep, Resting, Reset
<1>3. ShiftInStep
  BY DEF Init, ShiftInStep
<1>4. DoneInStep
  BY DEF Init, DoneInStep, OkMeansRight
<1>5. SearchInStep
  BY DEF Init, SearchInStep, EndsInTheMiddle
<1> QED  BY <1>1, <1>2, <1>3, <1>4, <1>5 DEF IInv, InStep

-----------------------------------------------------------------------------
(* Arithmetic of the counters. *)

LEMMA Wrapped ==
    \A n \in Int : /\ n % (LAST + 1) \in Counters
                   /\ n \in Counters => n % (LAST + 1) = n
BY PhaseSearchAssumption DEF Counters

\* Of two phases that a search visits, the later is a step further at least.
LEMMA Multiples ==
    ASSUME NEW s \in Nat \ {0}, NEW p \in Nat, NEW q \in Nat, p % s = 0, q % s = 0, p < q
    PROVE  p + s <= q
<1>1. /\ p = s * (p \div s) /\ p \div s \in Nat
      /\ q = s * (q \div s) /\ q \div s \in Nat
  OBVIOUS
<1>2. PICK m \in Nat, n \in Nat : p = s * m /\ q = s * n
  BY <1>1
<1>3. m < n
  <2>1. m >= n => s * m >= s * n
    OBVIOUS
  <2> QED  BY <1>2, <2>1
<1>4. m + 1 <= n
  BY <1>3
<1>5. s * (m + 1) <= s * n
  BY <1>4
<1>6. s * (m + 1) = s * m + s
  OBVIOUS
<1> QED  BY <1>2, <1>5, <1>6

LEMMA NextMultiple ==
    ASSUME NEW s \in Nat \ {0}, NEW p \in Nat, p % s = 0
    PROVE  (p + s) % s = 0
<1>1. p = s * (p \div s) /\ p \div s \in Nat
  OBVIOUS
<1>2. PICK m \in Nat : p = s * m
  BY <1>1
<1>3. p + s = s * (m + 1) + 0 /\ m + 1 \in Nat
  BY <1>2
<1>4. \A k \in Nat : (s * k + 0) % s = 0
  OBVIOUS
<1> QED  BY <1>3, <1>4

LEMMA Half ==
    \A n \in Nat : n \div 2 \in Nat /\ n \div 2 <= n
OBVIOUS

-----------------------------------------------------------------------------
(* Types. *)

LEMMA Stutter ==
    ASSUME IInv, UNCHANGED vars
    PROVE  IInv'
<1> USE DEF IInv, vars, hostVars, fsmVars, avVars, pllVars, psSyncs, cmpVars
<1>1. TypeOK'
  BY DEF TypeOK
<1>2. CompareInStep' /\ ShiftInStep' /\ DoneInStep'
  BY DEF InStep, CompareInStep, Comparing, Resting, Reset, Running, Finished, ShiftInStep,
         ToShift, HasShifted, DoneInStep, OkMeansRight, Right, Wrong
<1>3. ASSUME SearchInStep PROVE SearchInStep'
  <2>1. Window' = Window /\ Swept' = Swept /\ Travelled' = Travelled
    BY DEF Window, Swept, Travelled
  <2>2. NoLast' = NoLast /\ LastFound' = LastFound /\ Middle' = Middle
    BY <2>1 DEF NoLast, LastFound, FirstIs, LastIs, Middle
  <2>3. EndsInTheMiddle' = EndsInTheMiddle
    BY <2>1 DEF EndsInTheMiddle
  <2>4. Onwards' = Onwards /\ Preparing' = Preparing /\ Backwards' = Backwards
    BY <2>1, <2>2 DEF Onwards, FoundBelow, FirstIs, Preparing, Backwards, ToShift
  <2>5. Beginning' = Beginning
    BY DEF Beginning
  <2> QED  BY <1>3, <2>1, <2>2, <2>3, <2>4, <2>5 DEF SearchInStep
<1> QED  BY <1>1, <1>2, <1>3 DEF InStep

LEMMA FsmType ==
    ASSUME TypeOK, ShiftInStep, NEW answers \in BOOLEAN, PsEdge(answers)
    PROVE  /\ fsm' \in FsmStates
           /\ prep_phase_cnt' \in 0..4 /\ settle_cnt' \in 0..(SETTLE + 1)
<1>1. fsm' \in FsmStates
  BY DEF TypeOK, FsmStates, PsEdge, PllPsFsm, FsmStep, Found, Goes
<1>2. prep_phase_cnt' \in 0..4
  BY DEF TypeOK, ShiftInStep, PsEdge, PllPsFsm, SearchRegs
<1>3. settle_cnt' \in 0..(SETTLE + 1)
  BY PhaseSearchAssumption DEF TypeOK, ShiftInStep, PsEdge, PllPsFsm, SearchRegs
<1> QED  BY <1>1, <1>2, <1>3

LEMMA CountersType ==
    ASSUME TypeOK, NEW answers \in BOOLEAN, PsEdge(answers)
    PROVE  /\ ps_step_size' \in STEPS /\ ps_step_size_reg' \in STEPS \union {0}
           /\ {step_cnt, step_cnt_min, step_cnt_max, step_cnt_max_reg, diff, middle, reverse,
                 ctrl_phase}' \subseteq Counters
<1> USE DEF PsEdge, PllPsFsm
<1>1. /\ {step_cnt, step_cnt_min, step_cnt_max, step_cnt_max_reg, diff, middle, reverse,
            ctrl_phase, ps_step_size, ps_step_size_reg} \subseteq Counters
      /\ 0 \in Counters /\ LAST \in Counters /\ Counters \subseteq Int
  BY PhaseSearchAssumption DEF TypeOK, Counters
<1>0. step_cnt \in Int /\ ps_step_size_reg \in Int /\ LAST \in Int
  BY <1>1
<1>2. ps_step_size' \in STEPS /\ ps_step_size_reg' \in STEPS \union {0}
  BY DEF TypeOK, InputRegs, hostVars
<1>3. step_cnt_max_reg' \in Counters
  <2>1. LAST - ps_step_size_reg \in Int
    BY <1>0
  <2> QED  BY <2>1, Wrapped DEF InputRegs
<1>4. step_cnt_max' \in Counters
  <2>1. step_cnt - ps_step_size_reg \in Int
    BY <1>0
  <2> QED  BY <1>1, <2>1, Wrapped DEF SearchRegs, MaxReg
<1>5. step_cnt' \in Counters /\ step_cnt_min' \in Counters
  <2>1. step_cnt + ps_step_size_reg \in Int
    BY <1>0
  <2> QED  BY <1>1, <2>1, Wrapped DEF SearchRegs
<1>6. diff' \in Counters /\ middle' \in Counters /\ reverse' \in Counters
  <2>1. /\ step_cnt_max - step_cnt_min \in Int /\ diff \div 2 + step_cnt_min \in Int
        /\ step_cnt - middle \in Int
    BY <1>1 DEF Counters
  <2> QED  BY <2>1, Wrapped DEF MiddleRegs
<1>7. ctrl_phase' \in Counters
  BY <1>1 DEF ControlRegs
<1> QED  BY <1>2, <1>3, <1>4, <1>5, <1>6, <1>7

LEMMA FlagsType ==
    ASSUME TypeOK, NEW answers \in BOOLEAN, PsEdge(answers)
    PROVE  /\ {ps_en, ps_updwn, ps_en_reg, ps_updwn_reg, busy_reg, find_min, find_max,
                 pll_reset_req, smpl_cmp_en, ctrl_en, ctrl_updwn, ps_done, ps_status,
                 en_reg, busy, locked, start_reg, compare_stop, smpl_err, done, error}'
                     \subseteq BOOLEAN
           /\ {locked_sync, done_sync, error_sync, start_sync, was}'
                     \subseteq BOOLEAN \X BOOLEAN
<1> USE DEF PsEdge, PllPsFsm
<1>1. /\ ps_en \in BOOLEAN /\ ps_updwn \in BOOLEAN /\ ps_en_reg \in BOOLEAN
      /\ ps_updwn_reg \in BOOLEAN /\ find_min \in BOOLEAN /\ find_max \in BOOLEAN
      /\ ctrl_en \in BOOLEAN /\ ctrl_updwn \in BOOLEAN /\ busy \in BOOLEAN
      /\ locked \in BOOLEAN /\ done \in BOOLEAN /\ error \in BOOLEAN
  BY DEF TypeOK
<1>2. /\ locked_sync \in BOOLEAN \X BOOLEAN /\ done_sync \in BOOLEAN \X BOOLEAN
      /\ error_sync \in BOOLEAN \X BOOLEAN /\ start_sync \in BOOLEAN \X BOOLEAN
      /\ was \in BOOLEAN \X BOOLEAN
  BY DEF TypeOK
<1>3. /\ ps_en' \in BOOLEAN /\ ps_updwn' \in BOOLEAN /\ ps_en_reg' \in BOOLEAN
      /\ ps_updwn_reg' \in BOOLEAN /\ busy_reg' \in BOOLEAN
  BY <1>1 DEF InputRegs, hostVars
<1>4. find_min' \in BOOLEAN /\ find_max' \in BOOLEAN
  BY <1>1 DEF SearchRegs
<1>5. /\ pll_reset_req' \in BOOLEAN /\ smpl_cmp_en' \in BOOLEAN
      /\ ps_done' \in BOOLEAN /\ ps_status' \in BOOLEAN
  BY DEF StatusRegs
<1>6. ctrl_en' \in BOOLEAN /\ ctrl_updwn' \in BOOLEAN
  BY <1>1 DEF ControlRegs
<1>7. en_reg' \in BOOLEAN /\ busy' \in BOOLEAN /\ locked' \in BOOLEAN
  BY <1>1 DEF PllPsAv, Pll
<1>8. {start_reg, compare_stop, smpl_err, done, error}' \subseteq BOOLEAN
  BY DEF TypeOK, cmpVars
<1>9. \A x, y \in BOOLEAN : <<x, y>> \in BOOLEAN \X BOOLEAN
  OBVIOUS
<1>10. /\ locked_sync[1] \in BOOLEAN /\ done_sync[1] \in BOOLEAN /\ error_sync[1] \in BOOLEAN
       /\ was[1] \in BOOLEAN /\ was[2] \in BOOLEAN
  BY <1>2
<1>11. locked_sync' \in BOOLEAN \X BOOLEAN /\ was' \in BOOLEAN \X BOOLEAN
  BY <1>1, <1>9, <1>10 DEF Syncs
<1>12. done_sync' \in BOOLEAN \X BOOLEAN
  <2>1. PICK seen \in {done, was[1]} : done_sync' = <<seen, done_sync[1]>>
    BY DEF Syncs
  <2> QED  BY <1>1, <1>9, <1>10, <2>1
<1>13. error_sync' \in BOOLEAN \X BOOLEAN
  <2>1. PICK seen \in {error, was[2]} : error_sync' = <<seen, error_sync[1]>>
    BY DEF Syncs
  <2> QED  BY <1>1, <1>9, <1>10, <2>1
<1>14. start_sync' \in BOOLEAN \X BOOLEAN
  BY <1>2
<1> QED
  BY <1>3, <1>4, <1>5, <1>6, <1>7, <1>8, <1>11, <1>12, <1>13, <1>14

LEMMA PsEdgeType ==
    ASSUME TypeOK, ShiftInStep, NEW answers \in BOOLEAN, PsEdge(answers)
    PROVE  TypeOK'
<1>1. av' \in {"idle", "write", "poll", "end"}
  BY DEF PsEdge, PllPsAv, AvGoes, TypeOK
<1>2. phase' \in Int /\ eye' \in EYES
  <2>1. phase \in Int /\ ctrl_phase \in Int
    BY PhaseSearchAssumption DEF TypeOK, Counters
  <2> QED  BY <2>1 DEF PsEdge, Pll, TypeOK
<1>3. /\ cmp' \in {"idle", "wait_cyc", "compare", "compare_done"}
      /\ wait_cnt' \in 0..5 /\ compare_cnt' \in 0..(CMP_LENGTH + 2)
  BY DEF PsEdge, cmpVars, TypeOK
<1> QED  BY <1>1, <1>2, <1>3, FsmType, CountersType, FlagsType DEF TypeOK

LEMMA RxEdgeType ==
    ASSUME TypeOK, CompareInStep, RxEdge
    PROVE  TypeOK'
<1>1. UNCHANGED <<hostVars, fsmVars, avVars, pllVars, psSyncs>>
  BY DEF RxEdge
<1>2. /\ cmp \in {"idle", "wait_cyc", "compare", "compare_done"} /\ smpl_err \in BOOLEAN
      /\ done \in BOOLEAN /\ error \in BOOLEAN /\ smpl_cmp_en \in BOOLEAN
      /\ start_sync[1] \in BOOLEAN
      /\ wait_cnt \in 0..5 /\ compare_cnt \in 0..(CMP_LENGTH + 2)
  BY DEF TypeOK
<1>3. /\ {start_reg, compare_stop, smpl_err, done, error}' \subseteq BOOLEAN
      /\ cmp' \in {"idle", "wait_cyc", "compare", "compare_done"}
  <2>1. CASE start_sync[1] /\ start_sync[2]
    <3>1. CmpRun
      BY <2>1 DEF RxEdge
    <3>2. smpl_err' \in BOOLEAN
      BY <3>1 DEF CmpRun, SampleErr
    <3>3. start_reg' \in BOOLEAN /\ compare_stop' \in BOOLEAN
      BY <3>1 DEF CmpRun
    <3>4. done' \in BOOLEAN /\ error' \in BOOLEAN
      BY <3>1 DEF CmpRun, Verdict
    <3>5. cmp' \in {"idle", "wait_cyc", "compare", "compare_done"}
      BY <1>2, <3>1 DEF CmpRun, CmpStep, CmpGoes
    <3> QED  BY <3>2, <3>3, <3>4, <3>5
  <2>2. CASE ~(start_sync[1] /\ start_sync[2])
    BY <2>2 DEF RxEdge, CmpReset
  <2> QED  BY <2>1, <2>2
<1>4. /\ cmp = "wait_cyc" => wait_cnt <= 4
      /\ cmp = "compare" => compare_cnt <= CMP_LENGTH + 1
  BY DEF CompareInStep, Comparing, Resting, Reset, Running, Finished
<1>5. wait_cnt' \in 0..5 /\ compare_cnt' \in 0..(CMP_LENGTH + 2)
  BY <1>2, <1>4, PhaseSearchAssumption DEF RxEdge, CmpRun, CmpReset
<1>6. {start_sync, was}' \subseteq BOOLEAN \X BOOLEAN
  <2>1. \A x, y \in BOOLEAN : <<x, y>> \in BOOLEAN \X BOOLEAN
    OBVIOUS
  <2>2. start_sync' = <<smpl_cmp_en, start_sync[1]>> /\ was' = <<done, error>>
    BY DEF RxEdge
  <2> QED  BY <1>2, <2>1, <2>2
<1>7. {locked_sync, done_sync, error_sync}' \subseteq BOOLEAN \X BOOLEAN
  BY <1>1 DEF TypeOK, psSyncs
<1> QED
  BY <1>1, <1>3, <1>5, <1>6, <1>7 DEF TypeOK, hostVars, fsmVars, avVars, pllVars

LEMMA HostType ==
    ASSUME TypeOK, Host
    PROVE  TypeOK'
<1>1. ps_en' \in BOOLEAN /\ ps_updwn' \in BOOLEAN /\ ps_step_size' \in STEPS
  BY DEF TypeOK, Host, HostStarts, HostSets, HostStops
<1> QED
  BY <1>1 DEF TypeOK, Host, fsmVars, avVars, pllVars, psSyncs, cmpVars

-----------------------------------------------------------------------------
(* The comparison: CompareInStep is preserved. *)

\* The phase is left alone but by a shift and by the reset of the PLL.
LEMMA PhaseStill ==
    ASSUME TypeOK, ShiftInStep, NEW answers \in BOOLEAN, PsEdge(answers),
           fsm \notin {"rst_pll", "ph_shift"}
    PROVE  phase' = phase /\ eye' = eye /\ (Right' <=> Right)
<1>1. av = "idle" /\ ~pll_reset_req'
  BY DEF ShiftInStep, PsEdge, PllPsFsm, StatusRegs
<1>2. phase' = phase /\ eye' = eye
  BY <1>1 DEF PsEdge, Pll
<1> QED  BY <1>2 DEF Right

\* cmp_smpls begins when the last verdict is gone and ends when there is one.
LEMMA ComparesFromTo ==
    ASSUME FsmStep
    PROVE  /\ fsm # "cmp_smpls" /\ fsm' = "cmp_smpls" =>
                  fsm = "check_cmp_status" /\ ~done_sync[2]
           /\ fsm = "cmp_smpls" => (fsm' # "cmp_smpls" <=> done_sync[2])
<1>1. fsm # "cmp_smpls" /\ fsm' = "cmp_smpls" => fsm = "check_cmp_status" /\ ~done_sync[2]
  BY DEF FsmStep, Found, Goes, CompareReset
<1>2. fsm = "cmp_smpls" => Found
  BY DEF FsmStep, Goes
<1>3. fsm = "cmp_smpls" => (fsm' # "cmp_smpls" <=> done_sync[2])
  BY <1>2 DEF Found, Goes, Compared
<1> QED  BY <1>1, <1>3

LEMMA PsEdgeCompares ==
    ASSUME TypeOK, ShiftInStep, CompareInStep, NEW answers \in BOOLEAN, PsEdge(answers)
    PROVE  CompareInStep'
<1>1. /\ UNCHANGED <<cmp, start_reg, wait_cnt, compare_cnt, compare_stop, smpl_err, done,
                     error, start_sync>>
      /\ smpl_cmp_en' <=> fsm = "cmp_smpls"
      /\ was' = <<done, error>>
  BY DEF PsEdge, PllPsFsm, StatusRegs, Syncs, cmpVars
<1>2. PICK seen \in {done, was[1]} : done_sync' = <<seen, done_sync[1]>>
  BY DEF PsEdge, Syncs
<1>3. PICK wrong \in {error, was[2]} : error_sync' = <<wrong, error_sync[1]>>
  BY DEF PsEdge, Syncs
<1>4. /\ done_sync'[1] = seen /\ done_sync'[2] = done_sync[1]
      /\ error_sync'[1] = wrong /\ error_sync'[2] = error_sync[1]
      /\ was'[1] = done /\ was'[2] = error
  BY <1>1, <1>2, <1>3
<1>5. /\ fsm # "cmp_smpls" /\ fsm' = "cmp_smpls" =>
             fsm = "check_cmp_status" /\ ~done_sync[2]
      /\ fsm = "cmp_smpls" => (fsm' # "cmp_smpls" <=> done_sync[2])
  BY ComparesFromTo DEF PsEdge, PllPsFsm
<1>6. Reset' <=> Reset
  BY <1>1 DEF Reset
<1>7. Finished' <=> Finished
  BY <1>1 DEF Finished
<1>8. CASE fsm = "cmp_smpls" /\ fsm' = "cmp_smpls"
  <2>1. Right' <=> Right
    BY <1>8, PhaseStill
  <2>2. Comparing /\ ~done_sync[2]
    BY <1>5, <1>8 DEF CompareInStep
  <2>3. Running' <=> Running
    BY <1>1, <2>1 DEF Running
  <2>4. CASE Reset /\ ~was[1] /\ ~done_sync[1]
    BY <1>1, <1>2, <1>4, <1>6, <1>8, <2>2, <2>4
       DEF CompareInStep, Comparing, Reset, Running, Finished
  <2>5. CASE Running /\ ~was[1] /\ ~done_sync[1]
    BY <1>1, <1>2, <1>4, <1>8, <2>2, <2>3, <2>5
       DEF CompareInStep, Comparing, Reset, Running, Finished
  <2>6. CASE Finished
    <3>1. /\ (error <=> ~Right) /\ (was[2] <=> ~Right) /\ start_sync[1] /\ start_sync[2]
          /\ done_sync[1] => was[1] /\ (error_sync[1] <=> ~Right)
      BY <2>2, <2>6 DEF Comparing, Reset, Running, Finished
    <3>2. wrong <=> ~Right
      BY <1>3, <3>1
    <3>3. done /\ (done_sync[1] => seen)
      BY <1>2, <2>6, <3>1 DEF Finished
    <3> QED
      BY <1>1, <1>4, <1>7, <1>8, <2>1, <2>6, <3>1, <3>2, <3>3 DEF CompareInStep, Comparing
  <2> QED  BY <2>2, <2>4, <2>5, <2>6 DEF Comparing
<1>9. CASE fsm = "cmp_smpls" /\ fsm' # "cmp_smpls"
  <2>1. Finished /\ start_sync[1] /\ start_sync[2] /\ was[1] /\ done_sync[1]
    BY <1>5, <1>9 DEF CompareInStep, Comparing
  <2>2. done /\ seen
    BY <1>2, <2>1 DEF Finished
  <2> QED  BY <1>1, <1>4, <1>7, <1>9, <2>1, <2>2 DEF CompareInStep, Resting
<1>10. CASE fsm # "cmp_smpls" /\ fsm' = "cmp_smpls"
  <2>1. Resting /\ ~done_sync[2] /\ ~smpl_cmp_en'
    BY <1>1, <1>5, <1>10 DEF CompareInStep
  <2>2. /\ Reset /\ ~start_sync[1] /\ ~start_sync[2] /\ ~was[1] /\ ~done_sync[1]
    BY <2>1 DEF Resting
  <2>3. ~done /\ ~seen
    BY <1>2, <2>2 DEF Reset
  <2> QED  BY <1>1, <1>4, <1>6, <1>10, <2>1, <2>2, <2>3 DEF CompareInStep, Comparing
<1>11. CASE fsm # "cmp_smpls" /\ fsm' # "cmp_smpls"
  <2>1. Resting /\ ~smpl_cmp_en'
    BY <1>1, <1>11 DEF CompareInStep
  <2>2. CASE Finished
    <3>1. start_sync[2] /\ was[1] /\ done_sync[1]
      BY <2>1, <2>2 DEF Resting, Finished, Reset
    <3>2. done /\ seen
      BY <1>2, <2>2, <3>1 DEF Finished
    <3> QED  BY <1>1, <1>4, <1>7, <1>11, <2>1, <2>2, <3>1, <3>2 DEF CompareInStep, Resting
  <2>3. CASE Reset
    <3>1. /\ ~start_sync[1] /\ ~start_sync[2] /\ (was[1] => done_sync[1]) /\ ~done
      BY <2>1, <2>3 DEF Resting, Finished, Reset
    <3>2. seen => done_sync[1]
      BY <1>2, <3>1
    <3> QED  BY <1>1, <1>4, <1>6, <1>11, <2>1, <2>3, <3>1, <3>2 DEF CompareInStep, Resting
  <2> QED  BY <2>1, <2>2, <2>3 DEF Resting
<1> QED  BY <1>8, <1>9, <1>10, <1>11

\* smpl_cmp runs only while both of its synchronised start bits are set.
LEMMA RxEdgeRuns ==
    ASSUME TypeOK, Running, CmpRun, UNCHANGED pllVars, was' = <<done, error>>
    PROVE  \/ Running' /\ ~was'[1]
           \/ /\ Finished' /\ ~was'[1]
              /\ (error' <=> ~Right') /\ (was'[2] <=> ~Right')
<1>1. Right' <=> Right
  BY DEF pllVars, Right
<1>2. /\ start_reg' = TRUE
      /\ wait_cnt' = IF cmp = "wait_cyc" THEN wait_cnt + 1 ELSE 0
      /\ compare_cnt' = IF cmp = "compare" THEN compare_cnt + 1 ELSE 0
      /\ compare_stop' <=> compare_cnt > CMP_LENGTH - 1
      /\ done' <=> done \/ cmp = "compare_done"
      /\ error' <=> error \/ (cmp = "compare" /\ smpl_err)
  BY DEF CmpRun, Verdict
<1>3. /\ wait_cnt \in Nat /\ compare_cnt \in Nat /\ CMP_LENGTH \in Nat /\ CMP_LENGTH >= 1
      /\ smpl_err \in BOOLEAN
  BY PhaseSearchAssumption DEF TypeOK
<1>4. was'[1] = done /\ was'[2] = error /\ ~done
  BY DEF Running
<1>5. CASE cmp = "wait_cyc"
  <2>1. /\ wait_cnt <= 4 /\ compare_cnt = 0 /\ ~error
        /\ wait_cnt = 4 /\ smpl_err => ~Right
    BY <1>5 DEF Running
  <2>2. CmpGoes("wait_cyc", IF PipelineClean THEN "compare" ELSE "wait_cyc")
    BY <1>5 DEF CmpRun, CmpStep, CmpGoes
  <2>3. cmp' = IF wait_cnt = 4 THEN "compare" ELSE "wait_cyc"
    BY <1>3, <2>1, <2>2 DEF CmpGoes, PipelineClean
  <2>4. wait_cnt > 2 => (smpl_err' => ~Right)
    <3>1. wait_cnt > 2 => ~Flushing
      BY <1>3, <1>5 DEF Flushing
    <3>2. wait_cnt > 2 /\ Right => smpl_err' \in {~Right}
      BY <3>1 DEF CmpRun, SampleErr
    <3> QED  BY <3>2
  <2>5. ~compare_stop' /\ compare_cnt' = 0 /\ ~error' /\ ~done' /\ wait_cnt' = wait_cnt + 1
    BY <1>2, <1>3, <1>4, <1>5, <2>1
  <2>6. Running'
    BY <1>1, <1>2, <1>3, <2>1, <2>3, <2>4, <2>5 DEF Running
  <2> QED  BY <1>4, <2>6
<1>6. CASE cmp = "compare"
  <2>1. /\ ~error
        /\ compare_cnt <= CMP_LENGTH + 1 /\ (compare_cnt > CMP_LENGTH => compare_stop)
        /\ smpl_err => ~Right
        /\ compare_stop /\ ~Right => smpl_err
    BY <1>6 DEF Running
  <2>2. CmpGoes("compare", IF compare_stop \/ smpl_err THEN "compare_done" ELSE "compare")
    BY <1>6 DEF CmpRun, CmpStep, CmpGoes
  <2>3. cmp' = IF compare_stop \/ smpl_err THEN "compare_done" ELSE "compare"
    BY <2>2 DEF CmpGoes
  <2>4. /\ smpl_err' => ~Right
        /\ compare_cnt >= CMP_LENGTH /\ ~Right => smpl_err'
    <3>1. ~Flushing
      BY <1>6 DEF Flushing
    <3>2. Right \/ ~(compare_cnt < CMP_LENGTH) => (smpl_err' <=> ~Right)
      BY <3>1 DEF CmpRun, SampleErr
    <3>3. compare_cnt >= CMP_LENGTH => ~(compare_cnt < CMP_LENGTH)
      BY <1>3
    <3> QED  BY <3>2, <3>3
  <2>5. ~done' /\ (error' <=> smpl_err) /\ compare_cnt' = compare_cnt + 1
        /\ (compare_stop' <=> compare_cnt >= CMP_LENGTH)
    BY <1>2, <1>3, <1>4, <1>6, <2>1
  <2>6. Running'
    BY <1>1, <1>2, <1>3, <2>1, <2>3, <2>4, <2>5 DEF Running
  <2> QED  BY <1>4, <2>6
<1>7. CASE cmp = "compare_done"
  <2>1. error <=> ~Right
    BY <1>7 DEF Running
  <2>2. cmp' = "idle"
    BY <1>7 DEF CmpRun, CmpStep, CmpGoes
  <2>3. done' /\ (error' <=> error)
    BY <1>2, <1>7, <2>1
  <2> QED  BY <1>1, <1>2, <1>4, <2>1, <2>2, <2>3 DEF Finished
<1> QED  BY <1>5, <1>6, <1>7 DEF Running

LEMMA RxEdgeStarts ==
    ASSUME TypeOK, Reset, CmpRun, UNCHANGED pllVars
    PROVE  Running'
<1>1. CMP_LENGTH \in Nat /\ CMP_LENGTH >= 1
  BY PhaseSearchAssumption
<1>2. cmp' = "wait_cyc"
  BY DEF Reset, CmpRun, CmpStep, CmpGoes
<1>3. start_reg' /\ wait_cnt' = 0 /\ compare_cnt' = 0 /\ ~done' /\ ~error'
  BY DEF Reset, CmpRun, Verdict
<1>4. ~compare_stop'
  <2>1. compare_stop' <=> compare_cnt > CMP_LENGTH - 1
    BY DEF CmpRun
  <2> QED  BY <1>1, <2>1 DEF Reset
<1> QED  BY <1>2, <1>3, <1>4 DEF Running

LEMMA RxEdgeStays ==
    ASSUME TypeOK, Finished, CmpRun
    PROVE  Finished' /\ (error' <=> error)
<1>1. cmp' = "idle"
  BY DEF Finished, CmpRun, CmpStep, CmpGoes
<1> QED  BY <1>1 DEF Finished, CmpRun, Verdict

LEMMA RxEdgeCompares ==
    ASSUME TypeOK, CompareInStep, RxEdge
    PROVE  CompareInStep'
<1>1. /\ UNCHANGED <<fsm, done_sync, error_sync, smpl_cmp_en, pllVars>>
      /\ start_sync' = <<smpl_cmp_en, start_sync[1]>> /\ was' = <<done, error>>
      /\ IF start_sync[1] /\ start_sync[2] THEN CmpRun ELSE CmpReset
  BY DEF RxEdge, fsmVars, psSyncs
<1>2. /\ start_sync'[1] = smpl_cmp_en /\ start_sync'[2] = start_sync[1]
      /\ was'[1] = done /\ was'[2] = error /\ (Right' <=> Right)
  BY <1>1 DEF Right, pllVars
<1>3. CmpReset => Reset'
  BY DEF CmpReset, Reset
<1>4. CASE fsm = "cmp_smpls"
  <2>1. Comparing
    BY <1>4 DEF CompareInStep
  <2>2. CASE Reset
    <3>1. /\ ~was[1] /\ ~done_sync[1] /\ ~done_sync[2] /\ ~done
          /\ start_sync[2] => start_sync[1]
          /\ start_sync[1] => smpl_cmp_en
      BY <2>1, <2>2 DEF Comparing, Reset, Running, Finished
    <3>2. start_sync[2] => Running'
      BY <1>1, <2>2, <3>1, RxEdgeStarts
    <3>3. ~start_sync[2] => Reset'
      BY <1>1, <1>3
    <3> QED  BY <1>1, <1>2, <1>4, <3>1, <3>2, <3>3 DEF CompareInStep, Comparing
  <2>3. CASE Running
    <3>1. /\ ~done_sync[1] /\ ~done_sync[2] /\ smpl_cmp_en /\ start_sync[1] /\ start_sync[2]
      BY <2>1, <2>3 DEF Comparing, Reset, Running, Finished
    <3>2. CmpRun
      BY <1>1, <3>1
    <3> QED
      BY <1>1, <1>2, <1>4, <2>3, <3>1, <3>2, RxEdgeRuns DEF CompareInStep, Comparing
  <2>4. CASE Finished
    <3>1. /\ smpl_cmp_en /\ start_sync[1] /\ start_sync[2]
          /\ (error <=> ~Right)
          /\ done_sync[1] => was[1] /\ (error_sync[1] <=> ~Right)
          /\ done_sync[2] => done_sync[1] /\ (error_sync[2] <=> ~Right)
      BY <2>1, <2>4 DEF Comparing, Reset, Running, Finished
    <3>2. Finished' /\ (error' <=> error)
      BY <1>1, <2>4, <3>1, RxEdgeStays
    <3>3. done
      BY <2>4 DEF Finished
    <3> QED  BY <1>1, <1>2, <1>4, <3>1, <3>2, <3>3 DEF CompareInStep, Comparing
  <2> QED  BY <2>1, <2>2, <2>3, <2>4 DEF Comparing
<1>5. CASE fsm # "cmp_smpls"
  <2>1. Resting
    BY <1>5 DEF CompareInStep
  <2>2. CASE Finished
    <3>1. /\ start_sync[2] /\ was[1] /\ done_sync[1] /\ done_sync[2] /\ done
          /\ smpl_cmp_en => start_sync[1]
      BY <2>1, <2>2 DEF Resting, Reset, Finished
    <3>2. start_sync[1] => Finished'
      BY <1>1, <2>2, <3>1, RxEdgeStays
    <3>3. ~start_sync[1] => Reset'
      BY <1>1, <1>3
    <3> QED  BY <1>1, <1>2, <1>5, <3>1, <3>2, <3>3 DEF CompareInStep, Resting
  <2>3. CASE Reset
    <3>1. /\ ~start_sync[1] /\ ~start_sync[2] /\ ~smpl_cmp_en /\ ~done
          /\ done_sync[1] => done_sync[2]
      BY <2>1, <2>3 DEF Resting, Reset, Finished
    <3>2. Reset'
      BY <1>1, <1>3, <3>1
    <3> QED  BY <1>1, <1>2, <1>5, <3>1, <3>2 DEF CompareInStep, Resting
  <2> QED  BY <2>1, <2>2, <2>3 DEF Resting
<1> QED  BY <1>4, <1>5

-----------------------------------------------------------------------------
(* The shift: ShiftInStep is preserved. *)

\* The next state of the search, from each of its states.
LEMMA NextState ==
    ASSUME FsmStep
    PROVE  /\ fsm = "idle" => fsm' = IF Rising THEN "rst_pll" ELSE "idle"
           /\ fsm = "rst_pll" => fsm' \in {"rst_pll", "wait_pll_lock"}
           /\ fsm = "wait_pll_lock" =>
                  \/ fsm' = "wait_pll_lock"
                  \/ fsm' = IF find_min \/ find_max THEN "check_cmp_status" ELSE "ph_shift"
           /\ fsm = "check_cmp_status" => fsm' \in {"cmp_smpls", "check_cmp_status"}
           /\ fsm = "cmp_smpls" =>
                  fsm' \in {"min_found", "max_found", "check_max_steps", "end_srch", "cmp_smpls"}
           /\ fsm = "min_found" => fsm' = "check_max_steps"
           /\ fsm = "max_found" => fsm' = "prep_phase"
           /\ fsm = "check_max_steps" =>
                  \/ fsm' = "ph_shift" /\ step_cnt < step_cnt_max_reg
                  \/ fsm' = "prep_phase" /\ step_cnt >= step_cnt_max_reg /\ ~find_min
                  \/ fsm' = "end_srch" /\ step_cnt >= step_cnt_max_reg /\ find_min
           /\ fsm = "ph_shift" =>
                  fsm' = IF Shifted THEN "wait_after_ph_shift" ELSE "ph_shift"
           /\ fsm = "wait_after_ph_shift" =>
                  fsm' = IF settle_cnt > SETTLE - 1 THEN "check_cmp_status"
                         ELSE "wait_after_ph_shift"
           /\ fsm = "prep_phase" => fsm' = IF PhaseReady THEN "ph_shift" ELSE "prep_phase"
           /\ fsm = "end_srch" => fsm' = "idle"
<1>1. \/ fsm = "idle" /\ fsm' = IF Rising THEN "rst_pll" ELSE "idle"
      \/ fsm = "rst_pll" /\ fsm' \in {"rst_pll", "wait_pll_lock"}
      \/ fsm = "wait_pll_lock" /\ fsm' = "wait_pll_lock"
      \/ fsm = "wait_pll_lock"
            /\ fsm' = IF find_min \/ find_max THEN "check_cmp_status" ELSE "ph_shift"
      \/ fsm = "check_cmp_status" /\ fsm' \in {"cmp_smpls", "check_cmp_status"}
      \/ Found
      \/ fsm = "ph_shift" /\ fsm' = IF Shifted THEN "wait_after_ph_shift" ELSE "ph_shift"
      \/ fsm = "wait_after_ph_shift"
            /\ fsm' = IF settle_cnt > SETTLE - 1 THEN "check_cmp_status"
                      ELSE "wait_after_ph_shift"
      \/ fsm = "prep_phase" /\ fsm' = IF PhaseReady THEN "ph_shift" ELSE "prep_phase"
      \/ fsm = "end_srch" /\ fsm' = "idle"
  BY Zenon DEF FsmStep, Goes
<1>2. Found =>
          \/ fsm = "cmp_smpls" /\
                fsm' \in {"min_found", "max_found", "check_max_steps", "end_srch", "cmp_smpls"}
          \/ fsm = "min_found" /\ fsm' = "check_max_steps"
          \/ fsm = "max_found" /\ fsm' = "prep_phase"
          \/ fsm = "check_max_steps" /\
                 \/ fsm' = "ph_shift" /\ step_cnt < step_cnt_max_reg
                 \/ fsm' = "prep_phase" /\ step_cnt >= step_cnt_max_reg /\ ~find_min
                 \/ fsm' = "end_srch" /\ step_cnt >= step_cnt_max_reg /\ find_min
  BY DEF Found, Goes
<1> QED  BY <1>1, <1>2

LEMMA PsEdgeShifts ==
    ASSUME TypeOK, ShiftInStep, DoneInStep, NEW answers \in BOOLEAN, PsEdge(answers)
    PROVE  ShiftInStep'
<1>1. /\ busy_reg' = busy /\ en_reg' = ctrl_en
      /\ busy' <=> av # "idle"
      /\ ctrl_en' <=> fsm = "ph_shift"
      /\ settle_cnt' = IF fsm = "wait_after_ph_shift" THEN settle_cnt + 1 ELSE 0
      /\ prep_phase_cnt' = IF fsm = "prep_phase" THEN prep_phase_cnt + 1 ELSE 0
  BY DEF PsEdge, PllPsFsm, InputRegs, ControlRegs, SearchRegs, PllPsAv
<1>2. /\ av = "idle" => av' = IF ctrl_en /\ ~en_reg THEN "write" ELSE "idle"
      /\ av = "write" => av' \in {"write", "poll"}
      /\ av = "poll" => av' \in {"poll", "end"}
      /\ av = "end" => av' = "idle"
  BY DEF PsEdge, PllPsAv, AvGoes, Starts
<1>3. FsmStep
  BY DEF PsEdge, PllPsFsm
<1>4. /\ settle_cnt \in Nat /\ prep_phase_cnt \in Nat /\ SETTLE \in Nat /\ SETTLE >= 1
      /\ fsm \in FsmStates /\ fsm' \in FsmStates
  BY PhaseSearchAssumption, FsmType DEF TypeOK
<1>5. CASE fsm = "ph_shift"
  <2>1. fsm' = IF busy_reg /\ ~busy THEN "wait_after_ph_shift" ELSE "ph_shift"
    BY <1>3, <1>5, NextState DEF Shifted
  <2>2. ctrl_en' /\ settle_cnt' = 0
    BY <1>1, <1>5
  <2>3. CASE ToShift
    BY <1>1, <1>2, <1>4, <2>1, <2>2, <2>3 DEF ShiftInStep, ToShift, HasShifted
  <2>4. CASE HasShifted
    BY <1>1, <1>2, <1>4, <2>1, <2>2, <2>4 DEF ShiftInStep, HasShifted
  <2> QED  BY <1>5, <2>3, <2>4 DEF ShiftInStep
<1>6. CASE fsm # "ph_shift"
  <2>1. /\ av = "idle" /\ (ctrl_en => en_reg)
        /\ fsm \notin {"ph_shift", "wait_after_ph_shift"} => ~en_reg
        /\ fsm \notin {"idle", "rst_pll", "ph_shift"} => ~busy
    BY <1>6 DEF ShiftInStep
  <2>2. av' = "idle" /\ ~busy' /\ ~ctrl_en'
    BY <1>1, <1>2, <1>6, <2>1
  <2>3. fsm = "wait_after_ph_shift" =>
           /\ settle_cnt <= SETTLE
           /\ ctrl_en => settle_cnt = 0
    BY DEF ShiftInStep
  <2>4. fsm' = "wait_after_ph_shift" =>
            fsm = "wait_after_ph_shift" /\ ~(settle_cnt > SETTLE - 1)
    BY <1>3, <1>4, <1>6, NextState DEF FsmStates
  <2>5. fsm = "wait_after_ph_shift" /\ fsm' # "wait_after_ph_shift" => settle_cnt > SETTLE - 1
    BY <1>3, NextState
  <2>6. fsm' = "wait_after_ph_shift" => settle_cnt' <= SETTLE /\ (en_reg' => settle_cnt' <= 1)
    BY <1>1, <1>4, <2>3, <2>4
  <2>7. fsm' # "wait_after_ph_shift" => ~en_reg'
    <3>1. ctrl_en => fsm = "wait_after_ph_shift" /\ settle_cnt = 0
      BY <1>6, <2>1, <2>3
    <3>2. settle_cnt = 0 => ~(settle_cnt > SETTLE - 1)
      BY <1>4
    <3>3. fsm' # "wait_after_ph_shift" => ~ctrl_en
      BY <2>5, <3>1, <3>2
    <3> QED  BY <1>1, <3>3
  <2>8. fsm' \notin {"idle", "rst_pll", "wait_pll_lock", "ph_shift"} => ~busy_reg'
    BY <1>1, <1>3, <1>4, <1>6, <2>1, NextState DEF FsmStates
  <2>9. fsm' = "ph_shift" => ~busy_reg'
    <3>1. fsm' = "ph_shift" => fsm \in {"wait_pll_lock", "check_max_steps", "prep_phase"}
      BY <1>3, <1>4, <1>6, NextState DEF FsmStates
    <3> QED  BY <1>1, <2>1, <3>1
  <2>10. fsm' = "prep_phase" => prep_phase_cnt' <= 3
    <3>1. fsm = "prep_phase" /\ fsm' = "prep_phase" => ~(prep_phase_cnt > 2)
      BY <1>3, NextState DEF PhaseReady
    <3> QED  BY <1>1, <1>4, <3>1
  <2> QED  BY <2>2, <2>6, <2>7, <2>8, <2>9, <2>10 DEF ShiftInStep, ToShift
<1> QED  BY <1>5, <1>6

\* Between two edges of its clock, nothing of the search changes but what the host
\* sets; the host raises ps_en only when the search has seen it low.
LEMMA OthersLeave ==
    ASSUME RxEdge \/ PllLocks \/ Host
    PROVE  /\ UNCHANGED <<fsmVars, avVars, phase, eye, psSyncs>>
           /\ (Right' <=> Right) /\ (Wrong' <=> Wrong)
<1>1. UNCHANGED <<fsmVars, avVars, phase, eye, psSyncs>>
  BY DEF RxEdge, PllLocks, Host, pllVars
<1>2. (Right' <=> Right) /\ (Wrong' <=> Wrong)
  BY <1>1 DEF Right, Wrong, psSyncs
<1> QED  BY <1>1, <1>2

LEMMA OthersCompare ==
    ASSUME CompareInStep, PllLocks \/ Host
    PROVE  CompareInStep'
<1>1. UNCHANGED <<fsm, smpl_cmp_en, phase, eye, done_sync, error_sync, start_sync, was,
                  cmpVars>>
  BY DEF PllLocks, Host, fsmVars, pllVars, psSyncs
<1>2. (Right' <=> Right) /\ (Reset' <=> Reset) /\ (Finished' <=> Finished)
  BY <1>1 DEF Right, Reset, Finished, cmpVars
<1>3. Running' <=> Running
  BY <1>1, <1>2 DEF Running, cmpVars
<1>4. (Comparing' <=> Comparing) /\ (Resting' <=> Resting)
  BY <1>1, <1>2, <1>3 DEF Comparing, Resting, cmpVars
<1> QED  BY <1>1, <1>4 DEF CompareInStep

LEMMA OthersShift ==
    ASSUME ShiftInStep, RxEdge \/ PllLocks \/ Host
    PROVE  ShiftInStep'
<1>1. UNCHANGED <<fsmVars, avVars>>
  BY OthersLeave
<1> QED  BY <1>1 DEF ShiftInStep, ToShift, HasShifted, fsmVars, avVars

LEMMA OthersDone ==
    ASSUME DoneInStep, RxEdge \/ PllLocks \/ Host
    PROVE  DoneInStep'
<1>1. UNCHANGED <<fsmVars, psSyncs>> /\ (Right' <=> Right) /\ (Wrong' <=> Wrong)
  BY OthersLeave
<1> QED  BY <1>1 DEF DoneInStep, OkMeansRight, fsmVars, psSyncs

-----------------------------------------------------------------------------
(* The end of the search: DoneInStep is preserved. *)

LEMMA PsEdgeDone ==
    ASSUME TypeOK, ShiftInStep, CompareInStep, DoneInStep,
           NEW answers \in BOOLEAN, PsEdge(answers)
    PROVE  DoneInStep'
<1>1. /\ ps_done' <=> ps_en /\ (ps_done \/ fsm = "end_srch")
      /\ fsm = "end_srch" => (ps_status' <=> ps_en /\ Wrong)
      /\ fsm # "end_srch" => (ps_status' <=> ps_en /\ ps_status)
      /\ ps_en_reg' = ps_en
      /\ find_min' <=> fsm = "idle" \/ (find_min /\ fsm # "min_found")
      /\ find_max' <=> fsm = "idle" \/ (find_max /\ fsm \notin {"max_found", "prep_phase"})
      /\ error_sync'[2] = error_sync[1]
  <2>1. /\ ps_done' <=> ps_en /\ (ps_done \/ fsm = "end_srch")
        /\ ps_status' = (ps_en /\ IF fsm = "end_srch" THEN Wrong ELSE ps_status)
    BY DEF PsEdge, PllPsFsm, StatusRegs
  <2>2. fsm = "end_srch" => (ps_status' <=> ps_en /\ Wrong)
    BY <2>1, Zenon
  <2>3. fsm # "end_srch" => (ps_status' <=> ps_en /\ ps_status)
    BY <2>1, Zenon
  <2>4. /\ ps_en_reg' = ps_en
        /\ find_min' <=> fsm = "idle" \/ (find_min /\ fsm # "min_found")
        /\ find_max' <=> fsm = "idle" \/ (find_max /\ fsm \notin {"max_found", "prep_phase"})
    BY DEF PsEdge, PllPsFsm, InputRegs, SearchRegs
  <2>5. error_sync'[2] = error_sync[1]
    BY DEF PsEdge, Syncs
  <2> QED  BY <2>1, <2>2, <2>3, <2>4, <2>5
<1>2. FsmStep /\ fsm \in FsmStates /\ fsm' \in FsmStates
  BY FsmType DEF PsEdge, PllPsFsm, TypeOK
<1>3. ps_done' => fsm' = "idle" /\ ps_en_reg'
  <2>1. ps_done => fsm = "idle" /\ ps_en_reg
    BY DEF DoneInStep
  <2>2. ps_done => ~Rising
    BY <2>1 DEF Rising
  <2> QED  BY <1>1, <1>2, <2>1, <2>2, NextState
<1>4. fsm' \in {"rst_pll", "wait_pll_lock"} => find_min' /\ find_max'
  <2>1. fsm' \in {"rst_pll", "wait_pll_lock"} => fsm \in {"idle", "rst_pll", "wait_pll_lock"}
    BY <1>2, NextState DEF FsmStates
  <2> QED  BY <1>1, <2>1 DEF DoneInStep
<1>5. fsm' = "min_found" => find_min'
  <2>1. fsm' = "min_found" => fsm = "cmp_smpls" /\ find_min
    BY <1>2 DEF FsmStep, Found, Goes, MinFound, FsmStates
  <2> QED  BY <1>1, <2>1
<1>6. fsm = "cmp_smpls" /\ fsm' # "cmp_smpls" =>
          /\ (error_sync'[1] <=> ~Right') /\ (error_sync'[2] <=> ~Right')
  <2> SUFFICES ASSUME fsm = "cmp_smpls", fsm' # "cmp_smpls"
               PROVE  (error_sync'[1] <=> ~Right') /\ (error_sync'[2] <=> ~Right')
    OBVIOUS
  <2>1. Comparing /\ done_sync[2]
    BY <1>2, ComparesFromTo DEF CompareInStep
  <2>2. (error <=> ~Right) /\ (was[2] <=> ~Right) /\ (error_sync[1] <=> ~Right)
    BY <2>1 DEF Comparing
  <2>3. PICK wrong \in {error, was[2]} : error_sync' = <<wrong, error_sync[1]>>
    BY DEF PsEdge, Syncs
  <2>4. Right' <=> Right
    BY PhaseStill
  <2>5. error_sync'[1] = wrong /\ (wrong <=> ~Right)
    BY <2>2, <2>3
  <2> QED  BY <1>1, <2>2, <2>4, <2>5
<1>7. fsm' = "check_max_steps" /\ find_min' => (error_sync'[1] <=> ~Right')
  <2>1. fsm' = "check_max_steps" => fsm \in {"cmp_smpls", "min_found"}
    BY <1>2, NextState DEF FsmStates
  <2>2. fsm = "min_found" => ~find_min'
    BY <1>1
  <2> QED  BY <1>6, <2>1, <2>2
<1>8. fsm' = "end_srch" => (Wrong' <=> ~Right')
  <2>1. fsm' = "end_srch" => fsm = "cmp_smpls" \/ (fsm = "check_max_steps" /\ find_min)
    BY <1>2, NextState DEF FsmStates
  <2>2. CASE fsm = "check_max_steps" /\ find_min
    <3>1. error_sync[1] <=> ~Right
      BY <2>2 DEF DoneInStep
    <3>2. Right' <=> Right
      BY <2>2, PhaseStill
    <3> QED  BY <1>1, <3>1, <3>2 DEF Wrong
  <2> QED  BY <1>6, <2>1, <2>2 DEF Wrong
<1>9. OkMeansRight'
  <2>1. CASE fsm = "end_srch"
    <3>1. (Wrong <=> ~Right) /\ (Right' <=> Right)
      BY <2>1, PhaseStill DEF DoneInStep
    <3> QED  BY <1>1, <2>1, <3>1 DEF OkMeansRight
  <2>2. CASE fsm # "end_srch"
    <3>1. ps_done' /\ ~ps_status' => ps_done /\ ~ps_status
      BY <1>1, <2>2
    <3>2. ps_done => fsm = "idle"
      BY DEF DoneInStep
    <3>3. fsm = "idle" => (Right' <=> Right)
      BY PhaseStill
    <3>4. ps_done /\ ~ps_status => Right
      BY DEF DoneInStep, OkMeansRight
    <3> QED  BY <3>1, <3>2, <3>3, <3>4 DEF OkMeansRight
  <2> QED  BY <2>1, <2>2
<1> QED  BY <1>3, <1>4, <1>5, <1>7, <1>8, <1>9 DEF DoneInStep

-----------------------------------------------------------------------------
(* The search: SearchInStep is preserved. *)

LEMMA SearchTypes ==
    ASSUME TypeOK
    PROVE  /\ LAST \in Nat /\ STEPS \subseteq 1..LAST /\ phase \in Int
           /\ step_cnt \in 0..LAST /\ step_cnt_min \in 0..LAST /\ step_cnt_max \in 0..LAST
           /\ diff \in 0..LAST /\ middle \in 0..LAST /\ reverse \in 0..LAST
           /\ ctrl_phase \in Int /\ prep_phase_cnt \in Nat
           /\ eye[1] \in Nat /\ eye[2] \in Nat /\ fsm \in FsmStates
BY PhaseSearchAssumption DEF TypeOK, Counters

\* What an edge leaves alone once a search has begun.
LEMMA SearchHolds ==
    ASSUME TypeOK, SearchInStep, NEW answers \in BOOLEAN, PsEdge(answers), fsm # "idle"
    PROVE  /\ UNCHANGED <<ps_updwn_reg, ps_step_size_reg, eye>>
           /\ ps_en' /\ ps_en_reg' /\ ps_step_size_reg \in STEPS
           /\ step_cnt_max_reg' = LAST - ps_step_size_reg
           /\ Swept' = Swept /\ Window' = Window /\ (NoLast' <=> NoLast)
<1>1. ps_en /\ ps_en_reg /\ ps_step_size_reg \in STEPS
  BY DEF SearchInStep
<1>2. ps_step_size_reg' = ps_step_size_reg /\ ps_updwn_reg' = ps_updwn_reg
      /\ ps_en' = ps_en /\ ps_en_reg' = ps_en
  BY <1>1 DEF PsEdge, PllPsFsm, InputRegs, Rising, hostVars
<1>3. step_cnt_max_reg' = LAST - ps_step_size_reg
  <2>1. LAST - ps_step_size_reg \in Counters /\ LAST - ps_step_size_reg \in Int
    BY <1>1, SearchTypes DEF Counters
  <2> QED  BY <2>1, Wrapped DEF PsEdge, PllPsFsm, InputRegs
<1>4. eye' = eye
  BY DEF PsEdge, Pll
<1>5. Swept' = Swept /\ Window' = Window
  BY <1>2, <1>4 DEF Swept, Window
<1>6. NoLast' <=> NoLast
  BY <1>2, <1>5 DEF NoLast, LastIs
<1> QED  BY <1>1, <1>2, <1>3, <1>4, <1>5, <1>6

LEMMA SearchRegisters ==
    ASSUME NEW answers \in BOOLEAN, PsEdge(answers), fsm # "idle"
    PROVE  /\ find_min' <=> find_min /\ fsm # "min_found"
           /\ find_max' <=> find_max /\ fsm \notin {"max_found", "prep_phase"}
           /\ step_cnt_min' = IF fsm = "min_found" THEN step_cnt ELSE step_cnt_min
           /\ step_cnt_max' = IF fsm = "max_found"
                              THEN (step_cnt - ps_step_size_reg) % (LAST + 1)
                              ELSE step_cnt_max
           /\ step_cnt' = IF fsm = "check_max_steps"
                          THEN (step_cnt + ps_step_size_reg) % (LAST + 1) ELSE step_cnt
           /\ ctrl_phase' = IF fsm = "prep_phase" THEN reverse ELSE ctrl_phase
           /\ ctrl_updwn' <=> IF fsm = "prep_phase" THEN ~ps_updwn_reg ELSE ctrl_updwn
           /\ prep_phase_cnt' = IF fsm = "prep_phase" THEN prep_phase_cnt + 1 ELSE 0
<1>1. SearchRegs /\ ControlRegs
  BY DEF PsEdge, PllPsFsm
<1>2. ctrl_updwn' <=> IF fsm = "prep_phase" THEN ~ps_updwn_reg ELSE ctrl_updwn
  <2>1. ctrl_updwn' = CASE fsm = "idle" -> ps_updwn
                        [] fsm = "prep_phase" -> ~ps_updwn_reg
                        [] OTHER -> ctrl_updwn
    BY <1>1 DEF ControlRegs
  <2>2. CASE fsm = "prep_phase"
    BY <2>1, <2>2
  <2>3. CASE fsm # "prep_phase"
    BY <2>1, <2>3
  <2> QED  BY <2>2, <2>3
<1> QED  BY <1>1, <1>2 DEF SearchRegs, ControlRegs, MaxReg

\* In ph_shift the PLL is written to once, with what the search asks for.
LEMMA ShiftMade ==
    ASSUME TypeOK, ShiftInStep, NEW answers \in BOOLEAN, PsEdge(answers), fsm = "ph_shift"
    PROVE  \/ ToShift /\ ToShift' /\ fsm' = "ph_shift" /\ phase' = phase
           \/ /\ ToShift /\ ~ToShift' /\ fsm' = "ph_shift"
              /\ phase' = IF ctrl_updwn THEN phase + ctrl_phase ELSE phase - ctrl_phase
           \/ /\ ~ToShift /\ phase' = phase
              /\ \/ fsm' = "ph_shift" /\ ~ToShift'
                 \/ fsm' = "wait_after_ph_shift"
<1>1. /\ busy_reg' = busy /\ en_reg' = ctrl_en /\ ctrl_en'
      /\ busy' <=> av # "idle"
  BY DEF PsEdge, PllPsFsm, InputRegs, ControlRegs, PllPsAv
<1>2. /\ av = "idle" => av' = IF ctrl_en /\ ~en_reg THEN "write" ELSE "idle"
      /\ av = "write" => av' = IF answers THEN "poll" ELSE "write"
      /\ av = "poll" => av' \in {"poll", "end"}
      /\ av = "end" => av' = "idle"
  BY DEF PsEdge, PllPsAv, AvGoes, Starts
<1>3. fsm' = IF busy_reg /\ ~busy THEN "wait_after_ph_shift" ELSE "ph_shift"
  BY NextState DEF Shifted, PsEdge, PllPsFsm
<1>4. phase' = IF av = "write" /\ answers
               THEN IF ctrl_updwn THEN phase + ctrl_phase ELSE phase - ctrl_phase
               ELSE phase
  BY DEF PsEdge, PllPsFsm, StatusRegs, Pll
<1>5. CASE ToShift
  <2>1. CASE av = "write" /\ answers
    BY <1>1, <1>2, <1>3, <1>4, <1>5, <2>1 DEF ToShift
  <2>2. CASE ~(av = "write" /\ answers)
    BY <1>1, <1>2, <1>3, <1>4, <1>5, <2>2 DEF ToShift
  <2> QED  BY <2>1, <2>2
<1>6. CASE ~ToShift
  <2>1. HasShifted
    BY <1>6 DEF ShiftInStep
  <2>2. phase' = phase
    BY <1>4, <2>1 DEF HasShifted
  <2>3. fsm' = "ph_shift" => ~ToShift'
    BY <1>1, <1>2, <1>3, <2>1 DEF HasShifted, ToShift
  <2> QED  BY <1>3, <1>6, <2>2, <2>3
<1> QED  BY <1>5, <1>6

LEMMA SearchPauses ==
    ASSUME TypeOK, ShiftInStep, SearchInStep, NEW answers \in BOOLEAN, PsEdge(answers),
           fsm \in {"check_cmp_status", "cmp_smpls", "wait_after_ph_shift"},
           fsm' \in {"check_cmp_status", "cmp_smpls", "wait_after_ph_shift"}
    PROVE  SearchInStep'
<1>1. /\ UNCHANGED <<ps_updwn_reg, ps_step_size_reg, eye>>
      /\ ps_en' /\ ps_en_reg' /\ ps_step_size_reg \in STEPS
      /\ step_cnt_max_reg' = LAST - ps_step_size_reg
      /\ Swept' = Swept /\ Window' = Window /\ (NoLast' <=> NoLast)
  BY SearchHolds
<1>2. /\ find_min' <=> find_min
      /\ find_max' <=> find_max
      /\ UNCHANGED <<step_cnt, step_cnt_min, step_cnt_max, ctrl_phase>>
      /\ ctrl_updwn' <=> ctrl_updwn
  BY SearchRegisters
<1>3. phase' = phase /\ Travelled' = Travelled /\ Middle' = Middle
  BY <1>1, <1>2, PhaseStill DEF Travelled, Middle
<1>4. Onwards => Onwards'
  <2>1. FoundBelow(step_cnt) => FoundBelow(step_cnt)'
    BY <1>1, <1>2 DEF FoundBelow, FirstIs
  <2> QED  BY <1>1, <1>2, <1>3, <2>1 DEF Onwards, FoundBelow
<1>5. LastFound /\ Backwards => LastFound' /\ Backwards'
  BY <1>1, <1>2, <1>3 DEF LastFound, FirstIs, LastIs, Backwards
<1> QED  BY <1>1, <1>2, <1>4, <1>5 DEF SearchInStep

LEMMA SearchBegins ==
    ASSUME TypeOK, ShiftInStep, DoneInStep, SearchInStep,
           NEW answers \in BOOLEAN, PsEdge(answers),
           fsm \in {"idle", "rst_pll", "wait_pll_lock"}
    PROVE  SearchInStep'
<1>1. FsmStep
  BY DEF PsEdge, PllPsFsm
<1>2. CASE fsm = "idle" /\ Rising
  <2>1. fsm' = "rst_pll"
    BY <1>1, <1>2, NextState
  <2>2. /\ ps_step_size_reg' = ps_step_size /\ ps_updwn_reg' = ps_updwn
        /\ ps_en' /\ ps_en_reg'
    BY <1>2 DEF PsEdge, PllPsFsm, InputRegs, hostVars, Rising
  <2>3. step_cnt' = 0 /\ ctrl_phase' = ps_step_size /\ ctrl_updwn' = ps_updwn
    BY <1>2 DEF PsEdge, PllPsFsm, SearchRegs, ControlRegs
  <2>4. ps_step_size \in STEPS
    BY DEF TypeOK
  <2> QED  BY <2>1, <2>2, <2>3, <2>4 DEF SearchInStep, Beginning
<1>3. CASE fsm = "idle" /\ ~Rising
  <2>1. fsm' = "idle"
    BY <1>1, <1>3, NextState
  <2>2. ps_step_size_reg' = ps_step_size_reg /\ ps_updwn_reg' = ps_updwn_reg
    BY <1>3 DEF PsEdge, PllPsFsm, InputRegs
  <2>3. phase' = phase /\ eye' = eye
    BY <1>3, PhaseStill
  <2>4. (ps_done' => ps_done) /\ (ps_done' /\ ps_status' => ps_status)
    <3>1. (ps_done' <=> ps_en /\ ps_done) /\ (ps_status' <=> ps_en /\ ps_status)
      BY <1>3 DEF PsEdge, PllPsFsm, StatusRegs
    <3> QED  BY <3>1
  <2>5. Swept' = Swept /\ Window' = Window /\ Travelled' = Travelled
    BY <2>2, <2>3 DEF Swept, Window, Travelled
  <2>6. EndsInTheMiddle
    BY <1>3 DEF SearchInStep
  <2>7. EndsInTheMiddle'
    BY <2>2, <2>4, <2>5, <2>6 DEF EndsInTheMiddle
  <2> QED  BY <2>1, <2>7 DEF SearchInStep
<1>4. CASE fsm # "idle"
  <2>1. /\ UNCHANGED <<ps_updwn_reg, ps_step_size_reg, eye>>
        /\ ps_en' /\ ps_en_reg' /\ ps_step_size_reg \in STEPS
        /\ step_cnt_max_reg' = LAST - ps_step_size_reg
        /\ Swept' = Swept /\ Window' = Window
    BY <1>4, SearchHolds
  <2>2. Beginning /\ find_min /\ find_max
    BY <1>4 DEF SearchInStep, DoneInStep
  <2>3. /\ step_cnt' = 0 /\ ctrl_phase' = ps_step_size_reg /\ find_min' /\ find_max'
        /\ ctrl_updwn' <=> ps_updwn_reg
    BY <1>4, <2>2, SearchRegisters DEF Beginning
  <2>4. fsm = "rst_pll" => phase' = 0
    BY DEF PsEdge, PllPsFsm, StatusRegs, Pll
  <2>5. fsm = "wait_pll_lock" => phase' = 0
    BY <2>2, PhaseStill DEF Beginning
  <2>6. phase' = 0
    BY <1>4, <2>4, <2>5
  <2>7. CASE fsm' \in {"rst_pll", "wait_pll_lock"}
    BY <2>1, <2>3, <2>6, <2>7 DEF SearchInStep, Beginning
  <2>8. CASE fsm' = "check_cmp_status"
    <3>1. 0 \in Swept
      BY <2>1, SearchTypes DEF Swept
    <3>2. Travelled' = 0
      <4>1. \A n, m \in Int : n + m = 0 => -n = m
        OBVIOUS
      <4>2. phase' \in Int /\ 0 \in Int /\ phase' + 0 = 0
        BY <2>6
      <4>3. -(phase') = 0
        BY <4>1, <4>2
      <4> QED  BY <2>6, <4>3 DEF Travelled
    <3>3. \A p \in Window : p >= 0
      BY SearchTypes DEF Window, Swept
    <3>4. Onwards'
      BY <2>1, <2>3, <2>8, <3>1, <3>2, <3>3 DEF Onwards, FoundBelow
    <3> QED  BY <2>1, <2>8, <3>4 DEF SearchInStep
  <2>9. fsm' \in {"rst_pll", "wait_pll_lock", "check_cmp_status"}
    BY <1>1, <1>4, <2>2, NextState
  <2> QED  BY <2>7, <2>8, <2>9
<1> QED  BY <1>2, <1>3, <1>4

\* Where the counter is the way travelled, it says whether the phase is right.
LEMMA RightThere ==
    ASSUME TypeOK, Travelled \in Nat
    PROVE  Right <=> Travelled \in eye[1]..eye[2]
<1>1. phase \in Int
  BY DEF TypeOK
<1>2. Abs(phase) = Travelled
  BY <1>1 DEF Abs, Travelled
<1> QED  BY <1>2 DEF Right

LEMMA SearchCompares ==
    ASSUME TypeOK, ShiftInStep, CompareInStep, SearchInStep,
           NEW answers \in BOOLEAN, PsEdge(answers),
           fsm = "cmp_smpls", fsm' # "cmp_smpls"
    PROVE  SearchInStep'
<1>1. /\ UNCHANGED <<ps_updwn_reg, ps_step_size_reg, eye>>
      /\ ps_en' /\ ps_en_reg' /\ ps_step_size_reg \in STEPS
      /\ step_cnt_max_reg' = LAST - ps_step_size_reg
      /\ Swept' = Swept /\ Window' = Window /\ (NoLast' <=> NoLast)
  BY SearchHolds
<1>2. /\ find_min' <=> find_min
      /\ find_max' <=> find_max
      /\ UNCHANGED <<step_cnt, step_cnt_min, step_cnt_max, ctrl_phase>>
      /\ ctrl_updwn' <=> ctrl_updwn
  BY SearchRegisters
<1>3. phase' = phase /\ Travelled' = Travelled /\ Middle' = Middle
  BY <1>1, <1>2, PhaseStill DEF Travelled, Middle
<1>4. Wrong <=> ~Right
  <2>1. Comparing /\ done_sync[2]
    BY ComparesFromTo DEF CompareInStep, PsEdge, PllPsFsm
  <2> QED  BY <2>1 DEF Comparing, Wrong
<1>5. \/ fsm' = "min_found" /\ MinFound
      \/ fsm' = "max_found" /\ MaxFound
      \/ fsm' = "check_max_steps" /\ ~MinFound /\ ~MaxFound /\ (find_min \/ find_max)
      \/ fsm' = "end_srch" /\ ~find_min /\ ~find_max
  BY DEF PsEdge, PllPsFsm, FsmStep, Found, Goes
<1>6. CASE Onwards
  <2>1. /\ find_max /\ step_cnt \in Swept /\ Travelled = step_cnt /\ FoundBelow(step_cnt)
        /\ ctrl_phase = ps_step_size_reg /\ (ctrl_updwn <=> ps_updwn_reg)
    BY <1>6 DEF Onwards
  <2>2. step_cnt \in Nat /\ step_cnt < LAST /\ step_cnt % ps_step_size_reg = 0
    BY <2>1, SearchTypes DEF Swept
  <2>3. Right <=> step_cnt \in eye[1]..eye[2]
    BY <2>1, <2>2, RightThere
  <2>4. step_cnt \in Window <=> step_cnt > 2 /\ Right
    BY <2>1, <2>3 DEF Window
  <2>5. FoundBelow(step_cnt)'
    BY <1>1, <1>2, <2>1 DEF FoundBelow, FirstIs
  <2>6. CASE fsm' = "min_found" /\ MinFound
    <3>1. step_cnt \in Window
      BY <1>4, <2>4, <2>6 DEF MinFound
    <3> QED
      BY <1>1, <1>2, <1>3, <2>1, <2>5, <2>6, <3>1 DEF SearchInStep, Onwards, FoundBelow
  <2>7. CASE fsm' = "max_found" /\ MaxFound
    <3>1. step_cnt \notin Window /\ ~find_min
      BY <1>4, <2>4, <2>7 DEF MaxFound
    <3> QED
      BY <1>1, <1>2, <1>3, <2>1, <2>5, <2>7, <3>1 DEF SearchInStep, Onwards, FoundBelow
  <2>8. CASE fsm' = "check_max_steps" /\ ~MinFound /\ ~MaxFound
    <3>1. ps_step_size_reg \in Nat \ {0}
      BY <1>1, SearchTypes
    <3>2. ASSUME find_min
          PROVE  \A p \in Window : p >= step_cnt + ps_step_size_reg
      <4>1. step_cnt \notin Window
        BY <1>4, <2>4, <2>8, <3>2 DEF MinFound
      <4>2. \A p \in Window : p >= step_cnt
        BY <2>1, <3>2 DEF FoundBelow
      <4>3. ASSUME NEW p \in Window PROVE p >= step_cnt + ps_step_size_reg
        <5>1. p \in Nat /\ p % ps_step_size_reg = 0
          BY SearchTypes DEF Window, Swept
        <5>2. step_cnt < p
          BY <2>2, <4>1, <4>2, <5>1
        <5>3. step_cnt + ps_step_size_reg <= p
          BY <2>2, <3>1, <5>1, <5>2, Multiples
        <5> QED  BY <2>2, <3>1, <5>1, <5>3
      <4> QED  BY <4>3
    <3>3. ASSUME ~find_min
          PROVE  /\ FirstIs(step_cnt_min) /\ step_cnt_min < step_cnt + ps_step_size_reg
                 /\ (step_cnt + ps_step_size_reg) - ps_step_size_reg \in Window
      <4>1. FirstIs(step_cnt_min) /\ step_cnt_min < step_cnt
        BY <2>1, <3>3 DEF FoundBelow
      <4>2. Right
        BY <1>4, <2>1, <2>8, <3>3 DEF MaxFound
      <4>3. step_cnt_min \in Nat /\ step_cnt_min > 2
        BY <4>1, SearchTypes DEF FirstIs, Window
      <4>4. step_cnt \in Window
        BY <2>2, <2>4, <4>1, <4>2, <4>3
      <4>5. (step_cnt + ps_step_size_reg) - ps_step_size_reg = step_cnt
            /\ step_cnt_min < step_cnt + ps_step_size_reg
        BY <2>2, <3>1, <4>1, <4>3
      <4> QED  BY <4>1, <4>4, <4>5
    <3>4. FoundBelow(step_cnt + ps_step_size_reg)'
      BY <1>1, <1>2, <3>2, <3>3 DEF FoundBelow, FirstIs
    <3> QED
      BY <1>1, <1>2, <1>3, <2>1, <2>8, <3>4 DEF SearchInStep, Onwards, FoundBelow
  <2> QED  BY <1>5, <2>1, <2>6, <2>7, <2>8
<1>7. CASE ~Onwards
  <2>1. ~find_min /\ ~find_max /\ (NoLast \/ (LastFound /\ Backwards))
    BY <1>7 DEF SearchInStep
  <2>2. fsm' = "end_srch"
    BY <1>5, <2>1 DEF MinFound, MaxFound
  <2>3. LastFound /\ Backwards => LastFound' /\ Backwards'
    BY <1>1, <1>2, <1>3, <2>2 DEF LastFound, FirstIs, LastIs, Backwards
  <2> QED  BY <1>1, <2>1, <2>2, <2>3 DEF SearchInStep
<1> QED  BY <1>6, <1>7

\* A shift begins with the controller at rest.
LEMMA ShiftBegins ==
    ASSUME TypeOK, ShiftInStep, DoneInStep, NEW answers \in BOOLEAN, PsEdge(answers),
           fsm # "ph_shift", fsm' = "ph_shift"
    PROVE  ToShift'
<1>1. ToShift' \/ HasShifted'
  BY PsEdgeShifts DEF ShiftInStep
<1>2. ~ctrl_en'
  BY DEF PsEdge, PllPsFsm, ControlRegs
<1> QED  BY <1>1, <1>2 DEF HasShifted

LEMMA SearchFindsFirst ==
    ASSUME TypeOK, ShiftInStep, DoneInStep, SearchInStep,
           NEW answers \in BOOLEAN, PsEdge(answers), fsm = "min_found"
    PROVE  SearchInStep'
<1>1. /\ UNCHANGED <<ps_updwn_reg, ps_step_size_reg, eye>>
      /\ ps_en' /\ ps_en_reg' /\ ps_step_size_reg \in STEPS
      /\ step_cnt_max_reg' = LAST - ps_step_size_reg
      /\ Swept' = Swept /\ Window' = Window
  BY SearchHolds
<1>2. /\ ~find_min' /\ (find_max' <=> find_max)
      /\ step_cnt_min' = step_cnt
      /\ UNCHANGED <<step_cnt, ctrl_phase>>
      /\ ctrl_updwn' <=> ctrl_updwn
  BY SearchRegisters
<1>3. fsm' = "check_max_steps"
  BY NextState DEF PsEdge, PllPsFsm
<1>4. phase' = phase /\ Travelled' = Travelled
  BY <1>1, PhaseStill DEF Travelled
<1>5. /\ find_max /\ step_cnt \in Swept /\ Travelled = step_cnt
      /\ ctrl_phase = ps_step_size_reg /\ (ctrl_updwn <=> ps_updwn_reg)
      /\ step_cnt \in Window /\ find_min /\ FoundBelow(step_cnt)
  BY DEF SearchInStep, DoneInStep, Onwards
<1>6. FirstIs(step_cnt)
  BY <1>5, SearchTypes DEF FirstIs, FoundBelow, Window, Swept
<1>7. /\ step_cnt < step_cnt + ps_step_size_reg
      /\ (step_cnt + ps_step_size_reg) - ps_step_size_reg = step_cnt
  BY <1>1, SearchTypes
<1>8. FoundBelow(step_cnt + ps_step_size_reg)'
  BY <1>1, <1>2, <1>5, <1>6, <1>7 DEF FoundBelow, FirstIs
<1> QED  BY <1>1, <1>2, <1>3, <1>4, <1>5, <1>8 DEF SearchInStep, Onwards

LEMMA SearchFindsLast ==
    ASSUME TypeOK, ShiftInStep, SearchInStep,
           NEW answers \in BOOLEAN, PsEdge(answers), fsm = "max_found"
    PROVE  SearchInStep'
<1>1. /\ UNCHANGED <<ps_updwn_reg, ps_step_size_reg, eye>>
      /\ ps_en' /\ ps_en_reg' /\ ps_step_size_reg \in STEPS
      /\ Swept' = Swept /\ Window' = Window
  BY SearchHolds
<1>2. /\ find_min' <=> find_min
      /\ ~find_max'
      /\ step_cnt_max' = (step_cnt - ps_step_size_reg) % (LAST + 1)
      /\ UNCHANGED <<step_cnt, step_cnt_min>> /\ prep_phase_cnt' = 0
  BY SearchRegisters
<1>3. fsm' = "prep_phase"
  BY NextState DEF PsEdge, PllPsFsm
<1>4. phase' = phase /\ Travelled' = Travelled
  BY <1>1, PhaseStill DEF Travelled
<1>5. /\ step_cnt \in Swept /\ Travelled = step_cnt /\ ~find_min /\ step_cnt \notin Window
      /\ FirstIs(step_cnt_min) /\ step_cnt_min < step_cnt
      /\ step_cnt - ps_step_size_reg \in Window
  BY DEF SearchInStep, Onwards, FoundBelow
<1> PICK s \in Nat \ {0} : s = ps_step_size_reg
  BY <1>1, SearchTypes
<1> PICK l \in Int : l = step_cnt - ps_step_size_reg
  BY SearchTypes
<1>6. /\ l \in Window /\ l \in 0..LAST /\ l \in Nat /\ l + s = step_cnt /\ l % s = 0
      /\ eye[1] <= l /\ eye[1] \in Nat /\ eye[2] \in Nat
      /\ step_cnt \in Nat /\ step_cnt_min \in Nat /\ step_cnt_min > 2
  BY <1>5, SearchTypes DEF FirstIs, Window, Swept
<1>7. step_cnt_max' = l
  BY <1>2, <1>6, Wrapped DEF Counters
<1>8. step_cnt > eye[2]
  <2>1. step_cnt \notin eye[1]..eye[2]
    BY <1>5, <1>6 DEF Window
  <2> QED  BY <1>6, <2>1
<1>9. LastIs(l)
  <2>1. ASSUME NEW p \in Window PROVE p <= l
    <3>1. p \in Nat /\ p % s = 0 /\ p <= eye[2]
      BY <1>6, SearchTypes DEF Window, Swept
    <3>2. l < p => l + s <= p
      BY <1>6, <3>1, Multiples
    <3> QED  BY <1>6, <1>8, <3>1, <3>2
  <2> QED  BY <1>6, <2>1 DEF LastIs
<1>10. LastFound'
  BY <1>1, <1>2, <1>5, <1>6, <1>7, <1>9 DEF LastFound, FirstIs, LastIs
<1>11. Preparing'
  BY <1>2, <1>4, <1>5 DEF Preparing
<1> QED  BY <1>1, <1>2, <1>3, <1>5, <1>10, <1>11 DEF SearchInStep

LEMMA SearchGoesOn ==
    ASSUME TypeOK, ShiftInStep, DoneInStep, SearchInStep,
           NEW answers \in BOOLEAN, PsEdge(answers), fsm = "check_max_steps"
    PROVE  SearchInStep'
<1>1. /\ UNCHANGED <<ps_updwn_reg, ps_step_size_reg, eye>>
      /\ ps_en' /\ ps_en_reg' /\ ps_step_size_reg \in STEPS
      /\ step_cnt_max_reg' = LAST - ps_step_size_reg
      /\ Swept' = Swept /\ Window' = Window /\ (NoLast' <=> NoLast)
  BY SearchHolds
<1>2. /\ find_min' <=> find_min
      /\ find_max' <=> find_max
      /\ step_cnt' = (step_cnt + ps_step_size_reg) % (LAST + 1)
      /\ UNCHANGED <<step_cnt_min, ctrl_phase>> /\ prep_phase_cnt' = 0
      /\ ctrl_updwn' <=> ctrl_updwn
  BY SearchRegisters
<1>3. phase' = phase /\ Travelled' = Travelled
  BY <1>1, PhaseStill DEF Travelled
<1>4. /\ find_max /\ step_cnt \in Swept /\ Travelled = step_cnt
      /\ ctrl_phase = ps_step_size_reg /\ (ctrl_updwn <=> ps_updwn_reg)
      /\ step_cnt_max_reg = LAST - ps_step_size_reg
      /\ FoundBelow(step_cnt + ps_step_size_reg)
  BY DEF SearchInStep, Onwards
<1>5. /\ step_cnt \in Nat /\ step_cnt < LAST /\ LAST \in Nat
      /\ ps_step_size_reg \in Nat \ {0} /\ step_cnt % ps_step_size_reg = 0
  BY <1>1, <1>4, SearchTypes DEF Swept
<1> PICK next \in Nat : next = step_cnt + ps_step_size_reg
  BY <1>5
<1>6. next % ps_step_size_reg = 0 /\ next - ps_step_size_reg = step_cnt
  <2>1. (step_cnt + ps_step_size_reg) % ps_step_size_reg = 0
    BY <1>5, NextMultiple
  <2>2. (step_cnt + ps_step_size_reg) - ps_step_size_reg = step_cnt
    BY <1>5
  <2> QED  BY <2>1, <2>2
<1>7. \A p \in Window : p \in Nat /\ p < LAST
  BY <1>5 DEF Window, Swept
<1>8. CASE fsm' = "ph_shift" /\ step_cnt < step_cnt_max_reg
  <2>1. next < LAST
    BY <1>4, <1>5, <1>8
  <2>2. step_cnt' = next
    BY <1>2, <1>5, <2>1, Wrapped DEF Counters
  <2>3. next \in Swept
    BY <1>5, <1>6, <2>1 DEF Swept
  <2>4. FoundBelow(step_cnt)'
    BY <1>1, <1>2, <1>4, <2>2 DEF FoundBelow, FirstIs
  <2>5. ToShift'
    BY <1>8, ShiftBegins
  <2>6. Onwards'
    BY <1>1, <1>2, <1>3, <1>4, <1>6, <1>8, <2>2, <2>3, <2>4, <2>5 DEF Onwards
  <2> QED  BY <1>1, <1>8, <2>6 DEF SearchInStep
<1>9. CASE fsm' = "prep_phase" /\ step_cnt >= step_cnt_max_reg /\ ~find_min
  <2>1. next >= LAST
    BY <1>4, <1>5, <1>9
  <2>2. step_cnt \in Window
    BY <1>4, <1>6, <1>9 DEF FoundBelow
  <2>3. ASSUME NEW p \in Window PROVE p <= step_cnt
    <3>1. p \in Nat /\ p % ps_step_size_reg = 0 /\ p < LAST
      BY <1>7 DEF Window, Swept
    <3>2. step_cnt < p => step_cnt + ps_step_size_reg <= p
      BY <1>5, <3>1, Multiples
    <3> QED  BY <1>5, <2>1, <3>1, <3>2
  <2>4. next \notin Swept
    BY <1>5, <2>1 DEF Swept
  <2>5. NoLast
    BY <2>2, <2>3, <2>4 DEF NoLast, LastIs
  <2> QED  BY <1>1, <1>2, <1>9, <2>5 DEF SearchInStep
<1>10. CASE fsm' = "end_srch" /\ step_cnt >= step_cnt_max_reg /\ find_min
  <2>1. next >= LAST
    BY <1>4, <1>5, <1>10
  <2>2. \A p \in Window : p >= next
    BY <1>4, <1>10 DEF FoundBelow
  <2>3. Window = {}
    BY <1>5, <1>7, <2>1, <2>2
  <2> QED  BY <1>1, <1>10, <2>3 DEF SearchInStep
<1> QED  BY <1>8, <1>9, <1>10, NextState DEF PsEdge, PllPsFsm

\* The middle lies in the window.
LEMMA MiddleThere ==
    ASSUME TypeOK, LastFound, ps_step_size_reg \in STEPS
    PROVE  /\ Middle \in Nat /\ step_cnt_min <= Middle /\ Middle <= step_cnt_max
           /\ step_cnt_max < step_cnt
           /\ Middle \in eye[1]..eye[2]
<1>1. /\ step_cnt_min \in Window /\ step_cnt_max \in Window /\ step_cnt_min <= step_cnt_max
      /\ step_cnt = step_cnt_max + ps_step_size_reg
  BY DEF LastFound, FirstIs, LastIs
<1>2. /\ step_cnt_min \in Nat /\ step_cnt_max \in Nat
      /\ eye[1] \in Nat /\ eye[2] \in Nat /\ eye[1] <= step_cnt_min /\ step_cnt_max <= eye[2]
      /\ ps_step_size_reg \in Nat /\ ps_step_size_reg > 0
  BY <1>1, SearchTypes DEF Window, Swept
<1> PICK n \in Nat : n = step_cnt_max - step_cnt_min
  BY <1>1, <1>2
<1>3. n \div 2 \in Nat /\ n \div 2 <= n
  BY Half
<1> PICK h \in Nat : h = n \div 2
  BY <1>3
<1>4. Middle = step_cnt_min + h
  BY DEF Middle
<1> QED  BY <1>1, <1>2, <1>3, <1>4

LEMMA SearchTurns ==
    ASSUME TypeOK, ShiftInStep, DoneInStep, SearchInStep,
           NEW answers \in BOOLEAN, PsEdge(answers), fsm = "prep_phase"
    PROVE  SearchInStep'
<1>1. /\ UNCHANGED <<ps_updwn_reg, ps_step_size_reg, eye>>
      /\ ps_en' /\ ps_en_reg' /\ ps_step_size_reg \in STEPS
      /\ Swept' = Swept /\ Window' = Window /\ (NoLast' <=> NoLast)
  BY SearchHolds
<1>2. /\ find_min' <=> find_min
      /\ ~find_max'
      /\ UNCHANGED <<step_cnt, step_cnt_min, step_cnt_max>>
      /\ ctrl_phase' = reverse
      /\ ctrl_updwn' <=> ~ps_updwn_reg
      /\ prep_phase_cnt' = prep_phase_cnt + 1
  BY SearchRegisters
<1>3. phase' = phase /\ Travelled' = Travelled /\ Middle' = Middle
  BY <1>1, <1>2, PhaseStill DEF Travelled, Middle
<1>4. ~find_min /\ (NoLast \/ (LastFound /\ Preparing))
  BY DEF SearchInStep
<1>5. fsm' = IF prep_phase_cnt > 2 THEN "ph_shift" ELSE "prep_phase"
  BY NextState DEF PhaseReady, PsEdge, PllPsFsm
<1>6. ASSUME LastFound, Preparing
      PROVE  LastFound' /\ Preparing' /\ (prep_phase_cnt > 2 => ctrl_phase' = step_cnt - Middle)
  <2>1. LastFound'
    BY <1>1, <1>2, <1>6 DEF LastFound, FirstIs, LastIs
  <2>2. /\ step_cnt_min <= step_cnt_max /\ Middle \in Nat
        /\ Middle <= step_cnt_max /\ step_cnt_max < step_cnt
        /\ step_cnt \in 0..LAST /\ step_cnt_min \in 0..LAST /\ step_cnt_max \in 0..LAST
        /\ LAST \in Nat /\ prep_phase_cnt \in Nat
    BY <1>1, <1>6, MiddleThere, SearchTypes DEF LastFound, FirstIs, LastIs
  <2>3. diff' = step_cnt_max - step_cnt_min
    <3>1. step_cnt_max - step_cnt_min \in Counters /\ step_cnt_max - step_cnt_min \in Int
      BY <2>2 DEF Counters
    <3> QED  BY <3>1, Wrapped DEF PsEdge, PllPsFsm, MiddleRegs
  <2>4. prep_phase_cnt >= 1 => middle' = Middle
    <3>1. prep_phase_cnt >= 1 => diff \div 2 + step_cnt_min = Middle
      <4>1. \A n \in Int : n + step_cnt_min = step_cnt_min + n
        BY <2>2
      <4>2. (step_cnt_max - step_cnt_min) \div 2 \in Int
        BY <2>2
      <4> QED  BY <1>6, <4>1, <4>2 DEF Preparing, Middle
    <3>2. Middle \in Counters /\ Middle \in Int
      BY <2>2 DEF Counters
    <3> QED  BY <3>1, <3>2, Wrapped DEF PsEdge, PllPsFsm, MiddleRegs
  <2>5. prep_phase_cnt >= 2 => reverse' = step_cnt - Middle
    <3>1. prep_phase_cnt >= 2 => step_cnt - middle = step_cnt - Middle
      BY <1>6 DEF Preparing
    <3>2. step_cnt - Middle \in Counters /\ step_cnt - Middle \in Int
      BY <2>2 DEF Counters
    <3> QED  BY <3>1, <3>2, Wrapped DEF PsEdge, PllPsFsm, MiddleRegs
  <2>6. Travelled = step_cnt /\ (prep_phase_cnt >= 3 => reverse = step_cnt - Middle)
    BY <1>6 DEF Preparing
  <2>7. Preparing'
    BY <1>2, <1>3, <2>2, <2>3, <2>4, <2>5, <2>6 DEF Preparing
  <2> QED  BY <1>2, <2>1, <2>2, <2>6, <2>7
<1>7. CASE fsm' = "prep_phase"
  BY <1>1, <1>2, <1>4, <1>6, <1>7 DEF SearchInStep
<1>8. CASE fsm' = "ph_shift" /\ prep_phase_cnt > 2
  <2>1. ToShift'
    BY <1>8, ShiftBegins
  <2>2. LastFound /\ Preparing => LastFound' /\ Backwards'
    BY <1>1, <1>2, <1>3, <1>6, <1>8, <2>1 DEF Backwards, Preparing
  <2> QED  BY <1>1, <1>2, <1>4, <1>8, <2>2 DEF SearchInStep
<1> QED  BY <1>5, <1>7, <1>8

LEMMA SearchShifts ==
    ASSUME TypeOK, ShiftInStep, SearchInStep,
           NEW answers \in BOOLEAN, PsEdge(answers), fsm = "ph_shift"
    PROVE  SearchInStep'
<1>1. /\ UNCHANGED <<ps_updwn_reg, ps_step_size_reg, eye>>
      /\ ps_en' /\ ps_en_reg' /\ ps_step_size_reg \in STEPS
      /\ step_cnt_max_reg' = LAST - ps_step_size_reg
      /\ Swept' = Swept /\ Window' = Window /\ (NoLast' <=> NoLast)
  BY SearchHolds
<1>2. /\ find_min' <=> find_min
      /\ find_max' <=> find_max
      /\ UNCHANGED <<step_cnt, step_cnt_min, step_cnt_max, ctrl_phase>>
      /\ ctrl_updwn' <=> ctrl_updwn
  BY SearchRegisters
<1>3. Middle' = Middle
  BY <1>2 DEF Middle
<1>4. /\ phase \in Int /\ ctrl_phase \in Int /\ step_cnt \in Int
      /\ ps_step_size_reg \in Int /\ ps_updwn_reg \in BOOLEAN /\ ctrl_updwn \in BOOLEAN
  BY <1>1, SearchTypes DEF TypeOK
<1>5. \/ /\ ToShift /\ ToShift' /\ fsm' = "ph_shift" /\ Travelled' = Travelled
      \/ /\ ToShift /\ ~ToShift' /\ fsm' = "ph_shift"
         /\ Travelled' = IF ctrl_updwn <=> ps_updwn_reg THEN Travelled + ctrl_phase
                         ELSE Travelled - ctrl_phase
      \/ /\ ~ToShift /\ Travelled' = Travelled
         /\ \/ fsm' = "ph_shift" /\ ~ToShift'
            \/ fsm' = "wait_after_ph_shift"
  <2>1. phase' = phase => Travelled' = Travelled
    BY <1>1 DEF Travelled
  <2>2. ASSUME phase' = IF ctrl_updwn THEN phase + ctrl_phase ELSE phase - ctrl_phase
        PROVE  Travelled' = IF ctrl_updwn <=> ps_updwn_reg THEN Travelled + ctrl_phase
                            ELSE Travelled - ctrl_phase
    <3>1. \A p, c \in Int : -(p + c) = (-p) - c /\ -(p - c) = (-p) + c
      OBVIOUS
    <3> QED  BY <1>1, <1>4, <2>2, <3>1 DEF Travelled
  <2>3. CASE ToShift /\ ToShift' /\ fsm' = "ph_shift" /\ phase' = phase
    BY <2>1, <2>3
  <2>4. CASE /\ ToShift /\ ~ToShift' /\ fsm' = "ph_shift"
             /\ phase' = IF ctrl_updwn THEN phase + ctrl_phase ELSE phase - ctrl_phase
    BY <2>2, <2>4
  <2>5. CASE /\ ~ToShift /\ phase' = phase
             /\ \/ fsm' = "ph_shift" /\ ~ToShift'
                \/ fsm' = "wait_after_ph_shift"
    BY <2>1, <2>5
  <2> QED  BY <2>3, <2>4, <2>5, ShiftMade
<1>6. CASE Onwards
  <2>1. /\ find_max /\ step_cnt \in Swept /\ FoundBelow(step_cnt)
        /\ ctrl_phase = ps_step_size_reg /\ (ctrl_updwn <=> ps_updwn_reg)
        /\ Travelled = IF ToShift THEN step_cnt - ps_step_size_reg ELSE step_cnt
    BY <1>6 DEF Onwards
  <2>2. FoundBelow(step_cnt)'
    BY <1>1, <1>2, <2>1 DEF FoundBelow, FirstIs
  <2>3. (step_cnt - ps_step_size_reg) + ps_step_size_reg = step_cnt
    BY <1>4
  <2>4. Travelled' = IF fsm' = "ph_shift" /\ ToShift' THEN step_cnt - ps_step_size_reg
                     ELSE step_cnt
    BY <1>5, <2>1, <2>3
  <2>5. fsm' \in {"ph_shift", "wait_after_ph_shift"}
    BY <1>5
  <2>6. Onwards'
    BY <1>1, <1>2, <2>1, <2>2, <2>4, <2>5 DEF Onwards
  <2> QED  BY <1>1, <2>5, <2>6 DEF SearchInStep
<1>7. CASE ~Onwards
  <2>1. ~find_min /\ ~find_max /\ (NoLast \/ (LastFound /\ Backwards))
    BY <1>7 DEF SearchInStep
  <2>2. ASSUME LastFound, Backwards PROVE LastFound' /\ Backwards'
    <3>1. LastFound'
      BY <1>1, <1>2, <2>2 DEF LastFound, FirstIs, LastIs
    <3>2. IF ToShift
          THEN /\ Travelled = step_cnt
               /\ ctrl_phase = step_cnt - Middle /\ (ctrl_updwn <=> ~ps_updwn_reg)
          ELSE Travelled = Middle
      BY <2>2 DEF Backwards
    <3>3. Middle \in Int
      BY <1>1, <2>2, MiddleThere
    <3>4. step_cnt - (step_cnt - Middle) = Middle
      BY <1>4, <3>3
    <3>5. Backwards'
      BY <1>1, <1>2, <1>3, <1>4, <1>5, <3>2, <3>4 DEF Backwards
    <3> QED  BY <3>1, <3>5
  <2>3. fsm' \in {"ph_shift", "wait_after_ph_shift"}
    BY <1>5
  <2> QED  BY <1>1, <1>2, <2>1, <2>2, <2>3 DEF SearchInStep
<1> QED  BY <1>6, <1>7

LEMMA SearchFinishes ==
    ASSUME TypeOK, ShiftInStep, DoneInStep, SearchInStep,
           NEW answers \in BOOLEAN, PsEdge(answers), fsm = "end_srch"
    PROVE  SearchInStep'
<1>1. /\ UNCHANGED <<ps_updwn_reg, ps_step_size_reg, eye>>
      /\ ps_step_size_reg \in STEPS
      /\ Swept' = Swept /\ Window' = Window
  BY SearchHolds
<1>2. fsm' = "idle"
  BY NextState DEF PsEdge, PllPsFsm
<1>3. Travelled' = Travelled
  BY <1>1, PhaseStill DEF Travelled
<1>4. Window = {} \/ NoLast \/ (LastFound /\ Travelled = Middle)
  BY DEF SearchInStep, Backwards
<1>5. \A p \in Window : p \in Int
  BY SearchTypes DEF Window, Swept
<1> SUFFICES EndsInTheMiddle'
  BY <1>2 DEF SearchInStep
<1> DEFINE first == CHOOSE p \in Window : \A q \in Window : p <= q
           last == CHOOSE p \in Window : \A q \in Window : q <= p
<1>6. \A l : LastIs(l) => last = l
  <2> SUFFICES ASSUME NEW l, LastIs(l) PROVE last = l
    OBVIOUS
  <2>1. last \in Window /\ \A q \in Window : q <= last
    BY DEF LastIs
  <2> HIDE DEF last
  <2> QED  BY <1>5, <2>1 DEF LastIs
<1>7. \A f : FirstIs(f) => first = f
  <2> SUFFICES ASSUME NEW f, FirstIs(f) PROVE first = f
    OBVIOUS
  <2>1. first \in Window /\ \A q \in Window : first <= q
    BY DEF FirstIs
  <2> HIDE DEF first
  <2> QED  BY <1>5, <2>1 DEF FirstIs
<1>8. EndsInTheMiddle' <=>
          (ps_done' /\ Window # {} =>
               (last + ps_step_size_reg \in Swept =>
                    ~ps_status' /\ Travelled' = first + (last - first) \div 2))
  BY <1>1 DEF EndsInTheMiddle
<1> HIDE DEF first, last
<1>9. CASE Window = {}
  BY <1>8, <1>9
<1>10. CASE NoLast
  BY <1>6, <1>8, <1>10 DEF NoLast
<1>11. CASE LastFound /\ Travelled = Middle
  <2>1. first = step_cnt_min /\ last = step_cnt_max
    BY <1>6, <1>7, <1>11 DEF LastFound
  <2>2. Right
    BY <1>1, <1>11, MiddleThere, RightThere
  <2>3. ~Wrong
    BY <2>2 DEF DoneInStep
  <2>4. ~ps_status'
    <3>1. ps_status' = (ps_en /\ IF fsm = "end_srch" THEN Wrong ELSE ps_status)
      BY DEF PsEdge, PllPsFsm, StatusRegs
    <3> QED  BY <2>3, <3>1, Zenon
  <2> QED  BY <1>3, <1>8, <1>11, <2>1, <2>4 DEF Middle
<1> QED  BY <1>4, <1>9, <1>10, <1>11

LEMMA PsEdgeSearches ==
    ASSUME TypeOK, ShiftInStep, CompareInStep, DoneInStep, SearchInStep,
           NEW answers \in BOOLEAN, PsEdge(answers)
    PROVE  SearchInStep'
<1>1. fsm \in FsmStates /\ FsmStep
  BY DEF TypeOK, PsEdge, PllPsFsm
<1>2. CASE fsm \in {"check_cmp_status", "wait_after_ph_shift"}
  <2>1. fsm' \in {"check_cmp_status", "cmp_smpls", "wait_after_ph_shift"}
    BY <1>1, <1>2, NextState
  <2> QED  BY <1>2, <2>1, SearchPauses
<1>3. CASE fsm = "cmp_smpls"
  BY <1>3, SearchPauses, SearchCompares
<1> QED
  BY <1>1, <1>2, <1>3, SearchBegins, SearchFindsFirst, SearchFindsLast, SearchGoesOn,
     SearchTurns, SearchShifts, SearchFinishes DEF FsmStates

LEMMA OthersSearch ==
    ASSUME TypeOK, HOST_WAITS, DoneInStep, SearchInStep, RxEdge \/ PllLocks \/ Host
    PROVE  SearchInStep'
<1>1. UNCHANGED <<fsmVars, avVars, phase, eye, psSyncs>>
  BY OthersLeave
<1>2. fsm # "idle" => ps_en' /\ ps_en_reg'
  <2>1. fsm # "idle" => ps_en /\ ps_en_reg /\ ~ps_done
    BY DEF SearchInStep, DoneInStep
  <2>2. ps_en_reg' = ps_en_reg
    BY <1>1 DEF fsmVars
  <2>3. CASE RxEdge \/ PllLocks
    BY <2>1, <2>2, <2>3 DEF RxEdge, PllLocks, hostVars
  <2>4. CASE Host
    BY <2>1, <2>2, <2>4 DEF Host, HostStarts, HostSets, HostStops
  <2> QED  BY <2>3, <2>4
<1>3. Window' = Window /\ Swept' = Swept /\ Travelled' = Travelled
  BY <1>1 DEF Window, Swept, Travelled, fsmVars
<1>4. (NoLast' <=> NoLast) /\ (LastFound' <=> LastFound) /\ Middle' = Middle
  BY <1>1, <1>3 DEF NoLast, LastFound, FirstIs, LastIs, Middle, fsmVars
<1>5. EndsInTheMiddle' = EndsInTheMiddle
  BY <1>1, <1>3 DEF EndsInTheMiddle, fsmVars
<1>6. ToShift' <=> ToShift
  BY <1>1 DEF ToShift, fsmVars, avVars
<1>7. (Onwards' <=> Onwards) /\ (Preparing' <=> Preparing) /\ (Backwards' <=> Backwards)
  BY <1>1, <1>3, <1>4, <1>6
     DEF Onwards, FoundBelow, FirstIs, Preparing, Backwards, fsmVars
<1>8. Beginning' <=> Beginning
  BY <1>1 DEF Beginning, fsmVars
<1>9. fsm' = fsm /\ UNCHANGED <<ps_step_size_reg, find_min, find_max, prep_phase_cnt>>
  BY <1>1 DEF fsmVars
<1> QED
  BY <1>2, <1>3, <1>4, <1>5, <1>7, <1>8, <1>9 DEF SearchInStep

-----------------------------------------------------------------------------
(* The theorems. *)

LEMMA NextIInv == IInv /\ [Next]_vars => IInv'
<1> SUFFICES ASSUME IInv, [Next]_vars PROVE IInv'
  OBVIOUS
<1>1. TypeOK /\ CompareInStep /\ ShiftInStep /\ DoneInStep /\ (HOST_WAITS => SearchInStep)
  BY DEF IInv, InStep
<1>2. ASSUME NEW answers \in BOOLEAN, PsEdge(answers) PROVE IInv'
  BY <1>1, <1>2, PsEdgeType, PsEdgeCompares, PsEdgeShifts, PsEdgeDone, PsEdgeSearches
     DEF IInv, InStep
<1>3. CASE RxEdge
  BY <1>1, <1>3, RxEdgeType, RxEdgeCompares, OthersShift, OthersDone, OthersSearch
     DEF IInv, InStep
<1>4. CASE PllLocks
  <2>1. TypeOK'
    BY <1>1, <1>4 DEF PllLocks, TypeOK, hostVars, fsmVars, avVars, psSyncs, cmpVars
  <2> QED
    BY <1>1, <1>4, <2>1, OthersCompare, OthersShift, OthersDone, OthersSearch
       DEF IInv, InStep
<1>5. CASE Host
  BY <1>1, <1>5, HostType, OthersCompare, OthersShift, OthersDone, OthersSearch
     DEF IInv, InStep
<1>6. CASE UNCHANGED vars
  BY <1>6, Stutter
<1> QED  BY <1>2, <1>3, <1>4, <1>5, <1>6 DEF Next

LEMMA Invariant == Spec => []IInv
BY InitIInv, NextIInv, PTL DEF Spec

\* Every register stays in its range: no counter of the waits runs past its end, whatever
\* the host does.
THEOREM TypeCorrect == Spec => []TypeOK
<1>1. IInv => TypeOK
  BY DEF IInv
<1> QED  BY <1>1, Invariant, PTL

\* pll_ps_fsm, pll_ps_av, smpl_cmp and the synchronisers between them agree at every edge:
\* the inductive invariant.
THEOREM StaysInStep == Spec => []InStep
<1>1. IInv => InStep
  BY DEF IInv
<1> QED  BY <1>1, Invariant, PTL

\* The verdict that pll_ps_fsm reads in cmp_smpls is that of the phase that it has set,
\* for any lengths of the waits and any relation of the clocks, and also if the host
\* restarts the search in between.
THEOREM VerdictsAreRead == Spec => []ReadsVerdict
<1>1. IInv => ReadsVerdict
  BY DEF IInv, InStep, CompareInStep, Comparing, ReadsVerdict, Compared, Wrong
<1> QED  BY <1>1, Invariant, PTL

\* A search that is done without an error has left the PLL at a phase with right samples,
\* whatever the host does meanwhile.
THEOREM OkIsRight == Spec => []OkMeansRight
<1>1. IInv => OkMeansRight
  BY DEF IInv, InStep, DoneInStep
<1> QED  BY <1>1, Invariant, PTL

\* Each shift is made and counted once, for any times that the bus and the PLL take, if
\* the host lets a search come to its end.
THEOREM ShiftsAreCounted == ASSUME HOST_WAITS PROVE Spec => []CountsShifts
<1>1. IInv => CountsShifts
  BY DEF IInv, InStep, SearchInStep, Onwards, CountsShifts
<1> QED  BY <1>1, Invariant, PTL

\* For any width of the counter, any step size and any window of phases: a window whose
\* end the search passes is found, and the PLL is left in its middle.
THEOREM MiddleIsFound == ASSUME HOST_WAITS PROVE Spec => []EndsInTheMiddle
<1>1. IInv => EndsInTheMiddle
  <2> SUFFICES ASSUME IInv PROVE EndsInTheMiddle
    OBVIOUS
  <2>1. DoneInStep /\ SearchInStep
    BY DEF IInv, InStep
  <2>2. CASE ps_done
    BY <2>1, <2>2 DEF DoneInStep, SearchInStep
  <2>3. CASE ~ps_done
    BY <2>3 DEF EndsInTheMiddle
  <2> QED  BY <2>2, <2>3
<1> QED  BY <1>1, Invariant, PTL

=============================================================================
