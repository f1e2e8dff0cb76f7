---------------------------- MODULE PhaseSearch ----------------------------
(***************************************************************************)
(* The automatic search for the phase at which the receiver's samples are  *)
(* captured well: pll_ps_fsm shifts the phase of a PLL step by step, has   *)
(* smpl_cmp compare the test pattern after each step, and then shifts back *)
(* to the middle of the window in which the pattern was right.             *)
(*                                                                         *)
(* PsEdge is an edge of free_running_clk, which drives pll_ps_fsm and the  *)
(* controller pll_ps_av, RxEdge one of MCLK2, the clock under search,      *)
(* which drives smpl_cmp.  Signals between them cross through sync_reg.    *)
(***************************************************************************)
EXTENDS Integers

CONSTANTS
    LAST,           \* step_cnt_max_constant: the largest of the counters' values
    STEPS,          \* step sizes that the host sets
    SETTLE,         \* edges in wait_after_ph_shift
    CMP_LENGTH,     \* cmp_length of smpl_cmp
    EYES,           \* windows of phases, <<first, last>>, at which samples are right
    HOST_WAITS      \* the host clears ps_en only after ps_done

ASSUME PhaseSearchAssumption ==
    /\ LAST \in Nat /\ STEPS \subseteq 1..LAST
    /\ SETTLE \in Nat \ {0} /\ CMP_LENGTH \in Nat \ {0}
    /\ EYES \subseteq Nat \X Nat
    /\ HOST_WAITS \in BOOLEAN

VARIABLES
    ps_en, ps_updwn, ps_step_size,      \* what the host sets
    fsm,                                \* current_state of pll_ps_fsm
    ps_en_reg, ps_updwn_reg, ps_step_size_reg, busy_reg,
    find_min, find_max,
    step_cnt, step_cnt_min, step_cnt_max, step_cnt_max_reg,
    diff, middle, reverse,              \* step_cnt_diff, step_cnt_middle, step_cnt_reverse
    prep_phase_cnt, settle_cnt,         \* settle_cnt is wait_after_ph_shift_cnt
    pll_reset_req, smpl_cmp_en,
    ctrl_en, ctrl_phase, ctrl_updwn,    \* ps_ctrl_en_reg and so on
    ps_done, ps_status,                 \* a TRUE ps_status is an error
    av, en_reg, busy,                   \* state and registers of pll_ps_av
    locked, phase, eye,                 \* the PLL, and the window
    locked_sync, done_sync, error_sync, start_sync, \* sync_reg, the output last
    was,                                \* done and error before an RxEdge just past
    cmp, start_reg, wait_cnt, compare_cnt, compare_stop,    \* smpl_cmp
    smpl_err, done, error

hostVars == <<ps_en, ps_updwn, ps_step_size>>
fsmVars == <<fsm, ps_en_reg, ps_updwn_reg, ps_step_size_reg, busy_reg, find_min,
             find_max, step_cnt, step_cnt_min, step_cnt_max, step_cnt_max_reg, diff,
             middle, reverse, prep_phase_cnt, settle_cnt, pll_reset_req, smpl_cmp_en,
             ctrl_en, ctrl_phase, ctrl_updwn, ps_done, ps_status>>
avVars == <<av, en_reg, busy>>
pllVars == <<locked, phase, eye>>
psSyncs == <<locked_sync, done_sync, error_sync>>
cmpVars == <<cmp, start_reg, wait_cnt, compare_cnt, compare_stop, smpl_err, done, error>>
vars == <<hostVars, fsmVars, avVars, pllVars, psSyncs, start_sync, was, cmpVars>>

FsmStates == {"idle", "rst_pll", "wait_pll_lock", "check_cmp_status", "cmp_smpls",
              "min_found", "max_found", "check_max_steps", "ph_shift",
              "wait_after_ph_shift", "end_srch", "prep_phase"}

CmpInit ==
    /\ cmp = "idle" /\ start_reg = FALSE /\ wait_cnt = 0 /\ compare_cnt = 0
    /\ compare_stop = FALSE /\ smpl_err = FALSE /\ done = FALSE /\ error = FALSE

Init ==
    /\ ps_en = FALSE /\ ps_updwn \in BOOLEAN /\ ps_step_size \in STEPS
    /\ fsm = "idle" /\ ps_en_reg = FALSE /\ busy_reg = FALSE
    /\ ps_updwn_reg = FALSE /\ ps_step_size_reg = 0
    /\ find_min = TRUE /\ find_max = TRUE
    /\ step_cnt = 0 /\ step_cnt_min = 0 /\ step_cnt_max = LAST /\ step_cnt_max_reg = LAST
    /\ diff = 0 /\ middle = 0 /\ reverse = 0 /\ prep_phase_cnt = 0 /\ settle_cnt = 0
    /\ pll_reset_req = FALSE /\ smpl_cmp_en = FALSE
    /\ ctrl_en = FALSE /\ ctrl_phase = 0 /\ ctrl_updwn = FALSE
    /\ ps_done = FALSE /\ ps_status = FALSE
    /\ av = "idle" /\ en_reg = FALSE /\ busy = TRUE
    /\ locked = TRUE /\ phase = 0 /\ eye \in EYES
    /\ locked_sync = <<TRUE, TRUE>> /\ done_sync = <<FALSE, FALSE>>
    /\ error_sync = <<FALSE, FALSE>> /\ start_sync = <<FALSE, FALSE>>
    /\ was = <<FALSE, FALSE>>
    /\ CmpInit

-----------------------------------------------------------------------------
(* pll_ps_fsm *)

Goes(s, t) == fsm = s /\ fsm' = t

Rising == ps_en /\ ~ps_en_reg
Shifted == busy_reg /\ ~busy
Compared == done_sync[2]
Wrong == error_sync[2]

\* A right phase is the first of the window if the counter has passed 2.
MinFound == find_min /\ ~Wrong /\ step_cnt > 2
MaxFound == ~find_min /\ find_max /\ Wrong

CompareResetUnchecked == TRUE
CompareReset == ~done_sync[2]

Found ==
    \/ Goes("cmp_smpls", "min_found") /\ Compared /\ MinFound
    \/ Goes("cmp_smpls", "max_found") /\ Compared /\ MaxFound
    \/ Goes("cmp_smpls", "check_max_steps")
        /\ Compared /\ ~MinFound /\ ~MaxFound /\ (find_min \/ find_max)
    \/ Goes("cmp_smpls", "end_srch") /\ Compared /\ ~find_min /\ ~find_max
    \/ Goes("cmp_smpls", "cmp_smpls") /\ ~Compared
    \/ Goes("min_found", "check_max_steps")
    \/ Goes("max_found", "prep_phase")
    \/ Goes("check_max_steps", "ph_shift") /\ step_cnt < step_cnt_max_reg
    \/ Goes("check_max_steps", "prep_phase") /\ step_cnt >= step_cnt_max_reg /\ ~find_min
    \/ Goes("check_max_steps", "end_srch") /\ step_cnt >= step_cnt_max_reg /\ find_min

PhaseReady == prep_phase_cnt > 2

FsmStep ==
    \/ Goes("idle", IF Rising THEN "rst_pll" ELSE "idle")
    \/ Goes("rst_pll", IF locked_sync[2] THEN "rst_pll" ELSE "wait_pll_lock")
    \/ Goes("wait_pll_lock", "wait_pll_lock") /\ ~locked_sync[2]
    \/ Goes("wait_pll_lock", IF find_min \/ find_max THEN "check_cmp_status" ELSE "ph_shift")
        /\ locked_sync[2]
    \/ Goes("check_cmp_status", IF CompareReset THEN "cmp_smpls" ELSE "check_cmp_status")
    \/ Found
    \/ Goes("ph_shift", IF Shifted THEN "wait_after_ph_shift" ELSE "ph_shift")
    \/ Goes("wait_after_ph_shift",
            IF settle_cnt > SETTLE - 1 THEN "check_cmp_status" ELSE "wait_after_ph_shift")
    \/ Goes("prep_phase", IF PhaseReady THEN "ph_shift" ELSE "prep_phase")
    \/ Goes("end_srch", "idle")

InputRegs ==
    /\ busy_reg' = busy /\ ps_en_reg' = ps_en
    /\ ps_updwn_reg' = IF Rising THEN ps_updwn ELSE ps_updwn_reg
    /\ ps_step_size_reg' = IF Rising THEN ps_step_size ELSE ps_step_size_reg
    /\ step_cnt_max_reg' = (LAST - ps_step_size_reg) % (LAST + 1)

MaxRegAtError == IF fsm = "max_found" THEN step_cnt
                 ELSE IF fsm = "idle" THEN LAST ELSE step_cnt_max

\* The step that found an error is not in the window.
MaxReg == IF fsm = "max_found" THEN (step_cnt - ps_step_size_reg) % (LAST + 1)
          ELSE IF fsm = "idle" THEN LAST ELSE step_cnt_max

SearchRegs ==
    /\ find_min' = (fsm = "idle" \/ (find_min /\ fsm # "min_found"))
    /\ find_max' = (fsm = "idle" \/ (find_max /\ fsm \notin {"max_found", "prep_phase"}))
    /\ step_cnt_min' = CASE fsm = "min_found" -> step_cnt
                         [] fsm = "idle" -> 0
                         [] OTHER -> step_cnt_min
    /\ step_cnt_max' = MaxReg
    /\ step_cnt' = CASE fsm = "check_max_steps" -> (step_cnt + ps_step_size_reg) % (LAST + 1)
                     [] fsm = "idle" -> 0
                     [] OTHER -> step_cnt
    /\ prep_phase_cnt' = IF fsm = "prep_phase" THEN prep_phase_cnt + 1 ELSE 0
    /\ settle_cnt' = IF fsm = "wait_after_ph_shift" THEN settle_cnt + 1 ELSE 0

\* The way back to the middle takes three edges to compute.
MiddleRegs ==
    /\ diff' = (step_cnt_max - step_cnt_min) % (LAST + 1)
    /\ middle' = (diff \div 2 + step_cnt_min) % (LAST + 1)
    /\ reverse' = (step_cnt - middle) % (LAST + 1)

ControlRegsHeld ==
    /\ ctrl_en' = (fsm \notin {"idle", "rst_pll", "wait_pll_lock", "end_srch"})
    /\ ctrl_phase' = CASE fsm = "idle" -> ps_step_size
                       [] fsm = "prep_phase" -> reverse
                       [] OTHER -> ctrl_phase
    /\ ctrl_updwn' = CASE fsm = "idle" -> ps_updwn
                       [] fsm = "prep_phase" -> ~ps_updwn_reg
                       [] OTHER -> ctrl_updwn

\* Step size and direction are taken from the host as long as the search has
\* not begun; ps_updwn_reg, not the host, gives the direction back.
ControlRegs ==
    /\ ctrl_en' = (fsm = "ph_shift")
    /\ ctrl_phase' = CASE fsm = "idle" -> ps_step_size
                       [] fsm = "prep_phase" -> reverse
                       [] OTHER -> ctrl_phase
    /\ ctrl_updwn' = CASE fsm = "idle" -> ps_updwn
                       [] fsm = "prep_phase" -> ~ps_updwn_reg
                       [] OTHER -> ctrl_updwn

StatusRegs ==
    /\ pll_reset_req' = (fsm = "rst_pll")
    /\ smpl_cmp_en' = (fsm = "cmp_smpls")
    /\ ps_done' = (ps_en /\ (ps_done \/ fsm = "end_srch"))
    /\ ps_status' = (ps_en /\ IF fsm = "end_srch" THEN Wrong ELSE ps_status)

PllPsFsm ==
    /\ FsmStep /\ InputRegs /\ SearchRegs /\ MiddleRegs /\ ControlRegs /\ StatusRegs

-----------------------------------------------------------------------------
(* pll_ps_av and the PLL.  The controller writes direction, size and start  *)
(* to the PLL's registers, and polls until the phase has been shifted; each *)
(* takes as long as the bus and the PLL like: answers says whether they are *)
(* ready on this edge.                                                      *)

AvGoes(s, t) == av = s /\ av' = t

StartsOnLevel == ctrl_en
Starts == ctrl_en /\ ~en_reg

PllPsAv(answers) ==
    /\ en_reg' = ctrl_en /\ busy' = (av # "idle")
    /\ \/ AvGoes("idle", IF Starts THEN "write" ELSE "idle")
       \/ av \in {"write", "poll"} /\ ~answers /\ UNCHANGED av
       \/ AvGoes("write", "poll") /\ answers
       \/ AvGoes("poll", "end") /\ answers
       \/ AvGoes("end", "idle")

\* A reset of the PLL undoes the shifts and stops its clocks.
Pll(answers) ==
    /\ locked' = (locked /\ ~pll_reset_req')
    /\ phase' = CASE pll_reset_req' -> 0
                  [] ~pll_reset_req' /\ av = "write" /\ answers ->
                        IF ctrl_updwn THEN phase + ctrl_phase ELSE phase - ctrl_phase
                  [] OTHER -> phase
    /\ UNCHANGED eye

PllLocks ==
    /\ ~locked /\ ~pll_reset_req /\ locked' = TRUE
    /\ UNCHANGED <<hostVars, fsmVars, avVars, phase, eye, psSyncs, start_sync, was, cmpVars>>

\* Of two signals that changed just before the edge, either may be seen old.
Syncs ==
    /\ locked_sync' = <<locked, locked_sync[1]>>
    /\ \E seen \in {done, was[1]} : done_sync' = <<seen, done_sync[1]>>
    /\ \E seen \in {error, was[2]} : error_sync' = <<seen, error_sync[1]>>
    /\ was' = <<done, error>>

\* An edge of free_running_clk.
PsEdge(answers) ==
    /\ PllPsFsm /\ PllPsAv(answers) /\ Pll(answers) /\ Syncs
    /\ UNCHANGED <<hostVars, start_sync, cmpVars>>

-----------------------------------------------------------------------------
(* smpl_cmp *)

Abs(n) == IF n < 0 THEN -n ELSE n

Right == Abs(phase) \in eye[1]..eye[2]

CmpGoes(s, t) == cmp = s /\ cmp' = t

PipelineClean == wait_cnt > 3

CmpStep ==
    \/ CmpGoes("idle", IF start_reg THEN "idle" ELSE "wait_cyc")
    \/ CmpGoes("wait_cyc", IF PipelineClean THEN "compare" ELSE "wait_cyc")
    \/ CmpGoes("compare", IF compare_stop \/ smpl_err THEN "compare_done" ELSE "compare")
    \/ CmpGoes("compare_done", "idle")

\* After start the registers before smpl_err hold no samples for some edges.
\* A wrong phase shows at any sample, at the last if not before.
Flushing == cmp = "idle" \/ (cmp = "wait_cyc" /\ wait_cnt <= 2)
SampleErr ==
    smpl_err' \in IF Flushing \/ (~Right /\ compare_cnt < CMP_LENGTH)
                  THEN BOOLEAN ELSE {~Right}

DoneWithError ==
    /\ done' = (done \/ (cmp = "compare" /\ (compare_stop \/ smpl_err)))
    /\ error' = (error \/ (cmp = "compare" /\ smpl_err))

Verdict ==
    /\ done' = (done \/ cmp = "compare_done")
    /\ error' = (error \/ (cmp = "compare" /\ smpl_err))

CmpRun ==
    /\ start_reg' = TRUE
    /\ CmpStep
    /\ wait_cnt' = IF cmp = "wait_cyc" THEN wait_cnt + 1 ELSE 0
    /\ compare_cnt' = IF cmp = "compare" THEN compare_cnt + 1 ELSE 0
    /\ compare_stop' = (compare_cnt > CMP_LENGTH - 1)
    /\ SampleErr /\ Verdict

CmpReset ==
    /\ cmp' = "idle" /\ start_reg' = FALSE /\ wait_cnt' = 0 /\ compare_cnt' = 0
    /\ compare_stop' = FALSE /\ smpl_err' = FALSE /\ done' = FALSE /\ error' = FALSE

\* An edge of MCLK2.  The start signal is also the reset of smpl_cmp, so that it
\* runs on the edges before and after which the signal is high.
RxEdge ==
    /\ locked
    /\ start_sync' = <<smpl_cmp_en, start_sync[1]>>
    /\ IF start_sync[1] /\ start_sync[2] THEN CmpRun ELSE CmpReset
    /\ was' = <<done, error>>
    /\ UNCHANGED <<hostVars, fsmVars, avVars, pllVars, psSyncs>>

-----------------------------------------------------------------------------
(* The host, through the registers of pllcfg, which change slowly. *)

HostStarts ==
    /\ ~ps_en /\ ~ps_en_reg /\ ps_en' = TRUE
    /\ ps_updwn' \in BOOLEAN /\ ps_step_size' \in STEPS

\* The registers of size and direction are written while the search runs.
HostSets ==
    /\ ps_en /\ ps_en_reg /\ fsm # "idle"
    /\ ps_updwn' \in BOOLEAN /\ ps_step_size' \in STEPS /\ UNCHANGED ps_en

HostStops ==
    /\ ps_en /\ ps_en_reg /\ (HOST_WAITS => ps_done)
    /\ ps_en' = FALSE /\ UNCHANGED <<ps_updwn, ps_step_size>>

Host ==
    /\ HostStarts \/ HostSets \/ HostStops
    /\ UNCHANGED <<fsmVars, avVars, pllVars, psSyncs, start_sync, was, cmpVars>>

Next ==
    \/ \E answers \in BOOLEAN : PsEdge(answers)
    \/ RxEdge
    \/ PllLocks
    \/ Host

Spec == Init /\ [][Next]_vars

(***************************************************************************)
(* Both clocks run, the PLL locks, and the bus and the PLL answer.         *)
(***************************************************************************)
FairSpec ==
    /\ Spec
    /\ WF_vars(\E answers \in BOOLEAN : PsEdge(answers))
    /\ WF_vars(av \in {"write", "poll"} /\ PsEdge(TRUE))
    /\ WF_vars(RxEdge) /\ WF_vars(PllLocks)

-----------------------------------------------------------------------------
(* Type invariant: the ranges of the signals; those of the search stay in   *)
(* their width, and the counters of the waits stop where the code says.     *)
Counters == 0..LAST
TypeOK ==
    /\ fsm \in FsmStates /\ av \in {"idle", "write", "poll", "end"}
    /\ cmp \in {"idle", "wait_cyc", "compare", "compare_done"}
    /\ {ps_en, ps_updwn, ps_en_reg, ps_updwn_reg, busy_reg, find_min, find_max,
        pll_reset_req, smpl_cmp_en, ctrl_en, ctrl_updwn, ps_done, ps_status,
        en_reg, busy, locked, start_reg, compare_stop, smpl_err, done, error}
            \subseteq BOOLEAN
    /\ {locked_sync, done_sync, error_sync, start_sync, was} \subseteq BOOLEAN \X BOOLEAN
    /\ ps_step_size \in STEPS /\ ps_step_size_reg \in STEPS \union {0}
    /\ {step_cnt, step_cnt_min, step_cnt_max, step_cnt_max_reg, diff, middle, reverse,
        ctrl_phase} \subseteq Counters
    /\ prep_phase_cnt \in 0..4 /\ settle_cnt \in 0..(SETTLE + 1)
    /\ wait_cnt \in 0..5 /\ compare_cnt \in 0..(CMP_LENGTH + 2)
    /\ phase \in Int /\ eye \in EYES

\* Every phase shift that pll_ps_fsm asks for is made once: the counter of the
\* search is the PLL's phase whenever samples are compared, though the search
\* takes the fall of busy, not an answer, for the end of its own shift.
Travelled == IF ps_updwn_reg THEN phase ELSE -phase
CountsShifts == fsm \in {"check_cmp_status", "cmp_smpls"} /\ find_max
                    => Travelled = step_cnt

\* The verdict that the search reads with done is that of the phase it has just
\* set, not an earlier one and not one still on its way through its own
\* synchroniser.
ReadsVerdict == fsm = "cmp_smpls" /\ Compared => (Wrong <=> ~Right)

\* Done without an error means that samples are right at the phase that the
\* PLL is left with, however the search came to its end.
OkMeansRight == ps_done /\ ~ps_status => Right

\* The phases that a whole search visits, and those of the window it should find.
Swept == {p \in 0..(LAST - 1) : p % ps_step_size_reg = 0}
Window == {p \in Swept : p > 2 /\ p \in eye[1]..eye[2]}

\* A window with a wrong phase after it is found, and the search ends well in
\* its middle.
EndsInTheMiddle ==
    ps_done /\ Window # {} =>
        LET first == CHOOSE p \in Window : \A q \in Window : p <= q
            last == CHOOSE p \in Window : \A q \in Window : q <= p
        IN  last + ps_step_size_reg \in Swept =>
                ~ps_status /\ Travelled = first + (last - first) \div 2

\* A search that has begun ends.
SearchEnds == ps_en /\ ~ps_done ~> ps_done \/ ~ps_en

-----------------------------------------------------------------------------
(***************************************************************************)
(* Where the comparison is.  smpl_cmp has been reset, runs, or has its     *)
(* verdict; it runs for nothing but cmp_smpls, and check_cmp_status does   *)
(* not let the search on before the last verdict has gone from smpl_cmp    *)
(* and from the synchronisers.                                             *)
(***************************************************************************)
Reset ==
    /\ cmp = "idle" /\ ~start_reg /\ wait_cnt = 0 /\ compare_cnt = 0
    /\ ~compare_stop /\ ~smpl_err /\ ~done /\ ~error

Running ==
    /\ start_reg /\ ~done
    /\ \/ /\ cmp = "wait_cyc" /\ wait_cnt <= 4 /\ compare_cnt = 0 /\ ~compare_stop /\ ~error
          /\ wait_cnt = 4 /\ smpl_err => ~Right
       \/ /\ cmp = "compare" /\ ~error
          /\ compare_cnt <= CMP_LENGTH + 1 /\ (compare_cnt > CMP_LENGTH => compare_stop)
          /\ smpl_err => ~Right
          /\ compare_stop /\ ~Right => smpl_err
       \/ cmp = "compare_done" /\ (error <=> ~Right)

Finished == start_reg /\ done /\ cmp = "idle"

\* In cmp_smpls.  The verdict is never later than the signal that it is there.
Comparing ==
    \/ /\ Reset /\ ~was[1] /\ ~done_sync[1] /\ ~done_sync[2]
       /\ start_sync[2] => start_sync[1]
       /\ start_sync[1] => smpl_cmp_en
    \/ /\ Running /\ ~was[1] /\ ~done_sync[1] /\ ~done_sync[2]
       /\ smpl_cmp_en /\ start_sync[1] /\ start_sync[2]
    \/ /\ Finished /\ smpl_cmp_en /\ start_sync[1] /\ start_sync[2]
       /\ (error <=> ~Right) /\ (was[2] <=> ~Right)
       /\ done_sync[1] => was[1] /\ (error_sync[1] <=> ~Right)
       /\ done_sync[2] => done_sync[1] /\ (error_sync[2] <=> ~Right)

\* Elsewhere the verdict goes, in this order.
Resting ==
    \/ /\ Finished /\ start_sync[2] /\ was[1] /\ done_sync[1] /\ done_sync[2]
       /\ smpl_cmp_en => start_sync[1]
    \/ /\ Reset /\ ~start_sync[1] /\ ~start_sync[2] /\ ~smpl_cmp_en
       /\ was[1] => done_sync[1]
       /\ done_sync[1] => done_sync[2]

CompareInStep == IF fsm = "cmp_smpls" THEN Comparing ELSE Resting

(***************************************************************************)
(* Where the shift is.  Outside ph_shift the controller is idle; in it, it *)
(* starts once, and busy falls once, after the PLL has been written to.    *)
(***************************************************************************)
ToShift ==
    \/ av = "idle" /\ ~en_reg /\ ~busy /\ ~busy_reg
    \/ av = "write" /\ ctrl_en /\ en_reg /\ (busy_reg => busy)
HasShifted ==
    /\ ctrl_en /\ en_reg
    /\ \/ av = "poll" /\ busy
       \/ av = "end" /\ busy /\ busy_reg
       \/ av = "idle" /\ busy_reg

ShiftInStep ==
    /\ IF fsm = "ph_shift" THEN ToShift \/ HasShifted
       ELSE av = "idle" /\ (ctrl_en => en_reg)
    /\ fsm = "wait_after_ph_shift" =>
           /\ settle_cnt <= SETTLE
           /\ ctrl_en => settle_cnt = 0
           /\ en_reg => settle_cnt <= 1
    /\ fsm \notin {"ph_shift", "wait_after_ph_shift"} => ~en_reg
    /\ fsm \notin {"idle", "rst_pll", "ph_shift"} => ~busy
    /\ fsm \notin {"idle", "rst_pll", "wait_pll_lock", "ph_shift"} => ~busy_reg
    /\ fsm = "prep_phase" => prep_phase_cnt <= 3

\* What the search says at its end, it has just read.
DoneInStep ==
    /\ ps_done => fsm = "idle" /\ ps_en_reg
    /\ fsm \in {"rst_pll", "wait_pll_lock"} => find_min /\ find_max
    /\ fsm = "min_found" => find_min
    /\ fsm = "check_max_steps" /\ find_min => (error_sync[1] <=> ~Right)
    /\ fsm = "end_srch" => (Wrong <=> ~Right)
    /\ OkMeansRight

(***************************************************************************)
(* Where the search is, if the host lets it come to its end: it has found  *)
(* what there is of the window below the phase that it looks at, and then  *)
(* goes back to the middle.                                                *)
(***************************************************************************)
FirstIs(f) == f \in Window /\ \A p \in Window : f <= p
LastIs(l) == l \in Window /\ \A p \in Window : p <= l

\* Nothing found yet, or right up to the phase before bound.
FoundBelow(bound) ==
    IF find_min THEN \A p \in Window : p >= bound
    ELSE /\ FirstIs(step_cnt_min) /\ step_cnt_min < bound
         /\ bound - ps_step_size_reg \in Window

Onwards ==
    /\ find_max /\ step_cnt \in Swept
    /\ ctrl_phase = ps_step_size_reg /\ (ctrl_updwn <=> ps_updwn_reg)
    /\ step_cnt_max_reg = LAST - ps_step_size_reg
    /\ Travelled = IF fsm = "ph_shift" /\ ToShift THEN step_cnt - ps_step_size_reg
                   ELSE step_cnt
    /\ FoundBelow(IF fsm = "check_max_steps" THEN step_cnt + ps_step_size_reg ELSE step_cnt)
    /\ fsm = "min_found" => step_cnt \in Window
    /\ fsm = "max_found" => ~find_min /\ step_cnt \notin Window

\* The end of the window is known, or it lies behind the phases visited.
LastFound ==
    FirstIs(step_cnt_min) /\ LastIs(step_cnt_max) /\ step_cnt = step_cnt_max + ps_step_size_reg
NoLast == \E l \in Window : LastIs(l) /\ l + ps_step_size_reg \notin Swept

Middle == step_cnt_min + (step_cnt_max - step_cnt_min) \div 2

Preparing ==
    /\ Travelled = step_cnt
    /\ prep_phase_cnt >= 1 => diff = step_cnt_max - step_cnt_min
    /\ prep_phase_cnt >= 2 => middle = Middle
    /\ prep_phase_cnt >= 3 => reverse = step_cnt - Middle

Backwards ==
    IF fsm = "ph_shift" /\ ToShift
    THEN /\ Travelled = step_cnt
         /\ ctrl_phase = step_cnt - Middle /\ (ctrl_updwn <=> ~ps_updwn_reg)
    ELSE Travelled = Middle

Beginning ==
    /\ step_cnt = 0 /\ ctrl_phase = ps_step_size_reg /\ (ctrl_updwn <=> ps_updwn_reg)
    /\ fsm = "wait_pll_lock" => phase = 0 /\ step_cnt_max_reg = LAST - ps_step_size_reg

SearchInStep ==
    /\ fsm # "idle" => ps_en /\ ps_en_reg /\ ps_step_size_reg \in STEPS
    /\ fsm = "idle" => EndsInTheMiddle
    /\ fsm \in {"rst_pll", "wait_pll_lock"} => Beginning
    /\ fsm \in {"min_found", "max_found", "check_max_steps"} => Onwards
    /\ fsm \in {"check_cmp_status", "cmp_smpls", "ph_shift", "wait_after_ph_shift"} =>
           \/ Onwards
           \/ ~find_min /\ ~find_max /\ (NoLast \/ (LastFound /\ Backwards))
    /\ fsm = "prep_phase" =>
           /\ ~find_min /\ (find_max => prep_phase_cnt = 0)
           /\ NoLast \/ (LastFound /\ Preparing)
    /\ fsm = "end_srch" => Window = {} \/ NoLast \/ (LastFound /\ Backwards)

InStep ==
    /\ CompareInStep /\ ShiftInStep /\ DoneInStep
    /\ HOST_WAITS => SearchInStep

=============================================================================
