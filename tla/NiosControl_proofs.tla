------------------------- MODULE NiosControl_proofs -------------------------
(***************************************************************************)
(* Proofs about the control channel, for any set of PLLs, of indices and   *)
(* of settings.                                                            *)
(***************************************************************************)
EXTENDS NiosControl, SequenceTheorems, TLAPS

LEMMA Constants ==
    /\ 0 \in Plls /\ Plls \subseteq Indices
    /\ 0 # None /\ 1 # None /\ \A n \in Numbers : n # None
    /\ \A i \in Indices, s \in Settings : [ind |-> i, set |-> s] # None
  BY ControlAssumption DEF Numbers, Configurations

LEMMA Base == ASSUME NEW i \in Indices PROVE GetPLLCFG_Base(i) \in Plls
  BY Constants DEF GetPLLCFG_Base

-----------------------------------------------------------------------------
(* Types.                                                                  *)

Bits == [Starts -> BOOLEAN]
States == {"pllcfg", "pllrst", "sample", "command", "answer"}
Loaded == [Plls -> [set : Settings, locked : Settings]]

LEMMA TypeInit == Init => TypeOK
<1> SUFFICES ASSUME Init PROVE TypeOK
  OBVIOUS
<1>1. PICK i \in Indices, s \in Settings :
         /\ reg = [ind |-> i, set |-> s, bits |-> NoStart]
         /\ pll = [p \in Plls |-> [set |-> s, locked |-> s]]
  BY DEF Init
<1>2. NoStart \in Bits
  BY DEF NoStart, Bits
<1>3. /\ reg \in [ind : Indices, set : Settings, bits : Bits] /\ pll \in Loaded
  BY <1>1, <1>2 DEF Loaded
<1>4. <<>> \in Seq(Numbers) /\ 0 \in Numbers /\ status \in Errors
  BY DEF Init, Numbers, Errors
<1> QED
  BY <1>2, <1>3, <1>4 DEF Init, TypeOK, Bits, Loaded

LEMMA ResetType == ASSUME TypeOK, NEW p \in Loaded PROVE ResetPLL(p) \in Loaded
<1>1. CASE reg.ind \in Plls
  <2>1. p[reg.ind] \in [set : Settings, locked : Settings]
    BY <1>1 DEF Loaded
  <2> QED
    BY <1>1, <2>1 DEF ResetPLL, Loaded
<1>2. CASE reg.ind \notin Plls
  BY <1>2 DEF ResetPLL
<1> QED
  BY <1>1, <1>2

LEMMA UpdateType ==
    ASSUME TypeOK, UpdatePLLCFG
    PROVE  status' \in Errors /\ pll' \in Loaded
<1>1. pll \in Loaded /\ reg.ind \in Indices /\ reg.set \in Settings
  BY DEF TypeOK, Loaded
<1>2. [pll EXCEPT ![GetPLLCFG_Base(reg.ind)].set = reg.set] \in Loaded
  BY <1>1, Base DEF Loaded
<1>3. CxTimeout \in Errors
  BY DEF Errors
<1> QED
  BY <1>1, <1>2, <1>3, ResetType DEF UpdatePLLCFG

LEMMA TypeHost == ASSUME TypeOK, Host PROVE TypeOK'
<1> USE DEF TypeOK, samples, plls, fifos
<1>1. CASE Open
  BY <1>1 DEF Open
<1>2. CASE SendRequest
  <2>1. (nr + 1) % 2 \in Numbers /\ nr \in Numbers
    BY DEF Numbers
  <2>2. h2f' \in Seq(Numbers)
    BY <1>2, <2>1 DEF SendRequest
  <2> QED
    BY <1>2, <2>1, <2>2 DEF SendRequest
<1>3. CASE ReadAnswer
  <2>1. f2h' \in Seq(Numbers)
    BY <1>3, HeadTailProperties DEF ReadAnswer
  <2> QED
    BY <1>3, <2>1 DEF ReadAnswer
<1>4. CASE Close
  <2>1. <<>> \in Seq(Numbers)
    OBVIOUS
  <2> QED
    BY <1>4, <2>1 DEF Close
<1> QED
  BY <1>1, <1>2, <1>3, <1>4 DEF Host

LEMMA TypeTake ==
    ASSUME TypeOK, TakeRequest
    PROVE  /\ rx' \in Numbers /\ h2f' \in Seq(Numbers) /\ pc' \in States
           /\ rx' = Head(h2f) /\ h2f' = Tail(h2f)
  BY HeadTailProperties DEF TypeOK, TakeRequest, States

LEMMA TypeLoop == ASSUME TypeOK, Loop PROVE TypeOK'
<1> USE DEF TypeOK, samples, plls, fifos, host, States, Loaded
<1>1. CASE ServeConfiguration
  BY <1>1, UpdateType DEF ServeConfiguration
<1>2. CASE ServeReset
  <2>1. ResetPLL(pll) \in Loaded /\ NoErr \in Errors
    BY ResetType DEF Errors
  <2> QED
    BY <1>2, <2>1 DEF ServeReset
<1>3. CASE SampleStarts
  BY <1>3 DEF SampleStarts
<1>4. CASE NoRequest
  BY <1>4 DEF NoRequest
<1>5. CASE BrdspiWr
  <2>1. PICK i \in Indices, s \in Settings, b \in Bits :
           /\ reg' = [ind |-> i, set |-> s, bits |-> b]
           /\ \/ asked' = [ind |-> i, set |-> s] /\ polled' = FALSE
              \/ UNCHANGED <<asked, polled>>
    BY <1>5 DEF BrdspiWr, Bits
  <2>2. reg' \in [ind : Indices, set : Settings, bits : Bits]
    BY <2>1
  <2>3. asked' \in Configurations \cup {None} /\ polled' \in BOOLEAN
    <3>1. [ind |-> i, set |-> s] \in Configurations
      BY DEF Configurations
    <3> QED
      BY <2>1, <3>1
  <2> QED
    BY <1>5, <2>2, <2>3, TypeTake DEF BrdspiWr, TakeRequest, Bits
<1>6. CASE BrdspiRd
  BY <1>6, TypeTake DEF BrdspiRd, TakeRequest
<1>7. CASE OtherRequest
  BY <1>7, TypeTake DEF OtherRequest, TakeRequest
<1>8. CASE WriteAnswer
  <2>1. f2h' \in Seq(Numbers)
    BY <1>8 DEF WriteAnswer
  <2> QED
    BY <1>8, <2>1 DEF WriteAnswer
<1> QED
  BY <1>1, <1>2, <1>3, <1>4, <1>5, <1>6, <1>7, <1>8 DEF Loop, Command

LEMMA TypeNext == TypeOK /\ [Next]_vars => TypeOK'
<1>1. TypeOK /\ UNCHANGED vars => TypeOK'
  BY DEF TypeOK, vars, host, fifos, samples, plls
<1> QED
  BY <1>1, TypeHost, TypeLoop DEF Next

\* Every variable stays in its range.
THEOREM TypeCorrect == Spec => []TypeOK
  BY TypeInit, TypeNext, PTL DEF Spec

-----------------------------------------------------------------------------
(* The way of a request.                                                   *)

LEMMA OneRequestInit == Init => OneRequest
  BY DEF Init, OneRequest

LEMMA OneRequestHost == ASSUME TypeOK, OneRequest, Host PROVE OneRequest'
<1> USE Constants DEF OneRequest, fifos
<1>1. CASE Open
  BY <1>1 DEF Open
<1>2. CASE SendRequest
  <2>1. h2f = <<>> /\ f2h = <<>> /\ pc # "answer" /\ nr \in Numbers
    BY <1>2 DEF SendRequest, TypeOK
  <2>2. h2f' = <<nr>> /\ waiting' = nr /\ UNCHANGED <<opened, f2h, pc, rx>>
    BY <1>2, <2>1 DEF SendRequest
  <2> QED
    BY <1>2, <2>1, <2>2 DEF SendRequest
<1>3. CASE ReadAnswer
  <2>1. h2f = <<>> /\ f2h = <<waiting>> /\ ~ (pc = "answer" /\ opened)
    BY <1>3 DEF ReadAnswer
  <2>2. f2h' = <<>>
    BY <1>3, <2>1 DEF ReadAnswer
  <2> QED
    BY <1>3, <2>1, <2>2 DEF ReadAnswer
<1>4. CASE Close
  BY <1>4 DEF Close
<1> QED
  BY <1>1, <1>2, <1>3, <1>4 DEF Host

\* The request that the loop takes is the one the host waits for.
LEMMA OneRequestTake == ASSUME TypeOK, OneRequest, TakeRequest PROVE OneRequest'
<1>1. waiting # None /\ h2f = <<waiting>> /\ f2h = <<>> /\ opened /\ pc = "command"
  BY DEF OneRequest, TakeRequest
<1>2. rx' = waiting /\ h2f' = <<>> /\ UNCHANGED <<opened, waiting, f2h>> /\ pc' = "answer"
  BY <1>1 DEF TakeRequest
<1> QED
  BY <1>1, <1>2 DEF OneRequest

LEMMA OneRequestLoop == ASSUME TypeOK, OneRequest, Loop PROVE OneRequest'
<1> USE DEF fifos, host
<1>1. CASE ServeConfiguration \/ ServeReset \/ SampleStarts \/ NoRequest
  BY <1>1 DEF OneRequest, ServeConfiguration, ServeReset, SampleStarts, NoRequest
<1>2. CASE BrdspiWr \/ BrdspiRd \/ OtherRequest
  BY <1>2, OneRequestTake DEF BrdspiWr, BrdspiRd, OtherRequest
<1>3. CASE WriteAnswer
  <2>1. CASE opened
    <3>1. waiting = rx /\ rx # None /\ h2f = <<>> /\ f2h = <<>>
      BY <1>3, <2>1, Constants DEF OneRequest, WriteAnswer, TypeOK
    <3>2. f2h' = <<rx>>
      BY <1>3, <2>1, <3>1 DEF WriteAnswer
    <3> QED
      BY <1>3, <2>1, <3>1, <3>2 DEF OneRequest, WriteAnswer
  <2>2. CASE ~ opened
    BY <1>3, <2>2 DEF OneRequest, WriteAnswer
  <2> QED
    BY <2>1, <2>2
<1> QED
  BY <1>1, <1>2, <1>3 DEF Loop, Command

LEMMA OneRequestNext == TypeOK /\ OneRequest /\ [Next]_vars => OneRequest'
<1>1. OneRequest /\ UNCHANGED vars => OneRequest'
  BY DEF OneRequest, vars, host, fifos
<1> QED
  BY <1>1, OneRequestHost, OneRequestLoop DEF Next

\* A host that closes the streams before it gives up on an answer never takes an
\* answer for that of another request.
THEOREM AnswersMatch == Spec => []AnswersAreMine
<1>1. OneRequest => AnswersAreMine
  BY DEF OneRequest, AnswersAreMine
<1>2. Spec => []OneRequest
  BY OneRequestInit, OneRequestNext, TypeCorrect, PTL DEF Spec
<1> QED
  BY <1>1, <1>2, PTL

-----------------------------------------------------------------------------
(* The way of a configuration.                                             *)

Sampled == StartsSampled /\ SettingsKept

LEMMA SampledInit == Init => Sampled
<1> SUFFICES ASSUME Init PROVE Sampled
  OBVIOUS
<1>1. asked = None /\ reg.bits = NoStart /\ start = NoStart /\ old = NoStart /\ pc = "pllcfg"
  BY DEF Init
<1>2. ~ NoStart["pllcfg"]
  BY DEF NoStart, Starts
<1> QED
  BY <1>1, <1>2 DEF Sampled, StartsSampled, SettingsKept, Started

LEMMA SampledWrite == ASSUME TypeOK, Sampled, BrdspiWr PROVE Sampled'
<1>1. /\ pc = "command" /\ pc' = "answer" /\ UNCHANGED <<start, old>>
  BY DEF BrdspiWr, TakeRequest, samples
<1>2. PICK i \in Indices, s \in Settings, b \in Bits :
         /\ polled \/ (i = reg.ind /\ s = reg.set)
         /\ reg' = [ind |-> i, set |-> s, bits |-> b]
         /\ IF b["pllcfg"] /\ ~ reg.bits["pllcfg"]
              THEN asked' = [ind |-> i, set |-> s] /\ polled' = FALSE
              ELSE UNCHANGED <<asked, polled>>
  BY DEF BrdspiWr, Bits
<1>3. reg'.ind = i /\ reg'.set = s /\ reg'.bits = b
  BY <1>2
<1>4. /\ start["pllcfg"] <=> reg.bits["pllcfg"]
      /\ asked # None <=> Started("pllcfg")
      /\ Started("pllcfg") => start["pllcfg"]
      /\ Started("pllcfg")' <=> Started("pllcfg")
  BY <1>1 DEF Sampled, StartsSampled, Started
<1>5. CASE b["pllcfg"] /\ ~ reg.bits["pllcfg"]
  <2>1. asked' = [ind |-> i, set |-> s] /\ polled' = FALSE /\ asked' # None
    BY <1>2, <1>5, Constants
  <2>2. ~ start["pllcfg"] /\ ~ start'["pllcfg"] /\ reg'.bits["pllcfg"]
    BY <1>1, <1>3, <1>4, <1>5
  <2> QED
    BY <1>1, <1>3, <2>1, <2>2 DEF Sampled, StartsSampled, SettingsKept
<1>6. CASE ~ (b["pllcfg"] /\ ~ reg.bits["pllcfg"])
  <2>1. UNCHANGED <<asked, polled>>
    BY <1>2, <1>6
  <2>2. ~ (reg'.bits["pllcfg"] /\ ~ start'["pllcfg"])
    BY <1>1, <1>3, <1>4, <1>6
  <2>3. StartsSampled'
    BY <1>1, <1>4, <2>1, <2>2 DEF StartsSampled
  <2>4. SettingsKept'
    <3> SUFFICES ASSUME asked # None
                 PROVE  asked' = [ind |-> i, set |-> s] /\ Started("pllcfg")'
      BY <1>1, <1>3, <2>1 DEF SettingsKept
    <3>1. ~ polled
      BY <1>1 DEF Sampled, SettingsKept
    <3>2. i = reg.ind /\ s = reg.set
      BY <1>2, <3>1
    <3> QED
      BY <1>4, <2>1, <3>2 DEF Sampled, SettingsKept
  <2> QED
    BY <2>3, <2>4 DEF Sampled
<1> QED
  BY <1>5, <1>6

LEMMA SampledLoop == ASSUME TypeOK, Sampled, Loop PROVE Sampled'
<1> USE DEF Sampled, StartsSampled, SettingsKept, Started, host, fifos, samples, plls
<1>1. CASE ServeConfiguration
  BY <1>1 DEF ServeConfiguration
<1>2. CASE ServeReset
  BY <1>2 DEF ServeReset
<1>3. CASE SampleStarts
  BY <1>3 DEF SampleStarts
<1>4. CASE NoRequest
  BY <1>4 DEF NoRequest
<1>5. CASE BrdspiWr
  BY <1>5, SampledWrite
<1>6. CASE BrdspiRd \/ OtherRequest
  BY <1>6 DEF BrdspiRd, OtherRequest, TakeRequest
<1>7. CASE WriteAnswer
  BY <1>7 DEF WriteAnswer
<1> QED
  BY <1>1, <1>2, <1>3, <1>4, <1>5, <1>6, <1>7 DEF Loop, Command

LEMMA SampledNext == TypeOK /\ Sampled /\ [Next]_vars => Sampled'
<1>1. Sampled /\ (Host \/ UNCHANGED vars) => Sampled'
  BY DEF Sampled, StartsSampled, SettingsKept, Started, vars, host, fifos, samples, plls,
         Host, Open, SendRequest, ReadAnswer, Close
<1> QED
  BY <1>1, SampledLoop DEF Next

\* What is true between any two steps of the loop and the host (InStep).
THEOREM StaysInStep == Spec => []InStep
<1>1. Init => OneRequest /\ Sampled
  BY OneRequestInit, SampledInit
<1>2. TypeOK /\ OneRequest /\ Sampled /\ [Next]_vars => OneRequest' /\ Sampled'
  BY OneRequestNext, SampledNext
<1>3. OneRequest /\ Sampled => InStep
  BY DEF Sampled, InStep
<1> QED
  BY <1>1, <1>2, <1>3, TypeCorrect, PTL DEF Spec

\* The two parts of ConfiguredAsAsked.
OnlyTheChosen ==
  \A p \in Plls : pll'[p].set # pll[p].set =>
       asked # None /\ p = GetPLLCFG_Base(asked.ind)
LoadedAndLocked ==
  asked # None /\ asked' = None /\ asked.ind \in Plls /\ status' = NoErr =>
      pll'[asked.ind] = [set |-> asked.set, locked |-> asked.set]

\* A reset leaves the settings that are loaded.
LEMMA ResetKeepsSettings ==
    ASSUME TypeOK, NEW q \in Loaded, NEW p \in Plls
    PROVE  ResetPLL(q)[p].set = q[p].set
<1>1. q[p] \in [set : Settings, locked : Settings]
  BY DEF Loaded
<1> QED
  BY <1>1 DEF ResetPLL, Loaded

\* The configuration that the loop makes is the one that was asked for.
LEMMA ConfigurationAsAsked ==
    ASSUME TypeOK, Sampled, ServeConfiguration, Started("pllcfg")
    PROVE  OnlyTheChosen /\ LoadedAndLocked
<1> DEFINE base == GetPLLCFG_Base(reg.ind)
           loaded == [pll EXCEPT ![base].set = reg.set]
<1>1. asked # None /\ asked.ind = reg.ind /\ asked.set = reg.set
  BY DEF Sampled, StartsSampled, SettingsKept, ServeConfiguration
<1>2. UpdatePLLCFG
  BY DEF ServeConfiguration
<1>3. /\ pll \in Loaded /\ reg.ind \in Indices /\ reg.set \in Settings /\ base \in Plls
  BY Base DEF TypeOK, Loaded
<1>4. loaded \in Loaded
  BY <1>3 DEF Loaded
<1>5. \A p \in Plls : p # base => loaded[p] = pll[p]
  BY <1>3 DEF Loaded
<1>6. CASE pll' = ResetPLL(loaded)
  <2>1. OnlyTheChosen
    BY <1>1, <1>4, <1>5, <1>6, ResetKeepsSettings DEF OnlyTheChosen
  <2>2. ASSUME reg.ind \in Plls
        PROVE  pll'[reg.ind] = [set |-> reg.set, locked |-> reg.set]
    <3>1. base = reg.ind
      BY <2>2 DEF GetPLLCFG_Base
    <3>2. pll[reg.ind] \in [set : Settings, locked : Settings]
      BY <1>3, <2>2 DEF Loaded
    <3>3. loaded[reg.ind].set = reg.set
      BY <1>3, <2>2, <3>1, <3>2 DEF Loaded
    <3>4. pll' = [loaded EXCEPT ![reg.ind].locked = reg.set]
      BY <1>6, <2>2, <3>3 DEF ResetPLL
    <3>5. loaded[reg.ind] \in [set : Settings, locked : Settings]
      BY <1>4, <2>2 DEF Loaded
    <3>6. pll'[reg.ind] = [loaded[reg.ind] EXCEPT !.locked = reg.set]
      BY <1>4, <2>2, <3>4 DEF Loaded
    <3> QED
      BY <3>3, <3>5, <3>6
  <2> QED
    BY <1>1, <2>1, <2>2 DEF LoadedAndLocked
<1>7. CASE status' = CxTimeout /\ pll' = ResetPLL(pll)
  <2>1. status' # NoErr
    BY <1>7 DEF CxTimeout, NoErr
  <2> QED
    BY <1>3, <1>7, <2>1, ResetKeepsSettings DEF OnlyTheChosen, LoadedAndLocked
<1> QED
  BY <1>2, <1>6, <1>7 DEF UpdatePLLCFG

\* No other step makes or touches one.
LEMMA OthersConfigureNothing ==
    ASSUME TypeOK, Sampled, [Next]_vars, ~ (ServeConfiguration /\ Started("pllcfg"))
    PROVE  OnlyTheChosen /\ LoadedAndLocked
<1> USE DEF OnlyTheChosen, LoadedAndLocked, host, fifos, samples, plls
<1>1. CASE Host \/ UNCHANGED vars
  BY <1>1 DEF Host, Open, SendRequest, ReadAnswer, Close, vars
<1>2. CASE ServeConfiguration \/ SampleStarts \/ NoRequest \/ WriteAnswer
  BY <1>2 DEF ServeConfiguration, SampleStarts, NoRequest, WriteAnswer
<1>3. CASE ServeReset
  <2>1. pll \in Loaded /\ asked' = asked
    BY <1>3 DEF TypeOK, Loaded, ServeReset
  <2> QED
    BY <1>3, <2>1, ResetKeepsSettings DEF ServeReset
<1>4. CASE BrdspiWr
  <2>1. pll' = pll
    BY <1>4 DEF BrdspiWr, TakeRequest
  <2>2. asked' = asked \/ asked' # None
    BY <1>4, Constants DEF BrdspiWr
  <2> QED
    BY <2>1, <2>2
<1>5. CASE BrdspiRd \/ OtherRequest
  BY <1>5 DEF BrdspiRd, OtherRequest, TakeRequest
<1> QED
  BY <1>1, <1>2, <1>3, <1>4, <1>5 DEF Next, Loop, Command

\* What the host asked for is what is made, and nothing else is, though the loop
\* reads the registers a whole round after it has seen the start.
THEOREM ConfigurationsAreAsked == Spec => ConfiguredAsAsked
<1>1. TypeOK /\ InStep /\ [Next]_vars => OnlyTheChosen /\ LoadedAndLocked
  BY ConfigurationAsAsked, OthersConfigureNothing DEF InStep, Sampled
<1>2. OnlyTheChosen /\ LoadedAndLocked =>
        [/\ \A p \in Plls : pll'[p].set # pll[p].set =>
                asked # None /\ p = GetPLLCFG_Base(asked.ind)
         /\ asked # None /\ asked' = None /\ asked.ind \in Plls /\ status' = NoErr =>
                pll'[asked.ind] = [set |-> asked.set, locked |-> asked.set]]_vars
  BY DEF OnlyTheChosen, LoadedAndLocked
<1> QED
  BY <1>1, <1>2, TypeCorrect, StaysInStep, PTL DEF Spec, ConfiguredAsAsked

\* The second look at the status is at that of the host's own configuration.
THEOREM SecondLooksAreTrue == Spec => SecondLookIsTrue
<1>1. InStep /\ [Next]_vars => [BrdspiRd /\ polled => asked = None]_vars
  BY DEF InStep, SettingsKept, BrdspiRd, TakeRequest
<1> QED
  BY <1>1, StaysInStep, PTL DEF Spec, SecondLookIsTrue

=============================================================================
