-------------------------- MODULE LossFlag_proofs --------------------------
(***************************************************************************)
(* Proofs about the loss flag, for packets of any length and clocks of any *)
(* ratio that LossFlagAssumption allows.                                   *)
(***************************************************************************)
EXTENDS LossFlag, TLAPS

IInv == TypeOK /\ InStep

\* The constants, with what the assumption says of them.
LEMMA Constants ==
    /\ FORMING \in Nat /\ APART \in Nat /\ RX_PER_TX \in Nat /\ TX_PER_RX \in Nat
    /\ RX_PER_TX > 0 /\ FORMING > RX_PER_TX /\ APART > RX_PER_TX + 1
    /\ FORMING + APART > 3 * RX_PER_TX
  BY LossFlagAssumption

\* The ranges that the steps below rely on.
LEMMA Types ==
    ASSUME TypeOK
    PROVE  /\ edges \in Nat /\ rx_since \in Nat /\ rx_since <= RX_PER_TX
           /\ tx_since \in Nat /\ Age \in Nat
           /\ clr_sync[1] \in BOOLEAN /\ clr_sync[2] \in BOOLEAN
           /\ loss_sync[1] \in BOOLEAN /\ loss_sync[2] \in BOOLEAN
           /\ clr_flag \in BOOLEAN /\ clr_flag_reg \in BOOLEAN
           /\ loss_flg \in BOOLEAN /\ clr_sync_reg \in BOOLEAN
           /\ forming \in BOOLEAN /\ hdr_captured \in BOOLEAN
           /\ pending \in BOOLEAN /\ taken \in BOOLEAN /\ raced \in BOOLEAN
           /\ skipped \in BOOLEAN
  BY Constants DEF TypeOK, Age

LEMMA PairType ==
    ASSUME NEW a \in BOOLEAN, NEW b \in BOOLEAN
    PROVE  <<a, b>> \in [1..2 -> BOOLEAN]
  OBVIOUS

LEMMA InitIInv == Init => IInv
<1> SUFFICES ASSUME Init PROVE IInv
  OBVIOUS
<1>1. <<FALSE, FALSE>> \in [1..2 -> BOOLEAN]
  BY PairType
<1>2. TypeOK
  <2>1. /\ clr_sync \in [1..2 -> BOOLEAN] /\ loss_sync \in [1..2 -> BOOLEAN]
        /\ edges \in 0..(FORMING + APART)
        /\ rx_since \in 0..RX_PER_TX /\ tx_since \in 0..TX_PER_RX
    BY <1>1, Constants DEF Init
  <2>2. {clr_flag, clr_flag_reg, loss_flg, clr_sync_reg, forming, hdr_captured,
         pending, taken, raced, skipped} \subseteq BOOLEAN
    BY DEF Init
  <2> QED
    BY <2>1, <2>2 DEF TypeOK
<1>3. ~clr_sync[1] /\ ~clr_sync[2] /\ ~loss_sync[1] /\ ~loss_sync[2]
  BY DEF Init
<1>4. InStep
  BY <1>3 DEF Init, InStep, OneSignal, NoSignal, EndSeen, FlagInStep, LossKept,
              RisesAtCapture, RisesAtSync, RisesInSync, Lowered
<1> QED
  BY <1>2, <1>4 DEF IInv

-----------------------------------------------------------------------------
(* An edge of the TX clock moves the signal by one register.               *)

LEMMA TxType ==
    ASSUME TypeOK, NEW clears \in BOOLEAN, TxEdge(clears)
    PROVE  TypeOK'
<1> USE Constants, Types
<1>1. clr_sync' \in [1..2 -> BOOLEAN] /\ loss_sync' \in [1..2 -> BOOLEAN]
  BY DEF TypeOK, TxEdge, rxSide
<1>2. /\ rx_since' \in 0..RX_PER_TX /\ tx_since' \in 0..TX_PER_RX
      /\ edges' \in 0..(FORMING + APART)
  BY DEF TypeOK, TxEdge, rxSide
<1>3. /\ clr_flag' \in BOOLEAN /\ clr_flag_reg' \in BOOLEAN
      /\ loss_flg' \in BOOLEAN /\ clr_sync_reg' \in BOOLEAN
      /\ forming' \in BOOLEAN /\ hdr_captured' \in BOOLEAN
  BY DEF TxEdge, NextFlag, Lost, Lowered, rxSide
<1>4. /\ pending' \in BOOLEAN /\ taken' \in BOOLEAN /\ raced' \in BOOLEAN
      /\ skipped' \in BOOLEAN
  BY DEF TxEdge, Lost, Lowered
<1> QED
  BY <1>1, <1>2, <1>3, <1>4 DEF TypeOK

LEMMA TxSignal ==
    ASSUME IInv, NEW clears \in BOOLEAN, TxEdge(clears)
    PROVE  OneSignal' /\ EndSeen'
<1>1. /\ clr_sync'[1] = hdr_captured /\ clr_sync'[2] = clr_sync[1]
      /\ clr_sync_reg' = clr_sync[2] /\ (taken' <=> taken /\ ~Lowered)
      /\ forming' = forming /\ hdr_captured' = hdr_captured /\ edges' = edges
      /\ rx_since' = 0 /\ Age' = Age
  BY DEF TxEdge, rxSide, Age
<1>2. rx_since <= RX_PER_TX /\ rx_since \in Nat /\ Age \in Nat /\ edges \in Nat
  BY Types DEF IInv
<1>3. OneSignal
  BY DEF IInv, InStep
<1>4. OneSignal'
  <2> USE <1>1 DEF RisesAtCapture, RisesAtSync, RisesInSync, Lowered
  <2>1. CASE NoSignal
    <3> NoSignal'
      BY <2>1 DEF NoSignal
    <3> QED
      BY DEF OneSignal
  <2>2. CASE SignalAtCapture
    <3> SignalAtCapture'
      BY <2>2 DEF SignalAtCapture
    <3> QED
      BY DEF OneSignal
  <2>3. CASE SignalAtSync
    <3>1. Age' <= RX_PER_TX + rx_since'
      BY <1>2, <2>3, Constants DEF SignalAtSync
    <3>2. SignalInSync'
      BY <2>3, <3>1 DEF SignalAtSync, SignalInSync
    <3> QED
      BY <3>2 DEF OneSignal
  <2>4. CASE SignalInSync
    <3>1. Age' <= 2 * RX_PER_TX + rx_since'
      BY <1>2, <2>4, Constants DEF SignalInSync
    <3>2. SignalAtFlag'
      BY <2>4, <3>1 DEF SignalInSync, SignalAtFlag
    <3> QED
      BY <3>2 DEF OneSignal
  <2>5. CASE SignalAtFlag
    <3> NoSignal'
      BY <2>5 DEF SignalAtFlag, NoSignal
    <3> QED
      BY DEF OneSignal
  <2> QED
    BY <1>3, <2>1, <2>2, <2>3, <2>4, <2>5 DEF OneSignal
<1>5. EndSeen'
  BY <1>1 DEF IInv, InStep, EndSeen
<1> QED
  BY <1>4, <1>5

LEMMA TxFlag ==
    ASSUME IInv, NEW clears \in BOOLEAN, TxEdge(clears)
    PROVE  FlagInStep' /\ LossKept'
<1>1. /\ loss_flg' = NextFlag /\ loss_sync' = loss_sync /\ Age' = Age
      /\ pending' = (pending \/ Lost) /\ taken' = (taken /\ ~Lowered)
      /\ raced' = IF Lost THEN taken /\ ~Lowered ELSE raced
      /\ skipped' = (skipped /\ ~Lost)
  BY DEF TxEdge, rxSide, Age
<1>2. Lowered => taken /\ Age <= 3 * RX_PER_TX
  <2>1. rx_since <= RX_PER_TX /\ rx_since \in Nat /\ Age \in Nat
    BY Types DEF IInv
  <2> QED
    BY <2>1, Constants DEF IInv, InStep, OneSignal, NoSignal, SignalAtCapture,
      SignalAtSync, SignalInSync, SignalAtFlag
<1>3. FlagInStep /\ LossKept /\ Age \in Nat
  BY Types DEF IInv, InStep
<1>4. taken' /\ pending' => raced' \/ skipped'
  BY <1>1, <1>3 DEF FlagInStep
<1>5. ASSUME ~pending', ~taken'
      PROVE  /\ ~loss_flg'
             /\ loss_sync'[1] => Age' <= 3 * RX_PER_TX
             /\ loss_sync'[2] => Age' <= 3 * RX_PER_TX + 1
  <2>1. CASE taken
    <3>1. Lowered /\ ~Lost
      BY <1>1, <1>5, <2>1
    <3> QED
      BY <1>1, <1>2, <1>3, <3>1, Constants DEF NextFlag
  <2>2. CASE ~taken
    BY <1>1, <1>2, <1>3, <1>5, <2>2 DEF FlagInStep, NextFlag
  <2> QED
    BY <2>1, <2>2
<1>6. LossKept'
  BY <1>1, <1>2, <1>3 DEF FlagInStep, LossKept, NextFlag
<1> QED
  BY <1>4, <1>5, <1>6 DEF FlagInStep

-----------------------------------------------------------------------------
(* An edge of the RX clock: a header is taken, a packet ends, or neither.  *)

LEMMA RxType ==
    ASSUME TypeOK, RxEdge
    PROVE  TypeOK'
<1> USE Constants, Types
<1>1. /\ rx_since' \in 0..RX_PER_TX /\ tx_since' \in 0..TX_PER_RX
      /\ loss_sync' \in [1..2 -> BOOLEAN] /\ clr_sync' \in [1..2 -> BOOLEAN]
      /\ clr_flag' \in BOOLEAN /\ clr_flag_reg' \in BOOLEAN
      /\ loss_flg' \in BOOLEAN /\ clr_sync_reg' \in BOOLEAN /\ hdr_captured' \in BOOLEAN
  BY DEF RxEdge, TypeOK, txSide
<1>2. edges' \in 0..(FORMING + APART)
  BY DEF RxEdge, HeaderTaken, TellsHost, PacketEnds, PacketGoesOn, Saturated, TypeOK
<1>3. /\ forming' \in BOOLEAN /\ pending' \in BOOLEAN /\ taken' \in BOOLEAN
      /\ raced' \in BOOLEAN /\ skipped' \in BOOLEAN
  BY DEF RxEdge, HeaderTaken, TellsHost, PacketEnds, PacketGoesOn, aux
<1> QED
  BY <1>1, <1>2, <1>3 DEF TypeOK

\* When a header is taken the signal of the one before has come and gone, and the
\* RX side has seen that the flag went down if nothing was lost since.
LEMMA HeadersFarApart ==
    ASSUME IInv, NEW written \in BOOLEAN, HeaderTaken(written)
    PROVE  /\ ~taken /\ ~hdr_captured /\ ~clr_sync[1]
           /\ loss_sync[2] => pending
<1>1. /\ rx_since <= RX_PER_TX /\ rx_since \in Nat /\ edges \in Nat
      /\ ~forming /\ edges >= APART /\ Age = FORMING + 1 + edges
  BY Types DEF IInv, HeaderTaken, TellsHost, Age
<1>2. ~taken
  BY <1>1, Constants
  DEF IInv, InStep, OneSignal, NoSignal, SignalAtCapture, SignalAtSync, SignalInSync,
      SignalAtFlag, RisesAtCapture
<1>3. ~hdr_captured /\ ~clr_sync[1]
  BY <1>1, Constants DEF IInv, InStep, EndSeen
<1>4. loss_sync[2] => pending
  BY <1>1, <1>2, Constants DEF IInv, InStep, FlagInStep
<1> QED
  BY <1>2, <1>3, <1>4

LEMMA RxSignal ==
    ASSUME IInv, RxEdge
    PROVE  OneSignal' /\ EndSeen'
<1>1. /\ rx_since' = rx_since + 1 /\ hdr_captured' = forming
      /\ clr_sync' = clr_sync /\ clr_sync_reg' = clr_sync_reg
  BY DEF RxEdge, txSide
<1>2. rx_since <= RX_PER_TX /\ rx_since \in Nat /\ Age \in Nat /\ edges \in Nat
  BY Types DEF IInv
<1>3. OneSignal /\ EndSeen
  BY DEF IInv, InStep
<1> USE <1>1 DEF RisesAtCapture, RisesAtSync, RisesInSync, Lowered
<1>4. ASSUME NEW written \in BOOLEAN, HeaderTaken(written) PROVE OneSignal' /\ EndSeen'
  <2>1. /\ ~taken /\ ~hdr_captured /\ ~clr_sync[1]
        /\ taken' /\ ~forming /\ forming' /\ edges' = 0
    BY <1>4, HeadersFarApart DEF HeaderTaken, TellsHost
  <2>2. NoSignal
    BY <1>3, <2>1 DEF OneSignal, SignalAtCapture, SignalAtSync, SignalInSync, SignalAtFlag
  <2>3. SignalAtCapture'
    BY <2>1, <2>2 DEF NoSignal, SignalAtCapture
  <2> QED
    BY <2>1, <2>3 DEF OneSignal, EndSeen
<1>5. CASE PacketEnds
  <2>1. /\ taken' = taken /\ forming /\ ~forming' /\ edges >= FORMING /\ edges' = 0
        /\ Age' = FORMING + 1 /\ Age = edges
    BY <1>5, Constants DEF PacketEnds, aux, Age
  <2>2. OneSignal'
    <3>1. ~SignalAtCapture /\ ~SignalAtSync
      BY <1>2, <2>1, Constants DEF SignalAtCapture, SignalAtSync
    <3>2. CASE NoSignal
      <4> NoSignal'
        BY <2>1, <3>2 DEF NoSignal
      <4> QED
        BY DEF OneSignal
    <3>3. CASE SignalInSync
      <4> SignalInSync'
        BY <1>2, <2>1, <3>3, Constants DEF SignalInSync
      <4> QED
        BY DEF OneSignal
    <3>4. CASE SignalAtFlag
      <4> SignalAtFlag'
        BY <1>2, <2>1, <3>4, Constants DEF SignalAtFlag
      <4> QED
        BY DEF OneSignal
    <3> QED
      BY <1>3, <3>1, <3>2, <3>3, <3>4 DEF OneSignal
  <2>3. EndSeen'
    BY <1>1, <2>1 DEF EndSeen
  <2> QED
    BY <2>2, <2>3
<1>6. CASE PacketGoesOn
  <2>1. /\ taken' = taken /\ forming' = forming /\ edges' <= edges + 1 /\ edges' \in Nat
        /\ Age' <= Age + 1 /\ Age' \in Nat
    BY <1>2, <1>6, Constants DEF PacketGoesOn, Saturated, aux, Age
  <2>2. OneSignal'
    <3>1. CASE NoSignal
      <4> NoSignal'
        BY <2>1, <3>1 DEF NoSignal
      <4> QED
        BY DEF OneSignal
    <3>2. CASE SignalAtCapture
      <4>1. Age' <= 1
        BY <1>2, <2>1, <3>2 DEF SignalAtCapture, Age
      <4>2. SignalAtSync'
        BY <1>2, <2>1, <3>2, <4>1 DEF SignalAtCapture, SignalAtSync
      <4> QED
        BY <4>2 DEF OneSignal
    <3>3. CASE SignalAtSync
      <4> SignalAtSync'
        BY <1>2, <2>1, <3>3 DEF SignalAtSync
      <4> QED
        BY DEF OneSignal
    <3>4. CASE SignalInSync
      <4> SignalInSync'
        BY <1>2, <2>1, <3>4, Constants DEF SignalInSync
      <4> QED
        BY DEF OneSignal
    <3>5. CASE SignalAtFlag
      <4> SignalAtFlag'
        BY <1>2, <2>1, <3>5, Constants DEF SignalAtFlag
      <4> QED
        BY DEF OneSignal
    <3> QED
      BY <1>3, <3>1, <3>2, <3>3, <3>4, <3>5 DEF OneSignal
  <2>3. EndSeen'
    BY <1>1, <1>2, <1>3, <2>1 DEF EndSeen
  <2> QED
    BY <2>2, <2>3
<1> QED
  BY <1>4, <1>5, <1>6 DEF RxEdge

LEMMA RxFlag ==
    ASSUME IInv, RxEdge
    PROVE  FlagInStep' /\ LossKept'
<1>1. loss_sync'[1] = loss_flg /\ loss_sync'[2] = loss_sync[1] /\ loss_flg' = loss_flg
  BY DEF RxEdge, txSide
<1>2. FlagInStep /\ LossKept /\ Age \in Nat /\ edges \in Nat
  BY Types DEF IInv, InStep
<1>3. ASSUME NEW written \in BOOLEAN, HeaderTaken(written) PROVE FlagInStep' /\ LossKept'
  BY <1>1, <1>2, <1>3 DEF HeaderTaken, TellsHost, FlagInStep, LossKept
<1>4. CASE PacketEnds \/ PacketGoesOn
  <2>1. /\ taken' = taken /\ pending' = pending /\ raced' = raced /\ skipped' = skipped
        /\ Age' <= Age + 1 /\ Age' \in Nat
    BY <1>2, <1>4, Constants DEF PacketEnds, PacketGoesOn, Saturated, aux, Age
  <2> QED
    BY <1>1, <1>2, <2>1, Constants DEF FlagInStep, LossKept
<1> QED
  BY <1>3, <1>4 DEF RxEdge

-----------------------------------------------------------------------------
LEMMA NextIInv == IInv /\ [Next]_vars => IInv'
<1> SUFFICES ASSUME IInv, [Next]_vars PROVE IInv'
  OBVIOUS
<1>1. ASSUME NEW clears \in BOOLEAN, TxEdge(clears) PROVE IInv'
  BY <1>1, TxType, TxSignal, TxFlag DEF IInv, InStep
<1>2. CASE RxEdge
  BY <1>2, RxType, RxSignal, RxFlag DEF IInv, InStep
<1>3. CASE UNCHANGED vars
  BY <1>3
  DEF vars, txSide, rxSide, aux, IInv, TypeOK, InStep, OneSignal, NoSignal,
      SignalAtCapture, SignalAtSync, SignalInSync, SignalAtFlag, EndSeen, FlagInStep,
      LossKept, RisesAtCapture, RisesAtSync, RisesInSync, Lowered, Age
<1> QED
  BY <1>1, <1>2, <1>3 DEF Next

\* The signal that a header was taken is on its way at most once, and its place
\* in the registers bounds its age, at every edge of either clock.
THEOREM Invariant == Spec => []IInv
<1>1. Init => IInv
  BY InitIInv
<1>2. IInv /\ [Next]_vars => IInv'
  BY NextIInv
<1> QED
  BY <1>1, <1>2, PTL DEF Spec

\* tx_path_top does not lower the flag before a header has told the host of the
\* loss, except for a loss that falls between a header and its signal and for one
\* that the header of a packet not written has taken.
THEOREM LossIsKept == Spec => []LossKept
<1>1. IInv => LossKept
  BY DEF IInv, InStep
<1> QED
  BY <1>1, Invariant, PTL

\* No two headers tell the host of the same loss, whatever the ratio of the
\* clocks, provided that headers are more than three periods of the TX clock
\* apart.
THEOREM LossesToldOnce == Spec => EachLossToldOnce
<1>1. IInv /\ [Next]_vars => [HeaderTaken(TRUE) /\ loss_sync[2] => pending]_vars
  BY HeadersFarApart
<1> QED
  BY <1>1, Invariant, PTL DEF Spec, EachLossToldOnce

=============================================================================
