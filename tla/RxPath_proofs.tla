---------------------------- MODULE RxPath_proofs ----------------------------
(***************************************************************************)
(* That the RX path keeps in step: invariant IInv, inductive for every     *)
(* choice of the constants; then that the numbers in its headers are right.*)
(***************************************************************************)
EXTENDS RxPath, SequenceTheorems, TLAPS

IInv == TypeOK /\ InStep

-----------------------------------------------------------------------------
(* The sizes that a sample width stands for. *)

LEMMA Sizes ==
    ASSUME NEW width \in WIDTHS
    PROVE  /\ width \in {12, 14, 16} /\ GROUPS[width] \in Nat
           /\ ReadWordsOf(width) \in Nat /\ PctWordsOf(width) \in Nat
           /\ StagesOf(width) \in Nat /\ StagesOf(width) >= 1
           /\ ReadWordsOf(width) >= StagesOf(width) + 4
           /\ PctWordsOf(width) >= 7 /\ PctWordsOf(width) < PCT_BUFF_WORDS
           /\ ReadWordsOf(width) < SMPL_BUFF_WORDS
           /\ PCT_BUFF_WORDS \in Nat /\ SMPL_BUFF_WORDS \in Nat
           /\ \/ GroupOf(width) = 1 /\ PackedOf(width) = 1 /\ StagesOf(width) = 1
              \/ GroupOf(width) = 4 /\ PackedOf(width) = 3 /\ StagesOf(width) = 4
              \/ GroupOf(width) = 8 /\ PackedOf(width) = 7 /\ StagesOf(width) = 6
           /\ ReadWordsOf(width) = GROUPS[width] * GroupOf(width)
           /\ PctWordsOf(width) = GROUPS[width] * PackedOf(width) + 2
<1>1. width \in {12, 14, 16} /\ GROUPS[width] \in Nat
  BY Data2PacketsAssumption
<1>2. /\ ReadWordsOf(width) >= StagesOf(width) + 4
      /\ PctWordsOf(width) < PCT_BUFF_WORDS
      /\ ReadWordsOf(width) < SMPL_BUFF_WORDS
      /\ PCT_BUFF_WORDS \in Nat /\ SMPL_BUFF_WORDS \in Nat
  BY Data2PacketsAssumption, RxPathAssumption
<1>3. \/ GroupOf(width) = 1 /\ PackedOf(width) = 1 /\ StagesOf(width) = 1
      \/ GroupOf(width) = 4 /\ PackedOf(width) = 3 /\ StagesOf(width) = 4
      \/ GroupOf(width) = 8 /\ PackedOf(width) = 7 /\ StagesOf(width) = 6
  BY <1>1 DEF GroupOf, PackedOf, StagesOf
<1> QED  BY <1>1, <1>2, <1>3 DEF ReadWordsOf, PctWordsOf

\* Words lost to a group of G when n words are packed: one of every group begun.
LEMMA Begun ==
    ASSUME NEW G \in {4, 8}, NEW n \in Nat, NEW g \in Nat, g >= 1
    PROVE  /\ (n + G - 1) \div G \in Nat /\ (n + G - 1) \div G <= n
           /\ n >= 2 => (n + G - 1) \div G < n
           /\ n <= g * G - 2 => n - (n + G - 1) \div G <= g * (G - 1) - 2
           /\ n = g * G - 1 => (n + G - 1) \div G = g /\ (n - 1) % G # 0
           /\ n = g * G => (n + G - 1) \div G = g /\ (n - 1) % G # 0
           /\ n >= 1 => (n + G - 1) \div G =
                  ((n - 1) + G - 1) \div G + (IF (n - 1) % G = 0 THEN 1 ELSE 0)
<1>1. CASE G = 4
  <2>1. /\ n + G - 1 = n + 3 /\ (n - 1) + G - 1 = n + 2
        /\ g * G = 4 * g /\ g * (G - 1) = 3 * g
    BY <1>1
  <2>2. /\ (n + 3) \div 4 \in Nat /\ (n + 3) \div 4 <= n
        /\ n >= 2 => (n + 3) \div 4 < n
        /\ n <= 4 * g - 2 => n - (n + 3) \div 4 <= 3 * g - 2
    OBVIOUS
  <2>3. /\ n = 4 * g - 1 => (n + 3) \div 4 = g /\ (n - 1) % 4 # 0
        /\ n = 4 * g => (n + 3) \div 4 = g /\ (n - 1) % 4 # 0
    OBVIOUS
  <2>4. n >= 1 => (n + 3) \div 4 = (n + 2) \div 4 + (IF (n - 1) % 4 = 0 THEN 1 ELSE 0)
    OBVIOUS
  <2> QED  BY <1>1, <2>1, <2>2, <2>3, <2>4
<1>2. CASE G = 8
  <2>1. /\ n + G - 1 = n + 7 /\ (n - 1) + G - 1 = n + 6
        /\ g * G = 8 * g /\ g * (G - 1) = 7 * g
    BY <1>2
  <2>2. /\ (n + 7) \div 8 \in Nat /\ (n + 7) \div 8 <= n
        /\ n >= 2 => (n + 7) \div 8 < n
        /\ n <= 8 * g - 2 => n - (n + 7) \div 8 <= 7 * g - 2
    OBVIOUS
  <2>3. /\ n = 8 * g - 1 => (n + 7) \div 8 = g /\ (n - 1) % 8 # 0
        /\ n = 8 * g => (n + 7) \div 8 = g /\ (n - 1) % 8 # 0
    OBVIOUS
  <2>4. n >= 1 => (n + 7) \div 8 = (n + 6) \div 8 + (IF (n - 1) % 8 = 0 THEN 1 ELSE 0)
    OBVIOUS
  <2> QED  BY <1>2, <2>1, <2>2, <2>3, <2>4
<1> QED  BY <1>1, <1>2

LEMMA FormedOf ==
    ASSUME NEW width \in WIDTHS, NEW n \in 0..ReadWordsOf(width)
    PROVE  /\ Formed(width, n) \in Nat
           /\ n = 0 => Formed(width, n) = 0
           /\ n >= 2 => Formed(width, n) >= 1
           /\ n <= ReadWordsOf(width) - 2 => Formed(width, n) <= PctWordsOf(width) - 4
           /\ n = ReadWordsOf(width) - 1 => Formed(width, n) = PctWordsOf(width) - 3
           /\ n = ReadWordsOf(width) => Formed(width, n) = PctWordsOf(width) - 2
           /\ n >= ReadWordsOf(width) - 1 => Completes(width, n)
           /\ n >= 1 => Formed(width, n) =
                            Formed(width, n - 1) + (IF Completes(width, n) THEN 1 ELSE 0)
<1> DEFINE g == GROUPS[width]
           G == GroupOf(width)
<1>1. /\ g \in Nat /\ ReadWordsOf(width) = g * G /\ PctWordsOf(width) = g * PackedOf(width) + 2
      /\ ReadWordsOf(width) \in Nat /\ PctWordsOf(width) \in Nat /\ ReadWordsOf(width) >= 5
      /\ n \in Nat
  BY Sizes
<1>2. CASE G = 1 /\ PackedOf(width) = 1
  BY <1>1, <1>2 DEF Formed, Completes
<1>3. CASE G \in {4, 8} /\ PackedOf(width) = G - 1
  <2>1. /\ \A m \in Nat : Formed(width, m) = m - (m + G - 1) \div G
        /\ Completes(width, n) <=> n >= 1 /\ (n - 1) % G # 0
    BY <1>1, <1>3 DEF Formed, Completes
  <2> HIDE DEF g, G
  <2>2. g >= 1
    BY <1>1, <1>3
  <2>3. g * (G - 1) = g * G - g /\ g * G \in Nat /\ g * (G - 1) \in Nat
    BY <1>1, <1>3
  <2>4. n = 0 \/ n - 1 \in Nat
    BY <1>1
  <2> DEFINE c == (n + G - 1) \div G
             before == ((n - 1) + G - 1) \div G
  <2>5. /\ c \in Nat /\ c <= n
        /\ n >= 2 => c < n
        /\ n <= g * G - 2 => n - c <= g * (G - 1) - 2
        /\ n = g * G - 1 => c = g /\ (n - 1) % G # 0
        /\ n = g * G => c = g /\ (n - 1) % G # 0
        /\ n >= 1 => c = before + (IF (n - 1) % G = 0 THEN 1 ELSE 0)
    BY SMTT(30), <1>1, <1>3, <2>2, Begun
  <2>6. Formed(width, n) = n - c
    BY <1>1, <2>1
  <2>7. n >= 1 => Formed(width, n - 1) = (n - 1) - before
    BY <2>1, <2>4
  <2>8. PctWordsOf(width) = g * (G - 1) + 2
    BY <1>1, <1>3
  <2> HIDE DEF c, before
  <2>9. /\ Formed(width, n) \in Nat
        /\ n = 0 => Formed(width, n) = 0
        /\ n >= 2 => Formed(width, n) >= 1
        /\ n <= ReadWordsOf(width) - 2 => Formed(width, n) <= PctWordsOf(width) - 4
    BY <1>1, <2>3, <2>5, <2>6, <2>8
  <2>10. /\ n = ReadWordsOf(width) - 1 => Formed(width, n) = PctWordsOf(width) - 3
         /\ n = ReadWordsOf(width) => Formed(width, n) = PctWordsOf(width) - 2
         /\ n >= ReadWordsOf(width) - 1 => Completes(width, n)
    BY <1>1, <2>1, <2>3, <2>5, <2>6, <2>8
  <2>11. n >= 1 => Formed(width, n) =
                      Formed(width, n - 1) + (IF Completes(width, n) THEN 1 ELSE 0)
    <3>1. n >= 1 => before \in Int
      <4>1. n >= 1 => before = c \/ before = c - 1
        BY <1>3, <2>2, <2>4, Begun, <2>5 DEF before
      <4> QED  BY <4>1, <2>5
    <3> QED  BY <1>1, <2>1, <2>5, <2>6, <2>7, <3>1
  <2> QED  BY <2>9, <2>10, <2>11
<1> QED  BY Sizes, <1>2, <1>3

\* How often the packet former has shifted, from one edge to the next.
LEMMA ShiftsOf ==
    ASSUME NEW width \in WIDTHS, NEW t \in Int
    PROVE  /\ Shifts(width, t) \in Nat
           /\ t <= StagesOf(width) + 1 => Shifts(width, t) = 0
           /\ t >= StagesOf(width) + 3 => Shifts(width, t) >= 1
           /\ t < LastArrives(width) => Shifts(width, t) <= PctWordsOf(width) - 4
           /\ t = LastArrives(width) => Shifts(width, t) = PctWordsOf(width) - 3
           /\ t = LastArrives(width) + 1 => Shifts(width, t) = PctWordsOf(width) - 2
           /\ t = LastArrives(width) + 2 => Shifts(width, t) = PctWordsOf(width) - 1
           /\ t > LastArrives(width) + 2 => Shifts(width, t) = PctWordsOf(width)
           /\ Shifts(width, t + 1) = Shifts(width, t)
                  + (IF \/ Completes(width, t - StagesOf(width))
                        \/ t \in {LastArrives(width) + 1, LastArrives(width) + 2}
                     THEN 1 ELSE 0)
<1> DEFINE r == ReadWordsOf(width)
           d == PctWordsOf(width)
           s == StagesOf(width)
           A(n) == Formed(width, PackedBy(width, n))
<1>1. /\ r \in Nat /\ d \in Nat /\ s \in Nat /\ r >= s + 4 /\ s >= 1 /\ d >= 7
      /\ LastArrives(width) = r + s
  BY Sizes DEF LastArrives
<1>2. ASSUME NEW n \in Int
      PROVE  /\ PackedBy(width, n) \in 0..r
             /\ n <= 0 => PackedBy(width, n) = 0
             /\ n \in 0..r => PackedBy(width, n) = n
             /\ n >= r => PackedBy(width, n) = r
  BY <1>1 DEF PackedBy
<1>3. ASSUME NEW n \in Int
      PROVE  /\ A(n) \in Nat
             /\ n <= 0 => A(n) = 0
             /\ n >= 2 => A(n) >= 1
             /\ n <= r - 2 => A(n) <= d - 4
             /\ n = r - 1 => A(n) = d - 3
             /\ n >= r => A(n) = d - 2
             /\ A(n) = A(n - 1) + (IF Completes(width, n) THEN 1 ELSE 0)
  <2>1. /\ A(n) \in Nat
        /\ n <= 0 => A(n) = 0
        /\ n >= 2 => A(n) >= 1
        /\ n <= r - 2 => A(n) <= d - 4
        /\ n = r - 1 => A(n) = d - 3
        /\ n >= r => A(n) = d - 2
    BY <1>1, <1>2, FormedOf
  <2>2. CASE n \in 1..r
    BY <2>2, <1>1, <1>2, FormedOf
  <2>3. CASE n \notin 1..r
    <3>1. ~Completes(width, n)
      BY <2>3 DEF Completes
    <3>2. PackedBy(width, n) = PackedBy(width, n - 1)
      BY <2>3, <1>1 DEF PackedBy
    <3> QED  BY <2>1, <3>1, <3>2
  <2> QED  BY <2>1, <2>2, <2>3
<1> DEFINE n == t - s - 1
           late == (IF t > r + s + 1 THEN 1 ELSE 0) + (IF t > r + s + 2 THEN 1 ELSE 0)
<1>4. /\ n \in Int /\ n + 1 = t - s /\ (t + 1) - s - 1 = n + 1 /\ (n + 1) - 1 = n
      /\ n + 1 \in Int /\ late \in Nat
  BY <1>1
<1>5. Shifts(width, t) = A(n) + late
  BY <1>1, <1>3, <1>4 DEF Shifts
<1>6. Shifts(width, t + 1) = A(n + 1) + (IF t > r + s THEN 1 ELSE 0)
                                      + (IF t > r + s + 1 THEN 1 ELSE 0)
  BY <1>1, <1>3, <1>4 DEF Shifts
<1>7. A(n + 1) = A(n) + (IF Completes(width, t - s) THEN 1 ELSE 0)
  <2> HIDE DEF A, n
  <2> QED  BY <1>3, <1>4
<1>8. Completes(width, t - s) => t <= r + s
  BY <1>1 DEF Completes
<1>9. /\ Shifts(width, t) \in Nat
      /\ t <= s + 1 => Shifts(width, t) = 0
      /\ t >= s + 3 => Shifts(width, t) >= 1
      /\ t < r + s => Shifts(width, t) <= d - 4
      /\ t = r + s => Shifts(width, t) = d - 3
      /\ t = r + s + 1 => Shifts(width, t) = d - 2
      /\ t = r + s + 2 => Shifts(width, t) = d - 1
      /\ t > r + s + 2 => Shifts(width, t) = d
  BY SMTT(30), <1>1, <1>3, <1>4, <1>5
<1>10. Shifts(width, t + 1) = Shifts(width, t)
           + (IF Completes(width, t - s) \/ t \in {r + s + 1, r + s + 2} THEN 1 ELSE 0)
  <2> HIDE DEF A, n
  <2> QED  BY <1>1, <1>3, <1>4, <1>5, <1>6, <1>7, <1>8
<1> QED  BY <1>1, <1>9, <1>10

\* A row of registers that takes in a word at its front.
LEMMA ShiftIn ==
    ASSUME NEW S, NEW n \in Nat \ {0}, NEW s \in [1..n -> S], NEW x \in S
    PROVE  /\ <<x>> \o SubSeq(s, 1, n - 1) \in [1..n -> S]
           /\ (<<x>> \o SubSeq(s, 1, n - 1))[1] = x
           /\ \A i \in 2..n : (<<x>> \o SubSeq(s, 1, n - 1))[i] = s[i - 1]
<1> DEFINE r == SubSeq(s, 1, n - 1)
<1>1. s \in Seq(S) /\ Len(s) = n
  OBVIOUS
<1>2. /\ r \in Seq(S) /\ Len(r) = n - 1
      /\ \A i \in 1..(n - 1) : r[i] = s[i]
  BY <1>1
<1>3. <<x>> \in Seq(S) /\ Len(<<x>>) = 1 /\ <<x>>[1] = x
  OBVIOUS
<1> HIDE DEF r
<1>4. /\ <<x>> \o r \in Seq(S) /\ Len(<<x>> \o r) = n
      /\ \A i \in 1..n : (<<x>> \o r)[i] = IF i = 1 THEN x ELSE r[i - 1]
  BY <1>2, <1>3
<1>5. <<x>> \o r \in [1..n -> S]
  BY <1>4, LenProperties
<1>6. \A i \in 2..n : (<<x>> \o r)[i] = s[i - 1]
  <2> TAKE i \in 2..n
  <2>1. i \in 1..n /\ i # 1 /\ i - 1 \in 1..(n - 1)
    OBVIOUS
  <2> QED  BY <2>1, <1>2, <1>4
<1> QED  BY <1>4, <1>5, <1>6 DEF r

-----------------------------------------------------------------------------
(* One edge, part by part. *)

LEMMA TypeFacts ==
    ASSUME TypeOK
    PROVE  /\ sample_width \in WIDTHS
           /\ 0 \in Numbers /\ NoWord \in Words /\ NUMBERS \in Nat /\ NUMBERS > 0
           /\ smpl_q \in Numbers /\ pack_reg \in Numbers
           /\ cnt_wr \in Numbers /\ cnt_rd \in Numbers
<1>1. sample_width \in WIDTHS
  BY DEF TypeOK
<1>2. NUMBERS \in Nat /\ NUMBERS > 0
  BY <1>1, Sizes, RxPathAssumption
<1>3. 0 \in Numbers
  BY <1>2 DEF Numbers
<1>4. NoWord \in Words
  BY <1>3 DEF NoWord, Words
<1> QED  BY <1>1, <1>2, <1>3, <1>4 DEF TypeOK

LEMMA WidthFacts ==
    ASSUME TypeOK
    PROVE  /\ sample_width \in WIDTHS
           /\ GROUP = GroupOf(sample_width) /\ STAGES = StagesOf(sample_width)
           /\ READ_WORDS = ReadWordsOf(sample_width)
           /\ PCT_WORDS = PctWordsOf(sample_width)
           /\ LastArrives(sample_width) = READ_WORDS + STAGES
           /\ GROUP \in {1, 4, 8} /\ STAGES \in Nat \ {0}
           /\ READ_WORDS \in Nat /\ READ_WORDS >= STAGES + 4 /\ READ_WORDS < SMPL_BUFF_WORDS
           /\ PCT_WORDS \in Nat /\ PCT_WORDS >= 7 /\ PCT_WORDS < PCT_BUFF_WORDS
           /\ PCT_BUFF_WORDS \in Nat /\ SMPL_BUFF_WORDS \in Nat
<1>1. sample_width \in WIDTHS
  BY DEF TypeOK
<1> QED  BY <1>1, Sizes DEF GROUP, STAGES, READ_WORDS, PCT_WORDS, LastArrives

LEMMA WidthKept ==
    ASSUME UNCHANGED sample_width
    PROVE  /\ GROUP' = GROUP /\ STAGES' = STAGES
           /\ READ_WORDS' = READ_WORDS /\ PCT_WORDS' = PCT_WORDS /\ AGES' = AGES
BY DEF GROUP, STAGES, READ_WORDS, PCT_WORDS, AGES

\* The sample word packed at age t completes a word, or none.
LEMMA PackingStep ==
    ASSUME TypeOK, NEW t \in Int, t >= -1, PackingAt(t), UNCHANGED sample_width,
           rdreq <=> t \in 0..(READ_WORDS - 1), BitPack(smpl_q)
    PROVE  /\ PackingAt(t + 1)'
           /\ pipe' \in [1..STAGES -> Words] /\ pack_cnt' \in 0..(GROUP - 1)
           /\ \A i \in 2..STAGES : pipe'[i] = pipe[i - 1]
           /\ Completes(sample_width, t) =>
                 pipe'[1].nr = IF GROUP = 1 THEN smpl_q ELSE pack_reg
<1>1. /\ READ_WORDS \in Nat /\ STAGES \in Nat \ {0} /\ GROUP \in {1, 4, 8}
      /\ READ_WORDS >= 5 /\ sample_width \in WIDTHS
      /\ READ_WORDS = ReadWordsOf(sample_width) /\ GROUP = GroupOf(sample_width)
  BY WidthFacts
<1>2. GROUP' = GROUP /\ STAGES' = STAGES /\ READ_WORDS' = READ_WORDS
  BY WidthKept
<1>3. /\ in_valid <=> t \in 1..READ_WORDS
      /\ pack_cnt = PackedBy(sample_width, t - 1) % GROUP
      /\ in_valid' <=> rdreq
      /\ pack_cnt' = IF in_valid THEN (pack_cnt + 1) % GROUP ELSE pack_cnt
  BY DEF PackingAt, BitPack
<1>4. in_valid' <=> (t + 1) \in 1..READ_WORDS
  BY <1>1, <1>3
<1>5. t \in 1..READ_WORDS => /\ PackedBy(sample_width, t - 1) = t - 1
                            /\ PackedBy(sample_width, t) = t
  BY <1>1 DEF PackedBy
<1>6. pack_cnt' = PackedBy(sample_width, t) % GROUP
  <2>1. CASE in_valid
    <3>1. t \in 1..READ_WORDS /\ pack_cnt = (t - 1) % GROUP /\ t \in Nat
      BY <2>1, <1>1, <1>3, <1>5
    <3>2. (((t - 1) % GROUP) + 1) % GROUP = t % GROUP
      <4>1. t >= 1
        BY <3>1, <1>1
      <4>2. CASE GROUP = 1
        BY <4>2, <3>1, <4>1
      <4>3. CASE GROUP = 4
        BY <4>3, <3>1, <4>1
      <4>4. CASE GROUP = 8
        BY <4>4, <3>1, <4>1
      <4> QED  BY <4>2, <4>3, <4>4, <1>1
    <3> QED  BY <2>1, <3>1, <3>2, <1>3, <1>5
  <2>2. CASE ~in_valid
    <3>1. PackedBy(sample_width, t) = PackedBy(sample_width, t - 1)
      BY <2>2, <1>1, <1>3 DEF PackedBy
    <3> QED  BY <2>2, <3>1, <1>3
  <2> QED  BY <2>1, <2>2
<1>7. pack_cnt' \in 0..(GROUP - 1)
  <2>1. PackedBy(sample_width, t) \in Nat
    BY <1>1 DEF PackedBy
  <2> QED  BY <2>1, <1>1, <1>6
<1>8. in_valid /\ (GROUP = 1 \/ pack_cnt # 0) <=> Completes(sample_width, t)
  BY <1>1, <1>3, <1>5 DEF Completes
<1> DEFINE w == IF Completes(sample_width, t)
                THEN IF GROUP = 1 THEN [kind |-> "data", nr |-> smpl_q]
                     ELSE [kind |-> "data", nr |-> pack_reg]
                ELSE NoWord
<1>9. w \in Words /\ w.kind = IF Completes(sample_width, t) THEN "data" ELSE "none"
  BY TypeFacts DEF Words, NoWord
<1>10. pipe' = <<w>> \o SubSeq(pipe, 1, STAGES - 1)
  BY <1>8 DEF BitPack
<1>11. /\ pipe' \in [1..STAGES -> Words] /\ pipe'[1] = w
       /\ \A i \in 2..STAGES : pipe'[i] = pipe[i - 1]
  <2>1. pipe \in [1..STAGES -> Words]
    BY DEF TypeOK
  <2> HIDE DEF w
  <2> QED  BY <2>1, <1>1, <1>9, <1>10, ShiftIn
<1>12. ASSUME NEW i \in 1..STAGES
       PROVE  pipe'[i].kind = IF Completes(sample_width, (t + 1) - i) THEN "data" ELSE "none"
  <2>1. CASE i = 1
    <3>1. (t + 1) - i = t
      BY <2>1
    <3> QED  BY <2>1, <3>1, <1>9, <1>11
  <2>2. CASE i # 1
    <3>1. i \in 2..STAGES /\ i - 1 \in 1..STAGES /\ (t + 1) - i = t - (i - 1)
      BY <2>2, <1>1
    <3> QED  BY <3>1, <1>11 DEF PackingAt
  <2> QED  BY <2>1, <2>2
<1>13. (t + 1) - 1 = t
  OBVIOUS
<1>14. PackingAt(t + 1)'
  BY <1>2, <1>4, <1>6, <1>12, <1>13 DEF PackingAt
<1> QED  BY <1>7, <1>11, <1>14

\* A word that arrives, and the end of a packet, shift the packet former's registers.
LEMMA FormingStep ==
    ASSUME TypeOK, UNCHANGED sample_width,
           NEW p \in 0..PCT_WORDS, NEW word \in BOOLEAN, FormingAt(p),
           word <=> pct_data_wrreq, word => pct_data.kind = "data",
           word => p <= PCT_WORDS - 3, p = PCT_WORDS - 3 => word,
           NEW q \in Nat,
           q = IF word \/ p \in {PCT_WORDS - 2, PCT_WORDS - 1} THEN p + 1 ELSE p,
           FormerFsm, FormerCounters, FormerRegs(pct_hdr_0, pct_hdr_1)
    PROVE  /\ FormingAt(q)' /\ (wrreq_int' <=> q > p)
           /\ p = 0 /\ word => regs' = <<pct_hdr_0, pct_hdr_1, pct_data>>
           /\ p >= 1 /\ q = p + 1 =>
                 regs' = <<regs[2], regs[3], IF word THEN pct_data ELSE regs[3]>>
           /\ p >= 1 /\ q = p => regs' = <<regs[1], regs[2], regs[3]>>
<1>1. PCT_WORDS \in Nat /\ PCT_WORDS >= 7
  BY WidthFacts
<1>2. PCT_WORDS' = PCT_WORDS
  BY WidthKept
<1>3. /\ former = "idle" <=> p \in {0, PCT_WORDS}
      /\ former = "s0" <=> p \in 1..(PCT_WORDS - 4)
      /\ former = "s1" <=> p = PCT_WORDS - 3
      /\ former = "s2" <=> p \in {PCT_WORDS - 2, PCT_WORDS - 1}
  BY DEF FormingAt
<1>4. /\ data_wr_cnt = IF p < PCT_WORDS - 2 THEN p ELSE 0
      /\ p = PCT_WORDS - 2 => end_cnt = 1
      /\ p = PCT_WORDS - 1 => end_cnt = 0
      /\ p >= 1 => \A i \in 1..3 : regs[i].kind = KindOf(p + i - 1)
  BY DEF FormingAt
<1>5. /\ q \in 0..PCT_WORDS /\ (q = p \/ q = p + 1)
      /\ \/ p = 0 \/ p \in 1..(PCT_WORDS - 4) \/ p = PCT_WORDS - 3
         \/ p = PCT_WORDS - 2 \/ p = PCT_WORDS - 1 \/ p = PCT_WORDS
  BY <1>1
<1>6. /\ former' = "idle" <=> q \in {0, PCT_WORDS}
      /\ former' = "s0" <=> q \in 1..(PCT_WORDS - 4)
      /\ former' = "s1" <=> q = PCT_WORDS - 3
      /\ former' = "s2" <=> q \in {PCT_WORDS - 2, PCT_WORDS - 1}
  <2>1. CASE p = 0
    <3>1. former = "idle" /\ former' = IF word THEN "s0" ELSE "idle"
      BY <2>1, <1>1, <1>3 DEF FormerFsm, FormerGoes
    <3>2. q = IF word THEN 1 ELSE 0
      BY <2>1, <1>1
    <3> QED  BY <3>1, <3>2, <1>1
  <2>2. CASE p \in 1..(PCT_WORDS - 4)
    <3>1. former = "s0" /\ (LastButOne <=> p = PCT_WORDS - 4)
      BY <2>2, <1>1, <1>3, <1>4 DEF LastButOne
    <3>2. former' = IF p = PCT_WORDS - 4 /\ word THEN "s1" ELSE "s0"
      BY <3>1 DEF FormerFsm, FormerGoes
    <3>3. q = IF word THEN p + 1 ELSE p
      BY <2>2, <1>1
    <3> QED  BY <2>2, <3>2, <3>3, <1>1
  <2>3. CASE p = PCT_WORDS - 3
    <3>1. former = "s1" /\ former' = "s2"
      BY <2>3, <1>1, <1>3 DEF FormerFsm, FormerGoes
    <3>2. q = PCT_WORDS - 2
      BY <2>3, <1>1
    <3> QED  BY <3>1, <3>2, <1>1
  <2>4. CASE p = PCT_WORDS - 2
    <3>1. former = "s2" /\ former' = "s2"
      BY <2>4, <1>1, <1>3, <1>4 DEF FormerFsm, FormerGoes
    <3>2. q = PCT_WORDS - 1
      BY <2>4, <1>1
    <3> QED  BY <3>1, <3>2, <1>1
  <2>5. CASE p = PCT_WORDS - 1
    <3>1. former = "s2" /\ former' = "idle"
      BY <2>5, <1>1, <1>3, <1>4 DEF FormerFsm, FormerGoes
    <3>2. q = PCT_WORDS
      BY <2>5, <1>1
    <3> QED  BY <3>1, <3>2, <1>1
  <2>6. CASE p = PCT_WORDS
    <3>1. former = "idle" /\ former' = "idle"
      BY <2>6, <1>1, <1>3 DEF FormerFsm, FormerGoes
    <3>2. q = PCT_WORDS
      BY <2>6, <1>1
    <3> QED  BY <3>1, <3>2, <1>1
  <2> QED  BY <1>5, <2>1, <2>2, <2>3, <2>4, <2>5, <2>6
<1>7. data_wr_cnt' = IF q < PCT_WORDS - 2 THEN q ELSE 0
  BY <1>1, <1>3, <1>4, <1>5 DEF FormerCounters
<1>8. /\ q = PCT_WORDS - 2 => end_cnt' = 1
      /\ q = PCT_WORDS - 1 => end_cnt' = 0
  <2>1. q = PCT_WORDS - 2 => p = PCT_WORDS - 3 /\ former = "s1"
    BY <1>1, <1>3, <1>4, <1>5
  <2>2. q = PCT_WORDS - 1 => p = PCT_WORDS - 2 /\ former = "s2" /\ end_cnt = 1
    BY <1>1, <1>3, <1>4, <1>5
  <2> QED  BY <2>1, <2>2 DEF FormerCounters
<1>9. former = "idle" /\ word <=> p = 0 /\ word
  BY <1>1, <1>3, <1>4, <1>5
<1>10. wrreq_int' <=> q > p
  <2>1. wrreq_int' <=> former = "s2" \/ pct_data_wrreq
    BY DEF FormerRegs
  <2> QED  BY <2>1, <1>1, <1>3
<1>11. p = 0 /\ word => regs' = <<pct_hdr_0, pct_hdr_1, pct_data>>
  BY <1>9 DEF FormerRegs
<1>12. p >= 1 /\ q = p + 1 =>
           regs' = <<regs[2], regs[3], IF word THEN pct_data ELSE regs[3]>>
  BY <1>1, <1>3, <1>9 DEF FormerRegs
<1>13. p >= 1 /\ q = p => regs' = <<regs[1], regs[2], regs[3]>>
  <2>1. p >= 1 /\ q = p => ~word /\ former # "s2"
    BY <1>1, <1>3
  <2> QED  BY <2>1 DEF FormerRegs
<1>14. q >= 1 => \A i \in 1..3 : regs'[i].kind = KindOf(q + i - 1)
  <2>1. /\ KindOf(1) = "hdr_0" /\ KindOf(2) = "hdr_1"
        /\ \A n \in Nat : n >= 3 => KindOf(n) = "data"
    BY DEF KindOf
  <2>2. CASE p = 0 /\ word
    <3>1. pct_hdr_0.kind = "hdr_0" /\ pct_hdr_1.kind = "hdr_1" /\ pct_data.kind = "data"
      BY <2>2 DEF pct_hdr_0, pct_hdr_1
    <3>2. q = 1
      BY <2>2
    <3>3. /\ regs'[1].kind = "hdr_0" /\ regs'[2].kind = "hdr_1" /\ regs'[3].kind = "data"
      BY <2>2, <3>1, <1>11
    <3> QED  BY <2>1, <3>2, <3>3
  <2>3. CASE p >= 1 /\ q = p + 1
    <3>1. regs[2].kind = KindOf(p + 1) /\ regs[3].kind = KindOf(p + 2)
      BY <2>3, <1>4
    <3>2. KindOf(p + 2) = "data" /\ KindOf(p + 3) = "data"
      BY <2>1, <2>3
    <3>3. /\ regs'[1].kind = KindOf(p + 1) /\ regs'[2].kind = KindOf(p + 2)
          /\ regs'[3].kind = KindOf(p + 3)
      BY <2>3, <3>1, <3>2, <1>12
    <3> QED  BY <2>3, <3>3
  <2>4. CASE p >= 1 /\ q = p
    BY <2>4, <1>4, <1>13
  <2>5. CASE q = 0
    BY <2>5
  <2> QED  BY <1>1, <1>5, <2>2, <2>3, <2>4, <2>5
<1>15. FormingAt(q)'
  BY <1>2, <1>6, <1>7, <1>8, <1>14 DEF FormingAt
<1> QED  BY <1>10, <1>11, <1>12, <1>13, <1>15

\* What the former has shifted is written two edges later, if the packet is to be written.
LEMMA WritingStep ==
    ASSUME TypeOK, UNCHANGED sample_width,
           NEW p \in 0..PCT_WORDS, NEW q \in Nat, NEW n \in Nat, NEW r \in Nat,
           n <= q, q <= n + 1, q <= p, p <= q + 1,
           WritingAt(p, q, n), FormingAt(p), wrreq_int' <=> r > p,
           (wr_dis' <=> wr_dis) \/ p = 0,
           buff_wrreq' <=> wrreq_int /\ wr_dis, buff_wrdata' = regs[1],
           NEW taken \in HostReads, PacketFifo(taken)
    PROVE  WritingAt(r, p, q)'
<1>1. PCT_WORDS \in Nat /\ PCT_WORDS' = PCT_WORDS
  BY WidthFacts, WidthKept
<1>2. /\ wrreq_int <=> p > q
      /\ buff_wrreq <=> wr_dis /\ q > n
      /\ q >= 1 => buff_wrdata.kind = KindOf(q)
      /\ IF wr_dis /\ n >= 1 THEN ~cut /\ place = n - 1 ELSE cut \/ place = PCT_WORDS - 1
      /\ wr_dis \in BOOLEAN
  BY DEF WritingAt, TypeOK
<1>3. buff_wrreq' <=> wr_dis' /\ p > q
  BY <1>2
<1>4. p >= 1 => buff_wrdata'.kind = KindOf(p)
  <2>1. p >= 1 => regs[1].kind = KindOf(p + 1 - 1)
    BY DEF FormingAt
  <2> QED  BY <2>1
<1>5. /\ place' = CASE buff_wrreq /\ buff_wrdata.kind = "hdr_0" -> 0
                    [] buff_wrreq /\ buff_wrdata.kind # "hdr_0" -> place + 1
                    [] OTHER -> place
      /\ cut' <=> cut /\ ~(buff_wrreq /\ buff_wrdata.kind = "hdr_0")
  BY DEF PacketFifo
<1>6. IF wr_dis' /\ q >= 1 THEN ~cut' /\ place' = q - 1 ELSE cut' \/ place' = PCT_WORDS - 1
  <2>1. CASE buff_wrreq
    <3>1. wr_dis /\ q = n + 1 /\ wr_dis'
      BY <2>1, <1>2
    <3>2. buff_wrdata.kind = "hdr_0" <=> n = 0
      BY <3>1, <1>2 DEF KindOf
    <3>3. CASE n = 0
      <4>1. place' = 0 /\ ~cut'
        BY <2>1, <3>2, <3>3, <1>5
      <4> QED  BY <4>1, <3>1, <3>3
    <3>4. CASE n >= 1
      <4>1. place' = place + 1 /\ (cut' <=> cut)
        BY <2>1, <3>2, <3>4, <1>5
      <4> QED  BY <4>1, <3>1, <3>4, <1>2
    <3> QED  BY <3>3, <3>4
  <2>2. CASE ~buff_wrreq
    <3>1. place' = place /\ (cut' <=> cut)
      BY <2>2, <1>5
    <3>2. wr_dis' /\ q >= 1 <=> wr_dis /\ n >= 1
      BY <2>2, <1>2
    <3>3. wr_dis /\ n >= 1 => q = n
      BY <2>2, <1>2
    <3> QED  BY <3>1, <3>2, <3>3, <1>2
  <2> QED  BY <2>1, <2>2
<1> QED  BY <1>1, <1>3, <1>4, <1>6 DEF WritingAt

LEMMA FifoStep ==
    ASSUME TypeOK, NEW taken \in HostReads, PacketFifo(taken)
    PROVE  /\ pct_used' \in 0..PCT_BUFF_WORDS /\ pct_wrusedw' \in 0..PCT_BUFF_WORDS
           /\ pct_used' <= pct_wrusedw' + 1
           /\ pct_used' <= pct_used + (IF buff_wrreq THEN 1 ELSE 0)
<1>1. pct_used \in 0..PCT_BUFF_WORDS /\ taken \in 0..pct_used /\ PCT_BUFF_WORDS \in Nat
  BY WidthFacts DEF TypeOK, HostReads
<1>2. pct_used' = pct_used - taken
         + (IF buff_wrreq /\ pct_used < PCT_BUFF_WORDS THEN 1 ELSE 0)
  BY DEF PacketFifo
<1>3. /\ pct_used' \in 0..PCT_BUFF_WORDS
      /\ pct_used' <= pct_used + (IF buff_wrreq THEN 1 ELSE 0)
  BY <1>1, <1>2
<1>4. pct_wrusedw' = pct_used \/ pct_wrusedw' = pct_used'
  BY DEF PacketFifo
<1> QED  BY <1>1, <1>3, <1>4

LEMMA RoomStep ==
    ASSUME TypeOK, UNCHANGED sample_width, NEW p \in Nat, NEW q \in Nat, NEW n \in Nat,
           n <= q, q <= n + 1, WritingAt(p, q, n), RoomAt(n),
           wr_dis' <=> wr_dis, NEW taken \in HostReads, PacketFifo(taken)
    PROVE  RoomAt(q)'
<1>1. PCT_WORDS \in Nat /\ PCT_WORDS' = PCT_WORDS /\ PCT_BUFF_WORDS \in Nat
  BY WidthFacts, WidthKept
<1>2. buff_wrreq <=> wr_dis /\ q > n
  BY DEF WritingAt
<1>3. wr_dis => pct_used + (PCT_WORDS - n) <= PCT_BUFF_WORDS
  BY DEF RoomAt
<1>4. PICK now \in Nat : now = pct_used'
  BY FifoStep, <1>1
<1>5. pct_used \in Nat /\ now <= pct_used + (IF buff_wrreq THEN 1 ELSE 0)
  BY FifoStep, <1>1, <1>4 DEF TypeOK
<1>6. wr_dis => now + (PCT_WORDS - q) <= PCT_BUFF_WORDS
  BY <1>1, <1>2, <1>3, <1>5
<1> QED  BY <1>1, <1>4, <1>6 DEF RoomAt

LEMMA SampleFifoStep ==
    ASSUME TypeOK, NEW written \in BOOLEAN, SampleFifo(written)
    PROVE  /\ smpl_fifo' \in Seq(Numbers) /\ Len(smpl_fifo') <= SMPL_BUFF_WORDS
           /\ smpl_q' \in Numbers /\ rdusedw_reg' = Len(smpl_fifo)
           /\ rdusedw_reg' \in 0..SMPL_BUFF_WORDS
           /\ Len(smpl_fifo') \in Nat /\ Len(smpl_fifo) \in Nat
           /\ rdreq => Len(smpl_fifo') >= Len(smpl_fifo) - 1
           /\ ~rdreq => Len(smpl_fifo') >= Len(smpl_fifo)
<1> DEFINE read == rdreq /\ smpl_fifo # <<>>
           rest == IF read THEN Tail(smpl_fifo) ELSE smpl_fifo
           kept == IF Len(smpl_fifo) < SMPL_BUFF_WORDS THEN Received(written) ELSE <<>>
<1>1. /\ smpl_fifo \in Seq(Numbers) /\ Len(smpl_fifo) \in Nat
      /\ Len(smpl_fifo) <= SMPL_BUFF_WORDS /\ SMPL_BUFF_WORDS \in Nat
      /\ cnt_wr \in Numbers /\ smpl_q \in Numbers
  BY WidthFacts, TypeFacts DEF TypeOK
<1>2. smpl_fifo' = rest \o kept
  BY DEF SampleFifo
<1>3. /\ rest \in Seq(Numbers) /\ Len(rest) \in Nat
      /\ Len(rest) <= Len(smpl_fifo) /\ Len(smpl_fifo) <= Len(rest) + 1
      /\ ~rdreq => Len(rest) = Len(smpl_fifo)
  <2>1. CASE read
    <3>1. smpl_fifo # <<>>
      BY <2>1
    <3>2. Tail(smpl_fifo) \in Seq(Numbers) /\ Len(Tail(smpl_fifo)) = Len(smpl_fifo) - 1
      BY <3>1, <1>1, HeadTailProperties
    <3>3. Len(smpl_fifo) # 0
      BY <3>1, <1>1, EmptySeq
    <3> QED  BY <2>1, <3>2, <3>3, <1>1
  <2>2. CASE ~read
    BY <2>2, <1>1
  <2> QED  BY <2>1, <2>2
<1>4. /\ kept \in Seq(Numbers) /\ Len(kept) \in {0, 1}
      /\ Len(kept) = 1 => Len(smpl_fifo) < SMPL_BUFF_WORDS
  BY <1>1 DEF Received
<1>5. /\ smpl_fifo' \in Seq(Numbers)
      /\ Len(smpl_fifo') = Len(rest) + Len(kept)
  <2> HIDE DEF rest, kept
  <2> QED  BY <1>2, <1>3, <1>4
<1>6. smpl_q' \in Numbers
  BY <1>1 DEF SampleFifo
<1>7. rdusedw_reg' = Len(smpl_fifo)
  BY DEF SampleFifo
<1> HIDE DEF rest, kept
<1>8. /\ Len(smpl_fifo') \in Nat /\ Len(smpl_fifo') <= SMPL_BUFF_WORDS
      /\ rdreq => Len(smpl_fifo') >= Len(smpl_fifo) - 1
      /\ ~rdreq => Len(smpl_fifo') >= Len(smpl_fifo)
  <2>1. PICK l \in Nat, r \in Nat, k \in Nat :
            l = Len(smpl_fifo) /\ r = Len(rest) /\ k = Len(kept)
    BY <1>1, <1>3, <1>4
  <2>2. /\ r <= l /\ l <= r + 1 /\ (~rdreq => r = l)
        /\ (k = 0 \/ k = 1) /\ (k = 1 => l < SMPL_BUFF_WORDS)
        /\ l <= SMPL_BUFF_WORDS
    BY <2>1, <1>1, <1>3, <1>4
  <2>4. Len(smpl_fifo') = r + k
    BY <2>1, <1>5
  <2>3. /\ r + k \in Nat /\ r + k <= SMPL_BUFF_WORDS
        /\ rdreq => r + k >= l - 1
        /\ ~rdreq => r + k >= l
    BY <2>2, <1>1
  <2> QED  BY <2>1, <2>2, <2>3, <2>4
<1> QED  BY <1>1, <1>5, <1>6, <1>7, <1>8

\* The reading of a packet ends after its last sample word, and what follows it
\* when the packet former has come to rest.
LEMMA ReadingStep ==
    ASSUME TypeOK, UNCHANGED sample_width, NEW t \in AGES, ReadingAt(t),
           FormingAt(Shifts(sample_width, t)),
           D2pFsm, RdCnt, done' <=> former = "idle"
    PROVE  /\ t # READ_WORDS + STAGES + 4 => ReadingAt(t + 1)'
           /\ t = READ_WORDS + STAGES + 4 => fsm' = "idle" /\ rd_cnt' = 0 /\ ~rd_done'
<1> DEFINE R == READ_WORDS
           L == READ_WORDS + STAGES
<1>1. /\ R \in Nat /\ STAGES \in Nat /\ STAGES >= 1 /\ R >= STAGES + 4
      /\ PCT_WORDS \in Nat /\ PCT_WORDS >= 7 /\ sample_width \in WIDTHS
      /\ LastArrives(sample_width) = L /\ STAGES = StagesOf(sample_width)
      /\ PCT_WORDS = PctWordsOf(sample_width)
  BY WidthFacts
<1>2. t \in 0..(L + 4) /\ t \in Int
  BY <1>1 DEF AGES
<1>3. /\ READ_WORDS' = R /\ LastArrives(sample_width)' = L
  BY <1>1, WidthKept
<1>4. /\ fsm = IF t < R THEN "rd_smpl_buff" ELSE "wait_data2packets_done"
      /\ rd_cnt = IF t <= R THEN t ELSE 0
      /\ rd_done <=> t \in (R - 1)..(R + 1)
      /\ t >= R => (done <=> t = L + 4)
  BY <1>1 DEF ReadingAt
<1>5. rdreq <=> t < R
  BY <1>1, <1>2, <1>4 DEF rdreq
<1>6. rd_cnt' = IF t < R THEN t + 1 ELSE 0
  BY <1>1, <1>2, <1>4, <1>5 DEF RdCnt
<1>7. rd_done' <=> t \in (R - 2)..R
  <2>1. rd_done' <=> rd_cnt >= R - 2
    BY DEF RdCnt
  <2> QED  BY <2>1, <1>1, <1>2, <1>4
<1>8. /\ t < R - 1 => fsm' = "rd_smpl_buff"
      /\ t >= R - 1 /\ t < L + 4 => fsm' = "wait_data2packets_done"
      /\ t = L + 4 => fsm' = "idle"
  <2>1. CASE t < R
    <3>1. fsm = "rd_smpl_buff" /\ (rd_done <=> t = R - 1)
      BY <2>1, <1>1, <1>2, <1>4
    <3> QED  BY <2>1, <3>1, <1>1, <1>2 DEF D2pFsm, FsmGoes
  <2>2. CASE t >= R
    <3>1. fsm = "wait_data2packets_done" /\ (done <=> t = L + 4)
      BY <2>2, <1>1, <1>2, <1>4
    <3> QED  BY <2>2, <3>1, <1>1, <1>2 DEF D2pFsm, FsmGoes
  <2> QED  BY <2>1, <2>2, <1>1, <1>2
<1>9. t >= R - 1 => (done' <=> t > L + 2)
  <2>1. former = "idle" <=> Shifts(sample_width, t) \in {0, PCT_WORDS}
    BY DEF FormingAt
  <2>2. t >= R - 1 => Shifts(sample_width, t) >= 1 /\ Shifts(sample_width, t) \in Nat
    BY <1>1, <1>2, ShiftsOf
  <2>3. t > L + 2 => Shifts(sample_width, t) = PCT_WORDS
    BY <1>1, <1>2, ShiftsOf
  <2>4. t <= L + 2 => Shifts(sample_width, t) < PCT_WORDS /\ Shifts(sample_width, t) \in Nat
    <3>1. t <= L + 2 => t < L \/ t = L \/ t = L + 1 \/ t = L + 2
      BY <1>1, <1>2
    <3> QED  BY <3>1, <1>1, <1>2, ShiftsOf
  <2> QED  BY <2>1, <2>2, <2>3, <2>4, <1>1, <1>2
<1>10. ASSUME t # L + 4
       PROVE  ReadingAt(t + 1)'
  <2>1. fsm' = IF t + 1 < R THEN "rd_smpl_buff" ELSE "wait_data2packets_done"
    BY <1>1, <1>2, <1>8, <1>10
  <2>2. rd_cnt' = IF t + 1 <= R THEN t + 1 ELSE 0
    BY <1>1, <1>2, <1>6
  <2>3. rd_done' <=> t + 1 \in (R - 1)..(R + 1)
    BY <1>1, <1>2, <1>7
  <2>4. t + 1 >= R => (done' <=> t + 1 = L + 4)
    BY <1>1, <1>2, <1>9, <1>10
  <2> QED  BY <2>1, <2>2, <2>3, <2>4, <1>3 DEF ReadingAt
<1>11. t = L + 4 => fsm' = "idle" /\ rd_cnt' = 0 /\ ~rd_done'
  BY <1>1, <1>2, <1>6, <1>7, <1>8
<1> QED  BY <1>10, <1>11

\* The sample FIFO holds what is still to be read; its fill as the FSM sees it is the
\* old one, but not from before the last read.
LEMMA EnoughStep ==
    ASSUME TypeOK, UNCHANGED sample_width, NEW t \in AGES, EnoughAt(t),
           rdreq <=> t < READ_WORDS, NEW written \in BOOLEAN, SampleFifo(written),
           smpl_buff_rdy' <=> EnoughSamples(rdusedw_reg)
    PROVE  EnoughAt(t + 1)' /\ (t > READ_WORDS + 1 /\ fsm' = "idle" => EnoughQuiet')
<1>1. READ_WORDS \in Nat /\ READ_WORDS' = READ_WORDS /\ t \in Nat
  BY WidthFacts, WidthKept DEF AGES
<1>2. PICK old \in Nat, new \in Nat : old = Len(smpl_fifo) /\ new = Len(smpl_fifo')
  BY SampleFifoStep
<1>3. /\ rdreq => new >= old - 1
      /\ ~rdreq => new >= old
      /\ rdusedw_reg' = old /\ rdusedw_reg \in Nat
  <2>1. rdusedw_reg \in Nat
    BY WidthFacts DEF TypeOK
  <2> QED  BY <2>1, <1>2, SampleFifoStep
<1>4. /\ t < READ_WORDS => old > READ_WORDS - t
      /\ t > READ_WORDS => rdusedw_reg <= old
      /\ t > READ_WORDS + 1 /\ smpl_buff_rdy => old > READ_WORDS
  BY <1>2 DEF EnoughAt
<1>5. smpl_buff_rdy' <=> rdusedw_reg > READ_WORDS
  BY DEF EnoughSamples
<1>6. /\ t + 1 < READ_WORDS => new > READ_WORDS - (t + 1)
      /\ t + 1 > READ_WORDS => old <= new
      /\ t + 1 > READ_WORDS + 1 /\ smpl_buff_rdy' => new > READ_WORDS
  BY <1>1, <1>3, <1>4, <1>5
<1>7. EnoughAt(t + 1)'
  BY <1>1, <1>2, <1>3, <1>6 DEF EnoughAt
<1>8. t > READ_WORDS + 1 /\ fsm' = "idle" => EnoughQuiet'
  BY <1>1, <1>2, <1>3, <1>6 DEF EnoughQuiet
<1> QED  BY <1>7, <1>8

LEMMA QuietEnoughStep ==
    ASSUME TypeOK, UNCHANGED sample_width, EnoughQuiet, ~rdreq,
           NEW written \in BOOLEAN, SampleFifo(written),
           smpl_buff_rdy' <=> EnoughSamples(rdusedw_reg),
           fsm = "idle" /\ fsm' = "check_pct_buff" => smpl_buff_rdy
    PROVE  /\ fsm = "idle" => EnoughQuiet'
           /\ fsm = "check_pct_buff" => EnoughAt(0)'
<1>1. READ_WORDS \in Nat /\ READ_WORDS' = READ_WORDS /\ READ_WORDS >= 5
  BY WidthFacts, WidthKept
<1>2. PICK old \in Nat, new \in Nat : old = Len(smpl_fifo) /\ new = Len(smpl_fifo')
  BY SampleFifoStep
<1>3. /\ new >= old /\ rdusedw_reg' = old /\ rdusedw_reg \in Nat
  <2>1. rdusedw_reg \in Nat
    BY WidthFacts DEF TypeOK
  <2> QED  BY <2>1, <1>2, SampleFifoStep
<1>4. /\ rdusedw_reg <= old
      /\ smpl_buff_rdy \/ fsm = "check_pct_buff" => old > READ_WORDS
  BY <1>2 DEF EnoughQuiet
<1>5. smpl_buff_rdy' <=> rdusedw_reg > READ_WORDS
  BY DEF EnoughSamples
<1>6. /\ old <= new
      /\ smpl_buff_rdy' => new > READ_WORDS
      /\ smpl_buff_rdy \/ fsm = "check_pct_buff" => new > READ_WORDS
  BY <1>1, <1>3, <1>4, <1>5
<1>7. fsm = "idle" => EnoughQuiet'
  BY <1>1, <1>2, <1>3, <1>6 DEF EnoughQuiet
<1>8. fsm = "check_pct_buff" => EnoughAt(0)'
  <2>1. READ_WORDS - 0 = READ_WORDS /\ ~(0 > READ_WORDS) /\ ~(0 > READ_WORDS + 1)
    BY <1>1
  <2> QED  BY <2>1, <1>1, <1>2, <1>6 DEF EnoughAt
<1> QED  BY <1>7, <1>8

-----------------------------------------------------------------------------
(* One edge, all of it. *)

\* What the edge does to the top-level registers.
LEMMA TickParts ==
    ASSUME NEW written \in BOOLEAN, NEW taken \in HostReads, Tick(written, taken)
    PROVE  /\ UNCHANGED sample_width
           /\ D2pFsm /\ WrDis /\ RdCnt /\ BitPack(smpl_q)
           /\ FormerFsm /\ FormerCounters /\ FormerRegs(pct_hdr_0, pct_hdr_1)
           /\ SampleFifo(written) /\ SampleCounters(written) /\ PacketFifo(taken)
           /\ smpl_buff_rdy' <=> EnoughSamples(rdusedw_reg)
           /\ pct_buff_rdy' <=> PctBuffHasRoom(pct_wrusedw)
           /\ done' <=> former = "idle"
           /\ buff_wrreq' <=> wrreq_int /\ wr_dis
           /\ buff_wrdata' = regs[1]
           /\ wr_gap' = IF written THEN WRITE_GAP - 1 ELSE IF wr_gap > 0 THEN wr_gap - 1 ELSE 0
BY DEF Tick, D2pTick, TopRegs

\* The word that arrives at the packet former at age t.
LEMMA Arrival ==
    ASSUME TypeOK, NEW t \in Int, PackingAt(t)
    PROVE  /\ pct_data_wrreq <=> Completes(sample_width, t - STAGES)
           /\ pct_data_wrreq => pct_data.kind = "data"
<1>1. STAGES \in 1..STAGES
  BY WidthFacts
<1>2. pct_data.kind = IF Completes(sample_width, t - STAGES) THEN "data" ELSE "none"
  BY <1>1 DEF PackingAt, pct_data
<1> QED  BY <1>2 DEF pct_data_wrreq

LEMMA PacketIsGroups ==
    ASSUME sample_width \in WIDTHS
    PROVE  READ_WORDS % GROUP = 0 /\ 0 % GROUP = 0
<1>1. /\ READ_WORDS = GROUPS[sample_width] * GROUP /\ GROUPS[sample_width] \in Nat
      /\ GROUP \in {1, 4, 8}
  BY Sizes DEF READ_WORDS, GROUP
<1>2. CASE GROUP = 1
  BY <1>1, <1>2
<1>3. CASE GROUP = 4
  BY <1>1, <1>3
<1>4. CASE GROUP = 8
  BY <1>1, <1>4
<1> QED  BY <1>1, <1>2, <1>3, <1>4

\* What the former has shifted, and will have shifted an edge later, at age t.
LEMMA PacketShifts ==
    ASSUME TypeOK, NEW t \in AGES, OnItsWay(t)
    PROVE  \E p, q, n, r \in Nat, word \in BOOLEAN :
             /\ p = Shifts(sample_width, t) /\ q = Shifts(sample_width, t - 1)
             /\ n = Shifts(sample_width, t - 2) /\ r = Shifts(sample_width, t + 1)
             /\ word <=> Completes(sample_width, t - STAGES)
             /\ word <=> pct_data_wrreq
             /\ word => pct_data.kind = "data" /\ t <= READ_WORDS + STAGES
             /\ p <= PCT_WORDS /\ r <= PCT_WORDS
             /\ word => p <= PCT_WORDS - 3
             /\ p = PCT_WORDS - 3 => word
             /\ t > READ_WORDS + STAGES + 2 => p = PCT_WORDS
             /\ r = IF word \/ p \in {PCT_WORDS - 2, PCT_WORDS - 1} THEN p + 1 ELSE p
             /\ n <= q /\ q <= n + 1 /\ q <= p /\ p <= q + 1
<1> DEFINE L == READ_WORDS + STAGES
<1>1. /\ READ_WORDS \in Nat /\ STAGES \in Nat /\ STAGES >= 1 /\ READ_WORDS >= STAGES + 4
      /\ PCT_WORDS \in Nat /\ PCT_WORDS >= 7 /\ sample_width \in WIDTHS
      /\ LastArrives(sample_width) = L /\ STAGES = StagesOf(sample_width)
      /\ PCT_WORDS = PctWordsOf(sample_width) /\ READ_WORDS = ReadWordsOf(sample_width)
      /\ GROUP \in {1, 4, 8}
  BY WidthFacts
<1>3. t \in 0..(L + 4) /\ t \in Int /\ t >= -1
  BY <1>1 DEF AGES
<1>4. PICK w \in WIDTHS : w = sample_width
  BY <1>1
<1>5. PICK p \in Nat, q \in Nat, n \in Nat, r \in Nat :
          /\ p = Shifts(w, t) /\ q = Shifts(w, t - 1)
          /\ n = Shifts(w, t - 2) /\ r = Shifts(w, t + 1)
  <2>1. t - 1 \in Int /\ t - 2 \in Int /\ t + 1 \in Int
    BY <1>3
  <2> QED  BY <2>1, <1>3, ShiftsOf
<1>6. PackingAt(t)
  BY DEF OnItsWay
<1>8. PICK word \in BOOLEAN : word <=> Completes(w, t - STAGES)
  OBVIOUS
<1>9. /\ word <=> pct_data_wrreq
      /\ word => pct_data.kind = "data"
  BY <1>3, <1>4, <1>6, <1>8, Arrival
<1>10. /\ p <= PCT_WORDS
       /\ t < L <=> p <= PCT_WORDS - 4
       /\ t = L <=> p = PCT_WORDS - 3
       /\ t = L + 1 <=> p = PCT_WORDS - 2
       /\ t = L + 2 <=> p = PCT_WORDS - 1
       /\ t > L + 2 <=> p = PCT_WORDS
  <2>1. /\ t < L => p <= PCT_WORDS - 4
        /\ t = L => p = PCT_WORDS - 3
        /\ t = L + 1 => p = PCT_WORDS - 2
        /\ t = L + 2 => p = PCT_WORDS - 1
        /\ t > L + 2 => p = PCT_WORDS
    BY <1>1, <1>3, <1>4, <1>5, ShiftsOf
  <2>2. t < L \/ t = L \/ t = L + 1 \/ t = L + 2 \/ t > L + 2
    BY <1>1, <1>3
  <2> QED  BY <2>1, <2>2, <1>1, <1>3
<1>11. /\ word => t <= L
       /\ t = L => word
  <2>1. word => t - STAGES <= READ_WORDS
    BY <1>1, <1>3, <1>4, <1>8 DEF Completes
  <2>2. t = L => t - STAGES = READ_WORDS
    BY <1>1, <1>3
  <2>3. READ_WORDS \in 0..ReadWordsOf(w) /\ READ_WORDS = ReadWordsOf(w)
    BY <1>1, <1>4
  <2>4. Completes(w, READ_WORDS)
    <3>1. READ_WORDS >= ReadWordsOf(w) - 1
      BY <2>3, <1>1
    <3> QED  BY <2>3, <3>1, FormedOf
  <2> QED  BY <2>1, <2>2, <2>4, <1>1, <1>3, <1>8
<1>12. r = IF word \/ p \in {PCT_WORDS - 2, PCT_WORDS - 1} THEN p + 1 ELSE p
  <2>1. r = p + (IF Completes(w, t - STAGES) \/ t \in {L + 1, L + 2} THEN 1 ELSE 0)
    BY <1>1, <1>3, <1>4, <1>5, ShiftsOf
  <2>2. t \in {L + 1, L + 2} <=> p \in {PCT_WORDS - 2, PCT_WORDS - 1}
    BY <1>10
  <2> QED  BY <2>1, <2>2, <1>8
<1>13. n <= q /\ q <= n + 1 /\ q <= p /\ p <= q + 1
  <2>1. (t - 1) + 1 = t /\ (t - 2) + 1 = t - 1 /\ t - 1 \in Int /\ t - 2 \in Int
    BY <1>3
  <2>2. p = q \/ p = q + 1
    BY <2>1, <1>5, ShiftsOf
  <2>3. q = n \/ q = n + 1
    BY <2>1, <1>5, ShiftsOf
  <2> QED  BY <2>2, <2>3
<1>14. r <= PCT_WORDS /\ (word => p <= PCT_WORDS - 3) /\ (p = PCT_WORDS - 3 => word)
  <2>1. /\ word => p <= PCT_WORDS - 3
        /\ p = PCT_WORDS - 3 => word
    BY <1>1, <1>3, <1>10, <1>11
  <2>2. r <= PCT_WORDS
    BY <2>1, <1>1, <1>10, <1>12
  <2> QED  BY <2>1, <2>2
<1> QED  BY <1>4, <1>5, <1>8, <1>9, <1>10, <1>11, <1>12, <1>13, <1>14

LEMMA PacketTick ==
    ASSUME TypeOK, NEW t \in AGES, OnItsWay(t), EnoughAt(t),
           RoomAt(Shifts(sample_width, t - 2)),
           NEW written \in BOOLEAN, NEW taken \in HostReads, Tick(written, taken)
    PROVE  /\ t # READ_WORDS + STAGES + 4 =>
                 /\ t + 1 \in AGES' /\ OnItsWay(t + 1)' /\ EnoughAt(t + 1)'
                 /\ RoomAt(Shifts(sample_width, (t + 1) - 2))'
           /\ t = READ_WORDS + STAGES + 4 =>
                 fsm' = "idle" /\ Quiet' /\ EnoughQuiet' /\ RoomQuiet'
<1> DEFINE L == READ_WORDS + STAGES
<1>1. /\ READ_WORDS \in Nat /\ STAGES \in Nat /\ STAGES >= 1 /\ READ_WORDS >= STAGES + 4
      /\ PCT_WORDS \in Nat /\ PCT_WORDS >= 7 /\ sample_width \in WIDTHS
      /\ LastArrives(sample_width) = L /\ STAGES = StagesOf(sample_width)
      /\ PCT_WORDS = PctWordsOf(sample_width) /\ READ_WORDS = ReadWordsOf(sample_width)
      /\ GROUP \in {1, 4, 8}
  BY WidthFacts
<1>2. sample_width' = sample_width
  BY TickParts
<1>3. t \in 0..(L + 4) /\ t \in Int /\ t >= -1
  BY <1>1 DEF AGES
<1>4. PICK w \in WIDTHS : w = sample_width
  BY <1>1
<1>5. PICK p \in Nat, q \in Nat, n \in Nat, r \in Nat, word \in BOOLEAN :
          /\ p = Shifts(w, t) /\ q = Shifts(w, t - 1)
          /\ n = Shifts(w, t - 2) /\ r = Shifts(w, t + 1)
          /\ word <=> pct_data_wrreq
          /\ word => pct_data.kind = "data" /\ t <= L
          /\ p <= PCT_WORDS /\ r <= PCT_WORDS
          /\ word => p <= PCT_WORDS - 3
          /\ p = PCT_WORDS - 3 => word
          /\ t > L + 2 => p = PCT_WORDS
          /\ r = IF word \/ p \in {PCT_WORDS - 2, PCT_WORDS - 1} THEN p + 1 ELSE p
          /\ n <= q /\ q <= n + 1 /\ q <= p /\ p <= q + 1
  BY <1>4, PacketShifts
<1>6. /\ ReadingAt(t) /\ PackingAt(t) /\ FormingAt(p) /\ WritingAt(p, q, n) /\ RoomAt(n)
  BY <1>4, <1>5 DEF OnItsWay
<1>7. rdreq <=> t < READ_WORDS
  BY <1>6 DEF ReadingAt, rdreq
<1>14. fsm # "check_pct_buff" /\ (wr_dis' <=> wr_dis)
  <2>1. fsm \in {"rd_smpl_buff", "wait_data2packets_done"}
    BY <1>6 DEF ReadingAt
  <2> QED  BY <2>1, TickParts DEF WrDis
<1>15. /\ t # L + 4 => ReadingAt(t + 1)'
       /\ t = L + 4 => fsm' = "idle" /\ rd_cnt' = 0 /\ ~rd_done'
  BY <1>4, <1>5, <1>6, TickParts, ReadingStep
<1>16. PackingAt(t + 1)'
  <2>1. rdreq <=> t \in 0..(READ_WORDS - 1)
    BY <1>1, <1>3, <1>7
  <2> QED  BY <2>1, <1>3, <1>6, TickParts, PackingStep
<1>17. FormingAt(r)' /\ (wrreq_int' <=> r > p)
  <2>1. p \in 0..PCT_WORDS
    BY <1>1, <1>5
  <2> QED  BY <2>1, <1>5, <1>6, TickParts, FormingStep
<1>18. WritingAt(r, p, q)'
  <2>1. p \in 0..PCT_WORDS
    BY <1>1, <1>5
  <2> QED  BY <2>1, <1>5, <1>6, <1>14, <1>17, TickParts, WritingStep
<1>19. RoomAt(q)'
  BY <1>5, <1>6, <1>14, TickParts, RoomStep
<1>20. EnoughAt(t + 1)' /\ (t > READ_WORDS + 1 /\ fsm' = "idle" => EnoughQuiet')
  BY <1>7, TickParts, EnoughStep
<1>21. CASE t # L + 4
  <2>1. t + 1 \in AGES'
    <3>1. AGES' = 0..(L + 4)
      BY <1>1, <1>2, WidthKept DEF AGES
    <3>2. t + 1 \in 0..(L + 4)
      BY <1>1, <1>3, <1>21
    <3> QED  BY <3>1, <3>2
  <2>2. (t + 1) - 1 = t /\ (t + 1) - 2 = t - 1
    BY <1>3
  <2>3. OnItsWay(t + 1)'
    BY <2>2, <1>2, <1>4, <1>5, <1>15, <1>16, <1>17, <1>18, <1>21 DEF OnItsWay
  <2>4. RoomAt(Shifts(sample_width, (t + 1) - 2))'
    BY <2>2, <1>2, <1>4, <1>5, <1>19
  <2> QED  BY <2>1, <2>3, <2>4, <1>20, <1>21
<1>22. CASE t = L + 4
  <2>1. fsm' = "idle" /\ rd_cnt' = 0 /\ ~rd_done'
    BY <1>15, <1>22
  <2>2. r = PCT_WORDS /\ p = PCT_WORDS /\ q = PCT_WORDS
    <3>1. q = PCT_WORDS
      <4>1. t - 1 \in Int /\ t - 1 > L + 2
        BY <1>1, <1>3, <1>22
      <4> QED  BY <4>1, <1>1, <1>4, <1>5, ShiftsOf
    <3>2. p = PCT_WORDS
      BY <1>1, <1>3, <1>5, <1>22
    <3>3. ~word
      BY <1>1, <1>3, <1>5, <1>22
    <3> QED  BY <3>1, <3>2, <3>3, <1>1, <1>5
  <2>3. PackingAt(0)'
    <3>1. /\ (t + 1) - 1 >= READ_WORDS /\ (t + 1) - 1 \in Int
          /\ ~((t + 1) \in 1..READ_WORDS) /\ ~(0 \in 1..READ_WORDS)
      BY <1>1, <1>3, <1>22
    <3>2. PackedBy(w, (t + 1) - 1) = READ_WORDS /\ PackedBy(w, 0 - 1) = 0
      BY <3>1, <1>1, <1>4 DEF PackedBy
    <3>3. READ_WORDS % GROUP = 0 /\ 0 % GROUP = 0
      BY <1>1, PacketIsGroups
    <3>4. ASSUME NEW i \in 1..STAGES
          PROVE  ~Completes(w, (t + 1) - i) /\ ~Completes(w, 0 - i)
      <4>1. (t + 1) - i > READ_WORDS /\ 0 - i < 0 /\ i \in Int
        BY <1>1, <1>3, <1>22
      <4> QED  BY <4>1, <1>1, <1>4 DEF Completes
    <3>5. STAGES' = STAGES /\ READ_WORDS' = READ_WORDS /\ GROUP' = GROUP
      BY <1>2, WidthKept
    <3> QED  BY <3>1, <3>2, <3>3, <3>4, <3>5, <1>2, <1>4, <1>16 DEF PackingAt
  <2>4. FormingAt(0)' /\ WritingAt(0, 0, 0)'
    <3>1. PCT_WORDS' = PCT_WORDS
      BY <1>2, WidthKept
    <3>2. FormingAt(0)'
      BY <2>2, <3>1, <1>1, <1>17 DEF FormingAt
    <3>3. WritingAt(0, 0, 0)'
      BY <2>2, <3>1, <1>1, <1>18 DEF WritingAt
    <3> QED  BY <3>2, <3>3
  <2>5. EnoughQuiet'
    BY <2>1, <1>1, <1>3, <1>20, <1>22
  <2> QED  BY <2>1, <2>3, <2>4, <2>5, <1>22 DEF Quiet, RoomQuiet
<1> QED  BY <1>21, <1>22

\* With nothing on its way all is as before the first word.
LEMMA AtRest ==
    ASSUME NEW width \in WIDTHS, NEW i \in Nat
    PROVE  /\ PackedBy(width, 0 - 1) = 0 /\ PackedBy(width, -1 - 1) = 0
           /\ ~Completes(width, 0 - i) /\ ~Completes(width, -1 - i)
           /\ 0 % GroupOf(width) = 0
           /\ Shifts(width, 0) = 0 /\ Shifts(width, 0 - 1) = 0 /\ Shifts(width, 0 - 2) = 0
<1>1. /\ ReadWordsOf(width) \in Nat /\ GroupOf(width) \in {1, 4, 8}
      /\ StagesOf(width) \in Nat
  BY Sizes
<1>2. PackedBy(width, 0 - 1) = 0 /\ PackedBy(width, -1 - 1) = 0
  BY <1>1 DEF PackedBy
<1>3. ~Completes(width, 0 - i) /\ ~Completes(width, -1 - i)
  BY <1>1 DEF Completes
<1>4. 0 % GroupOf(width) = 0
  BY <1>1
<1>5. Shifts(width, 0) = 0 /\ Shifts(width, 0 - 1) = 0 /\ Shifts(width, 0 - 2) = 0
  BY <1>1, ShiftsOf
<1> QED  BY <1>2, <1>3, <1>4, <1>5

\* So the bit packer is as an edge before the first sample word is asked for.
LEMMA QuietPacking ==
    ASSUME TypeOK, Quiet
    PROVE  PackingAt(-1) /\ ~rdreq
<1>1. STAGES \in Nat /\ READ_WORDS \in Nat /\ sample_width \in WIDTHS
  BY WidthFacts
<1>2. PICK w \in WIDTHS : w = sample_width
  BY <1>1
<1>3. PackingAt(0) /\ ~rdreq
  BY DEF Quiet, rdreq
<1>4. /\ ~in_valid /\ pack_cnt = PackedBy(w, 0 - 1) % GROUP
      /\ \A i \in 1..STAGES : pipe[i].kind = IF Completes(w, 0 - i) THEN "data" ELSE "none"
  BY <1>1, <1>2, <1>3 DEF PackingAt
<1>5. \A i \in 1..STAGES : ~Completes(w, 0 - i) /\ ~Completes(w, -1 - i)
  BY <1>1, AtRest
<1>6. PackedBy(w, 0 - 1) = 0 /\ PackedBy(w, -1 - 1) = 0
  BY AtRest
<1>7. PackingAt(-1)
  BY <1>4, <1>5, <1>6, <1>1, <1>2 DEF PackingAt
<1> QED  BY <1>3, <1>7

LEMMA QuietTick ==
    ASSUME TypeOK, Quiet, EnoughQuiet, RoomQuiet, pct_used <= pct_wrusedw + 1,
           NEW written \in BOOLEAN, NEW taken \in HostReads, Tick(written, taken)
    PROVE  /\ fsm = "check_pct_buff" =>
                 /\ 0 \in AGES' /\ OnItsWay(0)' /\ EnoughAt(0)'
                 /\ RoomAt(Shifts(sample_width, 0 - 2))'
           /\ fsm = "idle" => Quiet' /\ EnoughQuiet' /\ RoomQuiet'
<1>1. /\ READ_WORDS \in Nat /\ READ_WORDS >= 5 /\ STAGES \in Nat /\ STAGES >= 1
      /\ PCT_WORDS \in Nat /\ PCT_WORDS >= 7 /\ sample_width \in WIDTHS
      /\ LastArrives(sample_width) = READ_WORDS + STAGES
      /\ STAGES = StagesOf(sample_width) /\ GROUP = GroupOf(sample_width)
      /\ PCT_BUFF_WORDS \in Nat
  BY WidthFacts
<1>2. /\ sample_width' = sample_width /\ STAGES' = STAGES /\ READ_WORDS' = READ_WORDS
      /\ PCT_WORDS' = PCT_WORDS /\ AGES' = AGES
  BY TickParts, WidthKept
<1>3. PICK w \in WIDTHS : w = sample_width
  BY <1>1
<1>4. /\ fsm \in {"idle", "check_pct_buff"} /\ rd_cnt = 0 /\ ~rd_done /\ ~rdreq
      /\ PackingAt(0) /\ FormingAt(0) /\ WritingAt(0, 0, 0)
  BY DEF Quiet, rdreq
<1>5. PackingAt(-1)
  BY QuietPacking
<1>6. PackingAt(0)'
  <2>1. (rdreq <=> -1 \in 0..(READ_WORDS - 1)) /\ -1 \in Int /\ -1 >= -1 /\ -1 + 1 = 0
    BY <1>1, <1>4
  <2> QED  BY <2>1, <1>5, TickParts, PackingStep
<1>7. ~pct_data_wrreq
  <2>1. ~Completes(w, 0 - STAGES)
    BY <1>1, AtRest
  <2> QED  BY <2>1, <1>3, <1>4, Arrival
<1>8. FormingAt(0)' /\ ~wrreq_int'
  <2> PICK word \in BOOLEAN : word <=> FALSE
    OBVIOUS
  <2>1. ~word /\ (word <=> pct_data_wrreq)
    BY <1>7
  <2>2. 0 \in 0..PCT_WORDS /\ 0 \in Nat /\ 0 # PCT_WORDS - 3 /\ ~(0 > 0)
    BY <1>1
  <2>3. 0 = IF word \/ 0 \in {PCT_WORDS - 2, PCT_WORDS - 1} THEN 0 + 1 ELSE 0
    BY <1>1, <2>1
  <2>4. FormerFsm /\ FormerCounters /\ FormerRegs(pct_hdr_0, pct_hdr_1)
    BY TickParts
  <2>5. FormingAt(0)' /\ (wrreq_int' <=> 0 > 0)
    BY <2>1, <2>2, <2>3, <2>4, <1>2, <1>4, FormingStep
  <2> QED  BY <2>5
<1>9. WritingAt(0, 0, 0)'
  <2>1. (wr_dis' <=> wr_dis) \/ 0 = 0
    OBVIOUS
  <2>2. 0 \in 0..PCT_WORDS /\ (wrreq_int' <=> 0 > 0)
    BY <1>1, <1>8
  <2> QED  BY <2>1, <2>2, <1>4, TickParts, WritingStep
<1>10. ~buff_wrreq
  BY <1>4 DEF WritingAt
<1>11. PICK used \in Nat, now \in Nat, shown \in Nat :
           used = pct_used /\ now = pct_used' /\ shown = pct_wrusedw
  <2>1. pct_used \in Nat /\ pct_wrusedw \in Nat
    BY <1>1 DEF TypeOK
  <2>2. pct_used' \in Nat
    BY <1>1, TickParts, FifoStep
  <2> QED  BY <2>1, <2>2
<1>12. now <= used /\ used <= shown + 1
  <2>1. pct_used' <= pct_used + (IF buff_wrreq THEN 1 ELSE 0)
    BY TickParts, FifoStep
  <2>2. pct_used' <= pct_used + 0
    BY <2>1, <1>10
  <2>3. now <= used + 0
    BY <2>2, <1>11
  <2> QED  BY <2>3, <1>11
<1>13. CASE fsm = "check_pct_buff"
  <2>1. fsm' = "rd_smpl_buff" /\ (wr_dis' <=> pct_buff_rdy)
    BY <1>13, TickParts DEF D2pFsm, FsmGoes, WrDis
  <2>2. rd_cnt' = 0 /\ ~rd_done'
    <3>1. rd_done' <=> rd_cnt >= READ_WORDS - 2
      BY TickParts DEF RdCnt
    <3> QED  BY <3>1, <1>1, <1>4, TickParts DEF RdCnt
  <2>3. ReadingAt(0)'
    <3>1. /\ 0 < READ_WORDS /\ 0 <= READ_WORDS /\ ~(0 >= READ_WORDS)
          /\ ~(0 \in (READ_WORDS - 1)..(READ_WORDS + 1))
      BY <1>1
    <3> QED  BY <3>1, <2>1, <2>2, <1>2 DEF ReadingAt
  <2>4. EnoughAt(0)'
    BY <1>4, <1>13, TickParts, QuietEnoughStep
  <2>5. RoomAt(0)'
    <3>1. pct_buff_rdy => used + PCT_WORDS <= PCT_BUFF_WORDS
      BY <1>11, <1>13 DEF RoomQuiet
    <3>2. pct_buff_rdy => now + (PCT_WORDS - 0) <= PCT_BUFF_WORDS
      BY <3>1, <1>1, <1>12
    <3> QED  BY <3>2, <2>1, <1>2, <1>11 DEF RoomAt
  <2>6. Shifts(w, 0) = 0 /\ Shifts(w, 0 - 1) = 0 /\ Shifts(w, 0 - 2) = 0
    BY AtRest
  <2>7. OnItsWay(0)'
    BY <2>3, <2>6, <1>2, <1>3, <1>6, <1>8, <1>9 DEF OnItsWay
  <2>8. 0 \in AGES'
    BY <1>1, <1>2 DEF AGES
  <2> QED  BY <2>4, <2>5, <2>6, <2>7, <2>8, <1>2, <1>3, <1>13
<1>14. CASE fsm = "idle"
  <2>1. /\ fsm' \in {"idle", "check_pct_buff"}
        /\ fsm' = "check_pct_buff" => smpl_buff_rdy
    BY <1>14, TickParts DEF D2pFsm, FsmGoes
  <2>2. rd_cnt' = 0 /\ ~rd_done'
    <3>1. rd_done' <=> rd_cnt >= READ_WORDS - 2
      BY TickParts DEF RdCnt
    <3> QED  BY <3>1, <1>1, <1>4, TickParts DEF RdCnt
  <2>3. EnoughQuiet'
    BY <2>1, <1>4, <1>14, TickParts, QuietEnoughStep
  <2>4. RoomQuiet'
    <3>1. pct_buff_rdy' <=> shown < PCT_BUFF_WORDS - PCT_WORDS
      BY <1>11, TickParts DEF PctBuffHasRoom
    <3>2. pct_buff_rdy' => now + PCT_WORDS <= PCT_BUFF_WORDS
      BY <3>1, <1>1, <1>12
    <3> QED  BY <3>2, <1>2, <1>11 DEF RoomQuiet
  <2>5. Quiet'
    BY <2>1, <2>2, <1>6, <1>8, <1>9 DEF Quiet
  <2> QED  BY <2>3, <2>4, <2>5, <1>14
<1> QED  BY <1>4, <1>13, <1>14

\* What the invariant is for.
LEMMA Served ==
    ASSUME IInv
    PROVE  /\ SampleReadsServed /\ WholePackets /\ PacketFifoHasRoom
           /\ rdreq => rd_cnt < READ_WORDS
           /\ pct_data_wrreq => data_wr_cnt < PCT_WORDS - 2
<1>1. /\ READ_WORDS \in Nat /\ READ_WORDS >= STAGES + 4 /\ STAGES \in Nat /\ STAGES >= 1
      /\ PCT_WORDS \in Nat /\ PCT_WORDS >= 7 /\ PCT_BUFF_WORDS \in Nat
      /\ sample_width \in WIDTHS /\ TypeOK
      /\ LastArrives(sample_width) = READ_WORDS + STAGES /\ STAGES = StagesOf(sample_width)
      /\ PCT_WORDS = PctWordsOf(sample_width)
      /\ Len(smpl_fifo) \in Nat /\ pct_used \in Nat
  <2>1. TypeOK
    BY DEF IInv
  <2>2. pct_used \in Nat /\ Len(smpl_fifo) \in Nat
    BY <2>1, WidthFacts DEF TypeOK
  <2> QED  BY <2>1, <2>2, WidthFacts
<1>2. CASE Quiet
  <2>1. /\ fsm \in {"idle", "check_pct_buff"} /\ PackingAt(0)
        /\ FormingAt(0) /\ WritingAt(0, 0, 0)
    BY <1>2 DEF Quiet
  <2>2. ~rdreq /\ ~buff_wrreq /\ data_wr_cnt = 0
    BY <2>1, <1>1 DEF rdreq, WritingAt, FormingAt
  <2> QED  BY <2>2, <1>1 DEF SampleReadsServed, WholePackets, PacketFifoHasRoom
<1>3. CASE \E t \in AGES : OnItsWay(t) /\ EnoughAt(t) /\ RoomAt(Shifts(sample_width, t - 2))
  <2>1. PICK t \in AGES : OnItsWay(t) /\ EnoughAt(t) /\ RoomAt(Shifts(sample_width, t - 2))
    BY <1>3
  <2>2. t \in Int /\ t - 1 \in Int /\ t - 2 \in Int /\ (t - 2) + 1 = t - 1
    BY <1>1 DEF AGES
  <2>3. PICK p \in Nat, q \in Nat, n \in Nat :
            /\ p = Shifts(sample_width, t) /\ q = Shifts(sample_width, t - 1)
            /\ n = Shifts(sample_width, t - 2)
    BY <2>2, <1>1, ShiftsOf
  <2>4. ReadingAt(t) /\ PackingAt(t) /\ FormingAt(p) /\ WritingAt(p, q, n) /\ RoomAt(n)
    BY <2>1, <2>3 DEF OnItsWay
  <2>5. rdreq => rd_cnt < READ_WORDS /\ Len(smpl_fifo) > 0
    <3>1. rdreq => t < READ_WORDS
      BY <2>4 DEF ReadingAt, rdreq
    <3>2. t < READ_WORDS => rd_cnt = t /\ Len(smpl_fifo) > READ_WORDS - t
      BY <2>1, <2>2, <2>4, <1>1 DEF ReadingAt, EnoughAt
    <3> QED  BY <3>1, <3>2, <2>2, <1>1
  <2>6. SampleReadsServed
    <3>1. Len(smpl_fifo) > 0 => smpl_fifo # <<>>
      OBVIOUS
    <3> QED  BY <3>1, <2>5 DEF SampleReadsServed
  <2>7. pct_data_wrreq => data_wr_cnt < PCT_WORDS - 2
    <3>1. data_wr_cnt = IF p < PCT_WORDS - 2 THEN p ELSE 0
      BY <2>4 DEF FormingAt
    <3> QED  BY <3>1, <1>1
  <2>8. buff_wrreq => /\ wr_dis /\ q = n + 1 /\ buff_wrdata.kind = KindOf(q)
                      /\ q <= PCT_WORDS
    <3> PICK w \in WIDTHS : w = sample_width
      BY <1>1
    <3>1. q = n \/ q = n + 1
      <4>1. \/ Shifts(w, (t - 2) + 1) = Shifts(w, t - 2) + 1
            \/ Shifts(w, (t - 2) + 1) = Shifts(w, t - 2) + 0
        BY <2>2, ShiftsOf
      <4> QED  BY <4>1, <2>2, <2>3
    <3>2. q <= PCT_WORDS
      <4> PICK m \in Int, L \in Nat : m = t - 1 /\ L = LastArrives(w)
        BY <2>2, <1>1
      <4>1. m < L \/ m = L \/ m = L + 1 \/ m = L + 2 \/ m > L + 2
        OBVIOUS
      <4>2. PctWordsOf(w) \in Nat /\ PctWordsOf(w) >= 7
        BY Sizes
      <4>3. /\ m < L => q <= PctWordsOf(w) - 4
            /\ m = L => q = PctWordsOf(w) - 3
            /\ m = L + 1 => q = PctWordsOf(w) - 2
            /\ m = L + 2 => q = PctWordsOf(w) - 1
            /\ m > L + 2 => q = PctWordsOf(w)
        BY <2>3, ShiftsOf
      <4>4. q <= PctWordsOf(w)
        BY <4>1, <4>2, <4>3
      <4> QED  BY <4>4, <1>1
    <3> QED  BY <3>1, <3>2, <2>4 DEF WritingAt
  <2>9. WholePackets
    <3> SUFFICES ASSUME buff_wrreq
                 PROVE  CASE buff_wrdata.kind = "hdr_0" -> cut \/ place = PCT_WORDS - 1
                          [] buff_wrdata.kind = "hdr_1" -> place = 0
                          [] buff_wrdata.kind = "data" -> place \in 1..(PCT_WORDS - 2)
                          [] OTHER -> FALSE
      BY DEF WholePackets
    <3>1. IF wr_dis /\ n >= 1 THEN ~cut /\ place = n - 1 ELSE cut \/ place = PCT_WORDS - 1
      BY <2>4 DEF WritingAt
    <3>2. CASE n = 0
      <4>1. buff_wrdata.kind = "hdr_0"
        BY <3>2, <2>8 DEF KindOf
      <4> QED  BY <3>1, <3>2, <4>1
    <3>3. CASE n = 1
      <4>1. buff_wrdata.kind = "hdr_1" /\ place = 0
        BY <3>1, <3>3, <2>8 DEF KindOf
      <4> QED  BY <4>1
    <3>4. CASE n >= 2
      <4>1. buff_wrdata.kind = "data"
        BY <3>4, <2>8 DEF KindOf
      <4>2. place \in 1..(PCT_WORDS - 2)
        BY SMTT(30), <3>1, <3>4, <2>8, <1>1
      <4> QED  BY <4>1, <4>2
    <3> QED  BY <3>2, <3>3, <3>4
  <2>10. PacketFifoHasRoom
    <3>1. buff_wrreq => pct_used + (PCT_WORDS - n) <= PCT_BUFF_WORDS
      BY <2>4, <2>8 DEF RoomAt
    <3> QED  BY SMTT(30), <3>1, <2>8, <1>1 DEF PacketFifoHasRoom
  <2> QED  BY <2>5, <2>6, <2>7, <2>9, <2>10
<1> QED  BY <1>2, <1>3 DEF IInv, InStep

\* The signals keep to their ranges over an edge.
LEMMA TypeStep ==
    ASSUME IInv, NEW written \in BOOLEAN, NEW taken \in HostReads, Tick(written, taken)
    PROVE  TypeOK'
<1>1. TypeOK
  BY DEF IInv
<1>2. /\ sample_width' = sample_width /\ STAGES' = STAGES /\ READ_WORDS' = READ_WORDS
      /\ PCT_WORDS' = PCT_WORDS /\ GROUP' = GROUP
  BY TickParts, WidthKept
<1>3. /\ sample_width \in WIDTHS /\ READ_WORDS \in Nat /\ PCT_WORDS \in Nat /\ PCT_WORDS >= 7
      /\ STAGES \in Nat \ {0}
  BY <1>1, WidthFacts
<1>4. fsm' \in FsmStates /\ former' \in FormerStates
  BY TickParts DEF D2pFsm, FsmGoes, FormerFsm, FormerGoes, FsmStates, FormerStates
<1>5. rd_cnt' \in 0..READ_WORDS /\ rd_done' \in BOOLEAN
  <2>1. rdreq => rd_cnt < READ_WORDS
    BY Served
  <2>2. RdCnt
    BY TickParts
  <2>3. rd_cnt \in 0..READ_WORDS
    BY <1>1 DEF TypeOK
  <2>4. rd_done' \in BOOLEAN
    BY <2>2 DEF RdCnt
  <2>5. rd_cnt' \in 0..READ_WORDS
    BY <2>1, <2>2, <2>3, <1>3 DEF RdCnt
  <2> QED  BY <2>4, <2>5
<1>6. data_wr_cnt' \in 0..PCT_WORDS /\ end_cnt' \in 0..255
  <2>1. pct_data_wrreq => data_wr_cnt < PCT_WORDS - 2
    BY Served
  <2>2. /\ data_wr_cnt' = CASE former = "s1" -> 0
                            [] former # "s1" /\ pct_data_wrreq -> data_wr_cnt + 1
                            [] OTHER -> data_wr_cnt
        /\ end_cnt' = IF former = "s2" THEN (end_cnt - 1) % 256 ELSE 1
    BY TickParts DEF FormerCounters
  <2>3. data_wr_cnt \in 0..PCT_WORDS /\ end_cnt \in 0..255
    BY <1>1 DEF TypeOK
  <2>4. data_wr_cnt' \in 0..PCT_WORDS
    BY <2>1, <2>2, <2>3, <1>3
  <2>5. end_cnt' \in 0..255
    BY <2>2, <2>3
  <2> QED  BY <2>4, <2>5
<1>7. {wr_dis', smpl_buff_rdy', pct_buff_rdy', in_valid', wrreq_int', done', buff_wrreq'}
          \subseteq BOOLEAN
  <2>1. wr_dis' \in BOOLEAN
    BY <1>1, TickParts DEF WrDis, TypeOK
  <2>2. in_valid' \in BOOLEAN
    BY TickParts DEF BitPack, rdreq
  <2>3. wrreq_int' \in BOOLEAN
    BY TickParts DEF FormerRegs, pct_data_wrreq
  <2>4. {smpl_buff_rdy', pct_buff_rdy', done', buff_wrreq'} \subseteq BOOLEAN
    BY DEF Tick, D2pTick, TopRegs, EnoughSamples, PctBuffHasRoom
  <2> QED  BY <2>1, <2>2, <2>3, <2>4
<1>8. pipe' \in [1..STAGES -> Words] /\ pack_cnt' \in 0..(GROUP - 1)
  <2>1. PICK t \in Int : /\ t >= -1 /\ PackingAt(t)
                         /\ rdreq <=> t \in 0..(READ_WORDS - 1)
    <3>1. CASE Quiet
      <4>1. PackingAt(-1) /\ ~rdreq
        BY <1>1, <3>1, QuietPacking
      <4> QED  BY <4>1
    <3>2. CASE \E t \in AGES : OnItsWay(t)
      <4>1. PICK t \in AGES : OnItsWay(t)
        BY <3>2
      <4>2. t \in Int /\ t >= 0
        BY <1>1, <1>3, WidthFacts DEF AGES
      <4>3. rdreq <=> t < READ_WORDS
        BY <4>1 DEF OnItsWay, ReadingAt, rdreq
      <4> QED  BY <4>1, <4>2, <4>3, <1>3 DEF OnItsWay
    <3> QED  BY <3>1, <3>2 DEF IInv, InStep
  <2> QED  BY <2>1, <1>1, TickParts, PackingStep
<1>9. pack_reg' \in Numbers
  BY <1>1, TickParts, TypeFacts DEF BitPack
<1>10. regs' \in [1..3 -> Words] /\ buff_wrdata' \in Words
  <2>1. regs \in [1..3 -> Words] /\ pct_data \in Words
    BY <1>1, <1>3 DEF TypeOK, pct_data
  <2>2. pct_hdr_0 \in Words /\ pct_hdr_1 \in Words
    BY <1>1, TypeFacts DEF TypeOK, pct_hdr_0, pct_hdr_1, Words, DELAY
  <2>3. /\ buff_wrdata' = regs[1]
        /\ \E x, y, z \in Words : regs' = <<x, y, z>>
    BY <2>1, <2>2, TickParts DEF FormerRegs
  <2> QED  BY <2>1, <2>3
<1>11. /\ smpl_fifo' \in Seq(Numbers) /\ Len(smpl_fifo') <= SMPL_BUFF_WORDS
       /\ smpl_q' \in Numbers /\ rdusedw_reg' \in 0..SMPL_BUFF_WORDS
  BY <1>1, TickParts, SampleFifoStep
<1>12. cnt_wr' \in Numbers /\ cnt_rd' \in Numbers /\ delayed' \in [1..DELAY -> Numbers]
  <2>1. cnt_wr \in Numbers /\ cnt_rd \in Numbers /\ NUMBERS \in Nat /\ NUMBERS > 0
    BY <1>1, TypeFacts
  <2>2. \A k \in Numbers : (k + 1) % NUMBERS \in Numbers
    BY <2>1 DEF Numbers
  <2>3. DELAY \in Nat \ {0} /\ delayed \in [1..DELAY -> Numbers]
    BY <1>1 DEF DELAY, TypeOK
  <2>4. <<cnt_rd>> \o SubSeq(delayed, 1, DELAY - 1) \in [1..DELAY -> Numbers]
    BY <2>1, <2>3, ShiftIn
  <2> QED  BY <2>1, <2>2, <2>4, TickParts DEF SampleCounters
<1>13. wr_gap' \in 0..(WRITE_GAP - 1)
  <2>1. WRITE_GAP \in Nat /\ WRITE_GAP > 0 /\ wr_gap \in 0..(WRITE_GAP - 1)
    BY <1>1, RxPathAssumption DEF TypeOK
  <2> QED  BY <2>1, TickParts
<1>14. {pct_used', pct_wrusedw'} \subseteq 0..PCT_BUFF_WORDS
  BY <1>1, TickParts, FifoStep
<1>15. place' \in 0..(PCT_WORDS - 1)
  <2>1. place \in 0..(PCT_WORDS - 1)
    BY <1>1 DEF TypeOK
  <2>2. buff_wrreq /\ buff_wrdata.kind # "hdr_0" => place \in 0..(PCT_WORDS - 2)
    BY <1>3, Served DEF WholePackets
  <2>3. \/ place' = 0
        \/ place' = place
        \/ place' = place + 1 /\ buff_wrreq /\ buff_wrdata.kind # "hdr_0"
    BY TickParts DEF PacketFifo
  <2> QED  BY <2>1, <2>2, <2>3, <1>3
<1>16. first' \in Numbers /\ cut' \in BOOLEAN
  <2>1. first \in Numbers /\ buff_wrdata.nr \in Numbers
    BY <1>1 DEF TypeOK, Words
  <2> QED  BY <2>1, TickParts DEF PacketFifo
<1> QED  BY SMTT(30), <1>2, <1>3, <1>4, <1>5, <1>6, <1>7, <1>8, <1>9, <1>10, <1>11, <1>12, <1>13, <1>14,
            <1>15, <1>16 DEF TypeOK

-----------------------------------------------------------------------------
(* Stopping the path, and the theorems. *)

\* The path is off: its registers are clear, whatever is in the packet FIFO.
Off ==
    /\ RxInit
    /\ {pct_used, pct_wrusedw} \subseteq 0..PCT_BUFF_WORDS /\ pct_used <= pct_wrusedw + 1
    /\ place \in 0..(PCT_WORDS - 1) /\ first \in Numbers /\ cut \in BOOLEAN
    /\ cut \/ place = PCT_WORDS - 1

LEMMA Cleared == Off => IInv
<1> SUFFICES ASSUME Off PROVE IInv
  OBVIOUS
<1>0. RxInit /\ D2pInit /\ sample_width \in WIDTHS
  BY DEF Off, RxInit, D2pInit
<1>1. /\ STAGES = StagesOf(sample_width) /\ GROUP = GroupOf(sample_width)
      /\ READ_WORDS = ReadWordsOf(sample_width) /\ PCT_WORDS = PctWordsOf(sample_width)
  BY DEF STAGES, GROUP, READ_WORDS, PCT_WORDS
<1>2. /\ READ_WORDS \in Nat /\ STAGES \in Nat /\ PCT_WORDS \in Nat /\ PCT_WORDS >= 7
      /\ GROUP \in {1, 4, 8} /\ SMPL_BUFF_WORDS \in Nat /\ SMPL_BUFF_WORDS > 0
  BY <1>0, <1>1, Sizes
<1>3. /\ NUMBERS \in Nat /\ NUMBERS > 0 /\ WRITE_GAP \in Nat /\ WRITE_GAP > 0
  BY <1>2, RxPathAssumption
<1>4. 0 \in Numbers /\ NoWord \in Words
  BY <1>3 DEF Numbers, Words, NoWord
<1>5. /\ smpl_fifo \in Seq(Numbers) /\ Len(smpl_fifo) = 0
      /\ pipe \in [1..STAGES -> Words] /\ regs \in [1..3 -> Words]
      /\ delayed \in [1..DELAY -> Numbers]
  BY <1>0, <1>4 DEF RxInit, D2pInit
<1>6. /\ fsm \in FsmStates /\ former \in FormerStates /\ pack_cnt \in 0..(GROUP - 1)
      /\ wr_gap \in 0..(WRITE_GAP - 1)
  BY <1>0, <1>2, <1>3 DEF RxInit, D2pInit, FsmStates, FormerStates
<1>7. TypeOK
  <2>1. /\ rd_cnt \in 0..READ_WORDS /\ data_wr_cnt \in 0..PCT_WORDS /\ end_cnt \in 0..255
        /\ rdusedw_reg \in 0..SMPL_BUFF_WORDS /\ Len(smpl_fifo) <= SMPL_BUFF_WORDS
    BY <1>0, <1>2, <1>5 DEF RxInit, D2pInit
  <2>2. /\ {rd_done, wr_dis, smpl_buff_rdy, pct_buff_rdy, in_valid, wrreq_int, done, buff_wrreq}
              \subseteq BOOLEAN
        /\ pack_reg \in Numbers /\ buff_wrdata \in Words
        /\ {smpl_q, cnt_wr, cnt_rd} \subseteq Numbers
    BY <1>0, <1>4 DEF RxInit, D2pInit
  <2>3. /\ {pct_used, pct_wrusedw} \subseteq 0..PCT_BUFF_WORDS
        /\ place \in 0..(PCT_WORDS - 1) /\ first \in Numbers /\ cut \in BOOLEAN
    BY DEF Off
  <2> QED  BY <2>1, <2>2, <2>3, <1>0, <1>5, <1>6 DEF TypeOK
<1>8. PackingAt(0)
  <2>1. \A i \in 1..STAGES : pipe[i].kind = "none" /\ ~Completes(sample_width, 0 - i)
    BY <1>0, <1>2, AtRest DEF D2pInit, NoWord
  <2>2. PackedBy(sample_width, 0 - 1) % GROUP = 0 /\ ~(0 \in 1..READ_WORDS)
    BY <1>0, <1>1, <1>2, AtRest
  <2> QED  BY <2>1, <2>2, <1>0 DEF D2pInit, PackingAt
<1>9. FormingAt(0)
  BY <1>0, <1>2 DEF D2pInit, FormingAt
<1>10. WritingAt(0, 0, 0)
  BY <1>0, <1>2 DEF Off, D2pInit, WritingAt
<1>11. Quiet
  BY <1>0, <1>8, <1>9, <1>10 DEF D2pInit, Quiet
<1>12. EnoughQuiet /\ RoomQuiet
  BY <1>0, <1>5 DEF RxInit, D2pInit, EnoughQuiet, RoomQuiet
<1> QED  BY <1>7, <1>11, <1>12 DEF IInv, InStep, Off

LEMMA InitOff == Init => Off
<1> SUFFICES ASSUME Init PROVE Off
  OBVIOUS
<1>1. sample_width \in WIDTHS
  BY DEF Init, RxInit, D2pInit
<1>2. PCT_WORDS \in Nat /\ PCT_WORDS >= 7 /\ PCT_BUFF_WORDS \in Nat /\ SMPL_BUFF_WORDS > 0
      /\ SMPL_BUFF_WORDS \in Nat
  BY <1>1, Sizes DEF PCT_WORDS
<1>3. 0 \in Numbers
  BY <1>2, RxPathAssumption DEF Numbers
<1>4. PctInit
  BY DEF Init
<1>5. /\ pct_used \in 0..PCT_BUFF_WORDS /\ pct_wrusedw \in 0..PCT_BUFF_WORDS
      /\ pct_used <= pct_wrusedw + 1 /\ place \in 0..(PCT_WORDS - 1) /\ first \in Numbers
      /\ cut \in BOOLEAN /\ place = PCT_WORDS - 1
  <2>1. PCT_WORDS - 1 \in 0..(PCT_WORDS - 1) /\ 0 \in 0..PCT_BUFF_WORDS /\ 0 <= 0 + 1
    BY <1>2
  <2>2. pct_used = 0 /\ pct_wrusedw = 0 /\ place = PCT_WORDS - 1 /\ first = 0 /\ cut = FALSE
    BY <1>4 DEF PctInit
  <2> QED  BY <2>1, <2>2, <1>3
<1> QED  BY <1>5 DEF Off, Init

\* Closing the stream and clearing rx_en both leave the path off.
LEMMA StopOff ==
    ASSUME TypeOK, pct_used <= pct_wrusedw + 1, Close \/ Disable
    PROVE  Off'
<1>1. CASE Close
  <2>1. RxReset /\ D2pReset /\ sample_width' \in WIDTHS
    BY <1>1 DEF Close, RxReset, D2pReset
  <2>2. PCT_WORDS' = PctWordsOf(sample_width')
    BY DEF PCT_WORDS
  <2>3. PCT_WORDS' \in Nat /\ PCT_WORDS' >= 7
    BY <2>1, <2>2, Sizes
  <2>4. TypeOK /\ PCT_BUFF_WORDS \in Nat /\ 0 \in Numbers
    BY WidthFacts, TypeFacts
  <2>5. /\ pct_used' \in 0..PCT_BUFF_WORDS /\ pct_wrusedw' \in 0..PCT_BUFF_WORDS
        /\ pct_used' <= pct_wrusedw' + 1 /\ place' \in 0..(PCT_WORDS' - 1)
        /\ first' \in Numbers /\ cut' \in BOOLEAN /\ place' = PCT_WORDS' - 1
    <3>0. PICK d \in Nat : d >= 7 /\ d = PCT_WORDS'
      BY <2>3
    <3>1. d - 1 \in 0..(d - 1) /\ 0 \in 0..PCT_BUFF_WORDS /\ 0 <= 0 + 1
      <4>1. d \in Nat /\ d >= 7 /\ PCT_BUFF_WORDS \in Nat
        BY <3>0, <2>4
      <4> QED  BY <4>1
    <3>2. /\ pct_used' = 0 /\ pct_wrusedw' = 0 /\ place' = PCT_WORDS' - 1 /\ first' = 0
          /\ cut' = FALSE
      BY <1>1 DEF Close
    <3> QED  BY <3>0, <3>1, <3>2, <2>4
  <2> QED  BY <2>1, <2>5 DEF Off, RxInit, D2pInit, RxReset, D2pReset
<1>2. CASE Disable
  <2>1. /\ RxReset /\ D2pReset /\ sample_width' \in WIDTHS /\ cut' = TRUE
        /\ UNCHANGED <<sample_width, pct_used, pct_wrusedw, place, first>>
    BY <1>2 DEF Disable, RxReset, D2pReset, pctVars
  <2>2. PCT_WORDS' = PCT_WORDS
    BY <2>1, WidthKept
  <2>3. /\ pct_used' \in 0..PCT_BUFF_WORDS /\ pct_wrusedw' \in 0..PCT_BUFF_WORDS
        /\ pct_used' <= pct_wrusedw' + 1 /\ place' \in 0..(PCT_WORDS' - 1)
        /\ first' \in Numbers /\ cut'
    BY <2>1, <2>2, Zenon DEF TypeOK
  <2> QED  BY <2>1, <2>3 DEF Off, RxInit, D2pInit, RxReset, D2pReset
<1> QED  BY <1>1, <1>2

LEMMA NextIInv == IInv /\ [Next]_vars => IInv'
<1> SUFFICES ASSUME IInv, [Next]_vars PROVE IInv'
  OBVIOUS
<1>1. CASE \E written \in BOOLEAN, taken \in HostReads : Tick(written, taken)
  <2>1. PICK written \in BOOLEAN, taken \in HostReads : Tick(written, taken)
    BY <1>1
  <2>2. TypeOK'
    BY <2>1, TypeStep
  <2>3. /\ TypeOK /\ pct_used <= pct_wrusedw + 1
        /\ \/ Quiet /\ EnoughQuiet /\ RoomQuiet
           \/ \E t \in AGES : OnItsWay(t) /\ EnoughAt(t) /\ RoomAt(Shifts(sample_width, t - 2))
    BY DEF IInv, InStep
  <2>4. pct_used' <= pct_wrusedw' + 1
    BY <2>1, <2>3, TickParts, FifoStep
  <2>5. CASE Quiet /\ EnoughQuiet /\ RoomQuiet
    <3>1. \/ /\ 0 \in AGES' /\ OnItsWay(0)' /\ EnoughAt(0)'
             /\ RoomAt(Shifts(sample_width, 0 - 2))'
          \/ Quiet' /\ EnoughQuiet' /\ RoomQuiet'
      <4>1. fsm \in {"idle", "check_pct_buff"}
        BY <2>5 DEF Quiet
      <4> QED  BY <4>1, <2>1, <2>3, <2>5, QuietTick
    <3> QED  BY <3>1, <2>2, <2>4 DEF IInv, InStep
  <2>6. CASE \E t \in AGES : OnItsWay(t) /\ EnoughAt(t) /\ RoomAt(Shifts(sample_width, t - 2))
    <3>1. PICK t \in AGES : OnItsWay(t) /\ EnoughAt(t) /\ RoomAt(Shifts(sample_width, t - 2))
      BY <2>6
    <3>2. \/ /\ t + 1 \in AGES' /\ OnItsWay(t + 1)' /\ EnoughAt(t + 1)'
             /\ RoomAt(Shifts(sample_width, (t + 1) - 2))'
          \/ Quiet' /\ EnoughQuiet' /\ RoomQuiet'
      BY <2>1, <2>3, <3>1, PacketTick
    <3> QED  BY <3>2, <2>2, <2>4 DEF IInv, InStep
  <2> QED  BY <2>3, <2>5, <2>6
<1>2. CASE Close \/ Disable
  <2>1. Off'
    BY <1>2, StopOff DEF IInv, InStep
  <2> QED  BY <2>1, Cleared, PTL
<1>3. CASE UNCHANGED vars
  BY <1>3 DEF IInv, vars, d2pVars, rxVars, pctVars, TypeOK, InStep, Quiet, OnItsWay, EnoughAt,
         EnoughQuiet, RoomAt, RoomQuiet, ReadingAt, PackingAt, FormingAt, WritingAt, AGES,
         STAGES, GROUP, READ_WORDS, PCT_WORDS
<1> QED  BY <1>1, <1>2, <1>3 DEF Next

\* The invariant holds in every state: the packet on its way is always where its
\* age says, and the two fills that were looked at for it are still good.
THEOREM Invariant == Spec => []IInv
<1>1. Init => IInv
  BY InitOff, Cleared
<1>2. IInv /\ [Next]_vars => IInv'
  BY NextIInv
<1> QED  BY <1>1, <1>2, PTL DEF Spec

\* Every signal of the RX path keeps to its range: no counter of reads, of words
\* formed or of words in the packet FIFO runs past its end.
THEOREM TypeCorrect == Spec => []TypeOK
<1>1. IInv => TypeOK
  BY DEF IInv
<1> QED  BY <1>1, Invariant, PTL

\* The FSM, bit_pack, the packet former and the write to the packet FIFO, which
\* exchange no more than valid bits and one done flag, stay in step.
THEOREM StaysInStep == Spec => []InStep
<1>1. IInv => InStep
  BY DEF IInv
<1> QED  BY <1>1, Invariant, PTL

\* data2packets_fsm never reads the sample FIFO empty, for any sizes of the FIFO and
\* of a packet, any rate of the receiver and any stop: the fill that smpl_buff_rdy
\* is taken from is old, and is not looked at again while a packet is read.
THEOREM ReadsAreServed == Spec => []SampleReadsServed
<1>1. IInv => SampleReadsServed
  BY Served
<1> QED  BY <1>1, Invariant, PTL

\* What is written to the packet FIFO is a sequence of whole packets, and only
\* rx_en, cleared while the stream is open, cuts the one on its way.
THEOREM PacketsAreWhole == Spec => []WholePackets
<1>1. IInv => WholePackets
  BY Served
<1> QED  BY <1>1, Invariant, PTL

\* The packet FIFO is never full when a word is written to it: pct_buff_rdy, taken
\* once for a packet from a fill that lags by a word, is enough.
THEOREM PacketFifoNeverFull == Spec => []PacketFifoHasRoom
<1>1. IInv => PacketFifoHasRoom
  BY Served
<1> QED  BY <1>1, Invariant, PTL

-----------------------------------------------------------------------------
(***************************************************************************)
(* That the words of a packet carry the numbers that its header promises:  *)
(* invariant OInv, on top of IInv, under KeepsUp: if the sample FIFO ever  *)
(* overflowed, the words lost would be missing from the count.             *)
(***************************************************************************)

OInv == IInv /\ InOrder

-----------------------------------------------------------------------------
(* Counting modulo NUMBERS. *)

LEMMA Divided ==
    ASSUME NEW N \in Nat \ {0}, NEW a \in Nat
    PROVE  (a % N) \in 0..(N - 1) /\ a = N * (a \div N) + (a % N) /\ a \div N \in Nat
OBVIOUS

LEMMA Remainder ==
    ASSUME NEW N \in Nat \ {0}, NEW q \in Nat, NEW r \in 0..(N - 1)
    PROVE  (N * q + r) % N = r
OBVIOUS

LEMMA ModPlus ==
    ASSUME NEW N \in Nat \ {0}, NEW a \in Nat, NEW m \in Nat
    PROVE  ((a % N) + m) % N = (a + m) % N
<1> DEFINE r == a % N
           x == r + m
<1>1. r \in 0..(N - 1) /\ a \div N \in Nat /\ a = N * (a \div N) + r
  BY Divided
<1>2. x \in Nat /\ (x % N) \in 0..(N - 1) /\ x \div N \in Nat /\ x = N * (x \div N) + (x % N)
  <2>1. x \in Nat
    BY <1>1
  <2> HIDE DEF x
  <2> QED  BY <2>1, Divided
<1>3. a + m = N * ((a \div N) + (x \div N)) + (x % N)
  BY <1>1, <1>2
<1>4. (a \div N) + (x \div N) \in Nat
  BY <1>1, <1>2
<1>5. (a + m) % N = x % N
  <2> HIDE DEF x, r
  <2> QED  BY <1>2, <1>3, <1>4, Remainder
<1> QED  BY <1>5

LEMMA AfterFacts ==
    ASSUME NUMBERS \in Nat \ {0}, NEW b \in Numbers
    PROVE  /\ After(b, 0) = b
           /\ \A n \in Nat : After(b, n) \in Numbers
           /\ \A n, m \in Nat : After(After(b, n), m) = After(b, n + m)
<1>1. b \in Nat /\ b < NUMBERS
  BY DEF Numbers
<1>2. After(b, 0) = b
  <2>1. NUMBERS * 0 + b = b /\ 0 \in Nat /\ b \in 0..(NUMBERS - 1) /\ b + 0 = b
    BY <1>1
  <2>2. (NUMBERS * 0 + b) % NUMBERS = b
    BY <2>1, Remainder
  <2> QED  BY <2>1, <2>2 DEF After
<1>3. ASSUME NEW n \in Nat, NEW m \in Nat
      PROVE  After(b, n) \in Numbers /\ After(After(b, n), m) = After(b, n + m)
  <2> PICK a \in Nat : a = b + n
    BY <1>1
  <2>1. (a % NUMBERS) \in 0..(NUMBERS - 1)
    BY Divided
  <2>2. ((a % NUMBERS) + m) % NUMBERS = (a + m) % NUMBERS
    BY ModPlus
  <2>3. a + m = b + (n + m)
    BY <1>1
  <2> QED  BY <2>1, <2>2, <2>3 DEF After, Numbers
<1> QED  BY <1>2, <1>3

LEMMA AfterNext ==
    ASSUME NUMBERS \in Nat \ {0}
    PROVE  \A b \in Numbers, n \in Nat : After(After(b, n), 1) = After(b, n + 1)
BY AfterFacts

-----------------------------------------------------------------------------
(* Which sample words a word of a packet is made of. *)

\* The word that the n-th sample word completes begins in the one before it, if
\* samples are packed.
LEMMA FirstOfGroup ==
    ASSUME NEW G \in {4, 8}, NEW n \in Nat, n >= 1, (n - 1) % G # 0
    PROVE  LET k == n - (n + G - 1) \div G
           IN  k >= 1 /\ ((k - 1) \div (G - 1)) * G + ((k - 1) % (G - 1)) = n - 2
<1>1. CASE G = 4
  <2>1. n + G - 1 = n + 3
    BY <1>1
  <2>2. PICK a \in Nat, r \in 2..4 : n = 4 * a + r
    <3>1. (n - 1) \div 4 \in Nat /\ n = 4 * ((n - 1) \div 4) + (((n - 1) % 4) + 1)
      OBVIOUS
    <3>2. ((n - 1) % 4) + 1 \in 2..4
      BY <1>1
    <3> QED  BY <3>1, <3>2
  <2>3. (n + 3) \div 4 = a + 1
    BY <2>2
  <2>4. n - (n + 3) \div 4 = 3 * a + (r - 1)
    BY <2>2, <2>3
  <2>5. (3 * a + (r - 2)) \div 3 = a /\ (3 * a + (r - 2)) % 3 = r - 2
    OBVIOUS
  <2>6. (n - (n + 3) \div 4) - 1 = 3 * a + (r - 2)
    BY <2>4
  <2> QED  BY <1>1, <2>1, <2>2, <2>4, <2>5, <2>6
<1>2. CASE G = 8
  <2>1. n + G - 1 = n + 7
    BY <1>2
  <2>2. PICK a \in Nat, r \in 2..8 : n = 8 * a + r
    <3>1. (n - 1) \div 8 \in Nat /\ n = 8 * ((n - 1) \div 8) + (((n - 1) % 8) + 1)
      OBVIOUS
    <3>2. ((n - 1) % 8) + 1 \in 2..8
      BY <1>2
    <3> QED  BY <3>1, <3>2
  <2>3. (n + 7) \div 8 = a + 1
    BY <2>2
  <2>4. n - (n + 7) \div 8 = 7 * a + (r - 1)
    BY <2>2, <2>3
  <2>5. (7 * a + (r - 2)) \div 7 = a /\ (7 * a + (r - 2)) % 7 = r - 2
    OBVIOUS
  <2>6. (n - (n + 7) \div 8) - 1 = 7 * a + (r - 2)
    BY <2>4
  <2> QED  BY <1>2, <2>1, <2>2, <2>4, <2>5, <2>6
<1> QED  BY <1>1, <1>2

LEMMA FirstOfWord ==
    ASSUME NEW width \in WIDTHS, NEW n \in Int, Completes(width, n)
    PROVE  /\ n \in 1..ReadWordsOf(width) /\ Formed(width, n) \in Nat /\ Formed(width, n) >= 1
           /\ GroupOf(width) = 1 => FirstIn(width, Formed(width, n) - 1) = n - 1
           /\ GroupOf(width) # 1 => n >= 2 /\ FirstIn(width, Formed(width, n) - 1) = n - 2
<1>1. n \in 1..ReadWordsOf(width) /\ (GroupOf(width) = 1 \/ (n - 1) % GroupOf(width) # 0)
  BY DEF Completes
<1>2. n \in Nat /\ n >= 1 /\ n \in 0..ReadWordsOf(width) /\ Formed(width, n) \in Nat
  BY <1>1, FormedOf, Sizes
<1>3. CASE GroupOf(width) = 1 /\ PackedOf(width) = 1
  <2>1. Formed(width, n) = n
    BY <1>3 DEF Formed
  <2>2. (n - 1) \div 1 = n - 1 /\ (n - 1) % 1 = 0
    BY <1>2
  <2>3. FirstIn(width, n - 1) = n - 1
    BY <1>2, <1>3, <2>2 DEF FirstIn
  <2> QED  BY <1>1, <1>2, <1>3, <2>1, <2>3
<1>4. CASE GroupOf(width) \in {4, 8} /\ PackedOf(width) = GroupOf(width) - 1
  <2> PICK G \in {4, 8} : G = GroupOf(width)
    BY <1>4
  <2>1. Formed(width, n) = n - (n + G - 1) \div G
    BY <1>4 DEF Formed
  <2>2. (n - 1) % G # 0
    BY <1>1, <1>4
  <2> DEFINE k == n - (n + G - 1) \div G
  <2>3. k >= 1 /\ ((k - 1) \div (G - 1)) * G + ((k - 1) % (G - 1)) = n - 2
    BY <1>2, <2>2, FirstOfGroup
  <2>4. FirstIn(width, k - 1) = ((k - 1) \div (G - 1)) * G + ((k - 1) % (G - 1))
    BY <1>4 DEF FirstIn
  <2>5. n >= 2
    <3>1. n = 1 => (n - 1) % G = 0
      OBVIOUS
    <3> QED  BY <3>1, <1>2, <2>2
  <2> QED  BY <1>1, <1>2, <1>4, <2>1, <2>3, <2>4, <2>5
<1> QED  BY <1>3, <1>4, Sizes

\* The first word of a packet is formed before the count of the first sample read has
\* gone through the delay chain, except with 14 bits.
LEMMA FirstWordEarly ==
    ASSUME NEW width \in WIDTHS, NEW n \in Int, Completes(width, n),
           Formed(width, n) = 1, width # 14
    PROVE  n + StagesOf(width) < DELAY
<1>1. width \in {12, 16}
  BY Sizes
<1>2. n \in Nat /\ n >= 1
  BY FirstOfWord
<1>3. CASE width = 16
  BY <1>2, <1>3 DEF Formed, GroupOf, StagesOf, DELAY
<1>4. CASE width = 12
  <2>1. n - (n + 4 - 1) \div 4 = 1 /\ StagesOf(width) = 4 /\ GroupOf(width) = 4
    BY <1>4 DEF Formed, GroupOf, StagesOf
  <2>2. (n - 1) % 4 # 0
    BY <2>1 DEF Completes
  <2>3. n <= 2
    BY <1>2, <2>1, <2>2
  <2> QED  BY <1>2, <2>1, <2>3 DEF DELAY
<1> QED  BY <1>1, <1>3, <1>4

-----------------------------------------------------------------------------
(* One edge, part by part. *)

LEMMA NumberFacts ==
    ASSUME TypeOK
    PROVE  /\ NUMBERS \in Nat \ {0} /\ NUMBERS >= SMPL_BUFF_WORDS
           /\ cnt_rd \in Numbers /\ cnt_wr \in Numbers /\ Numbers \subseteq Nat
           /\ smpl_fifo \in Seq(Numbers) /\ Len(smpl_fifo) \in Nat
<1>1. NUMBERS \in Nat \ {0} /\ cnt_rd \in Numbers /\ cnt_wr \in Numbers
  BY TypeFacts
<1>2. smpl_fifo \in Seq(Numbers)
  BY DEF TypeOK
<1> QED  BY <1>1, <1>2, RxPathAssumption DEF Numbers

LEMMA PackedNext ==
    ASSUME NEW width \in WIDTHS, NEW t \in Int
    PROVE  /\ PackedBy(width, t) \in 0..ReadWordsOf(width)
           /\ t <= 0 => PackedBy(width, t) = 0
           /\ t \in 0..ReadWordsOf(width) => PackedBy(width, t) = t
           /\ t >= ReadWordsOf(width) => PackedBy(width, t) = ReadWordsOf(width)
           /\ PackedBy(width, t + 1) = PackedBy(width, t)
                  + (IF t \in 0..(ReadWordsOf(width) - 1) THEN 1 ELSE 0)
<1>1. ReadWordsOf(width) \in Nat
  BY Sizes
<1> QED  BY <1>1 DEF PackedBy

\* The word received joins those in the sample FIFO at the number that follows theirs.
LEMMA FifoNumberStep ==
    ASSUME TypeOK, FifoNumbered, NEW written \in BOOLEAN,
           written => Len(smpl_fifo) < SMPL_BUFF_WORDS,
           rdreq => smpl_fifo # <<>>,
           SampleFifo(written), SampleCounters(written)
    PROVE  /\ FifoNumbered'
           /\ rdreq => smpl_q' = cnt_rd /\ cnt_rd' = After(cnt_rd, 1)
           /\ ~rdreq => cnt_rd' = cnt_rd
<1> DEFINE rest == IF rdreq THEN Tail(smpl_fifo) ELSE smpl_fifo
           new == IF written THEN <<cnt_wr>> ELSE <<>>
           k == IF rdreq THEN 1 ELSE 0
<1>1. /\ NUMBERS \in Nat \ {0} /\ cnt_rd \in Numbers /\ cnt_wr \in Numbers
      /\ smpl_fifo \in Seq(Numbers) /\ Len(smpl_fifo) \in Nat
  BY NumberFacts
<1>2. /\ cnt_wr = After(cnt_rd, Len(smpl_fifo))
      /\ \A i \in 1..Len(smpl_fifo) : smpl_fifo[i] = After(cnt_rd, i - 1)
  BY DEF FifoNumbered
<1>3. smpl_fifo' = rest \o new /\ (rdreq => smpl_q' = Head(smpl_fifo))
  BY DEF SampleFifo, Received
<1>4. /\ cnt_wr' = IF written THEN After(cnt_wr, 1) ELSE cnt_wr
      /\ cnt_rd' = IF rdreq THEN After(cnt_rd, 1) ELSE cnt_rd
  BY DEF SampleCounters, After
<1>5. cnt_rd' = After(cnt_rd, k) /\ k \in {0, 1}
  BY <1>1, <1>4, AfterFacts
<1>6. /\ rest \in Seq(Numbers) /\ Len(rest) = Len(smpl_fifo) - k /\ Len(rest) \in Nat
      /\ \A i \in 1..Len(rest) : rest[i] = smpl_fifo[i + k]
  <2>1. CASE rdreq
    <3>1. smpl_fifo # <<>>
      BY <2>1
    <3>2. /\ Tail(smpl_fifo) \in Seq(Numbers) /\ Len(Tail(smpl_fifo)) = Len(smpl_fifo) - 1
          /\ \A i \in 1..Len(Tail(smpl_fifo)) : Tail(smpl_fifo)[i] = smpl_fifo[i + 1]
      BY <1>1, <3>1, HeadTailProperties
    <3> QED  BY <2>1, <3>2
  <2>2. CASE ~rdreq
    BY <2>2, <1>1
  <2> QED  BY <2>1, <2>2
<1>7. \A i \in 1..Len(rest) : rest[i] = After(cnt_rd', i - 1)
  <2> TAKE i \in 1..Len(rest)
  <2>1. i + k \in 1..Len(smpl_fifo) /\ (i + k) - 1 = k + (i - 1) /\ i - 1 \in Nat
    BY <1>5, <1>6
  <2>2. rest[i] = After(cnt_rd, k + (i - 1))
    BY <2>1, <1>2, <1>6
  <2>3. k \in Nat
    BY <1>5
  <2> HIDE DEF rest, k
  <2>4. After(After(cnt_rd, k), i - 1) = After(cnt_rd, k + (i - 1))
    BY <2>1, <2>3, <1>1, AfterFacts
  <2> QED  BY <2>2, <2>4, <1>5
<1>8. cnt_wr = After(cnt_rd', Len(rest))
  <2>1. Len(smpl_fifo) = k + Len(rest) /\ k \in Nat
    BY <1>5, <1>6, <1>1
  <2> HIDE DEF rest, k
  <2> QED  BY <2>1, <1>1, <1>2, <1>5, <1>6, AfterFacts
<1>9. cnt_rd' \in Numbers
  BY <1>1, <1>5, AfterFacts
<1>10. FifoNumbered'
  <2>1. CASE written
    <3>1. smpl_fifo' = Append(rest, cnt_wr)
      BY <2>1, <1>1, <1>3, <1>6
    <3>2. /\ Len(smpl_fifo') = Len(rest) + 1
          /\ \A i \in 1..(Len(rest) + 1) :
                 smpl_fifo'[i] = IF i <= Len(rest) THEN rest[i] ELSE cnt_wr
      <4> HIDE DEF rest
      <4> QED  BY <3>1, <1>1, <1>6
    <3>3. cnt_wr' = After(cnt_rd', Len(rest) + 1)
      <4> HIDE DEF rest
      <4> QED  BY <2>1, <1>1, <1>4, <1>6, <1>8, <1>9, AfterNext
    <3>4. ASSUME NEW i \in 1..(Len(rest) + 1)
          PROVE  smpl_fifo'[i] = After(cnt_rd', i - 1)
      <4> HIDE DEF rest
      <4>1. CASE i <= Len(rest)
        BY <4>1, <3>2, <1>6, <1>7
      <4>2. CASE i = Len(rest) + 1
        <5>1. ~(i <= Len(rest)) /\ i - 1 = Len(rest)
          BY <4>2, <1>6
        <5> QED  BY <5>1, <3>2, <1>8
      <4> QED  BY <4>1, <4>2, <1>6
    <3> QED  BY <3>2, <3>3, <3>4 DEF FifoNumbered
  <2>2. CASE ~written
    <3>1. smpl_fifo' = rest /\ cnt_wr' = cnt_wr
      BY <2>2, <1>3, <1>4, <1>6
    <3> HIDE DEF rest
    <3> QED  BY <3>1, <1>7, <1>8 DEF FifoNumbered
  <2> QED  BY <2>1, <2>2
<1>11. rdreq => smpl_q' = cnt_rd
  <2>1. rdreq => Head(smpl_fifo) = smpl_fifo[1] /\ 1 \in 1..Len(smpl_fifo) /\ 1 - 1 = 0
    BY <1>1
  <2> QED  BY <2>1, <1>1, <1>2, <1>3, AfterFacts
<1> QED  BY <1>4, <1>10, <1>11

\* The delay chain and the count of the samples read.
LEMMA CountStep ==
    ASSUME TypeOK, UNCHANGED sample_width, NEW t \in Int, NEW b \in Numbers,
           CountNumbered(b, t), rdreq <=> t \in 0..(READ_WORDS - 1),
           NEW written \in BOOLEAN, SampleCounters(written)
    PROVE  CountNumbered(b, t + 1)'
<1>1. /\ NUMBERS \in Nat \ {0} /\ cnt_rd \in Numbers /\ sample_width \in WIDTHS
      /\ READ_WORDS = ReadWordsOf(sample_width)
  BY NumberFacts, WidthFacts
<1> PICK w \in WIDTHS : w = sample_width
  BY <1>1
<1>2. cnt_rd = After(b, PackedBy(w, t))
  BY DEF CountNumbered
<1>3. cnt_rd' = IF rdreq THEN After(cnt_rd, 1) ELSE cnt_rd
  BY DEF SampleCounters, After
<1>4. cnt_rd' = After(b, PackedBy(w, t + 1))
  <2>1. PackedBy(w, t) \in Nat
    BY PackedNext, Sizes
  <2>2. PackedBy(w, t + 1) = PackedBy(w, t) + (IF rdreq THEN 1 ELSE 0)
    BY <1>1, PackedNext
  <2> QED  BY <2>1, <2>2, <1>1, <1>2, <1>3, AfterFacts
<1>5. /\ delayed'[1] = cnt_rd
      /\ \A i \in 2..DELAY : delayed'[i] = delayed[i - 1]
  <2>1. DELAY \in Nat \ {0} /\ delayed \in [1..DELAY -> Numbers]
    BY DEF DELAY, TypeOK
  <2>2. delayed' = <<cnt_rd>> \o SubSeq(delayed, 1, DELAY - 1)
    BY DEF SampleCounters
  <2> QED  BY <2>1, <2>2, <1>1, ShiftIn
<1>6. ASSUME NEW i \in 1..DELAY
      PROVE  delayed'[i] = After(b, PackedBy(w, (t + 1) - i))
  <2>1. CASE i = 1
    <3>1. (t + 1) - i = t
      BY <2>1
    <3> QED  BY <2>1, <3>1, <1>2, <1>5
  <2>2. CASE i # 1
    <3>1. i \in 2..DELAY /\ i - 1 \in 1..DELAY /\ (t + 1) - i = t - (i - 1)
      BY <2>2 DEF DELAY
    <3> QED  BY <3>1, <1>5 DEF CountNumbered
  <2> QED  BY <2>1, <2>2
<1> QED  BY <1>4, <1>6 DEF CountNumbered

LEMMA PackingNumberStep ==
    ASSUME TypeOK, UNCHANGED sample_width, NEW t \in Int, t >= -1, NEW b \in Numbers,
           PackingAt(t), PackingNumbered(b, t), CountNumbered(b, t),
           rdreq <=> t \in 0..(READ_WORDS - 1), rdreq => smpl_q' = cnt_rd,
           BitPack(smpl_q)
    PROVE  PackingNumbered(b, t + 1)'
<1>1. /\ NUMBERS \in Nat \ {0} /\ sample_width \in WIDTHS /\ STAGES \in Nat \ {0}
      /\ READ_WORDS \in Nat /\ READ_WORDS = ReadWordsOf(sample_width)
      /\ GROUP = GroupOf(sample_width)
  BY NumberFacts, WidthFacts
<1>2. READ_WORDS' = READ_WORDS /\ STAGES' = STAGES
  BY WidthKept
<1> PICK w \in WIDTHS : w = sample_width
  BY <1>1
<1>3. /\ t \in 1..READ_WORDS => smpl_q = After(b, t - 1)
      /\ t \in 2..(READ_WORDS + 1) => pack_reg = After(b, t - 2)
      /\ \A i \in 1..STAGES : Completes(w, t - i) =>
             pipe[i].nr = After(b, FirstIn(w, Formed(w, t - i) - 1))
  BY DEF PackingNumbered
<1>4. t + 1 \in 1..READ_WORDS => smpl_q' = After(b, (t + 1) - 1)
  <2>1. t + 1 \in 1..READ_WORDS => rdreq /\ PackedBy(w, t) = t /\ (t + 1) - 1 = t
    BY <1>1, PackedNext
  <2> QED  BY <2>1 DEF CountNumbered
<1>5. t + 1 \in 2..(READ_WORDS + 1) => pack_reg' = After(b, (t + 1) - 2)
  <2>1. t + 1 \in 2..(READ_WORDS + 1) => t \in 1..READ_WORDS /\ (t + 1) - 2 = t - 1
    BY <1>1
  <2>2. t \in 1..READ_WORDS => pack_reg' = smpl_q
    BY DEF PackingAt, BitPack
  <2> QED  BY <2>1, <2>2, <1>3
<1>6. /\ \A i \in 2..STAGES : pipe'[i] = pipe[i - 1]
      /\ Completes(w, t) => pipe'[1].nr = IF GROUP = 1 THEN smpl_q ELSE pack_reg
  BY PackingStep
<1>7. Completes(w, t) => pipe'[1].nr = After(b, FirstIn(w, Formed(w, t) - 1))
  <2> SUFFICES ASSUME Completes(w, t)
               PROVE  pipe'[1].nr = After(b, FirstIn(w, Formed(w, t) - 1))
    OBVIOUS
  <2>1. /\ t \in 1..READ_WORDS
        /\ GROUP = 1 => FirstIn(w, Formed(w, t) - 1) = t - 1
        /\ GROUP # 1 => t >= 2 /\ FirstIn(w, Formed(w, t) - 1) = t - 2
    BY <1>1, FirstOfWord
  <2>2. GROUP # 1 => t \in 2..(READ_WORDS + 1)
    BY <2>1, <1>1
  <2> QED  BY <2>1, <2>2, <1>3, <1>6
<1>8. ASSUME NEW i \in 1..STAGES, Completes(w, (t + 1) - i)
      PROVE  pipe'[i].nr = After(b, FirstIn(w, Formed(w, (t + 1) - i) - 1))
  <2>1. CASE i = 1
    <3>1. (t + 1) - i = t
      BY <2>1
    <3> QED  BY <2>1, <3>1, <1>7, <1>8
  <2>2. CASE i # 1
    <3>1. i \in 2..STAGES /\ i - 1 \in 1..STAGES /\ (t + 1) - i = t - (i - 1)
      BY <2>2, <1>1
    <3> QED  BY <3>1, <1>3, <1>6, <1>8
  <2> QED  BY <2>1, <2>2
<1> QED  BY <1>2, <1>4, <1>5, <1>8 DEF PackingNumbered

\* The header is loaded with the number of the first sample, and its words follow it.
LEMMA FormingNumberStep ==
    ASSUME TypeOK, UNCHANGED sample_width, NEW b \in Numbers,
           NEW p \in 0..PCT_WORDS, NEW q \in 0..PCT_WORDS, NEW word \in BOOLEAN,
           FormingNumbered(b, p),
           q = p \/ q = p + 1, p = 0 /\ q = 1 => word,
           word => q <= PCT_WORDS - 2
                   /\ pct_data.nr = After(b, FirstIn(sample_width, q - 1)),
           p = 0 /\ word /\ sample_width # 14 => delayed[DELAY] = b,
           q = p + 1 /\ ~word => q >= PCT_WORDS - 1,
           p = 0 /\ word => regs' = <<pct_hdr_0, pct_hdr_1, pct_data>>,
           p >= 1 /\ q = p + 1 =>
               regs' = <<regs[2], regs[3], IF word THEN pct_data ELSE regs[3]>>,
           p >= 1 /\ q = p => regs' = <<regs[1], regs[2], regs[3]>>
    PROVE  FormingNumbered(b, q)'
<1>1. PCT_WORDS \in Nat /\ PCT_WORDS' = PCT_WORDS /\ sample_width \in WIDTHS
  BY WidthFacts, WidthKept
<1> PICK w \in WIDTHS : w = sample_width
  BY <1>1
<1>2. p >= 1 => \A i \in 1..3 : p + i - 1 <= PCT_WORDS => NrOfWord(w, b, p + i - 1, regs[i].nr)
  BY DEF FormingNumbered
<1>3. SUFFICES ASSUME q >= 1, NEW i \in 1..3, q + i - 1 <= PCT_WORDS
               PROVE  NrOfWord(w, b, q + i - 1, regs'[i].nr)
  BY <1>1 DEF FormingNumbered
<1>4. CASE p = 0
  <2>1. q = 1 /\ word /\ regs' = <<pct_hdr_0, pct_hdr_1, pct_data>>
    BY <1>3, <1>4
  <2>2. CASE i = 1
    BY <2>1, <2>2 DEF NrOfWord
  <2>3. CASE i = 2
    <3>1. regs'[i].nr = delayed[DELAY]
      BY <2>1, <2>3 DEF pct_hdr_1
    <3> QED  BY <2>1, <2>3, <3>1, <1>4 DEF NrOfWord
  <2>4. CASE i = 3
    <3>1. regs'[i] = pct_data
      BY <2>1, <2>4
    <3>2. q + i - 1 = 3 /\ q - 1 = 3 - 3
      BY <2>1, <2>4
    <3> QED  BY <2>1, <3>1, <3>2 DEF NrOfWord
  <2> QED  BY <2>2, <2>3, <2>4
<1>5. CASE p >= 1 /\ q = p + 1
  <2>1. regs' = <<regs[2], regs[3], IF word THEN pct_data ELSE regs[3]>>
    BY <1>5
  <2>2. CASE i \in {1, 2}
    <3>1. regs'[i] = regs[i + 1] /\ i + 1 \in 1..3 /\ q + i - 1 = p + (i + 1) - 1
      BY <2>1, <2>2, <1>5
    <3> QED  BY <3>1, <1>2, <1>3, <1>5
  <2>3. CASE i = 3
    <3>1. q + i - 1 = q + 2 /\ (q + 2) - 3 = q - 1 /\ q + 2 # 2
      BY <2>3, <1>3
    <3>2. word
      BY <3>1, <1>1, <1>3, <1>5
    <3>3. regs'[i] = pct_data
      BY <2>1, <2>3, <3>2
    <3> QED  BY <3>1, <3>2, <3>3 DEF NrOfWord
  <2> QED  BY <2>2, <2>3
<1>6. CASE p >= 1 /\ q = p
  BY <1>2, <1>3, <1>6
<1> QED  BY <1>3, <1>4, <1>5, <1>6

LEMMA WritingNumberStep ==
    ASSUME TypeOK, UNCHANGED sample_width, NEW b \in Numbers,
           NEW p \in 0..PCT_WORDS, NEW q \in Nat, NEW n \in Nat,
           n <= q, q <= n + 1, q <= p,
           WritingAt(p, q, n), FormingNumbered(b, p), WritingNumbered(b, q, n),
           (wr_dis' <=> wr_dis) \/ p = 0, buff_wrdata' = regs[1],
           NEW taken \in HostReads, PacketFifo(taken)
    PROVE  WritingNumbered(b, p, q)'
<1>1. PCT_WORDS \in Nat /\ sample_width \in WIDTHS
  BY WidthFacts
<1> PICK w \in WIDTHS : w = sample_width
  BY <1>1
<1>2. p >= 1 => NrOfWord(w, b, p, buff_wrdata'.nr)
  <2>1. 1 \in 1..3 /\ p + 1 - 1 = p
    OBVIOUS
  <2>2. p >= 1 /\ p + 1 - 1 <= PCT_WORDS => NrOfWord(w, b, p + 1 - 1, regs[1].nr)
    BY <2>1 DEF FormingNumbered
  <2> QED  BY <2>1, <2>2, <1>1
<1>3. wr_dis' /\ q >= 2 /\ w # 14 => first' = b
  <2> SUFFICES ASSUME wr_dis', q >= 2, w # 14
               PROVE  first' = b
    OBVIOUS
  <2>1. wr_dis /\ (buff_wrreq <=> q > n) /\ buff_wrdata.kind = KindOf(q)
    BY DEF WritingAt
  <2>2. /\ first' = IF buff_wrreq /\ buff_wrdata.kind = "hdr_1" THEN buff_wrdata.nr ELSE first
    BY DEF PacketFifo
  <2>3. n >= 2 => first = b
    BY <2>1 DEF WritingNumbered
  <2>4. CASE n >= 2
    <3>1. buff_wrreq => buff_wrdata.kind = "data"
      BY <2>1, <2>4 DEF KindOf
    <3> QED  BY <3>1, <2>2, <2>3, <2>4
  <2>5. CASE n < 2
    <3>1. q = 2 /\ buff_wrreq /\ buff_wrdata.kind = "hdr_1"
      BY <2>1, <2>5 DEF KindOf
    <3>2. buff_wrdata.nr = b
      BY <3>1 DEF WritingNumbered, NrOfWord
    <3> QED  BY <3>1, <3>2, <2>2
  <2> QED  BY <2>4, <2>5
<1> QED  BY <1>2, <1>3 DEF WritingNumbered

\* Held grows by no more than one at an edge, and a read takes WRITE_GAP from it.
LEMMA HeldStep ==
    ASSUME TypeOK, NEW written \in BOOLEAN, written => wr_gap = 0,
           rdreq => smpl_fifo # <<>>, SampleFifo(written),
           wr_gap' = IF written THEN WRITE_GAP - 1 ELSE IF wr_gap > 0 THEN wr_gap - 1 ELSE 0
    PROVE  /\ Held \in Int /\ Held' \in Int
           /\ Held <= WRITE_GAP * Len(smpl_fifo)
           /\ Held' <= IF rdreq THEN Held + 1 - WRITE_GAP ELSE Held + 1
<1>1. /\ WRITE_GAP \in Nat /\ WRITE_GAP > 0 /\ wr_gap \in 0..(WRITE_GAP - 1)
      /\ smpl_fifo \in Seq(Numbers) /\ Len(smpl_fifo) \in Nat /\ cnt_wr \in Numbers
  BY NumberFacts, RxPathAssumption DEF TypeOK
<1>2. PICK k \in {0, 1}, m \in {0, 1} :
          /\ k = (IF rdreq THEN 1 ELSE 0) /\ (m = 1 => written)
          /\ Len(smpl_fifo') = (Len(smpl_fifo) - k) + m /\ Len(smpl_fifo) >= k
  <2> DEFINE rest == IF rdreq THEN Tail(smpl_fifo) ELSE smpl_fifo
             kept == IF Len(smpl_fifo) < SMPL_BUFF_WORDS THEN Received(written) ELSE <<>>
  <2>1. smpl_fifo' = rest \o kept
    BY DEF SampleFifo
  <2>2. rest \in Seq(Numbers) /\ Len(rest) = Len(smpl_fifo) - (IF rdreq THEN 1 ELSE 0)
        /\ Len(smpl_fifo) >= (IF rdreq THEN 1 ELSE 0)
    BY <1>1, HeadTailProperties
  <2>3. kept \in Seq(Numbers) /\ Len(kept) \in {0, 1} /\ (Len(kept) = 1 => written)
    BY <1>1 DEF Received
  <2>4. Len(smpl_fifo') = Len(rest) + Len(kept)
    <3> HIDE DEF rest, kept
    <3> QED  BY <2>1, <2>2, <2>3
  <2> HIDE DEF rest, kept
  <2> QED  BY <2>2, <2>3, <2>4
<1>3. PICK len \in Nat, new \in Nat, gap \in Nat, g \in Nat :
          /\ len = Len(smpl_fifo) /\ new = Len(smpl_fifo')
          /\ gap = wr_gap' /\ g = wr_gap
  <2>1. wr_gap' \in Nat /\ wr_gap \in Nat
    BY <1>1
  <2>2. Len(smpl_fifo') \in Nat
    BY <1>1, <1>2
  <2> QED  BY <2>1, <2>2, <1>1
<1>4. /\ new = (len - k) + m
      /\ gap = IF written THEN WRITE_GAP - 1 ELSE IF g > 0 THEN g - 1 ELSE 0
      /\ written => g = 0
      /\ m = 1 => written
  BY <1>2, <1>3
<1>5. WRITE_GAP * new = (WRITE_GAP * len - WRITE_GAP * k) + WRITE_GAP * m
  BY <1>1, <1>4
<1>6. /\ WRITE_GAP * k = (IF rdreq THEN WRITE_GAP ELSE 0)
      /\ WRITE_GAP * m = (IF m = 1 THEN WRITE_GAP ELSE 0)
      /\ WRITE_GAP * len \in Nat /\ WRITE_GAP * new \in Nat
  BY <1>1, <1>2
<1>7. Held = WRITE_GAP * len - g /\ Held' = WRITE_GAP * new - gap
  BY <1>3 DEF Held
<1>8. WRITE_GAP * new - gap <= IF rdreq THEN (WRITE_GAP * len - g) + 1 - WRITE_GAP
                                        ELSE (WRITE_GAP * len - g) + 1
  BY <1>1, <1>4, <1>5, <1>6
<1> QED  BY <1>3, <1>6, <1>7, <1>8

LEMMA SpeedFacts ==
    ASSUME TypeOK, KeepsUp
    PROVE  /\ WRITE_GAP \in Nat /\ WRITE_GAP > 0 /\ wr_gap \in Nat
           /\ WRITE_GAP * READ_WORDS \in Nat /\ WRITE_GAP * SMPL_BUFF_WORDS \in Nat
           /\ WRITE_GAP * READ_WORDS >= READ_WORDS + STAGES + 7
           /\ WRITE_GAP * SMPL_BUFF_WORDS > WRITE_GAP * READ_WORDS + 5
<1>1. /\ sample_width \in WIDTHS /\ READ_WORDS \in Nat /\ SMPL_BUFF_WORDS \in Nat
      /\ READ_WORDS = ReadWordsOf(sample_width) /\ STAGES = StagesOf(sample_width)
  BY WidthFacts
<1>2. WRITE_GAP \in Nat /\ WRITE_GAP > 0 /\ wr_gap \in Nat
  BY RxPathAssumption DEF TypeOK
<1>3. /\ WRITE_GAP * READ_WORDS >= READ_WORDS + STAGES + 7
      /\ WRITE_GAP * SMPL_BUFF_WORDS > WRITE_GAP * READ_WORDS + 5
  BY <1>1 DEF KeepsUp
<1> QED  BY <1>1, <1>2, <1>3

\* What HeldAt says, with the product spelled out.
LEMMA HeldAtFacts ==
    ASSUME TypeOK, KeepsUp, NEW t \in AGES
    PROVE  LET k == PackedBy(sample_width, t)
               next == PackedBy(sample_width, t + 1)
               left == WRITE_GAP * (READ_WORDS - k)
           IN  /\ t \in Nat /\ t <= READ_WORDS + STAGES + 4
               /\ left \in Nat
               /\ t <= READ_WORDS => left + t <= WRITE_GAP * READ_WORDS
               /\ t >= READ_WORDS => left = 0
               /\ WRITE_GAP * (READ_WORDS - next) =
                      left - (IF t < READ_WORDS THEN WRITE_GAP ELSE 0)
               /\ t = 0 => left = WRITE_GAP * READ_WORDS
<1>1. /\ READ_WORDS \in Nat /\ STAGES \in Nat /\ WRITE_GAP \in Nat /\ WRITE_GAP > 0
      /\ sample_width \in WIDTHS /\ READ_WORDS = ReadWordsOf(sample_width)
      /\ t \in 0..(READ_WORDS + STAGES + 4)
  BY WidthFacts, SpeedFacts DEF AGES
<1> PICK w \in WIDTHS : w = sample_width
  BY <1>1
<1> PICK k \in Nat, next \in Nat : k = PackedBy(w, t) /\ next = PackedBy(w, t + 1)
  BY <1>1, PackedNext
<1>2. /\ k <= READ_WORDS /\ next = k + (IF t < READ_WORDS THEN 1 ELSE 0)
      /\ t <= READ_WORDS => k = t
      /\ t >= READ_WORDS => k = READ_WORDS
      /\ t \in Nat /\ t <= READ_WORDS + STAGES + 4
  BY <1>1, PackedNext
<1>3. PICK r \in Nat, g \in Nat : r = READ_WORDS /\ g = WRITE_GAP /\ g > 0
  BY <1>1
<1>4. /\ g * (r - k) = g * r - g * k /\ g * k \in Nat /\ g * r \in Nat
      /\ g * (r - (k + 1)) = g * (r - k) - g
      /\ g * 0 = 0
  BY <1>3
<1>5. g * k >= k
  BY <1>3
<1>6. g * (r - k) \in Nat
  BY <1>2, <1>3
<1>7. /\ t <= r => g * (r - k) + t <= g * r
      /\ t >= r => g * (r - k) = 0
      /\ g * (r - next) = g * (r - k) - (IF t < r THEN g ELSE 0)
      /\ t = 0 => g * (r - k) = g * r
  <2>1. CASE t <= r
    <3>1. k = t
      BY <1>2, <1>3, <2>1
    <3> QED  BY <3>1, <2>1, <1>2, <1>3, <1>4, <1>5
  <2>2. CASE t > r
    <3>1. k = r /\ next = r /\ r - r = 0
      BY <1>2, <1>3, <2>2
    <3> QED  BY <3>1, <2>2, <1>2, <1>3, <1>4
  <2> QED  BY <2>1, <2>2, <1>2, <1>3
<1> QED  BY <1>2, <1>3, <1>6, <1>7

\* The sample FIFO is not full when a word is received.
LEMMA RoomForSample ==
    ASSUME TypeOK, KeepsUp, HeldQuiet \/ \E t \in AGES : HeldAt(t), wr_gap = 0
    PROVE  Len(smpl_fifo) < SMPL_BUFF_WORDS
<1>1. /\ WRITE_GAP \in Nat /\ WRITE_GAP > 0
      /\ WRITE_GAP * READ_WORDS \in Nat /\ WRITE_GAP * SMPL_BUFF_WORDS \in Nat
      /\ WRITE_GAP * READ_WORDS >= READ_WORDS + STAGES + 7
      /\ WRITE_GAP * SMPL_BUFF_WORDS > WRITE_GAP * READ_WORDS + 5
      /\ READ_WORDS \in Nat /\ STAGES \in Nat /\ SMPL_BUFF_WORDS \in Nat
      /\ Len(smpl_fifo) \in Nat
  BY SpeedFacts, WidthFacts, NumberFacts
<1>2. Held = WRITE_GAP * Len(smpl_fifo) /\ WRITE_GAP * Len(smpl_fifo) \in Nat
  BY <1>1 DEF Held
<1>3. Held <= WRITE_GAP * READ_WORDS + 5
  <2>1. CASE HeldQuiet
    BY <2>1, <1>1, <1>2 DEF HeldQuiet
  <2>2. CASE \E t \in AGES : HeldAt(t)
    <3>1. PICK t \in AGES : HeldAt(t)
      BY <2>2
    <3>2. PICK left \in Nat :
              /\ left = WRITE_GAP * (READ_WORDS - PackedBy(sample_width, t))
              /\ t \in Nat /\ t <= READ_WORDS + STAGES + 4
              /\ t <= READ_WORDS => left + t <= WRITE_GAP * READ_WORDS
              /\ t >= READ_WORDS => left = 0
      BY HeldAtFacts
    <3>3. Held <= left + 5 + t
      BY <3>1, <3>2 DEF HeldAt
    <3>4. left + 5 + t <= WRITE_GAP * READ_WORDS + 5
      <4>1. CASE t <= READ_WORDS
        BY <4>1, <3>2, <1>1
      <4>2. CASE t > READ_WORDS
        <5>1. left = 0 /\ t <= READ_WORDS + STAGES + 4
          BY <4>2, <3>2, <1>1
        <5> QED  BY <5>1, <3>2, <1>1
      <4> QED  BY <4>1, <4>2, <3>2, <1>1
    <3> QED  BY <3>2, <3>3, <3>4, <1>1, <1>2
  <2> QED  BY <2>1, <2>2
<1>4. PICK len \in Nat, s \in Nat, g \in Nat :
          len = Len(smpl_fifo) /\ s = SMPL_BUFF_WORDS /\ g = WRITE_GAP
  BY <1>1
<1>5. g * len < g * s
  BY <1>1, <1>2, <1>3, <1>4
<1>6. len >= s => g * len >= g * s
  BY <1>4
<1> QED  BY <1>4, <1>5, <1>6

\* Held over an edge.
LEMMA HeldTick ==
    ASSUME TypeOK, KeepsUp, HeldAsShown, rdreq => smpl_fifo # <<>>,
           NEW written \in BOOLEAN, NEW taken \in HostReads, Tick(written, taken)
    PROVE  /\ HeldAsShown'
           /\ fsm = "idle" /\ HeldQuiet /\ fsm' \in {"idle", "check_pct_buff"}
                => HeldQuiet'
           /\ fsm = "check_pct_buff" /\ HeldQuiet => HeldAt(0)'
           /\ \A t \in AGES : HeldAt(t) /\ (rdreq <=> t < READ_WORDS) =>
                /\ HeldAt(t + 1)'
                /\ t = READ_WORDS + STAGES + 4 /\ fsm' = "idle" => HeldQuiet'
<1>1. /\ WRITE_GAP \in Nat /\ WRITE_GAP > 0
      /\ WRITE_GAP * READ_WORDS \in Nat
      /\ WRITE_GAP * READ_WORDS >= READ_WORDS + STAGES + 7
      /\ READ_WORDS \in Nat /\ STAGES \in Nat /\ SMPL_BUFF_WORDS \in Nat
      /\ Len(smpl_fifo) \in Nat /\ sample_width \in WIDTHS
      /\ READ_WORDS = ReadWordsOf(sample_width)
  BY SpeedFacts, WidthFacts, NumberFacts
<1>2. /\ sample_width' = sample_width /\ READ_WORDS' = READ_WORDS /\ STAGES' = STAGES
      /\ AGES' = AGES
  BY TickParts, WidthKept
<1>3. PICK h \in Int, now \in Int : h = Held /\ now = Held'
  BY TickParts, HeldStep DEF Tick
<1>4. /\ h <= WRITE_GAP * Len(smpl_fifo)
      /\ now <= IF rdreq THEN h + 1 - WRITE_GAP ELSE h + 1
  BY <1>3, TickParts, HeldStep DEF Tick
<1>5. now <= h + 1
  BY <1>1, <1>3, <1>4
<1>6. HeldAsShown'
  <2>1. rdusedw_reg' = Len(smpl_fifo)
    BY TickParts DEF SampleFifo
  <2>2. now <= WRITE_GAP * Len(smpl_fifo) + 1
    BY <1>1, <1>3, <1>4, <1>5
  <2>3. ~smpl_buff_rdy' => now <= WRITE_GAP * READ_WORDS + 2
    <3>1. smpl_buff_rdy' <=> rdusedw_reg > READ_WORDS
      BY TickParts DEF EnoughSamples
    <3>2. PICK shown \in Nat : shown = rdusedw_reg
      BY <1>1 DEF TypeOK
    <3>3. h <= WRITE_GAP * shown + 1
      BY <1>3, <3>2 DEF HeldAsShown
    <3>4. shown <= READ_WORDS => WRITE_GAP * shown <= WRITE_GAP * READ_WORDS
      BY <1>1
    <3> QED  BY SMTT(30), <3>1, <3>2, <3>3, <3>4, <1>1, <1>3, <1>5
  <2> QED  BY <2>1, <2>2, <2>3, <1>2, <1>3 DEF HeldAsShown
<1>7. ASSUME fsm = "idle", HeldQuiet, fsm' \in {"idle", "check_pct_buff"}
      PROVE  HeldQuiet'
  <2>1. h <= WRITE_GAP * READ_WORDS + 3
    BY <1>3, <1>7 DEF HeldQuiet
  <2>2. fsm' = "idle" => h <= WRITE_GAP * READ_WORDS + 2
    <3>1. fsm' = "idle" => ~smpl_buff_rdy
      BY <1>7, TickParts DEF D2pFsm, FsmGoes
    <3> QED  BY <3>1, <1>3 DEF HeldAsShown
  <2>3. /\ fsm' = "idle" => now <= WRITE_GAP * READ_WORDS + 3
        /\ now <= WRITE_GAP * READ_WORDS + 4
    <3>1. PICK full \in Nat : full = WRITE_GAP * READ_WORDS
      BY <1>1
    <3>2. h \in Int /\ now \in Int /\ full \in Nat
      BY <1>3
    <3>3. /\ h <= full + 2 => now <= full + 3
          /\ h <= full + 3 => now <= full + 4
      BY <3>2, <1>5
    <3> QED  BY <2>1, <2>2, <3>1, <3>3
  <2> QED  BY <2>3, <1>2, <1>3 DEF HeldQuiet
<1>8. ASSUME fsm = "check_pct_buff", HeldQuiet
      PROVE  HeldAt(0)'
  <2>1. h <= WRITE_GAP * READ_WORDS + 4
    BY <1>3, <1>8 DEF HeldQuiet
  <2>2. now <= WRITE_GAP * READ_WORDS + 5
    <3>1. PICK full \in Nat : full = WRITE_GAP * READ_WORDS
      BY <1>1
    <3>2. h \in Int /\ now \in Int /\ full \in Nat
      BY <1>3
    <3>3. h <= full + 4 => now <= full + 5
      BY <3>2, <1>5
    <3> QED  BY <2>1, <3>1, <3>3
  <2>3. PackedBy(sample_width, 0) = 0
    BY <1>1, PackedNext
  <2>4. WRITE_GAP * (READ_WORDS - 0) + 5 + 0 = WRITE_GAP * READ_WORDS + 5
    BY <1>1
  <2> QED  BY <2>2, <2>3, <2>4, <1>2, <1>3 DEF HeldAt
<1>9. ASSUME NEW t \in AGES, HeldAt(t), rdreq <=> t < READ_WORDS
      PROVE  /\ HeldAt(t + 1)'
             /\ t = READ_WORDS + STAGES + 4 /\ fsm' = "idle" => HeldQuiet'
  <2>1. PICK left \in Nat :
            /\ left = WRITE_GAP * (READ_WORDS - PackedBy(sample_width, t))
            /\ t \in Nat /\ t <= READ_WORDS + STAGES + 4
            /\ t >= READ_WORDS => left = 0
            /\ WRITE_GAP * (READ_WORDS - PackedBy(sample_width, t + 1)) =
                   left - (IF t < READ_WORDS THEN WRITE_GAP ELSE 0)
    BY HeldAtFacts
  <2>2. h <= left + 5 + t
    BY <2>1, <1>3, <1>9 DEF HeldAt
  <2>3. now <= (left - (IF t < READ_WORDS THEN WRITE_GAP ELSE 0)) + 5 + (t + 1)
    <3>1. h \in Int /\ now \in Int
      BY <1>3
    <3>2. now <= IF t < READ_WORDS THEN (h + 1) - WRITE_GAP ELSE h + 1
      BY <1>1, <3>1, <1>4, <1>9
    <3>3. left \in Nat /\ t \in Nat
      BY <2>1
    <3> QED  BY <2>2, <3>1, <3>2, <3>3, <1>1
  <2>4. HeldAt(t + 1)'
    BY <2>1, <2>3, <1>2, <1>3 DEF HeldAt
  <2>5. t = READ_WORDS + STAGES + 4 => now <= WRITE_GAP * READ_WORDS + 3
    <3> SUFFICES ASSUME t = READ_WORDS + STAGES + 4
                 PROVE  now <= WRITE_GAP * READ_WORDS + 3
      OBVIOUS
    <3>1. left = 0 /\ ~(t < READ_WORDS) /\ t + 1 = READ_WORDS + STAGES + 5
      <4>1. t >= READ_WORDS /\ ~(t < READ_WORDS) /\ t + 1 = READ_WORDS + STAGES + 5
        BY SMTT(30), <1>1
      <4> QED  BY <4>1, <2>1
    <3>2. now \in Int
      BY <1>3
    <3>3. now <= 0 + 5 + (READ_WORDS + STAGES + 5)
      BY <2>3, <3>1
    <3>4. PICK full \in Nat, r \in Nat, s \in Nat :
              full = WRITE_GAP * READ_WORDS /\ r = READ_WORDS /\ s = STAGES
      BY <1>1
    <3>5. full >= r + s + 7 /\ now <= 0 + 5 + (r + s + 5)
      BY <3>3, <3>4, <1>1
    <3>6. now <= full + 3
      BY <3>2, <3>5
    <3> QED  BY <3>4, <3>6
  <2> QED  BY <2>4, <2>5, <1>2, <1>3 DEF HeldQuiet
<1> QED  BY <1>6, <1>7, <1>8, <1>9

-----------------------------------------------------------------------------
(* One edge, all of it. *)

\* The word that arrives at age t is the next one to be shifted in, and is the first one
\* only before the delay chain shows a sample of the packet.
LEMMA ArrivalNumber ==
    ASSUME TypeOK, NEW t \in AGES, PackingAt(t), NEW b \in Numbers, NumberedAt(b, t),
           pct_data_wrreq, NEW r \in Nat, r = Shifts(sample_width, t + 1),
           t <= READ_WORDS + STAGES
    PROVE  /\ pct_data.nr = After(b, FirstIn(sample_width, r - 1))
           /\ r = 1 /\ sample_width # 14 => delayed[DELAY] = b
<1>1. /\ STAGES \in Nat /\ STAGES \in 1..STAGES /\ READ_WORDS \in Nat
      /\ sample_width \in WIDTHS /\ t \in 0..(READ_WORDS + STAGES + 4) /\ t \in Int
      /\ STAGES = StagesOf(sample_width) /\ READ_WORDS = ReadWordsOf(sample_width)
      /\ LastArrives(sample_width) = READ_WORDS + STAGES
  BY WidthFacts DEF AGES
<1>2. PICK w \in WIDTHS : w = sample_width
  BY <1>1
<1>3. PICK n \in Int : n = t - STAGES
  BY <1>1
<1>4. Completes(w, n)
  BY <1>1, <1>2, <1>3, Arrival
<1>5. n \in 1..READ_WORDS /\ Formed(w, n) \in Nat
  BY <1>1, <1>2, <1>3, <1>4, FirstOfWord
<1>6. r = Formed(w, n)
  <2>1. (t + 1) - StagesOf(w) - 1 = n
    BY <1>1, <1>2, <1>3
  <2>2. ~(t + 1 > LastArrives(w) + 1) /\ ~(t + 1 > LastArrives(w) + 2)
    BY <1>1, <1>2
  <2>3. PackedBy(w, n) = n
    BY <1>1, <1>2, <1>5, PackedNext
  <2>4. Shifts(w, t + 1) = Formed(w, n) + 0 + 0
    BY <2>1, <2>2, <2>3 DEF Shifts
  <2> QED  BY <2>4, <1>2, <1>5
<1>7. pct_data.nr = After(b, FirstIn(w, r - 1))
  BY <1>1, <1>2, <1>3, <1>4, <1>6 DEF NumberedAt, PackingNumbered, pct_data
<1>8. ASSUME r = 1, w # 14
      PROVE  delayed[DELAY] = b
  <2>1. n + StagesOf(w) < DELAY
    BY <1>4, <1>6, <1>8, FirstWordEarly
  <2>2. t - DELAY <= 0 /\ t - DELAY \in Int /\ DELAY \in 1..DELAY
    BY <2>1, <1>1, <1>2, <1>3 DEF DELAY
  <2>3. PackedBy(w, t - DELAY) = 0
    BY <2>2, PackedNext
  <2>4. delayed[DELAY] = After(b, PackedBy(w, t - DELAY))
    BY <2>2, <1>2 DEF NumberedAt, CountNumbered
  <2> QED  BY <2>3, <2>4, NumberFacts, AfterFacts
<1> QED  BY <1>2, <1>7, <1>8

LEMMA PacketNumberTick ==
    ASSUME TypeOK, NEW t \in AGES, OnItsWay(t), FifoNumbered,
           NEW b \in Numbers, NumberedAt(b, t), rdreq => smpl_fifo # <<>>,
           NEW written \in BOOLEAN, written => Len(smpl_fifo) < SMPL_BUFF_WORDS,
           NEW taken \in HostReads, Tick(written, taken)
    PROVE  /\ NumberedAt(b, t + 1)'
           /\ t = READ_WORDS + STAGES + 4 /\ fsm' = "idle" => QuietNumbered'
<1> DEFINE L == READ_WORDS + STAGES
<1>1. /\ READ_WORDS \in Nat /\ STAGES \in Nat /\ STAGES >= 1
      /\ PCT_WORDS \in Nat /\ PCT_WORDS >= 7 /\ sample_width \in WIDTHS
      /\ READ_WORDS = ReadWordsOf(sample_width)
      /\ t \in 0..(L + 4) /\ t \in Int /\ t >= -1
  BY WidthFacts DEF AGES
<1>2. sample_width' = sample_width
  BY TickParts
<1>3. PICK w \in WIDTHS : w = sample_width
  BY <1>1
<1>4. PICK p \in Nat, q \in Nat, n \in Nat, r \in Nat, word \in BOOLEAN :
          /\ p = Shifts(w, t) /\ q = Shifts(w, t - 1)
          /\ n = Shifts(w, t - 2) /\ r = Shifts(w, t + 1)
          /\ word <=> pct_data_wrreq
          /\ word => pct_data.kind = "data" /\ t <= L
          /\ p <= PCT_WORDS /\ r <= PCT_WORDS
          /\ word => p <= PCT_WORDS - 3
          /\ p = PCT_WORDS - 3 => word
          /\ r = IF word \/ p \in {PCT_WORDS - 2, PCT_WORDS - 1} THEN p + 1 ELSE p
          /\ n <= q /\ q <= n + 1 /\ q <= p /\ p <= q + 1
  BY <1>3, PacketShifts
<1>5. /\ ReadingAt(t) /\ PackingAt(t) /\ FormingAt(p) /\ WritingAt(p, q, n)
      /\ PackingNumbered(b, t) /\ CountNumbered(b, t)
      /\ FormingNumbered(b, p) /\ WritingNumbered(b, q, n)
  BY <1>3, <1>4 DEF OnItsWay, NumberedAt
<1>6. rdreq <=> t \in 0..(READ_WORDS - 1)
  BY <1>1, <1>5 DEF ReadingAt, rdreq
<1>7. CountNumbered(b, t + 1)'
  BY <1>1, <1>5, <1>6, TickParts, CountStep
<1>8. PackingNumbered(b, t + 1)'
  <2>1. rdreq => smpl_q' = cnt_rd
    BY TickParts, FifoNumberStep
  <2> QED  BY <2>1, <1>1, <1>5, <1>6, TickParts, PackingNumberStep
<1>9. p \in 0..PCT_WORDS /\ r \in 0..PCT_WORDS
  BY <1>1, <1>4
<1>10. FormingNumbered(b, r)'
  <2>1. /\ p = 0 /\ word => regs' = <<pct_hdr_0, pct_hdr_1, pct_data>>
        /\ p >= 1 /\ r = p + 1 =>
              regs' = <<regs[2], regs[3], IF word THEN pct_data ELSE regs[3]>>
        /\ p >= 1 /\ r = p => regs' = <<regs[1], regs[2], regs[3]>>
    BY <1>4, <1>5, <1>9, TickParts, FormingStep
  <2>2. word => /\ pct_data.nr = After(b, FirstIn(sample_width, r - 1))
                /\ r = 1 /\ sample_width # 14 => delayed[DELAY] = b
    BY <1>3, <1>4, <1>5, ArrivalNumber
  <2>3. /\ r = p \/ r = p + 1
        /\ p = 0 /\ r = 1 => word
        /\ word => r = p + 1 /\ r <= PCT_WORDS - 2
        /\ r = p + 1 /\ ~word => r >= PCT_WORDS - 1
    <3>1. /\ r = IF word \/ p \in {PCT_WORDS - 2, PCT_WORDS - 1} THEN p + 1 ELSE p
          /\ word => p <= PCT_WORDS - 3
      BY <1>4
    <3>2. CASE word
      BY <3>1, <3>2, <1>1
    <3>3. CASE ~word
      BY <3>1, <3>3, <1>1
    <3> QED  BY <3>2, <3>3
  <2>4. p = 0 /\ word /\ sample_width # 14 => delayed[DELAY] = b
    BY <2>2, <2>3
  <2> QED  BY <2>1, <2>2, <2>3, <2>4, <1>2, <1>5, <1>9, FormingNumberStep
<1>11. WritingNumbered(b, p, q)'
  <2>1. wr_dis' <=> wr_dis
    <3>1. fsm \in {"rd_smpl_buff", "wait_data2packets_done"}
      BY <1>5 DEF ReadingAt
    <3> QED  BY <3>1, TickParts DEF WrDis
  <2> QED  BY <2>1, <1>4, <1>5, <1>9, TickParts, WritingNumberStep
<1>12. NumberedAt(b, t + 1)'
  <2>1. (t + 1) - 1 = t /\ (t + 1) - 2 = t - 1
    BY <1>1
  <2> QED  BY <2>1, <1>2, <1>3, <1>4, <1>7, <1>8, <1>10, <1>11 DEF NumberedAt
<1>13. ASSUME t = L + 4, fsm' = "idle"
       PROVE  QuietNumbered'
  <2>1. /\ cnt_rd' = After(b, PackedBy(w, t + 1))
        /\ \A i \in 1..DELAY : delayed'[i] = After(b, PackedBy(w, (t + 1) - i))
    BY <1>2, <1>3, <1>7 DEF CountNumbered
  <2>2. ASSUME NEW i \in 1..DELAY, i < DELAY
        PROVE  delayed'[i] = cnt_rd'
    <3>1. t + 1 >= READ_WORDS /\ (t + 1) - i >= READ_WORDS /\ (t + 1) - i \in Int
      BY SMTT(30), <2>2, <1>1, <1>13 DEF DELAY
    <3>2. PackedBy(w, t + 1) = READ_WORDS /\ PackedBy(w, (t + 1) - i) = READ_WORDS
      BY SMTT(30), <3>1, <1>1, <1>3, PackedNext
    <3> QED  BY <2>1, <3>2
  <2> QED  BY <2>2, <1>13 DEF QuietNumbered
<1> QED  BY <1>12, <1>13

LEMMA QuietNumberTick ==
    ASSUME TypeOK, Quiet, QuietNumbered,
           NEW written \in BOOLEAN, NEW taken \in HostReads, Tick(written, taken)
    PROVE  /\ fsm = "idle" => QuietNumbered'
           /\ fsm = "check_pct_buff" => NumberedAt(cnt_rd, 0)'
<1>1. /\ sample_width \in WIDTHS /\ STAGES \in Nat /\ cnt_rd \in Numbers
      /\ NUMBERS \in Nat \ {0} /\ sample_width' = sample_width
      /\ READ_WORDS \in Nat
  BY WidthFacts, NumberFacts, TickParts
<1>2. PICK w \in WIDTHS, b \in Numbers : w = sample_width /\ b = cnt_rd
  BY <1>1
<1>3. ~rdreq /\ PackingAt(-1)
  BY QuietPacking
<1>4. cnt_rd' = cnt_rd /\ After(b, 0) = b
  BY <1>1, <1>3, TickParts, AfterFacts DEF SampleCounters
<1>5. CASE fsm = "idle"
  <2>1. /\ delayed'[1] = cnt_rd
        /\ \A i \in 2..DELAY : delayed'[i] = delayed[i - 1]
    <3>1. DELAY \in Nat \ {0} /\ delayed \in [1..DELAY -> Numbers]
      BY DEF DELAY, TypeOK
    <3>2. delayed' = <<cnt_rd>> \o SubSeq(delayed, 1, DELAY - 1)
      BY TickParts DEF SampleCounters
    <3> QED  BY <3>1, <3>2, <1>1, ShiftIn
  <2>2. ASSUME NEW i \in 1..DELAY
        PROVE  delayed'[i] = cnt_rd'
    <3>1. CASE i = 1
      BY <3>1, <2>1, <1>4
    <3>2. CASE i # 1
      <4>1. i \in 2..DELAY /\ i - 1 \in 1..DELAY /\ i - 1 < DELAY
        BY <3>2 DEF DELAY
      <4> QED  BY <4>1, <2>1, <1>4 DEF QuietNumbered
    <3> QED  BY <3>1, <3>2
  <2>3. QuietNumbered'
    BY <2>2 DEF QuietNumbered
  <2> QED  BY <2>3, <1>5
<1>6. CASE fsm = "check_pct_buff"
  <2>1. CountNumbered(b, -1)
    <3>1. PackedBy(w, -1) = 0 /\ \A i \in 1..DELAY : PackedBy(w, -1 - i) = 0
      BY PackedNext DEF DELAY
    <3>2. \A i \in 1..DELAY : delayed[i] = b
      BY <1>2, <1>6 DEF QuietNumbered
    <3> QED  BY <3>1, <3>2, <1>2, <1>4 DEF CountNumbered
  <2>2. PackingNumbered(b, -1)
    <3>1. /\ ~(-1 \in 1..READ_WORDS) /\ ~(-1 \in 2..(READ_WORDS + 1))
          /\ \A i \in 1..STAGES : ~Completes(w, -1 - i)
      BY <1>1, AtRest
    <3> QED  BY <3>1, <1>2 DEF PackingNumbered
  <2>3. rdreq <=> -1 \in 0..(READ_WORDS - 1)
    BY <1>1, <1>3
  <2>4. -1 + 1 = 0 /\ -1 >= -1 /\ -1 \in Int
    OBVIOUS
  <2>5. CountNumbered(b, 0)'
    BY <2>1, <2>3, <2>4, <1>1, TickParts, CountStep
  <2>6. PackingNumbered(b, 0)'
    BY <2>1, <2>2, <2>3, <2>4, <1>1, <1>3, TickParts, PackingNumberStep
  <2>7. FormingNumbered(b, 0)' /\ WritingNumbered(b, 0, 0)'
    BY DEF FormingNumbered, WritingNumbered
  <2>8. Shifts(w, 0) = 0 /\ Shifts(w, 0 - 1) = 0 /\ Shifts(w, 0 - 2) = 0
    BY AtRest
  <2>9. NumberedAt(b, 0)'
    BY <2>5, <2>6, <2>7, <2>8, <1>1, <1>2 DEF NumberedAt
  <2> QED  BY <2>9, <1>2, <1>4, <1>6
<1> QED  BY <1>5, <1>6 DEF Quiet

\* What the invariant is for.
LEMMA NumbersServed ==
    ASSUME OInv
    PROVE  sample_width # 14 => HeaderNumbersSamples
<1> SUFFICES ASSUME sample_width # 14, buff_wrreq, buff_wrdata.kind = "data", place >= 1
             PROVE  buff_wrdata.nr = (first + FirstSampleIn(place - 1)) % NUMBERS
  BY DEF HeaderNumbersSamples
<1>1. TypeOK /\ IInv /\ InOrder /\ sample_width \in WIDTHS /\ PCT_WORDS \in Nat
  BY WidthFacts DEF OInv, IInv
<1>2. ~Quiet
  BY DEF Quiet, WritingAt
<1>3. PICK t \in AGES, b \in Numbers : OnItsWay(t) /\ NumberedAt(b, t)
  BY <1>1, <1>2 DEF InOrder
<1>4. PICK q \in Nat, n \in Nat :
          /\ q = Shifts(sample_width, t - 1) /\ n = Shifts(sample_width, t - 2)
          /\ n <= q /\ q <= n + 1
  BY <1>1, <1>3, PacketShifts
<1>5. /\ buff_wrreq <=> wr_dis /\ q > n
      /\ q >= 1 => buff_wrdata.kind = KindOf(q)
      /\ IF wr_dis /\ n >= 1 THEN ~cut /\ place = n - 1 ELSE cut \/ place = PCT_WORDS - 1
      /\ q >= 1 => NrOfWord(sample_width, b, q, buff_wrdata.nr)
      /\ wr_dis /\ n >= 2 /\ sample_width # 14 => first = b
  BY <1>3, <1>4 DEF OnItsWay, NumberedAt, WritingAt, WritingNumbered
<1>6. wr_dis /\ q = n + 1
  BY <1>4, <1>5
<1>7. q >= 3
  <2>1. q # 1 /\ q # 2
    BY <1>5 DEF KindOf
  <2> QED  BY <2>1, <1>4, <1>6
<1>8. place - 1 = q - 3 /\ first = b
  BY <1>5, <1>6, <1>7
<1>9. buff_wrdata.nr = After(b, FirstIn(sample_width, q - 3))
  BY <1>5, <1>7 DEF NrOfWord
<1> QED  BY <1>8, <1>9 DEF After, FirstSampleIn

LEMMA ClearedInOrder == Off /\ KeepsUp => OInv
<1> SUFFICES ASSUME Off, KeepsUp PROVE OInv
  OBVIOUS
<1>1. IInv /\ TypeOK
  BY Cleared DEF IInv
<1>2. /\ RxInit /\ D2pInit
  BY DEF Off, RxInit
<1>3. /\ WRITE_GAP \in Nat /\ WRITE_GAP * READ_WORDS \in Nat /\ 0 \in Numbers
      /\ NUMBERS \in Nat \ {0} /\ READ_WORDS \in Nat
  BY <1>1, SpeedFacts, TypeFacts, WidthFacts
<1>4. smpl_fifo = <<>> /\ Len(smpl_fifo) = 0 /\ cnt_wr = 0 /\ cnt_rd = 0
  BY <1>2 DEF RxInit
<1>5. FifoNumbered
  BY <1>3, <1>4, AfterFacts DEF FifoNumbered
<1>6. Held = 0
  BY <1>2, <1>3, <1>4 DEF RxInit, Held
<1>7. HeldAsShown /\ HeldQuiet
  <2>1. rdusedw_reg = 0 /\ WRITE_GAP * 0 = 0
    BY <1>2, <1>3 DEF RxInit
  <2> QED  BY <2>1, <1>3, <1>6 DEF HeldAsShown, HeldQuiet
<1>8. QuietNumbered
  BY <1>2, <1>4 DEF RxInit, QuietNumbered
<1>9. Quiet /\ EnoughQuiet /\ RoomQuiet
  <2>1. fsm = "idle"
    BY <1>2 DEF D2pInit
  <2>2. ~(\E t \in AGES : OnItsWay(t))
    BY <2>1 DEF OnItsWay, ReadingAt
  <2> QED  BY <2>2, <1>1 DEF IInv, InStep
<1> QED  BY <1>1, <1>5, <1>7, <1>8, <1>9 DEF OInv, InOrder

LEMMA InitOInv == Init /\ KeepsUp => OInv
BY InitOff, ClearedInOrder

LEMMA NextOInv == OInv /\ KeepsUp /\ [Next]_vars => OInv'
<1> SUFFICES ASSUME OInv, KeepsUp, [Next]_vars PROVE OInv'
  OBVIOUS
<1>1. IInv' /\ IInv /\ TypeOK /\ InOrder
  BY NextIInv DEF OInv, IInv
<1>2. ASSUME NEW written \in BOOLEAN, NEW taken \in HostReads, Tick(written, taken)
      PROVE  InOrder'
  <2>1. /\ FifoNumbered /\ HeldAsShown /\ pct_used <= pct_wrusedw + 1
        /\ rdreq => smpl_fifo # <<>>
        /\ written => wr_gap = 0
    BY <1>1, <1>2, Served DEF InOrder, IInv, InStep, SampleReadsServed, Tick
  <2>2. HeldAsShown'
    BY <1>1, <1>2, <2>1, HeldTick
  <2>3. CASE Quiet /\ EnoughQuiet /\ RoomQuiet /\ QuietNumbered /\ HeldQuiet
    <3>1. written => Len(smpl_fifo) < SMPL_BUFF_WORDS
      BY <1>1, <2>1, <2>3, RoomForSample
    <3>2. FifoNumbered'
      BY <1>1, <1>2, <2>1, <3>1, TickParts, FifoNumberStep
    <3>3. CASE fsm = "idle"
      <4>1. Quiet' /\ EnoughQuiet' /\ RoomQuiet' /\ QuietNumbered'
        BY <1>1, <1>2, <2>1, <2>3, <3>3, QuietTick, QuietNumberTick
      <4>2. fsm' \in {"idle", "check_pct_buff"}
        BY <4>1 DEF Quiet
      <4>3. HeldQuiet'
        BY <1>1, <1>2, <2>1, <2>3, <3>3, <4>2, HeldTick
      <4> QED  BY <2>2, <3>2, <4>1, <4>3 DEF InOrder
    <3>4. CASE fsm = "check_pct_buff"
      <4>1. /\ 0 \in AGES' /\ OnItsWay(0)' /\ EnoughAt(0)'
            /\ RoomAt(Shifts(sample_width, 0 - 2))'
        BY <1>1, <1>2, <2>1, <2>3, <3>4, QuietTick
      <4>2. NumberedAt(cnt_rd, 0)' /\ HeldAt(0)'
        BY <1>1, <1>2, <2>1, <2>3, <3>4, QuietNumberTick, HeldTick
      <4>3. cnt_rd' \in Numbers
        BY <1>1 DEF IInv, TypeOK
      <4> QED  BY <2>2, <3>2, <4>1, <4>2, <4>3 DEF InOrder
    <3> QED  BY <2>3, <3>3, <3>4 DEF Quiet
  <2>4. CASE \E t \in AGES, b \in Numbers :
                 /\ OnItsWay(t) /\ EnoughAt(t) /\ RoomAt(Shifts(sample_width, t - 2))
                 /\ NumberedAt(b, t) /\ HeldAt(t)
    <3>1. PICK t \in AGES, b \in Numbers :
                 /\ OnItsWay(t) /\ EnoughAt(t) /\ RoomAt(Shifts(sample_width, t - 2))
                 /\ NumberedAt(b, t) /\ HeldAt(t)
      BY <2>4
    <3>2. written => Len(smpl_fifo) < SMPL_BUFF_WORDS
      BY <1>1, <2>1, <3>1, RoomForSample
    <3>3. FifoNumbered'
      BY <1>1, <1>2, <2>1, <3>2, TickParts, FifoNumberStep
    <3>4. /\ NumberedAt(b, t + 1)'
          /\ t = READ_WORDS + STAGES + 4 /\ fsm' = "idle" => QuietNumbered'
      BY <1>1, <1>2, <2>1, <3>1, <3>2, PacketNumberTick
    <3>5. rdreq <=> t < READ_WORDS
      BY <3>1 DEF OnItsWay, ReadingAt, rdreq
    <3>6. /\ HeldAt(t + 1)'
          /\ t = READ_WORDS + STAGES + 4 /\ fsm' = "idle" => HeldQuiet'
      BY <1>1, <1>2, <2>1, <3>1, <3>5, HeldTick
    <3>7. /\ t # READ_WORDS + STAGES + 4 =>
                /\ t + 1 \in AGES' /\ OnItsWay(t + 1)' /\ EnoughAt(t + 1)'
                /\ RoomAt(Shifts(sample_width, (t + 1) - 2))'
          /\ t = READ_WORDS + STAGES + 4 =>
                fsm' = "idle" /\ Quiet' /\ EnoughQuiet' /\ RoomQuiet'
      BY <1>1, <1>2, <3>1, PacketTick
    <3>8. CASE t = READ_WORDS + STAGES + 4
      BY <2>2, <3>3, <3>4, <3>6, <3>7, <3>8 DEF InOrder
    <3>9. CASE t # READ_WORDS + STAGES + 4
      <4>1. /\ t + 1 \in AGES' /\ OnItsWay(t + 1)' /\ EnoughAt(t + 1)'
            /\ RoomAt(Shifts(sample_width, (t + 1) - 2))'
            /\ NumberedAt(b, t + 1)' /\ HeldAt(t + 1)'
        BY <3>4, <3>6, <3>7, <3>9
      <4> QED  BY <2>2, <3>3, <4>1 DEF InOrder
    <3> QED  BY <3>8, <3>9
  <2> QED  BY <1>1, <2>3, <2>4 DEF InOrder
<1>3. CASE Close \/ Disable
  <2>1. Off'
    BY <1>1, <1>3, StopOff DEF IInv, InStep
  <2>2. Off' /\ KeepsUp => OInv'
    BY ClearedInOrder, PTL
  <2> QED  BY <2>1, <2>2
<1>4. CASE UNCHANGED vars
  BY SMTT(30), <1>1, <1>4 DEF OInv, vars, d2pVars, rxVars, pctVars, InOrder, FifoNumbered, HeldAsShown,
         Held, HeldQuiet, HeldAt, QuietNumbered, NumberedAt, PackingNumbered, CountNumbered,
         FormingNumbered, WritingNumbered, Quiet, OnItsWay, EnoughAt,
         EnoughQuiet, RoomAt, RoomQuiet, ReadingAt, PackingAt, FormingAt, WritingAt, AGES,
         STAGES, GROUP, READ_WORDS, PCT_WORDS
<1> QED  BY <1>1, <1>2, <1>3, <1>4 DEF Next, OInv

-----------------------------------------------------------------------------
\* Every word of the packet on its way carries the number of its place, counted from the
\* first sample word read for it, and no sample word received is lost: the inductive
\* invariant of the numbers.
THEOREM StaysInOrder == ASSUME KeepsUp PROVE Spec => []InOrder
<1>1. Init => OInv
  BY InitOInv
<1>2. OInv /\ [Next]_vars => OInv'
  BY NextOInv
<1>3. OInv => InOrder
  BY DEF OInv
<1> QED  BY <1>1, <1>2, <1>3, PTL DEF Spec

\* The number in a packet's header is the time at which its first sample was received,
\* and its words follow in the order received, for any sizes of packets and FIFOs, any
\* counter width and any pace of the host, if a packet is read faster than it is
\* received.  14-bit packets are excepted: there the delay chain is too short.
THEOREM HeadersNumberSamples ==
    ASSUME KeepsUp
    PROVE  Spec => [](sample_width # 14 => HeaderNumbersSamples)
<1>1. Init => OInv
  BY InitOInv
<1>2. OInv /\ [Next]_vars => OInv'
  BY NextOInv
<1>3. OInv => (sample_width # 14 => HeaderNumbersSamples)
  BY NumbersServed
<1> QED  BY <1>1, <1>2, <1>3, PTL DEF Spec

=============================================================================
