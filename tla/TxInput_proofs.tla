--------------------------- MODULE TxInput_proofs ---------------------------
(***************************************************************************)
(* That the two stream FIFOs are a slot for one packet, for any chunks,    *)
(* widths and number of packets: invariant IInv, inductive, and the steps  *)
(* of module PacketSlot that each clock edge makes.                        *)
(***************************************************************************)
EXTENDS TxInput, SequenceTheorems, TLAPS

IInv == TypeOK /\ InStep

-----------------------------------------------------------------------------
(* Sizes: a packet is TRNSF_N chunks and PCT_WORDS words of RATIO each.    *)

LEMMA Constants ==
    /\ CHUNK \in Nat /\ CHUNK > 0 /\ TRNSF_N \in Nat /\ TRNSF_N > 0
    /\ RATIO \in Nat /\ RATIO > 0 /\ PCT_WORDS \in Nat /\ PCT_WORDS >= 3
    /\ INST0_SIZE \in Nat /\ MAX_PACKETS \in Nat
    /\ INST1_SIZE \in Nat /\ INST1_SIZE >= 3
    /\ INST1_SIZE = TRNSF_N * CHUNK /\ INST1_SIZE = PCT_WORDS * RATIO
<1>1. /\ CHUNK \in Nat /\ CHUNK > 0 /\ TRNSF_N \in Nat /\ TRNSF_N > 0
      /\ RATIO \in Nat /\ RATIO > 0 /\ PCT_WORDS \in Nat /\ PCT_WORDS >= 3
      /\ INST0_SIZE \in Nat /\ MAX_PACKETS \in Nat
      /\ CHUNK * TRNSF_N = PCT_WORDS * RATIO
  BY TwoFifoAssumption, WrAssumption, TxInputAssumption
<1>2. INST1_SIZE = TRNSF_N * CHUNK /\ INST1_SIZE = PCT_WORDS * RATIO
  BY <1>1 DEF INST1_SIZE
<1>3. PCT_WORDS * RATIO \in Nat /\ PCT_WORDS * RATIO >= 3
  <2>1. \A p, r \in Nat : p >= 3 /\ r > 0 => p * r \in Nat /\ p * r >= 3
    OBVIOUS
  <2> QED  BY <1>1, <2>1
<1> QED  BY <1>1, <1>2, <1>3

\* The first c chunks of a packet.
LEMMA Chunks ==
    ASSUME NEW c \in Nat, c < TRNSF_N
    PROVE  /\ c * CHUNK \in Nat /\ (c + 1) * CHUNK = c * CHUNK + CHUNK
           /\ c * CHUNK + CHUNK <= INST1_SIZE
<1> USE Constants
<1>1. \A n, m \in Nat : n * m \in Nat
  OBVIOUS
<1>2. c * CHUNK \in Nat /\ (c + 1) * CHUNK = c * CHUNK + CHUNK
  BY <1>1
<1>3. PICK d \in Nat : TRNSF_N = (c + 1) + d
  <2>1. TRNSF_N - (c + 1) \in Nat /\ TRNSF_N = (c + 1) + (TRNSF_N - (c + 1))
    OBVIOUS
  <2> QED  BY <2>1
<1>4. d * CHUNK \in Nat
  BY <1>1
<1>5. \A x, y, z \in Nat : (x + y) * z = x * z + y * z
  OBVIOUS
<1>6. TRNSF_N * CHUNK = (c + 1) * CHUNK + d * CHUNK
  BY <1>3, <1>5
<1> QED  BY <1>2, <1>4, <1>6

\* m words of the unpacker, as words of the FIFO.
LEMMA Words ==
    ASSUME NEW m \in 0 .. PCT_WORDS
    PROVE  /\ m * RATIO \in 0 .. INST1_SIZE /\ (m * RATIO) \div RATIO = m
           /\ (PCT_WORDS - m) * RATIO = INST1_SIZE - m * RATIO
           /\ m * RATIO = 0 <=> m = 0
           /\ m > 0 => m * RATIO = (m - 1) * RATIO + RATIO
<1> USE Constants
<1>1. \A n, r \in Nat : n * r \in Nat /\ (r > 0 => (n * r) \div r = n)
  OBVIOUS
<1>2. m \in Nat /\ PCT_WORDS - m \in Nat /\ PCT_WORDS = m + (PCT_WORDS - m)
  OBVIOUS
<1>3. m * RATIO \in Nat /\ (m * RATIO) \div RATIO = m /\ (PCT_WORDS - m) * RATIO \in Nat
  BY <1>1, <1>2
<1>4. \A x, y, z \in Int : (x + y) * z = x * z + y * z
  OBVIOUS
<1>5. PCT_WORDS * RATIO = m * RATIO + (PCT_WORDS - m) * RATIO
  BY <1>2, <1>4
<1>6. m > 0 => m * RATIO = (m - 1) * RATIO + RATIO
  <2>1. m - 1 \in Int /\ m = (m - 1) + 1 /\ 1 * RATIO = RATIO
    OBVIOUS
  <2> QED  BY <1>4, <2>1
<1>7. m * RATIO = 0 <=> m = 0
  <2>1. m > 0 => (m - 1) * RATIO \in Nat
    BY <1>1
  <2> QED  BY <1>3, <1>6, <2>1
<1> QED  BY <1>3, <1>5, <1>6, <1>7

\* A second FIFO that is not full holds no packet for the unpacker.
LEMMA NotWaiting ==
    ASSUME NEW n \in Nat, n < INST1_SIZE
    PROVE  ~(n \div RATIO >= PCT_WORDS)
<1> USE Constants
<1>1. \A x, y, z \in Nat : x >= y => x * z >= y * z
  OBVIOUS
<1>2. n \div RATIO \in Nat /\ (n \div RATIO) * RATIO <= n
  OBVIOUS
<1>3. SUFFICES ASSUME n \div RATIO >= PCT_WORDS PROVE FALSE
  OBVIOUS
<1>4. (n \div RATIO) * RATIO >= PCT_WORDS * RATIO
  BY <1>1, <1>2, <1>3
<1>5. (n \div RATIO) * RATIO \in Nat
  BY <1>2
<1> QED  BY <1>2, <1>4, <1>5

-----------------------------------------------------------------------------
(* Words in the order of the host.                                         *)

LEMMA PieceFields ==
    ASSUME NEW n, NEW k
    PROVE  Piece(n, k).pkt = n /\ Piece(n, k).pos = k
BY DEF Piece

LEMMA PieceType ==
    ASSUME NEW p \in Pieces
    PROVE  /\ p.pkt \in 1 .. MAX_PACKETS /\ p.pos \in 1 .. INST1_SIZE
           /\ p = Piece(p.pkt, p.pos)
BY Constants DEF Pieces, Piece

LEMMA IsPiece ==
    ASSUME NEW n \in 1 .. MAX_PACKETS, NEW k \in 1 .. INST1_SIZE
    PROVE  Piece(n, k) \in Pieces
BY Constants DEF Pieces

\* What follows the k-th word of a packet.
LEMMA Follows ==
    ASSUME NEW n \in Nat, NEW k \in Nat
    PROVE  /\ k < INST1_SIZE => Following(Piece(n, k)) = Piece(n, k + 1)
           /\ k = INST1_SIZE => Following(Piece(n, k)) = Piece(n + 1, 1)
BY Constants, PieceFields DEF Following

\* The first word of q is taken.
LEMMA FollowTaken ==
    ASSUME NEW q \in Seq(Pieces), q # <<>>, NEW n \in Nat, NEW k \in Nat, k < INST1_SIZE,
           NEW m \in Nat, NEW w \in Nat, Follow(q, n, k, m, w)
    PROVE  Head(q) = Piece(n, k + 1) /\ Follow(Tail(q), n, k + 1, m, w)
<1> DEFINE r == Tail(q)
<1>1. /\ Len(q) \in Nat /\ Len(q) >= 1 /\ r \in Seq(Pieces) /\ Len(r) = Len(q) - 1
      /\ \A i \in 1 .. Len(r) : r[i] = q[i + 1]
  BY LenProperties, EmptySeq, HeadTailProperties
<1>2. /\ n <= m
      /\ \A i \in 1 .. Len(q) :
             q[i].pkt <= m /\ q[i] = Following(IF i = 1 THEN Piece(n, k) ELSE q[i - 1])
      /\ Piece(m, w) = q[Len(q)]
  BY DEF Follow
<1>3. q[1] = Piece(n, k + 1)
  <2>1. q[1] = Following(Piece(n, k))
    BY <1>1, <1>2
  <2> QED  BY <2>1, Follows
<1>4. Head(q) = q[1]
  BY <1>1
<1>5. ASSUME NEW i \in 1 .. Len(r)
      PROVE  r[i].pkt <= m /\ r[i] = Following(IF i = 1 THEN Piece(n, k + 1) ELSE r[i - 1])
  <2>1. /\ i + 1 \in 1 .. Len(q) /\ i + 1 # 1 /\ (i + 1) - 1 = i /\ r[i] = q[i + 1]
        /\ i # 1 => i - 1 \in 1 .. Len(r) /\ (i - 1) + 1 = i
    BY <1>1
  <2>2. r[i].pkt <= m /\ r[i] = Following(q[i])
    BY <1>2, <2>1
  <2>3. q[i] = IF i = 1 THEN Piece(n, k + 1) ELSE r[i - 1]
    BY <1>1, <1>3, <2>1
  <2> QED  BY <2>2, <2>3
<1>6. Piece(m, w) = IF r = <<>> THEN Piece(n, k + 1) ELSE r[Len(r)]
  <2>1. CASE r = <<>>
    <3>1. Len(q) = 1
      BY <1>1, <2>1, EmptySeq
    <3> QED  BY <1>2, <1>3, <2>1, <3>1
  <2>2. CASE r # <<>>
    <3>1. Len(r) \in 1 .. Len(r) /\ Len(r) + 1 = Len(q)
      BY <1>1, <2>2, EmptySeq
    <3>2. r[Len(r)] = q[Len(q)]
      BY <1>1, <3>1
    <3> QED  BY <1>2, <2>2, <3>2
  <2> QED  BY <2>1, <2>2
<1> HIDE DEF r
<1>7. Follow(r, n, k + 1, m, w)
  BY <1>2, <1>5, <1>6 DEF Follow
<1> QED  BY <1>3, <1>4, <1>7 DEF r

\* The host writes the word p, which follows what it has written.
LEMMA FollowWritten ==
    ASSUME NEW q \in Seq(Pieces), NEW n \in Nat, NEW k \in Nat, NEW m \in Nat, NEW w \in Nat,
           Follow(q, n, k, m, w), NEW p \in Pieces, p = Following(Piece(m, w)), m <= p.pkt
    PROVE  Follow(q \o <<p>>, n, k, p.pkt, p.pos)
<1> DEFINE r == q \o <<p>>
<1>1. /\ Len(q) \in Nat /\ r \in Seq(Pieces) /\ Len(r) = Len(q) + 1 /\ r # <<>>
      /\ \A i \in 1 .. Len(q) : r[i] = q[i] /\ q[i] \in Pieces
      /\ r[Len(q) + 1] = p
  <2>1. r = Append(q, p)
    BY AppendIsConcat
  <2>2. Len(q) \in Nat /\ \A i \in 1 .. Len(q) : q[i] \in Pieces
    BY LenProperties, ElementOfSeq
  <2> QED  BY <2>1, <2>2, AppendProperties
<1>2. /\ n <= m
      /\ \A i \in 1 .. Len(q) :
             q[i].pkt <= m /\ q[i] = Following(IF i = 1 THEN Piece(n, k) ELSE q[i - 1])
      /\ Piece(m, w) = IF q = <<>> THEN Piece(n, k) ELSE q[Len(q)]
  BY DEF Follow
<1>3. p.pkt \in Nat /\ p.pos \in Nat /\ p = Piece(p.pkt, p.pos)
  BY PieceType, Constants
<1>4. ASSUME NEW i \in 1 .. Len(r)
      PROVE  r[i].pkt <= p.pkt /\ r[i] = Following(IF i = 1 THEN Piece(n, k) ELSE r[i - 1])
  <2>1. CASE i \in 1 .. Len(q)
    <3>1. r[i] = q[i] /\ q[i].pkt <= m /\ q[i].pkt \in Nat
      BY <1>1, <1>2, <2>1, PieceType, Constants
    <3>2. i # 1 => i - 1 \in 1 .. Len(q) /\ r[i - 1] = q[i - 1]
      BY <1>1, <2>1
    <3>3. q[i] = Following(IF i = 1 THEN Piece(n, k) ELSE q[i - 1])
      BY <1>2, <2>1
    <3>4. r[i] = Following(IF i = 1 THEN Piece(n, k) ELSE r[i - 1])
      BY <3>1, <3>2, <3>3
    <3> QED  BY SMTT(30), <1>3, <3>1, <3>4
  <2>2. CASE i = Len(q) + 1
    <3>1. r[i] = p
      BY <1>1, <2>2
    <3>2. Piece(m, w) = IF i = 1 THEN Piece(n, k) ELSE r[i - 1]
      <4>1. CASE q = <<>>
        <5>1. i = 1
          BY <2>2, <4>1, EmptySeq
        <5> QED  BY <1>2, <4>1, <5>1
      <4>2. CASE q # <<>>
        <5>1. i # 1 /\ i - 1 = Len(q) /\ Len(q) \in 1 .. Len(q)
          BY <1>1, <2>2, <4>2, EmptySeq
        <5>2. r[i - 1] = q[Len(q)]
          BY <1>1, <5>1
        <5> QED  BY <1>2, <4>2, <5>1, <5>2
      <4> QED  BY <4>1, <4>2
    <3>3. r[i] = Following(IF i = 1 THEN Piece(n, k) ELSE r[i - 1])
      BY <3>1, <3>2
    <3> QED  BY <1>3, <3>1, <3>3
  <2> QED  BY <1>1, <2>1, <2>2
<1>5. Piece(p.pkt, p.pos) = r[Len(r)]
  BY <1>1, <1>3
<1>6. n <= p.pkt
  BY <1>2, <1>3
<1>7. r # <<>>
  BY <1>1
<1> HIDE DEF r
<1>8. Follow(r, n, k, p.pkt, p.pos)
  BY <1>4, <1>5, <1>6, <1>7 DEF Follow
<1> QED  BY <1>8 DEF r

\* When all of a packet has been taken and more is there, the next packet begins.
LEMMA FollowBegins ==
    ASSUME NEW q \in Seq(Pieces), q # <<>>, NEW n \in Nat, NEW m \in Nat, NEW w \in Nat,
           Follow(q, n, INST1_SIZE, m, w)
    PROVE  n + 1 <= m /\ Follow(q, n + 1, 0, m, w)
<1> USE Constants
<1>1. Len(q) \in Nat /\ Len(q) >= 1
  BY LenProperties, EmptySeq
<1>2. /\ \A i \in 1 .. Len(q) :
             q[i].pkt <= m /\ q[i] = Following(IF i = 1 THEN Piece(n, INST1_SIZE) ELSE q[i - 1])
      /\ Piece(m, w) = q[Len(q)]
  BY DEF Follow
<1>3. q[1] = Piece(n + 1, 1) /\ q[1] = Following(Piece(n + 1, 0))
  <2>1. q[1] = Following(Piece(n, INST1_SIZE))
    BY <1>1, <1>2
  <2>2. Following(Piece(n, INST1_SIZE)) = Piece(n + 1, 1)
    BY Follows
  <2>3. Following(Piece(n + 1, 0)) = Piece(n + 1, 0 + 1)
    BY Follows
  <2> QED  BY <2>1, <2>2, <2>3
<1>4. n + 1 <= m
  BY <1>1, <1>2, <1>3, PieceFields
<1>5. \A i \in 1 .. Len(q) :
          q[i].pkt <= m /\ q[i] = Following(IF i = 1 THEN Piece(n + 1, 0) ELSE q[i - 1])
  BY <1>2, <1>3
<1> QED  BY <1>2, <1>4, <1>5 DEF Follow

-----------------------------------------------------------------------------
(* One edge of the bus clock.                                              *)

HostWrites(written) ==
    \/ written = <<>> /\ UNCHANGED hostVars
    \/ (HostContinues \/ HostBegins) /\ written = <<Piece(npct', nword')>>

LEMMA BusSteps ==
    ASSUME NEW lag \in BOOLEAN, Bus(lag)
    PROVE  /\ \E written \in {<<>>, <<Piece(npct', nword')>>} :
                  HostWrites(written) /\ BusTick(written, in_pct_reset_req, lag)
           /\ UNCHANGED <<wrVars, in_q, in_pct_rdy>>
BY DEF Bus, HostWrites

\* The host's counters.
LEMMA HostStep ==
    ASSUME TypeOK, NEW written, HostWrites(written)
    PROVE  /\ npct' \in 0 .. MAX_PACKETS /\ nword' \in 1 .. INST1_SIZE /\ withdrawn' = withdrawn
           /\ npct <= npct' /\ (npct' = 0 => nword' = INST1_SIZE)
           /\ Len(written) \in 0 .. 1
           /\ \/ written = <<>> /\ npct' = npct /\ nword' = nword
              \/ /\ written = <<Piece(npct', nword')>>
                 /\ Piece(npct', nword') = Following(Piece(npct, nword))
                 /\ Piece(npct', nword') \in Pieces
<1> USE Constants
<1>1. /\ npct \in 0 .. MAX_PACKETS /\ nword \in 1 .. INST1_SIZE
      /\ npct = 0 => nword = INST1_SIZE
  BY DEF TypeOK
<1>2. CASE written = <<>> /\ UNCHANGED hostVars
  BY <1>1, <1>2 DEF hostVars
<1>3. CASE HostContinues /\ written = <<Piece(npct', nword')>>
  <2>1. nword < INST1_SIZE /\ nword' = nword + 1 /\ npct' = npct /\ withdrawn' = withdrawn
    BY <1>3 DEF HostContinues
  <2>2. Piece(npct', nword') = Following(Piece(npct, nword))
    BY <1>1, <2>1, Follows
  <2>3. npct' \in 1 .. MAX_PACKETS /\ nword' \in 1 .. INST1_SIZE
    BY <1>1, <2>1 DEF TypeOK
  <2>4. Piece(npct', nword') \in Pieces
    BY <2>3, IsPiece
  <2> QED  BY <1>1, <1>3, <2>1, <2>2, <2>3, <2>4
<1>4. CASE HostBegins /\ written = <<Piece(npct', nword')>>
  <2>1. /\ nword = INST1_SIZE /\ npct < MAX_PACKETS
        /\ nword' = 1 /\ npct' = npct + 1 /\ withdrawn' = withdrawn
    BY <1>4 DEF HostBegins
  <2>2. Piece(npct', nword') = Following(Piece(npct, nword))
    BY <1>1, <2>1, Follows
  <2>3. npct' \in 1 .. MAX_PACKETS /\ nword' \in 1 .. INST1_SIZE
    BY <1>1, <2>1
  <2>4. Piece(npct', nword') \in Pieces
    BY <2>3, IsPiece
  <2> QED  BY <1>1, <1>4, <2>1, <2>2, <2>3, <2>4
<1> QED  BY <1>2, <1>3, <1>4 DEF HostWrites

\* What stays in the first FIFO, and what the host writes behind it.
LEMMA FirstFifoStep ==
    ASSUME TypeOK, NEW written, HostWrites(written), NEW rest \in Seq(Pieces),
           NEW n \in Nat, NEW k \in Nat, Follow(rest, n, k, npct, nword),
           inst0' = rest \o written
    PROVE  /\ inst0' \in Seq(Pieces) /\ Len(inst0') \in Nat
           /\ Len(inst0') = Len(rest) + Len(written) /\ Len(inst0') >= Len(rest)
           /\ InHostOrder(n, k)'
<1> USE Constants
<1>1. npct \in Nat /\ nword \in Nat /\ Len(rest) \in Nat
  BY LenProperties DEF TypeOK
<1>2. CASE written = <<>> /\ npct' = npct /\ nword' = nword
  <2>1. inst0' = rest /\ Len(written) = 0
    BY <1>2, ConcatEmptySeq
  <2> QED  BY <1>1, <1>2, <2>1 DEF InHostOrder
<1>3. CASE /\ written = <<Piece(npct', nword')>>
           /\ Piece(npct', nword') = Following(Piece(npct, nword))
           /\ Piece(npct', nword') \in Pieces
  <2> DEFINE p == Piece(npct', nword')
  <2>1. p \in Pieces /\ p = Following(Piece(npct, nword)) /\ inst0' = rest \o <<p>>
    BY <1>3
  <2>2. p.pkt = npct' /\ p.pos = nword' /\ npct <= npct'
    BY HostStep, PieceFields
  <2> HIDE DEF p
  <2>3. Follow(rest \o <<p>>, n, k, p.pkt, p.pos)
    BY <1>1, <2>1, <2>2, FollowWritten
  <2>4. rest \o <<p>> \in Seq(Pieces) /\ Len(rest \o <<p>>) = Len(rest) + 1
    BY <2>1, AppendIsConcat, AppendProperties
  <2>5. Len(written) = 1
    BY <1>3
  <2> QED  BY <1>1, <2>1, <2>2, <2>3, <2>4, <2>5 DEF InHostOrder
<1> QED  BY <1>2, <1>3, HostStep

Asked == IF inst0_rdreq THEN 1 ELSE 0

\* A word is moved to the second FIFO, and one is taken from the first.
LEMMA MovingStep ==
    ASSUME TypeOK, NEW written, HostWrites(written), MoveWords(written),
           inst1_wrreq' = inst0_rdreq,
           NEW n \in 1 .. MAX_PACKETS, MovingTo(n),
           Taken + Asked <= INST1_SIZE, Len(inst0) >= Asked
    PROVE  /\ inst0' \in Seq(Pieces) /\ inst1' \in Seq(Pieces)
           /\ inst0_q' \in Pieces \cup {NoPiece}
           /\ Len(inst0') + Asked = Len(inst0) + Len(written)
           /\ Len(inst0') + Asked >= Len(inst0) /\ Len(inst0') \in Nat
           /\ Len(inst1') = Taken /\ Taken' = Taken + Asked /\ MovingTo(n)'
<1> USE Constants
<1>1. /\ inst0 \in Seq(Pieces) /\ inst1 \in Seq(Pieces) /\ inst0_q \in Pieces \cup {NoPiece}
      /\ inst0_rdreq \in BOOLEAN /\ inst1_wrreq \in BOOLEAN
      /\ npct \in Nat /\ nword \in Nat /\ n \in Nat
      /\ Len(inst0) \in Nat /\ Len(inst1) \in Nat
      /\ inst0 # <<>> <=> Len(inst0) >= 1
  BY LenProperties, EmptySeq DEF TypeOK
<1>2. PICK k \in Nat : k = Taken
  BY <1>1 DEF Taken
<1>3. /\ k + Asked <= INST1_SIZE /\ k = Len(inst1) + (IF inst1_wrreq THEN 1 ELSE 0)
      /\ Follow(inst0, n, k, npct, nword)
      /\ \A j \in 1 .. Len(inst1) : inst1[j] = Piece(n, j)
      /\ inst1_wrreq => inst0_q = Piece(n, k)
  BY <1>2 DEF MovingTo, InHostOrder, Taken
<1>4. PICK m \in Nat : m = k + Asked
  BY <1>2 DEF Asked
<1>5. /\ inst1' \in Seq(Pieces) /\ Len(inst1') = k
      /\ \A j \in 1 .. k : inst1'[j] = Piece(n, j)
  <2>1. CASE inst1_wrreq
    <3>1. Len(inst1) < INST1_SIZE /\ k = Len(inst1) + 1
      BY <1>1, <1>3, <2>1 DEF Asked
    <3>2. inst1' = Append(inst1, inst0_q)
      BY <2>1, <3>1 DEF MoveWords
    <3>3. inst0_q = Piece(n, k) /\ inst0_q \in Pieces
      BY <1>1, <1>3, <2>1, <3>1, IsPiece
    <3>4. /\ inst1' \in Seq(Pieces) /\ Len(inst1') = Len(inst1) + 1
          /\ \A j \in 1 .. Len(inst1) : inst1'[j] = inst1[j]
          /\ inst1'[Len(inst1) + 1] = inst0_q
      BY <1>1, <3>2, <3>3, AppendProperties
    <3>5. \A j \in 1 .. k : j \in 1 .. Len(inst1) \/ j = Len(inst1) + 1
      BY <1>1, <3>1
    <3> QED  BY <1>3, <3>1, <3>3, <3>4, <3>5
  <2>2. CASE ~inst1_wrreq
    BY <1>1, <1>3, <2>2 DEF MoveWords
  <2> QED  BY <1>1, <2>1, <2>2
<1>6. /\ inst0' \in Seq(Pieces) /\ Len(inst0') \in Nat
      /\ Len(inst0') + Asked = Len(inst0) + Len(written)
      /\ Len(inst0') + Asked >= Len(inst0)
      /\ inst0_q' \in Pieces \cup {NoPiece}
      /\ InHostOrder(n, m)'
      /\ inst0_rdreq => inst0_q' = Piece(n, m)
  <2>1. CASE inst0_rdreq
    <3>1. inst0 # <<>> /\ Asked = 1 /\ k < INST1_SIZE /\ m = k + 1
      BY <1>1, <1>3, <1>4, <2>1 DEF Asked
    <3>2. inst0' = Tail(inst0) \o written /\ inst0_q' = Head(inst0)
      BY <2>1, <3>1 DEF MoveWords
    <3>3. Head(inst0) = Piece(n, k + 1) /\ Follow(Tail(inst0), n, k + 1, npct, nword)
      BY <1>1, <1>3, <3>1, FollowTaken
    <3>4. /\ Tail(inst0) \in Seq(Pieces) /\ Head(inst0) \in Pieces
          /\ Len(Tail(inst0)) = Len(inst0) - 1
      BY <1>1, <3>1, HeadTailProperties
    <3>5. k + 1 \in Nat
      BY <1>2
    <3>6. /\ inst0' \in Seq(Pieces) /\ Len(inst0') \in Nat
          /\ Len(inst0') = Len(Tail(inst0)) + Len(written) /\ Len(inst0') >= Len(Tail(inst0))
          /\ InHostOrder(n, k + 1)'
      BY <1>1, <3>2, <3>3, <3>4, <3>5, FirstFifoStep
    <3>7. Len(written) \in 0 .. 1
      BY HostStep
    <3> QED  BY <1>1, <3>1, <3>2, <3>3, <3>4, <3>6, <3>7
  <2>2. CASE ~inst0_rdreq
    <3>1. Asked = 0 /\ m = k
      BY <1>2, <1>4, <2>2 DEF Asked
    <3>2. inst0' = inst0 \o written /\ inst0_q' = inst0_q
      BY <2>2 DEF MoveWords
    <3>3. /\ inst0' \in Seq(Pieces) /\ Len(inst0') \in Nat
          /\ Len(inst0') = Len(inst0) + Len(written) /\ Len(inst0') >= Len(inst0)
          /\ InHostOrder(n, k)'
      BY <1>1, <1>2, <1>3, <3>2, FirstFifoStep
    <3>4. Len(written) \in 0 .. 1
      BY HostStep
    <3> QED  BY <1>1, <2>2, <3>1, <3>2, <3>3, <3>4
  <2> QED  BY <1>1, <2>1, <2>2
<1>7. Taken' = m
  BY <1>5, <1>4 DEF Taken, Asked
<1>8. MovingTo(n)'
  BY <1>5, <1>6, <1>7 DEF MovingTo
<1> QED  BY <1>2, <1>5, <1>6, <1>4, <1>7, <1>8

\* A chunk on its way leaves room for the rest of the packet.
LEMMA ChunkBounds ==
    ASSUME TypeOK, t_state \in TwoStates \ {"idle"}, ChunkInStep
    PROVE  /\ Taken \in Nat /\ Len(inst1) < INST1_SIZE
           /\ Taken + Asked <= INST1_SIZE /\ Len(inst0) >= Asked
           /\ t_state = "check_fifo_1" => ~Inst1Empty
<1> USE Constants
<1>1. /\ inst0 \in Seq(Pieces) /\ inst1 \in Seq(Pieces)
      /\ inst0_rdreq \in BOOLEAN /\ inst1_wrreq \in BOOLEAN
      /\ Len(inst0) \in Nat /\ Len(inst1) \in Nat /\ (inst1 = <<>> => Len(inst1) = 0)
  BY LenProperties, EmptySeq DEF TypeOK
<1>2. Taken \in Nat /\ Len(inst1) <= Taken
  BY <1>1 DEF Taken
<1>3. CASE t_state = "check_trnsf"
  <2>1. /\ trnsf_cnt \in 0 .. TRNSF_N /\ (inst0_rdreq <=> trnsf_cnt > 0)
        /\ Taken + Asked = trnsf_cnt * CHUNK /\ Len(inst0) >= Asked
    BY <1>3 DEF ChunkInStep, Asked
  <2>2. CASE trnsf_cnt = 0
    BY <1>1, <1>2, <1>3, <2>1, <2>2 DEF Asked
  <2>3. CASE trnsf_cnt > 0
    <3>1. PICK c \in Nat : trnsf_cnt = c + 1 /\ c < TRNSF_N
      <4>1. trnsf_cnt - 1 \in Nat /\ trnsf_cnt = (trnsf_cnt - 1) + 1 /\ trnsf_cnt - 1 < TRNSF_N
        BY <2>1, <2>3
      <4> QED  BY <4>1
    <3>2. trnsf_cnt * CHUNK = c * CHUNK + CHUNK /\ c * CHUNK + CHUNK <= INST1_SIZE
          /\ c * CHUNK \in Nat
      BY <3>1, Chunks
    <3> QED  BY <1>1, <1>2, <1>3, <2>1, <2>3, <3>2 DEF Asked
  <2> QED  BY <2>1, <2>2, <2>3
<1>4. CASE t_state \in {"check_fifo_0", "trnsf_fifo"}
  <2>1. PICK c \in Nat : trnsf_cnt - 1 = c /\ c < TRNSF_N
    <3>1. trnsf_cnt \in 1 .. TRNSF_N
      BY <1>4 DEF ChunkInStep
    <3>2. trnsf_cnt - 1 \in Nat /\ trnsf_cnt - 1 < TRNSF_N
      BY <3>1
    <3> QED  BY <3>2
  <2>2. c * CHUNK + CHUNK <= INST1_SIZE /\ c * CHUNK \in Nat
    BY <2>1, Chunks
  <2>3. CASE t_state = "check_fifo_0"
    BY <1>1, <1>2, <2>1, <2>2, <2>3 DEF ChunkInStep, Asked
  <2>4. CASE t_state = "trnsf_fifo"
    <3>1. /\ t_rd_cnt \in 0 .. (CHUNK - 1) /\ (inst0_rdreq <=> t_rd_cnt > 0)
          /\ Taken + Asked = c * CHUNK + t_rd_cnt /\ Len(inst0) + t_rd_cnt >= CHUNK + Asked
      BY <2>1, <2>4 DEF ChunkInStep, Asked
    <3> QED  BY <1>1, <1>2, <2>2, <2>4, <3>1 DEF Asked
  <2> QED  BY <1>4, <2>3, <2>4
<1>5. CASE t_state = "check_fifo_1"
  <2>1. ~inst0_rdreq /\ inst1_wrreq /\ Taken = INST1_SIZE
    BY <1>5 DEF ChunkInStep
  <2>2. Len(inst1) + 1 = INST1_SIZE /\ Asked = 0
    BY <2>1 DEF Taken, Asked
  <2> QED  BY <1>1, <1>2, <2>1, <2>2 DEF Inst1Empty
<1> QED  BY <1>3, <1>4, <1>5 DEF TwoStates

\* The unpacker rests while a packet is moved.
LEMMA Resting ==
    ASSUME TypeOK, NEW n, UnpackerAt(n, 0)
    PROVE  /\ w_state \in {"idle", "wait_wr_end", "check_next_buf", "switch_current_buff"}
           /\ ~in_pct_rdreq /\ ~in_pct_rdy
           /\ \A m : \A left \in {0, PCT_WORDS} : UnpackerAt(m, left)
<1> USE Constants
<1>1. w_state \in {"idle", "wait_wr_end", "check_next_buf", "switch_current_buff"}
      /\ ~in_pct_rdreq
  BY DEF TypeOK, WrStates, UnpackerAt, HeaderTaken
<1>2. ~in_pct_rdy
  BY <1>1 DEF TypeOK, UnpackerAt
<1>3. ASSUME NEW m, NEW left \in {0, PCT_WORDS} PROVE UnpackerAt(m, left)
  BY <1>1, <1>2, <1>3 DEF UnpackerAt
<1> QED  BY <1>1, <1>2, <1>3

LEMMA UnpackerStays ==
    ASSUME NEW n, NEW left, UnpackerAt(n, left), UNCHANGED <<wrVars, in_pct_rdy>>
    PROVE  UnpackerAt(n, left)'
BY DEF UnpackerAt, HeaderTaken, wrVars

\* The transfer FSM goes on, with a packet on its way.
LEMMA ChunkStep ==
    ASSUME TypeOK, NEW written, HostWrites(written), NEW lag \in BOOLEAN,
           TwoFsm(lag), TwoRegs, MoveWords(written),
           NEW n \in 1 .. MAX_PACKETS, MovingTo(n), ChunkInStep,
           t_state \in TwoStates \ {"idle"}
    PROVE  /\ t_state' \in TwoStates \ {"idle"} /\ trnsf_cnt' \in 0 .. TRNSF_N + 1
           /\ t_rd_cnt' \in 0 .. CHUNK /\ inst0_rdreq' \in BOOLEAN /\ inst1_wrreq' \in BOOLEAN
           /\ inst0' \in Seq(Pieces) /\ inst1' \in Seq(Pieces)
           /\ inst0_q' \in Pieces \cup {NoPiece} /\ Len(inst1') <= INST1_SIZE
           /\ \/ MovingTo(n)' /\ ChunkInStep'
              \/ /\ Moved' /\ InHostOrder(n, INST1_SIZE)' /\ Len(inst1') = INST1_SIZE
                 /\ \A j \in 1 .. INST1_SIZE : inst1'[j] = Piece(n, j)
<1> USE Constants
<1>1. /\ Taken \in Nat /\ Taken + Asked <= INST1_SIZE /\ Len(inst0) >= Asked
      /\ t_state = "check_fifo_1" => ~Inst1Empty
  BY ChunkBounds
<1>2. /\ inst1_wrreq' = inst0_rdreq /\ (inst0_rdreq' <=> t_state = "trnsf_fifo")
      /\ t_state = "check_trnsf" => trnsf_cnt' = trnsf_cnt + 1
      /\ t_state \notin {"check_trnsf", "idle"} => trnsf_cnt' = trnsf_cnt
      /\ t_rd_cnt' = IF t_state = "trnsf_fifo" THEN t_rd_cnt + 1 ELSE 0
  BY DEF TwoRegs
<1>3. /\ inst0' \in Seq(Pieces) /\ inst1' \in Seq(Pieces)
      /\ inst0_q' \in Pieces \cup {NoPiece}
      /\ Len(inst0') + Asked >= Len(inst0) /\ Len(inst0') \in Nat
      /\ Len(inst1') = Taken /\ Taken' = Taken + Asked /\ MovingTo(n)'
  BY <1>1, <1>2, MovingStep
<1>4. /\ inst0_rdreq \in BOOLEAN /\ inst1_wrreq \in BOOLEAN /\ Len(inst0) \in Nat
      /\ trnsf_cnt \in 0 .. TRNSF_N + 1 /\ t_rd_cnt \in 0 .. CHUNK
  BY LenProperties DEF TypeOK
<1>5. inst0_rdreq' \in BOOLEAN /\ inst1_wrreq' \in BOOLEAN /\ Len(inst1') <= INST1_SIZE
  <2>1. inst0_rdreq' \in BOOLEAN
    BY DEF TwoRegs
  <2>2. Len(inst1') <= INST1_SIZE
    BY <1>1, <1>3 DEF Asked
  <2> QED  BY <1>2, <1>4, <2>1, <2>2
<1>6. CASE t_state = "check_trnsf"
  <2>1. /\ trnsf_cnt \in 0 .. TRNSF_N /\ (inst0_rdreq <=> trnsf_cnt > 0)
        /\ Taken' = trnsf_cnt * CHUNK
    BY <1>3, <1>6 DEF ChunkInStep, Asked
  <2>2. /\ trnsf_cnt' = trnsf_cnt + 1 /\ t_rd_cnt' = 0 /\ ~inst0_rdreq'
        /\ (trnsf_cnt + 1) - 1 = trnsf_cnt
    BY <1>2, <1>4, <1>6
  <2>3. CASE t_state' = "check_fifo_0" /\ ~PacketMoved
    <3>1. trnsf_cnt' \in 1 .. TRNSF_N
      BY <2>1, <2>2, <2>3 DEF PacketMoved
    <3>2. ChunkInStep'
      BY <2>1, <2>2, <2>3, <3>1 DEF ChunkInStep
    <3> QED  BY <1>3, <1>5, <2>2, <2>3, <3>1, <3>2 DEF TwoStates
  <2>4. CASE t_state' = "check_fifo_1" /\ PacketMoved
    <3>1. trnsf_cnt = TRNSF_N
      BY <2>1, <2>4 DEF PacketMoved
    <3>2. Taken' = INST1_SIZE /\ inst1_wrreq'
      BY <1>2, <2>1, <3>1
    <3>3. ChunkInStep'
      BY <2>2, <2>4, <3>2 DEF ChunkInStep
    <3> QED  BY <1>3, <1>5, <2>2, <2>4, <3>1, <3>3 DEF TwoStates
  <2> QED  BY <1>6, <2>3, <2>4 DEF TwoFsm, TwoGoes
<1>7. CASE t_state = "check_fifo_0"
  <2>1. /\ trnsf_cnt \in 1 .. TRNSF_N /\ ~inst0_rdreq /\ t_rd_cnt = 0
        /\ Taken' = (trnsf_cnt - 1) * CHUNK
    BY <1>1, <1>3, <1>7 DEF ChunkInStep, Asked
  <2>2. trnsf_cnt' = trnsf_cnt /\ t_rd_cnt' = 0 /\ ~inst0_rdreq'
    BY <1>2, <1>7
  <2>3. CASE t_state' = "trnsf_fifo" /\ ChunkWaiting
    <3>1. /\ Len(inst0') >= CHUNK /\ Taken' + 0 = (trnsf_cnt - 1) * CHUNK + 0
      BY <1>1, <1>3, <1>4, <2>1, <2>3 DEF ChunkWaiting, Asked
    <3>2. ChunkInStep'
      BY <1>3, <2>1, <2>2, <2>3, <3>1 DEF ChunkInStep
    <3> QED  BY <1>3, <1>5, <2>1, <2>2, <2>3, <3>2 DEF TwoStates
  <2>4. CASE t_state' = "check_fifo_0"
    <3>1. ChunkInStep'
      BY <2>1, <2>2, <2>4 DEF ChunkInStep
    <3> QED  BY <1>3, <1>5, <2>1, <2>2, <2>4, <3>1 DEF TwoStates
  <2> QED  BY <1>7, <2>3, <2>4 DEF TwoFsm, TwoGoes
<1>8. CASE t_state = "trnsf_fifo"
  <2>1. /\ trnsf_cnt \in 1 .. TRNSF_N /\ t_rd_cnt \in 0 .. (CHUNK - 1)
        /\ Taken' = (trnsf_cnt - 1) * CHUNK + t_rd_cnt
        /\ Len(inst0) + t_rd_cnt >= CHUNK + Asked
    BY <1>3, <1>8 DEF ChunkInStep, Asked
  <2>2. PICK c \in Nat : trnsf_cnt - 1 = c /\ trnsf_cnt = c + 1 /\ c < TRNSF_N
    <3>1. /\ trnsf_cnt - 1 \in Nat /\ trnsf_cnt = (trnsf_cnt - 1) + 1
          /\ trnsf_cnt - 1 < TRNSF_N
      BY <2>1
    <3> QED  BY <3>1
  <2>3. c * CHUNK \in Nat /\ (c + 1) * CHUNK = c * CHUNK + CHUNK
    BY <2>2, Chunks
  <2>4. /\ trnsf_cnt' = trnsf_cnt /\ t_rd_cnt' = t_rd_cnt + 1 /\ inst0_rdreq'
        /\ Len(inst0') + t_rd_cnt >= CHUNK /\ Taken' = c * CHUNK + t_rd_cnt
    BY <1>2, <1>3, <1>4, <1>8, <2>1, <2>2 DEF Asked
  <2>5. CASE t_state' = "trnsf_fifo" /\ t_rd_cnt < CHUNK - 1
    <3>1. /\ t_rd_cnt' \in 0 .. (CHUNK - 1) /\ t_rd_cnt' > 0
          /\ Taken' + 1 = (trnsf_cnt - 1) * CHUNK + t_rd_cnt'
          /\ Len(inst0') + t_rd_cnt' >= CHUNK + 1
      BY <1>3, <2>1, <2>2, <2>3, <2>4, <2>5
    <3>2. ChunkInStep'
      BY <2>1, <2>4, <2>5, <3>1 DEF ChunkInStep
    <3> QED  BY <1>3, <1>4, <1>5, <2>1, <2>4, <2>5, <3>2 DEF TwoStates
  <2>6. CASE t_state' = "check_trnsf" /\ t_rd_cnt >= CHUNK - 1
    <3>1. Taken' + 1 = trnsf_cnt * CHUNK /\ Len(inst0') >= 1 /\ trnsf_cnt' > 0
      BY SMTT(30), <1>3, <2>1, <2>2, <2>3, <2>4, <2>6
    <3>2. ChunkInStep'
      BY <2>1, <2>4, <2>6, <3>1 DEF ChunkInStep
    <3> QED  BY <1>3, <1>4, <1>5, <2>1, <2>4, <2>6, <3>2 DEF TwoStates
  <2> QED  BY <1>8, <2>5, <2>6 DEF TwoFsm, TwoGoes
<1>9. CASE t_state = "check_fifo_1"
  <2>1. ~inst0_rdreq /\ inst1_wrreq /\ Taken = INST1_SIZE
    BY <1>9 DEF ChunkInStep
  <2>2. t_state' = "check_fifo_1"
    BY <1>1, <1>9 DEF TwoFsm, TwoGoes
  <2>3. Moved' /\ Len(inst1') = INST1_SIZE /\ Taken' = INST1_SIZE
    BY <1>2, <1>3, <1>9, <2>1, <2>2 DEF Moved, Asked
  <2>4. /\ InHostOrder(n, INST1_SIZE)'
        /\ \A j \in 1 .. INST1_SIZE : inst1'[j] = Piece(n, j)
    BY <1>3, <2>3 DEF MovingTo
  <2> QED  BY <1>2, <1>3, <1>4, <1>5, <1>9, <2>2, <2>3, <2>4 DEF TwoStates
<1> QED  BY <1>6, <1>7, <1>8, <1>9 DEF TwoStates

\* The bus clock keeps the invariant.
LEMMA BusIInv ==
    ASSUME IInv, NEW lag \in BOOLEAN, Bus(lag)
    PROVE  IInv'
<1> USE Constants
<1>1. PICK written : HostWrites(written) /\ BusTick(written, in_pct_reset_req, lag)
  BY BusSteps
<1>2. UNCHANGED <<wrVars, in_q, in_pct_rdy>>
  BY BusSteps
<1>3. TypeOK /\ InStep
  BY DEF IInv
<1>4. /\ npct' \in 0 .. MAX_PACKETS /\ nword' \in 1 .. INST1_SIZE /\ withdrawn' = withdrawn
      /\ npct' = 0 => nword' = INST1_SIZE
      /\ npct <= npct' /\ Len(written) \in 0 .. 1
  BY <1>1, <1>3, HostStep
<1>5. Len(inst0) + Len(written) <= INST0_SIZE
  BY <1>1 DEF BusTick
<1>6. /\ inst0 \in Seq(Pieces) /\ inst1 \in Seq(Pieces) /\ Len(inst0) \in Nat
      /\ Len(inst1) \in Nat /\ Len(inst1) <= INST1_SIZE
      /\ inst0_rdreq \in BOOLEAN /\ inst1_wrreq \in BOOLEAN /\ npct \in Nat /\ nword \in Nat
      /\ inst0_q \in Pieces \cup {NoPiece} /\ reset_1 \in 0 .. 2
      /\ trnsf_cnt \in 0 .. TRNSF_N + 1 /\ t_state \in TwoStates
  BY <1>3, LenProperties DEF TypeOK
<1>7. (inst0 # <<>> <=> Len(inst0) >= 1) /\ (inst1 = <<>> <=> Len(inst1) = 0)
  BY <1>6, EmptySeq
\* What is left to show.
<1> DEFINE Types ==
        /\ inst0' \in Seq(Pieces) /\ inst1' \in Seq(Pieces)
        /\ Len(inst0') <= INST0_SIZE /\ Len(inst1') <= INST1_SIZE
        /\ inst0_q' \in Pieces \cup {NoPiece} /\ reset_1' \in 0 .. 2
        /\ inst0_rdreq' \in BOOLEAN /\ inst1_wrreq' \in BOOLEAN
        /\ t_state' \in TwoStates /\ trnsf_cnt' \in 0 .. TRNSF_N + 1
        /\ t_rd_cnt' \in 0 .. CHUNK
<1>8. Types => TypeOK'
  <2>1. /\ withdrawn' \in 0 .. MAX_PACKETS /\ npct' \in 0 .. MAX_PACKETS
        /\ nword' \in 1 .. PCT_WORDS * RATIO
    BY <1>3, <1>4 DEF TypeOK
  <2>2. npct' = 0 => nword' = PCT_WORDS * RATIO
    BY <1>4
  <2> QED  BY <1>2, <1>3, <2>1, <2>2 DEF TypeOK, wrVars
<1> HIDE DEF Types
<1>9. PICK n \in 0 .. MAX_PACKETS :
        \/ /\ t_state = "idle" /\ ~inst0_rdreq /\ ~inst1_wrreq /\ inst1 = <<>>
           /\ InHostOrder(n, INST1_SIZE) /\ UnpackerAt(n, 0) /\ in_q.pkt.id <= n
        \/ /\ t_state # "idle" /\ reset_1 = 0
           /\ MovingTo(n) /\ ChunkInStep /\ UnpackerAt(n, 0) /\ in_q.pkt.id < n
        \/ /\ Moved /\ reset_1 = 0 /\ InHostOrder(n, INST1_SIZE)
           /\ \E left \in 0 .. PCT_WORDS : Stored(n, left) /\ UnpackerAt(n, left)
  BY <1>3 DEF InStep
<1>10. in_q.pkt.id \in 0 .. MAX_PACKETS /\ in_q' = in_q /\ n \in Nat
  BY <1>2, <1>3 DEF TypeOK
<1>11. CASE t_state = "idle" /\ ~inst0_rdreq /\ ~inst1_wrreq /\ inst1 = <<>>
            /\ InHostOrder(n, INST1_SIZE) /\ UnpackerAt(n, 0) /\ in_q.pkt.id <= n
  <2>1. Follow(inst0, n, INST1_SIZE, npct, nword) /\ n <= npct
    BY <1>11 DEF InHostOrder, Follow
  <2>2. inst0' = inst0 \o written /\ inst1' = <<>> /\ inst0_q' = inst0_q
        /\ ~inst0_rdreq' /\ ~inst1_wrreq' /\ t_state' \in {"idle", "check_trnsf"}
        /\ inst0_rdreq' \in BOOLEAN /\ inst1_wrreq' \in BOOLEAN
        /\ reset_1' \in 0 .. 2 /\ trnsf_cnt' = 0 /\ t_rd_cnt' = 0
        /\ (t_state' = "check_trnsf" => inst0 # <<>> /\ reset_1' = 0)
    <3>1. CASE reset_1 = 0
      <4>1. TwoFsm(lag) /\ TwoRegs /\ MoveWords(written) /\ UNCHANGED reset_1
        BY <1>1, <3>1 DEF BusTick
      <4>2. t_state' \in {"idle", "check_trnsf"} /\ (t_state' = "check_trnsf" => ChunkWaiting)
        BY <1>11, <4>1 DEF TwoFsm, TwoGoes
      <4>3. ChunkWaiting => inst0 # <<>>
        BY <1>6, <1>7 DEF ChunkWaiting
      <4>4. inst0' = inst0 \o written /\ inst1' = inst1 /\ inst0_q' = inst0_q
        BY <1>11, <4>1 DEF MoveWords
      <4>5. /\ ~inst0_rdreq' /\ ~inst1_wrreq' /\ trnsf_cnt' = 0 /\ t_rd_cnt' = 0
            /\ inst0_rdreq' \in BOOLEAN /\ inst1_wrreq' \in BOOLEAN
        BY <1>6, <1>11, <4>1 DEF TwoRegs
      <4> QED  BY <1>6, <1>11, <3>1, <4>1, <4>2, <4>3, <4>4, <4>5
    <3>2. CASE reset_1 # 0
      <4>1. /\ reset_1' = (IF in_pct_reset_req THEN 2 ELSE reset_1 - 1)
            /\ TwoReset /\ inst0' = inst0 \o written /\ UNCHANGED <<inst0_q, inst1>>
        BY <1>1, <3>2 DEF BusTick
      <4>2. reset_1' \in 0 .. 2
        BY <1>6, <3>2, <4>1
      <4> QED  BY <1>11, <4>1, <4>2 DEF TwoReset
    <3> QED  BY <3>1, <3>2
  <2>3. /\ inst0' \in Seq(Pieces) /\ Len(inst0') \in Nat
        /\ Len(inst0') = Len(inst0) + Len(written)
        /\ InHostOrder(n, INST1_SIZE)'
    BY <1>1, <1>3, <1>6, <1>10, <2>1, <2>2, FirstFifoStep
  <2>4. inst1' \in Seq(Pieces) /\ Len(inst1') = 0
    BY <1>6, <1>7, <1>11, <2>2
  <2>5. Types
    BY <1>4, <1>5, <1>6, <2>2, <2>3, <2>4 DEF Types, TwoStates
  <2>6. UnpackerAt(n, 0)'
    BY <1>2, <1>11, UnpackerStays
  <2>7. CASE t_state' = "idle"
    <3>1. InStep'
      BY <1>10, <1>11, <2>2, <2>3, <2>6, <2>7 DEF InStep
    <3> QED  BY <1>8, <2>5, <3>1 DEF IInv
  <2>8. CASE t_state' = "check_trnsf"
    <3>1. n + 1 <= npct /\ Follow(inst0, n + 1, 0, npct, nword)
      BY <1>6, <2>1, <2>2, <2>8, FollowBegins
    <3>2. n + 1 \in 0 .. MAX_PACKETS /\ n + 1 \in Nat
      BY <1>4, <1>6, <3>1
    <3>3. InHostOrder(n + 1, 0)'
      BY <1>1, <1>3, <1>6, <2>2, <3>1, <3>2, FirstFifoStep
    <3>4. Taken' = 0
      BY <2>2, <2>4 DEF Taken
    <3>5. MovingTo(n + 1)'
      BY <2>2, <2>4, <3>3, <3>4 DEF MovingTo
    <3>6. ChunkInStep'
      BY <2>2, <2>3, <2>8, <3>4 DEF ChunkInStep
    <3>7. UnpackerAt(n + 1, 0)'
      <4>1. UnpackerAt(n + 1, 0)
        BY <1>3, <1>11, Resting
      <4> QED  BY <1>2, <4>1, UnpackerStays
    <3>8. InStep'
      BY <1>10, <1>11, <2>2, <2>8, <3>2, <3>5, <3>6, <3>7 DEF InStep
    <3> QED  BY <1>8, <2>5, <3>8 DEF IInv
  <2> QED  BY <2>2, <2>7, <2>8
<1>12. CASE t_state # "idle" /\ reset_1 = 0
            /\ MovingTo(n) /\ ChunkInStep /\ UnpackerAt(n, 0) /\ in_q.pkt.id < n
  <2>1. TwoFsm(lag) /\ TwoRegs /\ MoveWords(written) /\ reset_1' = 0
    BY <1>1, <1>12 DEF BusTick
  <2>2. n \in 1 .. MAX_PACKETS /\ t_state \in TwoStates \ {"idle"}
    <3>1. \A i \in Nat : i < n => n \in 1 .. MAX_PACKETS
      OBVIOUS
    <3>2. in_q.pkt.id \in Nat /\ in_q.pkt.id < n
      BY <1>10, <1>12
    <3>3. n \in 1 .. MAX_PACKETS
      BY <3>1, <3>2
    <3>4. t_state \in TwoStates \ {"idle"}
      BY <1>6, <1>12
    <3> QED  BY <3>3, <3>4
  <2>3. /\ t_state' \in TwoStates \ {"idle"} /\ trnsf_cnt' \in 0 .. TRNSF_N + 1
        /\ t_rd_cnt' \in 0 .. CHUNK /\ inst0_rdreq' \in BOOLEAN /\ inst1_wrreq' \in BOOLEAN
        /\ inst0' \in Seq(Pieces) /\ inst1' \in Seq(Pieces)
        /\ inst0_q' \in Pieces \cup {NoPiece} /\ Len(inst1') <= INST1_SIZE
        /\ \/ MovingTo(n)' /\ ChunkInStep'
           \/ /\ Moved' /\ InHostOrder(n, INST1_SIZE)' /\ Len(inst1') = INST1_SIZE
              /\ \A j \in 1 .. INST1_SIZE : inst1'[j] = Piece(n, j)
    BY <1>1, <1>3, <1>12, <2>1, <2>2, ChunkStep
  <2>4. Len(inst0') <= INST0_SIZE
    <3>1. Taken + Asked <= INST1_SIZE /\ Len(inst0) >= Asked
      BY <1>3, <1>12, <2>2, ChunkBounds
    <3>2. inst1_wrreq' = inst0_rdreq
      BY <2>1 DEF TwoRegs
    <3>3. Len(inst0') + Asked = Len(inst0) + Len(written) /\ Len(inst0') \in Nat
      BY <1>1, <1>3, <1>12, <2>1, <2>2, <3>1, <3>2, MovingStep
    <3> QED  BY <1>4, <1>5, <1>6, <3>3 DEF Asked
  <2>5. Types
    BY <2>1, <2>3, <2>4 DEF Types
  <2>6. UnpackerAt(n, 0)'
    BY <1>2, <1>12, UnpackerStays
  <2>7. CASE MovingTo(n)' /\ ChunkInStep'
    <3>1. InStep'
      BY <1>10, <1>12, <2>1, <2>3, <2>6, <2>7 DEF InStep
    <3> QED  BY <1>8, <2>5, <3>1 DEF IInv
  <2>8. CASE /\ Moved' /\ InHostOrder(n, INST1_SIZE)' /\ Len(inst1') = INST1_SIZE
             /\ \A j \in 1 .. INST1_SIZE : inst1'[j] = Piece(n, j)
    <3>1. Stored(n, PCT_WORDS)'
      <4>1. PCT_WORDS - PCT_WORDS = 0 /\ 0 * RATIO = 0 /\ \A j \in 1 .. INST1_SIZE : 0 + j = j
        OBVIOUS
      <4> QED  BY <1>10, <1>12, <2>8, <4>1 DEF Stored
    <3>2. UnpackerAt(n, PCT_WORDS)'
      <4>1. UnpackerAt(n, PCT_WORDS)
        BY <1>3, <1>12, Resting
      <4> QED  BY <1>2, <4>1, UnpackerStays
    <3>3. PCT_WORDS \in 0 .. PCT_WORDS
      OBVIOUS
    <3>4. InStep'
      BY <2>1, <2>8, <3>1, <3>2, <3>3 DEF InStep
    <3> QED  BY <1>8, <2>5, <3>4 DEF IInv
  <2> QED  BY <2>3, <2>7, <2>8
<1>13. CASE Moved /\ reset_1 = 0 /\ InHostOrder(n, INST1_SIZE)
            /\ \E left \in 0 .. PCT_WORDS : Stored(n, left) /\ UnpackerAt(n, left)
  <2>1. PICK left \in 0 .. PCT_WORDS : Stored(n, left) /\ UnpackerAt(n, left)
    BY <1>13
  <2>2. TwoFsm(lag) /\ TwoRegs /\ MoveWords(written) /\ reset_1' = 0
    BY <1>1, <1>13 DEF BusTick
  <2>3. t_state = "check_fifo_1" /\ ~inst0_rdreq /\ ~inst1_wrreq
    BY <1>13 DEF Moved
  <2>4. /\ inst0' = inst0 \o written /\ inst1' = inst1 /\ inst0_q' = inst0_q
        /\ ~inst0_rdreq' /\ ~inst1_wrreq' /\ trnsf_cnt' = trnsf_cnt /\ t_rd_cnt' = 0
        /\ inst0_rdreq' \in BOOLEAN /\ inst1_wrreq' \in BOOLEAN
        /\ t_state' \in {"check_fifo_1", "idle"} /\ (t_state' = "idle" => inst1 = <<>>)
    <3>1. inst0' = inst0 \o written /\ inst1' = inst1 /\ inst0_q' = inst0_q
      BY <2>2, <2>3 DEF MoveWords
    <3>2. /\ ~inst0_rdreq' /\ ~inst1_wrreq' /\ trnsf_cnt' = trnsf_cnt /\ t_rd_cnt' = 0
          /\ inst0_rdreq' \in BOOLEAN /\ inst1_wrreq' \in BOOLEAN
      BY <1>6, <2>2, <2>3 DEF TwoRegs
    <3>3. t_state' \in {"check_fifo_1", "idle"} /\ (t_state' = "idle" => inst1 = <<>>)
      BY <2>2, <2>3 DEF TwoFsm, TwoGoes, Inst1Empty
    <3> QED  BY <3>1, <3>2, <3>3
  <2>5. /\ inst0' \in Seq(Pieces) /\ Len(inst0') \in Nat
        /\ Len(inst0') = Len(inst0) + Len(written)
        /\ InHostOrder(n, INST1_SIZE)'
    <3>1. Follow(inst0, n, INST1_SIZE, npct, nword)
      BY <1>13 DEF InHostOrder
    <3> QED  BY <1>1, <1>3, <1>6, <1>10, <2>4, <3>1, FirstFifoStep
  <2>6. Types
    BY <1>4, <1>5, <1>6, <2>2, <2>4, <2>5 DEF Types, TwoStates
  <2>7. UnpackerAt(n, left)'
    BY <1>2, <2>1, UnpackerStays
  <2>8. CASE t_state' = "check_fifo_1"
    <3>1. Stored(n, left)' /\ Moved'
      BY <1>10, <2>1, <2>4, <2>8 DEF Stored, Moved
    <3>2. InStep'
      BY <2>2, <2>5, <2>7, <3>1 DEF InStep
    <3> QED  BY <1>8, <2>6, <3>2 DEF IInv
  <2>9. CASE t_state' = "idle"
    <3>1. left = 0
      <4>1. left * RATIO = 0
        BY <1>7, <2>1, <2>4, <2>9 DEF Stored
      <4> QED  BY <4>1, Words
    <3>2. in_q.pkt.id <= n
      BY <2>1, <3>1, PieceFields DEF Stored, Word, Hdr
    <3>3. InStep'
      BY <1>10, <2>4, <2>5, <2>7, <2>9, <3>1, <3>2 DEF InStep
    <3> QED  BY <1>8, <2>6, <3>3 DEF IInv
  <2> QED  BY <2>4, <2>8, <2>9
<1> QED  BY <1>9, <1>11, <1>12, <1>13

-----------------------------------------------------------------------------
(* One edge of the TX clock.                                               *)

\* The registers of the write FSM stay in their ranges.
LEMMA UnpackerType ==
    ASSUME TypeOK, NEW buff_empty, NEW sample_nr,
           WrTick(in_pct_rdy, in_q, buff_empty, sample_nr)
    PROVE  /\ w_state' \in WrStates
           /\ {w_rd_cnt', pipe_cnt', pct_data_wrreq_cnt'} \subseteq Nat
           /\ {in_pct_rdreq', in_pct_data_valid', in_pct_reset_req'} \subseteq BOOLEAN
<1>1. /\ w_rd_cnt \in Nat /\ pipe_cnt \in Nat /\ pct_data_wrreq_cnt \in Nat
      /\ in_pct_rdreq \in BOOLEAN
  BY DEF TypeOK
<1>2. WrFsm(in_pct_rdy) /\ WrCounters /\ WrOutputs(in_q)
  BY DEF WrTick
<1>3. w_state' \in WrStates
  BY <1>2 DEF WrFsm, WrGoes, WrStates
<1>4. w_rd_cnt' \in Nat /\ pipe_cnt' \in Nat /\ pct_data_wrreq_cnt' \in Nat
  BY <1>1, <1>2 DEF WrCounters
<1>5. in_pct_rdreq' \in BOOLEAN /\ in_pct_data_valid' \in BOOLEAN /\ in_pct_reset_req' \in BOOLEAN
  BY <1>1, <1>2 DEF WrOutputs, ClearRequest
<1> QED  BY <1>3, <1>4, <1>5

\* It reads what is left, or has it cleared between the header and the data.
LEMMA UnpackerReads ==
    ASSUME TypeOK, NEW n, NEW left \in 0 .. PCT_WORDS, UnpackerAt(n, left),
           NEW buff_empty, NEW sample_nr, WrTick(in_pct_rdy, in_q, buff_empty, sample_nr)
    PROVE  /\ in_pct_rdreq => left > 0
           /\ in_pct_reset_req' <=> w_state = "clr_fifo"
           /\ in_pct_reset_req' => ~in_pct_rdreq /\ left = PCT_WORDS - 1
<1> USE Constants
<1>1. in_pct_reset_req' <=> w_state = "clr_fifo"
  BY DEF WrTick, WrOutputs, ClearRequest
<1>2. w_state \in WrStates /\ w_rd_cnt \in Nat /\ in_pct_rdreq \in BOOLEAN
  BY DEF TypeOK
<1>3. in_pct_rdreq => left > 0
  BY <1>2 DEF UnpackerAt, HeaderTaken, WrStates
<1>4. w_state = "clr_fifo" => ~in_pct_rdreq /\ left = PCT_WORDS - 1
  BY DEF UnpackerAt, HeaderTaken
<1> QED  BY <1>1, <1>3, <1>4

LEMMA UnpackerStep ==
    ASSUME TypeOK, NEW n, NEW left \in 0 .. PCT_WORDS, UnpackerAt(n, left),
           NEW buff_empty, NEW sample_nr, WrTick(in_pct_rdy, in_q, buff_empty, sample_nr),
           in_pct_rdy' => left = PCT_WORDS,
           left = PCT_WORDS - 1 => in_q.pkt = Hdr(n),
           NEW next, next = IF in_pct_rdreq THEN left - 1
                            ELSE IF w_state = "clr_fifo" THEN 0 ELSE left
    PROVE  UnpackerAt(n, next)'
<1> USE Constants
<1>1. /\ w_state \in WrStates /\ w_rd_cnt \in Nat /\ pipe_cnt \in Nat
      /\ pct_data_wrreq_cnt \in Nat /\ in_pct_rdreq \in BOOLEAN
      /\ in_pct_data_valid \in BOOLEAN /\ in_pct_reset_req \in BOOLEAN /\ in_pct_rdy \in BOOLEAN
  BY DEF TypeOK
<1>2. WrFsm(in_pct_rdy) /\ WrCounters /\ WrOutputs(in_q)
  BY DEF WrTick
<1>3. /\ in_pct_rdreq' <=> w_state \in {"rd_pct", "rd_hdr"}
      /\ in_pct_data_valid' <=> in_pct_rdreq
      /\ in_pct_reset_req' <=> w_state = "clr_fifo"
      /\ in_pct_data_valid /\ pct_data_wrreq_cnt = 0 => pct_hdr' = in_q.pkt
      /\ ~(in_pct_data_valid /\ pct_data_wrreq_cnt = 0) => pct_hdr' = pct_hdr
  BY <1>1, <1>2 DEF WrOutputs, ClearRequest
<1>4. /\ w_state \in {"rd_pct", "rd_hdr"} => w_rd_cnt' = w_rd_cnt + 1
      /\ w_state = "idle" => w_rd_cnt' = 0
      /\ w_state \notin {"rd_pct", "rd_hdr", "idle"} => w_rd_cnt' = w_rd_cnt
      /\ w_state = "wait_cmpr_pipe" => pipe_cnt' = pipe_cnt + 1
      /\ w_state # "wait_cmpr_pipe" => pipe_cnt' = 0
      /\ in_pct_data_valid => pct_data_wrreq_cnt' = pct_data_wrreq_cnt + 1
      /\ ~in_pct_data_valid /\ w_state = "idle" => pct_data_wrreq_cnt' = 0
      /\ ~in_pct_data_valid /\ w_state # "idle" => pct_data_wrreq_cnt' = pct_data_wrreq_cnt
  BY <1>1, <1>2 DEF WrCounters
<1>5. Hdr(n).id = n
  BY DEF Hdr
<1>6. CASE w_state = "idle"
  BY <1>1, <1>2, <1>3, <1>4, <1>6 DEF WrFsm, WrGoes, UnpackerAt, HeaderTaken
<1>7. CASE w_state = "rd_hdr"
  BY <1>1, <1>2, <1>3, <1>4, <1>7 DEF WrFsm, WrGoes, UnpackerAt, HeaderTaken
<1>8. CASE w_state = "wait_cmpr_pipe"
  BY <1>1, <1>2, <1>3, <1>4, <1>5, <1>8 DEF WrFsm, WrGoes, UnpackerAt, HeaderTaken, PipeFull
<1>9. CASE w_state \in {"check_smpl_nr", "clr_fifo", "switch_next_buff"}
  BY <1>1, <1>2, <1>3, <1>4, <1>9 DEF WrFsm, WrGoes, UnpackerAt, HeaderTaken
<1>10. CASE w_state = "rd_pct"
  BY <1>1, <1>2, <1>3, <1>4, <1>10 DEF WrFsm, WrGoes, UnpackerAt, HeaderTaken, PacketRead
<1>11. CASE w_state \in {"wait_wr_end", "check_next_buf", "switch_current_buff"}
  BY <1>1, <1>2, <1>3, <1>4, <1>11 DEF WrFsm, WrGoes, UnpackerAt, HeaderTaken
<1> QED  BY <1>1, <1>6, <1>7, <1>8, <1>9, <1>10, <1>11 DEF WrStates

\* The next word of packet n is read.
LEMMA StoredStep ==
    ASSUME TypeOK, NEW n \in Nat, NEW left \in 1 .. PCT_WORDS, Stored(n, left),
           in_pct_rdreq, ~in_pct_reset_req', ReadWords
    PROVE  /\ inst1' \in Seq(Pieces) /\ Len(inst1') <= INST1_SIZE
           /\ in_q' = Word(Hdr(n), PCT_WORDS - left) /\ Stored(n, left - 1)'
           /\ UNCHANGED <<inst0, inst0_rdreq, inst0_q, inst1_wrreq, t_state,
                          trnsf_cnt, t_rd_cnt, reset_1>>
<1> USE Constants
<1>1. /\ left \in 0 .. PCT_WORDS /\ left - 1 \in 0 .. PCT_WORDS /\ PCT_WORDS - left \in Nat
      /\ PCT_WORDS - left \in 0 .. PCT_WORDS
  OBVIOUS
<1>2. /\ left * RATIO = (left - 1) * RATIO + RATIO
      /\ left * RATIO \in 0 .. INST1_SIZE /\ (left - 1) * RATIO \in 0 .. INST1_SIZE
      /\ (PCT_WORDS - left) * RATIO = INST1_SIZE - left * RATIO
      /\ (PCT_WORDS - (left - 1)) * RATIO = INST1_SIZE - (left - 1) * RATIO
      /\ ((PCT_WORDS - left) * RATIO) \div RATIO = PCT_WORDS - left
  BY <1>1, Words
<1>3. PICK len \in Nat, rest \in Nat :
        /\ len = left * RATIO /\ rest = (left - 1) * RATIO /\ len = rest + RATIO
        /\ len <= INST1_SIZE
        /\ (PCT_WORDS - left) * RATIO = INST1_SIZE - len
        /\ (PCT_WORDS - (left - 1)) * RATIO = INST1_SIZE - rest
  BY <1>2
<1>4. /\ inst1 \in Seq(Pieces) /\ Len(inst1) = len /\ len \in Nat
      /\ \A j \in 1 .. len : inst1[j] = Piece(n, INST1_SIZE - len + j) /\ inst1[j] \in Pieces
  <2>1. inst1 \in Seq(Pieces) /\ Len(inst1) = len
    BY <1>3 DEF TypeOK, Stored
  <2>2. \A j \in 1 .. len : inst1[j] = Piece(n, (PCT_WORDS - left) * RATIO + j)
    BY <1>3 DEF Stored
  <2>3. \A j \in 1 .. len : inst1[j] \in Pieces
    BY <2>1, LenProperties
  <2> QED  BY <1>3, <2>1, <2>2, <2>3
<1>5. Len(inst1) >= RATIO
  BY <1>3, <1>4
<1>6. /\ in_q' = WordOf(Head(inst1)) /\ inst1' = SubSeq(inst1, RATIO + 1, Len(inst1))
      /\ UNCHANGED <<inst0, inst0_rdreq, inst0_q, inst1_wrreq, t_state,
                     trnsf_cnt, t_rd_cnt, reset_1>>
  BY <1>5 DEF ReadWords
<1>7. in_q' = Word(Hdr(n), PCT_WORDS - left)
  <2>1. Head(inst1) = inst1[1] /\ 1 \in 1 .. len
    BY <1>3, <1>4
  <2>2. inst1[1] = Piece(n, INST1_SIZE - len + 1)
    BY <1>4, <2>1
  <2>3. (INST1_SIZE - len + 1) - 1 = (PCT_WORDS - left) * RATIO
    BY <1>3
  <2>4. /\ inst1[1].pkt = n
        /\ (inst1[1].pos - 1) \div RATIO = PCT_WORDS - left
    BY <1>2, <2>2, <2>3, PieceFields
  <2>5. in_q' = Word(Hdr(inst1[1].pkt), (inst1[1].pos - 1) \div RATIO)
    BY <1>6, <2>1 DEF WordOf
  <2> QED  BY <2>4, <2>5
<1>8. /\ inst1' \in Seq(Pieces) /\ Len(inst1') = rest
      /\ \A j \in 1 .. rest : inst1'[j] = Piece(n, INST1_SIZE - rest + j)
  <2>1. /\ RATIO + 1 \in Int /\ len \in Int /\ \A i \in (RATIO + 1) .. len : inst1[i] \in Pieces
        /\ len - (RATIO + 1) + 1 = rest
    BY <1>3, <1>4
  <2>2. /\ SubSeq(inst1, RATIO + 1, len) \in Seq(Pieces)
        /\ Len(SubSeq(inst1, RATIO + 1, len)) =
               IF RATIO + 1 <= len THEN len - (RATIO + 1) + 1 ELSE 0
        /\ \A i \in 1 .. len - (RATIO + 1) + 1 :
               SubSeq(inst1, RATIO + 1, len)[i] = inst1[(RATIO + 1) + i - 1]
    BY <2>1, SubSeqProperties
  <2>3. inst1' \in Seq(Pieces) /\ Len(inst1') = rest
    <3>1. (IF RATIO + 1 <= len THEN len - (RATIO + 1) + 1 ELSE 0) = rest
      BY <1>3
    <3>2. inst1' = SubSeq(inst1, RATIO + 1, len)
      BY <1>4, <1>6
    <3> QED  BY <2>2, <3>1, <3>2
  <2>4. ASSUME NEW j \in 1 .. rest PROVE inst1'[j] = Piece(n, INST1_SIZE - rest + j)
    <3>1. inst1'[j] = inst1[(RATIO + 1) + j - 1]
      BY <1>4, <1>6, <2>1, <2>2
    <3>2. /\ (RATIO + 1) + j - 1 = RATIO + j /\ RATIO + j \in 1 .. len
          /\ INST1_SIZE - len + (RATIO + j) = INST1_SIZE - rest + j
      BY <1>3
    <3>3. inst1[RATIO + j] = Piece(n, INST1_SIZE - len + (RATIO + j))
      BY <1>4, <3>2
    <3> QED  BY <3>1, <3>2, <3>3
  <2> QED  BY <2>3, <2>4
<1>9. Stored(n, left - 1)'
  <2>1. left - 1 # PCT_WORDS /\ PCT_WORDS - (left - 1) - 1 = PCT_WORDS - left
    OBVIOUS
  <2> QED  BY <1>3, <1>7, <1>8, <2>1 DEF Stored
<1> QED  BY <1>3, <1>6, <1>7, <1>8, <1>9

\* Nothing is read.
LEMMA NotRead ==
    ASSUME ~in_pct_rdreq, ReadWords, in_pct_reset_req' \in BOOLEAN
    PROVE  /\ in_q' = in_q
           /\ in_pct_reset_req' => ClearInst1
           /\ ~in_pct_reset_req' => UNCHANGED twoVars
BY DEF ReadWords, twoVars

\* How the header looks when it has been read.
LEMMA HeaderRead ==
    ASSUME NEW n, NEW left \in 0 .. PCT_WORDS, Stored(n, left)
    PROVE  /\ left < PCT_WORDS => in_q.pkt = Hdr(n) /\ in_q.pkt.id = n
                                  /\ in_q.idx = PCT_WORDS - left - 1
           /\ left = PCT_WORDS => in_q.pkt.id < n
<1>1. IF left = PCT_WORDS THEN in_q.pkt.id < n
      ELSE in_q = Word(Hdr(n), PCT_WORDS - left - 1)
  BY DEF Stored
<1>2. left < PCT_WORDS => left # PCT_WORDS
  BY Constants
<1>3. CASE left = PCT_WORDS
  BY <1>1, <1>2, <1>3
<1>4. CASE left # PCT_WORDS
  <2>1. in_q = Word(Hdr(n), PCT_WORDS - left - 1)
    BY <1>1, <1>4
  <2>2. in_q.pkt = Hdr(n) /\ in_q.idx = PCT_WORDS - left - 1
    BY <2>1 DEF Word
  <2>3. Hdr(n).id = n
    BY DEF Hdr
  <2> QED  BY <1>4, <2>2, <2>3
<1> QED  BY <1>3, <1>4

\* What the unpacker is shown: in_pct_rdy means that a whole packet is there.
LEMMA StoredWords ==
    ASSUME NEW n, NEW left \in 0 .. PCT_WORDS, Stored(n, left)
    PROVE  /\ Len(inst1) \div RATIO = left
           /\ PacketWaiting <=> left = PCT_WORDS
<1>1. Len(inst1) \div RATIO = left
  BY Words DEF Stored
<1> QED  BY <1>1, Constants DEF PacketWaiting

LEMMA TxIInv ==
    ASSUME IInv, NEW lag \in BOOLEAN, NEW sample_nr, NEW free, TxEdge(lag, sample_nr, free)
    PROVE  IInv'
<1> USE Constants
<1>1. TypeOK /\ InStep
  BY DEF IInv
<1>2. PICK buff_empty : WrTick(in_pct_rdy, in_q, buff_empty, sample_nr)
  BY DEF TxEdge
<1>3. /\ ReadWords /\ npct' = npct /\ nword' = nword /\ withdrawn' = withdrawn
      /\ in_pct_rdy' \in BOOLEAN /\ (in_pct_rdy' => PacketWaiting)
  BY DEF TxEdge, hostVars
<1>4. /\ w_state' \in WrStates
      /\ {w_rd_cnt', pipe_cnt', pct_data_wrreq_cnt'} \subseteq Nat
      /\ {in_pct_rdreq', in_pct_data_valid', in_pct_reset_req'} \subseteq BOOLEAN
  BY <1>1, <1>2, UnpackerType
<1>5. PICK n \in 0 .. MAX_PACKETS :
        \/ /\ t_state = "idle" /\ ~inst0_rdreq /\ ~inst1_wrreq /\ inst1 = <<>>
           /\ InHostOrder(n, INST1_SIZE) /\ UnpackerAt(n, 0) /\ in_q.pkt.id <= n
        \/ /\ t_state # "idle" /\ reset_1 = 0
           /\ MovingTo(n) /\ ChunkInStep /\ UnpackerAt(n, 0) /\ in_q.pkt.id < n
        \/ /\ Moved /\ reset_1 = 0 /\ InHostOrder(n, INST1_SIZE)
           /\ \E left \in 0 .. PCT_WORDS : Stored(n, left) /\ UnpackerAt(n, left)
  BY <1>1 DEF InStep
<1>6. 0 \in 0 .. PCT_WORDS /\ n \in Nat /\ 0 # PCT_WORDS - 1 /\ 0 # PCT_WORDS
  OBVIOUS
<1>7. ASSUME UNCHANGED twoVars, in_q' = in_q PROVE TypeOK'
  BY <1>1, <1>3, <1>4, <1>7 DEF TypeOK, twoVars
\* While the unpacker rests, nothing is taken from the second FIFO.
<1>8. ASSUME UnpackerAt(n, 0), Len(inst1) \in Nat, Len(inst1) < INST1_SIZE
      PROVE  /\ UNCHANGED twoVars /\ in_q' = in_q
             /\ UnpackerAt(n, 0)'
  <2>1. ~in_pct_rdreq /\ w_state # "clr_fifo"
    BY <1>1, <1>8, Resting
  <2>2. ~in_pct_reset_req'
    BY <1>1, <1>2, <1>6, <1>8, <2>1, UnpackerReads
  <2>3. UNCHANGED twoVars /\ in_q' = in_q
    BY <1>3, <1>4, <2>1, <2>2, NotRead
  <2>4. ~in_pct_rdy'
    BY <1>3, <1>8, NotWaiting DEF PacketWaiting
  <2>5. UnpackerAt(n, 0)'
    BY <1>1, <1>2, <1>6, <1>8, <2>1, <2>4, UnpackerStep
  <2> QED  BY <2>3, <2>5
<1>9. CASE t_state = "idle" /\ ~inst0_rdreq /\ ~inst1_wrreq /\ inst1 = <<>>
           /\ InHostOrder(n, INST1_SIZE) /\ UnpackerAt(n, 0) /\ in_q.pkt.id <= n
  <2>1. Len(inst1) = 0
    BY <1>9
  <2>2. UNCHANGED twoVars /\ in_q' = in_q /\ UnpackerAt(n, 0)'
    BY <1>8, <1>9, <2>1
  <2>3. InHostOrder(n, INST1_SIZE)'
    BY <1>3, <1>9, <2>2 DEF InHostOrder, twoVars
  <2>4. InStep'
    BY <1>9, <2>2, <2>3 DEF InStep, twoVars
  <2> QED  BY <1>7, <2>2, <2>4 DEF IInv
<1>10. CASE t_state # "idle" /\ reset_1 = 0
            /\ MovingTo(n) /\ ChunkInStep /\ UnpackerAt(n, 0) /\ in_q.pkt.id < n
  <2>1. Len(inst1) \in Nat /\ Len(inst1) < INST1_SIZE
    <3>1. t_state \in TwoStates \ {"idle"} /\ inst1 \in Seq(Pieces)
      BY <1>1, <1>10 DEF TypeOK
    <3> QED  BY <1>1, <1>10, <3>1, ChunkBounds, LenProperties
  <2>2. UNCHANGED twoVars /\ in_q' = in_q /\ UnpackerAt(n, 0)'
    BY <1>8, <1>10, <2>1
  <2>3. MovingTo(n)' /\ ChunkInStep'
    BY <1>3, <1>10, <2>2 DEF MovingTo, InHostOrder, Taken, ChunkInStep, twoVars
  <2>4. InStep'
    BY <1>10, <2>2, <2>3 DEF InStep, twoVars
  <2> QED  BY <1>7, <2>2, <2>4 DEF IInv
<1>11. CASE Moved /\ reset_1 = 0 /\ InHostOrder(n, INST1_SIZE)
            /\ \E left \in 0 .. PCT_WORDS : Stored(n, left) /\ UnpackerAt(n, left)
  <2>1. PICK left \in 0 .. PCT_WORDS : Stored(n, left) /\ UnpackerAt(n, left)
    BY <1>11
  <2>2. /\ in_pct_rdreq => left > 0
        /\ in_pct_reset_req' <=> w_state = "clr_fifo"
        /\ in_pct_reset_req' => ~in_pct_rdreq /\ left = PCT_WORDS - 1
    BY <1>1, <1>2, <2>1, UnpackerReads
  <2>3. in_pct_rdy' => left = PCT_WORDS
    BY <1>3, <2>1, StoredWords
  <2>4. /\ left < PCT_WORDS => in_q.pkt = Hdr(n) /\ in_q.pkt.id = n
        /\ left = PCT_WORDS - 1 => in_q.pkt = Hdr(n)
    BY <2>1, HeaderRead
  <2>5. PICK next : next = IF in_pct_rdreq THEN left - 1
                           ELSE IF w_state = "clr_fifo" THEN 0 ELSE left
    OBVIOUS
  <2>6. UnpackerAt(n, next)'
    BY <1>1, <1>2, <2>1, <2>3, <2>4, <2>5, UnpackerStep
  <2>7. CASE in_pct_rdreq
    <3>1. left \in 1 .. PCT_WORDS /\ ~in_pct_reset_req' /\ next = left - 1
      BY <2>2, <2>5, <2>7
    <3>2. /\ inst1' \in Seq(Pieces) /\ Len(inst1') <= INST1_SIZE
          /\ in_q' = Word(Hdr(n), PCT_WORDS - left) /\ Stored(n, left - 1)'
          /\ UNCHANGED <<inst0, inst0_rdreq, inst0_q, inst1_wrreq, t_state,
                         trnsf_cnt, t_rd_cnt, reset_1>>
      BY <1>1, <1>3, <1>6, <2>1, <2>7, <3>1, StoredStep
    <3>3. in_q'.pkt.id \in 0 .. MAX_PACKETS /\ in_q'.idx \in 0 .. PCT_WORDS - 1
      <4>1. in_q'.pkt.id = n /\ in_q'.idx = PCT_WORDS - left
        BY <3>2 DEF Word, Hdr
      <4> QED  BY <3>1, <4>1
    <3>4. TypeOK'
      BY <1>1, <1>3, <1>4, <3>2, <3>3 DEF TypeOK
    <3>5. Moved' /\ InHostOrder(n, INST1_SIZE)' /\ left - 1 \in 0 .. PCT_WORDS
      BY <1>3, <1>11, <3>1, <3>2 DEF Moved, InHostOrder
    <3>6. InStep'
      BY <1>11, <2>6, <3>1, <3>2, <3>5 DEF InStep
    <3> QED  BY <3>4, <3>6 DEF IInv
  <2>8. CASE ~in_pct_rdreq /\ w_state = "clr_fifo"
    <3>1. in_pct_reset_req' /\ next = 0 /\ left = PCT_WORDS - 1
      BY <2>2, <2>5, <2>8
    <3>2. in_q' = in_q /\ ClearInst1
      BY <1>3, <1>4, <2>8, <3>1, NotRead
    <3>3. /\ t_state' = "idle" /\ ~inst0_rdreq' /\ ~inst1_wrreq' /\ inst1' = <<>>
          /\ inst0' = inst0 /\ inst0_q' = inst0_q /\ reset_1' = 2
          /\ trnsf_cnt' = 0 /\ t_rd_cnt' = 0
          /\ inst0_rdreq' \in BOOLEAN /\ inst1_wrreq' \in BOOLEAN
      BY <3>2 DEF ClearInst1, TwoReset
    <3>4. inst1' \in Seq(Pieces) /\ Len(inst1') = 0
      BY <3>3
    <3>5. TypeOK'
      <4>1. 0 \in 0 .. TRNSF_N + 1 /\ 0 \in 0 .. CHUNK /\ 2 \in 0 .. 2
        OBVIOUS
      <4> QED  BY <1>1, <1>3, <1>4, <3>2, <3>3, <3>4, <4>1 DEF TypeOK, TwoStates
    <3>6. InHostOrder(n, INST1_SIZE)' /\ in_q'.pkt.id <= n
      BY <1>3, <1>6, <1>11, <2>4, <3>1, <3>2, <3>3 DEF InHostOrder
    <3>7. InStep'
      BY <2>6, <3>1, <3>3, <3>6 DEF InStep
    <3> QED  BY <3>5, <3>7 DEF IInv
  <2>9. CASE ~in_pct_rdreq /\ w_state # "clr_fifo"
    <3>1. ~in_pct_reset_req' /\ next = left
      BY <2>2, <2>5, <2>9
    <3>2. UNCHANGED twoVars /\ in_q' = in_q
      BY <1>3, <1>4, <2>9, <3>1, NotRead
    <3>3. Moved' /\ InHostOrder(n, INST1_SIZE)' /\ Stored(n, left)'
      BY <1>3, <1>11, <2>1, <3>2 DEF Moved, InHostOrder, Stored, twoVars
    <3>4. InStep'
      BY <1>11, <2>6, <3>1, <3>2, <3>3 DEF InStep, twoVars
    <3> QED  BY <1>7, <3>2, <3>4 DEF IInv
  <2> QED  BY <2>7, <2>8, <2>9
<1> QED  BY <1>5, <1>9, <1>10, <1>11

-----------------------------------------------------------------------------
(* The host closes the stream; the invariant.                              *)

\* An unpacker that waits for a packet waits for any packet.
LEMMA WaitingUnpacker ==
    ASSUME NEW n, NEW left, UnpackerAt(n, left), w_state = "idle", ~in_pct_rdy,
           in_pct_reset_req' = in_pct_reset_req, UNCHANGED <<wrVars, in_pct_rdy>>, NEW m
    PROVE  UnpackerAt(m, 0)'
<1>1. ~in_pct_rdreq /\ ~in_pct_data_valid /\ pipe_cnt = 0
  BY DEF UnpackerAt
<1>2. UnpackerAt(m, 0)
  BY <1>1 DEF UnpackerAt
<1> QED  BY <1>2, UnpackerStays

LEMMA ReopenIInv ==
    ASSUME IInv, Reopen
    PROVE  IInv'
<1> USE Constants
<1>1. TypeOK /\ InStep
  BY DEF IInv
<1>2. /\ w_state = "idle" /\ ~in_pct_rdy
      /\ inst0' = <<>> /\ inst1' = <<>> /\ nword' = INST1_SIZE /\ withdrawn' = npct
      /\ UNCHANGED <<wrVars, npct, in_q, in_pct_rdy, inst0_q, reset_1>>
      /\ t_state' = "idle" /\ trnsf_cnt' = 0 /\ t_rd_cnt' = 0
      /\ ~inst0_rdreq' /\ ~inst1_wrreq'
      /\ inst0_rdreq' \in BOOLEAN /\ inst1_wrreq' \in BOOLEAN
  BY DEF Reopen, TwoReset
<1>3. npct \in 0 .. MAX_PACKETS
  BY <1>1 DEF TypeOK
<1>4. PICK n \in 0 .. MAX_PACKETS :
        /\ n <= npct /\ in_q.pkt.id <= n
        /\ \E left \in 0 .. PCT_WORDS : UnpackerAt(n, left)
  <2>1. PICK n \in 0 .. MAX_PACKETS :
          \/ /\ t_state = "idle" /\ ~inst0_rdreq /\ ~inst1_wrreq /\ inst1 = <<>>
             /\ InHostOrder(n, INST1_SIZE) /\ UnpackerAt(n, 0) /\ in_q.pkt.id <= n
          \/ /\ t_state # "idle" /\ reset_1 = 0
             /\ MovingTo(n) /\ ChunkInStep /\ UnpackerAt(n, 0) /\ in_q.pkt.id < n
          \/ /\ Moved /\ reset_1 = 0 /\ InHostOrder(n, INST1_SIZE)
             /\ \E left \in 0 .. PCT_WORDS : Stored(n, left) /\ UnpackerAt(n, left)
    BY <1>1 DEF InStep
  <2>2. in_q.pkt.id \in Nat /\ 0 \in 0 .. PCT_WORDS
    BY <1>1 DEF TypeOK
  <2>3. n <= npct
    BY <2>1 DEF MovingTo, InHostOrder, Follow
  <2>4. ASSUME NEW left \in 0 .. PCT_WORDS, Stored(n, left) PROVE in_q.pkt.id <= n
    BY <2>2, <2>4, HeaderRead
  <2> QED  BY <2>1, <2>2, <2>3, <2>4
<1>5. UnpackerAt(npct, 0)'
  <2>1. PICK left \in 0 .. PCT_WORDS : UnpackerAt(n, left)
    BY <1>4
  <2>2. \A m : UnpackerAt(m, 0)'
    BY <1>2, <2>1, WaitingUnpacker DEF wrVars
  <2>3. PICK m : m = npct
    OBVIOUS
  <2>4. npct' = m
    BY <1>2, <2>3
  <2> QED  BY <2>2, <2>4
<1>6. InHostOrder(npct, INST1_SIZE)'
  <2>1. Len(inst0') = 0
    BY <1>2
  <2> QED  BY <1>2, <1>3, <2>1 DEF InHostOrder, Follow
<1>7. in_q'.pkt.id <= npct'
  <2>1. in_q.pkt.id \in Nat /\ n \in Nat /\ npct \in Nat
    BY <1>1 DEF TypeOK
  <2>2. in_q.pkt.id <= n /\ n <= npct
    BY <1>4
  <2>3. in_q.pkt.id <= npct
    BY <2>1, <2>2
  <2> QED  BY <1>2, <2>3
<1>8. InStep'
  BY <1>2, <1>3, <1>5, <1>6, <1>7 DEF InStep
<1>9. TypeOK'
  <2>1. /\ inst0' \in Seq(Pieces) /\ inst1' \in Seq(Pieces)
        /\ Len(inst0') = 0 /\ Len(inst1') = 0 /\ 0 \in 0 .. TRNSF_N + 1 /\ 0 \in 0 .. CHUNK
        /\ nword' = PCT_WORDS * RATIO /\ nword' \in 1 .. PCT_WORDS * RATIO
    BY <1>2
  <2> QED  BY <1>1, <1>2, <1>3, <2>1 DEF TypeOK, TwoStates, wrVars
<1> QED  BY <1>8, <1>9 DEF IInv

LEMMA InitIInv == Init => IInv
<1> USE Constants
<1> SUFFICES ASSUME Init PROVE IInv
  OBVIOUS
<1>1. /\ inst0 = <<>> /\ inst1 = <<>> /\ inst0_q = NoPiece /\ reset_1 = 0
      /\ ~inst0_rdreq /\ ~inst1_wrreq /\ inst0_rdreq \in BOOLEAN /\ inst1_wrreq \in BOOLEAN
      /\ t_state = "idle" /\ trnsf_cnt = 0 /\ t_rd_cnt = 0
      /\ npct = 0 /\ nword = INST1_SIZE /\ withdrawn = 0
      /\ in_q.pkt.id = 0 /\ in_q.idx = 0
      /\ ~in_pct_rdy /\ in_pct_rdy \in BOOLEAN
  BY DEF Init, TwoInit, Word, ZeroHdr
<1>2. /\ w_state = "idle" /\ w_rd_cnt = 0 /\ pipe_cnt = 0 /\ pct_data_wrreq_cnt = 0
      /\ ~in_pct_rdreq /\ ~in_pct_data_valid /\ ~in_pct_reset_req
      /\ {in_pct_rdreq, in_pct_data_valid, in_pct_reset_req} \subseteq BOOLEAN
  BY DEF Init, WrInit
<1>3. TypeOK
  <2>1. inst0 \in Seq(Pieces) /\ inst1 \in Seq(Pieces) /\ Len(inst0) = 0 /\ Len(inst1) = 0
    BY <1>1
  <2> QED  BY <1>1, <1>2, <2>1 DEF TypeOK, TwoStates, WrStates
<1>4. UnpackerAt(0, 0)
  BY <1>1, <1>2 DEF UnpackerAt
<1>5. InHostOrder(0, INST1_SIZE)
  <2>1. Len(inst0) = 0
    BY <1>1
  <2> QED  BY <1>1, <2>1 DEF InHostOrder, Follow
<1>6. InStep
  BY <1>1, <1>4, <1>5 DEF InStep
<1> QED  BY <1>3, <1>6 DEF IInv

LEMMA NextIInv == IInv /\ [Next]_vars => IInv'
<1> SUFFICES ASSUME IInv, [Next]_vars PROVE IInv'
  OBVIOUS
<1>1. CASE \E lag \in BOOLEAN : Bus(lag)
  BY <1>1, BusIInv
<1>2. CASE Tx
  BY <1>2, TxIInv DEF Tx
<1>3. CASE Reopen
  BY <1>3, ReopenIInv
<1>4. CASE UNCHANGED vars
  <2>1. TypeOK'
    BY <1>4 DEF IInv, TypeOK, vars, twoVars, wrVars, hostVars
  <2>2. PICK n \in 0 .. MAX_PACKETS :
          \/ /\ t_state = "idle" /\ ~inst0_rdreq /\ ~inst1_wrreq /\ inst1 = <<>>
             /\ InHostOrder(n, INST1_SIZE) /\ UnpackerAt(n, 0) /\ in_q.pkt.id <= n
          \/ /\ t_state # "idle" /\ reset_1 = 0
             /\ MovingTo(n) /\ ChunkInStep /\ UnpackerAt(n, 0) /\ in_q.pkt.id < n
          \/ /\ Moved /\ reset_1 = 0 /\ InHostOrder(n, INST1_SIZE)
             /\ \E left \in 0 .. PCT_WORDS : Stored(n, left) /\ UnpackerAt(n, left)
    BY DEF IInv, InStep
  <2>3. \A left : (UnpackerAt(n, left) => UnpackerAt(n, left)')
                   /\ (Stored(n, left) => Stored(n, left)')
    BY <1>4, UnpackerStays DEF Stored, vars, twoVars
  <2>4. /\ InHostOrder(n, INST1_SIZE) => InHostOrder(n, INST1_SIZE)'
        /\ (MovingTo(n) => MovingTo(n)') /\ (ChunkInStep => ChunkInStep') /\ (Moved => Moved')
    BY <1>4 DEF InHostOrder, MovingTo, Taken, ChunkInStep, Moved, vars, twoVars, hostVars
  <2>5. InStep'
    BY <1>4, <2>2, <2>3, <2>4 DEF InStep, vars, twoVars
  <2> QED  BY <2>1, <2>5 DEF IInv
<1> QED  BY <1>1, <1>2, <1>3, <1>4 DEF Next

\* The invariant holds in every reachable state.
THEOREM Invariant == Spec => []IInv
BY InitIInv, NextIInv, PTL DEF Spec

\* Every register stays in its range and neither FIFO overflows, for any size of
\* chunks, words and packets.
THEOREM TypeCorrect == Spec => []TypeOK
<1>1. IInv => TypeOK
  BY DEF IInv
<1> QED  BY <1>1, Invariant, PTL

\* Words go through the two FIFOs in the host's order, a packet at a time, and the
\* transfer FSM and the unpacker take turns: each rests while the other works on it.
THEOREM StaysInStep == Spec => []InStep
<1>1. IInv => InStep
  BY DEF IInv
<1> QED  BY <1>1, Invariant, PTL

\* When p2d_wr_fsm asks for a late packet to be cleared, the clear finds exactly the
\* rest of that packet in the second FIFO, and the transfer FSM at rest.
THEOREM ClearsTakeOnePacket == Spec => []ClearTakesOnePacket
<1>1. IInv => ClearTakesOnePacket
  <2> SUFFICES ASSUME IInv, w_state = "clr_fifo"
               PROVE  /\ t_state = "check_fifo_1" /\ ~inst0_rdreq /\ ~inst1_wrreq
                      /\ Len(inst1) = (PCT_WORDS - 1) * RATIO
                      /\ \A j \in 1 .. Len(inst1) : inst1[j].pkt = pct_hdr.id
    BY DEF ClearTakesOnePacket
  <2>1. TypeOK /\ InStep
    BY DEF IInv
  <2>2. \A n : ~UnpackerAt(n, 0)
    BY <2>1, Resting
  <2>3. PICK n \in 0 .. MAX_PACKETS :
          Moved /\ \E left \in 0 .. PCT_WORDS : Stored(n, left) /\ UnpackerAt(n, left)
    BY <2>1, <2>2 DEF InStep
  <2>4. PICK left \in 0 .. PCT_WORDS : Stored(n, left) /\ UnpackerAt(n, left)
    BY <2>3
  <2>5. left = PCT_WORDS - 1 /\ pct_hdr.id = n
    BY <2>4 DEF UnpackerAt, HeaderTaken
  <2>6. Len(inst1) = left * RATIO /\ \A j \in 1 .. Len(inst1) : inst1[j].pkt = n
    BY <2>4, PieceFields DEF Stored
  <2> QED  BY <2>3, <2>5, <2>6 DEF Moved
<1> QED  BY <1>1, Invariant, PTL

-----------------------------------------------------------------------------
(* The two FIFOs are a slot for one packet.                                *)

\* On the bus clock a packet gets into the slot when its last word is stored.
LEMMA BusSlot ==
    ASSUME IInv, NEW lag \in BOOLEAN, Bus(lag)
    PROVE  [Slot!SlotNext]_(Slot!slotVars)
<1> USE Constants
<1>1. PICK written : HostWrites(written) /\ BusTick(written, in_pct_reset_req, lag)
  BY BusSteps
<1>2. in_q' = in_q
  BY BusSteps
<1>3. TypeOK /\ InStep
  BY DEF IInv
<1>4. PICK n \in 0 .. MAX_PACKETS :
        \/ /\ t_state = "idle" /\ ~inst0_rdreq /\ ~inst1_wrreq /\ inst1 = <<>>
           /\ InHostOrder(n, INST1_SIZE) /\ UnpackerAt(n, 0) /\ in_q.pkt.id <= n
        \/ /\ t_state # "idle" /\ reset_1 = 0
           /\ MovingTo(n) /\ ChunkInStep /\ UnpackerAt(n, 0) /\ in_q.pkt.id < n
        \/ /\ Moved /\ reset_1 = 0 /\ InHostOrder(n, INST1_SIZE)
           /\ \E left \in 0 .. PCT_WORDS : Stored(n, left) /\ UnpackerAt(n, left)
  BY <1>3 DEF InStep
<1>5. t_state \in TwoStates /\ inst1 \in Seq(Pieces) /\ Len(inst1) \in Nat
      /\ inst0_rdreq \in BOOLEAN /\ inst1_wrreq \in BOOLEAN
  BY <1>3, LenProperties DEF TypeOK
<1>6. ASSUME ~Moved, ~Moved' PROVE UNCHANGED Slot!slotVars
  BY <1>2, <1>6 DEF Slot!slotVars
<1>7. CASE reset_1 # 0
  <2>1. t_state = "idle" /\ t_state' = "idle"
    BY <1>1, <1>4, <1>7 DEF BusTick, TwoReset
  <2> QED  BY <1>6, <2>1 DEF Moved
<1>8. CASE reset_1 = 0 /\ t_state # "check_fifo_1"
  <2>1. TwoFsm(lag) /\ TwoRegs
    BY <1>1, <1>8 DEF BusTick
  <2>2. ASSUME t_state' = "check_fifo_1" PROVE inst1_wrreq'
    <3>1. t_state = "check_trnsf" /\ PacketMoved
      BY <1>8, <2>1, <2>2 DEF TwoFsm, TwoGoes
    <3>2. ChunkInStep
      BY <1>4, <3>1 DEF Moved
    <3>3. inst0_rdreq
      BY <3>1, <3>2 DEF ChunkInStep, PacketMoved
    <3> QED  BY <2>1, <3>3 DEF TwoRegs
  <2> QED  BY <1>6, <1>8, <2>2 DEF Moved
<1>9. CASE reset_1 = 0 /\ t_state = "check_fifo_1"
  <2>1. TwoFsm(lag) /\ TwoRegs /\ MoveWords(written)
    BY <1>1, <1>9 DEF BusTick
  <2>2. ~inst0_rdreq
    BY <1>4, <1>9 DEF Moved, ChunkInStep
  <2>3. ~inst0_rdreq' /\ ~inst1_wrreq'
    BY <1>9, <2>1, <2>2 DEF TwoRegs
  <2>4. CASE Moved
    <3>1. inst1' = inst1
      BY <2>1, <2>4 DEF MoveWords, Moved
    <3>2. t_state' = "check_fifo_1" \/ (t_state' = "idle" /\ inst1 = <<>>)
      BY <1>9, <2>1 DEF TwoFsm, TwoGoes, Inst1Empty
    <3>3. 0 \div RATIO = 0 /\ (inst1 = <<>> => Len(inst1) = 0)
      BY <1>5, EmptySeq
    <3> QED  BY <1>2, <2>3, <2>4, <3>1, <3>2, <3>3 DEF Moved, Slot!slotVars
  <2>5. CASE ~Moved
    <3>1. ChunkInStep
      BY <1>4, <1>9, <2>5
    <3>2. inst1_wrreq /\ Taken = INST1_SIZE /\ ~Inst1Empty
      BY <1>3, <1>5, <1>9, <3>1, ChunkBounds DEF ChunkInStep
    <3>3. Len(inst1) + 1 = INST1_SIZE
      BY <3>2 DEF Taken
    <3>4. inst1' = Append(inst1, inst0_q)
      BY <1>5, <2>1, <3>2, <3>3 DEF MoveWords
    <3>5. Len(inst1') = INST1_SIZE
      BY <1>5, <3>3, <3>4
    <3>6. Moved'
      BY <1>9, <2>1, <2>3, <3>2 DEF TwoFsm, TwoGoes, Moved
    <3>7. INST1_SIZE \div RATIO = PCT_WORDS
      <4>1. PCT_WORDS \in 0 .. PCT_WORDS
        OBVIOUS
      <4> QED  BY <4>1, Words
    <3>8. Slot!Fill
      BY <1>2, <2>5, <3>5, <3>6, <3>7 DEF Slot!Fill
    <3> QED  BY <3>8 DEF Slot!SlotNext
  <2> QED  BY <2>4, <2>5
<1> QED  BY <1>7, <1>8, <1>9

\* On the TX clock the unpacker takes a word, or has the packet cleared.
LEMMA TxSlot ==
    ASSUME IInv, NEW lag \in BOOLEAN, NEW sample_nr, NEW free, TxEdge(lag, sample_nr, free)
    PROVE  [Slot!SlotNext]_(Slot!slotVars)
<1> USE Constants
<1>1. TypeOK /\ InStep
  BY DEF IInv
<1>2. PICK buff_empty : WrTick(in_pct_rdy, in_q, buff_empty, sample_nr)
  BY DEF TxEdge
<1>3. ReadWords
  BY DEF TxEdge
<1>4. in_pct_reset_req' \in BOOLEAN
  BY <1>1, <1>2, UnpackerType
<1>5. in_pct_reset_req' <=> w_state = "clr_fifo"
  BY <1>2 DEF WrTick, WrOutputs, ClearRequest
<1>6. ASSUME ~in_pct_rdreq, w_state # "clr_fifo" PROVE UNCHANGED Slot!slotVars
  <2>1. UNCHANGED twoVars /\ in_q' = in_q
    BY <1>3, <1>4, <1>5, <1>6, NotRead
  <2> QED  BY <2>1 DEF Slot!slotVars, Moved, twoVars
<1>7. ASSUME NEW n, UnpackerAt(n, 0) PROVE UNCHANGED Slot!slotVars
  BY <1>1, <1>6, <1>7, Resting
<1>8. ASSUME NEW n \in Nat, NEW left \in 0 .. PCT_WORDS,
             Moved, Stored(n, left), UnpackerAt(n, left)
      PROVE  [Slot!SlotNext]_(Slot!slotVars)
  <2>1. /\ in_pct_rdreq => left > 0
        /\ in_pct_reset_req' => ~in_pct_rdreq /\ left = PCT_WORDS - 1
    BY <1>1, <1>2, <1>8, UnpackerReads
  <2>2. (IF Moved THEN Len(inst1) \div RATIO ELSE 0) = left
    BY <1>8, StoredWords
  <2>3. CASE in_pct_rdreq
    <3>1. left \in 1 .. PCT_WORDS /\ ~in_pct_reset_req'
      BY <2>1, <2>3
    <3>2. /\ in_q' = Word(Hdr(n), PCT_WORDS - left) /\ Stored(n, left - 1)'
          /\ UNCHANGED <<inst0_rdreq, inst1_wrreq, t_state>>
      BY <1>1, <1>3, <1>8, <2>3, <3>1, StoredStep
    <3>3. (IF Moved THEN Len(inst1) \div RATIO ELSE 0)' = left - 1
      <4>1. left - 1 \in 0 .. PCT_WORDS
        BY <3>1
      <4>2. Len(inst1') = (left - 1) * RATIO
        BY <3>2 DEF Stored
      <4>3. ((left - 1) * RATIO) \div RATIO = left - 1
        BY <4>1, Words
      <4>4. Moved'
        BY <1>8, <3>2 DEF Moved
      <4> QED  BY <4>2, <4>3, <4>4
    <3>4. in_q'.pkt.id = n /\ in_q'.idx = PCT_WORDS - left
      BY <3>2 DEF Word, Hdr
    <3>5. CASE left = PCT_WORDS
      <4>1. in_q.pkt.id < n
        BY <1>8, <3>5, HeaderRead
      <4>2. in_q.pkt.id \in Nat
        BY <1>1 DEF TypeOK
      <4>3. Slot!ReadHeader
        BY <2>2, <3>3, <3>4, <3>5, <4>1, <4>2 DEF Slot!ReadHeader
      <4> QED  BY <4>3 DEF Slot!SlotNext
    <3>6. CASE left # PCT_WORDS
      <4>1. in_q.pkt.id = n /\ in_q.idx = PCT_WORDS - left - 1
        BY <1>8, <3>6, HeaderRead
      <4>2. /\ in_q'.pkt.id = in_q.pkt.id /\ in_q'.idx = in_q.idx + 1
            /\ 0 < left /\ left < PCT_WORDS
        BY <3>1, <3>4, <3>6, <4>1
      <4>3. [id |-> in_q.pkt.id, idx |-> in_q.idx]'
               = [id |-> [id |-> in_q.pkt.id, idx |-> in_q.idx].id,
                  idx |-> [id |-> in_q.pkt.id, idx |-> in_q.idx].idx + 1]
        BY <4>2
      <4>4. Slot!ReadData
        BY <2>2, <3>3, <4>2, <4>3 DEF Slot!ReadData
      <4> QED  BY <4>4 DEF Slot!SlotNext
    <3> QED  BY <3>5, <3>6
  <2>4. CASE ~in_pct_rdreq /\ w_state = "clr_fifo"
    <3>1. in_q' = in_q /\ ClearInst1 /\ left = PCT_WORDS - 1
      BY <1>3, <1>4, <1>5, <2>1, <2>4, NotRead
    <3>2. (IF Moved THEN Len(inst1) \div RATIO ELSE 0)' = 0
      BY <3>1 DEF ClearInst1, TwoReset, Moved
    <3>3. Slot!Clear
      BY <2>2, <3>1, <3>2 DEF Slot!Clear
    <3> QED  BY <3>3 DEF Slot!SlotNext
  <2>5. CASE ~in_pct_rdreq /\ w_state # "clr_fifo"
    BY <1>6, <2>5
  <2> QED  BY <2>3, <2>4, <2>5
<1> QED  BY <1>1, <1>7, <1>8 DEF InStep

\* A stream that is closed withdraws the packet in the slot, if one is there.
LEMMA ReopenSlot ==
    ASSUME IInv, Reopen
    PROVE  [Slot!SlotNext]_(Slot!slotVars)
<1> USE Constants
<1>1. TypeOK /\ InStep
  BY DEF IInv
<1>2. CLOSES /\ w_state = "idle" /\ in_q' = in_q /\ ~Moved'
  BY DEF Reopen, TwoReset, Moved
<1>3. ASSUME NEW n, NEW left \in 0 .. PCT_WORDS, Moved, Stored(n, left), UnpackerAt(n, left)
      PROVE  [Slot!SlotNext]_(Slot!slotVars)
  <2>1. (IF Moved THEN Len(inst1) \div RATIO ELSE 0) = left
    BY <1>3, StoredWords
  <2>2. left \in {0, PCT_WORDS}
    BY <1>2, <1>3 DEF UnpackerAt
  <2>3. CASE left = 0
    BY <1>2, <2>1, <2>3 DEF Slot!slotVars
  <2>4. CASE left = PCT_WORDS
    <3>1. Slot!Withdraw
      BY <1>2, <2>1, <2>4 DEF Slot!Withdraw
    <3> QED  BY <3>1 DEF Slot!SlotNext
  <2> QED  BY <2>2, <2>3, <2>4
<1>4. CASE ~Moved
  BY <1>2, <1>4 DEF Slot!slotVars
<1>5. CASE Moved
  <2>1. PICK n \in 0 .. MAX_PACKETS, left \in 0 .. PCT_WORDS : UnpackerAt(n, left) /\ Stored(n, left)
    <3>1. ASSUME t_state # "idle", ChunkInStep PROVE FALSE
      BY <1>5, <3>1 DEF Moved, ChunkInStep
    <3>2. t_state # "idle"
      BY <1>5 DEF Moved
    <3> QED  BY <1>1, <3>1, <3>2 DEF InStep
  <2> QED  BY <1>3, <1>5, <2>1
<1> QED  BY <1>4, <1>5

\* Together with the host behind them, the two FIFOs implement the slot for one
\* packet that the unpacker is written for: two_fifo_inst and the close of the
\* stream keep the contract of module PacketSlot.
THEOREM FifosAreSlot == Spec => ImplementsSlot
<1>1. Init => Slot!SlotInit
  BY DEF Init, TwoInit, Moved, Word, ZeroHdr, Slot!SlotInit
<1>2. IInv /\ [Next]_vars => [Slot!SlotNext]_(Slot!slotVars)
  <2> SUFFICES ASSUME IInv, [Next]_vars PROVE [Slot!SlotNext]_(Slot!slotVars)
    OBVIOUS
  <2>1. CASE \E lag \in BOOLEAN : Bus(lag)
    BY <2>1, BusSlot
  <2>2. CASE Tx
    BY <2>2, TxSlot DEF Tx
  <2>3. CASE Reopen
    BY <2>3, ReopenSlot
  <2>4. CASE UNCHANGED vars
    BY <2>4 DEF vars, twoVars, Moved, Slot!slotVars
  <2> QED  BY <2>1, <2>2, <2>3, <2>4 DEF Next
<1> QED  BY <1>1, <1>2, Invariant, PTL DEF Spec, ImplementsSlot, Slot!SlotSpec

=============================================================================
