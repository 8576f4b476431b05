------------------------- MODULE ReservationProofs -------------------------
(***************************************************************************)
(* Facts about the arithmetic of sequence reservations, for every size of  *)
(* the sequence space and of the block.                                    *)
(***************************************************************************)
EXTENDS SequenceReservation, TLAPS

(* Whole blocks cover what is missing: rounding up loses nothing.           *)
LEMMA BlocksCover ==
    ASSUME NEW n \in Nat
    PROVE  /\ BlocksFor(n) \in Nat
           /\ BlocksFor(n) * Block \in Nat
           /\ BlocksFor(n) * Block >= n
<1> DEFINE q == (n + Block - 1) \div Block
<1>1. Block \in Nat /\ Block > 0
  BY BlockAssumption
<1>2. q \in Nat
  BY <1>1
<1>3. q * Block \in Nat /\ q * Block >= n
  BY <1>1
<1> QED
  BY <1>2, <1>3 DEF BlocksFor

(* No block is taken that is not needed: the blocks are the fewest.         *)
LEMMA BlocksAreFewest ==
    ASSUME NEW n \in Nat, NEW b \in Nat, b * Block >= n
    PROVE  BlocksFor(n) <= b
<1> DEFINE q == (n + Block - 1) \div Block
<1>1. Block \in Nat /\ Block > 0
  BY BlockAssumption
<1>2. q \in Nat /\ q * Block \in Nat /\ b * Block \in Nat
  BY <1>1
<1>3. q * Block <= n + Block - 1
  BY <1>1
<1>4. q * Block < (b + 1) * Block
  <2>1. (b + 1) * Block = b * Block + Block
    BY <1>1
  <2> HIDE DEF q
  <2> QED
    BY <1>1, <1>2, <1>3, <2>1
<1> HIDE DEF q
<1>5. q < b + 1
  <2> SUFFICES ASSUME q >= b + 1 PROVE FALSE
    BY <1>2
  <2>1. q * Block >= (b + 1) * Block
    BY <1>1, <1>2
  <2> QED
    BY <1>1, <1>2, <1>4, <2>1
<1> QED
  BY <1>2, <1>5 DEF q, BlocksFor

(* calculateSequenceReservationEnd: a reservation never shrinks, reaches    *)
(* the number it was extended for, and stays within the sequence space.     *)
THEOREM ReservationCovers ==
    ASSUME NEW currentEnd \in 0 .. MaxSeq, NEW required \in 0 .. MaxSeq
    PROVE  /\ ReservationEnd(currentEnd, required) \in 0 .. MaxSeq
           /\ currentEnd <= ReservationEnd(currentEnd, required)
           /\ required <= ReservationEnd(currentEnd, required)
<1>1. CASE required <= currentEnd
  BY <1>1, MaxSeqAssumption DEF ReservationEnd
<1>2. CASE currentEnd < required
  <2> DEFINE missing == required - currentEnd
             growth == BlocksFor(missing) * Block
  <2>1. missing \in Nat
    BY <1>2, MaxSeqAssumption
  <2>2. growth \in Nat /\ growth >= missing
    BY <2>1, BlocksCover
  <2>3. ReservationEnd(currentEnd, required)
          = IF currentEnd + growth < MaxSeq THEN currentEnd + growth ELSE MaxSeq
    BY <1>2, MaxSeqAssumption DEF ReservationEnd
  <2> HIDE DEF growth
  <2> QED
    BY <1>2, <2>2, <2>3, MaxSeqAssumption
<1> QED
  BY <1>1, <1>2, MaxSeqAssumption

(* A reservation takes less than a block more than it was asked for.        *)
THEOREM ReservationIsTight ==
    ASSUME NEW currentEnd \in 0 .. MaxSeq, NEW required \in 0 .. MaxSeq,
           currentEnd < required
    PROVE  ReservationEnd(currentEnd, required) < required + Block
<1> DEFINE missing == required - currentEnd
           growth == BlocksFor(missing) * Block
<1>1. missing \in Nat /\ Block \in Nat /\ Block > 0
  BY MaxSeqAssumption, BlockAssumption
<1>2. growth \in Nat /\ growth < missing + Block
  <2>1. growth <= missing + Block - 1
    BY <1>1 DEF BlocksFor
  <2>2. growth \in Nat
    BY <1>1, BlocksCover
  <2> HIDE DEF growth
  <2> QED
    BY <1>1, <2>1, <2>2
<1>3. ReservationEnd(currentEnd, required)
        = IF currentEnd + growth < MaxSeq THEN currentEnd + growth ELSE MaxSeq
  BY MaxSeqAssumption DEF ReservationEnd
<1> HIDE DEF growth
<1> QED
  BY <1>1, <1>2, <1>3, MaxSeqAssumption

(* Two extensions in a row end where the farther one alone would have.      *)
LEMMA FartherDecides ==
    ASSUME NEW e \in 0 .. MaxSeq, NEW a \in 0 .. MaxSeq, NEW b \in 0 .. MaxSeq,
           a <= b
    PROVE  ReservationEnd(ReservationEnd(e, a), b) = ReservationEnd(e, b)
<1>0. MaxSeq \in Nat /\ Block \in Nat /\ Block > 0
  BY MaxSeqAssumption, BlockAssumption
<1>1. CASE a <= e
  BY <1>1 DEF ReservationEnd
<1>2. CASE e < a
  <2> DEFINE p == BlocksFor(a - e)
             q == BlocksFor(b - e)
             near == e + p * Block
             far == e + q * Block
  <2>1. /\ a - e \in Nat /\ b - e \in Nat
        /\ p \in Nat /\ p * Block \in Nat /\ p * Block >= a - e
        /\ q \in Nat /\ q * Block \in Nat /\ q * Block >= b - e
    BY <1>0, <1>2, BlocksCover
  <2>2. p <= q
    BY <1>0, <2>1, BlocksAreFewest
  <2>3. /\ ReservationEnd(e, a) = IF near < MaxSeq THEN near ELSE MaxSeq
        /\ ReservationEnd(e, b) = IF far < MaxSeq THEN far ELSE MaxSeq
    BY <1>0, <1>2 DEF ReservationEnd
  <2> HIDE DEF p, q
  <2>4. p * Block <= q * Block
    BY <1>0, <2>1, <2>2
  <2>5. near \in Nat /\ far \in Nat /\ near <= far
    BY <1>0, <2>1, <2>4
  <2>6. CASE near >= MaxSeq
    <3>1. ReservationEnd(e, a) = MaxSeq /\ ReservationEnd(e, b) = MaxSeq
      BY <1>0, <2>3, <2>5, <2>6
    <3> QED
      BY <1>0, <3>1 DEF ReservationEnd
  <2>7. CASE near < MaxSeq /\ b <= near
    <3>1. q <= p
      <4>1. p * Block >= b - e
        BY <1>0, <2>1, <2>7
      <4> QED
        BY <2>1, <4>1, BlocksAreFewest DEF q
    <3>2. far = near
      BY <2>1, <2>2, <3>1
    <3> HIDE DEF near, far
    <3> QED
      BY <1>0, <2>3, <2>5, <2>7, <3>2 DEF ReservationEnd
  <2>8. CASE near < MaxSeq /\ near < b
    <3> DEFINE r == BlocksFor(b - near)
    <3>1. b - near \in Nat
      BY <1>0, <2>5, <2>8
    <3>2. r \in Nat /\ r * Block \in Nat /\ r * Block >= b - near
      BY <3>1, BlocksCover
    <3>3. q <= p + r
      <4>1. (p + r) * Block = p * Block + r * Block /\ p + r \in Nat
        BY <1>0, <2>1, <3>2
      <4>2. (p + r) * Block >= b - e
        BY <1>0, <2>1, <3>2, <4>1
      <4> QED
        BY <2>1, <4>1, <4>2, BlocksAreFewest DEF q
    <3>4. r <= q - p
      <4>1. (q - p) * Block = q * Block - p * Block /\ q - p \in Nat
        BY <1>0, <2>1, <2>2
      <4>2. (q - p) * Block >= b - near
        BY <1>0, <2>1, <4>1
      <4> QED
        BY <3>1, <4>1, <4>2, BlocksAreFewest
    <3> HIDE DEF r
    <3>5. r = q - p
      BY <2>1, <3>2, <3>3, <3>4
    <3>6. r * Block = q * Block - p * Block
      BY <1>0, <2>1, <2>2, <3>5
    <3>7. near + r * Block = far
      BY <1>0, <2>1, <3>2, <3>6
    <3>8. ReservationEnd(near, b)
            = IF near + r * Block < MaxSeq THEN near + r * Block ELSE MaxSeq
      BY <1>0, <2>5, <2>8 DEF ReservationEnd, r
    <3> HIDE DEF near, far
    <3> QED
      BY <2>3, <2>8, <3>7, <3>8
  <2> QED
    BY <1>0, <2>5, <2>6, <2>7, <2>8
<1> QED
  BY <1>0, <1>1, <1>2

(* ensureClaimSequenceReservation may be called by several batches, in any  *)
(* order and more than once: what is reserved in the end depends on the     *)
(* numbers that were asked for alone.                                       *)
THEOREM ReservationsCommute ==
    ASSUME NEW e \in 0 .. MaxSeq, NEW a \in 0 .. MaxSeq, NEW b \in 0 .. MaxSeq
    PROVE  /\ ReservationEnd(ReservationEnd(e, a), b)
                = ReservationEnd(ReservationEnd(e, b), a)
           /\ ReservationEnd(ReservationEnd(e, a), a) = ReservationEnd(e, a)
<1>0. MaxSeq \in Nat
  BY MaxSeqAssumption
<1>1. ASSUME NEW m \in 0 .. MaxSeq, NEW n \in 0 .. MaxSeq, m <= n
      PROVE  ReservationEnd(ReservationEnd(e, n), m) = ReservationEnd(e, n)
  <2>1. /\ ReservationEnd(e, n) \in 0 .. MaxSeq
        /\ n <= ReservationEnd(e, n)
    BY ReservationCovers
  <2>2. m <= ReservationEnd(e, n)
    BY <1>0, <1>1, <2>1
  <2> QED
    BY <2>2 DEF ReservationEnd
<1>2. CASE a <= b
  BY <1>0, <1>1, <1>2, FartherDecides
<1>3. CASE b <= a
  BY <1>0, <1>1, <1>3, FartherDecides
<1> QED
  BY <1>0, <1>1, <1>2, <1>3
=============================================================================
