-------------------------- MODULE RplParentProofs --------------------------
(***************************************************************************)
(* What RplParent's operators keep of the state of a mote, for every table *)
(* size, every set of neighbors and of ranks: Good says of a state its     *)
(* types, counters and ranks, Tidy the rows and the addresses in them.     *)
(***************************************************************************)
EXTENDS RplParent, WellFoundedInduction, TLAPS

Sound(s) ==
  s.haveParent =>
    \/ s.isDAGroot
    \/ s.myDAGrank = DEFAULTDAGRANK
    \/ s.table[s.ParentIndex].DAGrank = DEFAULTDAGRANK
    \/ s.table[s.ParentIndex].DAGrank < s.myDAGrank

Earned(s) == s.haveParent \/ s.myDAGrank \in {MINHOPRANKINCREASE, DEFAULTDAGRANK}

Counted(s) == \A i \in Rows : s.table[i].numTxACK <= s.table[i].numTx

(* A state that need not be sound, and one that is.                        *)
Fair(s) == s \in MoteStates /\ Counted(s) /\ Earned(s)
Good(s) == Fair(s) /\ Sound(s)

-----------------------------------------------------------------------------
(* Arithmetic and rows.                                                    *)
-----------------------------------------------------------------------------

(* A set of rows or ranks that is not empty has a first element.           *)
LEMMA FirstFound ==
  ASSUME NEW S, S \subseteq Nat, S # {}
  PROVE  First(S) \in S /\ \A r \in S : First(S) <= r
<1>1. PICK p \in S : \A r \in S : <<r, p>> \notin OpToRel(<, Nat)
  BY WFMin, NatLessThanWellFounded
<1>2. \A r \in S : ~(r < p)
  BY <1>1 DEF OpToRel
<1>3. \A r \in S : p <= r
  BY <1>2
<1>. QED
  BY <1>3 DEF First

(* A quotient is at least what its divisor fits in.                        *)
LEMMA QuotientAtLeast ==
  ASSUME NEW a \in Nat, NEW b \in Nat \ {0}, NEW q \in Nat, b * q <= a
  PROVE  a \div b \in Nat /\ q <= a \div b
<1>. DEFINE d == a \div b
<1>1. d \in Int /\ b * d <= a /\ a < b * (d + 1)
  BY Z3
<1>2. ASSUME d < q PROVE FALSE
  <2>1. d + 1 <= q
    BY <1>1, <1>2
  <2>2. b * (d + 1) <= b * q
    BY <1>1, <2>1, Z3
  <2>. QED
    BY <1>1, <2>2
<1>. QED
  BY <1>1, <1>2

(* No link costs less than a hop (neighbors_getLinkMetric).                *)
LEMMA MetricAtLeast ==
  ASSUME NEW row \in NeighborRows, row.numTxACK <= row.numTx
  PROVE  LinkMetric(row) \in Nat /\ LinkMetric(row) >= MINHOPRANKINCREASE
<1>. DEFINE M == MINHOPRANKINCREASE
            tx == row.numTx
            ack == row.numTxACK
<1>0. M \in Nat \ {0} /\ DEFAULTLINKCOST \in Nat \ {0}
      /\ DEFAULTDAGRANK \in Nat /\ DEFAULTDAGRANK >= 2 * M
  BY RplAssumption
<1>1. tx \in Nat /\ ack \in Nat
  BY RplAssumption DEF NeighborRows
<1>2. CASE ack = 0
  <2>1. 3 * DEFAULTLINKCOST - 2 >= 1 /\ 3 * DEFAULTLINKCOST - 2 \in Nat
    BY <1>0
  <2>2. (3 * DEFAULTLINKCOST - 2) * M >= M /\ (3 * DEFAULTLINKCOST - 2) * M \in Nat
    BY <1>0, <2>1, Z3
  <2>. QED
    BY <1>2, <2>2 DEF LinkMetric
<1>3. CASE ack # 0
  <2>1. ack * (3 * M) <= 3 * tx * M
    BY <1>0, <1>1, Z3
  <2>2. 3 * tx * M \in Nat /\ 3 * M \in Nat
    BY <1>0, <1>1, Z3
  <2>3. (3 * tx * M) \div ack \in Nat /\ 3 * M <= (3 * tx * M) \div ack
    BY <1>1, <1>3, <2>1, <2>2, QuotientAtLeast
  <2>. HIDE DEF M, tx, ack
  <2>4. LinkMetric(row) = IF (3 * tx * M) \div ack - 2 * M > DEFAULTDAGRANK
                          THEN DEFAULTDAGRANK
                          ELSE (3 * tx * M) \div ack - 2 * M
    BY <1>3 DEF LinkMetric, M, tx, ack
  <2>. DEFINE quotient == (3 * tx * M) \div ack
  <2>5. quotient \in Nat /\ 3 * M <= quotient
    BY <2>3
  <2>6. LinkMetric(row) = IF quotient - 2 * M > DEFAULTDAGRANK
                          THEN DEFAULTDAGRANK ELSE quotient - 2 * M
    BY <2>4
  <2>. HIDE DEF quotient
  <2>7. LinkMetric(row) \in Nat /\ LinkMetric(row) >= M
    BY <1>0, <2>5, <2>6
  <2>. QED
    BY <2>7 DEF M
<1>. QED
  BY <1>2, <1>3

(* A rank through a neighbor is above the neighbor's, or the largest.      *)
LEMMA RankThroughAbove ==
  ASSUME NEW row \in NeighborRows, row.numTxACK <= row.numTx
  PROVE  /\ RankThrough(row) \in Ranks
         /\ RankThrough(row) = DEFAULTDAGRANK \/ row.DAGrank < RankThrough(row)
<1>1. LinkMetric(row) \in Nat /\ LinkMetric(row) >= MINHOPRANKINCREASE
  BY MetricAtLeast
<1>2. row.DAGrank \in Nat /\ row.DAGrank <= DEFAULTDAGRANK
  BY RplAssumption DEF NeighborRows, Ranks
<1>. QED
  BY <1>1, <1>2, RplAssumption DEF RankThrough, Ranks

-----------------------------------------------------------------------------
(* The selection of a parent.                                              *)
-----------------------------------------------------------------------------

(* The neighbor selected is a candidate, and none gives a lower rank.      *)
LEMMA BestFound ==
  ASSUME NEW s, Fair(s), NEW C, C \subseteq Rows, C # {}
  PROVE  /\ Best(s, C) \in C
         /\ \A j \in C : RankThrough(s.table[Best(s, C)]) <= RankThrough(s.table[j])
<1>. DEFINE T == {RankThrough(s.table[i]) : i \in C}
            minimal == {i \in C : \A j \in C :
                          RankThrough(s.table[i]) <= RankThrough(s.table[j])}
<1>1. \A i \in C : RankThrough(s.table[i]) \in Nat
  BY RankThroughAbove, RplAssumption DEF Fair, Counted, MoteStates, Ranks
<1>2. T \subseteq Nat /\ T # {}
  BY <1>1
<1>3. First(T) \in T /\ \A r \in T : First(T) <= r
  BY <1>2, FirstFound
<1>4. PICK i \in C : First(T) = RankThrough(s.table[i])
  BY <1>3
<1>5. i \in minimal
  <2>1. ASSUME NEW j \in C
        PROVE  RankThrough(s.table[i]) <= RankThrough(s.table[j])
    <3>1. RankThrough(s.table[j]) \in T
      OBVIOUS
    <3>. QED
      BY <1>3, <1>4, <3>1
  <2>. QED
    BY <2>1
<1>6. minimal \subseteq Nat
  <2>1. minimal \subseteq C
    OBVIOUS
  <2>2. Rows \subseteq Nat
    BY RplAssumption DEF Rows
  <2>. QED
    BY <2>1, <2>2
<1>7. First(minimal) \in minimal
  BY <1>5, <1>6, FirstFound
<1>. QED
  BY <1>7 DEF Best

(* What a selection leaves: the table and the role as they were, a rank    *)
(* above the parent's, and no rank that was not there without a parent.    *)
LEMMA SelectParentGood ==
  ASSUME NEW s, Fair(s)
  PROVE  Good(SelectParent(s))
<1>. DEFINE rank == IF s.haveParent THEN RankThrough(s.table[s.ParentIndex])
                    ELSE s.myDAGrank
            C == Candidates(s, rank)
            best == Best(s, C)
<1>0. s \in MoteStates /\ Counted(s) /\ Earned(s)
  BY DEF Fair
<1>1. \A i \in Rows : s.table[i] \in NeighborRows /\ s.table[i].numTxACK <= s.table[i].numTx
  BY <1>0 DEF MoteStates, Counted
<1>2. s.ParentIndex \in Rows /\ s.myDAGrank \in Ranks /\ s.haveParent \in BOOLEAN
  BY <1>0 DEF MoteStates
<1>3. \A i \in Rows : /\ RankThrough(s.table[i]) \in Ranks
                      /\ \/ RankThrough(s.table[i]) = DEFAULTDAGRANK
                         \/ s.table[i].DAGrank < RankThrough(s.table[i])
  BY <1>1, RankThroughAbove
<1>4. rank \in Ranks
  BY <1>2, <1>3
<1>5. CASE C = {}
  <2>1. SelectParent(s) = [s EXCEPT !.myDAGrank = rank]
    BY <1>5 DEF SelectParent
  <2>. HIDE DEF rank
  <2>2. SelectParent(s) \in MoteStates
    BY <1>0, <1>4, <2>1 DEF MoteStates
  <2>3. SelectParent(s).table = s.table /\ SelectParent(s).haveParent = s.haveParent
        /\ SelectParent(s).ParentIndex = s.ParentIndex /\ SelectParent(s).myDAGrank = rank
    BY <1>0, <2>1 DEF MoteStates
  <2>4. Counted(SelectParent(s))
    BY <1>0, <2>3 DEF Counted
  <2>5. s.haveParent => rank = RankThrough(s.table[s.ParentIndex])
    BY DEF rank
  <2>6. ~s.haveParent => rank = s.myDAGrank
    BY DEF rank
  <2>7. Sound(SelectParent(s))
    BY <1>2, <1>3, <2>3, <2>5 DEF Sound
  <2>8. Earned(SelectParent(s))
    BY <1>0, <2>3, <2>6 DEF Earned
  <2>. QED
    BY <2>2, <2>4, <2>7, <2>8 DEF Good, Fair
<1>6. CASE C # {}
  <2>1. SelectParent(s) = [s EXCEPT !.haveParent = TRUE, !.ParentIndex = best,
                                    !.myDAGrank = RankThrough(s.table[best])]
    BY <1>6 DEF SelectParent
  <2>2. best \in Rows
    BY <1>6, BestFound DEF Candidates
  <2>. HIDE DEF best, rank
  <2>3. SelectParent(s) \in MoteStates
    BY <1>0, <1>3, <2>1, <2>2 DEF MoteStates
  <2>4. SelectParent(s).table = s.table /\ SelectParent(s).haveParent
        /\ SelectParent(s).ParentIndex = best
        /\ SelectParent(s).myDAGrank = RankThrough(s.table[best])
    BY <1>0, <2>1 DEF MoteStates
  <2>5. Counted(SelectParent(s))
    BY <1>0, <2>4 DEF Counted
  <2>6. Sound(SelectParent(s))
    BY <1>3, <2>2, <2>4 DEF Sound
  <2>. QED
    BY <2>3, <2>4, <2>5, <2>6 DEF Good, Fair, Earned
<1>. QED
  BY <1>5, <1>6

LEMMA UpdateGood ==
  ASSUME NEW s, Fair(s)
  PROVE  Good(updateMyDAGrankAndParentSelection(s))
<1>. DEFINE u == updateMyDAGrankAndParentSelection(s)
<1>1. CASE s.isDAGroot /\ s.myDAGrank # MINHOPRANKINCREASE
  <2>1. u = [s EXCEPT !.myDAGrank = MINHOPRANKINCREASE]
    BY <1>1 DEF updateMyDAGrankAndParentSelection
  <2>. HIDE DEF u
  <2>2. MINHOPRANKINCREASE \in Ranks
    BY RplAssumption DEF Ranks
  <2>3. u \in MoteStates /\ u.table = s.table /\ u.myDAGrank = MINHOPRANKINCREASE
        /\ u.isDAGroot
    BY <1>1, <2>1, <2>2 DEF Fair, MoteStates
  <2>4. Good(u)
    BY <2>3 DEF Good, Fair, Counted, Earned, Sound
  <2>. QED
    BY <2>4 DEF u
<1>2. CASE ~(s.isDAGroot /\ s.myDAGrank # MINHOPRANKINCREASE)
  BY <1>2, SelectParentGood DEF updateMyDAGrankAndParentSelection
<1>. QED
  BY <1>1, <1>2

-----------------------------------------------------------------------------
(* The other operators, one after the other.                               *)
-----------------------------------------------------------------------------

(* A state in which a row of its table is replaced by one of the same or   *)
(* of the largest rank.                                                    *)
LEMMA RowReplaced ==
  ASSUME NEW s, Fair(s), NEW i \in Rows, NEW row \in NeighborRows,
         row.numTxACK <= row.numTx
  PROVE  LET t == [s EXCEPT !.table[i] = row] IN
         /\ Fair(t)
         /\ Sound(s) /\ row.DAGrank \in {s.table[i].DAGrank, DEFAULTDAGRANK}
              => Sound(t)
<1>. DEFINE t == [s EXCEPT !.table[i] = row]
<1>1. t \in MoteStates
  BY DEF Fair, MoteStates
<1>2. /\ t.table = [s.table EXCEPT ![i] = row]
      /\ t.isDAGroot = s.isDAGroot /\ t.haveParent = s.haveParent
      /\ t.ParentIndex = s.ParentIndex /\ t.myDAGrank = s.myDAGrank
  BY DEF Fair, MoteStates
<1>3. \A j \in Rows : t.table[j] = IF j = i THEN row ELSE s.table[j]
  BY <1>2 DEF Fair, MoteStates
<1>. HIDE DEF t
<1>4. Fair(t)
  BY <1>1, <1>2, <1>3 DEF Fair, Counted, Earned
<1>5. ASSUME Sound(s), row.DAGrank \in {s.table[i].DAGrank, DEFAULTDAGRANK}
      PROVE  Sound(t)
  <2>1. s.ParentIndex \in Rows
    BY DEF Fair, MoteStates
  <2>. QED
    BY <1>2, <1>3, <1>5, <2>1 DEF Sound
<1>. QED
  BY <1>4, <1>5 DEF t

LEMMA KillGood ==
  ASSUME NEW s, Good(s)
  PROVE  Good(killPreferredParent(s))
<1>. DEFINE k == killPreferredParent(s)
<1>1. MINHOPRANKINCREASE \in Ranks /\ DEFAULTDAGRANK \in Ranks
  BY RplAssumption DEF Ranks
<1>2. k \in MoteStates /\ k.table = s.table /\ ~k.haveParent
      /\ k.myDAGrank \in {MINHOPRANKINCREASE, DEFAULTDAGRANK}
  BY <1>1 DEF killPreferredParent, Good, Fair, MoteStates
<1>. HIDE DEF k
<1>3. Good(k)
  BY <1>2 DEF Good, Fair, Counted, Earned, Sound
<1>. QED
  BY <1>3 DEF k

LEMMA UnusedRowTyped ==
  UnusedRow \in NeighborRows /\ UnusedRow.numTxACK <= UnusedRow.numTx
BY RplAssumption DEF UnusedRow, NeighborRows, Ranks

LEMMA NewRowTyped ==
  ASSUME NEW a \in Addresses
  PROVE  /\ NewRow(a) \in NeighborRows /\ NewRow(a).numTxACK <= NewRow(a).numTx
         /\ NewRow(a).DAGrank = DEFAULTDAGRANK
BY UnusedRowTyped DEF NewRow, UnusedRow, NeighborRows

LEMMA WithoutGood ==
  ASSUME NEW s, Good(s), NEW rows
  PROVE  Good(Without(s, rows))
<1>. DEFINE w == Without(s, rows)
<1>1. s \in MoteStates
  BY DEF Good, Fair
<1>2. /\ w.table = [i \in Rows |-> IF i \in rows THEN UnusedRow ELSE s.table[i]]
      /\ w.isDAGroot = s.isDAGroot /\ w.haveParent = s.haveParent
      /\ w.ParentIndex = s.ParentIndex /\ w.myDAGrank = s.myDAGrank
  BY <1>1 DEF Without, MoteStates
<1>3. w \in MoteStates
  BY <1>1, UnusedRowTyped DEF Without, MoteStates
<1>. HIDE DEF w
<1>4. \A i \in Rows : w.table[i] = IF i \in rows THEN UnusedRow ELSE s.table[i]
  BY <1>2
<1>5. Counted(w)
  BY <1>4, UnusedRowTyped DEF Good, Fair, Counted
<1>6. Earned(w)
  BY <1>2 DEF Good, Fair, Earned
<1>7. Sound(w)
  <2>1. UnusedRow.DAGrank = DEFAULTDAGRANK
    BY DEF UnusedRow
  <2>2. s.ParentIndex \in Rows
    BY <1>1 DEF MoteStates
  <2>. QED
    BY <1>2, <1>4, <2>1, <2>2 DEF Good, Sound
<1>8. Good(w)
  BY <1>3, <1>5, <1>6, <1>7 DEF Good, Fair
<1>. QED
  BY <1>8 DEF w

(* Rows are among those of a set of rows that is looked through.           *)
LEMMA RowFound ==
  ASSUME NEW S, S \subseteq Rows, S # {}
  PROVE  First(S) \in S /\ First(S) \in Rows
<1>1. S \subseteq Nat
  BY RplAssumption DEF Rows
<1>. QED
  BY <1>1, FirstFound

(* The links' state changes no count and no rank.                          *)
LEMMA StabilityTyped ==
  ASSUME NEW row \in NeighborRows, NEW rssi
  PROVE  LET new == Stability(row, rssi) IN
         /\ new \in NeighborRows
         /\ new.numTxACK = row.numTxACK /\ new.numTx = row.numTx
         /\ new.DAGrank = row.DAGrank /\ new.addr = row.addr
<1>. DEFINE counts == rssi = (IF row.stable THEN "bad" ELSE "good")
            enough == row.switches + 1 = SWITCHSTABILITYTHRESHOLD
<1>1. 0 \in 0 .. SWITCHSTABILITYTHRESHOLD - 1
  BY RplAssumption
<1>2. CASE ~counts
  <2>1. Stability(row, rssi) = [row EXCEPT !.switches = 0]
    BY <1>2 DEF Stability
  <2>. QED
    BY <1>1, <2>1 DEF NeighborRows
<1>3. CASE counts /\ enough
  <2>1. Stability(row, rssi) = [row EXCEPT !.switches = 0, !.stable = ~row.stable]
    BY <1>3 DEF Stability
  <2>2. (~row.stable) \in BOOLEAN
    OBVIOUS
  <2>. QED
    BY <1>1, <2>1, <2>2 DEF NeighborRows
<1>4. CASE counts /\ ~enough
  <2>1. Stability(row, rssi) = [row EXCEPT !.switches = row.switches + 1]
    BY <1>4 DEF Stability
  <2>2. row.switches + 1 \in 0 .. SWITCHSTABILITYTHRESHOLD - 1
    BY <1>4, RplAssumption DEF NeighborRows
  <2>. QED
    BY <2>1, <2>2 DEF NeighborRows
<1>. QED
  BY <1>2, <1>3, <1>4

LEMMA IndicateRxGood ==
  ASSUME NEW s, Good(s), NEW a \in Addresses, NEW rssi
  PROVE  Good(indicateRx(s, a, rssi))
<1>1. CASE RowsOf(s, a) # {}
  <2>. DEFINE i == First(RowsOf(s, a))
              row == Stability(s.table[i], rssi)
  <2>1. i \in Rows
    BY <1>1, RowFound DEF RowsOf
  <2>2. s.table[i] \in NeighborRows /\ s.table[i].numTxACK <= s.table[i].numTx
    BY <2>1 DEF Good, Fair, Counted, MoteStates
  <2>3. indicateRx(s, a, rssi) = [s EXCEPT !.table[i] = row]
    BY <1>1 DEF indicateRx
  <2>. HIDE DEF i
  <2>4. row \in NeighborRows /\ row.numTxACK = s.table[i].numTxACK
        /\ row.numTx = s.table[i].numTx /\ row.DAGrank = s.table[i].DAGrank
    BY <2>2, StabilityTyped
  <2>. HIDE DEF row
  <2>5. Good([s EXCEPT !.table[i] = row])
    BY <2>1, <2>2, <2>4, RowReplaced DEF Good
  <2>. QED
    BY <2>3, <2>5
<1>2. CASE RowsOf(s, a) = {} /\ {i \in Rows : ~Used(s, i)} # {}
  <2>. DEFINE free == {j \in Rows : ~Used(s, j)}
              i == First(free)
  <2>1. i \in Rows
    BY <1>2, RowFound
  <2>2. indicateRx(s, a, rssi) = [s EXCEPT !.table[i] = NewRow(a)]
    BY <1>2 DEF indicateRx
  <2>3. NewRow(a) \in NeighborRows /\ NewRow(a).numTxACK <= NewRow(a).numTx
        /\ NewRow(a).DAGrank = DEFAULTDAGRANK
    BY NewRowTyped
  <2>. HIDE DEF i
  <2>4. Good([s EXCEPT !.table[i] = NewRow(a)])
    BY <2>1, <2>3, RowReplaced DEF Good
  <2>. QED
    BY <2>2, <2>4
<1>3. CASE RowsOf(s, a) = {} /\ {i \in Rows : ~Used(s, i)} = {}
  BY <1>3 DEF indicateRx
<1>. QED
  BY <1>1, <1>2, <1>3

(* The halving of both counters keeps their order, and numTx in its byte   *)
(* (neighbors_indicateTx).                                                 *)
LEMMA SentCounted ==
  ASSUME NEW row \in NeighborRows, row.numTxACK <= row.numTx,
         NEW attempts \in 0 .. MaxAttempts, NEW acked \in BOOLEAN,
         acked => attempts > 0
  PROVE  /\ Sent(row, attempts, acked) \in NeighborRows
         /\ Sent(row, attempts, acked).numTxACK <= Sent(row, attempts, acked).numTx
         /\ Sent(row, attempts, acked).DAGrank = row.DAGrank
<1>. DEFINE scale == IF row.numTx > NUMTXMAX - attempts THEN 2 ELSE 1
            tx == row.numTx \div scale + attempts
            ack == row.numTxACK \div scale + (IF acked THEN 1 ELSE 0)
<1>1. row.numTx \in Nat /\ row.numTxACK \in Nat /\ row.numTx <= NUMTXMAX
      /\ NUMTXMAX \in Nat /\ attempts \in Nat /\ attempts <= MaxAttempts
      /\ MaxAttempts \in Nat /\ MaxAttempts + NUMTXMAX \div 2 <= NUMTXMAX
  BY RplAssumption DEF NeighborRows
<1>2. tx \in 0 .. NUMTXMAX /\ ack \in 0 .. NUMTXMAX /\ ack <= tx
  <2>1. CASE row.numTx > NUMTXMAX - attempts
    <3>1. tx = row.numTx \div 2 + attempts
          /\ ack = row.numTxACK \div 2 + (IF acked THEN 1 ELSE 0)
      BY <2>1
    <3>2. row.numTx \div 2 <= NUMTXMAX \div 2 /\ row.numTx \div 2 \in Nat
          /\ row.numTxACK \div 2 <= row.numTx \div 2 /\ row.numTxACK \div 2 \in Nat
      BY <1>1
    <3>. HIDE DEF tx, ack
    <3>. QED
      BY <1>1, <3>1, <3>2
  <2>2. CASE ~(row.numTx > NUMTXMAX - attempts)
    <3>1. tx = row.numTx + attempts /\ ack = row.numTxACK + (IF acked THEN 1 ELSE 0)
      BY <1>1, <2>2
    <3>. HIDE DEF tx, ack
    <3>. QED
      BY <1>1, <2>2, <3>1
  <2>. QED
    BY <2>1, <2>2
<1>3. Sent(row, attempts, acked) = [row EXCEPT !.numTx = tx, !.numTxACK = ack]
  BY DEF Sent
<1>. HIDE DEF tx, ack
<1>. QED
  BY <1>2, <1>3 DEF NeighborRows

LEMMA IndicateTxGood ==
  ASSUME NEW s, Good(s), NEW a \in Addresses,
         NEW attempts \in 0 .. MaxAttempts, NEW acked \in BOOLEAN,
         acked => attempts > 0
  PROVE  Good(indicateTx(s, a, attempts, acked))
<1>1. CASE RowsOf(s, a) = {}
  BY <1>1 DEF indicateTx
<1>2. CASE RowsOf(s, a) # {}
  <2>. DEFINE i == First(RowsOf(s, a))
              row == Sent(s.table[i], attempts, acked)
  <2>1. i \in Rows
    BY <1>2, RowFound DEF RowsOf
  <2>2. s.table[i] \in NeighborRows /\ s.table[i].numTxACK <= s.table[i].numTx
    BY <2>1 DEF Good, Fair, Counted, MoteStates
  <2>3. indicateTx(s, a, attempts, acked) = [s EXCEPT !.table[i] = row]
    BY <1>2 DEF indicateTx
  <2>. HIDE DEF i
  <2>4. row \in NeighborRows /\ row.numTxACK <= row.numTx
        /\ row.DAGrank = s.table[i].DAGrank
    BY <2>2, SentCounted
  <2>. HIDE DEF row
  <2>5. Good([s EXCEPT !.table[i] = row])
    BY <2>1, <2>4, RowReplaced DEF Good
  <2>. QED
    BY <2>3, <2>5
<1>. QED
  BY <1>1, <1>2

(* A DIO changes one rank, not to more than the largest, and selects.      *)
Noted(s, i, row, t) ==
  /\ Used(s, i)
  /\ row.numTxACK <= row.numTx /\ row.addr = s.table[i].addr
  /\ t = updateMyDAGrankAndParentSelection([s EXCEPT !.table[i] = row])

LEMMA RxDIONoted ==
  ASSUME NEW s, Good(s), NEW a, NEW rank \in Ranks,
         ~(s.isDAGroot \/ RowsOf(s, a) = {})
  PROVE  \E i \in Rows, row \in NeighborRows :
           Noted(s, i, row, indicateRxDIO(s, a, rank))
<1>. DEFINE i == First(RowsOf(s, a))
            noted == IF rank > s.table[i].DAGrank + Jump
                     THEN s.table[i].DAGrank + Jump ELSE rank
            row == [s.table[i] EXCEPT !.DAGrank = noted]
<1>1. i \in Rows /\ Used(s, i)
  BY RowFound DEF RowsOf
<1>2. s.table[i] \in NeighborRows /\ s.table[i].numTxACK <= s.table[i].numTx
  BY <1>1 DEF Good, Fair, Counted, MoteStates
<1>3. indicateRxDIO(s, a, rank) =
        updateMyDAGrankAndParentSelection([s EXCEPT !.table[i].DAGrank = noted])
  BY DEF indicateRxDIO
<1>. HIDE DEF i
<1>4. [s EXCEPT !.table[i].DAGrank = noted] = [s EXCEPT !.table[i] = row]
  BY <1>1 DEF Good, Fair, MoteStates
<1>5. Jump \in Nat
  <2>1. DEFAULTLINKCOST * 2 \in Nat
    BY RplAssumption
  <2>. QED
    BY <2>1, RplAssumption, Z3 DEF Jump
<1>6. noted \in Ranks
  BY <1>2, <1>5, RplAssumption DEF Ranks, NeighborRows
<1>. HIDE DEF noted
<1>7. row \in NeighborRows /\ row.numTxACK <= row.numTx /\ row.addr = s.table[i].addr
  BY <1>2, <1>6 DEF NeighborRows
<1>. HIDE DEF row
<1>8. Noted(s, i, row, indicateRxDIO(s, a, rank))
  BY <1>1, <1>3, <1>4, <1>7 DEF Noted
<1>. QED
  BY <1>1, <1>7, <1>8

LEMMA RxDIOGood ==
  ASSUME NEW s, Good(s), NEW a, NEW rank \in Ranks
  PROVE  Good(indicateRxDIO(s, a, rank))
<1>1. CASE s.isDAGroot \/ RowsOf(s, a) = {}
  BY <1>1 DEF indicateRxDIO
<1>2. CASE ~(s.isDAGroot \/ RowsOf(s, a) = {})
  <2>1. PICK i \in Rows, row \in NeighborRows :
          Noted(s, i, row, indicateRxDIO(s, a, rank))
    BY <1>2, RxDIONoted
  <2>2. Fair([s EXCEPT !.table[i] = row])
    BY <2>1, RowReplaced DEF Good, Noted
  <2>. QED
    BY <2>1, <2>2, UpdateGood DEF Noted
<1>. QED
  BY <1>1, <1>2

(* Maintenance removes neighbors, and may select a parent in between.      *)
LEMMA RemoveOldGood ==
  ASSUME NEW s, Good(s), NEW old
  PROVE  Good(removeOld(s, old))
<1>1. \A t : Good(t) => Good(updateMyDAGrankAndParentSelection(t))
  BY UpdateGood DEF Good
<1>2. Good(removeAged(s, old))
  BY <1>1, KillGood, WithoutGood DEF removeAged
<1>3. ASSUME NEW t, Good(t), NEW others
      PROVE  Good(removeOthers(t, others))
  BY <1>1, <1>3, KillGood, WithoutGood DEF removeOthers
<1>. QED
  BY <1>2, <1>3 DEF removeOld

LEMMA SetIsDAGrootGood ==
  ASSUME NEW s, Good(s), NEW newRole \in BOOLEAN
  PROVE  Good(setIsDAGroot(s, newRole))
<1>. DEFINE t == [s EXCEPT !.isDAGroot = newRole]
<1>1. t \in MoteStates /\ t.table = s.table /\ t.haveParent = s.haveParent
      /\ t.myDAGrank = s.myDAGrank
  BY DEF Good, Fair, MoteStates
<1>. HIDE DEF t
<1>2. Fair(t)
  BY <1>1 DEF Good, Fair, Counted, Earned
<1>3. Good(updateMyDAGrankAndParentSelection(t))
  BY <1>2, UpdateGood
<1>. QED
  BY <1>3 DEF setIsDAGroot, t

-----------------------------------------------------------------------------
(* Addresses, and what a change of rank leads to.                          *)
-----------------------------------------------------------------------------

(* Rows without a neighbor are as removeNeighbor leaves them, and no two   *)
(* rows have the same one.                                                 *)
Tidy(s) ==
  /\ \A i \in Rows : ~Used(s, i) => s.table[i] = UnusedRow
  /\ \A i, j \in Rows : Used(s, i) /\ s.table[i].addr = s.table[j].addr => i = j

(* From one state to the next no neighbor's rank changes.                  *)
Steady(s, t) ==
  \A i \in Rows : t.table[i].addr = s.table[i].addr
                  => t.table[i].DAGrank = s.table[i].DAGrank

(* A selection leaves the table alone.                                     *)
LEMMA UpdateKeepsTable ==
  ASSUME NEW s \in MoteStates
  PROVE  updateMyDAGrankAndParentSelection(s).table = s.table
BY DEF updateMyDAGrankAndParentSelection, SelectParent, MoteStates

LEMMA TidyTable ==
  ASSUME NEW s, NEW t, t.table = s.table, Tidy(s)
  PROVE  Tidy(t)
BY DEF Tidy, Used

LEMMA RowReplacedTidy ==
  ASSUME NEW s \in MoteStates, Tidy(s), NEW i \in Rows, Used(s, i),
         NEW row, row.addr = s.table[i].addr
  PROVE  LET t == [s EXCEPT !.table[i] = row] IN
         Tidy(t) /\ (row.DAGrank = s.table[i].DAGrank => Steady(s, t))
<1>. DEFINE t == [s EXCEPT !.table[i] = row]
<1>1. \A j \in Rows : t.table[j] = IF j = i THEN row ELSE s.table[j]
  BY DEF MoteStates
<1>. HIDE DEF t
<1>2. Tidy(t)
  BY <1>1 DEF Tidy, Used
<1>3. row.DAGrank = s.table[i].DAGrank => Steady(s, t)
  BY <1>1 DEF Steady
<1>. QED
  BY <1>2, <1>3 DEF t

(* Removing neighbors, in as many steps as maintenance takes, leaves rows  *)
(* as they were or unused.                                                 *)
Cut(s, t) == \A i \in Rows : t.table[i] \in {s.table[i], UnusedRow}

LEMMA CutTidy ==
  ASSUME NEW s, NEW t, Tidy(s), Cut(s, t)
  PROVE  Tidy(t) /\ Steady(s, t)
<1>1. UnusedRow.addr = NoAddress
  BY DEF UnusedRow
<1>2. Tidy(t)
  BY <1>1 DEF Cut, Tidy, Used
<1>3. Steady(s, t)
  BY <1>1 DEF Cut, Tidy, Used, Steady
<1>. QED
  BY <1>2, <1>3

LEMMA CutMore ==
  ASSUME NEW s, NEW t, NEW u, Cut(s, t), Cut(t, u)
  PROVE  Cut(s, u)
BY DEF Cut

LEMMA WithoutCut ==
  ASSUME NEW s \in MoteStates, NEW rows
  PROVE  Cut(s, Without(s, rows))
BY DEF Without, MoteStates, Cut

LEMMA KillCut ==
  ASSUME NEW s \in MoteStates
  PROVE  Cut(s, killPreferredParent(s))
BY DEF killPreferredParent, MoteStates, Cut

LEMMA UpdateCut ==
  ASSUME NEW s \in MoteStates
  PROVE  Cut(s, updateMyDAGrankAndParentSelection(s))
BY UpdateKeepsTable DEF Cut

(* A parent that is to go is dropped, another selected, and the rows go.   *)
LEMMA ReplaceParentCut ==
  ASSUME NEW s, Good(s), NEW rows
  PROVE  LET u == updateMyDAGrankAndParentSelection(
                    Without(killPreferredParent(s), rows))
         IN Good(u) /\ Cut(s, u)
<1>. DEFINE k == killPreferredParent(s)
            w == Without(k, rows)
            u == updateMyDAGrankAndParentSelection(w)
<1>1. Good(k) /\ Cut(s, k)
  BY KillGood, KillCut DEF Good, Fair
<1>. HIDE DEF k
<1>2. Good(w) /\ Cut(k, w)
  BY <1>1, WithoutGood, WithoutCut DEF Good, Fair
<1>. HIDE DEF w
<1>3. Good(u) /\ Cut(w, u)
  BY <1>2, UpdateGood, UpdateCut DEF Good, Fair
<1>. HIDE DEF u
<1>4. Good(u) /\ Cut(s, u)
  BY <1>1, <1>2, <1>3, CutMore
<1>. QED
  BY <1>4 DEF u, w, k

LEMMA RemoveOldCut ==
  ASSUME NEW s, Good(s), NEW old
  PROVE  Cut(s, removeOld(s, old))
<1>. DEFINE aged == removeAged(s, old)
<1>1. Good(aged) /\ Cut(s, aged)
  BY ReplaceParentCut, WithoutGood, WithoutCut DEF removeAged, Good, Fair
<1>. HIDE DEF aged
<1>2. ASSUME NEW others
      PROVE  Cut(aged, removeOthers(aged, others))
  <2>1. CASE aged.haveParent /\ aged.ParentIndex \in others
    <3>. DEFINE u == updateMyDAGrankAndParentSelection(
                       Without(killPreferredParent(aged),
                               {i \in others : i < aged.ParentIndex}))
    <3>1. removeOthers(aged, others) = Without(u, others)
      BY <2>1 DEF removeOthers
    <3>2. Good(u) /\ Cut(aged, u)
      BY <1>1, ReplaceParentCut
    <3>. HIDE DEF u
    <3>3. Cut(u, Without(u, others))
      BY <3>2, WithoutCut DEF Good, Fair
    <3>. QED
      BY <3>1, <3>2, <3>3, CutMore
  <2>2. CASE ~(aged.haveParent /\ aged.ParentIndex \in others)
    BY <1>1, <2>2, WithoutCut DEF removeOthers, Good, Fair
  <2>. QED
    BY <2>1, <2>2
<1>3. Cut(aged, removeOld(s, old))
  BY <1>2 DEF removeOld, aged, Cut
<1>. QED
  BY <1>1, <1>3, CutMore

LEMMA IndicateRxTidy ==
  ASSUME NEW s, Good(s), Tidy(s), NEW a \in Addresses, NEW rssi
  PROVE  Tidy(indicateRx(s, a, rssi)) /\ Steady(s, indicateRx(s, a, rssi))
<1>0. s \in MoteStates
  BY DEF Good, Fair
<1>1. CASE RowsOf(s, a) # {}
  <2>. DEFINE i == First(RowsOf(s, a))
  <2>1. i \in Rows /\ Used(s, i)
    BY <1>1, RowFound DEF RowsOf
  <2>2. indicateRx(s, a, rssi) = [s EXCEPT !.table[i] = Stability(s.table[i], rssi)]
    BY <1>1 DEF indicateRx
  <2>. HIDE DEF i
  <2>3. s.table[i] \in NeighborRows
    BY <1>0, <2>1 DEF MoteStates
  <2>4. Stability(s.table[i], rssi).addr = s.table[i].addr
        /\ Stability(s.table[i], rssi).DAGrank = s.table[i].DAGrank
    BY <2>3, StabilityTyped
  <2>. QED
    BY <1>0, <2>1, <2>2, <2>4, RowReplacedTidy
<1>2. CASE RowsOf(s, a) = {} /\ {i \in Rows : ~Used(s, i)} # {}
  <2>. DEFINE free == {j \in Rows : ~Used(s, j)}
              i == First(free)
              t == [s EXCEPT !.table[i] = NewRow(a)]
  <2>1. i \in Rows /\ s.table[i].addr = NoAddress
    BY <1>2, RowFound DEF Used
  <2>2. indicateRx(s, a, rssi) = t
    BY <1>2 DEF indicateRx
  <2>. HIDE DEF i
  <2>3. \A j \in Rows : t.table[j] = IF j = i THEN NewRow(a) ELSE s.table[j]
    BY <1>0, <2>1 DEF MoteStates
  <2>4. NewRow(a).addr = a /\ a # NoAddress
    BY RplAssumption DEF NewRow, UnusedRow
  <2>5. \A j \in Rows : s.table[j].addr # a
    BY <1>2, <2>4 DEF RowsOf, Used
  <2>. HIDE DEF t
  <2>6. Tidy(t)
    BY <2>3, <2>4, <2>5 DEF Tidy, Used
  <2>7. Steady(s, t)
    BY <2>1, <2>3, <2>4 DEF Steady
  <2>. QED
    BY <2>2, <2>6, <2>7
<1>3. CASE RowsOf(s, a) = {} /\ {i \in Rows : ~Used(s, i)} = {}
  BY <1>3 DEF indicateRx, Steady
<1>. QED
  BY <1>1, <1>2, <1>3

LEMMA IndicateTxTidy ==
  ASSUME NEW s, Good(s), Tidy(s), NEW a, NEW attempts, NEW acked
  PROVE  /\ Tidy(indicateTx(s, a, attempts, acked))
         /\ Steady(s, indicateTx(s, a, attempts, acked))
<1>1. CASE RowsOf(s, a) = {}
  BY <1>1 DEF indicateTx, Steady
<1>2. CASE RowsOf(s, a) # {}
  <2>. DEFINE i == First(RowsOf(s, a))
  <2>1. i \in Rows /\ Used(s, i)
    BY <1>2, RowFound DEF RowsOf
  <2>2. indicateTx(s, a, attempts, acked) =
          [s EXCEPT !.table[i] = Sent(s.table[i], attempts, acked)]
    BY <1>2 DEF indicateTx
  <2>. HIDE DEF i
  <2>3. s.table[i] \in NeighborRows /\ s \in MoteStates
    BY <2>1 DEF Good, Fair, MoteStates
  <2>4. Sent(s.table[i], attempts, acked).addr = s.table[i].addr
        /\ Sent(s.table[i], attempts, acked).DAGrank = s.table[i].DAGrank
    BY <2>3 DEF Sent, NeighborRows
  <2>. QED
    BY <2>1, <2>2, <2>3, <2>4, RowReplacedTidy
<1>. QED
  BY <1>1, <1>2

(* After a selection no neighbor is left that would be worth another one.  *)
LEMMA SelectTakesTheBest ==
  ASSUME NEW s, Fair(s)
  PROVE  Candidates(SelectParent(s), SelectParent(s).myDAGrank) = {}
<1>. DEFINE rank == IF s.haveParent THEN RankThrough(s.table[s.ParentIndex])
                    ELSE s.myDAGrank
            C == Candidates(s, rank)
            best == Best(s, C)
            new == SelectParent(s)
<1>0. s \in MoteStates
  BY DEF Fair
<1>1. \A i \in Rows : RankThrough(s.table[i]) \in Ranks
  BY <1>0, RankThroughAbove DEF Fair, Counted, MoteStates
<1>2. CASE C = {}
  <2>1. new.table = s.table /\ new.myDAGrank = rank
    BY <1>0, <1>2 DEF SelectParent, MoteStates
  <2>. HIDE DEF new, rank
  <2>2. Candidates(new, rank) = Candidates(s, rank)
    BY <2>1 DEF Candidates, Used
  <2>3. Candidates(new, new.myDAGrank) = {}
    BY <1>2, <2>1, <2>2
  <2>. QED
    BY <2>3 DEF new
<1>3. CASE C # {}
  <2>1. new.table = s.table /\ new.myDAGrank = RankThrough(s.table[best])
    BY <1>0, <1>3 DEF SelectParent, MoteStates
  <2>2. best \in C /\ \A j \in C : RankThrough(s.table[best]) <= RankThrough(s.table[j])
    BY <1>3, BestFound DEF Candidates
  <2>3. best \in Rows /\ RankThrough(s.table[best]) + 2 * MINHOPRANKINCREASE <= rank
    BY <2>2 DEF Candidates
  <2>4. rank \in Ranks
    BY <1>0, <1>1 DEF MoteStates
  <2>. HIDE DEF new, rank, best
  <2>5. ASSUME NEW k \in Candidates(new, new.myDAGrank) PROVE FALSE
    <3>1. k \in Rows
          /\ RankThrough(s.table[k]) + 2 * MINHOPRANKINCREASE <= RankThrough(s.table[best])
      BY <2>1, <2>5 DEF Candidates
    <3>2. RankThrough(s.table[k]) + 2 * MINHOPRANKINCREASE <= rank
      BY <1>1, <2>3, <2>4, <3>1, RplAssumption DEF Ranks
    <3>3. k \in C
      BY <2>1, <2>5, <3>1, <3>2 DEF Candidates, Used
    <3>. QED
      BY <1>1, <2>2, <2>3, <3>1, <3>3, RplAssumption DEF Ranks
  <2>. QED
    BY <2>5 DEF new
<1>. QED
  BY <1>2, <1>3

(* A DIO changes the rank in one row, and a selection follows.             *)
LEMMA RxDIOSelects ==
  ASSUME NEW s, Good(s), Tidy(s), NEW a \in Addresses, NEW rank \in Ranks
  PROVE  LET t == indicateRxDIO(s, a, rank) IN
         /\ Tidy(t)
         /\ t = s \/ Candidates(t, t.myDAGrank) = {}
<1>1. CASE s.isDAGroot \/ RowsOf(s, a) = {}
  BY <1>1 DEF indicateRxDIO
<1>2. CASE ~(s.isDAGroot \/ RowsOf(s, a) = {})
  <2>1. PICK i \in Rows, row \in NeighborRows :
          Noted(s, i, row, indicateRxDIO(s, a, rank))
    BY <1>2, RxDIONoted
  <2>. DEFINE u == [s EXCEPT !.table[i] = row]
  <2>2. s \in MoteStates
    BY DEF Good, Fair
  <2>3. Fair(u) /\ Tidy(u)
    BY <2>1, <2>2, RowReplaced, RowReplacedTidy DEF Good, Noted
  <2>4. ~u.isDAGroot
    BY <1>2, <2>2 DEF MoteStates
  <2>. HIDE DEF u
  <2>5. updateMyDAGrankAndParentSelection(u) = SelectParent(u)
    BY <2>4 DEF updateMyDAGrankAndParentSelection
  <2>6. Tidy(SelectParent(u))
    BY <2>3, <2>5, UpdateKeepsTable, TidyTable DEF Fair
  <2>. QED
    BY <2>1, <2>3, <2>5, <2>6, SelectTakesTheBest DEF u, Noted
<1>. QED
  BY <1>1, <1>2

(* Nothing is known yet (icmpv6rpl_init, neighbors_init).                  *)
LEMMA FreshGood ==
  ASSUME NEW isDAGroot \in BOOLEAN
  PROVE  Good(icmpv6rpl_init(isDAGroot)) /\ Tidy(icmpv6rpl_init(isDAGroot))
<1>. DEFINE fresh == icmpv6rpl_init(isDAGroot)
<1>1. 0 \in Rows /\ MINHOPRANKINCREASE \in Ranks /\ DEFAULTDAGRANK \in Ranks
  BY RplAssumption DEF Rows, Ranks
<1>2. fresh \in MoteStates
  BY <1>1, UnusedRowTyped DEF icmpv6rpl_init, MoteStates
<1>3. Counted(fresh)
  BY UnusedRowTyped DEF icmpv6rpl_init, Counted
<1>4. Good(fresh)
  BY <1>2, <1>3 DEF icmpv6rpl_init, Good, Fair, Earned, Sound
<1>5. \A i \in Rows : fresh.table[i] = UnusedRow /\ UnusedRow.addr = NoAddress
  BY DEF icmpv6rpl_init, UnusedRow
<1>6. Tidy(fresh)
  BY <1>5 DEF Tidy, Used
<1>. QED
  BY <1>4, <1>6
=============================================================================
