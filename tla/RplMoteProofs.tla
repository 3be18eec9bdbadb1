--------------------------- MODULE RplMoteProofs ---------------------------
(***************************************************************************)
(* Proofs about RplMote, for every table size, every set of neighbors, of  *)
(* ranks and of roles, and every number of neighbors that grow old at once.*)
(* The inductive invariant says of the mote's state what RplParentProofs   *)
(* shows every operator to keep.                                           *)
(***************************************************************************)
EXTENDS RplMote, RplParentProofs

-----------------------------------------------------------------------------
(* The specification.                                                      *)
-----------------------------------------------------------------------------

(* The inductive invariant.                                                *)
IInv == Good(mote) /\ Tidy(mote)

LEMMA InitGood == Init => IInv
<1>. SUFFICES ASSUME NEW isDAGroot \in BOOLEAN, mote = icmpv6rpl_init(isDAGroot)
              PROVE  Good(mote) /\ Tidy(mote)
  BY DEF Init, IInv
<1>. QED
  BY FreshGood

(* Every step keeps the invariant, and one that changes a neighbor's rank  *)
(* leaves no candidate.                                                    *)
Selects(s, t) == Steady(s, t) \/ Candidates(t, t.myDAGrank) = {}

LEMMA NextGood ==
  IInv /\ [Next]_vars => IInv' /\ Selects(mote, mote')
<1>. SUFFICES ASSUME Good(mote), Tidy(mote), [Next]_vars
              PROVE  Good(mote') /\ Tidy(mote') /\ Selects(mote, mote')
  BY DEF IInv
<1>1. CASE FrameReceived
  BY <1>1, IndicateRxGood, IndicateRxTidy DEF FrameReceived, Selects
<1>2. CASE DIOReceived
  <2>1. PICK a \in Addresses, rssi \in OfferedRssi, rank \in OfferedRanks :
          mote' = indicateRxDIO(indicateRx(mote, a, rssi), a, rank)
    BY <1>2 DEF DIOReceived
  <2>2. rank \in Ranks
    BY RplMoteAssumption
  <2>. DEFINE heard == indicateRx(mote, a, rssi)
  <2>3. Good(heard) /\ Tidy(heard) /\ Steady(mote, heard)
    BY IndicateRxGood, IndicateRxTidy
  <2>4. mote' = indicateRxDIO(heard, a, rank)
    BY <2>1
  <2>. HIDE DEF heard
  <2>5. Good(mote')
    BY <2>2, <2>3, <2>4, RxDIOGood
  <2>6. Tidy(mote') /\ (mote' = heard \/ Candidates(mote', mote'.myDAGrank) = {})
    BY <2>2, <2>3, <2>4, RxDIOSelects
  <2>. QED
    BY <2>3, <2>5, <2>6 DEF Selects
<1>3. CASE FrameSent
  BY <1>3, IndicateTxGood, IndicateTxTidy DEF FrameSent, Selects
<1>4. CASE Maintenance
  BY <1>4, RemoveOldGood, RemoveOldCut, CutTidy DEF Maintenance, Selects
<1>5. CASE triggerAboutRoot
  <2>1. PICK newRole \in BOOLEAN : mote' = setIsDAGroot(mote, newRole)
    BY <1>5, RplMoteAssumption DEF triggerAboutRoot
  <2>2. [mote EXCEPT !.isDAGroot = newRole] \in MoteStates
        /\ [mote EXCEPT !.isDAGroot = newRole].table = mote.table
    BY DEF Good, Fair, MoteStates
  <2>3. mote'.table = mote.table
    BY <2>1, <2>2, UpdateKeepsTable DEF setIsDAGroot
  <2>4. Steady(mote, mote')
    BY <2>3 DEF Steady
  <2>. QED
    BY <2>1, <2>3, <2>4, SetIsDAGrootGood, TidyTable DEF Selects
<1>6. CASE UNCHANGED vars
  BY <1>6 DEF vars, Selects, Steady
<1>. QED
  BY <1>1, <1>2, <1>3, <1>4, <1>5, <1>6 DEF Next

LEMMA AlwaysGood == Spec => []IInv
BY InitGood, NextGood, PTL DEF Spec

(* The table, the parent and the rank keep their types: no counter and no  *)
(* rank leaves its width.                                                  *)
THEOREM TypeCorrect == Spec => []TypeOK
<1>1. IInv => TypeOK
  BY DEF IInv, Good, Fair, TypeOK
<1>. QED
  BY <1>1, AlwaysGood, PTL

(* A link costs at least a hop, whatever was sent on it.                   *)
THEOREM LinkCosts == Spec => []LinksCostAHop
<1>1. IInv => LinksCostAHop
  BY MetricAtLeast DEF IInv, Good, Fair, Counted, MoteStates, LinksCostAHop
<1>. QED
  BY <1>1, AlwaysGood, PTL

(* The rank of a mote stays above the one it knows of its parent.          *)
THEOREM RanksGrow == Spec => []RankAboveParent
<1>1. IInv => RankAboveParent
  BY DEF IInv, Good, Sound, RankAboveParent, Parent
<1>. QED
  BY <1>1, AlwaysGood, PTL

(* Only a parent, or the role of root, gives a mote a rank.                *)
THEOREM RanksAreEarned == Spec => []RankNeedsParent
<1>1. IInv => RankNeedsParent
  BY DEF IInv, Good, Fair, Earned, RankNeedsParent
<1>. QED
  BY <1>1, AlwaysGood, PTL

(* No neighbor ever gets a second row.                                     *)
THEOREM RowsAreUnique == Spec => []OneRowEach
<1>1. IInv => OneRowEach
  BY DEF IInv, Tidy, OneRowEach
<1>. QED
  BY <1>1, AlwaysGood, PTL

(* A change of a neighbor's rank leaves the mote with a parent that no     *)
(* stable neighbor beats by two hops.                                      *)
THEOREM BestIsTaken == Spec => TakesTheBest
<1>1. IInv /\ [Next]_vars =>
        [ (\E i \in Rows : /\ mote'.table[i].addr = mote.table[i].addr
                           /\ mote'.table[i].DAGrank # mote.table[i].DAGrank)
          => Candidates(mote', mote'.myDAGrank) = {} ]_vars
  BY NextGood DEF Selects, Steady
<1>. QED
  BY <1>1, AlwaysGood, PTL DEF Spec, TakesTheBest

-----------------------------------------------------------------------------
(* Changes of the parent: a mote leaves a parent it still knows only for a *)
(* gain of two hops, and it keeps its parent's row in use, with the        *)
(* exception that KeepsParent names.                                       *)
-----------------------------------------------------------------------------

(* The parent is the one before, as far as it still has a row.             *)
SameParent(s, t) == t.haveParent = s.haveParent /\ t.ParentIndex = s.ParentIndex

(* The parent is a new one, with a row and a rank, better by two hops than *)
(* the one before, if there was one.                                       *)
BetterParent(s, t) ==
  /\ t.haveParent
  /\ t.ParentIndex \in Rows
  /\ Used(t, t.ParentIndex)
  /\ t.table[t.ParentIndex].DAGrank # DEFAULTDAGRANK
  /\ s.haveParent => t.myDAGrank + 2 * MINHOPRANKINCREASE
                       <= RankThrough(t.table[s.ParentIndex])

(* What ChangesForGain and KeepsParent say of a step.                      *)
Gains(s, t) ==
  /\ s.haveParent /\ t.haveParent
  /\ t.ParentIndex # s.ParentIndex
  /\ Used(t, s.ParentIndex)
  => t.myDAGrank + 2 * MINHOPRANKINCREASE <= RankThrough(t.table[s.ParentIndex])

Stays(s, t) ==
  s.haveParent /\ Used(s, s.ParentIndex) => ~t.haveParent \/ Used(t, t.ParentIndex)

(* No row in use is given up.                                              *)
RowsStay(s, t) == \A i \in Rows : Used(s, i) => Used(t, i)

-----------------------------------------------------------------------------
(* The selection.                                                          *)
-----------------------------------------------------------------------------

(* A selection keeps the parent or takes a better one.                     *)
LEMMA UpdateParent ==
  ASSUME NEW s, Fair(s)
  PROVE  LET t == updateMyDAGrankAndParentSelection(s)
         IN t.table = s.table /\ (SameParent(s, t) \/ BetterParent(s, t))
<1>. DEFINE t == updateMyDAGrankAndParentSelection(s)
            rank == IF s.haveParent THEN RankThrough(s.table[s.ParentIndex])
                    ELSE s.myDAGrank
            C == Candidates(s, rank)
            best == Best(s, C)
<1>0. s \in MoteStates
  BY DEF Fair
<1>1. CASE s.isDAGroot /\ s.myDAGrank # MINHOPRANKINCREASE
  BY <1>0, <1>1 DEF updateMyDAGrankAndParentSelection, MoteStates, SameParent
<1>2. CASE ~(s.isDAGroot /\ s.myDAGrank # MINHOPRANKINCREASE) /\ C = {}
  BY <1>0, <1>2 DEF updateMyDAGrankAndParentSelection, SelectParent, MoteStates, SameParent
<1>3. CASE ~(s.isDAGroot /\ s.myDAGrank # MINHOPRANKINCREASE) /\ C # {}
  <2>1. t = [s EXCEPT !.haveParent = TRUE, !.ParentIndex = best,
                      !.myDAGrank = RankThrough(s.table[best])]
    BY <1>3 DEF updateMyDAGrankAndParentSelection, SelectParent
  <2>2. best \in C
    BY <1>3, BestFound DEF Candidates
  <2>3. /\ best \in Rows /\ Used(s, best) /\ s.table[best].DAGrank # DEFAULTDAGRANK
        /\ RankThrough(s.table[best]) + 2 * MINHOPRANKINCREASE <= rank
    BY <2>2 DEF Candidates
  <2>4. s.haveParent => rank = RankThrough(s.table[s.ParentIndex])
    OBVIOUS
  <2>. HIDE DEF rank, C, best, t
  <2>5. /\ t.table = s.table /\ t.haveParent /\ t.ParentIndex = best
        /\ t.myDAGrank = RankThrough(s.table[best])
    BY <1>0, <2>1 DEF MoteStates
  <2>6. BetterParent(s, t)
    BY <2>3, <2>4, <2>5 DEF BetterParent, Used
  <2>. QED
    BY <2>5, <2>6 DEF t
<1>. QED
  BY <1>1, <1>2, <1>3

(* Steps that leave the parent alone and give up no row.                   *)
LEMMA SameIsFine ==
  ASSUME NEW s \in MoteStates, NEW t, SameParent(s, t), RowsStay(s, t)
  PROVE  Gains(s, t) /\ Stays(s, t)
BY DEF SameParent, RowsStay, Gains, Stays, MoteStates

(* A selection after such a step.                                          *)
LEMMA UpdateIsFine ==
  ASSUME NEW s \in MoteStates, NEW u, Fair(u), SameParent(s, u), RowsStay(s, u)
  PROVE  LET t == updateMyDAGrankAndParentSelection(u) IN Gains(s, t) /\ Stays(s, t)
<1>. DEFINE t == updateMyDAGrankAndParentSelection(u)
<1>1. t.table = u.table /\ (SameParent(u, t) \/ BetterParent(u, t))
  BY UpdateParent
<1>. HIDE DEF t
<1>2. CASE SameParent(u, t)
  <2>1. SameParent(s, t) /\ RowsStay(s, t)
    BY <1>1, <1>2 DEF SameParent, RowsStay, Used
  <2>. QED
    BY <2>1, SameIsFine DEF t
<1>3. CASE BetterParent(u, t)
  <2>1. Gains(s, t) /\ Stays(s, t)
    BY <1>3 DEF SameParent, BetterParent, Gains, Stays
  <2>. QED
    BY <2>1 DEF t
<1>. QED
  BY <1>1, <1>2, <1>3

-----------------------------------------------------------------------------
(* Frames, DIOs and roles.                                                 *)
-----------------------------------------------------------------------------

LEMMA ReplacedStays ==
  ASSUME NEW s \in MoteStates, NEW i \in Rows, NEW row, row.addr # NoAddress
  PROVE  LET t == [s EXCEPT !.table[i] = row] IN SameParent(s, t) /\ RowsStay(s, t)
BY DEF MoteStates, SameParent, RowsStay, Used

LEMMA RxStays ==
  ASSUME NEW s, Good(s), NEW a \in Addresses, NEW rssi
  PROVE  SameParent(s, indicateRx(s, a, rssi)) /\ RowsStay(s, indicateRx(s, a, rssi))
<1>0. s \in MoteStates
  BY DEF Good, Fair
<1>1. CASE RowsOf(s, a) # {}
  <2>. DEFINE i == First(RowsOf(s, a))
  <2>1. i \in Rows /\ Used(s, i)
    BY <1>1, RowFound DEF RowsOf
  <2>2. indicateRx(s, a, rssi) = [s EXCEPT !.table[i] = Stability(s.table[i], rssi)]
    BY <1>1 DEF indicateRx
  <2>. HIDE DEF i
  <2>3. s.table[i] \in NeighborRows
    BY <1>0, <2>1 DEF MoteStates
  <2>4. Stability(s.table[i], rssi).addr # NoAddress
    BY <2>1, <2>3, StabilityTyped DEF Used
  <2>. QED
    BY <1>0, <2>1, <2>2, <2>4, ReplacedStays
<1>2. CASE RowsOf(s, a) = {} /\ {i \in Rows : ~Used(s, i)} # {}
  <2>. DEFINE i == First({j \in Rows : ~Used(s, j)})
  <2>1. i \in Rows
    BY <1>2, RowFound
  <2>2. indicateRx(s, a, rssi) = [s EXCEPT !.table[i] = NewRow(a)]
    BY <1>2 DEF indicateRx
  <2>. HIDE DEF i
  <2>3. NewRow(a).addr # NoAddress
    BY RplAssumption DEF NewRow, UnusedRow
  <2>. QED
    BY <1>0, <2>1, <2>2, <2>3, ReplacedStays
<1>3. CASE RowsOf(s, a) = {} /\ {i \in Rows : ~Used(s, i)} = {}
  BY <1>3 DEF indicateRx, SameParent, RowsStay
<1>. QED
  BY <1>1, <1>2, <1>3

LEMMA TxStays ==
  ASSUME NEW s, Good(s), NEW a, NEW attempts, NEW acked
  PROVE  /\ SameParent(s, indicateTx(s, a, attempts, acked))
         /\ RowsStay(s, indicateTx(s, a, attempts, acked))
<1>1. CASE RowsOf(s, a) = {}
  BY <1>1 DEF indicateTx, SameParent, RowsStay
<1>2. CASE RowsOf(s, a) # {}
  <2>. DEFINE i == First(RowsOf(s, a))
  <2>1. i \in Rows /\ Used(s, i)
    BY <1>2, RowFound DEF RowsOf
  <2>2. indicateTx(s, a, attempts, acked) =
          [s EXCEPT !.table[i] = Sent(s.table[i], attempts, acked)]
    BY <1>2 DEF indicateTx
  <2>. HIDE DEF i
  <2>3. s.table[i] \in NeighborRows /\ s \in MoteStates
    BY <2>1 DEF Good, Fair, MoteStates
  <2>4. Sent(s.table[i], attempts, acked).addr # NoAddress
    BY <2>1, <2>3 DEF Sent, NeighborRows, Used
  <2>. QED
    BY <2>1, <2>2, <2>3, <2>4, ReplacedStays
<1>. QED
  BY <1>1, <1>2

LEMMA RxDIOFine ==
  ASSUME NEW s \in MoteStates, NEW h, Good(h), SameParent(s, h), RowsStay(s, h),
         NEW a \in Addresses, NEW rank \in Ranks
  PROVE  LET t == indicateRxDIO(h, a, rank) IN Gains(s, t) /\ Stays(s, t)
<1>1. CASE h.isDAGroot \/ RowsOf(h, a) = {}
  BY <1>1, SameIsFine DEF indicateRxDIO
<1>2. CASE ~(h.isDAGroot \/ RowsOf(h, a) = {})
  <2>. DEFINE i == First(RowsOf(h, a))
              noted == IF rank > h.table[i].DAGrank + Jump
                       THEN h.table[i].DAGrank + Jump ELSE rank
              row == [h.table[i] EXCEPT !.DAGrank = noted]
              u == [h EXCEPT !.table[i] = row]
  <2>0. h \in MoteStates
    BY DEF Good, Fair
  <2>1. i \in Rows /\ Used(h, i)
    BY <1>2, RowFound DEF RowsOf
  <2>2. h.table[i] \in NeighborRows /\ h.table[i].numTxACK <= h.table[i].numTx
    BY <2>1 DEF Good, Fair, Counted, MoteStates
  <2>3. indicateRxDIO(h, a, rank) =
          updateMyDAGrankAndParentSelection([h EXCEPT !.table[i].DAGrank = noted])
    BY <1>2 DEF indicateRxDIO
  <2>. HIDE DEF i
  <2>4. [h EXCEPT !.table[i].DAGrank = noted] = u
    BY <2>0, <2>1 DEF MoteStates
  <2>5. noted \in Ranks
    <3>1. DEFAULTLINKCOST * 2 \in Nat
      BY RplAssumption
    <3>2. Jump \in Nat
      BY <3>1, RplAssumption, Z3 DEF Jump
    <3>. QED
      BY <2>2, <3>2, RplAssumption DEF Ranks, NeighborRows
  <2>. HIDE DEF noted
  <2>6. row \in NeighborRows /\ row.numTxACK <= row.numTx /\ row.addr # NoAddress
    BY <2>1, <2>2, <2>5 DEF NeighborRows, Used
  <2>. HIDE DEF row
  <2>7. Fair(u) /\ SameParent(h, u) /\ RowsStay(h, u)
    BY <2>0, <2>1, <2>6, RowReplaced, ReplacedStays DEF Good
  <2>. HIDE DEF u
  <2>8. SameParent(s, u) /\ RowsStay(s, u)
    BY <2>7 DEF SameParent, RowsStay
  <2>. QED
    BY <2>3, <2>4, <2>7, <2>8, UpdateIsFine
<1>. QED
  BY <1>1, <1>2

LEMMA RoleFine ==
  ASSUME NEW s, Good(s), NEW newRole \in BOOLEAN
  PROVE  LET t == setIsDAGroot(s, newRole) IN Gains(s, t) /\ Stays(s, t)
<1>. DEFINE u == [s EXCEPT !.isDAGroot = newRole]
<1>1. /\ s \in MoteStates /\ u \in MoteStates /\ u.table = s.table
      /\ u.haveParent = s.haveParent /\ u.ParentIndex = s.ParentIndex
      /\ u.myDAGrank = s.myDAGrank
  BY DEF Good, Fair, MoteStates
<1>. HIDE DEF u
<1>2. Fair(u) /\ SameParent(s, u) /\ RowsStay(s, u)
  BY <1>1 DEF Good, Fair, Counted, Earned, SameParent, RowsStay, Used
<1>3. setIsDAGroot(s, newRole) = updateMyDAGrankAndParentSelection(u)
  BY DEF setIsDAGroot, u
<1>. QED
  BY <1>1, <1>2, <1>3, UpdateIsFine

-----------------------------------------------------------------------------
(* Maintenance.                                                            *)
-----------------------------------------------------------------------------

(* What removing rows does to the table, and to nothing else.              *)
LEMMA WithoutFields ==
  ASSUME NEW s \in MoteStates, NEW rows
  PROVE  LET w == Without(s, rows) IN
         /\ SameParent(s, w)
         /\ \A i \in Rows : w.table[i] = IF i \in rows THEN UnusedRow ELSE s.table[i]
BY DEF Without, MoteStates, SameParent

LEMMA KillFields ==
  ASSUME NEW s \in MoteStates
  PROVE  LET k == killPreferredParent(s) IN k.table = s.table /\ ~k.haveParent
BY DEF killPreferredParent, MoteStates

LEMMA UnusedHasNone == UnusedRow.addr = NoAddress
BY DEF UnusedRow

(* The parent is dropped, some rows are removed, and a parent is selected: *)
(* none, or one of the rows left that has a rank.                          *)
LEMMA Reselected ==
  ASSUME NEW s, Good(s), NEW rows
  PROVE  LET t == updateMyDAGrankAndParentSelection(
                    Without(killPreferredParent(s), rows))
         IN /\ Good(t)
            /\ \A i \in Rows : t.table[i] = IF i \in rows THEN UnusedRow ELSE s.table[i]
            /\ t.haveParent => /\ t.ParentIndex \in Rows
                               /\ Used(t, t.ParentIndex)
                               /\ t.table[t.ParentIndex].DAGrank # DEFAULTDAGRANK
<1>. DEFINE k == killPreferredParent(s)
            w == Without(k, rows)
            t == updateMyDAGrankAndParentSelection(w)
<1>1. Good(k) /\ k.table = s.table /\ ~k.haveParent
  BY KillGood, KillFields DEF Good, Fair
<1>. HIDE DEF k
<1>2. Good(w) /\ SameParent(k, w)
      /\ \A i \in Rows : w.table[i] = IF i \in rows THEN UnusedRow ELSE k.table[i]
  BY <1>1, WithoutGood, WithoutFields DEF Good, Fair
<1>. HIDE DEF w
<1>3. Good(t) /\ t.table = w.table /\ (SameParent(w, t) \/ BetterParent(w, t))
  BY <1>2, UpdateGood, UpdateParent DEF Good
<1>. HIDE DEF t
<1>4. t.haveParent => BetterParent(w, t)
  BY <1>1, <1>2, <1>3 DEF SameParent
<1>5. /\ Good(t)
      /\ \A i \in Rows : t.table[i] = IF i \in rows THEN UnusedRow ELSE s.table[i]
      /\ t.haveParent => /\ t.ParentIndex \in Rows
                         /\ Used(t, t.ParentIndex)
                         /\ t.table[t.ParentIndex].DAGrank # DEFAULTDAGRANK
  BY <1>1, <1>2, <1>3, <1>4 DEF BetterParent
<1>. QED
  BY <1>5 DEF t, w, k

(* After the first loop of maintenance the parent is the one before, or    *)
(* the one before has lost its row.                                        *)
LEMMA AgedFine ==
  ASSUME NEW s, Good(s), NEW old
  PROVE  LET t == removeAged(s, old) IN
         /\ Good(t) /\ Cut(s, t)
         /\ SameParent(s, t) \/ ~s.haveParent \/ ~Used(t, s.ParentIndex)
         /\ ~s.haveParent => ~t.haveParent
         /\ Stays(s, t)
<1>0. s \in MoteStates /\ s.ParentIndex \in Rows
  BY DEF Good, Fair, MoteStates
<1>1. CASE s.haveParent /\ s.ParentIndex \in old
  <2>. DEFINE t == updateMyDAGrankAndParentSelection(
                     Without(killPreferredParent(s), old))
  <2>1. removeAged(s, old) = t
    BY <1>1 DEF removeAged
  <2>2. /\ Good(t)
        /\ \A i \in Rows : t.table[i] = IF i \in old THEN UnusedRow ELSE s.table[i]
        /\ t.haveParent => Used(t, t.ParentIndex)
    BY Reselected
  <2>. HIDE DEF t
  <2>3. Cut(s, t)
    BY <2>2 DEF Cut
  <2>4. ~Used(t, s.ParentIndex)
    BY <1>0, <1>1, <2>2, UnusedHasNone DEF Used
  <2>. QED
    BY <1>1, <2>1, <2>2, <2>3, <2>4 DEF Stays
<1>2. CASE ~(s.haveParent /\ s.ParentIndex \in old)
  <2>. DEFINE t == Without(s, old)
  <2>1. removeAged(s, old) = t
    BY <1>2 DEF removeAged
  <2>2. Good(t) /\ Cut(s, t) /\ SameParent(s, t)
        /\ \A i \in Rows : t.table[i] = IF i \in old THEN UnusedRow ELSE s.table[i]
    BY <1>0, WithoutGood, WithoutCut, WithoutFields
  <2>. HIDE DEF t
  <2>3. Stays(s, t)
    BY <1>0, <1>2, <2>2 DEF Stays, SameParent, Used
  <2>. QED
    BY <2>1, <2>2, <2>3 DEF SameParent
<1>. QED
  BY <1>1, <1>2

(* After the last loop the same holds of it; a parent with a row keeps it, *)
(* if every neighbor with a rank is among the three of lowest rank.        *)
LEMMA OthersFine ==
  ASSUME NEW s, Good(s), NEW others, others \subseteq Rows
  PROVE  LET t == removeOthers(s, others) IN
         /\ SameParent(s, t) \/ ~s.haveParent \/ ~Used(t, s.ParentIndex)
         /\ ~s.haveParent => ~t.haveParent
         /\ Cut(s, t)
         /\ others \cap Ranked(s) = {} => Stays(s, t)
<1>0. s \in MoteStates /\ s.ParentIndex \in Rows
  BY DEF Good, Fair, MoteStates
<1>1. CASE s.haveParent /\ s.ParentIndex \in others
  <2>. DEFINE gone == {i \in others : i < s.ParentIndex}
              u == updateMyDAGrankAndParentSelection(
                     Without(killPreferredParent(s), gone))
              t == Without(u, others)
  <2>1. removeOthers(s, others) = t
    BY <1>1 DEF removeOthers
  <2>2. /\ Good(u)
        /\ \A i \in Rows : u.table[i] = IF i \in gone THEN UnusedRow ELSE s.table[i]
        /\ u.haveParent => /\ u.ParentIndex \in Rows
                           /\ Used(u, u.ParentIndex)
                           /\ u.table[u.ParentIndex].DAGrank # DEFAULTDAGRANK
    BY Reselected
  <2>. HIDE DEF u
  <2>3. /\ SameParent(u, t)
        /\ \A i \in Rows : t.table[i] = IF i \in others THEN UnusedRow ELSE u.table[i]
    BY <2>2, WithoutFields DEF Good, Fair
  <2>. HIDE DEF t
  <2>4. \A i \in Rows : t.table[i] = IF i \in others THEN UnusedRow ELSE s.table[i]
    BY <2>2, <2>3
  <2>5. ~Used(t, s.ParentIndex) /\ Cut(s, t)
    BY <1>0, <1>1, <2>4, UnusedHasNone DEF Used, Cut
  <2>6. ASSUME others \cap Ranked(s) = {}, t.haveParent
        PROVE  Used(t, t.ParentIndex)
    <3>1. u.haveParent /\ t.ParentIndex = u.ParentIndex
      BY <2>3, <2>6 DEF SameParent
    <3>2. u.ParentIndex \in Rows /\ u.table[u.ParentIndex] = s.table[u.ParentIndex]
      BY <2>2, <3>1, UnusedHasNone DEF Used
    <3>3. u.ParentIndex \in Ranked(s)
      BY <2>2, <3>1, <3>2 DEF Ranked, Used
    <3>4. u.ParentIndex \notin others
      BY <2>6, <3>3
    <3>. QED
      BY <2>2, <2>3, <3>1, <3>2, <3>4 DEF Used
  <2>. QED
    BY <1>1, <2>1, <2>5, <2>6 DEF Stays
<1>2. CASE ~(s.haveParent /\ s.ParentIndex \in others)
  <2>. DEFINE t == Without(s, others)
  <2>1. removeOthers(s, others) = t
    BY <1>2 DEF removeOthers
  <2>2. Cut(s, t) /\ SameParent(s, t)
        /\ \A i \in Rows : t.table[i] = IF i \in others THEN UnusedRow ELSE s.table[i]
    BY <1>0, WithoutCut, WithoutFields
  <2>. HIDE DEF t
  <2>3. Stays(s, t)
    BY <1>0, <1>2, <2>2 DEF Stays, SameParent, Used
  <2>. QED
    BY <2>1, <2>2, <2>3 DEF SameParent
<1>. QED
  BY <1>1, <1>2

(* Removing neighbors moves no neighbor with a rank up among the lowest    *)
(* three, nor down.                                                        *)
LEMMA FewerAhead ==
  ASSUME NEW s, NEW t, Cut(s, t), Ranked(s) = Lowest(s)
  PROVE  Ranked(t) = Lowest(t)
<1>1. \A i \in Ranked(t) : i \in Rows /\ t.table[i] = s.table[i] /\ i \in Ranked(s)
  BY UnusedHasNone DEF Cut, Ranked, Used
<1>2. ASSUME NEW i \in Ranked(t) PROVE AtMostTwo(Ahead(t, i))
  <2>1. Ahead(t, i) \subseteq Ahead(s, i)
    BY <1>1 DEF Ahead
  <2>2. AtMostTwo(Ahead(s, i))
    BY <1>1 DEF Lowest
  <2>. QED
    BY <2>1, <2>2 DEF AtMostTwo
<1>. QED
  BY <1>2 DEF Lowest

LEMMA MaintenanceFine ==
  ASSUME NEW s, Good(s), NEW old
  PROVE  LET t == removeOld(s, old)
         IN Gains(s, t) /\ (Ranked(s) = Lowest(s) => Stays(s, t))
<1>. DEFINE aged == removeAged(s, old)
            others == {i \in Rows : Used(aged, i)} \ Lowest(aged)
            t == removeOthers(aged, others)
<1>0. s \in MoteStates /\ s.ParentIndex \in Rows
  BY DEF Good, Fair, MoteStates
<1>1. /\ Good(aged) /\ Cut(s, aged)
      /\ SameParent(s, aged) \/ ~s.haveParent \/ ~Used(aged, s.ParentIndex)
      /\ ~s.haveParent => ~aged.haveParent
      /\ Stays(s, aged)
  BY AgedFine
<1>2. removeOld(s, old) = IF AtMostTwo(Ranked(aged)) THEN aged ELSE t
  BY DEF removeOld
<1>. HIDE DEF aged
<1>3. CASE AtMostTwo(Ranked(aged))
  <2>1. Gains(s, aged)
    BY <1>1 DEF Gains, SameParent
  <2>. QED
    BY <1>1, <1>2, <1>3, <2>1
<1>4. CASE ~AtMostTwo(Ranked(aged))
  <2>1. /\ SameParent(aged, t) \/ ~aged.haveParent \/ ~Used(t, aged.ParentIndex)
        /\ ~aged.haveParent => ~t.haveParent
        /\ Cut(aged, t)
        /\ others \cap Ranked(aged) = {} => Stays(aged, t)
    BY <1>1, OthersFine
  <2>2. Ranked(s) = Lowest(s) => others \cap Ranked(aged) = {}
    BY <1>1, FewerAhead
  <2>. HIDE DEF t, others
  <2>3. Gains(s, t)
    <3>1. CASE SameParent(s, aged)
      BY <2>1, <3>1 DEF Gains, SameParent
    <3>2. CASE ~Used(aged, s.ParentIndex)
      <4>1. ~Used(t, s.ParentIndex)
        BY <1>0, <2>1, <3>2, UnusedHasNone DEF Cut, Used
      <4>. QED
        BY <4>1 DEF Gains
    <3>. QED
      BY <1>1, <3>1, <3>2 DEF Gains
  <2>4. Ranked(s) = Lowest(s) => Stays(s, t)
    BY <1>1, <2>1, <2>2 DEF Stays
  <2>. QED
    BY <1>2, <1>4, <2>3, <2>4
<1>. QED
  BY <1>3, <1>4

-----------------------------------------------------------------------------
(* The theorems.                                                           *)
-----------------------------------------------------------------------------

LEMMA StepFine ==
  ASSUME Good(mote), Next
  PROVE  Gains(mote, mote') /\ (Ranked(mote) = Lowest(mote) => Stays(mote, mote'))
<1>0. mote \in MoteStates
  BY DEF Good, Fair
<1>1. CASE FrameReceived
  BY <1>0, <1>1, RxStays, SameIsFine DEF FrameReceived
<1>2. CASE DIOReceived
  <2>1. PICK a \in Addresses, rssi \in OfferedRssi, rank \in OfferedRanks :
          mote' = indicateRxDIO(indicateRx(mote, a, rssi), a, rank)
    BY <1>2 DEF DIOReceived
  <2>2. rank \in Ranks
    BY RplMoteAssumption
  <2>. DEFINE heard == indicateRx(mote, a, rssi)
  <2>3. Good(heard) /\ SameParent(mote, heard) /\ RowsStay(mote, heard)
    BY IndicateRxGood, RxStays
  <2>4. mote' = indicateRxDIO(heard, a, rank)
    BY <2>1
  <2>. HIDE DEF heard
  <2>. QED
    BY <1>0, <2>2, <2>3, <2>4, RxDIOFine
<1>3. CASE FrameSent
  BY <1>0, <1>3, TxStays, SameIsFine DEF FrameSent
<1>4. CASE Maintenance
  BY <1>4, MaintenanceFine DEF Maintenance
<1>5. CASE triggerAboutRoot
  BY <1>5, RoleFine, RplMoteAssumption DEF triggerAboutRoot
<1>. QED
  BY <1>1, <1>2, <1>3, <1>4, <1>5 DEF Next

(* A mote leaves a parent it still knows only for a gain of two hops,      *)
(* whatever frames, DIOs, maintenance and roles come.                      *)
THEOREM LeavesForGain == Spec => ChangesForGain
<1>1. IInv /\ [Next]_vars =>
        [ /\ mote.haveParent /\ mote'.haveParent
          /\ mote'.ParentIndex # mote.ParentIndex
          /\ Used(mote', mote.ParentIndex)
          => mote'.myDAGrank + 2 * MINHOPRANKINCREASE
               <= RankThrough(mote'.table[mote.ParentIndex]) ]_vars
  BY StepFine DEF IInv, Gains
<1>. QED
  BY <1>1, AlwaysGood, PTL DEF Spec, ChangesForGain

(* The parent's row stays in use, but for maintenance that finds more than *)
(* three neighbors with a rank.                                            *)
THEOREM ParentKept == Spec => KeepsParent
<1>1. IInv /\ [Next]_vars =>
        [ mote.haveParent /\ Used(mote, mote.ParentIndex)
          => \/ ~mote'.haveParent
             \/ Used(mote', mote'.ParentIndex)
             \/ Ranked(mote) # Lowest(mote) ]_vars
  BY StepFine DEF IInv, Stays
<1>. QED
  BY <1>1, AlwaysGood, PTL DEF Spec, KeepsParent
=============================================================================
