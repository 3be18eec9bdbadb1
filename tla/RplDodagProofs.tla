-------------------------- MODULE RplDodagProofs ---------------------------
(***************************************************************************)
(* Proofs about RplDodag, for every set of motes, whoever hears whom and   *)
(* sends frames to whom, and whatever became of each DIO.                  *)
(***************************************************************************)
EXTENDS RplDodag, RplParentProofs

(* The inductive invariant: the state of every mote is good and none is    *)
(* root, and a DIO holds a rank.                                           *)
DodagInv ==
  /\ mote \in [Motes -> MoteStates]
  /\ \A m \in Motes : Good(mote[m]) /\ ~mote[m].isDAGroot
  /\ dio \in [Addresses -> Ranks]

-----------------------------------------------------------------------------
(* No operation makes a mote root.                                         *)
-----------------------------------------------------------------------------

LEMMA RolesStay ==
  ASSUME NEW s \in MoteStates
  PROVE  /\ updateMyDAGrankAndParentSelection(s).isDAGroot = s.isDAGroot
         /\ \A a, rssi : indicateRx(s, a, rssi).isDAGroot = s.isDAGroot
         /\ \A a, n, acked : indicateTx(s, a, n, acked).isDAGroot = s.isDAGroot
<1>1. updateMyDAGrankAndParentSelection(s).isDAGroot = s.isDAGroot
  BY DEF updateMyDAGrankAndParentSelection, SelectParent, MoteStates
<1>2. ASSUME NEW i, NEW row
      PROVE  [s EXCEPT !.table[i] = row].isDAGroot = s.isDAGroot
  BY DEF MoteStates
<1>3. ASSUME NEW a, NEW rssi
      PROVE  indicateRx(s, a, rssi).isDAGroot = s.isDAGroot
  <2>1. \/ indicateRx(s, a, rssi) = s
        \/ \E i, row : indicateRx(s, a, rssi) = [s EXCEPT !.table[i] = row]
    BY DEF indicateRx
  <2>. QED
    BY <1>2, <2>1
<1>4. ASSUME NEW a, NEW n, NEW acked
      PROVE  indicateTx(s, a, n, acked).isDAGroot = s.isDAGroot
  <2>1. \/ indicateTx(s, a, n, acked) = s
        \/ \E i, row : indicateTx(s, a, n, acked) = [s EXCEPT !.table[i] = row]
    BY DEF indicateTx
  <2>. QED
    BY <1>2, <2>1
<1>. QED
  BY <1>1, <1>3, <1>4

LEMMA RxDIORoleStays ==
  ASSUME NEW s, Good(s), ~s.isDAGroot, NEW a \in Addresses, NEW rank \in Ranks
  PROVE  ~indicateRxDIO(s, a, rank).isDAGroot
<1>1. CASE RowsOf(s, a) = {}
  BY <1>1 DEF indicateRxDIO
<1>2. CASE RowsOf(s, a) # {}
  <2>1. PICK i \in Rows, row \in NeighborRows :
          Noted(s, i, row, indicateRxDIO(s, a, rank))
    BY <1>2, RxDIONoted
  <2>. DEFINE u == [s EXCEPT !.table[i] = row]
  <2>2. u \in MoteStates /\ ~u.isDAGroot
    BY DEF Good, Fair, MoteStates
  <2>. HIDE DEF u
  <2>3. ~updateMyDAGrankAndParentSelection(u).isDAGroot
    BY <2>2, RolesStay
  <2>. QED
    BY <2>1, <2>3 DEF u, Noted
<1>. QED
  BY <1>1, <1>2

-----------------------------------------------------------------------------
(* The specification.                                                      *)
-----------------------------------------------------------------------------

LEMMA JoinedGood ==
  ASSUME NEW m \in Motes
  PROVE  Good(Joined(m)) /\ ~Joined(m).isDAGroot
<1>. DEFINE fresh == icmpv6rpl_init(FALSE)
            table == [i \in Rows |-> IF i < Len(FirstHeard[m])
                                     THEN NewRow(FirstHeard[m][i + 1])
                                     ELSE UnusedRow]
            s == [fresh EXCEPT !.table = table]
<1>1. ASSUME NEW i \in Rows
      PROVE  table[i] \in NeighborRows /\ table[i].numTxACK <= table[i].numTx
  <2>1. FirstHeard[m] \in Seq(Addresses)
    BY RplDodagAssumption
  <2>2. i < Len(FirstHeard[m]) => FirstHeard[m][i + 1] \in Addresses
    <3>1. i \in Nat
      BY RplAssumption DEF Rows
    <3>. QED
      BY <2>1, <3>1
  <2>. QED
    BY <2>2, NewRowTyped, UnusedRowTyped
<1>2. table \in [Rows -> NeighborRows]
  BY <1>1
<1>. HIDE DEF table
<1>3. fresh \in MoteStates /\ ~fresh.isDAGroot /\ ~fresh.haveParent
      /\ fresh.myDAGrank = DEFAULTDAGRANK
  BY FreshGood DEF Good, Fair, icmpv6rpl_init
<1>. HIDE DEF fresh
<1>4. /\ s \in MoteStates /\ s.table = table /\ ~s.isDAGroot /\ ~s.haveParent
      /\ s.myDAGrank = DEFAULTDAGRANK
  BY <1>2, <1>3 DEF MoteStates
<1>5. Joined(m) = s
  BY DEF Joined, fresh, table
<1>. HIDE DEF s
<1>6. Good(s)
  BY <1>1, <1>4 DEF Good, Fair, Sound, Earned, Counted
<1>. QED
  BY <1>4, <1>5, <1>6

LEMMA InitDodag == Init => DodagInv
BY JoinedGood, RplAssumption DEF Init, DodagInv, Good, Fair, Ranks

LEMMA NextDodag == DodagInv /\ [Next]_vars => DodagInv'
<1>. SUFFICES ASSUME DodagInv, [Next]_vars PROVE DodagInv'
  OBVIOUS
<1>1. ASSUME NEW n \in Addresses, sendDIO(n) PROVE DodagInv'
  <2>1. MyDAGrank(n) \in Ranks
    BY RplAssumption DEF DodagInv, MyDAGrank, Motes, Good, Fair, MoteStates, Ranks
  <2>. QED
    BY <1>1, <2>1 DEF sendDIO, DodagInv
<1>2. ASSUME NEW n \in Addresses, NEW hearers, DIOSent(n, hearers) PROVE DodagInv'
  <2>1. dio[n] \in Ranks
    BY DEF DodagInv
  <2>2. ASSUME NEW m \in Motes PROVE Good(mote'[m]) /\ ~mote'[m].isDAGroot
    <3>. DEFINE heard == indicateRx(mote[m], n, "good")
    <3>1. Good(mote[m]) /\ ~mote[m].isDAGroot /\ mote[m] \in MoteStates
      BY DEF DodagInv, Good, Fair
    <3>2. mote'[m] = IF m \in hearers THEN indicateRxDIO(heard, n, dio[n])
                     ELSE mote[m]
      BY <1>2 DEF DIOSent
    <3>3. Good(heard) /\ ~heard.isDAGroot
      BY <3>1, IndicateRxGood, RolesStay
    <3>. HIDE DEF heard
    <3>4. Good(indicateRxDIO(heard, n, dio[n]))
          /\ ~indicateRxDIO(heard, n, dio[n]).isDAGroot
      BY <2>1, <3>3, RxDIOGood, RxDIORoleStays
    <3>. QED
      BY <3>1, <3>2, <3>4
  <2>3. dio' \in [Addresses -> Ranks]
    BY <1>2, RplAssumption DEF DIOSent, DodagInv, Ranks
  <2>4. mote' \in [Motes -> MoteStates]
    <3>1. \A m \in Motes : mote'[m] \in MoteStates
      BY <2>2 DEF Good, Fair
    <3>. QED
      BY <1>2, <3>1 DEF DIOSent
  <2>. QED
    BY <2>2, <2>3, <2>4 DEF DodagInv
<1>3. ASSUME NEW k \in Motes, NEW n \in Addresses, NEW acked \in BOOLEAN,
             FrameSent(k, n, acked)
      PROVE  DodagInv'
  <2>. DEFINE sent == indicateTx(mote[k], n, MaxAttempts, acked)
  <2>1. Good(mote[k]) /\ ~mote[k].isDAGroot /\ mote[k] \in MoteStates
    BY DEF DodagInv, Good, Fair
  <2>2. MaxAttempts \in 0 .. MaxAttempts /\ MaxAttempts > 0
    BY RplAssumption
  <2>3. Good(sent) /\ ~sent.isDAGroot
    BY <2>1, <2>2, IndicateTxGood, RolesStay
  <2>4. mote' = [mote EXCEPT ![k] = sent] /\ dio' = dio
    BY <1>3 DEF FrameSent
  <2>. HIDE DEF sent
  <2>. QED
    BY <2>3, <2>4 DEF DodagInv, Good, Fair
<1>4. CASE UNCHANGED vars
  BY <1>4 DEF vars, DodagInv
<1>. QED
  <2>1. ASSUME SendsFrame PROVE DodagInv'
    <3>1. PICK link \in Unicasts, acked \in BOOLEAN :
            FrameSent(link[1], link[2], acked)
      BY <2>1 DEF SendsFrame
    <3>2. link[1] \in Motes /\ link[2] \in Addresses
      BY RplDodagAssumption
    <3>. QED
      BY <1>3, <3>1, <3>2
  <2>. QED
    BY <1>1, <1>2, <1>4, <2>1 DEF Next, SendDIO, SendsDIO

LEMMA AlwaysDodag == Spec => []DodagInv
BY InitDodag, NextDodag, PTL DEF Spec

(* The tables, parents and ranks of all motes, and the ranks in the DIOs,  *)
(* keep their types.                                                       *)
THEOREM DodagTyped == Spec => []TypeOK
<1>1. DodagInv => TypeOK
  BY DEF DodagInv, TypeOK
<1>. QED
  BY <1>1, AlwaysDodag, PTL

-----------------------------------------------------------------------------
(* Circles of parents.                                                     *)
-----------------------------------------------------------------------------

All == Addresses \cup {NoAddress}
Closed(T) == \A m \in T \cap Motes : mote[m].haveParent => ParentOf(m) \in T

(* What is upwards of S has S and is closed, and every closed set that has *)
(* S has all of it.                                                        *)
LEMMA UpwardsIsLeast ==
  ASSUME DodagInv, NEW S \in SUBSET All
  PROVE  /\ S \subseteq Upwards(S) /\ Upwards(S) \subseteq All
         /\ Closed(Upwards(S))
         /\ \A T \in SUBSET All : S \subseteq T /\ Closed(T) => Upwards(S) \subseteq T
<1>1. Upwards(S) = {a \in All : \A T \in SUBSET All :
                                 S \subseteq T /\ Closed(T) => a \in T}
  BY DEF Upwards, All, Closed
<1>2. Closed(Upwards(S))
  <2>1. SUFFICES ASSUME NEW m \in Upwards(S) \cap Motes, mote[m].haveParent
                 PROVE  ParentOf(m) \in Upwards(S)
    BY DEF Closed
  <2>2. ParentOf(m) \in All
    <3>1. mote[m].ParentIndex \in Rows /\ mote[m].table \in [Rows -> NeighborRows]
      BY DEF DodagInv, MoteStates
    <3>. QED
      BY <3>1 DEF ParentOf, NeighborRows, All
  <2>3. ASSUME NEW T \in SUBSET All, S \subseteq T, Closed(T)
        PROVE  ParentOf(m) \in T
    <3>1. m \in T
      BY <1>1, <2>3
    <3>. QED
      BY <2>1, <2>3, <3>1 DEF Closed
  <2>. QED
    BY <1>1, <2>2, <2>3
<1>. QED
  BY <1>1, <1>2

(* A mote's rank is above that of its parent if it has one, and knows what *)
(* the rank of its parent is.                                              *)
Knows(m) ==
  /\ mote[m].myDAGrank # DEFAULTDAGRANK
  /\ mote[ParentOf(m)].myDAGrank # DEFAULTDAGRANK
  /\ mote[m].table[mote[m].ParentIndex].DAGrank = mote[ParentOf(m)].myDAGrank

LEMMA RankBelow ==
  ASSUME DodagInv, NEW m \in Motes, mote[m].haveParent, ParentOf(m) \in Motes,
         Knows(m)
  PROVE  mote[ParentOf(m)].myDAGrank < mote[m].myDAGrank
BY DEF DodagInv, Good, Sound, Knows

(* Around a circle of motes that know their parents' ranks, the ranks      *)
(* would grow all the way round.                                           *)
LEMMA LoopStale == DodagInv => LoopsAreStale
<1>. SUFFICES ASSUME DodagInv, NEW m \in Motes, InLoop(m),
                     \A n \in Loop(m) \cap Motes :
                       /\ mote[n].myDAGrank # DEFAULTDAGRANK
                       /\ \/ ParentOf(n) = Root
                          \/ mote[n].table[mote[n].ParentIndex].DAGrank
                               = mote[ParentOf(n)].myDAGrank
              PROVE  FALSE
  BY DEF LoopsAreStale
<1>. DEFINE P == ParentOf(m)
            rank(n) == mote[n].myDAGrank
            T == {n \in Loop(m) : n \in Motes => P \in Motes /\ rank(n) <= rank(P)}
<1>1. mote[m].haveParent /\ m \in Loop(m)
  BY DEF InLoop
<1>2. P \in All
  <2>1. mote[m].ParentIndex \in Rows /\ mote[m].table \in [Rows -> NeighborRows]
    BY DEF DodagInv, MoteStates
  <2>. QED
    BY <2>1 DEF ParentOf, NeighborRows, All
<1>3. /\ P \in Loop(m) /\ Loop(m) \subseteq All /\ Closed(Loop(m))
      /\ \A C \in SUBSET All : P \in C /\ Closed(C) => Loop(m) \subseteq C
  <2>1. {P} \in SUBSET All /\ Loop(m) = Upwards({P})
    BY <1>2 DEF Loop
  <2>. QED
    BY <2>1, UpwardsIsLeast
<1>4. \A n \in Motes : rank(n) \in Int
  BY RplAssumption DEF DodagInv, MoteStates, Ranks
<1>5. ASSUME NEW n \in Loop(m) \cap Motes, mote[n].haveParent, ParentOf(n) \in Motes
      PROVE  rank(ParentOf(n)) < rank(n)
  <2>1. ParentOf(n) \in Loop(m) /\ ParentOf(n) # Root
    BY <1>3, <1>5 DEF Closed, Motes
  <2>2. Knows(n)
    BY <1>5, <2>1 DEF Knows
  <2>. QED
    BY <1>5, <2>2, RankBelow
<1>6. P \in T
  BY <1>3, <1>4
<1>7. Closed(T)
  <2>1. SUFFICES ASSUME NEW n \in T \cap Motes, mote[n].haveParent
                 PROVE  ParentOf(n) \in T
    BY DEF Closed
  <2>2. ParentOf(n) \in Loop(m)
    BY <1>3, <2>1 DEF Closed
  <2>3. ASSUME ParentOf(n) \in Motes
        PROVE  P \in Motes /\ rank(ParentOf(n)) <= rank(P)
    <3>1. rank(ParentOf(n)) < rank(n) /\ rank(n) <= rank(P) /\ P \in Motes
      BY <1>5, <2>1, <2>3
    <3>. QED
      BY <1>4, <2>3, <3>1
  <2>. QED
    BY <2>2, <2>3
<1>8. m \in T
  <2>1. T \in SUBSET All
    BY <1>3
  <2>. QED
    BY <1>1, <1>3, <1>6, <1>7, <2>1
<1>9. P \in Motes /\ rank(m) <= rank(P)
  BY <1>8
<1>10. rank(P) < rank(m)
  BY <1>1, <1>5, <1>9
<1>. QED
  BY <1>4, <1>9, <1>10

(* Motes that follow their parents in a circle have not heard of each      *)
(* other's ranks yet.                                                      *)
THEOREM CirclesAreStale == Spec => []LoopsAreStale
BY AlwaysDodag, LoopStale, PTL
=============================================================================
