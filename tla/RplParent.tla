----------------------------- MODULE RplParent -----------------------------
(***************************************************************************)
(* How a mote knows its neighbors and chooses its routing parent, as       *)
(* operators over the state of one mote: the table of                      *)
(* openstack/02b-MAChigh/neighbors.c and the rank and parent of            *)
(* openstack/03b-IPv6/icmpv6rpl.c.                                         *)
(*                                                                         *)
(* All of it runs in tasks, except when the serial port makes the mote     *)
(* root, which runs with interrupts masked: each operation is one operator *)
(* from the old state to the new one.  Times are left out: which neighbors *)
(* have not been heard for DESYNCTIMEOUT slots is a parameter.  Left out   *)
(* too are f6PNORES, which nothing sets, the fields that only 6P and the   *)
(* join process use, and the rank increase and the preferred-parent flag,  *)
(* which nothing reads.                                                    *)
(***************************************************************************)
EXTENDS Integers

CONSTANTS
  Addresses,               \* of the neighbors
  NoAddress,               \* of a row that is not used
  MAXNUMNEIGHBORS,
  MINHOPRANKINCREASE,
  DEFAULTLINKCOST,
  DEFAULTDAGRANK,          \* the largest rank: unknown, or infinite
  SWITCHSTABILITYTHRESHOLD,
  NUMTXMAX,                \* the largest value of numTx, a byte
  MaxAttempts              \* the most transmissions of a frame

ASSUME RplAssumption ==
  /\ NoAddress \notin Addresses
  /\ MAXNUMNEIGHBORS \in Nat \ {0}
  /\ MINHOPRANKINCREASE \in Nat \ {0}
  /\ DEFAULTLINKCOST \in Nat \ {0}
  /\ DEFAULTDAGRANK \in Nat /\ DEFAULTDAGRANK >= 2 * MINHOPRANKINCREASE
  /\ SWITCHSTABILITYTHRESHOLD \in Nat \ {0}
  /\ NUMTXMAX \in Nat /\ MaxAttempts \in Nat \ {0}
  /\ MaxAttempts + NUMTXMAX \div 2 <= NUMTXMAX

Rows  == 0 .. MAXNUMNEIGHBORS - 1
Ranks == 0 .. DEFAULTDAGRANK
Rssi  == {"bad", "fair", "good"}   \* below -90 dBm, between, above -80 dBm

NeighborRows ==
  [addr : Addresses \cup {NoAddress}, stable : BOOLEAN,
   switches : 0 .. SWITCHSTABILITYTHRESHOLD - 1, DAGrank : Ranks,
   numTx : 0 .. NUMTXMAX, numTxACK : 0 .. NUMTXMAX]

(* The row that removeNeighbor leaves.  The rows that have had no neighbor  *)
(* yet differ from it in their rank, which nothing reads.                  *)
UnusedRow == [addr |-> NoAddress, stable |-> FALSE, switches |-> 0,
              DAGrank |-> DEFAULTDAGRANK, numTx |-> 0, numTxACK |-> 0]
NewRow(a) == [UnusedRow EXCEPT !.addr = a, !.stable = TRUE]

MoteStates == [table : [Rows -> NeighborRows], isDAGroot : BOOLEAN,
               haveParent : BOOLEAN, ParentIndex : Rows, myDAGrank : Ranks]

(* icmpv6rpl_init, neighbors_init.                                         *)
icmpv6rpl_init(isDAGroot) ==
  [table |-> [i \in Rows |-> UnusedRow], isDAGroot |-> isDAGroot,
   haveParent |-> FALSE, ParentIndex |-> 0,
   myDAGrank |-> IF isDAGroot THEN MINHOPRANKINCREASE ELSE DEFAULTDAGRANK]

Used(s, i) == s.table[i].addr # NoAddress
RowsOf(s, a) == {i \in Rows : s.table[i].addr = a /\ Used(s, i)}
First(S) == CHOOSE i \in S : \A j \in S : i <= j

-----------------------------------------------------------------------------
(* Mutant: one hop too many is taken off.                                  *)
LinkMetricLow(row) ==
  LET increase == (3 * row.numTx * MINHOPRANKINCREASE) \div row.numTxACK
                  - 3 * MINHOPRANKINCREASE
  IN IF row.numTxACK = 0 THEN (3 * DEFAULTLINKCOST - 2) * MINHOPRANKINCREASE
     ELSE IF increase > DEFAULTDAGRANK THEN DEFAULTDAGRANK ELSE increase

(* neighbors_getLinkMetric: 3 * ETX - 2 hops.  The code computes with ten  *)
(* more bits and drops them, which comes to the same.                      *)
LinkMetric(row) ==
  LET increase == (3 * row.numTx * MINHOPRANKINCREASE) \div row.numTxACK
                  - 2 * MINHOPRANKINCREASE
  IN IF row.numTxACK = 0 THEN (3 * DEFAULTLINKCOST - 2) * MINHOPRANKINCREASE
     ELSE IF increase > DEFAULTDAGRANK THEN DEFAULTDAGRANK ELSE increase

(* The rank of a mote whose parent is in this row.                         *)
RankThrough(row) ==
  IF row.DAGrank + LinkMetric(row) > DEFAULTDAGRANK THEN DEFAULTDAGRANK
  ELSE row.DAGrank + LinkMetric(row)

(* Mutant: one hop is enough.                                              *)
CandidatesByOne(s, rank) ==
  {i \in Rows : /\ Used(s, i) /\ s.table[i].stable
                /\ s.table[i].DAGrank # DEFAULTDAGRANK
                /\ RankThrough(s.table[i]) + MINHOPRANKINCREASE <= rank}

(* The rows of neighbors that are worth a change of parent, for a mote of  *)
(* this rank.                                                              *)
Candidates(s, rank) ==
  {i \in Rows : /\ Used(s, i) /\ s.table[i].stable
                /\ s.table[i].DAGrank # DEFAULTDAGRANK
                /\ RankThrough(s.table[i]) + 2 * MINHOPRANKINCREASE <= rank}

(* Mutant: the first neighbor that is better is taken.                     *)
BestFirst(s, candidates) == First(candidates)

(* The first row of those that give the lowest rank.                       *)
Best(s, candidates) ==
  First({i \in candidates : \A j \in candidates :
           RankThrough(s.table[i]) <= RankThrough(s.table[j])})

(* Mutant: the rank of a mote that keeps its parent stays as it was.       *)
SelectParentStale(s) ==
  LET best == Best(s, Candidates(s, s.myDAGrank))
  IN IF Candidates(s, s.myDAGrank) = {} THEN s
     ELSE [s EXCEPT !.haveParent = TRUE, !.ParentIndex = best,
                    !.myDAGrank = RankThrough(s.table[best])]

(* The rank follows that of the parent, then a neighbor that is better by  *)
(* two hops or more becomes the parent.                                    *)
SelectParent(s) ==
  LET rank == IF s.haveParent THEN RankThrough(s.table[s.ParentIndex])
              ELSE s.myDAGrank
      best == Best(s, Candidates(s, rank))
  IN IF Candidates(s, rank) = {} THEN [s EXCEPT !.myDAGrank = rank]
     ELSE [s EXCEPT !.haveParent = TRUE, !.ParentIndex = best,
                    !.myDAGrank = RankThrough(s.table[best])]

(* A root whose rank is already right goes on to look for a parent.        *)
updateMyDAGrankAndParentSelection(s) ==
  IF s.isDAGroot /\ s.myDAGrank # MINHOPRANKINCREASE
  THEN [s EXCEPT !.myDAGrank = MINHOPRANKINCREASE]
  ELSE SelectParent(s)

killPreferredParent(s) ==
  [s EXCEPT !.haveParent = FALSE,
            !.myDAGrank = IF s.isDAGroot THEN MINHOPRANKINCREASE
                          ELSE DEFAULTDAGRANK]

-----------------------------------------------------------------------------
(* neighbors_indicateRx: a link changes between stable and not after so    *)
(* many frames in a row; a neighbor that finds no free row is not known.   *)
Stability(row, rssi) ==
  LET counts == rssi = (IF row.stable THEN "bad" ELSE "good")
      enough == row.switches + 1 = SWITCHSTABILITYTHRESHOLD
  IN CASE ~counts           -> [row EXCEPT !.switches = 0]
       [] counts /\ enough  -> [row EXCEPT !.switches = 0, !.stable = ~row.stable]
       [] counts /\ ~enough -> [row EXCEPT !.switches = row.switches + 1]

indicateRx(s, a, rssi) ==
  LET free == {i \in Rows : ~Used(s, i)} IN
  CASE RowsOf(s, a) # {} ->
         [s EXCEPT !.table[First(RowsOf(s, a))] = Stability(@, rssi)]
    [] RowsOf(s, a) = {} /\ free # {} ->
         [s EXCEPT !.table[First(free)] = NewRow(a)]
    [] OTHER -> s

(* neighbors_indicateTx: both counters are halved before numTx overflows.  *)
Sent(row, attempts, acked) ==
  LET scale == IF row.numTx > NUMTXMAX - attempts THEN 2 ELSE 1
  IN [row EXCEPT !.numTx = @ \div scale + attempts,
                 !.numTxACK = @ \div scale + (IF acked THEN 1 ELSE 0)]

indicateTx(s, a, attempts, acked) ==
  IF RowsOf(s, a) = {} THEN s
  ELSE [s EXCEPT !.table[First(RowsOf(s, a))] = Sent(@, attempts, acked)]

Jump == DEFAULTLINKCOST * 2 * MINHOPRANKINCREASE

(* Mutant: a rank that is higher than the known one is not let in.         *)
indicateRxDIOLower(s, a, rank) ==
  LET i == First(RowsOf(s, a))
      noted == IF rank > s.table[i].DAGrank THEN s.table[i].DAGrank ELSE rank
  IN IF s.isDAGroot \/ RowsOf(s, a) = {} THEN s
     ELSE updateMyDAGrankAndParentSelection([s EXCEPT !.table[i].DAGrank = noted])

(* icmpv6rpl_receive and icmpv6rpl_indicateRxDIO: a root ignores DIOs, and *)
(* a rank that jumps is only let in step by step.                          *)
indicateRxDIO(s, a, rank) ==
  LET i == First(RowsOf(s, a))
      known == s.table[i].DAGrank
      noted == IF rank > known + Jump THEN known + Jump ELSE rank
  IN IF s.isDAGroot \/ RowsOf(s, a) = {} THEN s
     ELSE updateMyDAGrankAndParentSelection([s EXCEPT !.table[i].DAGrank = noted])

-----------------------------------------------------------------------------
Without(s, rows) ==
  [s EXCEPT !.table = [i \in Rows |-> IF i \in rows THEN UnusedRow
                                      ELSE s.table[i]]]

(* Mutant: old neighbors are removed whether one is the parent or not.     *)
removeAgedBlindly(s, old) == Without(s, old)

(* The first loop of neighbors_removeOld, in one step: if the parent is    *)
(* old, whatever old neighbor is selected while the loop goes on is        *)
(* removed in turn, until one is selected that stays.                      *)
removeAged(s, old) ==
  IF s.haveParent /\ s.ParentIndex \in old
  THEN updateMyDAGrankAndParentSelection(Without(killPreferredParent(s), old))
  ELSE Without(s, old)

(* The three neighbors of lowest rank, the first rows if ranks are equal;  *)
(* none if fewer have a rank.                                              *)
Ranked(s) == {i \in Rows : Used(s, i) /\ s.table[i].DAGrank # DEFAULTDAGRANK}
Ahead(s, i) ==
  {j \in Ranked(s) : \/ s.table[j].DAGrank < s.table[i].DAGrank
                     \/ s.table[j].DAGrank = s.table[i].DAGrank /\ j < i}
AtMostTwo(S) == \A i, j, k \in S : i = j \/ j = k \/ i = k
Lowest(s) == {i \in Ranked(s) : AtMostTwo(Ahead(s, i))}

(* The last loop, in one step: all other neighbors are removed.  When it   *)
(* comes to the parent it selects again, with the rows up to there gone    *)
(* but the parent's own, which it removes afterwards.  If it then comes to *)
(* the row selected, it selects the same again.                            *)
removeOthers(s, others) ==
  IF s.haveParent /\ s.ParentIndex \in others
  THEN LET gone == {i \in others : i < s.ParentIndex}
       IN Without(updateMyDAGrankAndParentSelection(
                    Without(killPreferredParent(s), gone)), others)
  ELSE Without(s, others)

removeOld(s, old) ==
  LET aged == removeAged(s, old)
  IN IF AtMostTwo(Ranked(aged)) THEN aged
     ELSE removeOthers(aged, {i \in Rows : Used(aged, i)} \ Lowest(aged))

(* idmanager_setIsDAGroot.                                                 *)
setIsDAGroot(s, newRole) ==
  updateMyDAGrankAndParentSelection([s EXCEPT !.isDAGroot = newRole])
=============================================================================
