------------------------------ MODULE RplMote ------------------------------
(***************************************************************************)
(* One mote, its neighbor table and its choice of a parent, among          *)
(* neighbors that may send any frame and any DIO.                          *)
(*                                                                         *)
(* The actions are the callers of RplParent's operators: the tasks of      *)
(* sixtop for a frame received or sent and for maintenance                 *)
(* (openstack/02b-MAChigh/sixtop.c), the reception of a DIO, and the       *)
(* serial command that makes the mote root or not.                         *)
(***************************************************************************)
EXTENDS RplParent, FiniteSets

CONSTANTS
  OfferedRanks,     \* ranks in DIOs
  OfferedRssi,      \* signal strengths of frames
  NewRoles,         \* roles the serial port gives the mote
  MaxOld            \* neighbors that grow old from one maintenance to the next

ASSUME RplMoteAssumption ==
  /\ OfferedRanks \subseteq Ranks \ {DEFAULTDAGRANK}
  /\ OfferedRssi \subseteq Rssi
  /\ NewRoles \subseteq BOOLEAN
  /\ MaxOld \in Nat

VARIABLE mote
vars == mote

Init == \E isDAGroot \in BOOLEAN : mote = icmpv6rpl_init(isDAGroot)

(* task_sixtopNotifReceive, for a frame that is no DIO and for a DIO.      *)
FrameReceived ==
  \E a \in Addresses, rssi \in OfferedRssi : mote' = indicateRx(mote, a, rssi)

DIOReceived ==
  \E a \in Addresses, rssi \in OfferedRssi, rank \in OfferedRanks :
    mote' = indicateRxDIO(indicateRx(mote, a, rssi), a, rank)

(* task_sixtopNotifSendDone, for a unicast frame.                          *)
FrameSent ==
  \E a \in Addresses, attempts \in 0 .. MaxAttempts, acked \in BOOLEAN :
    /\ acked => attempts > 0
    /\ mote' = indicateTx(mote, a, attempts, acked)

(* timer_sixtop_management_fired, once in MAINTENANCE_PERIOD.              *)
Maintenance ==
  \E old \in SUBSET {i \in Rows : Used(mote, i)} :
    /\ Cardinality(old) <= MaxOld
    /\ mote' = removeOld(mote, old)

triggerAboutRoot == \E newRole \in NewRoles : mote' = setIsDAGroot(mote, newRole)

Next == \/ FrameReceived
        \/ DIOReceived
        \/ FrameSent
        \/ Maintenance
        \/ triggerAboutRoot

Spec == Init /\ [][Next]_vars

-----------------------------------------------------------------------------
TypeOK == mote \in MoteStates

Parent == mote.table[mote.ParentIndex]

(* More frames were sent to a neighbor than acknowledgments came back, as  *)
(* far as the two counters go that are halved together                     *)
(* (neighbors_indicateTx), so that a link never costs less than a hop.     *)
LinksCostAHop ==
  \A i \in Rows : /\ mote.table[i].numTxACK <= mote.table[i].numTx
                  /\ LinkMetric(mote.table[i]) >= MINHOPRANKINCREASE

(* No neighbor has two rows (registerNewNeighbor).                         *)
OneRowEach ==
  \A i, j \in Rows : Used(mote, i) /\ mote.table[i].addr = mote.table[j].addr
                     => i = j

(* The rank of a mote is above the rank it knows of its parent, through    *)
(* every change of links, ranks, parents and roles.  The exceptions: the   *)
(* mote is root, its rank is the largest already, or the parent's row has  *)
(* lost its neighbor, or got another one whose rank is not known yet       *)
(* (icmpv6rpl_updateMyDAGrankAndParentSelection, neighbors_removeOld).     *)
RankAboveParent ==
  mote.haveParent =>
    \/ mote.isDAGroot
    \/ mote.myDAGrank = DEFAULTDAGRANK
    \/ Parent.DAGrank = DEFAULTDAGRANK
    \/ Parent.DAGrank < mote.myDAGrank

(* Without a parent a mote has no rank, unless it is or was root           *)
(* (icmpv6rpl_killPreferredParent).                                        *)
RankNeedsParent ==
  \/ mote.haveParent
  \/ mote.myDAGrank \in {MINHOPRANKINCREASE, DEFAULTDAGRANK}

(* A mote goes from one parent to another it still knows only if it gains  *)
(* two hops, whatever became of the links meanwhile.                       *)
ChangesForGain ==
  [][ /\ mote.haveParent /\ mote'.haveParent
      /\ mote'.ParentIndex # mote.ParentIndex
      /\ Used(mote', mote.ParentIndex)
      => mote'.myDAGrank + 2 * MINHOPRANKINCREASE
           <= RankThrough(mote'.table[mote.ParentIndex]) ]_vars

(* When a neighbor's rank has changed, no stable neighbor is left that     *)
(* would give the mote a rank lower by two hops or more.                   *)
TakesTheBest ==
  [][ (\E i \in Rows : /\ mote'.table[i].addr = mote.table[i].addr
                       /\ mote'.table[i].DAGrank # mote.table[i].DAGrank)
      => Candidates(mote', mote'.myDAGrank) = {} ]_vars

(* The parent's row keeps its neighbor as long as the mote has that parent,*)
(* but for maintenance that finds more than three neighbors with a rank.   *)
KeepsParent ==
  [][ mote.haveParent /\ Used(mote, mote.ParentIndex)
      => \/ ~mote'.haveParent
         \/ Used(mote', mote'.ParentIndex)
         \/ Ranked(mote) # Lowest(mote) ]_vars

(* A preferred parent is a neighbor in use (neighbors_getKANeighbor).      *)
ParentIsNeighbor == mote.haveParent => Used(mote, mote.ParentIndex)

(* The rank of a root is MINHOPRANKINCREASE                                *)
(* (icmpv6rpl_updateMyDAGrankAndParentSelection).                          *)
RootRank == mote.isDAGroot => mote.myDAGrank = MINHOPRANKINCREASE
=============================================================================
