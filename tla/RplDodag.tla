------------------------------ MODULE RplDodag ------------------------------
(***************************************************************************)
(* The motes of one network, each with its neighbor table and its parent   *)
(* (RplParent), and the DIOs they send each other.                         *)
(*                                                                         *)
(* A DIO holds the rank its sender had when sendDIO built it; it waits in  *)
(* the sender's queue for a slot, and whoever hears it then takes it in.   *)
(* The root has no parent (RplMote), so all there is of it is its DIO.     *)
(***************************************************************************)
EXTENDS RplParent, Sequences

CONSTANTS
  Root,
  Hears,            \* pairs <<m, n>>: m is in reach of n
  Unicasts,         \* pairs <<m, n>>: m sends n unicast frames
  FirstHeard        \* the neighbors each mote heard first, in that order

Motes == Addresses \ {Root}

ASSUME RplDodagAssumption ==
  /\ Root \in Addresses
  /\ Hears \subseteq Motes \X Addresses
  /\ Unicasts \subseteq Motes \X Addresses
  /\ FirstHeard \in [Motes -> Seq(Addresses)]
  /\ \A m \in Motes : \A i, j \in DOMAIN FirstHeard[m] :
       FirstHeard[m][i] = FirstHeard[m][j] => i = j

VARIABLES
  mote,             \* state of each mote
  dio               \* rank in the DIO in the queue of each, 0 if none is

vars == <<mote, dio>>

(* Motes have heard EBs before one of them has a rank: each neighbor got   *)
(* the first row that was free, as long as one was (indicateRx).           *)
Joined(m) ==
  [icmpv6rpl_init(FALSE) EXCEPT !.table =
     [i \in Rows |-> IF i < Len(FirstHeard[m]) THEN NewRow(FirstHeard[m][i + 1])
                     ELSE UnusedRow]]

Init == /\ mote = [m \in Motes |-> Joined(m)]
        /\ dio = [n \in Addresses |-> 0]

MyDAGrank(n) == IF n = Root THEN MINHOPRANKINCREASE ELSE mote[n].myDAGrank

(* sendDIO: not without a rank, nor while the last DIO is still in queue.  *)
sendDIO(n) ==
  /\ MyDAGrank(n) # DEFAULTDAGRANK
  /\ dio[n] = 0
  /\ dio' = [dio EXCEPT ![n] = MyDAGrank(n)]
  /\ UNCHANGED mote

(* The DIO is sent, and each mote that hears it takes it in                *)
(* (task_sixtopNotifReceive, icmpv6rpl_receive).                           *)
DIOSent(n, hearers) ==
  /\ dio[n] # 0
  /\ mote' = [m \in Motes |->
                IF m \in hearers
                THEN indicateRxDIO(indicateRx(mote[m], n, "good"), n, dio[n])
                ELSE mote[m]]
  /\ dio' = [dio EXCEPT ![n] = 0]

(* A unicast frame to a neighbor, and what sixtop notes of it.             *)
FrameSent(m, n, acked) ==
  /\ mote' = [mote EXCEPT ![m] = indicateTx(@, n, MaxAttempts, acked)]
  /\ UNCHANGED dio

Hearers(n) == {m \in Motes : <<m, n>> \in Hears}

SendDIO    == \E n \in Addresses : sendDIO(n)
SendsDIO   == \E n \in Addresses : \E hearers \in SUBSET Hearers(n) :
                DIOSent(n, hearers)
SendsFrame == \E link \in Unicasts, acked \in BOOLEAN :
                FrameSent(link[1], link[2], acked)

Next == SendDIO \/ SendsDIO \/ SendsFrame

Spec == Init /\ [][Next]_vars

(* The DIO timer goes on.  Of the DIOs that a mote sends again and again,  *)
(* each mote in its reach hears one again and again.                       *)
HeardBy(n, m) ==
  []<>(dio[n] # 0)
    => []<><<\E hearers \in SUBSET Hearers(n) :
               m \in hearers /\ DIOSent(n, hearers)>>_vars
Fairness ==
  /\ \A n \in Addresses : WF_vars(sendDIO(n))
  /\ \A n \in Addresses : \A m \in Hearers(n) : HeardBy(n, m)

FairSpec == Spec /\ Fairness
-----------------------------------------------------------------------------
TypeOK == /\ mote \in [Motes -> MoteStates]
          /\ dio \in [Addresses -> Ranks]

ParentOf(m) == mote[m].table[mote[m].ParentIndex].addr

(* The motes in S, and all that their parents lead to: what every set has  *)
(* that has those in S and with each mote its parent.                      *)
Upwards(S) ==
  LET All == Addresses \cup {NoAddress}
      Closed(T) == \A m \in T \cap Motes : mote[m].haveParent => ParentOf(m) \in T
  IN {a \in All : \A T \in SUBSET All : S \subseteq T /\ Closed(T) => a \in T}

Loop(m) == Upwards({ParentOf(m)})
InLoop(m) == mote[m].haveParent /\ m \in Loop(m)

(* Motes that follow their parents in a circle have not heard of each      *)
(* other's ranks yet: one of them takes its parent for nearer to the root  *)
(* than it is, or has lost its rank.  Where each mote on the circle knows  *)
(* its parent's rank, the ranks would grow all the way round               *)
(* (icmpv6rpl_updateMyDAGrankAndParentSelection).                          *)
LoopsAreStale ==
  \A m \in Motes : InLoop(m) =>
    \E n \in Loop(m) :
      \/ mote[n].myDAGrank = DEFAULTDAGRANK
      \/ /\ ParentOf(n) # Root
         /\ mote[n].table[mote[n].ParentIndex].DAGrank # mote[ParentOf(n)].myDAGrank

(* If the cost of every link at last stays the same, and each mote hears   *)
(* its neighbors' DIOs again and again, then at last the parents of every  *)
(* mote lead to the root, and no circle is left (icmpv6rpl_indicateRxDIO). *)
Converges ==
  <>[][\A m \in Motes, i \in Rows :
          LinkMetric(mote'[m].table[i]) = LinkMetric(mote[m].table[i])]_vars
  => <>[](\A m \in Motes : Root \in Upwards({m}))
=============================================================================
