----------------------------- MODULE OpenQueue -----------------------------
(***************************************************************************)
(* The pool of packet buffers, openstack/cross-layers/openqueue.c, as      *)
(* operators over the value of openqueue_vars.queue.  Every function of    *)
(* the pool runs with interrupts disabled, so a component that calls one   *)
(* applies the operator within one of its actions.                         *)
(*                                                                         *)
(* A buffer records its creator and its owner, the two fields that decide  *)
(* what may happen to it next, its layer-2 destination and the             *)
(* transmissions it has left.  Its contents are left out.                  *)
(***************************************************************************)
EXTENDS Naturals, FiniteSets

CONSTANTS
  QUEUELENGTH,                \* number of buffers (10 in openqueue.h)
  HIGH_PRIORITY_QUEUE_ENTRY,  \* buffers kept for sixtop and the MAC (5)
  Neighbors                   \* the 64-bit addresses of the neighbors

ASSUME QueueAssumption ==
  /\ QUEUELENGTH \in Nat \ {0}
  /\ HIGH_PRIORITY_QUEUE_ENTRY \in 0..QUEUELENGTH
  /\ Neighbors \cap {"none", "broadcast", "anycast"} = {}

(* The component identifiers of inc/opendefs.h; their order matters.       *)
COMPONENT_NULL                  == 0
COMPONENT_IEEE802154E           == 9
COMPONENT_SIXTOP_TO_IEEE802154E == 10
COMPONENT_IEEE802154E_TO_SIXTOP == 11
COMPONENT_SIXTOP                == 12
COMPONENT_SIXTOP_RES            == 15
COMPONENT_OPENBRIDGE            == 17
COMPONENT_IPHC                  == 18
COMPONENT_FORWARDING            == 19
COMPONENT_ICMPv6RPL             == 23
COMPONENT_OPENCOAP              == 26
COMPONENT_UINJECT               == 37

Components == 0..44

Slots == 1..QUEUELENGTH
NULL  == 0

(* Values of l2_nextORpreviousHop: ADDR_NONE, the 16-bit broadcast address *)
(* or a neighbor.                                                          *)
Hops == Neighbors \cup {"none", "broadcast"}

reset_entry == [creator |-> COMPONENT_NULL, owner |-> COMPONENT_NULL,
                hop |-> "none", retriesLeft |-> 0]

(* openqueue_init                                                          *)
EmptyQueue == [p \in Slots |-> reset_entry]

(* The functions that search the pool scan it from its first entry on.     *)
First(S) == IF S = {} THEN NULL ELSE CHOOSE p \in S : \A r \in S : p <= r

LowPriority(q) == {p \in Slots : q[p].creator > COMPONENT_SIXTOP_RES}

isHighPriorityEntryEnough(q) ==
  Cardinality(LowPriority(q)) <= QUEUELENGTH - HIGH_PRIORITY_QUEUE_ENTRY

FreeSlots(q) == {p \in Slots : q[p].owner = COMPONENT_NULL}

(* Mutant: the buffers for high priority are not kept back.                *)
getFreeUnreserved(q, creator, isSync) ==
  IF ~isSync /\ creator > COMPONENT_IEEE802154E
  THEN NULL ELSE First(FreeSlots(q))

(* The buffer the caller gets, NULL if it is refused one.                  *)
getFreePacketBuffer(q, creator, isSync) ==
  IF \/ ~isSync /\ creator > COMPONENT_IEEE802154E
     \/ ~isHighPriorityEntryEnough(q) /\ creator > COMPONENT_SIXTOP_RES
  THEN NULL
  ELSE First(FreeSlots(q))

freePacketBuffer(q, p) == [q EXCEPT ![p] = reset_entry]

removeAllCreatedBy(q, creator) ==
  [p \in Slots |-> IF q[p].creator = creator THEN reset_entry ELSE q[p]]

(* Every caller of getFreePacketBuffer writes these fields of the entry,   *)
(* which was reset, first.                                                 *)
Allocate(q, p, creator, owner, hop) ==
  [q EXCEPT ![p] = [creator |-> creator, owner |-> owner, hop |-> hop,
                    retriesLeft |-> 0]]

SetOwner(q, p, owner) == [q EXCEPT ![p].owner = owner]

OwnedBy(q, owner) == {p \in Slots : q[p].owner = owner}

(* Mutant: any packet that waits for sixtop is taken for one sent.         *)
sixtopGetAnyPacket(q) == First(OwnedBy(q, COMPONENT_IEEE802154E_TO_SIXTOP))

sixtopGetSentPacket(q) ==
  First({p \in OwnedBy(q, COMPONENT_IEEE802154E_TO_SIXTOP) :
           q[p].creator # COMPONENT_IEEE802154E})

(* Mutant: whether the MAC is done with it is not looked at.               *)
sixtopGetReceivedAny(q) ==
  First({p \in Slots : q[p].creator = COMPONENT_IEEE802154E})

sixtopGetReceivedPacket(q) ==
  First({p \in OwnedBy(q, COMPONENT_IEEE802154E_TO_SIXTOP) :
           q[p].creator = COMPONENT_IEEE802154E})

(* A cell is either for one neighbor, or for anyone ("anycast").           *)
macGetDataPacket(q, toNeighbor) ==
  LET ready == OwnedBy(q, COMPONENT_SIXTOP_TO_IEEE802154E)
      suits(p) == toNeighbor = "anycast" \/ q[p].hop = toNeighbor
      res == {p \in ready : q[p].creator = COMPONENT_SIXTOP_RES /\ suits(p)}
      any == {p \in ready : suits(p) /\
                (toNeighbor = "anycast" =>
                   q[p].creator # COMPONENT_SIXTOP \/ q[p].hop # "broadcast")}
  IN IF res # {} THEN First(res) ELSE First(any)

macGetEBPacket(q) ==
  First({p \in OwnedBy(q, COMPONENT_SIXTOP_TO_IEEE802154E) :
           q[p].creator = COMPONENT_SIXTOP /\ q[p].hop = "broadcast"})
=============================================================================
