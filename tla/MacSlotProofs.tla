--------------------------- MODULE MacSlotProofs ---------------------------
(***************************************************************************)
(* Proofs about MacSlot, for every size of the pool, every set of          *)
(* neighbors and every allowance of retransmissions: the slots, the        *)
(* custody of the MAC over its packets, and, from "The effects of an       *)
(* interrupt" on, the pool: where its buffers are, what the notifications  *)
(* and the busy flags say of them, and that each of them leads the life    *)
(* PacketLifecycle describes.                                              *)
(*                                                                         *)
(* What is proved of the pool rests on the custody of the MAC.  An         *)
(* interrupt can do no more than one of seven things to the pool, its      *)
(* effects; what it preserves is shown effect by effect, and task by task  *)
(* for the rest.                                                           *)
(***************************************************************************)
EXTENDS MacSlot, FiniteSetTheorems, WellFoundedInduction, TLAPS

-----------------------------------------------------------------------------
(* The pool.                                                               *)
-----------------------------------------------------------------------------

(* A scan of the pool finds a buffer of the set if there is one.           *)
LEMMA FirstFound ==
  ASSUME NEW S, S \subseteq Slots
  PROVE  /\ S = {} => First(S) = NULL
         /\ S # {} => First(S) \in S
<1>1. S # {} => \E p \in S : \A r \in S : p <= r
  <2>1. SUFFICES ASSUME S # {} PROVE \E p \in S : \A r \in S : p <= r
    OBVIOUS
  <2>2. S \subseteq Nat
    BY DEF Slots
  <2>3. PICK p \in S : \A r \in S : <<r, p>> \notin OpToRel(<, Nat)
    BY <2>1, <2>2, WFMin, NatLessThanWellFounded
  <2>4. \A r \in S : ~(r < p)
    BY <2>2, <2>3 DEF OpToRel
  <2>. QED
    BY <2>2, <2>4
<1>. QED
  BY <1>1 DEF First

(* Zero marks the absence of a buffer.                                     *)
LEMMA NullIsNoSlot == NULL \notin Slots
BY DEF NULL, Slots

(* Taking a buffer yields one of the pool or none.                         *)
LEMMA AllocFound ==
  ASSUME NEW q, NEW creator, NEW sync,
         getFreePacketBuffer(q, creator, sync) # NULL
  PROVE  /\ getFreePacketBuffer(q, creator, sync) \in Slots
         /\ q[getFreePacketBuffer(q, creator, sync)].owner = COMPONENT_NULL
<1>1. FreeSlots(q) \subseteq Slots
  BY DEF FreeSlots
<1>2. First(FreeSlots(q)) \in FreeSlots(q)
  BY <1>1, FirstFound DEF getFreePacketBuffer
<1>. QED
  BY <1>2 DEF getFreePacketBuffer, FreeSlots

(* The packet chosen for a cell is one that waits to be sent.              *)
LEMMA CellPacketFound ==
  ASSUME NEW cellType, NEW neighbor, NEW okToSend
  PROVE  CellPacket(cellType, neighbor, okToSend) \in
           OwnedBy(queue, COMPONENT_SIXTOP_TO_IEEE802154E) \cup {NULL}
<1>1. macGetDataPacket(queue, neighbor) \in
        OwnedBy(queue, COMPONENT_SIXTOP_TO_IEEE802154E) \cup {NULL}
  BY FirstFound DEF macGetDataPacket, OwnedBy
<1>2. macGetEBPacket(queue) \in
        OwnedBy(queue, COMPONENT_SIXTOP_TO_IEEE802154E) \cup {NULL}
  BY FirstFound DEF macGetEBPacket, OwnedBy
<1>. QED
  BY <1>1, <1>2 DEF CellPacket

-----------------------------------------------------------------------------
(* The control of the slot state machine.  That a phase has the packets it *)
(* works on and that its time-out is armed is inductive together with the  *)
(* fact that a mote that is not synchronized is in no phase of a slot.     *)
-----------------------------------------------------------------------------
IdleStates == {"S_SYNCLISTEN", "S_SYNCRX", "S_SLEEP"}

ControlType ==
  /\ isSync \in BOOLEAN
  /\ state \in States
  /\ timer \in {"newSlot", "fsm"}
  /\ mac \in Pointers

UnsyncedIdle == ~isSync => state \in IdleStates

Control == ControlType /\ SlotPackets /\ TimeoutArmed /\ UnsyncedIdle

LEMMA ControlInit == Init => Control
<1>. SUFFICES ASSUME Init PROVE Control
  OBVIOUS
<1>1. NoPackets \in Pointers /\ NoPackets.dataToSend = NULL
        /\ NoPackets.dataReceived = NULL /\ NoPackets.ackToSend = NULL
  BY DEF NoPackets, Pointers
<1>2. isSync = FALSE /\ state = "S_SLEEP" /\ timer = "newSlot"
        /\ mac = NoPackets
  BY DEF Init
<1>. QED
  BY <1>1, <1>2 DEF Control, ControlType, SlotPackets, TimeoutArmed,
       UnsyncedIdle, States, TxStates, AckStates, RxListenStates,
       ActiveStates, IdleStates

(* The end of a slot establishes it, whatever the slot was.                *)
LEMMA ControlEnded ==
  ASSUME NEW q, NEW m, NEW tx, NEW rx, endSlot(q, m, tx, rx),
         isSync' \in BOOLEAN
  PROVE  Control'
BY DEF endSlot, Control, ControlType, SlotPackets, TimeoutArmed,
     UnsyncedIdle, States, TxStates, AckStates, RxListenStates, ActiveStates,
     IdleStates, NoPackets, Pointers

(* A phase that follows another of the same kind has the same packets.     *)
LEMMA ControlAdvanced ==
  ASSUME Control, NEW from, NEW next, Advance(from, next),
         \/ from \subseteq TxStates /\ next \in TxStates
         \/ from \subseteq RxListenStates \cup {"S_SLEEP"} /\ isSync
              /\ next \in RxListenStates
         \/ from \subseteq RxListenStates /\ next \in RxListenStates
         \/ from \subseteq AckStates \ {"S_TXACKOFFSET"}
              /\ next \in AckStates \ {"S_TXACKOFFSET"}
  PROVE  Control'
BY DEF Advance, Arm, Control, ControlType, SlotPackets, TimeoutArmed,
     UnsyncedIdle, States, TxStates, AckStates, RxListenStates, ActiveStates,
     IdleStates

LEMMA ControlStep ==
  ASSUME Control, [Next]_vars
  PROVE  Control'
<1>. USE NullIsNoSlot
<1>1. ASSUME isr_ieee154e_newSlot PROVE Control'
  <2>1. CASE ListenForEB
    BY <1>1, <2>1 DEF ListenForEB, Control, ControlType, SlotPackets,
         TimeoutArmed, UnsyncedIdle, States, TxStates, AckStates,
         RxListenStates, ActiveStates, IdleStates
  <2>2. CASE RootSynchronizes
    BY <2>2 DEF RootSynchronizes, Control, ControlType, SlotPackets,
         TimeoutArmed, UnsyncedIdle
  <2>3. CASE Desynchronize
    BY <2>3, ControlEnded DEF Desynchronize
  <2>4. CASE InactiveSlot
    BY <2>4, ControlEnded DEF InactiveSlot, AbortSlot, Control, ControlType
  <2>5. ASSUME isSync, state = "S_SLEEP",
               NEW p \in Slots \cup {NULL}, Transmit(p)
        PROVE  Control'
    BY <2>5 DEF Transmit, Arm, Control, ControlType, Pointers, SlotPackets,
         TimeoutArmed, UnsyncedIdle, States, TxStates, AckStates,
         RxListenStates, ActiveStates
  <2>6. CASE TxCell
    BY <2>5, <2>6, CellPacketFound, ControlEnded
       DEF TxCell, AbortSlot, Control, ControlType, OwnedBy
  <2>7. CASE isSync /\ state = "S_SLEEP" /\ Listen
    BY <2>7 DEF Listen, Arm, Control, ControlType, Pointers, SlotPackets,
         TimeoutArmed, UnsyncedIdle, States, TxStates, AckStates,
         RxListenStates, ActiveStates
  <2>8. CASE TxRxCell
    BY <2>5, <2>7, <2>8, CellPacketFound DEF TxRxCell, OwnedBy
  <2>9. CASE RxCell
    BY <2>9, ControlAdvanced DEF RxCell, RxListenStates
  <2>. QED
    BY <1>1, <2>1, <2>2, <2>3, <2>4, <2>6, <2>8, <2>9
       DEF isr_ieee154e_newSlot
<1>2. ASSUME isr_ieee154e_timer PROVE Control'
  <2>1. CASE activity_ti2 \/ activity_ti3 \/ activity_ti6 \/ activity_ti7
    BY <2>1, ControlAdvanced, ControlEnded DEF activity_ti2, activity_ti3,
         activity_ti6, activity_ti7, AbortSlot, TxStates, Control, ControlType
  <2>2. CASE activity_ri2 \/ activity_ri3 \/ activity_ri7
    BY <2>2, ControlAdvanced DEF activity_ri2, activity_ri3, activity_ri7,
         RxListenStates, AckStates
  <2>3. CASE activity_ri6
    <3>1. Alloc(queue) # NULL => Alloc(queue) \in Slots
      BY AllocFound DEF Alloc
    <3>2. ASSUME Alloc(queue) # NULL, state = "S_TXACKOFFSET",
                 mac' = [mac EXCEPT !.ackToSend = Alloc(queue)],
                 Arm("S_TXACKREADY")
          PROVE  Control'
      BY <3>1, <3>2 DEF Arm, Control, ControlType, Pointers, SlotPackets,
           TimeoutArmed, UnsyncedIdle, States, TxStates, AckStates,
           RxListenStates, ActiveStates, IdleStates
    <3>. QED
      BY <2>3, <3>2, ControlEnded DEF activity_ri6, Control, ControlType
  <2>4. CASE Timeout
    BY <2>4, ControlEnded DEF Timeout, AbortSlot, Control, ControlType
  <2>. QED
    BY <1>2, <2>1, <2>2, <2>3, <2>4 DEF isr_ieee154e_timer
<1>3. ASSUME ieee154e_startOfFrame PROVE Control'
  <2>1. CASE activity_synchronize_startOfFrame
    BY <2>1 DEF activity_synchronize_startOfFrame, Control, ControlType,
         SlotPackets, TimeoutArmed, UnsyncedIdle, States, TxStates, AckStates,
         RxListenStates, ActiveStates, IdleStates
  <2>2. CASE activity_ti4 \/ activity_ti8 \/ activity_ri4 \/ activity_ri8
    BY <2>2, ControlAdvanced DEF activity_ti4, activity_ti8, activity_ri4,
         activity_ri8, TxStates, RxListenStates, AckStates
  <2>3. CASE UnexpectedStart
    BY <2>3, ControlEnded DEF UnexpectedStart, AbortSlot, Control, ControlType
  <2>. QED
    BY <1>3, <2>1, <2>2, <2>3 DEF ieee154e_startOfFrame
<1>4. ASSUME ieee154e_endOfFrame PROVE Control'
  <2>1. CASE activity_synchronize_endOfFrame
    <3>1. ASSUME ~isSync, state' = "S_SYNCLISTEN",
                 mac' = [mac EXCEPT !.dataReceived = NULL],
                 UNCHANGED <<isSync, timer>>
          PROVE  Control'
      BY <3>1 DEF Control, ControlType, Pointers, SlotPackets, TimeoutArmed,
           UnsyncedIdle, States, TxStates, AckStates, RxListenStates,
           ActiveStates, IdleStates
    <3>. QED
      BY <2>1, <3>1, ControlEnded
         DEF activity_synchronize_endOfFrame, Control, ControlType
  <2>2. CASE activity_ti5
    <3>1. CASE Arm("S_RXACKOFFSET") /\ UNCHANGED <<queue, mac>>
      BY <2>2, <3>1 DEF activity_ti5, Arm, Control, ControlType, SlotPackets,
           TimeoutArmed, UnsyncedIdle, States, TxStates, AckStates,
           RxListenStates, ActiveStates, IdleStates
    <3>. QED
      BY <2>2, <3>1, ControlEnded DEF activity_ti5, Control, ControlType
  <2>3. CASE activity_ti9 \/ activity_ri9 \/ UnexpectedEnd
    BY <2>3, ControlEnded DEF activity_ti9, activity_ri9, UnexpectedEnd,
         AbortSlot, Control, ControlType
  <2>4. CASE activity_ri5
    <3>1. Alloc(queue) # NULL => Alloc(queue) \in Slots
      BY AllocFound DEF Alloc
    <3>2. ASSUME Alloc(queue) # NULL, state = "S_RXDATA",
                 mac' = [mac EXCEPT !.dataReceived = Alloc(queue)],
                 Arm("S_TXACKOFFSET")
          PROVE  Control'
      BY <3>1, <3>2 DEF Arm, Control, ControlType, Pointers, SlotPackets,
           TimeoutArmed, UnsyncedIdle, States, TxStates, AckStates,
           RxListenStates, ActiveStates, IdleStates
    <3>. QED
      BY <2>4, <3>2, ControlEnded DEF activity_ri5, AbortSlot, Control,
           ControlType
  <2>. QED
    BY <1>4, <2>1, <2>2, <2>3, <2>4 DEF ieee154e_endOfFrame
<1>5. CASE UNCHANGED radioVars
  BY <1>5 DEF radioVars, Control, ControlType, SlotPackets, TimeoutArmed,
       UnsyncedIdle
<1>. QED
  BY <1>1, <1>2, <1>3, <1>4, <1>5
     DEF Next, Interrupt, Tasks, sendEB_purges, vars

(* Whatever ends a slot, it leaves no packet behind, and each phase has    *)
(* exactly the packets it works on.                                        *)
THEOREM SlotPacketsAlways == Spec => []SlotPackets
<1>1. Spec => []Control
  BY ControlInit, ControlStep, PTL DEF Spec
<1>2. Control => SlotPackets
  BY DEF Control
<1>. QED
  BY <1>1, <1>2, PTL

(* A slot in progress always has its time-out armed.                       *)
THEOREM TimeoutArmedAlways == Spec => []TimeoutArmed
<1>1. Spec => []Control
  BY ControlInit, ControlStep, PTL DEF Spec
<1>2. Control => TimeoutArmed
  BY DEF Control
<1>. QED
  BY <1>1, <1>2, PTL

-----------------------------------------------------------------------------
(* The operations on the pool, entry by entry.                             *)
-----------------------------------------------------------------------------
Pools == [Slots -> Entries]

LEMMA PoolWrite ==
  ASSUME NEW q \in Pools, NEW p \in Slots, NEW e \in Entries
  PROVE  /\ [q EXCEPT ![p] = e] \in Pools
         /\ [q EXCEPT ![p] = e][p] = e
         /\ \A r \in Slots \ {p} : [q EXCEPT ![p] = e][r] = q[r]
BY DEF Pools

LEMMA ResetEntryType == reset_entry \in Entries
BY MacAssumption DEF reset_entry, Entries, Components, COMPONENT_NULL, Hops

LEMMA EntryUpdate ==
  ASSUME NEW e \in Entries, NEW o \in Components, NEW n \in 0..UINT8_MAX
  PROVE  /\ [e EXCEPT !.owner = o] \in Entries
         /\ [e EXCEPT !.owner = o].owner = o
         /\ [e EXCEPT !.owner = o].creator = e.creator
         /\ [e EXCEPT !.owner = o].hop = e.hop
         /\ [e EXCEPT !.owner = o].retriesLeft = e.retriesLeft
         /\ [e EXCEPT !.retriesLeft = n] \in Entries
         /\ [e EXCEPT !.retriesLeft = n].owner = e.owner
         /\ [e EXCEPT !.retriesLeft = n].creator = e.creator
         /\ [e EXCEPT !.retriesLeft = n].hop = e.hop
         /\ [e EXCEPT !.retriesLeft = n].retriesLeft = n
BY DEF Entries

LEMMA Freed ==
  ASSUME NEW q \in Pools, NEW p \in Slots
  PROVE  /\ freePacketBuffer(q, p) \in Pools
         /\ freePacketBuffer(q, p)[p] = reset_entry
         /\ \A r \in Slots \ {p} : freePacketBuffer(q, p)[r] = q[r]
BY PoolWrite, ResetEntryType DEF freePacketBuffer

LEMMA OwnerSet ==
  ASSUME NEW q \in Pools, NEW p \in Slots, NEW o \in Components
  PROVE  /\ SetOwner(q, p, o) \in Pools
         /\ SetOwner(q, p, o)[p].owner = o
         /\ SetOwner(q, p, o)[p].creator = q[p].creator
         /\ SetOwner(q, p, o)[p].hop = q[p].hop
         /\ SetOwner(q, p, o)[p].retriesLeft = q[p].retriesLeft
         /\ \A r \in Slots \ {p} : SetOwner(q, p, o)[r] = q[r]
<1>. DEFINE e == [q[p] EXCEPT !.owner = o]
<1>1. q[p] \in Entries
  BY DEF Pools
<1>2. 0 \in 0..UINT8_MAX
  BY MacAssumption
<1>3. /\ e \in Entries /\ e.owner = o /\ e.creator = q[p].creator
      /\ e.hop = q[p].hop /\ e.retriesLeft = q[p].retriesLeft
  BY <1>1, <1>2, EntryUpdate
<1>4. SetOwner(q, p, o) = [q EXCEPT ![p] = e]
  BY DEF SetOwner
<1>. HIDE DEF e
<1>. DEFINE f == [q EXCEPT ![p] = e]
<1>5. f \in Pools /\ f[p] = e /\ \A r \in Slots \ {p} : f[r] = q[r]
  BY <1>3, PoolWrite
<1>. HIDE DEF f
<1>. QED
  BY <1>3, <1>4, <1>5 DEF f

LEMMA Allocated ==
  ASSUME NEW q \in Pools, NEW p \in Slots, NEW c \in Components,
         NEW o \in Components, NEW h \in Hops
  PROVE  /\ Allocate(q, p, c, o, h) \in Pools
         /\ Allocate(q, p, c, o, h)[p] =
              [creator |-> c, owner |-> o, hop |-> h, retriesLeft |-> 0]
         /\ \A r \in Slots \ {p} : Allocate(q, p, c, o, h)[r] = q[r]
<1>. DEFINE e == [creator |-> c, owner |-> o, hop |-> h, retriesLeft |-> 0]
<1>1. e \in Entries
  BY MacAssumption DEF Entries
<1>. HIDE DEF e
<1>2. LET f == [q EXCEPT ![p] = e]
      IN  f \in Pools /\ f[p] = e /\ \A r \in Slots \ {p} : f[r] = q[r]
  BY <1>1, PoolWrite
<1>. QED
  BY <1>2 DEF Allocate, e

LEMMA Purged ==
  ASSUME NEW q \in Pools, NEW c \in Components
  PROVE  /\ removeAllCreatedBy(q, c) \in Pools
         /\ \A r \in Slots : removeAllCreatedBy(q, c)[r] =
              IF q[r].creator = c THEN reset_entry ELSE q[r]
BY ResetEntryType DEF removeAllCreatedBy, Pools

(* A failed transmission uses up one of those the packet had left.         *)
LEMMA FailedIs ==
  ASSUME NEW q \in Pools, NEW p \in Slots
  PROVE  /\ Failed(q, p) \in Pools
         /\ Failed(q, p)[p].creator = q[p].creator
         /\ Failed(q, p)[p].hop = q[p].hop
         /\ Failed(q, p)[p].retriesLeft = Decrement(q[p].retriesLeft)
         /\ Failed(q, p)[p].owner =
              IF Decrement(q[p].retriesLeft) = 0
              THEN COMPONENT_IEEE802154E_TO_SIXTOP
              ELSE COMPONENT_SIXTOP_TO_IEEE802154E
         /\ \A r \in Slots \ {p} : Failed(q, p)[r] = q[r]
<1>. DEFINE n == Decrement(q[p].retriesLeft)
            d == [q[p] EXCEPT !.retriesLeft = n]
            o == IF n = 0 THEN COMPONENT_IEEE802154E_TO_SIXTOP
                 ELSE COMPONENT_SIXTOP_TO_IEEE802154E
            e == [d EXCEPT !.owner = o]
<1>1. q[p] \in Entries /\ q[p].retriesLeft \in 0..UINT8_MAX
  BY DEF Pools, Entries
<1>2. n \in 0..UINT8_MAX
  BY <1>1, MacAssumption DEF Decrement
<1>3. o \in Components
  BY DEF Components, COMPONENT_IEEE802154E_TO_SIXTOP,
         COMPONENT_SIXTOP_TO_IEEE802154E
<1>. HIDE DEF n, o
<1>4. /\ d \in Entries /\ d.owner = q[p].owner /\ d.creator = q[p].creator
      /\ d.hop = q[p].hop /\ d.retriesLeft = n
  BY <1>1, <1>2, <1>3, EntryUpdate
<1>. HIDE DEF d
<1>5. /\ e \in Entries /\ e.owner = o /\ e.creator = d.creator
      /\ e.hop = d.hop /\ e.retriesLeft = d.retriesLeft
  BY <1>2, <1>3, <1>4, EntryUpdate
<1>6. Failed(q, p) = [q EXCEPT ![p] = e]
  BY DEF Failed, Pools, d, e, n, o
<1>. HIDE DEF e
<1>. DEFINE f == [q EXCEPT ![p] = e]
<1>7. f \in Pools /\ f[p] = e /\ \A r \in Slots \ {p} : f[r] = q[r]
  BY <1>5, PoolWrite
<1>. HIDE DEF f
<1>. QED
  BY <1>4, <1>5, <1>6, <1>7 DEF f, n, o

(* sixtop gives a packet one transmission at least.                        *)
LEMMA Sent ==
  ASSUME NEW q \in Pools, NEW p \in Slots
  PROVE  /\ sixtop_send(q, p) \in Pools
         /\ sixtop_send(q, p)[p].creator = q[p].creator
         /\ sixtop_send(q, p)[p].hop = q[p].hop
         /\ sixtop_send(q, p)[p].owner = COMPONENT_SIXTOP_TO_IEEE802154E
         /\ sixtop_send(q, p)[p].retriesLeft \in 1..(TXRETRIES + 1)
         /\ \A r \in Slots \ {p} : sixtop_send(q, p)[r] = q[r]
<1>. DEFINE n == IF q[p].hop = "broadcast" THEN 1 ELSE TXRETRIES + 1
            d == [q[p] EXCEPT !.retriesLeft = n]
            e == [d EXCEPT !.owner = COMPONENT_SIXTOP_TO_IEEE802154E]
<1>1. q[p] \in Entries
  BY DEF Pools
<1>2. n \in 1..(TXRETRIES + 1) /\ n \in 0..UINT8_MAX
  BY MacAssumption
<1>3. COMPONENT_SIXTOP_TO_IEEE802154E \in Components
  BY DEF Components, COMPONENT_SIXTOP_TO_IEEE802154E
<1>. HIDE DEF n
<1>4. /\ d \in Entries /\ d.owner = q[p].owner /\ d.creator = q[p].creator
      /\ d.hop = q[p].hop /\ d.retriesLeft = n
  BY <1>1, <1>2, <1>3, EntryUpdate
<1>. HIDE DEF d
<1>5. /\ e \in Entries /\ e.owner = COMPONENT_SIXTOP_TO_IEEE802154E
      /\ e.creator = d.creator /\ e.hop = d.hop
      /\ e.retriesLeft = d.retriesLeft
  BY <1>2, <1>3, <1>4, EntryUpdate
<1>6. sixtop_send(q, p) = [q EXCEPT ![p] = e]
  BY DEF sixtop_send, Pools, d, e, n
<1>. HIDE DEF e
<1>. DEFINE f == [q EXCEPT ![p] = e]
<1>7. f \in Pools /\ f[p] = e /\ \A r \in Slots \ {p} : f[r] = q[r]
  BY <1>5, PoolWrite
<1>. HIDE DEF f
<1>. QED
  BY <1>2, <1>4, <1>5, <1>6, <1>7 DEF f

-----------------------------------------------------------------------------
(* What the end of a slot does to the pool.                                *)
-----------------------------------------------------------------------------
Errors == {"FREEING_UNUSED", "NO_RECEIVED_PACKET", "NO_SENT_PACKET"}

CountersType == rxDone \in Nat /\ txDone \in Nat /\ critical \subseteq Errors

LEMMA EndSlotPool ==
  ASSUME NEW q \in Pools, NEW m \in Pointers, NEW tx \in Nat, NEW rx \in Nat,
         CountersType, endSlot(q, m, tx, rx)
  PROVE  /\ queue' \in Pools /\ CountersType'
         /\ \A r \in Slots \ {m.dataToSend, m.dataReceived, m.ackToSend} :
              queue'[r] = q[r]
         /\ m.ackToSend # NULL => queue'[m.ackToSend] = reset_entry
         /\ m.dataReceived \notin {NULL, m.ackToSend} =>
              queue'[m.dataReceived].owner = COMPONENT_IEEE802154E_TO_SIXTOP
         /\ m.dataToSend \notin {NULL, m.ackToSend, m.dataReceived} =>
              /\ queue'[m.dataToSend].creator = q[m.dataToSend].creator
              /\ queue'[m.dataToSend].retriesLeft =
                   Decrement(q[m.dataToSend].retriesLeft)
              /\ queue'[m.dataToSend].owner =
                   IF Decrement(q[m.dataToSend].retriesLeft) = 0
                   THEN COMPONENT_IEEE802154E_TO_SIXTOP
                   ELSE COMPONENT_SIXTOP_TO_IEEE802154E
<1>. DEFINE sent == IF m.dataToSend = NULL THEN q ELSE Failed(q, m.dataToSend)
            rcvd == IF m.dataReceived = NULL THEN sent
                    ELSE Notify(sent, m.dataReceived)
            acked == IF m.ackToSend = NULL THEN rcvd
                     ELSE freePacketBuffer(rcvd, m.ackToSend)
<1>1. /\ m.dataToSend \in Slots \cup {NULL}
      /\ m.dataReceived \in Slots \cup {NULL}
      /\ m.ackToSend \in Slots \cup {NULL}
  BY DEF Pointers
<1>2. queue' = acked
  BY DEF endSlot
<1>3. CountersType'
  BY DEF endSlot, CountersType, Errors
<1>4. /\ sent \in Pools
      /\ \A r \in Slots \ {m.dataToSend} : sent[r] = q[r]
      /\ m.dataToSend # NULL =>
           /\ sent[m.dataToSend].creator = q[m.dataToSend].creator
           /\ sent[m.dataToSend].retriesLeft =
                Decrement(q[m.dataToSend].retriesLeft)
           /\ sent[m.dataToSend].owner =
                IF Decrement(q[m.dataToSend].retriesLeft) = 0
                THEN COMPONENT_IEEE802154E_TO_SIXTOP
                ELSE COMPONENT_SIXTOP_TO_IEEE802154E
  BY <1>1, FailedIs
<1>. HIDE DEF sent
<1>5. /\ rcvd \in Pools
      /\ \A r \in Slots \ {m.dataReceived} : rcvd[r] = sent[r]
      /\ m.dataReceived # NULL =>
           rcvd[m.dataReceived].owner = COMPONENT_IEEE802154E_TO_SIXTOP
  <2>1. COMPONENT_IEEE802154E_TO_SIXTOP \in Components
    BY DEF Components, COMPONENT_IEEE802154E_TO_SIXTOP
  <2>. QED
    BY <1>1, <1>4, <2>1, OwnerSet DEF Notify
<1>. HIDE DEF rcvd
<1>6. /\ acked \in Pools
      /\ \A r \in Slots \ {m.ackToSend} : acked[r] = rcvd[r]
      /\ m.ackToSend # NULL => acked[m.ackToSend] = reset_entry
  BY <1>1, <1>5, Freed
<1>. HIDE DEF acked
<1>. QED
  BY <1>1, <1>2, <1>3, <1>4, <1>5, <1>6

-----------------------------------------------------------------------------
(* Type correctness.  It is inductive together with the control of the     *)
(* slot and the packets a task works on.                                   *)
-----------------------------------------------------------------------------
Flags == {"EB", "KA", "DIO", "DAO"}

TaskType ==
  /\ task \in {"none", "rx", "receive", "reply", "replied", "txdone",
               "sendDone", "send"}
  /\ msg \in Slots \cup {NULL} /\ out \in Slots \cup {NULL}
  /\ busy \subseteq Flags
  /\ (msg # NULL) <=> (task \in {"receive", "reply", "replied", "sendDone"})
  /\ (out # NULL) <=> (task \in {"send", "reply"})

Typed == queue \in Pools /\ CountersType /\ TaskType

LEMMA TypedInit == Init => Typed
<1>. SUFFICES ASSUME Init PROVE Typed
  OBVIOUS
<1>1. EmptyQueue \in Pools
  BY ResetEntryType DEF EmptyQueue, Pools
<1>. QED
  BY <1>1 DEF Init, Typed, CountersType, Errors, TaskType, Flags

(* A frame received is put in a buffer of the pool.                        *)
LEMMA ReceivedTyped ==
  ASSUME NEW p \in Slots, NEW hop \in Hops, queue \in Pools
  PROVE  /\ Received(queue, p, hop) \in Pools
         /\ Notify(Received(queue, p, hop), p) \in Pools
<1>1. {COMPONENT_IEEE802154E, COMPONENT_IEEE802154E_TO_SIXTOP}
        \subseteq Components
  BY DEF Components, COMPONENT_IEEE802154E, COMPONENT_IEEE802154E_TO_SIXTOP
<1>. QED
  BY <1>1, Allocated, OwnerSet DEF Received, Notify

LEMMA InterruptTyped ==
  ASSUME Typed, Control, Interrupt
  PROVE  Typed'
<1>. USE NullIsNoSlot DEF Silent
<1>1. UNCHANGED taskVars
  BY DEF Interrupt, isr_ieee154e_newSlot, isr_ieee154e_timer,
       ieee154e_startOfFrame, ieee154e_endOfFrame
<1>2. TaskType'
  BY <1>1 DEF Typed, TaskType, taskVars
<1>3. SUFFICES queue' \in Pools /\ CountersType'
  BY <1>2 DEF Typed
<1>4. /\ queue \in Pools /\ CountersType /\ mac \in Pointers
      /\ \A p \in Slots : Notify(queue, p) \in Pools
      /\ \A p \in Slots : freePacketBuffer(queue, p) \in Pools
  <2>1. COMPONENT_IEEE802154E_TO_SIXTOP \in Components
    BY DEF Components, COMPONENT_IEEE802154E_TO_SIXTOP
  <2>. QED
    BY <2>1, OwnerSet, Freed DEF Typed, Control, ControlType, Notify
<1>5. /\ Alloc(queue) # NULL => Alloc(queue) \in Slots
      /\ "none" \in Hops /\ Neighbors \subseteq Hops
  BY AllocFound DEF Alloc, Hops
<1>6. ASSUME NEW q \in Pools, NEW m \in Pointers, NEW tx \in Nat,
             NEW rx \in Nat, endSlot(q, m, tx, rx)
      PROVE  queue' \in Pools /\ CountersType'
  BY <1>4, <1>6, EndSlotPool
<1>7. AbortSlot => queue' \in Pools /\ CountersType'
  BY <1>4, <1>6 DEF AbortSlot
<1>8. ASSUME NEW next, Arm(next) PROVE CountersType'
  BY <1>4, <1>8 DEF Arm, CountersType
<1>9. ASSUME NEW from, NEW next, Advance(from, next)
      PROVE  queue' \in Pools /\ CountersType'
  BY <1>4, <1>8, <1>9 DEF Advance
<1>10. ASSUME isr_ieee154e_newSlot PROVE queue' \in Pools /\ CountersType'
  <2>1. CASE ListenForEB \/ RootSynchronizes
    BY <1>4, <2>1 DEF ListenForEB, RootSynchronizes, CountersType
  <2>2. CASE Desynchronize
    BY <1>4, <1>6, <2>2 DEF Desynchronize
  <2>3. CASE InactiveSlot
    BY <1>7, <2>3 DEF InactiveSlot
  <2>4. ASSUME NEW p \in Slots \cup {NULL}, Transmit(p)
        PROVE  queue' \in Pools /\ CountersType'
    <3>1. COMPONENT_IEEE802154E \in Components
      BY DEF Components, COMPONENT_IEEE802154E
    <3>. QED
      BY <1>4, <1>8, <2>4, <3>1, OwnerSet DEF Transmit
  <2>5. CASE TxCell \/ TxRxCell \/ RxCell
    BY <1>4, <1>7, <1>8, <1>9, <2>4, <2>5, CellPacketFound
       DEF TxCell, TxRxCell, RxCell, Listen, OwnedBy
  <2>. QED
    BY <1>10, <2>1, <2>2, <2>3, <2>5 DEF isr_ieee154e_newSlot
<1>11. ASSUME isr_ieee154e_timer PROVE queue' \in Pools /\ CountersType'
  <2>1. CASE \/ activity_ti2 \/ activity_ti3 \/ activity_ti6 \/ activity_ti7
             \/ activity_ri2 \/ activity_ri3 \/ activity_ri7 \/ Timeout
    BY <1>7, <1>9, <2>1 DEF activity_ti2, activity_ti3, activity_ti6,
         activity_ti7, activity_ri2, activity_ri3, activity_ri7, Timeout
  <2>2. CASE activity_ri6
    <3>. DEFINE a == Alloc(queue)
    <3>1. mac.dataReceived \in Slots
      BY <1>4, <2>2 DEF activity_ri6, Control, SlotPackets, AckStates,
           Pointers
    <3>2. CASE a = NULL /\ endSlot(Notify(queue, mac.dataReceived),
                             [mac EXCEPT !.dataReceived = NULL], 0, 1)
      <4>1. [mac EXCEPT !.dataReceived = NULL] \in Pointers
        BY <1>4 DEF Pointers
      <4>. QED
        BY <1>4, <1>6, <3>1, <3>2, <4>1
    <3>3. CASE a # NULL /\ queue' = Received(queue, a, "none")
                 /\ Arm("S_TXACKREADY")
      BY <1>4, <1>5, <1>8, <3>3, ReceivedTyped
    <3>4. CASE a # NULL /\ endSlot(freePacketBuffer(queue, a),
                             [mac EXCEPT !.ackToSend = a], 0, 0)
      <4>1. [mac EXCEPT !.ackToSend = a] \in Pointers
        BY <1>4, <1>5, <3>4 DEF Pointers
      <4>. QED
        BY <1>4, <1>5, <1>6, <3>4, <4>1
    <3>. QED
      BY <2>2, <3>2, <3>3, <3>4 DEF activity_ri6
  <2>. QED
    BY <1>11, <2>1, <2>2 DEF isr_ieee154e_timer
<1>12. ASSUME ieee154e_startOfFrame PROVE queue' \in Pools /\ CountersType'
  BY <1>4, <1>7, <1>9, <1>12 DEF ieee154e_startOfFrame, activity_ti4,
       activity_synchronize_startOfFrame, activity_ti8, activity_ri4,
       activity_ri8, UnexpectedStart, CountersType
<1>13. ASSUME ieee154e_endOfFrame PROVE queue' \in Pools /\ CountersType'
  <2>1. CASE activity_synchronize_endOfFrame
    <3>1. [mac EXCEPT !.dataReceived = NULL] \in Pointers
      BY <1>4 DEF Pointers
    <3>. QED
      BY <1>4, <1>5, <1>6, <2>1, <3>1, ReceivedTyped
         DEF activity_synchronize_endOfFrame, CountersType
  <2>2. CASE activity_ti5 \/ activity_ti9
    <3>1. [mac EXCEPT !.dataToSend = NULL] \in Pointers
      BY <1>4 DEF Pointers
    <3>2. mac.dataToSend \in Slots
      BY <1>4, <2>2 DEF activity_ti5, activity_ti9, Control, SlotPackets,
           TxStates, Pointers
    <3>. QED
      BY <1>4, <1>6, <1>7, <1>8, <2>2, <3>1, <3>2
         DEF activity_ti5, activity_ti9
  <2>3. CASE activity_ri5
    BY <1>4, <1>5, <1>6, <1>7, <1>8, <2>3, ReceivedTyped DEF activity_ri5
  <2>4. CASE activity_ri9
    <3>1. NoPackets \in Pointers
      BY DEF NoPackets, Pointers
    <3>2. mac.ackToSend \in Slots /\ mac.dataReceived \in Slots
      BY <1>4, <2>4 DEF activity_ri9, Control, SlotPackets, AckStates,
           Pointers
    <3>3. Notify(freePacketBuffer(queue, mac.ackToSend), mac.dataReceived)
            \in Pools
      <4>1. COMPONENT_IEEE802154E_TO_SIXTOP \in Components
        BY DEF Components, COMPONENT_IEEE802154E_TO_SIXTOP
      <4>. QED
        BY <1>4, <3>2, <4>1, OwnerSet DEF Notify
    <3>. QED
      BY <1>6, <2>4, <3>1, <3>3 DEF activity_ri9
  <2>5. CASE UnexpectedEnd
    BY <1>7, <2>5 DEF UnexpectedEnd
  <2>. QED
    BY <1>13, <2>1, <2>2, <2>3, <2>4, <2>5 DEF ieee154e_endOfFrame
<1>. QED
  BY <1>10, <1>11, <1>12, <1>13 DEF Interrupt

(* A packet picked up for a task is one of the pool.                       *)
LEMMA TakeTyped ==
  ASSUME Typed, task \in {"rx", "txdone"}, NEW p \in Slots \cup {NULL},
         NEW next \in {"receive", "sendDone"}, NEW error \in Errors,
         Take(p, next, error)
  PROVE  Typed'
<1>1. COMPONENT_SIXTOP \in Components
  BY DEF Components, COMPONENT_SIXTOP
<1>2. queue' \in Pools
  BY <1>1, OwnerSet DEF Take, Typed
<1>3. CountersType'
  BY DEF Take, Silent, Typed, CountersType
<1>4. TaskType'
  BY NullIsNoSlot DEF Take, EndTask, Typed, TaskType
<1>. QED
  BY <1>2, <1>3, <1>4 DEF Typed

(* A buffer taken for a packet is one of the pool.                         *)
LEMMA NewPacketTyped ==
  ASSUME Typed, NEW creator \in Components, NEW hop \in Hops, NEW next,
         \/ task = "none" /\ next = "send"
         \/ task = "receive" /\ next = "reply",
         NewPacket(creator, hop, next)
  PROVE  Typed'
<1>. DEFINE p == getFreePacketBuffer(queue, creator, isSync)
<1>1. p \in Slots
  BY AllocFound DEF NewPacket
<1>2. queue' \in Pools
  BY <1>1, Allocated DEF NewPacket, Typed
<1>3. CountersType'
  BY DEF NewPacket, Silent, Typed, CountersType
<1>4. TaskType'
  BY <1>1, NullIsNoSlot DEF NewPacket, Typed, TaskType
<1>. QED
  BY <1>2, <1>3, <1>4 DEF Typed

LEMMA PurgeTyped ==
  ASSUME Typed, NEW creator \in Components, NEW flags, Purge(creator, flags)
  PROVE  Typed'
<1>1. queue' \in Pools
  BY Purged DEF Purge, Typed
<1>2. CountersType' /\ TaskType'
  BY DEF Purge, MayStart, Silent, Typed, CountersType, TaskType
<1>. QED
  BY <1>1, <1>2 DEF Typed

LEMMA FlagType ==
  ASSUME NEW q, NEW p
  PROVE  Flag(q, p) \subseteq Flags
BY DEF Flag, Flags

LEMMA TasksTyped ==
  ASSUME Typed, Tasks
  PROVE  Typed'
<1>. USE NullIsNoSlot DEF Silent
<1>1. queue \in Pools /\ CountersType /\ TaskType
  BY DEF Typed
<1>2. {COMPONENT_SIXTOP, COMPONENT_SIXTOP_RES, COMPONENT_OPENBRIDGE,
       COMPONENT_FORWARDING, COMPONENT_ICMPv6RPL, COMPONENT_OPENCOAP,
       COMPONENT_UINJECT} \subseteq Components
  BY DEF Components, COMPONENT_SIXTOP, COMPONENT_SIXTOP_RES,
       COMPONENT_OPENBRIDGE, COMPONENT_FORWARDING, COMPONENT_ICMPv6RPL,
       COMPONENT_OPENCOAP, COMPONENT_UINJECT
<1>3. "none" \in Hops /\ "broadcast" \in Hops /\ Neighbors \subseteq Hops
        /\ AppCreators \subseteq Components
  BY <1>2, MacAssumption DEF Hops
<1>4. CASE StartNotifReceive \/ StartNotifSendDone
  BY <1>1, <1>4 DEF StartNotifReceive, StartNotifSendDone, Typed,
       CountersType, TaskType
<1>5. CASE TakeReceived
  <2>1. sixtopGetReceivedPacket(queue) \in Slots \cup {NULL}
    BY FirstFound DEF sixtopGetReceivedPacket, OwnedBy
  <2>. QED
    BY <1>5, <2>1, TakeTyped DEF TakeReceived, Errors
<1>6. CASE TakeSent
  <2>1. sixtopGetSentPacket(queue) \in Slots \cup {NULL}
    BY FirstFound DEF sixtopGetSentPacket, OwnedBy
  <2>. QED
    BY <1>6, <2>1, TakeTyped DEF TakeSent, Errors
<1>7. ASSUME queue' \in Pools, EndTask, busy' \subseteq Flags,
             Silent, UNCHANGED <<rxDone, txDone>>
      PROVE  Typed'
  BY <1>1, <1>7 DEF EndTask, Typed, CountersType, TaskType
<1>8. Consume => Typed'
  BY <1>1, <1>7, Freed DEF Consume, TaskType
<1>9. ASSUME task = "receive", NEW creator \in Components, Resend(creator)
      PROVE  Typed'
  <2>1. msg \in Slots
    BY <1>1, <1>9 DEF TaskType
  <2>2. \A n \in Neighbors :
          sixtop_send(Allocate(queue, msg, creator, creator, n), msg)
            \in Pools
    BY <1>1, <1>3, <2>1, Allocated, Sent
  <2>3. queue' \in Pools
    BY <1>1, <1>9, <2>1, <2>2, Freed DEF Resend
  <2>. QED
    BY <1>1, <1>7, <1>9, <2>3 DEF Resend, TaskType
<1>10. CASE CoapRespond
  BY <1>2, <1>9, <1>10 DEF CoapRespond
<1>11. ASSUME NEW mode, Relay(mode) PROVE Typed'
  <2>1. msg \in Slots /\ task = "receive"
    BY <1>1, <1>11 DEF Relay, TaskType
  <2>2. Allocate(queue, msg, COMPONENT_FORWARDING, COMPONENT_FORWARDING,
                 "none") \in Pools
    BY <1>1, <1>2, <1>3, <2>1, Allocated
  <2>. QED
    BY <1>1, <1>2, <1>7, <1>8, <1>9, <1>11, <2>1, <2>2 DEF Relay, TaskType
<1>12. CASE SendDone
  BY <1>1, <1>7, <1>12, Freed DEF SendDone, TaskType
<1>13. CASE Send
  <2>1. out \in Slots
    BY <1>1, <1>13 DEF Send, TaskType
  <2>2. queue' \in Pools
    BY <1>1, <1>13, <2>1, Sent, Freed DEF Send
  <2>3. TaskType'
    BY <1>1, <1>13, FlagType DEF Send, AfterSend, TaskType
  <2>. QED
    BY <1>1, <1>13, <2>2, <2>3 DEF Send, Typed, CountersType
<1>14. CASE Answer
  BY <1>3, <1>14, NewPacketTyped DEF Answer
<1>15. CASE Posted
  <2>1. CASE sixtop_sendEB
    BY <1>2, <1>3, <2>1, NewPacketTyped, PurgeTyped
       DEF sixtop_sendEB, MayStart
  <2>2. CASE sixtop_sendKA
    BY <1>2, <1>3, <2>2, NewPacketTyped, PurgeTyped
       DEF sixtop_sendKA, MayStart
  <2>3. CASE sendDIO
    BY <1>2, <1>3, <2>3, NewPacketTyped, PurgeTyped DEF sendDIO, MayStart
  <2>4. CASE sendDAO
    BY <1>2, <1>3, <2>4, NewPacketTyped, PurgeTyped DEF sendDAO, MayStart
  <2>5. CASE Originate
    BY <1>3, <2>5, NewPacketTyped DEF Originate, MayStart
  <2>. QED
    BY <1>15, <2>1, <2>2, <2>3, <2>4, <2>5 DEF Posted
<1>. QED
  BY <1>4, <1>5, <1>6, <1>8, <1>10, <1>11, <1>12, <1>13, <1>14, <1>15
     DEF Tasks, Notified

LEMMA TypedStep ==
  ASSUME Typed, Control, [Next]_vars
  PROVE  Typed'
<1>1. CASE UNCHANGED vars
  BY <1>1 DEF vars, taskVars, Typed, CountersType, TaskType
<1>2. CASE sendEB_purges
  <2>1. COMPONENT_SIXTOP \in Components
    BY DEF Components, COMPONENT_SIXTOP
  <2>. QED
    BY <1>2, <2>1, PurgeTyped DEF sendEB_purges
<1>. QED
  BY <1>1, <1>2, InterruptTyped, TasksTyped DEF Next

StrayType == stray \subseteq Slots

LEMMA StrayTypeStep ==
  ASSUME StrayType, Control, [Next]_vars
  PROVE  StrayType'
<1>1. PurgedUnderMac \subseteq Slots
  BY DEF PurgedUnderMac, InMac, Control, ControlType, Pointers
<1>. QED
  BY <1>1 DEF StrayType, Next, Strays, vars

LEMMA TypedAlways == Spec => [](Typed /\ Control /\ StrayType)
<1>1. Init => StrayType
  BY DEF Init, StrayType
<1>. QED
  BY <1>1, TypedInit, ControlInit, TypedStep, ControlStep, StrayTypeStep, PTL
     DEF Spec

(* Every variable has its type, whatever is purged, leaked or fails: the   *)
(* counter of transmissions stays within its 8 bits, and no pointer of the *)
(* MAC or of a task leads out of the pool.                                 *)
THEOREM TypeCorrect == Spec => []TypeOK
<1>1. Typed /\ Control /\ StrayType => TypeOK
  BY DEF Typed, Control, ControlType, StrayType, TypeOK, TaskType,
       CountersType, Errors, Flags, Pools
<1>. QED
  BY <1>1, TypedAlways, PTL

-----------------------------------------------------------------------------
(* The custody of the MAC.  It is inductive together with the facts that   *)
(* what waits to be sent may be sent at least once more and did not come   *)
(* from the radio, and that what a task holds is in nobody else's hands.   *)
(* Buffers purged while the MAC was sending them are excepted: a task may  *)
(* take such a buffer for a packet of its own, and the MAC give it back.   *)
(* A step is looked at with the set S of these buffers fixed.              *)
-----------------------------------------------------------------------------
Owned(m) == {m.dataToSend, m.dataReceived, m.ackToSend}

InTransit == {COMPONENT_NULL, COMPONENT_IEEE802154E,
              COMPONENT_SIXTOP_TO_IEEE802154E,
              COMPONENT_IEEE802154E_TO_SIXTOP}

(* What the MAC needs of the pool q and its pointers m at the end of a     *)
(* slot.                                                                   *)
MacCanEnd(q, m) ==
  /\ \A p \in Slots : q[p].owner = COMPONENT_IEEE802154E => p \in Owned(m)
  /\ m.dataToSend # NULL =>
       /\ m.dataToSend \notin {m.dataReceived, m.ackToSend}
       /\ q[m.dataToSend].creator # COMPONENT_IEEE802154E

MacHolds(q, m, S) ==
  /\ MacCanEnd(q, m)
  /\ m.dataToSend # NULL =>
       /\ q[m.dataToSend].owner # COMPONENT_IEEE802154E_TO_SIXTOP
       /\ m.dataToSend \notin S =>
            /\ q[m.dataToSend].owner = COMPONENT_IEEE802154E
            /\ q[m.dataToSend].retriesLeft > 0
  /\ m.ackToSend # NULL => m.ackToSend # m.dataReceived
  /\ \A p \in {m.dataReceived, m.ackToSend} \ {NULL} :
       /\ q[p].owner = COMPONENT_IEEE802154E
       /\ q[p].creator = COMPONENT_IEEE802154E

WaitingReady(q) ==
  \A p \in Slots :
    q[p].owner = COMPONENT_SIXTOP_TO_IEEE802154E =>
      q[p].creator # COMPONENT_IEEE802154E /\ q[p].retriesLeft > 0

TaskHolds(S) ==
  /\ msg # NULL => /\ queue[msg].owner \notin InTransit
                   /\ msg # mac.dataToSend
  /\ out # NULL =>
       /\ out # msg /\ queue[out].creator # COMPONENT_IEEE802154E
       /\ queue[out].owner # COMPONENT_NULL
       /\ out \notin S => /\ queue[out].owner \notin InTransit
                          /\ out # mac.dataToSend

CustodyBut(S) ==
  MacHolds(queue, mac, S) /\ WaitingReady(queue) /\ TaskHolds(S)

Custody == CustodyBut(stray)

LEMMA CustodyInit == Init => Custody
<1>. SUFFICES ASSUME Init PROVE Custody
  OBVIOUS
<1>1. \A p \in Slots : queue[p] = reset_entry
  BY DEF Init, EmptyQueue
<1>2. Owned(mac) = {NULL} /\ mac.dataToSend = NULL
        /\ mac.dataReceived = NULL /\ mac.ackToSend = NULL
  BY DEF Init, NoPackets, Owned
<1>3. reset_entry.owner = COMPONENT_NULL
  BY DEF reset_entry
<1>. QED
  BY <1>1, <1>2, <1>3 DEF Init, Custody, MacHolds, MacCanEnd, WaitingReady,
       CustodyBut, TaskHolds, COMPONENT_NULL, COMPONENT_IEEE802154E,
       COMPONENT_SIXTOP_TO_IEEE802154E

LEMMA CustodyIsProperty ==
  ASSUME Control, Custody
  PROVE  MacCustody
<1>1. mac \in Pointers
  BY DEF Control, ControlType
<1>2. OwnedBy(queue, COMPONENT_IEEE802154E) \subseteq InMac
  BY <1>1, NullIsNoSlot DEF Custody, CustodyBut, MacHolds, MacCanEnd, Owned,
       OwnedBy, InMac, Pointers
<1>3. InMac \ stray \subseteq OwnedBy(queue, COMPONENT_IEEE802154E)
  BY <1>1, NullIsNoSlot DEF Custody, CustodyBut, MacHolds, OwnedBy, InMac,
       Pointers
<1>. QED
  BY <1>2, <1>3 DEF Custody, CustodyBut, MacHolds, MacCanEnd, MacCustody

(* What a task holds is not among the packets m of the MAC, and in q it is *)
(* as it was: what happens between queue and q is not a task's business.   *)
HeldApart(q, m, S) ==
  /\ msg # NULL => msg \notin Owned(m) /\ q[msg] = queue[msg]
  /\ out # NULL =>
       /\ out \notin {m.dataReceived, m.ackToSend}
       /\ q[out].creator = queue[out].creator
       /\ q[out].owner # COMPONENT_NULL
       /\ out \notin S => out \notin Owned(m) /\ q[out] = queue[out]

LEMMA MacIsApart ==
  ASSUME NEW S, Control, CustodyBut(S)
  PROVE  HeldApart(queue, mac, S)
BY DEF CustodyBut, MacHolds, TaskHolds, HeldApart, Owned, InTransit

(* The end of a slot gives back all the MAC has.                           *)
LEMMA CustodyEnded ==
  ASSUME NEW S, Typed, CustodyBut(S), UNCHANGED taskVars,
         NEW q \in Pools, NEW m \in Pointers, NEW tx \in Nat, NEW rx \in Nat,
         MacCanEnd(q, m), WaitingReady(q), HeldApart(q, m, S),
         endSlot(q, m, tx, rx)
  PROVE  CustodyBut(S)'
<1>. USE NullIsNoSlot
<1>1. /\ queue' \in Pools
      /\ \A r \in Slots \ Owned(m) : queue'[r] = q[r]
      /\ m.ackToSend # NULL => queue'[m.ackToSend] = reset_entry
      /\ m.dataReceived \notin {NULL, m.ackToSend} =>
           queue'[m.dataReceived].owner = COMPONENT_IEEE802154E_TO_SIXTOP
      /\ m.dataToSend \notin {NULL, m.ackToSend, m.dataReceived} =>
           /\ queue'[m.dataToSend].creator = q[m.dataToSend].creator
           /\ queue'[m.dataToSend].retriesLeft =
                Decrement(q[m.dataToSend].retriesLeft)
           /\ queue'[m.dataToSend].owner =
                IF Decrement(q[m.dataToSend].retriesLeft) = 0
                THEN COMPONENT_IEEE802154E_TO_SIXTOP
                ELSE COMPONENT_SIXTOP_TO_IEEE802154E
  <2>1. CountersType
    BY DEF Typed
  <2>. QED
    BY <2>1, EndSlotPool DEF Owned
<1>2. reset_entry.owner = COMPONENT_NULL
  BY DEF reset_entry
<1>3. mac' = NoPackets
  BY DEF endSlot
<1>4. Owned(NoPackets) = {NULL} /\ NoPackets.dataToSend = NULL
        /\ NoPackets.dataReceived = NULL /\ NoPackets.ackToSend = NULL
  BY DEF NoPackets, Owned
<1>5. ASSUME NEW r \in Slots
      PROVE  /\ queue'[r].owner # COMPONENT_IEEE802154E
             /\ queue'[r].owner = COMPONENT_SIXTOP_TO_IEEE802154E =>
                  /\ queue'[r].creator # COMPONENT_IEEE802154E
                  /\ queue'[r].retriesLeft > 0
  <2>1. CASE r \notin Owned(m)
    BY <1>1, <2>1 DEF MacCanEnd, WaitingReady
  <2>2. CASE r = m.ackToSend
    BY <1>1, <1>2, <2>2 DEF COMPONENT_NULL, COMPONENT_IEEE802154E,
         COMPONENT_SIXTOP_TO_IEEE802154E
  <2>3. CASE r = m.dataReceived /\ r # m.ackToSend
    BY <1>1, <2>3 DEF COMPONENT_IEEE802154E_TO_SIXTOP,
         COMPONENT_IEEE802154E, COMPONENT_SIXTOP_TO_IEEE802154E
  <2>4. CASE r = m.dataToSend /\ r \notin {m.ackToSend, m.dataReceived}
    <3>. DEFINE left == Decrement(q[r].retriesLeft)
    <3>1. left \in Nat
      <4>1. q[r].retriesLeft \in 0..UINT8_MAX
        BY DEF Pools, Entries
      <4>. QED
        BY <4>1, MacAssumption DEF Decrement
    <3>2. /\ queue'[r].creator # COMPONENT_IEEE802154E
          /\ queue'[r].retriesLeft = left
          /\ queue'[r].owner = IF left = 0
                               THEN COMPONENT_IEEE802154E_TO_SIXTOP
                               ELSE COMPONENT_SIXTOP_TO_IEEE802154E
      BY <1>1, <2>4 DEF MacCanEnd
    <3>. HIDE DEF left
    <3>. QED
      BY <3>1, <3>2 DEF COMPONENT_IEEE802154E_TO_SIXTOP,
           COMPONENT_IEEE802154E, COMPONENT_SIXTOP_TO_IEEE802154E
  <2>. QED
    BY <2>1, <2>2, <2>3, <2>4 DEF Owned
<1>6. MacHolds(queue', mac', S)
  BY <1>3, <1>4, <1>5 DEF MacHolds, MacCanEnd
<1>7. WaitingReady(queue')
  BY <1>5 DEF WaitingReady
<1>8. TaskHolds(S)'
  <2>1. /\ msg # NULL => msg \in Slots /\ queue'[msg] = queue[msg]
        /\ out # NULL /\ out \notin S =>
             out \in Slots /\ queue'[out] = queue[out]
    BY <1>1 DEF Typed, TaskType, HeldApart
  <2>2. out # NULL => /\ queue'[out].creator = queue[out].creator
                      /\ queue'[out].owner # COMPONENT_NULL
    BY <1>1 DEF Typed, TaskType, HeldApart, MacCanEnd, Owned, COMPONENT_NULL,
         COMPONENT_IEEE802154E_TO_SIXTOP, COMPONENT_SIXTOP_TO_IEEE802154E
  <2>. QED
    BY <1>3, <1>4, <2>1, <2>2 DEF CustodyBut, TaskHolds, taskVars
<1>. QED
  BY <1>6, <1>7, <1>8 DEF CustodyBut

(* A step that leaves the pool, the pointers and the tasks alone.          *)
LEMMA CustodyUnchanged ==
  ASSUME NEW S, CustodyBut(S), UNCHANGED <<queue, mac, msg, out>>
  PROVE  CustodyBut(S)'
BY DEF CustodyBut, MacHolds, MacCanEnd, WaitingReady, TaskHolds, Owned

(* Outside the phases that send or acknowledge the MAC has no packet.      *)
LEMMA MacHasNone ==
  ASSUME Control, state \notin TxStates \cup AckStates
  PROVE  /\ Owned(mac) = {NULL}
         /\ mac.dataToSend = NULL /\ mac.dataReceived = NULL
         /\ mac.ackToSend = NULL
BY DEF Control, SlotPackets, Owned

(* A buffer of the pool that is free is received into by the MAC.          *)
LEMMA ReceivedIs ==
  ASSUME Typed, NEW p \in Slots, NEW hop \in Hops
  PROVE  /\ Received(queue, p, hop) \in Pools
         /\ Received(queue, p, hop)[p].owner = COMPONENT_IEEE802154E
         /\ Received(queue, p, hop)[p].creator = COMPONENT_IEEE802154E
         /\ \A r \in Slots \ {p} : Received(queue, p, hop)[r] = queue[r]
<1>1. COMPONENT_IEEE802154E \in Components
  BY DEF Components, COMPONENT_IEEE802154E
<1>2. LET q == Received(queue, p, hop)
          e == [creator |-> COMPONENT_IEEE802154E,
                owner |-> COMPONENT_IEEE802154E, hop |-> hop,
                retriesLeft |-> 0]
      IN  q \in Pools /\ q[p] = e /\ \A r \in Slots \ {p} : q[r] = queue[r]
  BY <1>1, Allocated DEF Received, Typed
<1>. QED
  BY <1>2

(* A packet that is notified waits for sixtop.                             *)
LEMMA NotifiedIs ==
  ASSUME NEW q \in Pools, NEW p \in Slots
  PROVE  /\ Notify(q, p) \in Pools
         /\ Notify(q, p)[p].owner = COMPONENT_IEEE802154E_TO_SIXTOP
         /\ Notify(q, p)[p].creator = q[p].creator
         /\ \A r \in Slots \ {p} : Notify(q, p)[r] = q[r]
<1>1. COMPONENT_IEEE802154E_TO_SIXTOP \in Components
  BY DEF Components, COMPONENT_IEEE802154E_TO_SIXTOP
<1>. QED
  BY <1>1, OwnerSet DEF Notify

LEMMA TransmitCustody ==
  ASSUME NEW S, Typed, Control, CustodyBut(S), state = "S_SLEEP",
         UNCHANGED taskVars,
         NEW p \in OwnedBy(queue, COMPONENT_SIXTOP_TO_IEEE802154E),
         Transmit(p)
  PROVE  CustodyBut(S)'
<1>1. p \in Slots /\ queue[p].owner = COMPONENT_SIXTOP_TO_IEEE802154E
        /\ queue[p].creator # COMPONENT_IEEE802154E
        /\ queue[p].retriesLeft > 0
  BY DEF OwnedBy, CustodyBut, WaitingReady
<1>2. Owned(mac) = {NULL} /\ mac.dataReceived = NULL /\ mac.ackToSend = NULL
  BY MacHasNone DEF TxStates, AckStates
<1>3. /\ queue'[p].owner = COMPONENT_IEEE802154E
      /\ queue'[p].creator = queue[p].creator
      /\ queue'[p].retriesLeft = queue[p].retriesLeft
      /\ \A r \in Slots \ {p} : queue'[r] = queue[r]
  <2>1. COMPONENT_IEEE802154E \in Components
    BY DEF Components, COMPONENT_IEEE802154E
  <2>. QED
    BY <1>1, <2>1, OwnerSet DEF Transmit, Typed
<1>4. mac'.dataToSend = p /\ mac'.dataReceived = NULL
        /\ mac'.ackToSend = NULL
  BY <1>2 DEF Transmit, Control, ControlType, Pointers
<1>5. \A r \in Slots : queue[r].owner # COMPONENT_IEEE802154E
  BY <1>2, NullIsNoSlot DEF CustodyBut, MacHolds, MacCanEnd
<1>6. MacHolds(queue', mac', S)
  BY <1>1, <1>3, <1>4, <1>5, NullIsNoSlot DEF MacHolds, MacCanEnd, Owned,
       COMPONENT_IEEE802154E, COMPONENT_IEEE802154E_TO_SIXTOP
<1>7. WaitingReady(queue')
  BY <1>1, <1>3 DEF CustodyBut, WaitingReady, COMPONENT_IEEE802154E,
       COMPONENT_SIXTOP_TO_IEEE802154E
<1>8. TaskHolds(S)'
  <2>1. \A r \in {msg, out} \ {NULL} : r \in Slots
    BY DEF Typed, TaskType
  <2>. QED
    BY <1>1, <1>3, <1>4, <2>1 DEF CustodyBut, TaskHolds, taskVars, InTransit,
         COMPONENT_NULL, COMPONENT_IEEE802154E
<1>. QED
  BY <1>6, <1>7, <1>8 DEF CustodyBut

(* A buffer the radio fills: kept by the MAC, or reported at once.         *)
LEMMA ReceiveCustody ==
  ASSUME NEW S, Typed, Control, CustodyBut(S), UNCHANGED taskVars,
         Alloc(queue) # NULL, NEW hop \in Hops,
         \/ /\ state \notin TxStates \cup AckStates
            /\ mac' = [mac EXCEPT !.dataReceived = Alloc(queue)]
         \/ /\ state = "S_TXACKOFFSET"
            /\ mac' = [mac EXCEPT !.ackToSend = Alloc(queue)],
         queue' = Received(queue, Alloc(queue), hop)
  PROVE  CustodyBut(S)'
<1>. DEFINE p == Alloc(queue)
<1>1. p \in Slots /\ queue[p].owner = COMPONENT_NULL
  BY AllocFound DEF Alloc
<1>. HIDE DEF p
<1>2. /\ queue'[p].owner = COMPONENT_IEEE802154E
      /\ queue'[p].creator = COMPONENT_IEEE802154E
      /\ \A r \in Slots \ {p} : queue'[r] = queue[r]
  BY <1>1, ReceivedIs DEF p
<1>3. mac \in Pointers
  BY DEF Control, ControlType
<1>4. mac.dataToSend = NULL
  BY DEF Control, SlotPackets, TxStates
<1>5. p \notin Owned(mac)
  BY <1>1, <1>4, NullIsNoSlot DEF CustodyBut, MacHolds, Owned,
       COMPONENT_NULL, COMPONENT_IEEE802154E
<1>6. MacHolds(queue', mac', S)
  <2>1. CASE state \notin TxStates \cup AckStates
    <3>1. mac'.dataToSend = NULL /\ mac'.dataReceived = p
            /\ mac'.ackToSend = NULL
      BY <1>3, <2>1, MacHasNone DEF Pointers, AckStates, p
    <3>2. \A r \in Slots : queue[r].owner # COMPONENT_IEEE802154E
      BY <2>1, MacHasNone, NullIsNoSlot DEF CustodyBut, MacHolds, MacCanEnd
    <3>. QED
      BY <1>1, <1>2, <3>1, <3>2 DEF MacHolds, MacCanEnd, Owned
  <2>2. CASE state = "S_TXACKOFFSET"
    <3>1. mac'.dataToSend = NULL /\ mac'.dataReceived = mac.dataReceived
            /\ mac'.ackToSend = p
      BY <1>3, <1>4, <2>2 DEF Pointers, AckStates, p
    <3>2. mac.dataReceived \in Slots /\ mac.ackToSend = NULL
      BY <1>3, <2>2 DEF Control, SlotPackets, AckStates, Pointers
    <3>3. /\ queue[mac.dataReceived].owner = COMPONENT_IEEE802154E
          /\ queue[mac.dataReceived].creator = COMPONENT_IEEE802154E
          /\ \A r \in Slots : queue[r].owner = COMPONENT_IEEE802154E =>
               r = mac.dataReceived
      BY <1>4, <3>2, NullIsNoSlot DEF CustodyBut, MacHolds, MacCanEnd, Owned
    <3>4. p # mac.dataReceived
      BY <1>5 DEF Owned
    <3>. QED
      BY <1>1, <1>2, <3>1, <3>2, <3>3, <3>4 DEF MacHolds, MacCanEnd, Owned
  <2>. QED
    BY <2>1, <2>2
<1>7. WaitingReady(queue')
  BY <1>1, <1>2 DEF CustodyBut, WaitingReady, COMPONENT_IEEE802154E,
       COMPONENT_SIXTOP_TO_IEEE802154E
<1>8. TaskHolds(S)'
  <2>1. \A r \in {msg, out} \ {NULL} :
          r \in Slots /\ r # p /\ queue'[r] = queue[r]
    BY <1>1, <1>2 DEF CustodyBut, TaskHolds, Typed, TaskType, InTransit
  <2>2. mac'.dataToSend = NULL
    BY <1>3, <1>4 DEF Pointers
  <2>. QED
    BY <2>1, <2>2 DEF CustodyBut, TaskHolds, taskVars
<1>. QED
  BY <1>6, <1>7, <1>8 DEF CustodyBut

(* A frame received in a slot without a packet of the MAC goes up at once. *)
LEMMA PassedUpCustody ==
  ASSUME NEW S, Typed, Control, CustodyBut(S), UNCHANGED taskVars,
         state \notin TxStates \cup AckStates,
         Alloc(queue) # NULL, NEW hop \in Hops, NEW m \in Pointers,
         Owned(m) = {NULL}, m.dataToSend = NULL,
         LET p == Alloc(queue)
         IN  endSlot(Notify(Received(queue, p, hop), p), m, 0, 1)
  PROVE  CustodyBut(S)'
<1>. DEFINE p == Alloc(queue)
            q == Notify(Received(queue, p, hop), p)
<1>1. p \in Slots /\ queue[p].owner = COMPONENT_NULL
  BY AllocFound DEF Alloc
<1>2. endSlot(q, m, 0, 1)
  OBVIOUS
<1>. HIDE DEF p
<1>3. /\ q \in Pools
      /\ q[p].owner = COMPONENT_IEEE802154E_TO_SIXTOP
      /\ \A r \in Slots \ {p} : q[r] = queue[r]
  BY <1>1, ReceivedIs, NotifiedIs
<1>. HIDE DEF q
<1>4. \A r \in Slots : queue[r].owner # COMPONENT_IEEE802154E
  BY MacHasNone, NullIsNoSlot DEF CustodyBut, MacHolds, MacCanEnd
<1>5. MacCanEnd(q, m)
  BY <1>1, <1>3, <1>4 DEF MacCanEnd, COMPONENT_IEEE802154E,
       COMPONENT_IEEE802154E_TO_SIXTOP
<1>6. WaitingReady(q)
  BY <1>1, <1>3 DEF CustodyBut, WaitingReady, COMPONENT_IEEE802154E_TO_SIXTOP,
       COMPONENT_SIXTOP_TO_IEEE802154E
<1>7. HeldApart(q, m, S)
  <2>1. \A r \in {msg, out} \ {NULL} : q[r] = queue[r]
    BY <1>1, <1>3 DEF CustodyBut, TaskHolds, Typed, TaskType, InTransit
  <2>. QED
    BY <2>1 DEF CustodyBut, TaskHolds, HeldApart, Owned
<1>. QED
  BY <1>2, <1>3, <1>5, <1>6, <1>7, CustodyEnded

LEMMA AbortCustody ==
  ASSUME NEW S, Typed, Control, CustodyBut(S), UNCHANGED taskVars,
         NEW m \in Pointers, Owned(m) = Owned(mac),
         m.dataToSend = mac.dataToSend, m.dataReceived = mac.dataReceived,
         m.ackToSend = mac.ackToSend, endSlot(queue, m, 0, 0)
  PROVE  CustodyBut(S)'
<1>1. MacCanEnd(queue, m) /\ WaitingReady(queue) /\ queue \in Pools
  BY DEF CustodyBut, MacHolds, MacCanEnd, Typed
<1>2. HeldApart(queue, m, S)
  BY MacIsApart DEF HeldApart
<1>. QED
  BY <1>1, <1>2, CustodyEnded

(* The packet that was sent, or the frame that was received, goes up.      *)
LEMMA ReportCustody ==
  ASSUME NEW S, Typed, Control, CustodyBut(S), UNCHANGED taskVars,
         NEW p \in Owned(mac) \ {NULL}, NEW m \in Pointers,
         NEW tx \in Nat, NEW rx \in Nat,
         Owned(mac) \subseteq Owned(m) \cup {p},
         m.dataReceived \in {mac.dataReceived, NULL},
         m.ackToSend \in {mac.ackToSend, NULL}, m.dataToSend = NULL,
         p \notin Owned(m), endSlot(Notify(queue, p), m, tx, rx)
  PROVE  CustodyBut(S)'
<1>. DEFINE q == Notify(queue, p)
<1>1. p \in Slots /\ queue \in Pools
  BY DEF Control, ControlType, Pointers, Owned, Typed
<1>2. endSlot(q, m, tx, rx)
  OBVIOUS
<1>3. /\ q \in Pools
      /\ q[p].owner = COMPONENT_IEEE802154E_TO_SIXTOP
      /\ q[p].creator = queue[p].creator
      /\ \A r \in Slots \ {p} : q[r] = queue[r]
  BY <1>1, NotifiedIs
<1>. HIDE DEF q
<1>4. \A r \in Slots : q[r].owner = COMPONENT_IEEE802154E => r \in Owned(m)
  BY <1>3 DEF CustodyBut, MacHolds, MacCanEnd, COMPONENT_IEEE802154E,
       COMPONENT_IEEE802154E_TO_SIXTOP
<1>5. MacCanEnd(q, m)
  BY <1>4 DEF MacCanEnd
<1>6. WaitingReady(q)
  BY <1>1, <1>3 DEF CustodyBut, WaitingReady, COMPONENT_IEEE802154E_TO_SIXTOP,
       COMPONENT_SIXTOP_TO_IEEE802154E
<1>7. HeldApart(q, m, S)
  <2>1. HeldApart(queue, mac, S)
    BY MacIsApart
  <2>2. msg # NULL => msg \in Slots /\ msg # p
    BY <2>1 DEF HeldApart, Typed, TaskType
  <2>3. out # NULL => out \in Slots /\ (out \notin S => out # p)
    BY <2>1 DEF HeldApart, Typed, TaskType
  <2>4. out # NULL => out \notin {m.dataReceived, m.ackToSend}
    BY <2>1 DEF HeldApart
  <2>5. p # NULL
    OBVIOUS
  <2>6. ASSUME msg # NULL PROVE msg \notin Owned(m) /\ q[msg] = queue[msg]
    BY <1>3, <2>1, <2>2, <2>6 DEF HeldApart, Owned
  <2>7. ASSUME out # NULL, out \notin S
        PROVE  out \notin Owned(m) /\ q[out] = queue[out]
    BY <1>3, <2>1, <2>3, <2>7 DEF HeldApart, Owned
  <2>8. out # NULL => /\ q[out].creator = queue[out].creator
                      /\ q[out].owner # COMPONENT_NULL
    BY <1>3, <2>1, <2>3 DEF HeldApart, COMPONENT_NULL,
         COMPONENT_IEEE802154E_TO_SIXTOP
  <2>. QED
    BY <2>4, <2>6, <2>7, <2>8 DEF HeldApart
<1>. QED
  BY <1>2, <1>3, <1>5, <1>6, <1>7, CustodyEnded

LEMMA InterruptCustody ==
  ASSUME NEW S, Typed, Control, CustodyBut(S), Interrupt
  PROVE  CustodyBut(S)'
<1>. USE NullIsNoSlot
<1>1. UNCHANGED taskVars
  BY DEF Interrupt, isr_ieee154e_newSlot, isr_ieee154e_timer,
       ieee154e_startOfFrame, ieee154e_endOfFrame
<1>2. /\ queue \in Pools /\ mac \in Pointers
      /\ "none" \in Hops /\ Neighbors \subseteq Hops
  BY DEF Typed, Control, ControlType, Hops
<1>3. AbortSlot => CustodyBut(S)'
  BY <1>1, <1>2, AbortCustody DEF AbortSlot
<1>4. ASSUME UNCHANGED <<queue, mac>> PROVE CustodyBut(S)'
  BY <1>1, <1>4, CustodyUnchanged DEF taskVars
<1>5. ASSUME NEW from, NEW next, Advance(from, next) PROVE CustodyBut(S)'
  BY <1>4, <1>5 DEF Advance
<1>6. [mac EXCEPT !.dataToSend = NULL] \in Pointers
        /\ [mac EXCEPT !.dataReceived = NULL] \in Pointers
  BY <1>2 DEF Pointers
<1>7. ASSUME state \notin TxStates \cup AckStates
      PROVE  /\ [mac EXCEPT !.dataToSend = NULL] = mac
             /\ [mac EXCEPT !.dataReceived = NULL] = mac
  BY <1>2, <1>7, MacHasNone DEF Pointers
<1>8. CASE isr_ieee154e_newSlot
  <2>1. CASE ListenForEB \/ RootSynchronizes
    BY <1>4, <2>1 DEF ListenForEB, RootSynchronizes
  <2>2. CASE Desynchronize
    BY <1>1, <1>2, <2>2, AbortCustody DEF Desynchronize
  <2>3. CASE InactiveSlot
    BY <1>3, <2>3 DEF InactiveSlot
  <2>4. CASE TxCell
    BY <1>1, <1>3, <2>4, CellPacketFound, TransmitCustody
       DEF TxCell, Transmit
  <2>5. CASE TxRxCell
    <3>1. CASE state = "S_SLEEP" /\ Listen
      BY <1>4, <1>7, <3>1 DEF Listen, TxStates, AckStates
    <3>. QED
      BY <1>1, <2>5, <3>1, CellPacketFound, TransmitCustody
         DEF TxRxCell, Transmit
  <2>6. CASE RxCell
    BY <1>5, <2>6 DEF RxCell
  <2>. QED
    BY <1>8, <2>1, <2>2, <2>3, <2>4, <2>5, <2>6 DEF isr_ieee154e_newSlot
<1>9. CASE isr_ieee154e_timer
  <2>1. CASE \/ activity_ti2 \/ activity_ti3 \/ activity_ti6 \/ activity_ti7
             \/ activity_ri2 \/ activity_ri3 \/ activity_ri7 \/ Timeout
    BY <1>3, <1>5, <2>1 DEF activity_ti2, activity_ti3, activity_ti6,
         activity_ti7, activity_ri2, activity_ri3, activity_ri7, Timeout
  <2>2. CASE activity_ri6
    <3>. DEFINE a == Alloc(queue)
    <3>1. /\ mac.dataReceived \in Slots /\ mac.dataToSend = NULL
          /\ mac.ackToSend = NULL /\ state = "S_TXACKOFFSET"
      BY <1>2, <2>2 DEF activity_ri6, Control, SlotPackets, AckStates,
           TxStates, Pointers
    <3>2. CASE a = NULL /\ endSlot(Notify(queue, mac.dataReceived),
                             [mac EXCEPT !.dataReceived = NULL], 0, 1)
      <4>. DEFINE m == [mac EXCEPT !.dataReceived = NULL]
      <4>1. m \in Pointers /\ m.dataToSend = NULL /\ m.dataReceived = NULL
              /\ m.ackToSend = NULL
        BY <1>2, <3>1 DEF Pointers
      <4>2. endSlot(Notify(queue, mac.dataReceived), m, 0, 1)
        BY <3>2
      <4>. HIDE DEF m
      <4>. QED
        BY <1>1, <3>1, <4>1, <4>2, ReportCustody DEF Owned
    <3>3. CASE a # NULL /\ queue' = Received(queue, a, "none")
                 /\ mac' = [mac EXCEPT !.ackToSend = a]
      BY <1>1, <1>2, <3>1, <3>3, ReceiveCustody
    <3>4. CASE a # NULL /\ endSlot(freePacketBuffer(queue, a),
                             [mac EXCEPT !.ackToSend = a], 0, 0)
      <4>. DEFINE m == [mac EXCEPT !.ackToSend = a]
                  q == freePacketBuffer(queue, a)
      <4>1. a \in Slots /\ queue[a].owner = COMPONENT_NULL
        BY <3>4, AllocFound DEF Alloc
      <4>2. m \in Pointers /\ m.dataToSend = NULL
              /\ m.dataReceived = mac.dataReceived /\ m.ackToSend = a
        BY <1>2, <3>1, <4>1 DEF Pointers
      <4>3. q \in Pools /\ q[a].owner = COMPONENT_NULL
              /\ \A r \in Slots \ {a} : q[r] = queue[r]
        BY <1>2, <4>1, Freed DEF reset_entry
      <4>4. endSlot(q, m, 0, 0)
        BY <3>4
      <4>. HIDE DEF a, m, q
      <4>5. MacCanEnd(q, m)
        BY <3>1, <4>1, <4>2, <4>3 DEF CustodyBut, MacHolds, MacCanEnd, Owned,
             COMPONENT_NULL, COMPONENT_IEEE802154E
      <4>6. WaitingReady(q)
        BY <4>1, <4>3 DEF CustodyBut, WaitingReady, COMPONENT_NULL,
             COMPONENT_SIXTOP_TO_IEEE802154E
      <4>7. HeldApart(q, m, S)
        <5>1. \A r \in {msg, out} \ {NULL} :
                r \in Slots /\ r # a /\ r # mac.dataReceived
          <6>1. HeldApart(queue, mac, S)
            BY MacIsApart
          <6>. QED
            BY <3>1, <4>1, <6>1 DEF CustodyBut, HeldApart, Owned, TaskHolds,
                 InTransit, Typed, TaskType
        <5>. QED
          BY <4>2, <4>3, <5>1 DEF CustodyBut, TaskHolds, HeldApart, Owned
      <4>. QED
        BY <1>1, <4>2, <4>3, <4>4, <4>5, <4>6, <4>7, CustodyEnded
    <3>. QED
      BY <2>2, <3>2, <3>3, <3>4 DEF activity_ri6
  <2>. QED
    BY <1>9, <2>1, <2>2 DEF isr_ieee154e_timer
<1>10. CASE ieee154e_startOfFrame
  BY <1>3, <1>4, <1>5, <1>10 DEF ieee154e_startOfFrame, activity_ti4,
       activity_synchronize_startOfFrame, activity_ti8, activity_ri4,
       activity_ri8, UnexpectedStart
<1>11. CASE ieee154e_endOfFrame
  <2>1. CASE activity_synchronize_endOfFrame
    <3>1. state \notin TxStates \cup AckStates
      BY <2>1 DEF activity_synchronize_endOfFrame, Control, UnsyncedIdle,
           IdleStates, TxStates, AckStates
    <3>2. [mac EXCEPT !.dataReceived = NULL] = mac
      BY <1>7, <3>1
    <3>3. Owned(mac) = {NULL} /\ mac.dataToSend = NULL
      BY <3>1, MacHasNone
    <3>4. CASE endSlot(queue, mac, 0, 0)
      BY <1>1, <1>2, <3>4, AbortCustody
    <3>5. CASE UNCHANGED <<queue, mac>>
      BY <1>4, <3>5
    <3>6. ASSUME NEW n \in Neighbors, Alloc(queue) # NULL,
                 LET p == Alloc(queue)
                 IN  endSlot(Notify(Received(queue, p, n), p), mac, 0, 1)
          PROVE  CustodyBut(S)'
      BY <1>1, <1>2, <3>1, <3>3, <3>6, PassedUpCustody
    <3>. QED
      BY <2>1, <3>2, <3>4, <3>5, <3>6 DEF activity_synchronize_endOfFrame
  <2>2. CASE activity_ti5 \/ activity_ti9
    <3>1. /\ mac.dataToSend \in Slots /\ mac.dataReceived = NULL
          /\ mac.ackToSend = NULL
      BY <1>2, <2>2 DEF activity_ti5, activity_ti9, Control, SlotPackets,
           AckStates, TxStates, Pointers
    <3>2. CASE endSlot(Notify(queue, mac.dataToSend),
                       [mac EXCEPT !.dataToSend = NULL], 1, 0)
      <4>. DEFINE m == [mac EXCEPT !.dataToSend = NULL]
      <4>1. m \in Pointers /\ m.dataToSend = NULL /\ m.dataReceived = NULL
              /\ m.ackToSend = NULL
        BY <1>2, <3>1 DEF Pointers
      <4>2. endSlot(Notify(queue, mac.dataToSend), m, 1, 0)
        BY <3>2
      <4>. HIDE DEF m
      <4>. QED
        BY <1>1, <3>1, <4>1, <4>2, ReportCustody DEF Owned
    <3>. QED
      BY <1>3, <1>4, <2>2, <3>2 DEF activity_ti5, activity_ti9
  <2>3. CASE activity_ri5
    <3>1. state \notin TxStates \cup AckStates
      BY <2>3 DEF activity_ri5, TxStates, AckStates
    <3>2. Owned(mac) = {NULL} /\ mac.dataToSend = NULL
      BY <3>1, MacHasNone
    <3>3. ASSUME NEW n \in Neighbors, Alloc(queue) # NULL,
                 queue' = Received(queue, Alloc(queue), n),
                 mac' = [mac EXCEPT !.dataReceived = Alloc(queue)]
          PROVE  CustodyBut(S)'
      BY <1>1, <1>2, <3>1, <3>3, ReceiveCustody
    <3>4. ASSUME NEW n \in Neighbors, Alloc(queue) # NULL,
                 LET p == Alloc(queue)
                 IN  endSlot(Notify(Received(queue, p, n), p), mac, 0, 1)
          PROVE  CustodyBut(S)'
      BY <1>1, <1>2, <3>1, <3>2, <3>4, PassedUpCustody
    <3>. QED
      BY <1>3, <2>3, <3>3, <3>4 DEF activity_ri5
  <2>4. CASE activity_ri9
    <3>. DEFINE d == mac.dataReceived
                f == freePacketBuffer(queue, mac.ackToSend)
                q == Notify(f, d)
    <3>1. mac.ackToSend \in Slots /\ d \in Slots /\ mac.dataToSend = NULL
      BY <1>2, <2>4 DEF activity_ri9, Control, SlotPackets, AckStates,
           TxStates, Pointers
    <3>2. f \in Pools /\ f[mac.ackToSend].owner = COMPONENT_NULL
            /\ \A r \in Slots \ {mac.ackToSend} : f[r] = queue[r]
      BY <1>2, <3>1, Freed DEF reset_entry
    <3>3. endSlot(q, NoPackets, 0, 1)
      BY <2>4 DEF activity_ri9
    <3>. HIDE DEF f
    <3>4. q \in Pools /\ q[d].owner = COMPONENT_IEEE802154E_TO_SIXTOP
            /\ \A r \in Slots \ {d} : q[r] = f[r]
      BY <3>1, <3>2, NotifiedIs
    <3>. HIDE DEF q
    <3>5. Owned(NoPackets) = {NULL} /\ NoPackets.dataToSend = NULL
            /\ NoPackets \in Pointers
      BY DEF NoPackets, Owned, Pointers
    <3>6. MacCanEnd(q, NoPackets)
      <4>1. \A r \in Slots : queue[r].owner = COMPONENT_IEEE802154E =>
              r \in {d, mac.ackToSend}
        BY <3>1 DEF CustodyBut, MacHolds, MacCanEnd, Owned
      <4>. QED
        BY <3>1, <3>2, <3>4, <3>5, <4>1 DEF MacCanEnd, COMPONENT_NULL,
             COMPONENT_IEEE802154E, COMPONENT_IEEE802154E_TO_SIXTOP
    <3>7. WaitingReady(q)
      BY <3>1, <3>2, <3>4 DEF CustodyBut, WaitingReady, COMPONENT_NULL,
           COMPONENT_IEEE802154E_TO_SIXTOP, COMPONENT_SIXTOP_TO_IEEE802154E
    <3>8. HeldApart(q, NoPackets, S)
      <4>1. HeldApart(queue, mac, S)
        BY MacIsApart
      <4>2. \A r \in {msg, out} \ {NULL} :
              r \in Slots /\ r # d /\ r # mac.ackToSend
        BY <4>1 DEF HeldApart, Owned, Typed, TaskType
      <4>3. \A r \in {msg, out} \ {NULL} : q[r] = queue[r]
        BY <3>2, <3>4, <4>2
      <4>. QED
        BY <3>5, <4>1, <4>3 DEF HeldApart, Owned
    <3>. QED
      BY <1>1, <3>3, <3>4, <3>5, <3>6, <3>7, <3>8, CustodyEnded
  <2>5. CASE UnexpectedEnd
    BY <1>3, <2>5 DEF UnexpectedEnd
  <2>. QED
    BY <1>11, <2>1, <2>2, <2>3, <2>4, <2>5 DEF ieee154e_endOfFrame
<1>. QED
  BY <1>8, <1>9, <1>10, <1>11 DEF Interrupt

(* A task that writes an entry that is not the MAC's leaves the MAC what   *)
(* it has.                                                                 *)
LEMMA TaskWrites ==
  ASSUME NEW S, Typed, Control, CustodyBut(S), UNCHANGED mac, NEW p \in Slots,
         p \notin {mac.dataReceived, mac.ackToSend},
         p = mac.dataToSend =>
           p \in S /\ queue'[p].creator # COMPONENT_IEEE802154E,
         queue'[p].owner \notin {COMPONENT_IEEE802154E,
                                 COMPONENT_IEEE802154E_TO_SIXTOP},
         queue'[p].owner = COMPONENT_SIXTOP_TO_IEEE802154E =>
           /\ queue'[p].creator # COMPONENT_IEEE802154E
           /\ queue'[p].retriesLeft > 0,
         \A r \in Slots \ {p} : queue'[r] = queue[r]
  PROVE  MacHolds(queue', mac', S) /\ WaitingReady(queue')
<1>1. Owned(mac) \ {NULL} \subseteq Slots
  BY DEF Owned, Control, ControlType, Pointers
<1>2. MacHolds(queue', mac', S)
  BY <1>1 DEF CustodyBut, MacHolds, MacCanEnd, Owned
<1>3. WaitingReady(queue')
  BY DEF CustodyBut, WaitingReady
<1>. QED
  BY <1>2, <1>3

(* A task holds no buffer of the MAC, but for one purged under the MAC.    *)
LEMMA HeldIsNotMacs ==
  ASSUME NEW S, Control, CustodyBut(S), NEW p \in {msg, out}, p # NULL
  PROVE  /\ p \notin {mac.dataReceived, mac.ackToSend}
         /\ p = mac.dataToSend => p \in S
BY MacIsApart DEF HeldApart, Owned

(* What is purged is excepted, if the MAC is sending it.                   *)
LEMMA PurgeCustody ==
  ASSUME NEW S, Typed, Control, CustodyBut(S), UNCHANGED radioVars,
         NEW creator \in Components \ {COMPONENT_IEEE802154E}, NEW flags,
         Purge(creator, flags),
         mac.dataToSend # NULL /\ queue[mac.dataToSend].creator = creator =>
           mac.dataToSend \in S
  PROVE  CustodyBut(S)'
<1>1. \A r \in Slots : queue'[r] =
        IF queue[r].creator = creator THEN reset_entry ELSE queue[r]
  BY Purged DEF Purge, Typed
<1>2. reset_entry.owner = COMPONENT_NULL
        /\ reset_entry.creator = COMPONENT_NULL
  BY DEF reset_entry
<1>3. Owned(mac) \ {NULL} \subseteq Slots
  BY DEF Owned, Control, ControlType, Pointers
<1>4. UNCHANGED mac /\ msg = NULL /\ out = NULL /\ UNCHANGED <<msg, out>>
  BY DEF radioVars, Purge, MayStart, Typed, TaskType
<1>5. \A r \in Slots : \/ queue'[r] = queue[r]
                       \/ /\ queue'[r].owner = COMPONENT_NULL
                          /\ queue'[r].creator = COMPONENT_NULL
                          /\ queue[r].creator = creator
  BY <1>1, <1>2
<1>6. MacHolds(queue', mac', S)
  BY <1>3, <1>4, <1>5 DEF CustodyBut, MacHolds, MacCanEnd, Owned,
       COMPONENT_NULL, COMPONENT_IEEE802154E, COMPONENT_IEEE802154E_TO_SIXTOP
<1>7. WaitingReady(queue')
  BY <1>5 DEF CustodyBut, WaitingReady, COMPONENT_NULL,
       COMPONENT_SIXTOP_TO_IEEE802154E
<1>. QED
  BY <1>4, <1>6, <1>7 DEF CustodyBut, TaskHolds

LEMMA TakeCustody ==
  ASSUME NEW S, Typed, Control, CustodyBut(S), UNCHANGED mac, task \in {"rx",
         "txdone"},
         NEW p \in OwnedBy(queue, COMPONENT_IEEE802154E_TO_SIXTOP)
                     \cup {NULL},
         NEW next, NEW error, Take(p, next, error)
  PROVE  CustodyBut(S)'
<1>1. msg = NULL /\ out = NULL
  BY DEF Typed, TaskType
<1>2. CASE p = NULL
  BY <1>1, <1>2, CustodyUnchanged DEF Take, EndTask
<1>3. CASE p # NULL
  <2>1. p \in Slots /\ queue[p].owner = COMPONENT_IEEE802154E_TO_SIXTOP
    BY <1>3 DEF OwnedBy
  <2>2. /\ queue'[p].owner = COMPONENT_SIXTOP
        /\ \A r \in Slots \ {p} : queue'[r] = queue[r]
    <3>1. COMPONENT_SIXTOP \in Components
      BY DEF Components, COMPONENT_SIXTOP
    <3>. QED
      BY <1>3, <2>1, <3>1, OwnerSet DEF Take, Typed
  <2>3. MacHolds(queue', mac', S) /\ WaitingReady(queue')
    <3>1. p \notin Owned(mac)
      BY <2>1, NullIsNoSlot DEF CustodyBut, MacHolds, Owned,
           COMPONENT_IEEE802154E, COMPONENT_IEEE802154E_TO_SIXTOP
    <3>. QED
      BY <2>1, <2>2, <3>1, TaskWrites DEF Owned, COMPONENT_SIXTOP,
           COMPONENT_IEEE802154E, COMPONENT_SIXTOP_TO_IEEE802154E,
           COMPONENT_IEEE802154E_TO_SIXTOP
  <2>4. TaskHolds(S)'
    <3>1. p # mac.dataToSend
      BY <1>3, <2>1 DEF CustodyBut, MacHolds
    <3>. QED
      BY <1>1, <1>3, <2>2, <3>1 DEF Take, TaskHolds, InTransit,
           COMPONENT_SIXTOP, COMPONENT_NULL, COMPONENT_IEEE802154E,
           COMPONENT_SIXTOP_TO_IEEE802154E, COMPONENT_IEEE802154E_TO_SIXTOP
  <2>. QED
    BY <2>3, <2>4 DEF CustodyBut
<1>. QED
  BY <1>2, <1>3

(* The components that originate packets.                                  *)
Senders == {COMPONENT_SIXTOP, COMPONENT_SIXTOP_RES, COMPONENT_OPENBRIDGE,
            COMPONENT_ICMPv6RPL, COMPONENT_UINJECT, COMPONENT_OPENCOAP,
            COMPONENT_FORWARDING}

LEMMA SendersAre ==
  /\ Senders \subseteq Components
  /\ Senders \cap InTransit = {}
  /\ COMPONENT_IEEE802154E \notin Senders
  /\ AppCreators \subseteq Senders
BY MacAssumption DEF Senders, InTransit, Components, COMPONENT_SIXTOP,
     COMPONENT_SIXTOP_RES, COMPONENT_OPENBRIDGE, COMPONENT_ICMPv6RPL,
     COMPONENT_UINJECT, COMPONENT_OPENCOAP, COMPONENT_FORWARDING,
     COMPONENT_NULL, COMPONENT_IEEE802154E, COMPONENT_SIXTOP_TO_IEEE802154E,
     COMPONENT_IEEE802154E_TO_SIXTOP

LEMMA NewPacketCustody ==
  ASSUME NEW S, Typed, Control, CustodyBut(S), UNCHANGED mac,
         NEW creator \in Senders,
         NEW hop \in Hops, NEW next, task \in {"none", "receive"},
         NewPacket(creator, hop, next)
  PROVE  CustodyBut(S)'
<1>. DEFINE p == getFreePacketBuffer(queue, creator, isSync)
<1>1. p \in Slots /\ queue[p].owner = COMPONENT_NULL
  BY AllocFound DEF NewPacket
<1>2. LET e == [creator |-> creator, owner |-> creator, hop |-> hop,
                retriesLeft |-> 0]
      IN  queue'[p] = e /\ \A r \in Slots \ {p} : queue'[r] = queue[r]
  BY <1>1, SendersAre, Allocated DEF NewPacket, Typed
<1>3. out' = p /\ msg' = msg
  BY DEF NewPacket
<1>. HIDE DEF p
<1>4. queue'[p].owner = creator /\ queue'[p].creator = creator
        /\ \A r \in Slots \ {p} : queue'[r] = queue[r]
  BY <1>2
<1>5. creator \notin InTransit /\ creator # COMPONENT_IEEE802154E
  BY SendersAre
<1>6. MacHolds(queue', mac', S) /\ WaitingReady(queue')
  <2>1. p \notin {mac.dataReceived, mac.ackToSend}
          /\ (p = mac.dataToSend => p \in S)
    BY <1>1, NullIsNoSlot DEF CustodyBut, MacHolds, COMPONENT_NULL,
         COMPONENT_IEEE802154E
  <2>. QED
    BY <1>1, <1>4, <1>5, <2>1, TaskWrites DEF InTransit
<1>7. msg # NULL => msg # p /\ msg \in Slots
  BY <1>1 DEF CustodyBut, TaskHolds, InTransit, Typed, TaskType
<1>8. TaskHolds(S)'
  <2>1. p \notin S => p # mac.dataToSend
    BY <1>1, NullIsNoSlot DEF CustodyBut, MacHolds, COMPONENT_NULL,
         COMPONENT_IEEE802154E
  <2>2. creator # COMPONENT_NULL
    BY <1>5 DEF InTransit
  <2>. QED
    BY <1>3, <1>4, <1>5, <1>7, <2>1, <2>2 DEF CustodyBut, TaskHolds
<1>. QED
  BY <1>6, <1>8 DEF CustodyBut

(* A task frees what it holds.                                             *)
LEMMA FreeCustody ==
  ASSUME NEW S, Typed, Control, CustodyBut(S), UNCHANGED mac, NEW p \in {msg,
         out},
         p # NULL, queue' = freePacketBuffer(queue, p)
  PROVE  MacHolds(queue', mac', S) /\ WaitingReady(queue')
           /\ \A r \in Slots \ {p} : queue'[r] = queue[r]
<1>1. p \in Slots
  BY DEF Typed, TaskType
<1>2. /\ queue'[p].owner = COMPONENT_NULL
      /\ queue'[p].creator = COMPONENT_NULL
      /\ \A r \in Slots \ {p} : queue'[r] = queue[r]
  BY <1>1, Freed DEF Typed, reset_entry
<1>. QED
  BY <1>1, <1>2, HeldIsNotMacs, TaskWrites DEF COMPONENT_NULL,
       COMPONENT_IEEE802154E, COMPONENT_SIXTOP_TO_IEEE802154E,
       COMPONENT_IEEE802154E_TO_SIXTOP

(* A packet handed to sixtop waits for the MAC, ready to be sent.          *)
LEMMA HandOverCustody ==
  ASSUME NEW S, Typed, Control, CustodyBut(S), UNCHANGED mac, NEW q \in Pools,
         NEW p \in Slots \cap {msg, out},
         q[p].creator # COMPONENT_IEEE802154E,
         \A r \in Slots \ {p} : q[r] = queue[r],
         queue' = sixtop_send(q, p)
  PROVE  MacHolds(queue', mac', S) /\ WaitingReady(queue')
           /\ \A r \in Slots \ {p} : queue'[r] = queue[r]
<1>1. /\ queue'[p].owner = COMPONENT_SIXTOP_TO_IEEE802154E
      /\ queue'[p].creator = q[p].creator
      /\ queue'[p].retriesLeft \in 1..(TXRETRIES + 1)
      /\ \A r \in Slots \ {p} : queue'[r] = q[r]
  BY Sent
<1>2. queue'[p].retriesLeft > 0
  BY <1>1, MacAssumption
<1>. QED
  BY <1>1, <1>2, NullIsNoSlot, HeldIsNotMacs, TaskWrites
     DEF COMPONENT_IEEE802154E, COMPONENT_SIXTOP_TO_IEEE802154E,
         COMPONENT_IEEE802154E_TO_SIXTOP

LEMMA TasksCustody ==
  ASSUME NEW S, Typed, Control, CustodyBut(S), Tasks
  PROVE  CustodyBut(S)'
<1>. USE NullIsNoSlot
<1>1. UNCHANGED radioVars /\ UNCHANGED mac
  BY DEF Tasks, radioVars
<1>2. "none" \in Hops /\ "broadcast" \in Hops /\ Neighbors \subseteq Hops
  BY DEF Hops
<1>3. queue \in Pools /\ TaskType
  BY DEF Typed
<1>4. CASE StartNotifReceive \/ StartNotifSendDone
  BY <1>1, <1>4, CustodyUnchanged DEF StartNotifReceive, StartNotifSendDone
<1>5. CASE TakeReceived
  <2>1. sixtopGetReceivedPacket(queue) \in
          OwnedBy(queue, COMPONENT_IEEE802154E_TO_SIXTOP) \cup {NULL}
    BY FirstFound DEF sixtopGetReceivedPacket, OwnedBy
  <2>. QED
    BY <1>1, <1>5, <2>1, TakeCustody DEF TakeReceived
<1>6. CASE TakeSent
  <2>1. sixtopGetSentPacket(queue) \in
          OwnedBy(queue, COMPONENT_IEEE802154E_TO_SIXTOP) \cup {NULL}
    BY FirstFound DEF sixtopGetSentPacket, OwnedBy
  <2>. QED
    BY <1>1, <1>6, <2>1, TakeCustody DEF TakeSent
<1>7. ASSUME EndTask, MacHolds(queue', mac', S), WaitingReady(queue')
      PROVE  CustodyBut(S)'
  BY <1>7 DEF EndTask, CustodyBut, TaskHolds
<1>8. ASSUME EndTask, msg # NULL, queue' = freePacketBuffer(queue, msg)
      PROVE  CustodyBut(S)'
  BY <1>1, <1>7, <1>8, FreeCustody
<1>9. Consume => CustodyBut(S)'
  BY <1>3, <1>8 DEF Consume, TaskType
<1>10. ASSUME task = "receive", NEW creator \in Senders, Resend(creator)
       PROVE  CustodyBut(S)'
  <2>1. msg \in Slots /\ queue[msg].owner \notin InTransit
    BY <1>3, <1>10 DEF TaskType, CustodyBut, TaskHolds
  <2>2. ASSUME NEW n \in Neighbors,
               queue' = sixtop_send(Allocate(queue, msg, creator, creator, n),
                                    msg)
        PROVE  MacHolds(queue', mac', S) /\ WaitingReady(queue')
    <3>. DEFINE q == Allocate(queue, msg, creator, creator, n)
    <3>1. LET e == [creator |-> creator, owner |-> creator, hop |-> n,
                    retriesLeft |-> 0]
          IN  q \in Pools /\ q[msg] = e
                /\ \A r \in Slots \ {msg} : q[r] = queue[r]
      BY <1>2, <1>3, <2>1, SendersAre, Allocated
    <3>2. queue' = sixtop_send(q, msg)
      BY <2>2
    <3>. HIDE DEF q
    <3>3. q[msg].creator # COMPONENT_IEEE802154E
      BY <3>1, SendersAre
    <3>. QED
      BY <1>1, <2>1, <3>1, <3>2, <3>3, HandOverCustody
  <2>. QED
    BY <1>7, <1>8, <1>10, <2>1, <2>2 DEF Resend
<1>11. CASE CoapRespond
  BY <1>10, <1>11 DEF CoapRespond, Senders
<1>12. ASSUME NEW mode, Relay(mode) PROVE CustodyBut(S)'
  <2>1. msg \in Slots /\ queue[msg].owner \notin InTransit
          /\ task = "receive"
    BY <1>3, <1>12 DEF Relay, TaskType, CustodyBut, TaskHolds
  <2>2. ASSUME queue' = Allocate(queue, msg, COMPONENT_FORWARDING,
                                 COMPONENT_FORWARDING, "none")
        PROVE  MacHolds(queue', mac', S) /\ WaitingReady(queue')
    <3>1. COMPONENT_FORWARDING \in Senders
      BY DEF Senders
    <3>2. LET e == [creator |-> COMPONENT_FORWARDING,
                    owner |-> COMPONENT_FORWARDING, hop |-> "none",
                    retriesLeft |-> 0]
          IN  queue'[msg] = e
                /\ \A r \in Slots \ {msg} : queue'[r] = queue[r]
      BY <1>2, <1>3, <2>1, <2>2, <3>1, SendersAre, Allocated
    <3>3. queue'[msg].owner \notin InTransit
            /\ queue'[msg].creator # COMPONENT_IEEE802154E
            /\ \A r \in Slots \ {msg} : queue'[r] = queue[r]
      BY <3>1, <3>2, SendersAre
    <3>. QED
      BY <1>1, <2>1, <3>3, HeldIsNotMacs, TaskWrites DEF InTransit
  <2>3. COMPONENT_FORWARDING \in Senders
    BY DEF Senders
  <2>. QED
    BY <1>7, <1>9, <1>10, <1>12, <2>1, <2>2, <2>3 DEF Relay
<1>13. CASE SendDone
  BY <1>3, <1>8, <1>13 DEF SendDone, TaskType
<1>14. CASE Send
  <2>1. out \in Slots /\ queue[out].creator # COMPONENT_IEEE802154E
    BY <1>3, <1>14 DEF Send, TaskType, CustodyBut, TaskHolds
  <2>2. /\ MacHolds(queue', mac', S) /\ WaitingReady(queue')
        /\ \A r \in Slots \ {out} : queue'[r] = queue[r]
    BY <1>1, <1>3, <1>14, <2>1, HandOverCustody, FreeCustody DEF Send
  <2>3. out' = NULL /\ msg' \in {msg, NULL}
    BY <1>14 DEF Send, AfterSend
  <2>4. TaskHolds(S)'
    BY <1>1, <1>3, <2>1, <2>2, <2>3 DEF TaskType, CustodyBut, TaskHolds
  <2>. QED
    BY <2>2, <2>4 DEF CustodyBut
<1>15. CASE Answer
  BY <1>1, <1>2, <1>15, SendersAre, NewPacketCustody DEF Answer
<1>16. CASE Posted
  <2>1. /\ {COMPONENT_SIXTOP, COMPONENT_ICMPv6RPL} \subseteq Senders
        /\ {COMPONENT_SIXTOP, COMPONENT_ICMPv6RPL}
             \subseteq Components \ {COMPONENT_IEEE802154E}
    BY SendersAre DEF Senders
  <2>7. ~isSync => mac.dataToSend = NULL
    BY MacHasNone DEF Control, UnsyncedIdle, IdleStates, TxStates, AckStates
  <2>2. CASE sixtop_sendEB
    BY <1>1, <1>2, <2>1, <2>2, <2>7, NewPacketCustody, PurgeCustody
       DEF sixtop_sendEB, MayStart
  <2>3. CASE sixtop_sendKA
    BY <1>1, <1>2, <2>1, <2>3, <2>7, NewPacketCustody, PurgeCustody
       DEF sixtop_sendKA, MayStart
  <2>4. CASE sendDIO
    BY <1>1, <1>2, <2>1, <2>4, <2>7, NewPacketCustody, PurgeCustody
       DEF sendDIO, MayStart
  <2>5. CASE sendDAO
    BY <1>1, <1>2, <2>1, <2>5, <2>7, NewPacketCustody, PurgeCustody
       DEF sendDAO, MayStart
  <2>6. CASE Originate
    BY <1>1, <1>2, <2>6, SendersAre, NewPacketCustody
       DEF Originate, MayStart
  <2>. QED
    BY <1>16, <2>2, <2>3, <2>4, <2>5, <2>6 DEF Posted
<1>. QED
  BY <1>4, <1>5, <1>6, <1>9, <1>11, <1>12, <1>13, <1>14, <1>15, <1>16
     DEF Tasks, Notified

(* sixtop_sendEB of a mote that is synchronized may purge what the MAC is  *)
(* sending.                                                                *)
LEMMA PurgesCustody ==
  ASSUME NEW S, Typed, Control, CustodyBut(S), PurgedUnderMac \subseteq S,
         sendEB_purges
  PROVE  CustodyBut(S)'
<1>1. COMPONENT_SIXTOP \in Components \ {COMPONENT_IEEE802154E}
  BY DEF Components, COMPONENT_SIXTOP, COMPONENT_IEEE802154E
<1>2. /\ UNCHANGED radioVars
      /\ Purge(COMPONENT_SIXTOP, {"EB", "KA"})
  BY DEF sendEB_purges
<1>3. mac.dataToSend # NULL
        /\ queue[mac.dataToSend].creator = COMPONENT_SIXTOP =>
          mac.dataToSend \in S
  BY NullIsNoSlot DEF PurgedUnderMac, InMac, Control, ControlType, Pointers
<1>. QED
  BY <1>1, <1>2, <1>3, PurgeCustody

(* The more is excepted, the less is claimed.                              *)
LEMMA CustodyOfLess ==
  ASSUME NEW S, NEW R, S \subseteq R, CustodyBut(S)
  PROVE  CustodyBut(R)
BY DEF CustodyBut, MacHolds, TaskHolds

(* What is no longer stray is not with the MAC or a task.                  *)
LEMMA StrayKept ==
  ASSUME StrayType, NEW purged \in SUBSET Slots, Strays(purged), Control',
         NEW p \in stray \cup purged,
         \/ p \in {mac'.dataToSend, mac'.dataReceived, mac'.ackToSend,
                   msg', out'}
         \/ queue'[p].owner # COMPONENT_NULL
         \/ txDone' > 0 \/ "txdone" \in {task, task'}
  PROVE  p \in stray'
<1>1. p # NULL
  BY NullIsNoSlot DEF StrayType
<1>. QED
  BY <1>1 DEF Strays, InMac

LEMMA CustodyStep ==
  ASSUME Typed, Control, StrayType, Custody, [Next]_vars
  PROVE  Custody'
<1>1. ASSUME NEW purged \in SUBSET Slots, NEW S, S = stray \cup purged,
             Strays(purged), CustodyBut(S)'
      PROVE  Custody'
  <2>1. Control'
    BY ControlStep
  <2>2. mac'.dataToSend \in S => mac'.dataToSend \in stray'
    BY <1>1, <2>1, StrayKept
  <2>3. out' \in S => out' \in stray'
    BY <1>1, <2>1, StrayKept
  <2>. QED
    BY <1>1, <2>2, <2>3 DEF Custody, CustodyBut, MacHolds, TaskHolds
<1>2. CASE (Interrupt \/ Tasks) /\ Strays({})
  <2>1. PICK S : S = stray
    OBVIOUS
  <2>2. CustodyBut(S)
    BY <2>1 DEF Custody
  <2>3. CustodyBut(S)'
    BY <1>2, <2>2, InterruptCustody, TasksCustody
  <2>. QED
    BY <1>1, <1>2, <2>1, <2>3
<1>3. CASE sendEB_purges /\ Strays(PurgedUnderMac)
  <2>1. PICK S : S = stray \cup PurgedUnderMac
    OBVIOUS
  <2>2. CustodyBut(S)
    BY <2>1, CustodyOfLess DEF Custody
  <2>3. PurgedUnderMac \subseteq Slots
    BY DEF PurgedUnderMac, InMac, Control, ControlType, Pointers
  <2>4. CustodyBut(S)'
    BY <1>3, <2>1, <2>2, PurgesCustody
  <2>. QED
    BY <1>1, <1>3, <2>1, <2>3, <2>4
<1>4. CASE UNCHANGED vars
  BY <1>4 DEF vars, radioVars, taskVars, Custody, CustodyBut, MacHolds,
       MacCanEnd, WaitingReady, TaskHolds, Owned
<1>. QED
  BY <1>2, <1>3, <1>4 DEF Next

(* No task frees, purges or reuses a buffer the MAC works on, whatever the *)
(* order of interrupts and tasks, and even if securing frames fails, a     *)
(* relayed packet is leaked, or the pool is full; except what sixtop_sendEB*)
(* of a synchronized mote purges, and of that the MAC keeps no more than   *)
(* the packet it was sending.                                              *)
THEOREM MacCustodyAlways == Spec => []MacCustody
<1>1. Spec => []Custody
  BY CustodyInit, CustodyStep, TypedAlways, PTL DEF Spec
<1>. QED
  BY <1>1, TypedAlways, CustodyIsProperty, PTL

-----------------------------------------------------------------------------
(* A free buffer is reset.                                                 *)
FreeIsReset ==
  \A p \in Slots : queue[p].owner = COMPONENT_NULL => queue[p] = reset_entry

-----------------------------------------------------------------------------
(* The effects of an interrupt.                                            *)
-----------------------------------------------------------------------------
OnlyIn(S) == \A r \in Slots \ S : queue'[r] = queue[r]

Counted(tx, rx) == txDone' = txDone + tx /\ rxDone' = rxDone + rx

(* A buffer passes to another owner with the packet in it.                 *)
Passes(p, owner) ==
  /\ queue'[p].owner = owner
  /\ queue'[p].creator = queue[p].creator
  /\ queue'[p].hop = queue[p].hop

Nothing == OnlyIn({}) /\ Counted(0, 0) /\ mac'.dataToSend = mac.dataToSend

Starts(p) ==
  /\ queue[p].owner = COMPONENT_SIXTOP_TO_IEEE802154E
  /\ Passes(p, COMPONENT_IEEE802154E)
  /\ queue'[p].retriesLeft = queue[p].retriesLeft
  /\ mac'.dataToSend = p
  /\ \A r \in Slots : queue[r].owner # COMPONENT_IEEE802154E
  /\ OnlyIn({p}) /\ Counted(0, 0)

(* The radio writes into a free buffer.                                    *)
Fills(p, owner) ==
  /\ queue[p].owner = COMPONENT_NULL
  /\ queue'[p].owner = owner
  /\ queue'[p].creator = COMPONENT_IEEE802154E
  /\ queue'[p].retriesLeft = 0
  /\ OnlyIn({p})

Keeps(p) ==
  /\ Fills(p, COMPONENT_IEEE802154E) /\ Counted(0, 0)
  /\ mac.dataToSend = NULL /\ mac'.dataToSend = NULL

PassesUp(p) ==
  /\ Fills(p, COMPONENT_IEEE802154E_TO_SIXTOP) /\ Counted(0, 1)
  /\ mac.dataToSend = NULL /\ mac' = NoPackets

(* The transmission of a packet ends.  It is the packet that was sent,     *)
(* unless that was purged: the buffer is then free, or another packet's.   *)
Sending(p) ==
  /\ p = mac.dataToSend /\ mac' = NoPackets
  /\ queue[p].owner # COMPONENT_IEEE802154E_TO_SIXTOP
  /\ queue[p].creator # COMPONENT_IEEE802154E
  /\ p \notin stray => /\ queue[p].owner = COMPONENT_IEEE802154E
                       /\ queue[p].retriesLeft > 0
  /\ OnlyIn({p})

Retries(p) ==
  /\ Sending(p) /\ Passes(p, COMPONENT_SIXTOP_TO_IEEE802154E)
  /\ p \notin stray =>
       /\ queue[p].retriesLeft > 1
       /\ queue'[p].retriesLeft = queue[p].retriesLeft - 1
  /\ Counted(0, 0)

Reports(p) ==
  /\ Sending(p) /\ Passes(p, COMPONENT_IEEE802154E_TO_SIXTOP)
  /\ p \notin stray =>
       queue'[p].retriesLeft \in {queue[p].retriesLeft,
                                 queue[p].retriesLeft - 1}
  /\ Counted(1, 0)

(* A frame that was received goes up, and the buffer of its ACK is freed.  *)
Delivers(p, ack) ==
  /\ mac.dataToSend = NULL /\ mac' = NoPackets
  /\ queue[p].owner = COMPONENT_IEEE802154E
  /\ queue[p].creator = COMPONENT_IEEE802154E
  /\ Passes(p, COMPONENT_IEEE802154E_TO_SIXTOP)
  /\ queue'[p].retriesLeft = queue[p].retriesLeft
  /\ ack # NULL => /\ ack \in Slots /\ ack # p
                   /\ queue[ack].owner = COMPONENT_IEEE802154E
                   /\ queue[ack].creator = COMPONENT_IEEE802154E
                   /\ queue'[ack] = reset_entry
  /\ OnlyIn({p, ack}) /\ Counted(0, 1)

Effect ==
  \/ Nothing
  \/ \E p \in Slots :
       \/ Starts(p) \/ Keeps(p) \/ PassesUp(p) \/ Retries(p) \/ Reports(p)
       \/ \E ack \in Slots \cup {NULL} : Delivers(p, ack)

(* The end of a slot in which the MAC had no packet left.                  *)
LEMMA EndsIdle ==
  ASSUME NEW q, NEW m, NEW tx \in Nat, NEW rx \in Nat, CountersType,
         m.dataToSend = NULL, m.dataReceived = NULL, m.ackToSend = NULL,
         endSlot(q, m, tx, rx)
  PROVE  queue' = q /\ Counted(tx, rx) /\ mac' = NoPackets
BY DEF endSlot, GivesUp, Counted, CountersType

(* The end of a slot in which a packet was being sent.                     *)
LEMMA EndsSending ==
  ASSUME Typed, Custody, NEW m \in Pointers, NEW p \in Slots,
         p = mac.dataToSend, p = m.dataToSend,
         m.dataReceived = NULL, m.ackToSend = NULL,
         endSlot(queue, m, 0, 0)
  PROVE  Retries(p) \/ Reports(p)
<1>. USE NullIsNoSlot
<1>. DEFINE left == Decrement(queue[p].retriesLeft)
<1>1. queue \in Pools /\ p # NULL /\ rxDone \in Nat /\ txDone \in Nat
  BY DEF Typed, CountersType
<1>2. /\ queue[p].owner # COMPONENT_IEEE802154E_TO_SIXTOP
      /\ queue[p].creator # COMPONENT_IEEE802154E
      /\ p \notin stray => /\ queue[p].owner = COMPONENT_IEEE802154E
                           /\ queue[p].retriesLeft > 0
  BY <1>1 DEF Custody, CustodyBut, MacHolds, MacCanEnd, Owned
<1>3. /\ queue[p].retriesLeft \in Nat /\ left \in Nat
      /\ p \notin stray => left = queue[p].retriesLeft - 1
  <2>1. queue[p].retriesLeft \in 0..UINT8_MAX
    BY <1>1 DEF Pools, Entries
  <2>. QED
    BY <1>2, <2>1, MacAssumption DEF Decrement
<1>4. queue' = Failed(queue, p) /\ mac' = NoPackets
        /\ Counted(IF left = 0 THEN 1 ELSE 0, 0)
  BY <1>1, <1>3 DEF endSlot, GivesUp, Counted
<1>5. /\ OnlyIn({p})
      /\ queue'[p].creator = queue[p].creator
      /\ queue'[p].hop = queue[p].hop
      /\ queue'[p].retriesLeft = left
      /\ queue'[p].owner = IF left = 0
                           THEN COMPONENT_IEEE802154E_TO_SIXTOP
                           ELSE COMPONENT_SIXTOP_TO_IEEE802154E
  BY <1>1, <1>4, FailedIs DEF OnlyIn
<1>. HIDE DEF left
<1>6. Sending(p)
  BY <1>2, <1>4, <1>5 DEF Sending
<1>7. CASE left = 0
  BY <1>3, <1>4, <1>5, <1>6, <1>7 DEF Reports, Passes
<1>8. CASE left # 0
  <2>1. p \notin stray => queue[p].retriesLeft > 1
    BY <1>2, <1>3, <1>8
  <2>. QED
    BY <1>3, <1>4, <1>5, <1>6, <1>8, <2>1 DEF Retries, Passes
<1>. QED
  BY <1>7, <1>8

(* The end of a slot in which a frame was received and not yet reported.   *)
LEMMA EndsDelivering ==
  ASSUME Typed, Custody, mac.dataToSend = NULL,
         NEW d \in Slots, d = mac.dataReceived,
         NEW ack \in Slots \cup {NULL}, ack \in {NULL, mac.ackToSend},
         mac' = NoPackets, Counted(0, 1),
         queue' = IF ack = NULL THEN Notify(queue, d)
                  ELSE freePacketBuffer(Notify(queue, d), ack)
  PROVE  Delivers(d, ack)
<1>. USE NullIsNoSlot
<1>1. queue \in Pools /\ d # NULL
  BY DEF Typed
<1>2. /\ queue[d].owner = COMPONENT_IEEE802154E
      /\ queue[d].creator = COMPONENT_IEEE802154E
      /\ ack # NULL => /\ ack \in Slots /\ ack # d
                       /\ queue[ack].owner = COMPONENT_IEEE802154E
                       /\ queue[ack].creator = COMPONENT_IEEE802154E
  BY <1>1 DEF Custody, CustodyBut, MacHolds, Owned
<1>. DEFINE q == Notify(queue, d)
<1>3. /\ q \in Pools
      /\ q[d].owner = COMPONENT_IEEE802154E_TO_SIXTOP
      /\ q[d].creator = queue[d].creator
      /\ q[d].hop = queue[d].hop
      /\ q[d].retriesLeft = queue[d].retriesLeft
      /\ \A r \in Slots \ {d} : q[r] = queue[r]
  <2>1. COMPONENT_IEEE802154E_TO_SIXTOP \in Components
    BY DEF Components, COMPONENT_IEEE802154E_TO_SIXTOP
  <2>. QED
    BY <1>1, <2>1, OwnerSet DEF Notify
<1>4. queue' = IF ack = NULL THEN q ELSE freePacketBuffer(q, ack)
  OBVIOUS
<1>. HIDE DEF q
<1>5. /\ queue'[d] = q[d]
      /\ ack # NULL => queue'[ack] = reset_entry
      /\ \A r \in Slots \ {d, ack} : queue'[r] = queue[r]
  BY <1>2, <1>3, <1>4, Freed
<1>. QED
  BY <1>2, <1>3, <1>5 DEF Delivers, Passes, OnlyIn

(* The end of a slot with the packets the MAC has.                         *)
LEMMA EndsAny ==
  ASSUME Typed, Control, Custody, NEW m \in Pointers,
         m.dataToSend = mac.dataToSend, m.dataReceived = mac.dataReceived,
         m.ackToSend = mac.ackToSend, endSlot(queue, m, 0, 0)
  PROVE  Effect
<1>. USE NullIsNoSlot
<1>1. CountersType /\ mac \in Pointers
  BY DEF Typed, Control, ControlType
<1>2. CASE mac.dataToSend # NULL
  <2>1. mac.dataReceived = NULL /\ mac.ackToSend = NULL
          /\ mac.dataToSend \in Slots
    BY <1>1, <1>2 DEF Control, SlotPackets, TxStates, AckStates, Pointers
  <2>. QED
    BY <2>1, EndsSending DEF Effect
<1>3. CASE mac.dataToSend = NULL /\ mac.dataReceived # NULL
  <2>1. mac.dataReceived \in Slots /\ mac.ackToSend \in Slots \cup {NULL}
    BY <1>1, <1>3 DEF Pointers
  <2>2. /\ mac' = NoPackets /\ Counted(0, 1)
        /\ queue' = IF mac.ackToSend = NULL
                    THEN Notify(queue, mac.dataReceived)
                    ELSE freePacketBuffer(Notify(queue, mac.dataReceived),
                                          mac.ackToSend)
    BY <1>1, <1>3 DEF endSlot, GivesUp, Counted, CountersType
  <2>. QED
    BY <1>3, <2>1, <2>2, EndsDelivering DEF Effect
<1>4. CASE mac.dataToSend = NULL /\ mac.dataReceived = NULL
  <2>1. mac.ackToSend = NULL
    BY <1>4 DEF Control, SlotPackets, AckStates
  <2>2. queue' = queue /\ Counted(0, 0) /\ mac' = NoPackets
    BY <1>1, <1>4, <2>1, EndsIdle
  <2>. QED
    BY <1>4, <2>2 DEF Effect, Nothing, OnlyIn, NoPackets
<1>. QED
  BY <1>2, <1>3, <1>4

(* The packet that was sent is reported.                                   *)
LEMMA SentEffect ==
  ASSUME Typed, Control, Custody, mac.dataToSend # NULL,
         endSlot(Notify(queue, mac.dataToSend),
                 [mac EXCEPT !.dataToSend = NULL], 1, 0)
  PROVE  Effect
<1>. DEFINE p == mac.dataToSend
            m == [mac EXCEPT !.dataToSend = NULL]
<1>. USE NullIsNoSlot
<1>1. mac \in Pointers /\ queue \in Pools /\ CountersType
  BY DEF Control, ControlType, Typed
<1>2. /\ p \in Slots
      /\ m.dataToSend = NULL /\ m.dataReceived = NULL /\ m.ackToSend = NULL
  BY <1>1 DEF Control, SlotPackets, TxStates, AckStates, Pointers
<1>3. queue' = Notify(queue, p) /\ Counted(1, 0) /\ mac' = NoPackets
  BY <1>1, <1>2, EndsIdle
<1>. HIDE DEF m
<1>4. Passes(p, COMPONENT_IEEE802154E_TO_SIXTOP) /\ OnlyIn({p})
        /\ queue'[p].retriesLeft = queue[p].retriesLeft
  <2>1. COMPONENT_IEEE802154E_TO_SIXTOP \in Components
    BY DEF Components, COMPONENT_IEEE802154E_TO_SIXTOP
  <2>. QED
    BY <1>1, <1>2, <1>3, <2>1, OwnerSet DEF Notify, Passes, OnlyIn
<1>5. Sending(p)
  BY <1>2, <1>3, <1>4 DEF Sending, Custody, CustodyBut, MacHolds, MacCanEnd,
     Owned
<1>6. Reports(p)
  BY <1>3, <1>4, <1>5 DEF Reports
<1>. QED
  BY <1>2, <1>6 DEF Effect

(* The radio gets a buffer.                                                *)
LEMMA FilledIs ==
  ASSUME Typed, Alloc(queue) # NULL, NEW hop \in Hops
  PROVE  LET p == Alloc(queue)
             q == Received(queue, p, hop)
             u == Notify(q, p)
         IN  /\ p \in Slots /\ queue[p].owner = COMPONENT_NULL
             /\ q[p].owner = COMPONENT_IEEE802154E
             /\ u[p].owner = COMPONENT_IEEE802154E_TO_SIXTOP
             /\ q[p].creator = COMPONENT_IEEE802154E
             /\ u[p].creator = COMPONENT_IEEE802154E
             /\ q[p].retriesLeft = 0 /\ u[p].retriesLeft = 0
             /\ \A r \in Slots \ {p} : q[r] = queue[r] /\ u[r] = queue[r]
<1>. DEFINE p == Alloc(queue)
            q == Received(queue, p, hop)
            u == Notify(q, p)
<1>1. p \in Slots /\ queue[p].owner = COMPONENT_NULL /\ queue \in Pools
  BY AllocFound DEF Alloc, Typed
<1>2. COMPONENT_IEEE802154E \in Components
        /\ COMPONENT_IEEE802154E_TO_SIXTOP \in Components
  BY DEF Components, COMPONENT_IEEE802154E, COMPONENT_IEEE802154E_TO_SIXTOP
<1>. HIDE DEF p
<1>3. LET e == [creator |-> COMPONENT_IEEE802154E,
                owner |-> COMPONENT_IEEE802154E, hop |-> hop,
                retriesLeft |-> 0]
      IN  q \in Pools /\ q[p] = e /\ \A r \in Slots \ {p} : q[r] = queue[r]
  BY <1>1, <1>2, Allocated DEF Received
<1>. HIDE DEF q
<1>4. /\ u[p].owner = COMPONENT_IEEE802154E_TO_SIXTOP
      /\ u[p].creator = q[p].creator
      /\ u[p].retriesLeft = q[p].retriesLeft
      /\ \A r \in Slots \ {p} : u[r] = q[r]
  BY <1>1, <1>2, <1>3, OwnerSet DEF Notify
<1>. QED
  BY <1>1, <1>3, <1>4 DEF p, q

LEMMA KeepsEffect ==
  ASSUME Typed, Control, Alloc(queue) # NULL, NEW hop \in Hops,
         queue' = Received(queue, Alloc(queue), hop),
         mac.dataToSend = NULL, mac'.dataToSend = NULL,
         UNCHANGED <<rxDone, txDone>>
  PROVE  Effect
<1>1. Alloc(queue) \in Slots /\ Fills(Alloc(queue), COMPONENT_IEEE802154E)
  BY FilledIs DEF Fills, OnlyIn
<1>2. Counted(0, 0)
  BY DEF Counted, Typed, CountersType
<1>. QED
  BY <1>1, <1>2 DEF Keeps, Effect

LEMMA PassesUpEffect ==
  ASSUME Typed, Control, Alloc(queue) # NULL, NEW hop \in Hops,
         state \notin TxStates \cup AckStates,
         endSlot(Notify(Received(queue, Alloc(queue), hop), Alloc(queue)),
                 mac, 0, 1)
  PROVE  Effect
<1>1. mac.dataToSend = NULL /\ mac.dataReceived = NULL
        /\ mac.ackToSend = NULL /\ CountersType
  BY MacHasNone DEF Typed
<1>2. /\ queue' = Notify(Received(queue, Alloc(queue), hop), Alloc(queue))
      /\ Counted(0, 1) /\ mac' = NoPackets
  BY <1>1, EndsIdle
<1>3. /\ Alloc(queue) \in Slots
      /\ Fills(Alloc(queue), COMPONENT_IEEE802154E_TO_SIXTOP)
  BY <1>2, FilledIs DEF Fills, OnlyIn
<1>. QED
  BY <1>1, <1>2, <1>3 DEF PassesUp, Effect

(* A packet that waits is sent in a cell.                                  *)
LEMMA TransmitEffect ==
  ASSUME Typed, Control, Custody, state = "S_SLEEP",
         NEW p \in OwnedBy(queue, COMPONENT_SIXTOP_TO_IEEE802154E),
         Transmit(p)
  PROVE  Effect
<1>. USE NullIsNoSlot
<1>1. p \in Slots /\ queue[p].owner = COMPONENT_SIXTOP_TO_IEEE802154E
        /\ queue \in Pools /\ mac \in Pointers
  BY DEF OwnedBy, Typed, Control, ControlType
<1>2. /\ Passes(p, COMPONENT_IEEE802154E) /\ OnlyIn({p})
      /\ queue'[p].retriesLeft = queue[p].retriesLeft
  <2>1. COMPONENT_IEEE802154E \in Components
    BY DEF Components, COMPONENT_IEEE802154E
  <2>. QED
    BY <1>1, <2>1, OwnerSet DEF Transmit, Passes, OnlyIn
<1>3. \A r \in Slots : queue[r].owner # COMPONENT_IEEE802154E
  BY MacHasNone DEF TxStates, AckStates, Custody, CustodyBut, MacHolds,
     MacCanEnd
<1>4. Counted(0, 0) /\ mac'.dataToSend = p
  BY <1>1 DEF Transmit, Arm, Counted, Typed, CountersType, Pointers
<1>. QED
  BY <1>1, <1>2, <1>3, <1>4 DEF Starts, Effect

(* activity_ri6 and activity_ri9, the two that end a slot with an ACK.     *)
LEMMA AckEffect ==
  ASSUME Typed, Control, Custody, FreeIsReset, activity_ri6 \/ activity_ri9
  PROVE  Effect
<1>. USE NullIsNoSlot
<1>. DEFINE a == Alloc(queue)
            d == mac.dataReceived
<1>1. mac \in Pointers /\ queue \in Pools /\ CountersType
        /\ "none" \in Hops
  BY DEF Control, ControlType, Typed, Hops
<1>2. state \in AckStates /\ d \in Slots /\ mac.dataToSend = NULL
  BY <1>1 DEF activity_ri6, activity_ri9, Control, SlotPackets, AckStates,
       TxStates, Pointers
<1>3. CASE activity_ri6
  <2>1. mac.ackToSend = NULL
    BY <1>3 DEF activity_ri6, Control, SlotPackets, AckStates
  <2>2. CASE a = NULL /\ endSlot(Notify(queue, d),
                           [mac EXCEPT !.dataReceived = NULL], 0, 1)
    <3>. DEFINE m == [mac EXCEPT !.dataReceived = NULL]
    <3>1. m.dataToSend = NULL /\ m.dataReceived = NULL
            /\ m.ackToSend = NULL
      BY <1>1, <1>2, <2>1 DEF Pointers
    <3>2. endSlot(Notify(queue, d), m, 0, 1)
      BY <2>2
    <3>. HIDE DEF m
    <3>3. queue' = Notify(queue, d) /\ Counted(0, 1) /\ mac' = NoPackets
      BY <1>1, <3>1, <3>2, EndsIdle
    <3>. QED
      BY <1>2, <3>3, EndsDelivering DEF Effect
  <2>3. CASE a # NULL /\ queue' = Received(queue, a, "none")
               /\ mac' = [mac EXCEPT !.ackToSend = a] /\ Arm("S_TXACKREADY")
    <3>1. mac'.dataToSend = NULL
      BY <1>1, <1>2, <2>3 DEF Pointers
    <3>2. UNCHANGED <<rxDone, txDone>>
      BY <2>3 DEF Arm
    <3>. QED
      BY <1>1, <1>2, <2>3, <3>1, <3>2, KeepsEffect
  <2>4. CASE a # NULL /\ endSlot(freePacketBuffer(queue, a),
                           [mac EXCEPT !.ackToSend = a], 0, 0)
    <3>. DEFINE m == [mac EXCEPT !.ackToSend = a]
                f == freePacketBuffer(queue, a)
                q == Notify(queue, d)
    <3>1. a \in Slots /\ queue[a] = reset_entry
      BY <2>4, AllocFound DEF Alloc, FreeIsReset
    <3>2. m.dataToSend = NULL /\ m.dataReceived = d /\ m.ackToSend = a
      BY <1>1, <1>2, <3>1 DEF Pointers
    <3>3. f = queue
      BY <1>1, <3>1 DEF freePacketBuffer, Pools
    <3>4. endSlot(f, m, 0, 0)
      BY <2>4
    <3>. HIDE DEF m, f, a
    <3>5. queue' = freePacketBuffer(q, a) /\ mac' = NoPackets
            /\ Counted(0, 1)
      BY <1>1, <1>2, <3>1, <3>2, <3>3, <3>4
         DEF endSlot, GivesUp, Counted, CountersType
    <3>6. a # d
      BY <1>2, <3>1 DEF Custody, CustodyBut, MacHolds, Owned, reset_entry,
           COMPONENT_NULL, COMPONENT_IEEE802154E
    <3>7. q \in Pools /\ q[a] = reset_entry
      <4>1. COMPONENT_IEEE802154E_TO_SIXTOP \in Components
        BY DEF Components, COMPONENT_IEEE802154E_TO_SIXTOP
      <4>. QED
        BY <1>1, <1>2, <3>1, <3>6, <4>1, OwnerSet DEF Notify
    <3>. HIDE DEF q
    <3>8. freePacketBuffer(q, a) = q
      BY <3>1, <3>7 DEF freePacketBuffer, Pools
    <3>. QED
      BY <1>2, <3>5, <3>8, EndsDelivering DEF Effect, q
  <2>. QED
    BY <1>3, <2>2, <2>3, <2>4 DEF activity_ri6
<1>4. CASE activity_ri9
  <2>. DEFINE k == mac.ackToSend
  <2>1. k \in Slots
    BY <1>1, <1>4 DEF activity_ri9, Control, SlotPackets, AckStates,
         Pointers
  <2>2. NoPackets.dataToSend = NULL /\ NoPackets.dataReceived = NULL
          /\ NoPackets.ackToSend = NULL
    BY DEF NoPackets
  <2>3. /\ queue' = Notify(freePacketBuffer(queue, k), d)
        /\ Counted(0, 1) /\ mac' = NoPackets
    BY <1>1, <1>4, <2>2, EndsIdle DEF activity_ri9
  <2>4. k # d
    BY <2>1 DEF Custody, CustodyBut, MacHolds
  <2>5. Notify(freePacketBuffer(queue, k), d) =
          freePacketBuffer(Notify(queue, d), k)
    BY <1>1, <1>2, <2>1, <2>4 DEF Notify, SetOwner, freePacketBuffer, Pools
  <2>. QED
    BY <1>2, <2>1, <2>3, <2>5, EndsDelivering DEF Effect
<1>. QED
  BY <1>3, <1>4

(* An interrupt has one of the effects, whichever it is and whenever it    *)
(* comes.                                                                  *)
LEMMA InterruptEffect ==
  ASSUME Typed, Control, Custody, FreeIsReset, Interrupt
  PROVE  Effect
<1>. USE NullIsNoSlot
<1>1. /\ queue \in Pools /\ mac \in Pointers /\ CountersType
      /\ "none" \in Hops /\ Neighbors \subseteq Hops
  BY DEF Typed, Control, ControlType, Hops
<1>2. AbortSlot => Effect
  BY <1>1, EndsAny DEF AbortSlot
<1>3. ASSUME UNCHANGED <<queue, rxDone, txDone>>,
             mac'.dataToSend = mac.dataToSend
      PROVE  Effect
  BY <1>1, <1>3 DEF Effect, Nothing, OnlyIn, Counted, CountersType
<1>4. ASSUME NEW from, NEW next, Advance(from, next) PROVE Effect
  BY <1>3, <1>4 DEF Advance, Arm
<1>5. CASE isr_ieee154e_newSlot
  <2>1. CASE ListenForEB \/ RootSynchronizes
    BY <1>3, <2>1 DEF ListenForEB, RootSynchronizes
  <2>2. CASE Desynchronize
    BY <1>1, <2>2, EndsAny DEF Desynchronize
  <2>3. CASE InactiveSlot
    BY <1>2, <2>3 DEF InactiveSlot
  <2>4. CASE TxCell
    BY <1>2, <2>4, CellPacketFound, TransmitEffect DEF TxCell, Transmit
  <2>5. CASE TxRxCell
    <3>1. CASE state = "S_SLEEP" /\ Listen
      <4>1. mac.dataToSend = NULL
        BY <3>1, MacHasNone DEF TxStates, AckStates
      <4>2. mac'.dataToSend = NULL
        BY <1>1, <3>1 DEF Listen, Pointers
      <4>. QED
        BY <1>3, <3>1, <4>1, <4>2 DEF Listen, Arm
    <3>. QED
      BY <2>5, <3>1, CellPacketFound, TransmitEffect DEF TxRxCell, Transmit
  <2>6. CASE RxCell
    BY <1>4, <2>6 DEF RxCell
  <2>. QED
    BY <1>5, <2>1, <2>2, <2>3, <2>4, <2>5, <2>6 DEF isr_ieee154e_newSlot
<1>6. CASE isr_ieee154e_timer
  <2>1. CASE \/ activity_ti2 \/ activity_ti3 \/ activity_ti6 \/ activity_ti7
             \/ activity_ri2 \/ activity_ri3 \/ activity_ri7 \/ Timeout
    BY <1>2, <1>4, <2>1 DEF activity_ti2, activity_ti3, activity_ti6,
         activity_ti7, activity_ri2, activity_ri3, activity_ri7, Timeout
  <2>. QED
    BY <1>6, <2>1, AckEffect DEF isr_ieee154e_timer
<1>7. CASE ieee154e_startOfFrame
  BY <1>2, <1>3, <1>4, <1>7 DEF ieee154e_startOfFrame, activity_ti4,
       activity_synchronize_startOfFrame, activity_ti8, activity_ri4,
       activity_ri8, UnexpectedStart
<1>8. CASE ieee154e_endOfFrame
  <2>1. CASE activity_synchronize_endOfFrame
    <3>1. state \notin TxStates \cup AckStates
      BY <2>1 DEF activity_synchronize_endOfFrame, Control, UnsyncedIdle,
           IdleStates, TxStates, AckStates
    <3>2. [mac EXCEPT !.dataReceived = NULL] = mac
      BY <1>1, <3>1, MacHasNone DEF Pointers
    <3>3. CASE endSlot(queue, mac, 0, 0)
      BY <1>1, <3>3, EndsAny
    <3>4. CASE UNCHANGED <<queue, mac, rxDone, txDone>>
      BY <1>3, <3>4
    <3>5. ASSUME NEW n \in Neighbors, Alloc(queue) # NULL,
                 LET p == Alloc(queue)
                 IN  endSlot(Notify(Received(queue, p, n), p), mac, 0, 1)
          PROVE  Effect
      BY <1>1, <3>1, <3>5, PassesUpEffect
    <3>. QED
      BY <2>1, <3>2, <3>3, <3>4, <3>5 DEF activity_synchronize_endOfFrame
  <2>2. CASE activity_ti5 \/ activity_ti9
    <3>1. mac.dataToSend # NULL
      BY <2>2 DEF activity_ti5, activity_ti9, Control, SlotPackets, TxStates
    <3>2. CASE endSlot(Notify(queue, mac.dataToSend),
                       [mac EXCEPT !.dataToSend = NULL], 1, 0)
      BY <3>1, <3>2, SentEffect
    <3>3. CASE AbortSlot
      BY <1>2, <3>3
    <3>4. CASE Arm("S_RXACKOFFSET") /\ UNCHANGED <<queue, mac>>
      BY <1>3, <3>4 DEF Arm
    <3>. QED
      BY <2>2, <3>2, <3>3, <3>4 DEF activity_ti5, activity_ti9
  <2>3. CASE activity_ri5
    <3>1. state \notin TxStates \cup AckStates
      BY <2>3 DEF activity_ri5, TxStates, AckStates
    <3>2. mac.dataToSend = NULL
      BY <3>1, MacHasNone
    <3>3. ASSUME NEW n \in Neighbors, Alloc(queue) # NULL,
                 queue' = Received(queue, Alloc(queue), n),
                 mac' = [mac EXCEPT !.dataReceived = Alloc(queue)],
                 Arm("S_TXACKOFFSET")
          PROVE  Effect
      <4>1. mac'.dataToSend = NULL
        BY <1>1, <3>2, <3>3 DEF Pointers
      <4>2. UNCHANGED <<rxDone, txDone>>
        BY <3>3 DEF Arm
      <4>. QED
        BY <1>1, <3>2, <3>3, <4>1, <4>2, KeepsEffect
    <3>4. ASSUME NEW n \in Neighbors, Alloc(queue) # NULL,
                 LET p == Alloc(queue)
                 IN  endSlot(Notify(Received(queue, p, n), p), mac, 0, 1)
          PROVE  Effect
      BY <1>1, <3>1, <3>4, PassesUpEffect
    <3>. QED
      BY <1>2, <2>3, <3>3, <3>4 DEF activity_ri5
  <2>. QED
    BY <1>2, <1>8, <2>1, <2>2, <2>3, AckEffect
       DEF ieee154e_endOfFrame, UnexpectedEnd
<1>. QED
  BY <1>5, <1>6, <1>7, <1>8 DEF Interrupt

LEMMA InterruptKeepsTasks ==
  ASSUME Interrupt
  PROVE  UNCHANGED taskVars
BY DEF Interrupt, isr_ieee154e_newSlot, isr_ieee154e_timer,
     ieee154e_startOfFrame, ieee154e_endOfFrame

-----------------------------------------------------------------------------
(* The effects of a task.                                                  *)
-----------------------------------------------------------------------------
(* Neither before nor after the step is a task about to pick up a packet.  *)
Steady ==
  /\ {task, task'} \cap {"rx", "txdone"} = {}
  /\ Silent /\ UNCHANGED <<rxDone, txDone>>

(* Of the buffers that were held all but p are held again.                 *)
LetsGo(p) == {msg', out'} \cup {p, NULL} = {msg, out} \cup {p, NULL}

Begins ==
  /\ OnlyIn({}) /\ task = "none" /\ Silent /\ UNCHANGED <<msg, out, busy>>
  /\ \/ /\ task' = "rx" /\ rxDone > 0
        /\ rxDone' = rxDone - 1 /\ txDone' = txDone
     \/ /\ task' = "txdone" /\ txDone > 0
        /\ txDone' = txDone - 1 /\ rxDone' = rxDone

Misses ==
  /\ OnlyIn({}) /\ task' = "none" /\ UNCHANGED <<msg, out, busy>>
  /\ UNCHANGED <<rxDone, txDone>>
  /\ \/ /\ task = "rx" /\ ToSixtop(TRUE) = {}
        /\ critical' = {"NO_RECEIVED_PACKET"}
     \/ /\ task = "txdone" /\ ToSixtop(FALSE) = {}
        /\ critical' = {"NO_SENT_PACKET"}

Picks(p) ==
  /\ queue[p].owner = COMPONENT_IEEE802154E_TO_SIXTOP
  /\ Passes(p, COMPONENT_SIXTOP)
  /\ queue'[p].retriesLeft = queue[p].retriesLeft
  /\ \/ /\ task = "rx" /\ task' = "receive"
        /\ queue[p].creator = COMPONENT_IEEE802154E
     \/ /\ task = "txdone" /\ task' = "sendDone"
        /\ queue[p].creator # COMPONENT_IEEE802154E
  /\ msg' = p /\ Silent /\ UNCHANGED <<out, busy, rxDone, txDone>>

(* A buffer that is held is freed: that of a packet received, of one that  *)
(* was sent, or of one that cannot be sent.                                *)
Drops(p) ==
  /\ p # NULL /\ queue'[p] = reset_entry
  /\ Steady /\ LetsGo(p)
  /\ \/ p = msg /\ task \in {"receive", "replied"} /\ busy' = busy
     \/ p = msg /\ task = "sendDone" /\ busy' = busy \ Flag(queue, p)
     \/ p = out /\ busy' = busy
  /\ task' = "none" \/ (task = "reply" /\ task' = "replied")
  /\ msg' \in {msg, NULL} /\ out' = NULL

(* A packet is handed to the MAC: one received that is sent on, or one     *)
(* that was made.                                                          *)
Hands(p) ==
  /\ p # NULL
  /\ queue'[p].owner = COMPONENT_SIXTOP_TO_IEEE802154E
  /\ queue'[p].retriesLeft \in 1..(TXRETRIES + 1)
  /\ Steady /\ LetsGo(p)
  /\ \/ /\ p = msg /\ task = "receive" /\ task' = "none" /\ busy' = busy
        /\ \/ queue'[p].creator = COMPONENT_OPENCOAP /\ CoapReplies
           \/ /\ queue'[p].creator = COMPONENT_FORWARDING
              /\ isHighPriorityEntryEnough(queue')
     \/ /\ p = out /\ busy' = busy \cup Flag(queue, p)
        /\ Passes(p, COMPONENT_SIXTOP_TO_IEEE802154E)
        /\ \/ task = "reply" /\ task' = "replied" /\ msg' = msg
           \/ task = "send" /\ task' = "none" /\ msg' = NULL
  /\ out' = NULL

Gets(p) ==
  /\ queue[p].owner = COMPONENT_NULL
  /\ queue'[p].owner \notin InTransit
  /\ queue'[p].creator = queue'[p].owner
  /\ queue'[p].retriesLeft = 0
  /\ queue'[p].creator > COMPONENT_SIXTOP_RES =>
       isHighPriorityEntryEnough(queue)
  /\ Flag(queue', p) \cap busy = {}
  /\ \/ task = "none" /\ task' = "send"
     \/ task = "receive" /\ task' = "reply"
  /\ Steady /\ out = NULL /\ out' = p /\ UNCHANGED <<msg, busy>>

(* A relayed packet that cannot be sent is forgotten.                      *)
Loses(p) ==
  /\ p = msg /\ p # NULL /\ task = "receive" /\ task' = "none"
  /\ "sourceRoute" \in RelayModes
  /\ queue'[p].owner = COMPONENT_FORWARDING
  /\ queue'[p].owner \notin InTransit
  /\ queue'[p].creator = COMPONENT_FORWARDING
  /\ isHighPriorityEntryEnough(queue')
  /\ queue'[p].retriesLeft = 0
  /\ Steady /\ LetsGo(p) /\ busy' = busy /\ msg' = NULL /\ out' = NULL

(* What is purged under the MAC is stray.                                  *)
Purges ==
  /\ MayStart
  /\ \E c \in {<<COMPONENT_SIXTOP, {"EB", "KA"}>>,
               <<COMPONENT_ICMPv6RPL, {"DIO", "DAO"}>>} :
       /\ \A r \in Slots : queue'[r] = IF queue[r].creator = c[1]
                                       THEN reset_entry ELSE queue[r]
       /\ busy' = busy \ c[2]
       /\ mac.dataToSend # NULL /\ queue[mac.dataToSend].creator = c[1] =>
            mac.dataToSend \in stray'
  /\ Steady /\ UNCHANGED <<task, msg, out>>

TaskEffect ==
  \/ Begins \/ Misses \/ Purges
  \/ \E p \in Slots :
       /\ OnlyIn({p})
       /\ (Picks(p) \/ Drops(p) \/ Hands(p) \/ Gets(p) \/ Loses(p))

LEMMA TakeEffect ==
  ASSUME Typed, NEW fromRadio \in BOOLEAN,
         task = IF fromRadio THEN "rx" ELSE "txdone",
         Take(First(ToSixtop(fromRadio)),
              IF fromRadio THEN "receive" ELSE "sendDone",
              IF fromRadio THEN "NO_RECEIVED_PACKET" ELSE "NO_SENT_PACKET")
  PROVE  TaskEffect
<1>. USE NullIsNoSlot
<1>. DEFINE p == First(ToSixtop(fromRadio))
            next == IF fromRadio THEN "receive" ELSE "sendDone"
            error == IF fromRadio THEN "NO_RECEIVED_PACKET"
                     ELSE "NO_SENT_PACKET"
<1>1. queue \in Pools /\ msg = NULL /\ out = NULL
  BY DEF Typed, TaskType
<1>2. ToSixtop(fromRadio) \subseteq Slots
  BY DEF ToSixtop, OwnedBy
<1>3. Take(p, next, error)
  OBVIOUS
<1>4. /\ ToSixtop(fromRadio) = {} => p = NULL
      /\ ToSixtop(fromRadio) # {} => p \in ToSixtop(fromRadio)
  BY <1>2, FirstFound
<1>. HIDE DEF p
<1>5. CASE p = NULL
  <2>1. ToSixtop(fromRadio) = {}
    BY <1>2, <1>4, <1>5
  <2>. QED
    BY <1>1, <1>3, <1>5, <2>1
       DEF Take, EndTask, TaskEffect, Misses, OnlyIn
<1>6. CASE p # NULL
  <2>1. /\ p \in Slots
        /\ queue[p].owner = COMPONENT_IEEE802154E_TO_SIXTOP
        /\ (queue[p].creator = COMPONENT_IEEE802154E) = fromRadio
    BY <1>4, <1>6 DEF ToSixtop, OwnedBy
  <2>2. /\ OnlyIn({p}) /\ Passes(p, COMPONENT_SIXTOP)
        /\ queue'[p].retriesLeft = queue[p].retriesLeft
    <3>1. COMPONENT_SIXTOP \in Components
      BY DEF Components, COMPONENT_SIXTOP
    <3>. QED
      BY <1>1, <1>3, <1>6, <2>1, <3>1, OwnerSet
         DEF Take, OnlyIn, Passes
  <2>3. /\ msg' = p /\ task' = next
        /\ Silent /\ UNCHANGED <<out, busy, rxDone, txDone>>
    BY <1>3, <1>6 DEF Take
  <2>4. Picks(p)
    BY <2>1, <2>2, <2>3 DEF Picks
  <2>. QED
    BY <2>1, <2>2, <2>4 DEF TaskEffect
<1>. QED
  BY <1>5, <1>6

(* A task gets a buffer, for a packet whose flag is not set.               *)
LEMMA GetsEffect ==
  ASSUME Typed, NEW creator \in Senders, NEW hop \in Hops, NEW next,
         \/ task = "none" /\ next = "send"
         \/ task = "receive" /\ next = "reply",
         \A q, p : q[p].creator = creator /\ q[p].hop = hop =>
                     Flag(q, p) \cap busy = {},
         NewPacket(creator, hop, next)
  PROVE  TaskEffect
<1>. DEFINE p == getFreePacketBuffer(queue, creator, isSync)
<1>1. p \in Slots /\ queue[p].owner = COMPONENT_NULL
  BY AllocFound DEF NewPacket
<1>2. LET e == [creator |-> creator, owner |-> creator, hop |-> hop,
                retriesLeft |-> 0]
      IN  queue'[p] = e /\ \A r \in Slots \ {p} : queue'[r] = queue[r]
  BY <1>1, SendersAre, Allocated DEF NewPacket, Typed
<1>3. out' = p /\ task' = next /\ out = NULL
        /\ Silent /\ UNCHANGED <<rxDone, txDone, msg, busy>>
  BY DEF NewPacket, Typed, TaskType
<1>. HIDE DEF p
<1>4. /\ queue'[p].owner = creator /\ queue'[p].creator = creator
      /\ queue'[p].hop = hop /\ queue'[p].retriesLeft = 0
      /\ OnlyIn({p})
  BY <1>2 DEF OnlyIn
<1>5. creator \notin InTransit
  BY SendersAre
<1>6. Flag(queue', p) \cap busy = {}
  BY <1>4
<1>7. creator > COMPONENT_SIXTOP_RES => isHighPriorityEntryEnough(queue)
  BY DEF NewPacket, getFreePacketBuffer
<1>8. Gets(p)
  BY <1>1, <1>3, <1>4, <1>5, <1>6, <1>7 DEF Gets, Steady
<1>. QED
  BY <1>1, <1>4, <1>8 DEF TaskEffect

(* What a component has queued is purged.                                  *)
LEMMA PurgesEffect ==
  ASSUME Typed, NEW creator, NEW flags, Purge(creator, flags),
         <<creator, flags>> \in {<<COMPONENT_SIXTOP, {"EB", "KA"}>>,
                                 <<COMPONENT_ICMPv6RPL, {"DIO", "DAO"}>>},
         mac.dataToSend # NULL /\ queue[mac.dataToSend].creator = creator =>
           mac.dataToSend \in stray'
  PROVE  TaskEffect
<1>1. creator \in Components
  BY DEF Components, COMPONENT_SIXTOP, COMPONENT_ICMPv6RPL
<1>2. \A r \in Slots : queue'[r] = IF queue[r].creator = creator
                                   THEN reset_entry ELSE queue[r]
  BY <1>1, Purged DEF Purge, Typed
<1>3. /\ MayStart /\ busy' = busy \ flags /\ Silent
      /\ UNCHANGED <<rxDone, txDone, task, msg, out>>
  BY DEF Purge
<1>4. Steady /\ UNCHANGED <<task, msg, out>>
  BY <1>3 DEF Steady, MayStart
<1>5. PICK c \in {<<COMPONENT_SIXTOP, {"EB", "KA"}>>,
                  <<COMPONENT_ICMPv6RPL, {"DIO", "DAO"}>>} :
        c[1] = creator /\ c[2] = flags
  OBVIOUS
<1>6. Purges
  BY <1>2, <1>3, <1>4, <1>5 DEF Purges
<1>. QED
  BY <1>6 DEF TaskEffect

(* A mote that is not synchronized sends nothing that could be purged.     *)
LEMMA UnsyncedPurges ==
  ASSUME Typed, Control, ~isSync,
         \/ Purge(COMPONENT_SIXTOP, {"EB", "KA"})
         \/ Purge(COMPONENT_ICMPv6RPL, {"DIO", "DAO"})
  PROVE  TaskEffect
<1>1. mac.dataToSend = NULL
  BY MacHasNone DEF Control, UnsyncedIdle, IdleStates, TxStates, AckStates
<1>. QED
  BY <1>1, PurgesEffect

(* What a synchronized mote purges under the MAC is stray.                 *)
LEMMA SyncedPurges ==
  ASSUME Typed, Control, sendEB_purges, Strays(PurgedUnderMac)
  PROVE  TaskEffect
<1>1. UNCHANGED mac /\ Purge(COMPONENT_SIXTOP, {"EB", "KA"})
  BY DEF sendEB_purges, radioVars
<1>2. ASSUME mac.dataToSend # NULL,
             queue[mac.dataToSend].creator = COMPONENT_SIXTOP
      PROVE  mac.dataToSend \in stray'
  <2>1. mac.dataToSend \in PurgedUnderMac /\ mac.dataToSend \in InMac'
    BY <1>1, <1>2 DEF PurgedUnderMac, InMac
  <2>. QED
    BY <2>1 DEF Strays
<1>. QED
  BY <1>1, <1>2, PurgesEffect

(* The buffer a task holds is freed.                                       *)
LEMMA FreedByTask ==
  ASSUME Typed, NEW p \in Slots, queue' = freePacketBuffer(queue, p)
  PROVE  OnlyIn({p}) /\ queue'[p] = reset_entry
BY Freed DEF Typed, OnlyIn

(* A packet that was received is sent on, or dropped.                      *)
LEMMA ResendEffect ==
  ASSUME Typed, task = "receive",
         NEW creator \in {COMPONENT_OPENCOAP, COMPONENT_FORWARDING},
         \/ creator = COMPONENT_OPENCOAP /\ CoapReplies
         \/ /\ creator = COMPONENT_FORWARDING
            /\ isHighPriorityEntryEnough(
                 Allocate(queue, msg, COMPONENT_FORWARDING,
                          COMPONENT_FORWARDING, "none")),
         Resend(creator)
  PROVE  TaskEffect
<1>. USE NullIsNoSlot
<1>1. msg \in Slots /\ out = NULL /\ queue \in Pools
  BY DEF Typed, TaskType
<1>2. /\ task' = "none" /\ msg' = NULL /\ out' = NULL
      /\ Steady /\ busy' = busy /\ LetsGo(msg)
  BY <1>1 DEF Resend, EndTask, Steady, LetsGo
<1>3. CASE queue' = freePacketBuffer(queue, msg)
  <2>1. OnlyIn({msg}) /\ queue'[msg] = reset_entry
    BY <1>1, <1>3, FreedByTask
  <2>2. Drops(msg)
    BY <1>1, <1>2, <2>1 DEF Drops
  <2>. QED
    BY <1>1, <2>1, <2>2 DEF TaskEffect
<1>4. ASSUME NEW n \in Neighbors,
             queue' = sixtop_send(Allocate(queue, msg, creator, creator, n),
                                  msg)
      PROVE  TaskEffect
  <2>. DEFINE q == Allocate(queue, msg, creator, creator, n)
  <2>1. creator \in Components /\ n \in Hops
    BY SendersAre DEF Senders, Hops
  <2>2. LET e == [creator |-> creator, owner |-> creator, hop |-> n,
                  retriesLeft |-> 0]
        IN  q \in Pools /\ q[msg] = e
              /\ \A r \in Slots \ {msg} : q[r] = queue[r]
    BY <1>1, <2>1, Allocated
  <2>3. queue' = sixtop_send(q, msg)
    BY <1>4
  <2>. HIDE DEF q
  <2>4. /\ OnlyIn({msg}) /\ queue'[msg].creator = creator
        /\ queue'[msg].owner = COMPONENT_SIXTOP_TO_IEEE802154E
        /\ queue'[msg].retriesLeft \in 1..(TXRETRIES + 1)
    BY <1>1, <2>2, <2>3, Sent DEF OnlyIn
  <2>5. creator = COMPONENT_FORWARDING => isHighPriorityEntryEnough(queue')
    <3>. DEFINE f == Allocate(queue, msg, COMPONENT_FORWARDING,
                              COMPONENT_FORWARDING, "none")
    <3>1. COMPONENT_FORWARDING \in Components /\ "none" \in Hops
      BY SendersAre DEF Senders, Hops
    <3>2. LET e == [creator |-> COMPONENT_FORWARDING,
                    owner |-> COMPONENT_FORWARDING, hop |-> "none",
                    retriesLeft |-> 0]
          IN  f[msg] = e /\ \A r \in Slots \ {msg} : f[r] = queue[r]
      BY <1>1, <3>1, Allocated
    <3>. HIDE DEF f
    <3>3. creator = COMPONENT_FORWARDING =>
            \A r \in Slots : queue'[r].creator = f[r].creator
      BY <2>4, <3>2 DEF OnlyIn
    <3>4. creator = COMPONENT_FORWARDING =>
            LowPriority(queue') = LowPriority(f)
      BY <3>3 DEF LowPriority
    <3>5. creator = COMPONENT_FORWARDING => isHighPriorityEntryEnough(f)
      BY DEF f, COMPONENT_FORWARDING, COMPONENT_OPENCOAP
    <3>. QED
      BY <3>4, <3>5 DEF isHighPriorityEntryEnough
  <2>6. Hands(msg)
    BY <1>1, <1>2, <2>4, <2>5 DEF Hands
  <2>. QED
    BY <1>1, <2>4, <2>6 DEF TaskEffect
<1>. QED
  BY <1>3, <1>4 DEF Resend

LEMMA ConsumeEffect ==
  ASSUME Typed, Consume
  PROVE  TaskEffect
<1>. USE NullIsNoSlot
<1>1. msg \in Slots /\ out = NULL
  BY DEF Typed, TaskType, Consume
<1>2. OnlyIn({msg}) /\ queue'[msg] = reset_entry
  BY <1>1, FreedByTask DEF Consume
<1>3. Drops(msg)
  BY <1>1, <1>2 DEF Consume, EndTask, Drops, Steady, LetsGo
<1>. QED
  BY <1>1, <1>2, <1>3 DEF TaskEffect

LEMMA RelayEffect ==
  ASSUME Typed, NEW mode \in RelayModes, Relay(mode)
  PROVE  TaskEffect
<1>. USE NullIsNoSlot
<1>1. msg \in Slots /\ out = NULL /\ queue \in Pools /\ task = "receive"
  BY DEF Typed, TaskType, Relay
<1>2. CASE /\ mode = "sourceRoute"
           /\ queue' = Allocate(queue, msg, COMPONENT_FORWARDING,
                                COMPONENT_FORWARDING, "none")
           /\ isHighPriorityEntryEnough(queue')
           /\ EndTask
           /\ Silent /\ UNCHANGED <<rxDone, txDone, busy>>
  <2>1. COMPONENT_FORWARDING \in Senders /\ "none" \in Hops
    BY DEF Senders, Hops
  <2>2. LET e == [creator |-> COMPONENT_FORWARDING,
                  owner |-> COMPONENT_FORWARDING, hop |-> "none",
                  retriesLeft |-> 0]
        IN  queue'[msg] = e /\ \A r \in Slots \ {msg} : queue'[r] = queue[r]
    BY <1>1, <1>2, <2>1, SendersAre, Allocated
  <2>3. /\ OnlyIn({msg}) /\ queue'[msg].owner = COMPONENT_FORWARDING
        /\ queue'[msg].owner \notin InTransit
        /\ queue'[msg].creator = COMPONENT_FORWARDING
        /\ queue'[msg].retriesLeft = 0
    BY <2>1, <2>2, SendersAre DEF OnlyIn
  <2>4. Loses(msg)
    BY <1>1, <1>2, <2>3 DEF EndTask, Loses, Steady, LetsGo
  <2>. QED
    BY <1>1, <2>3, <2>4 DEF TaskEffect
<1>. QED
  BY <1>1, <1>2, ConsumeEffect, ResendEffect DEF Relay

LEMMA SendDoneEffect ==
  ASSUME Typed, SendDone
  PROVE  TaskEffect
<1>. USE NullIsNoSlot
<1>1. msg \in Slots /\ out = NULL
  BY DEF Typed, TaskType, SendDone
<1>2. OnlyIn({msg}) /\ queue'[msg] = reset_entry
  BY <1>1, FreedByTask DEF SendDone
<1>3. Drops(msg)
  BY <1>1, <1>2 DEF SendDone, EndTask, Drops, Steady, LetsGo
<1>. QED
  BY <1>1, <1>2, <1>3 DEF TaskEffect

LEMMA SendEffect ==
  ASSUME Typed, Send
  PROVE  TaskEffect
<1>. USE NullIsNoSlot
<1>1. out \in Slots /\ queue \in Pools /\ (task = "send" => msg = NULL)
  BY DEF Typed, TaskType, Send
<1>2. /\ out' = NULL /\ Steady /\ LetsGo(out)
      /\ \/ task = "reply" /\ task' = "replied" /\ msg' = msg
         \/ task = "send" /\ task' = "none" /\ msg' = NULL
  BY <1>1 DEF Send, AfterSend, Steady, LetsGo
<1>3. CASE queue' = sixtop_send(queue, out)
             /\ busy' = busy \cup Flag(queue, out)
  <2>1. /\ OnlyIn({out}) /\ Passes(out, COMPONENT_SIXTOP_TO_IEEE802154E)
        /\ queue'[out].retriesLeft \in 1..(TXRETRIES + 1)
    BY <1>1, <1>3, Sent DEF OnlyIn, Passes
  <2>2. Hands(out)
    BY <1>1, <1>2, <1>3, <2>1 DEF Hands, Passes
  <2>. QED
    BY <1>1, <2>1, <2>2 DEF TaskEffect
<1>4. CASE queue' = freePacketBuffer(queue, out) /\ busy' = busy
  <2>1. OnlyIn({out}) /\ queue'[out] = reset_entry
    BY <1>1, <1>4, FreedByTask
  <2>2. Drops(out)
    BY <1>1, <1>2, <1>4, <2>1 DEF Drops
  <2>. QED
    BY <1>1, <2>1, <2>2 DEF TaskEffect
<1>. QED
  BY <1>3, <1>4 DEF Send

(* A task has one of the effects.                                          *)
LEMMA TasksEffect ==
  ASSUME Typed, Control, Tasks
  PROVE  TaskEffect
<1>1. Neighbors \subseteq Hops /\ "broadcast" \in Hops
        /\ "broadcast" \notin Neighbors
  BY QueueAssumption DEF Hops
<1>2. CASE StartNotifReceive \/ StartNotifSendDone
  BY <1>2 DEF StartNotifReceive, StartNotifSendDone, TaskEffect, Begins,
       OnlyIn
<1>3. CASE TakeReceived
  <2>1. sixtopGetReceivedPacket(queue) = First(ToSixtop(TRUE))
    BY DEF sixtopGetReceivedPacket, ToSixtop
  <2>. QED
    BY <1>3, <2>1, TakeEffect DEF TakeReceived
<1>4. CASE TakeSent
  <2>1. sixtopGetSentPacket(queue) = First(ToSixtop(FALSE))
    BY DEF sixtopGetSentPacket, ToSixtop
  <2>. QED
    BY <1>4, <2>1, TakeEffect DEF TakeSent
<1>5. CASE CoapRespond
  BY <1>5, ResendEffect DEF CoapRespond
<1>6. \A q, p : q[p].creator \in AppCreators => Flag(q, p) = {}
  BY MacAssumption DEF Flag, COMPONENT_SIXTOP_RES, COMPONENT_OPENBRIDGE,
       COMPONENT_UINJECT, COMPONENT_SIXTOP, COMPONENT_ICMPv6RPL
<1>7. CASE Answer
  BY <1>1, <1>6, <1>7, SendersAre, GetsEffect DEF Answer
<1>8. CASE Posted
  <2>1. CASE Originate
    BY <1>1, <1>6, <2>1, SendersAre, GetsEffect DEF Originate, MayStart
  <2>2. {COMPONENT_SIXTOP, COMPONENT_ICMPv6RPL} \subseteq Senders
    BY DEF Senders
  <2>3. CASE sixtop_sendEB
    <3>1. ASSUME "EB" \notin busy
          PROVE  \A q, p : q[p].creator = COMPONENT_SIXTOP
                             /\ q[p].hop = "broadcast" =>
                             Flag(q, p) \cap busy = {}
      BY <3>1 DEF Flag
    <3>. QED
      BY <1>1, <2>2, <2>3, <3>1, GetsEffect, UnsyncedPurges
         DEF sixtop_sendEB, MayStart
  <2>4. CASE sixtop_sendKA
    <3>1. ASSUME "KA" \notin busy, NEW n \in Neighbors
          PROVE  \A q, p : q[p].creator = COMPONENT_SIXTOP
                             /\ q[p].hop = n => Flag(q, p) \cap busy = {}
      BY <1>1, <3>1 DEF Flag
    <3>. QED
      BY <1>1, <2>2, <2>4, <3>1, GetsEffect, UnsyncedPurges
         DEF sixtop_sendKA, MayStart
  <2>5. CASE sendDIO
    <3>1. ASSUME "DIO" \notin busy
          PROVE  \A q, p : q[p].creator = COMPONENT_ICMPv6RPL
                             /\ q[p].hop = "broadcast" =>
                             Flag(q, p) \cap busy = {}
      BY <3>1 DEF Flag, COMPONENT_SIXTOP, COMPONENT_ICMPv6RPL
    <3>. QED
      BY <1>1, <2>2, <2>5, <3>1, GetsEffect, UnsyncedPurges
         DEF sendDIO, MayStart
  <2>6. CASE sendDAO
    <3>1. ASSUME "DAO" \notin busy, NEW n \in Neighbors
          PROVE  \A q, p : q[p].creator = COMPONENT_ICMPv6RPL
                             /\ q[p].hop = n => Flag(q, p) \cap busy = {}
      BY <1>1, <3>1 DEF Flag, COMPONENT_SIXTOP, COMPONENT_ICMPv6RPL
    <3>. QED
      BY <1>1, <2>2, <2>6, <3>1, GetsEffect, UnsyncedPurges
         DEF sendDAO, MayStart
  <2>. QED
    BY <1>8, <2>1, <2>3, <2>4, <2>5, <2>6 DEF Posted
<1>. QED
  BY <1>2, <1>3, <1>4, <1>5, <1>7, <1>8, ConsumeEffect, RelayEffect,
     SendDoneEffect, SendEffect DEF Tasks, Notified

-----------------------------------------------------------------------------
(* Where the buffers are.                                                  *)
-----------------------------------------------------------------------------
Base == Typed /\ Control /\ StrayType /\ Custody

LEMMA BaseAlways == Spec => []Base
<1>1. Base /\ [Next]_vars => Base'
  BY TypedStep, ControlStep, StrayTypeStep, CustodyStep DEF Base
<1>2. Init => Base
  BY TypedInit, ControlInit, CustodyInit DEF Base, Init, StrayType
<1>. QED
  BY <1>1, <1>2, PTL DEF Spec

LEMMA ResetOwner ==
  /\ reset_entry.owner = COMPONENT_NULL
  /\ reset_entry.creator = COMPONENT_NULL
  /\ reset_entry.retriesLeft = 0
BY DEF reset_entry

LEMMA InTransitOwners ==
  /\ COMPONENT_NULL \in InTransit /\ COMPONENT_IEEE802154E \in InTransit
  /\ COMPONENT_SIXTOP_TO_IEEE802154E \in InTransit
  /\ COMPONENT_IEEE802154E_TO_SIXTOP \in InTransit
  /\ COMPONENT_SIXTOP \notin InTransit
BY DEF InTransit, COMPONENT_SIXTOP, COMPONENT_NULL, COMPONENT_IEEE802154E,
     COMPONENT_SIXTOP_TO_IEEE802154E, COMPONENT_IEEE802154E_TO_SIXTOP

(* A step is an interrupt or a step of a task.                             *)
LEMMA StepEffect ==
  ASSUME Base, FreeIsReset, [Next]_vars
  PROVE  \/ UNCHANGED vars
         \/ Effect /\ Interrupt /\ UNCHANGED <<task, msg, out, busy>>
         \/ TaskEffect /\ UNCHANGED radioVars
<1>1. CASE Interrupt
  BY <1>1, InterruptEffect, InterruptKeepsTasks DEF Base, taskVars
<1>2. CASE Tasks
  BY <1>2, TasksEffect DEF Base, Tasks
<1>3. CASE sendEB_purges /\ Strays(PurgedUnderMac)
  BY <1>3, SyncedPurges DEF Base, sendEB_purges
<1>. QED
  BY <1>1, <1>2, <1>3 DEF Next

(* What a step leaves stray.                                               *)
LEMMA StrayStays ==
  ASSUME Base, [Next]_vars, NEW p \in stray,
         \/ p \in {mac'.dataToSend, mac'.dataReceived, mac'.ackToSend,
                   msg', out'}
         \/ queue'[p].owner # COMPONENT_NULL
         \/ txDone' > 0 \/ "txdone" \in {task, task'}
  PROVE  p \in stray'
<1>1. Control'
  BY ControlStep DEF Base
<1>2. {} \in SUBSET Slots /\ PurgedUnderMac \in SUBSET Slots
  BY DEF PurgedUnderMac, InMac, Base, Control, ControlType, Pointers
<1>3. CASE UNCHANGED vars
  BY <1>3 DEF vars
<1>4. ASSUME NEW purged \in SUBSET Slots, Strays(purged) PROVE p \in stray'
  BY <1>1, <1>4, StrayKept DEF Base
<1>. QED
  BY <1>2, <1>3, <1>4 DEF Next

(* What an interrupt does to one buffer.                                   *)
Untouched(r) == queue'[r] = queue[r]

Emptied(r) == /\ queue'[r] = reset_entry
              /\ queue[r].owner = COMPONENT_IEEE802154E
              /\ queue[r].creator = COMPONENT_IEEE802154E

Moved(r) ==
  /\ r = mac.dataToSend \/ queue[r].owner \in InTransit
  /\ queue'[r].owner \in InTransit \ {COMPONENT_NULL}
  /\ \/ Passes(r, queue'[r].owner)
     \/ /\ queue[r].owner = COMPONENT_NULL
        /\ queue'[r].creator = COMPONENT_IEEE802154E

LEMMA EffectOn ==
  ASSUME Effect, NEW r \in Slots
  PROVE  Untouched(r) \/ Emptied(r) \/ Moved(r)
<1>. USE NullIsNoSlot
<1>1. InTransit \ {COMPONENT_NULL} =
        {COMPONENT_IEEE802154E, COMPONENT_SIXTOP_TO_IEEE802154E,
         COMPONENT_IEEE802154E_TO_SIXTOP}
  BY DEF InTransit, COMPONENT_NULL, COMPONENT_IEEE802154E,
       COMPONENT_SIXTOP_TO_IEEE802154E, COMPONENT_IEEE802154E_TO_SIXTOP
<1>2. CASE Nothing
  BY <1>2 DEF Nothing, OnlyIn, Untouched
<1>3. ASSUME NEW p \in Slots, Starts(p) \/ Retries(p) \/ Reports(p)
      PROVE  Untouched(r) \/ Moved(r)
  BY <1>1, <1>3 DEF Starts, Retries, Reports, Sending, Passes, OnlyIn,
       Untouched, Moved
<1>4. ASSUME NEW p \in Slots, Keeps(p) \/ PassesUp(p)
      PROVE  Untouched(r) \/ Moved(r)
  BY <1>1, <1>4, InTransitOwners
     DEF Keeps, PassesUp, Fills, OnlyIn, Untouched, Moved
<1>5. ASSUME NEW p \in Slots, NEW ack \in Slots \cup {NULL}, Delivers(p, ack)
      PROVE  Untouched(r) \/ Emptied(r) \/ Moved(r)
  BY <1>1, <1>5 DEF Delivers, Passes, OnlyIn, Untouched, Emptied, Moved
<1>. QED
  BY <1>2, <1>3, <1>4, <1>5 DEF Effect

LEMMA FreeIsResetInit == Init => FreeIsReset
BY DEF Init, EmptyQueue, FreeIsReset

LEMMA FreeIsResetStep ==
  ASSUME Base, FreeIsReset, [Next]_vars
  PROVE  FreeIsReset'
<1>1. CASE UNCHANGED vars
  BY <1>1 DEF vars, FreeIsReset
<1>2. CASE Effect
  BY <1>2, EffectOn DEF FreeIsReset, Untouched, Emptied, Moved
<1>3. CASE TaskEffect
  <2>1. CASE Begins \/ Misses
    BY <2>1 DEF Begins, Misses, FreeIsReset, OnlyIn
  <2>2. CASE Purges
    BY <2>2 DEF Purges, FreeIsReset
  <2>3. ASSUME NEW p \in Slots, OnlyIn({p}),
               queue'[p].owner # COMPONENT_NULL \/ queue'[p] = reset_entry
        PROVE  FreeIsReset'
    BY <2>3 DEF FreeIsReset, OnlyIn
  <2>4. ASSUME NEW p \in Slots,
               Picks(p) \/ Drops(p) \/ Hands(p) \/ Gets(p) \/ Loses(p)
        PROVE  queue'[p].owner # COMPONENT_NULL \/ queue'[p] = reset_entry
    <3>1. CASE Picks(p)
      BY <3>1 DEF Picks, Passes, COMPONENT_SIXTOP, COMPONENT_NULL
    <3>2. CASE Drops(p)
      BY <3>2 DEF Drops
    <3>3. CASE Hands(p)
      BY <3>3 DEF Hands, COMPONENT_SIXTOP_TO_IEEE802154E, COMPONENT_NULL
    <3>4. CASE Gets(p) \/ Loses(p)
      BY <3>4, InTransitOwners DEF Gets, Loses
    <3>. QED
      BY <2>4, <3>1, <3>2, <3>3, <3>4
  <2>. QED
    BY <1>3, <2>1, <2>2, <2>3, <2>4 DEF TaskEffect
<1>. QED
  BY <1>1, <1>2, <1>3, StepEffect

Accounted ==
  \A p \in Slots :
    \/ queue[p].owner \in InTransit
    \/ p \in {msg, out}
    \/ queue[p].owner = COMPONENT_FORWARDING /\ "sourceRoute" \in RelayModes

LEMMA AccountedStep ==
  ASSUME Base, FreeIsReset, Accounted, [Next]_vars
  PROVE  Accounted'
<1>. USE InTransitOwners, NullIsNoSlot
<1>1. CASE UNCHANGED vars
  BY <1>1 DEF vars, taskVars, Accounted
<1>2. CASE Effect /\ UNCHANGED <<msg, out>>
  BY <1>2, EffectOn, ResetOwner
     DEF Accounted, Untouched, Emptied, Moved
<1>3. CASE TaskEffect
  <2>1. CASE Begins \/ Misses
    BY <2>1 DEF Begins, Misses, Accounted, OnlyIn
  <2>2. CASE Purges
    BY <2>2, ResetOwner DEF Purges, Accounted
  <2>3. ASSUME NEW p \in Slots, OnlyIn({p}), Picks(p) PROVE Accounted'
    BY <2>3 DEF Picks, Accounted, OnlyIn, Base, Typed, TaskType
  <2>4. ASSUME NEW p \in Slots, OnlyIn({p}), Drops(p) \/ Hands(p)
        PROVE  Accounted'
    BY <2>4, ResetOwner DEF Drops, Hands, Accounted, OnlyIn, LetsGo
  <2>5. ASSUME NEW p \in Slots, OnlyIn({p}), Gets(p) PROVE Accounted'
    BY <2>5 DEF Gets, Accounted, OnlyIn
  <2>6. ASSUME NEW p \in Slots, OnlyIn({p}), Loses(p) PROVE Accounted'
    BY <2>6 DEF Loses, Accounted, OnlyIn, LetsGo
  <2>. QED
    BY <1>3, <2>1, <2>2, <2>3, <2>4, <2>5, <2>6 DEF TaskEffect
<1>. QED
  BY <1>1, <1>2, <1>3, StepEffect

(* Every buffer in use is queued for the MAC, in its hands, waits for      *)
(* sixtop or is held by the running task: whatever is interrupted, purged  *)
(* or fails, no buffer is lost, except those of the relayed packets with a *)
(* source route that forwarding_send_internal_SourceRouting forgets.       *)
THEOREM NoLeakAlways == Spec => []NoLeak
<1>1. Init => FreeIsReset /\ Accounted
  BY FreeIsResetInit, ResetOwner, InTransitOwners
     DEF Init, EmptyQueue, Accounted
<1>2. Base /\ FreeIsReset /\ Accounted /\ [Next]_vars =>
        FreeIsReset' /\ Accounted'
  BY FreeIsResetStep, AccountedStep
<1>3. Spec => [](Base /\ Accounted)
  BY <1>1, <1>2, BaseAlways, PTL DEF Spec
<1>4. Base /\ Accounted => NoLeak
  <2>1. ASSUME Base, Accounted, NEW p \in Slots \ FreeSlots(queue)
        PROVE  \/ queue[p].owner \in {COMPONENT_SIXTOP_TO_IEEE802154E,
                                      COMPONENT_IEEE802154E_TO_SIXTOP}
               \/ p \in InMac \cup {msg, out}
               \/ /\ queue[p].owner = COMPONENT_FORWARDING
                  /\ "sourceRoute" \in RelayModes
    <3>1. OwnedBy(queue, COMPONENT_IEEE802154E) \subseteq InMac
      BY <2>1, CustodyIsProperty DEF Base, MacCustody
    <3>2. queue[p].owner # COMPONENT_NULL
      BY DEF FreeSlots
    <3>. QED
      BY <2>1, <3>1, <3>2 DEF Accounted, InTransit, OwnedBy
  <2>. QED
    BY <2>1 DEF NoLeak
<1>. QED
  BY <1>3, <1>4, PTL

-----------------------------------------------------------------------------
(* The busy flags.  They are inductive together with the facts that the    *)
(* packet a task makes has a flag that is not set, and that one received   *)
(* has none.                                                               *)
-----------------------------------------------------------------------------
FlagHolder(f, p) == p # out /\ f \in Flag(queue, p)

FlagsKept ==
  /\ \A f : f \in busy <=> \E p \in Slots : FlagHolder(f, p)
  /\ \A f : \A p, r \in Slots : FlagHolder(f, p) /\ FlagHolder(f, r) => p = r
  /\ out # NULL => Flag(queue, out) \cap busy = {}
  /\ task \in {"receive", "reply", "replied"} => Flag(queue, msg) = {}

(* A packet has a flag only if sixtop or RPL made it.                      *)
LEMMA FlagDepends ==
  ASSUME NEW q, NEW u, NEW p
  PROVE  /\ (q[p].creator = u[p].creator /\ q[p].hop = u[p].hop) =>
              Flag(q, p) = Flag(u, p)
         /\ q[p].creator \notin {COMPONENT_SIXTOP, COMPONENT_ICMPv6RPL} =>
              Flag(q, p) = {}
         /\ q[p] = reset_entry => Flag(q, p) = {}
BY DEF Flag, reset_entry, COMPONENT_NULL, COMPONENT_SIXTOP,
     COMPONENT_ICMPv6RPL

LEMMA FlagOther ==
  ASSUME NEW S, OnlyIn(S)
  PROVE  \A r \in Slots \ S : Flag(queue', r) = Flag(queue, r)
BY FlagDepends DEF OnlyIn

(* No interrupt changes what a packet is flagged as.                       *)
LEMMA InterruptFlags ==
  ASSUME Effect, FreeIsReset, NEW r \in Slots
  PROVE  Flag(queue', r) = Flag(queue, r)
<1>1. CASE Untouched(r)
  BY <1>1, FlagDepends DEF Untouched
<1>2. COMPONENT_IEEE802154E \notin {COMPONENT_SIXTOP, COMPONENT_ICMPv6RPL}
  BY DEF COMPONENT_IEEE802154E, COMPONENT_SIXTOP, COMPONENT_ICMPv6RPL
<1>3. CASE Emptied(r)
  BY <1>2, <1>3, FlagDepends DEF Emptied
<1>4. CASE Moved(r)
  BY <1>2, <1>4, FlagDepends DEF Moved, Passes, FreeIsReset
<1>. QED
  BY <1>1, <1>3, <1>4, EffectOn

(* A step that leaves the flags and what is under way as they are.         *)
LEMMA FlagsSame ==
  ASSUME FlagsKept, busy' = busy,
         \A p \in Slots : p # out' => (p # out \/ Flag(queue', p) = {}),
         \A p \in Slots : p = out' => (p = out \/ Flag(queue, p) = {}),
         \A p \in Slots : p # out => Flag(queue', p) = Flag(queue, p)
                                       \/ p = out',
         out' # NULL => Flag(queue', out') \cap busy = {},
         task' \in {"receive", "reply", "replied"} =>
           Flag(queue', msg') = {}
  PROVE  FlagsKept'
<1>1. ASSUME NEW f, NEW p \in Slots
      PROVE  FlagHolder(f, p)' <=> FlagHolder(f, p)
  BY DEF FlagHolder
<1>. QED
  BY <1>1 DEF FlagsKept

LEMMA FlagsStep ==
  ASSUME Base, Base', FreeIsReset, FlagsKept, [Next]_vars
  PROVE  FlagsKept'
<1>. USE NullIsNoSlot
<1>1. CASE UNCHANGED vars
  BY <1>1 DEF vars, taskVars, FlagsKept, FlagHolder, Flag
<1>2. CASE Effect /\ UNCHANGED <<task, msg, out, busy>>
  <2>1. \A p \in Slots : Flag(queue', p) = Flag(queue, p)
    BY <1>2, InterruptFlags
  <2>2. /\ out # NULL => out \in Slots
        /\ task \in {"receive", "reply", "replied"} => msg \in Slots
    BY DEF Base, Typed, TaskType
  <2>. QED
    BY <1>2, <2>1, <2>2, FlagsSame DEF FlagsKept
<1>3. CASE TaskEffect
  <2>1. CASE Begins \/ Misses
    <3>1. \A p \in Slots : Flag(queue', p) = Flag(queue, p)
      BY <2>1, FlagOther DEF Begins, Misses
    <3>2. UNCHANGED <<out, busy>> /\ out = NULL
            /\ task' \in {"none", "rx", "txdone"}
      BY <2>1 DEF Begins, Misses, Base, Typed, TaskType
    <3>. QED
      BY <3>1, <3>2, FlagsSame
  <2>2. CASE Purges
    <3>1. out = NULL /\ task = "none" /\ UNCHANGED <<task, msg, out>>
      BY <2>2 DEF Purges, MayStart, Base, Typed, TaskType
    <3>2. PICK c \in {<<COMPONENT_SIXTOP, {"EB", "KA"}>>,
                      <<COMPONENT_ICMPv6RPL, {"DIO", "DAO"}>>} :
            /\ \A r \in Slots : queue'[r] = IF queue[r].creator = c[1]
                                            THEN reset_entry ELSE queue[r]
            /\ busy' = busy \ c[2]
      BY <2>2 DEF Purges
    <3>3. ASSUME NEW r \in Slots
          PROVE  Flag(queue', r) = IF queue[r].creator = c[1] THEN {}
                                   ELSE Flag(queue, r)
      BY <3>2, FlagDepends
    <3>4. ASSUME NEW r \in Slots, NEW f, f \in Flag(queue, r)
          PROVE  f \in c[2] <=> queue[r].creator = c[1]
      BY <3>4 DEF Flag, COMPONENT_SIXTOP, COMPONENT_ICMPv6RPL
    <3>5. ASSUME NEW f, NEW r \in Slots
          PROVE  FlagHolder(f, r)' <=> FlagHolder(f, r) /\ f \notin c[2]
      BY <3>1, <3>3, <3>4 DEF FlagHolder
    <3>. QED
      BY <3>1, <3>2, <3>5 DEF FlagsKept
  <2>3. ASSUME NEW p \in Slots, OnlyIn({p}), Picks(p) PROVE FlagsKept'
    <3>1. \A r \in Slots : Flag(queue', r) = Flag(queue, r)
      BY <2>3, FlagDepends, FlagOther DEF Picks, Passes
    <3>2. UNCHANGED <<out, busy>> /\ out = NULL /\ msg' = p
      BY <2>3 DEF Picks, Base, Typed, TaskType
    <3>3. task' # "sendDone" => Flag(queue, p) = {}
      BY <2>3, FlagDepends DEF Picks, COMPONENT_IEEE802154E,
           COMPONENT_SIXTOP, COMPONENT_ICMPv6RPL
    <3>4. task' \in {"receive", "reply", "replied"} =>
            Flag(queue', msg') = {}
      BY <3>1, <3>2, <3>3
    <3>. QED
      BY <3>1, <3>2, <3>4, FlagsSame
  <2>4. ASSUME NEW p \in Slots, OnlyIn({p}), Drops(p) PROVE FlagsKept'
    <3>1. /\ \A r \in Slots \ {p} : Flag(queue', r) = Flag(queue, r)
          /\ Flag(queue', p) = {}
      BY <2>4, FlagDepends, FlagOther DEF Drops
    <3>2. out' = NULL /\ task' \in {"none", "replied"}
      BY <2>4 DEF Drops
    <3>3. CASE p = msg /\ task \in {"receive", "replied"} /\ busy' = busy
      <4>1. out = NULL /\ task' = "none" /\ Flag(queue, p) = {}
        BY <2>4, <3>3 DEF Drops, Base, Typed, TaskType, FlagsKept
      <4>. QED
        BY <3>1, <3>2, <3>3, <4>1, FlagsSame
    <3>4. CASE p = msg /\ task = "sendDone" /\ busy' = busy \ Flag(queue, p)
      <4>1. out = NULL /\ task' = "none"
        BY <2>4, <3>4 DEF Drops, Base, Typed, TaskType
      <4>2. ASSUME NEW f, NEW r \in Slots
            PROVE  FlagHolder(f, r)' <=>
                     FlagHolder(f, r) /\ f \notin Flag(queue, p)
        BY <3>1, <3>2, <4>1 DEF FlagHolder, FlagsKept
      <4>. QED
        BY <3>2, <3>4, <4>1, <4>2 DEF FlagsKept
    <3>5. CASE p = out /\ busy' = busy
      <4>1. ASSUME task' = "replied" PROVE Flag(queue', msg') = {}
        <5>1. task = "reply" /\ msg' = msg /\ msg \in Slots /\ msg # out
          BY <2>4, <4>1 DEF Drops, Base, Typed, TaskType, Custody, CustodyBut,
             TaskHolds
        <5>. QED
          BY <3>1, <3>5, <5>1 DEF FlagsKept
      <4>. QED
        BY <3>1, <3>2, <3>5, <4>1, FlagsSame
    <3>. QED
      BY <2>4, <3>3, <3>4, <3>5 DEF Drops
  <2>5. ASSUME NEW p \in Slots, OnlyIn({p}), Hands(p) PROVE FlagsKept'
    <3>1. \A r \in Slots \ {p} : Flag(queue', r) = Flag(queue, r)
      BY <2>5, FlagOther
    <3>2. out' = NULL
      BY <2>5 DEF Hands
    <3>3. CASE p = msg /\ task = "receive" /\ task' = "none" /\ busy' = busy
                 /\ queue'[p].creator \in {COMPONENT_OPENCOAP,
                                           COMPONENT_FORWARDING}
      <4>1. out = NULL /\ Flag(queue, p) = {}
        BY <3>3 DEF Base, Typed, TaskType, FlagsKept
      <4>2. Flag(queue', p) = {}
        BY <3>3, FlagDepends DEF COMPONENT_OPENCOAP, COMPONENT_FORWARDING,
             COMPONENT_SIXTOP, COMPONENT_ICMPv6RPL
      <4>. QED
        BY <3>1, <3>2, <3>3, <4>1, <4>2, FlagsSame
    <3>4. CASE /\ p = out /\ busy' = busy \cup Flag(queue, p)
               /\ Passes(p, COMPONENT_SIXTOP_TO_IEEE802154E)
               /\ \/ task = "reply" /\ task' = "replied" /\ msg' = msg
                  \/ task = "send" /\ task' = "none" /\ msg' = NULL
      <4>1. Flag(queue', p) = Flag(queue, p) /\ Flag(queue, p) \cap busy = {}
        BY <3>4, FlagDepends DEF Passes, FlagsKept
      <4>2. ASSUME NEW f, NEW r \in Slots
            PROVE  FlagHolder(f, r)' <=>
                     FlagHolder(f, r) \/ (r = p /\ f \in Flag(queue, p))
        BY <3>1, <3>2, <3>4, <4>1 DEF FlagHolder
      <4>3. /\ \A f : f \in busy' <=> \E r \in Slots : FlagHolder(f, r)'
            /\ \A f : \A q, r \in Slots :
                 FlagHolder(f, q)' /\ FlagHolder(f, r)' => q = r
        BY <3>4, <4>1, <4>2 DEF FlagsKept, FlagHolder
      <4>4. ASSUME task' = "replied" PROVE Flag(queue', msg') = {}
        <5>1. task = "reply" /\ msg' = msg /\ msg \in Slots /\ msg # out
          BY <3>4, <4>4 DEF Base, Typed, TaskType, Custody, CustodyBut,
             TaskHolds
        <5>. QED
          BY <3>1, <3>4, <5>1 DEF FlagsKept
      <4>5. task' \in {"none", "replied"}
        BY <3>4
      <4>. QED
        BY <3>2, <4>3, <4>4, <4>5 DEF FlagsKept
    <3>. QED
      BY <2>5, <3>3, <3>4 DEF Hands
  <2>6. ASSUME NEW p \in Slots, OnlyIn({p}), Gets(p) PROVE FlagsKept'
    <3>1. \A r \in Slots \ {p} : Flag(queue', r) = Flag(queue, r)
      BY <2>6, FlagOther
    <3>2. Flag(queue, p) = {} /\ Flag(queue', p) \cap busy = {}
      BY <2>6, FlagDepends DEF Gets, FreeIsReset
    <3>3. out = NULL /\ out' = p /\ UNCHANGED <<msg, busy>>
      BY <2>6 DEF Gets
    <3>4. ASSUME task' \in {"receive", "reply", "replied"}
          PROVE  Flag(queue', msg') = {}
      <4>1. task = "receive" /\ msg \in Slots
        BY <2>6, <3>4 DEF Gets, Base, Typed, TaskType
      <4>2. msg # p
        BY <2>6, <4>1, InTransitOwners DEF Gets, Base, Custody, CustodyBut,
           TaskHolds
      <4>. QED
        BY <3>1, <3>3, <4>1, <4>2 DEF FlagsKept
    <3>. QED
      BY <3>1, <3>2, <3>3, <3>4, FlagsSame
  <2>7. ASSUME NEW p \in Slots, OnlyIn({p}), Loses(p) PROVE FlagsKept'
    <3>1. \A r \in Slots \ {p} : Flag(queue', r) = Flag(queue, r)
      BY <2>7, FlagOther
    <3>2. Flag(queue', p) = {}
      BY <2>7, FlagDepends DEF Loses, COMPONENT_FORWARDING,
           COMPONENT_SIXTOP, COMPONENT_ICMPv6RPL
    <3>3. Flag(queue, p) = {} /\ out = NULL /\ out' = NULL /\ busy' = busy
            /\ task' = "none"
      BY <2>7 DEF Loses, Base, Typed, TaskType, FlagsKept
    <3>. QED
      BY <3>1, <3>2, <3>3, FlagsSame
  <2>. QED
    BY <1>3, <2>1, <2>2, <2>3, <2>4, <2>5, <2>6, <2>7 DEF TaskEffect
<1>. QED
  BY <1>1, <1>2, <1>3, StepEffect

(* A busy flag is set exactly while one packet of its kind is between      *)
(* sixtop_send and its sendDone: neither a purge, of a packet that waits   *)
(* or of one the MAC is sending, nor a failed transmission leaves it set   *)
(* for ever, and no order of tasks queues a second packet of the kind.     *)
THEOREM FlagsTrueAlways == Spec => []FlagsTrue
<1>1. Init => FlagsKept
  BY FlagDepends DEF Init, EmptyQueue, FlagsKept, FlagHolder
<1>2. Base /\ Base' /\ FreeIsReset /\ FlagsKept /\ [Next]_vars => FlagsKept'
  BY FlagsStep
<1>3. Base /\ FreeIsReset /\ [Next]_vars => FreeIsReset'
  BY FreeIsResetStep
<1>4. Spec => []FlagsKept
  BY <1>1, <1>2, <1>3, FreeIsResetInit, BaseAlways, PTL DEF Spec
<1>5. FlagsKept => FlagsTrue
  <2>1. SUFFICES ASSUME FlagsKept PROVE FlagsTrue
    OBVIOUS
  <2>2. \A f : f \in busy <=> \E p \in Underway : f \in Flag(queue, p)
    BY <2>1 DEF FlagsKept, FlagHolder, Underway
  <2>3. busy = UNION {Flag(queue, p) : p \in Underway}
    BY <2>2
  <2>4. \A p, r \in Underway : Flag(queue, p) = Flag(queue, r) => p = r
    BY <2>1 DEF FlagsKept, FlagHolder, Underway
  <2>. QED
    BY <2>3, <2>4 DEF FlagsTrue
<1>. QED
  BY <1>4, <1>5, PTL

-----------------------------------------------------------------------------
(* The notifications.                                                      *)
-----------------------------------------------------------------------------
PendingRx == rxDone + (IF task = "rx" THEN 1 ELSE 0)
PendingTx == txDone + (IF task = "txdone" THEN 1 ELSE 0)

(* What waits for sixtop: packets received, and packets sent.              *)
IsRx(e) == /\ e.owner = COMPONENT_IEEE802154E_TO_SIXTOP
           /\ e.creator = COMPONENT_IEEE802154E
IsTx(e) == /\ e.owner = COMPONENT_IEEE802154E_TO_SIXTOP
           /\ e.creator # COMPONENT_IEEE802154E

RxSet == {r \in Slots : IsRx(queue[r])}
TxSet == {r \in Slots : IsTx(queue[r])}

(* Of the packets sent one may be missing if one was purged under the MAC. *)
MatchedBut(S) ==
  /\ Cardinality(RxSet) = PendingRx
  /\ Cardinality(TxSet) <= PendingTx
  /\ S = {} => Cardinality(TxSet) = PendingTx

Matched == MatchedBut(stray)

LEMMA ToSixtopIs == ToSixtop(TRUE) = RxSet /\ ToSixtop(FALSE) = TxSet
BY DEF ToSixtop, OwnedBy, RxSet, TxSet, IsRx, IsTx

LEMMA PoolFinite ==
  ASSUME NEW S \in SUBSET Slots
  PROVE  /\ IsFiniteSet(S) /\ Cardinality(S) \in Nat
         /\ Cardinality(S) = 0 <=> S = {}
<1>1. IsFiniteSet(Slots)
  BY QueueAssumption, FS_Interval DEF Slots
<1>. QED
  BY <1>1, FS_Subset, FS_CardinalityType, FS_EmptySet

LEMMA WaitingSets ==
  /\ RxSet \in SUBSET Slots
  /\ TxSet \in SUBSET Slots
BY DEF RxSet, TxSet

(* A set of buffers to which one is added, or of which one is taken.       *)
LEMMA OneMore ==
  ASSUME NEW S \in SUBSET Slots, NEW p \in Slots \ S
  PROVE  Cardinality(S \cup {p}) = Cardinality(S) + 1
BY PoolFinite, FS_AddElement

LEMMA OneLess ==
  ASSUME NEW S \in SUBSET Slots, NEW p \in S
  PROVE  Cardinality(S \ {p}) = Cardinality(S) - 1
BY PoolFinite, FS_RemoveElement

LEMMA SameWaiting ==
  ASSUME NEW S, OnlyIn(S),
         \A r \in Slots \cap S : (IsRx(queue'[r]) <=> IsRx(queue[r]))
                              /\ (IsTx(queue'[r]) <=> IsTx(queue[r]))
  PROVE  RxSet' = RxSet /\ TxSet' = TxSet
<1>1. \A r \in Slots : (IsRx(queue'[r]) <=> IsRx(queue[r]))
                    /\ (IsTx(queue'[r]) <=> IsTx(queue[r]))
  BY DEF OnlyIn
<1>. QED
  BY <1>1 DEF RxSet, TxSet

LEMMA MatchedSame ==
  ASSUME NEW S, MatchedBut(S), RxSet' = RxSet, TxSet' = TxSet,
         PendingRx' = PendingRx, PendingTx' = PendingTx
  PROVE  MatchedBut(S)'
BY DEF MatchedBut

(* A frame that was received comes to wait for sixtop.                     *)
LEMMA MatchedReceived ==
  ASSUME NEW S, Typed, MatchedBut(S), UNCHANGED task, Counted(0, 1),
         NEW p \in Slots, NEW R, OnlyIn(R \cup {p}),
         ~IsRx(queue[p]), ~IsTx(queue[p]), IsRx(queue'[p]), ~IsTx(queue'[p]),
         \A r \in (Slots \cap R) \ {p} :
           /\ ~IsRx(queue[r]) /\ ~IsRx(queue'[r])
           /\ ~IsTx(queue[r]) /\ ~IsTx(queue'[r])
  PROVE  MatchedBut(S)'
<1>1. \A r \in Slots \ {p} : (IsRx(queue'[r]) <=> IsRx(queue[r]))
                          /\ (IsTx(queue'[r]) <=> IsTx(queue[r]))
  BY DEF OnlyIn
<1>2. RxSet' = RxSet \cup {p} /\ p \notin RxSet /\ TxSet' = TxSet
  BY <1>1 DEF RxSet, TxSet
<1>3. PendingRx' = PendingRx + 1 /\ PendingTx' = PendingTx
  BY DEF Counted, PendingRx, PendingTx, Typed, CountersType
<1>4. Cardinality(RxSet \cup {p}) = Cardinality(RxSet) + 1
  BY <1>2, WaitingSets, OneMore
<1>. QED
  BY <1>2, <1>3, <1>4 DEF MatchedBut

LEMMA MatchedInterrupt ==
  ASSUME NEW S, Base, MatchedBut(S), Effect, UNCHANGED task
  PROVE  MatchedBut(S)'
<1>. USE NullIsNoSlot DEF COMPONENT_NULL, COMPONENT_IEEE802154E,
         COMPONENT_SIXTOP_TO_IEEE802154E, COMPONENT_IEEE802154E_TO_SIXTOP
<1>1. rxDone \in Nat /\ txDone \in Nat
  BY DEF Base, Typed, CountersType
<1>2. ASSUME Counted(0, 0)
      PROVE  PendingRx' = PendingRx /\ PendingTx' = PendingTx
  BY <1>1, <1>2 DEF Counted, PendingRx, PendingTx
<1>3. CASE Nothing
  BY <1>2, <1>3, SameWaiting, MatchedSame DEF Nothing
<1>4. ASSUME NEW p \in Slots, Starts(p) \/ Keeps(p) \/ Retries(p)
      PROVE  MatchedBut(S)'
  <2>1. OnlyIn({p}) /\ Counted(0, 0)
    BY <1>4 DEF Starts, Keeps, Fills, Retries, Sending
  <2>2. /\ ~IsRx(queue[p]) /\ ~IsRx(queue'[p])
        /\ ~IsTx(queue[p]) /\ ~IsTx(queue'[p])
    BY <1>4 DEF Starts, Keeps, Fills, Retries, Sending, Passes, IsRx, IsTx
  <2>. QED
    BY <1>2, <2>1, <2>2, SameWaiting, MatchedSame
<1>5. ASSUME NEW p \in Slots, PassesUp(p) PROVE MatchedBut(S)'
  <2>1. OnlyIn({} \cup {p}) /\ Counted(0, 1)
    BY <1>5 DEF PassesUp, Fills
  <2>2. ~IsRx(queue[p]) /\ ~IsTx(queue[p]) /\ IsRx(queue'[p])
          /\ ~IsTx(queue'[p])
    BY <1>5 DEF PassesUp, Fills, IsRx, IsTx
  <2>. QED
    BY <2>1, <2>2, MatchedReceived DEF Base
<1>6. ASSUME NEW p \in Slots, Reports(p) PROVE MatchedBut(S)'
  <2>1. OnlyIn({p}) /\ Counted(1, 0)
    BY <1>6 DEF Reports, Sending
  <2>2. ~IsRx(queue[p]) /\ ~IsTx(queue[p]) /\ ~IsRx(queue'[p])
          /\ IsTx(queue'[p])
    BY <1>6 DEF Reports, Sending, Passes, IsRx, IsTx
  <2>3. RxSet' = RxSet /\ TxSet' = TxSet \cup {p} /\ p \notin TxSet
    BY <2>1, <2>2 DEF OnlyIn, RxSet, TxSet
  <2>4. PendingRx' = PendingRx /\ PendingTx' = PendingTx + 1
    BY <1>1, <2>1 DEF Counted, PendingRx, PendingTx
  <2>5. Cardinality(TxSet \cup {p}) = Cardinality(TxSet) + 1
          /\ Cardinality(TxSet) \in Nat
    BY <2>3, WaitingSets, OneMore, PoolFinite
  <2>6. PendingTx \in Nat
    BY <1>1 DEF PendingTx
  <2>. QED
    BY <2>3, <2>4, <2>5, <2>6 DEF MatchedBut
<1>7. ASSUME NEW p \in Slots, NEW ack \in Slots \cup {NULL}, Delivers(p, ack)
      PROVE  MatchedBut(S)'
  <2>1. OnlyIn({ack} \cup {p}) /\ Counted(0, 1)
    BY <1>7 DEF Delivers, OnlyIn
  <2>2. ~IsRx(queue[p]) /\ ~IsTx(queue[p]) /\ IsRx(queue'[p])
          /\ ~IsTx(queue'[p])
    BY <1>7 DEF Delivers, Passes, IsRx, IsTx
  <2>3. \A r \in (Slots \cap {ack}) \ {p} :
          /\ ~IsRx(queue[r]) /\ ~IsRx(queue'[r])
          /\ ~IsTx(queue[r]) /\ ~IsTx(queue'[r])
    BY <1>7, ResetOwner DEF Delivers, IsRx, IsTx
  <2>. QED
    BY <2>1, <2>2, <2>3, MatchedReceived DEF Base
<1>. QED
  BY <1>3, <1>4, <1>5, <1>6, <1>7 DEF Effect

(* A task that is not about to pick up a packet.                           *)
LEMMA SteadyPending ==
  ASSUME Steady
  PROVE  PendingRx' = PendingRx /\ PendingTx' = PendingTx
BY DEF Steady, PendingRx, PendingTx

(* The task of a notification finds its packet, unless it is that of one   *)
(* sent and a packet was purged under the MAC.                             *)
LEMMA NoneMisses ==
  ASSUME NEW S, Typed, MatchedBut(S), Misses
  PROVE  S # {} /\ task = "txdone" /\ critical' = {"NO_SENT_PACKET"}
<1>1. rxDone \in Nat /\ txDone \in Nat
  BY DEF Typed, CountersType
<1>2. task = "rx" => Cardinality(RxSet) # 0
  BY <1>1 DEF MatchedBut, PendingRx
<1>3. S = {} /\ task = "txdone" => Cardinality(TxSet) # 0
  BY <1>1 DEF MatchedBut, PendingTx
<1>4. Cardinality({}) = 0
  BY FS_EmptySet
<1>. QED
  BY <1>2, <1>3, <1>4, ToSixtopIs DEF Misses

LEMMA MatchedTask ==
  ASSUME NEW S, Base, CustodyBut(S), MatchedBut(S), TaskEffect
  PROVE  MatchedBut(S)'
<1>. USE NullIsNoSlot DEF COMPONENT_NULL, COMPONENT_IEEE802154E,
         COMPONENT_SIXTOP_TO_IEEE802154E, COMPONENT_IEEE802154E_TO_SIXTOP
<1>1. rxDone \in Nat /\ txDone \in Nat /\ Typed
  BY DEF Base, Typed, CountersType
<1>12. PendingTx \in Nat /\ Cardinality(TxSet) \in Nat
  BY <1>1, WaitingSets, PoolFinite DEF PendingTx
<1>2. CASE Begins
  <2>1. PendingRx' = PendingRx /\ PendingTx' = PendingTx
    BY <1>1, <1>2 DEF Begins, PendingRx, PendingTx
  <2>. QED
    BY <1>2, <2>1, SameWaiting, MatchedSame DEF Begins
<1>3. CASE Purges
  <2>1. rxDone = 0 /\ txDone = 0 /\ task = "none" /\ Steady
    BY <1>3 DEF Purges, MayStart
  <2>2. Cardinality(RxSet) = 0 /\ Cardinality(TxSet) = 0
    BY <1>12, <2>1 DEF MatchedBut, PendingRx, PendingTx
  <2>3. RxSet = {} /\ TxSet = {}
    BY <2>2, WaitingSets, PoolFinite
  <2>4. \A r \in Slots : queue'[r] \in {queue[r], reset_entry}
    BY <1>3 DEF Purges
  <2>5. RxSet' = RxSet /\ TxSet' = TxSet
    BY <2>3, <2>4, ResetOwner DEF RxSet, TxSet, IsRx, IsTx
  <2>. QED
    BY <2>1, <2>5, SteadyPending, MatchedSame
<1>4. ASSUME NEW p \in Slots, OnlyIn({p}), Picks(p) PROVE MatchedBut(S)'
  <2>1. ~IsRx(queue'[p]) /\ ~IsTx(queue'[p])
    BY <1>4 DEF Picks, Passes, IsRx, IsTx, COMPONENT_SIXTOP
  <2>2. CASE task = "rx"
    <3>1. IsRx(queue[p]) /\ ~IsTx(queue[p])
      BY <1>4, <2>2 DEF Picks, IsRx, IsTx
    <3>2. RxSet' = RxSet \ {p} /\ p \in RxSet /\ TxSet' = TxSet
      BY <1>4, <2>1, <3>1 DEF OnlyIn, RxSet, TxSet
    <3>3. PendingTx' = PendingTx /\ PendingRx' = PendingRx - 1
      BY <1>1, <1>4, <2>2 DEF Picks, PendingRx, PendingTx
    <3>4. Cardinality(RxSet \ {p}) = Cardinality(RxSet) - 1
      BY <3>2, WaitingSets, OneLess
    <3>. QED
      BY <3>2, <3>3, <3>4 DEF MatchedBut
  <2>3. CASE task = "txdone"
    <3>1. ~IsRx(queue[p]) /\ IsTx(queue[p])
      BY <1>4, <2>3 DEF Picks, IsRx, IsTx
    <3>2. TxSet' = TxSet \ {p} /\ p \in TxSet /\ RxSet' = RxSet
      BY <1>4, <2>1, <3>1 DEF OnlyIn, RxSet, TxSet
    <3>3. PendingRx' = PendingRx /\ PendingTx' = PendingTx - 1
      BY <1>1, <1>4, <2>3 DEF Picks, PendingRx, PendingTx
    <3>4. Cardinality(TxSet \ {p}) = Cardinality(TxSet) - 1
      BY <3>2, WaitingSets, OneLess
    <3>. QED
      BY <1>12, <3>2, <3>3, <3>4 DEF MatchedBut
  <2>. QED
    BY <1>4, <2>2, <2>3 DEF Picks
<1>5. ASSUME NEW p \in Slots, OnlyIn({p}),
             Drops(p) \/ Hands(p) \/ Gets(p) \/ Loses(p)
      PROVE  MatchedBut(S)'
  <2>1. Steady
    BY <1>5 DEF Drops, Hands, Gets, Loses
  <2>2. /\ ~IsRx(queue[p])
        /\ p \notin S => ~IsTx(queue[p])
    <3>1. CASE Drops(p) \/ Hands(p) \/ Loses(p)
      <4>1. p \in {msg, out} \ {NULL}
        BY <3>1 DEF Drops, Hands, Loses
      <4>. QED
        BY <4>1, InTransitOwners DEF CustodyBut, TaskHolds, IsRx, IsTx
    <3>2. CASE Gets(p)
      BY <3>2 DEF Gets, IsRx, IsTx
    <3>. QED
      BY <1>5, <3>1, <3>2
  <2>3. ~IsRx(queue'[p]) /\ ~IsTx(queue'[p])
    <3>1. CASE Drops(p) \/ Hands(p)
      BY <3>1, ResetOwner DEF Drops, Hands, IsRx, IsTx
    <3>2. CASE Gets(p) \/ Loses(p)
      BY <3>2, InTransitOwners DEF Gets, Loses, IsRx, IsTx
    <3>. QED
      BY <1>5, <3>1, <3>2
  <2>4. CASE ~IsTx(queue[p])
    BY <1>5, <2>1, <2>2, <2>3, <2>4, SameWaiting, SteadyPending, MatchedSame
  <2>5. CASE IsTx(queue[p])
    <3>1. TxSet' = TxSet \ {p} /\ p \in TxSet /\ RxSet' = RxSet
      BY <1>5, <2>2, <2>3, <2>5 DEF OnlyIn, RxSet, TxSet
    <3>2. Cardinality(TxSet \ {p}) = Cardinality(TxSet) - 1
      BY <3>1, WaitingSets, OneLess
    <3>3. S # {}
      BY <2>2, <2>5
    <3>. QED
      BY <1>12, <2>1, <3>1, <3>2, <3>3, SteadyPending DEF MatchedBut
  <2>. QED
    BY <2>4, <2>5
<1>6. CASE Misses
  <2>1. S # {} /\ task = "txdone" /\ TxSet = {}
    BY <1>1, <1>6, NoneMisses, ToSixtopIs DEF Misses
  <2>2. RxSet' = RxSet /\ TxSet' = {}
    BY <1>6, <2>1, SameWaiting DEF Misses
  <2>3. PendingRx' = PendingRx /\ PendingTx' \in Nat
    BY <1>1, <1>6, <2>1 DEF Misses, PendingRx, PendingTx
  <2>4. Cardinality({}) = 0
    BY FS_EmptySet
  <2>. QED
    BY <2>1, <2>2, <2>3, <2>4 DEF MatchedBut
<1>. QED
  BY <1>1, <1>2, <1>3, <1>4, <1>5, <1>6 DEF TaskEffect

(* What is no longer stray has no notification pending.                    *)
LEMMA MatchedStep ==
  ASSUME Base, FreeIsReset, Matched, [Next]_vars
  PROVE  Matched'
<1>1. PICK S : S = stray
  OBVIOUS
<1>2. CustodyBut(S) /\ MatchedBut(S)
  BY <1>1 DEF Base, Custody, Matched
<1>3. CASE UNCHANGED vars
  BY <1>3 DEF vars, taskVars, Matched, MatchedBut, PendingRx, PendingTx,
       RxSet, TxSet
<1>4. CASE ~UNCHANGED vars
  <2>1. MatchedBut(S)'
    BY <1>2, <1>4, StepEffect, MatchedInterrupt, MatchedTask
  <2>2. ASSUME stray' = {}, S # {} PROVE Cardinality(TxSet)' = PendingTx'
    <3>1. txDone' \in Nat
      BY TypedStep DEF Base, Typed, CountersType
    <3>2. ~(txDone' > 0) /\ task' # "txdone"
      BY <1>1, <2>2, StrayStays
    <3>6. txDone' = 0 /\ 0 + 0 = 0
      BY <3>1, <3>2
    <3>3. PendingTx' = 0
      BY <3>2, <3>6 DEF PendingTx
    <3>4. TxSet' \in SUBSET Slots
      BY DEF TxSet, Slots
    <3>5. Cardinality(TxSet') \in Nat
      BY <3>4, PoolFinite
    <3>. QED
      BY <2>1, <3>3, <3>5 DEF MatchedBut
  <2>. QED
    BY <1>1, <2>1, <2>2 DEF Matched, MatchedBut
<1>. QED
  BY <1>3, <1>4

(* An interrupt reports no more than a buffer freed twice.                 *)
LEMMA InterruptErrors ==
  ASSUME Interrupt
  PROVE  critical' \subseteq {"FREEING_UNUSED"}
<1>1. ASSUME NEW q, NEW m, NEW tx, NEW rx, endSlot(q, m, tx, rx)
      PROVE  critical' \subseteq {"FREEING_UNUSED"}
  BY <1>1 DEF endSlot
<1>2. ASSUME NEW next, Arm(next) PROVE critical' = {}
  BY <1>2 DEF Arm, Silent
<1>3. CASE isr_ieee154e_newSlot
  BY <1>1, <1>2, <1>3 DEF isr_ieee154e_newSlot, ListenForEB,
       RootSynchronizes, Desynchronize, InactiveSlot, AbortSlot, TxCell,
       TxRxCell, RxCell, Transmit, Listen, Advance, Silent
<1>4. CASE isr_ieee154e_timer
  BY <1>1, <1>2, <1>4 DEF isr_ieee154e_timer, activity_ti2, activity_ti3,
       activity_ti6, activity_ti7, activity_ri2, activity_ri3, activity_ri6,
       activity_ri7, Timeout, AbortSlot, Advance
<1>5. CASE ieee154e_startOfFrame
  BY <1>1, <1>2, <1>5 DEF ieee154e_startOfFrame, activity_ti4, activity_ti8,
       activity_synchronize_startOfFrame, activity_ri4, activity_ri8,
       UnexpectedStart, AbortSlot, Advance, Silent
<1>6. CASE ieee154e_endOfFrame
  BY <1>1, <1>2, <1>6 DEF ieee154e_endOfFrame, activity_ti5, activity_ti9,
       activity_synchronize_endOfFrame, activity_ri5, activity_ri9,
       UnexpectedEnd, AbortSlot, Silent
<1>. QED
  BY <1>3, <1>4, <1>5, <1>6 DEF Interrupt

NoneMissed ==
  /\ "NO_RECEIVED_PACKET" \notin critical
  /\ "NO_SENT_PACKET" \in critical => stray # {}

LEMMA NoneMissedStep ==
  ASSUME Base, FreeIsReset, Matched, NoneMissed, [Next]_vars
  PROVE  NoneMissed'
<1>1. CASE UNCHANGED vars
  BY <1>1 DEF vars, NoneMissed
<1>2. CASE Interrupt
  BY <1>2, InterruptErrors DEF NoneMissed
<1>3. CASE TaskEffect
  <2>1. CASE Misses
    <3>1. stray # {} /\ task = "txdone" /\ critical' = {"NO_SENT_PACKET"}
      BY <2>1, NoneMisses DEF Base, Matched
    <3>2. stray' # {}
      BY <3>1, StrayStays
    <3>. QED
      BY <3>1, <3>2 DEF NoneMissed
  <2>2. CASE ~Misses
    BY <1>3, <2>2 DEF TaskEffect, Begins, Purges, Picks, Drops, Hands, Gets,
         Loses, Steady, Silent, NoneMissed
  <2>. QED
    BY <2>1, <2>2
<1>. QED
  BY <1>1, <1>2, <1>3, StepEffect

LEMMA MatchedAlways == Spec => [](Base /\ FreeIsReset /\ Matched /\ NoneMissed)
<1>1. Init => Matched /\ NoneMissed
  <2>1. SUFFICES ASSUME Init PROVE Matched /\ NoneMissed
    OBVIOUS
  <2>2. \A r \in Slots : queue[r].owner = COMPONENT_NULL
    BY <2>1, ResetOwner DEF Init, EmptyQueue
  <2>3. RxSet = {} /\ TxSet = {}
    BY <2>2 DEF RxSet, TxSet, IsRx, IsTx, COMPONENT_NULL,
         COMPONENT_IEEE802154E_TO_SIXTOP
  <2>4. Cardinality(RxSet) = 0 /\ Cardinality(TxSet) = 0
    BY <2>3, FS_EmptySet
  <2>. QED
    BY <2>1, <2>4 DEF Init, Matched, MatchedBut, NoneMissed, PendingRx,
         PendingTx
<1>. QED
  BY <1>1, FreeIsResetStep, MatchedStep, NoneMissedStep, FreeIsResetInit,
     BaseAlways, PTL DEF Spec

(* For each packet given to sixtop a notification is pending, whatever     *)
(* order interrupts and tasks come in and whatever is purged: none is      *)
(* handled twice or forgotten.  The task of a notification finds its       *)
(* packet, unless one was purged while the MAC was sending it.             *)
THEOREM NotifiedOnceAlways == Spec => []NotifiedOnce
<1>1. Matched /\ NoneMissed => NotifiedOnce
  BY ToSixtopIs DEF Matched, MatchedBut, NoneMissed, PendingRx, PendingTx,
     NotifiedOnce
<1>. QED
  BY <1>1, MatchedAlways, PTL

-----------------------------------------------------------------------------
(* The room left for packets of high priority.                             *)
-----------------------------------------------------------------------------
(* The packets of low priority, answers of OpenCoAP apart.                 *)
Low(q) == {p \in LowPriority(q) : q[p].creator # COMPONENT_OPENCOAP}

LowBound ==
  Cardinality(Low(queue)) <= QUEUELENGTH - HIGH_PRIORITY_QUEUE_ENTRY + 1

LEMMA LowPrioritySet ==
  \A q : LowPriority(q) \in SUBSET Slots /\ Low(q) \in SUBSET LowPriority(q)
BY DEF LowPriority, Low

LEMMA LowCounts ==
  ASSUME NEW q
  PROVE  /\ Cardinality(Low(q)) \in Nat
         /\ Cardinality(LowPriority(q)) \in Nat
         /\ Cardinality(Low(q)) <= Cardinality(LowPriority(q))
<1>1. Low(q) \in SUBSET Slots /\ LowPriority(q) \in SUBSET Slots
        /\ Low(q) \subseteq LowPriority(q)
  BY LowPrioritySet
<1>2. IsFiniteSet(LowPriority(q))
  BY <1>1, PoolFinite
<1>. QED
  BY <1>1, <1>2, PoolFinite, FS_Subset

LEMMA LowBoundShrinks ==
  ASSUME LowBound, Low(queue') \subseteq Low(queue)
  PROVE  LowBound'
<1>1. Low(queue)' = Low(queue')
  BY DEF Low, LowPriority, Slots
<1>2. Low(queue) \in SUBSET Slots /\ Low(queue') \in SUBSET Slots
  BY LowPrioritySet
<1>3. IsFiniteSet(Low(queue))
        /\ Cardinality(Low(queue)) \in Nat
        /\ Cardinality(Low(queue')) \in Nat
  BY <1>2, PoolFinite
<1>4. Cardinality(Low(queue')) <= Cardinality(Low(queue))
  BY <1>3, FS_Subset
<1>. QED
  BY <1>1, <1>3, <1>4, QueueAssumption DEF LowBound

(* The creators that are not counted.                                      *)
Uncounted == {COMPONENT_NULL, COMPONENT_IEEE802154E, COMPONENT_OPENCOAP}

(* No buffer gets a packet of low priority in it, except those of S.       *)
LEMMA LowPriorityOnly ==
  ASSUME NEW S, OnlyIn(S),
         \A r \in Slots \cap S :
           queue'[r].creator \in Uncounted \cup {queue[r].creator}
  PROVE  Low(queue') \subseteq Low(queue)
BY DEF OnlyIn, Low, LowPriority, Uncounted, COMPONENT_NULL,
     COMPONENT_IEEE802154E, COMPONENT_OPENCOAP, COMPONENT_SIXTOP_RES

LEMMA LowBoundInterrupt ==
  ASSUME Base, LowBound, Effect
  PROVE  LowBound'
<1>1. reset_entry.creator = COMPONENT_NULL
  BY DEF reset_entry
<1>. USE NullIsNoSlot DEF Uncounted
<1>2. CASE Nothing
  BY <1>2, LowPriorityOnly, LowBoundShrinks DEF Nothing
<1>3. ASSUME NEW p \in Slots, Starts(p) \/ Keeps(p) \/ PassesUp(p) \/
             Retries(p) \/ Reports(p)
      PROVE  LowBound'
  <2>1. OnlyIn({p}) /\ queue'[p].creator \in {queue[p].creator,
                                              COMPONENT_IEEE802154E}
    BY <1>3 DEF Starts, Keeps, PassesUp, Fills, Retries, Reports, Sending,
         Passes
  <2>. QED
    BY <2>1, LowPriorityOnly, LowBoundShrinks
<1>4. ASSUME NEW p \in Slots, NEW ack \in Slots \cup {NULL}, Delivers(p, ack)
      PROVE  LowBound'
  <2>1. OnlyIn({p, ack})
    BY <1>4 DEF Delivers
  <2>2. \A r \in Slots \cap {p, ack} :
          queue'[r].creator \in {queue[r].creator, COMPONENT_NULL}
    BY <1>1, <1>4 DEF Delivers, Passes
  <2>. QED
    BY <2>1, <2>2, LowPriorityOnly, LowBoundShrinks
<1>. QED
  BY <1>2, <1>3, <1>4 DEF Effect

LEMMA LowBoundTask ==
  ASSUME Base, LowBound, TaskEffect
  PROVE  LowBound'
<1>1. reset_entry.creator = COMPONENT_NULL
  BY DEF reset_entry
<1>2. ASSUME isHighPriorityEntryEnough(queue') PROVE LowBound'
  <2>1. /\ Cardinality(LowPriority(queue')) \in Nat
        /\ Cardinality(Low(queue')) \in Nat
        /\ Cardinality(Low(queue')) <= Cardinality(LowPriority(queue'))
    BY LowCounts
  <2>2. Low(queue)' = Low(queue')
    BY DEF Low, LowPriority, Slots
  <2>. QED
    BY <1>2, <2>1, <2>2, QueueAssumption
       DEF isHighPriorityEntryEnough, LowBound
<1>. USE NullIsNoSlot DEF Uncounted
<1>3. CASE Begins \/ Misses
  BY <1>3, LowPriorityOnly, LowBoundShrinks DEF Begins, Misses
<1>4. CASE Purges
  <2>1. \A r \in Slots : queue'[r] \in {queue[r], reset_entry}
    BY <1>4 DEF Purges
  <2>2. Low(queue') \subseteq Low(queue)
    BY <1>1, <2>1 DEF Low, LowPriority, COMPONENT_NULL, COMPONENT_SIXTOP_RES
  <2>. QED
    BY <2>2, LowBoundShrinks
<1>5. ASSUME NEW p \in Slots, OnlyIn({p}), Picks(p) \/ Drops(p)
      PROVE  LowBound'
  <2>1. queue'[p].creator \in {queue[p].creator, COMPONENT_NULL}
    BY <1>1, <1>5 DEF Picks, Passes, Drops
  <2>. QED
    BY <1>5, <2>1, LowPriorityOnly, LowBoundShrinks
<1>6. ASSUME NEW p \in Slots, OnlyIn({p}), Hands(p) PROVE LowBound'
  <2>1. CASE isHighPriorityEntryEnough(queue')
    BY <1>2, <2>1
  <2>2. CASE ~isHighPriorityEntryEnough(queue')
    <3>1. queue'[p].creator \in {COMPONENT_OPENCOAP, queue[p].creator}
      BY <1>6, <2>2 DEF Hands, Passes
    <3>. QED
      BY <1>6, <3>1, LowPriorityOnly, LowBoundShrinks
  <2>. QED
    BY <2>1, <2>2
<1>7. ASSUME NEW p \in Slots, OnlyIn({p}), Gets(p) PROVE LowBound'
  <2>1. CASE Low(queue') \subseteq Low(queue)
    BY <2>1, LowBoundShrinks
  <2>2. CASE ~(Low(queue') \subseteq Low(queue))
    <3>1. Low(queue') = Low(queue) \cup {p} /\ p \notin Low(queue)
            /\ queue'[p].creator > COMPONENT_SIXTOP_RES
      BY <1>7, <2>2 DEF OnlyIn, Low, LowPriority
    <3>2. Low(queue) \in SUBSET Slots
      BY LowPrioritySet
    <3>3. Cardinality(Low(queue')) = Cardinality(Low(queue)) + 1
      BY <3>1, <3>2, OneMore
    <3>4. isHighPriorityEntryEnough(queue)
      BY <1>7, <3>1 DEF Gets
    <3>5. Low(queue)' = Low(queue')
      BY DEF Low, LowPriority, Slots
    <3>6. /\ Cardinality(Low(queue)) \in Nat
          /\ Cardinality(LowPriority(queue)) \in Nat
          /\ Cardinality(Low(queue)) <= Cardinality(LowPriority(queue))
      BY LowCounts
    <3>. QED
      BY <3>3, <3>4, <3>5, <3>6, QueueAssumption
         DEF isHighPriorityEntryEnough, LowBound
  <2>. QED
    BY <2>1, <2>2
<1>8. ASSUME NEW p \in Slots, Loses(p) PROVE LowBound'
  BY <1>2, <1>8 DEF Loses
<1>. QED
  BY <1>3, <1>4, <1>5, <1>6, <1>7, <1>8 DEF TaskEffect

(* Packets of low priority take at most one buffer more than the pool      *)
(* leaves to them, whatever is purged, leaked or fails: the packets        *)
(* received, which are relayed under another creator, cannot take more     *)
(* either.  Answers of OpenCoAP, which no one counts, are not counted.     *)
THEOREM SpaceLeftAlways == Spec => []SpaceLeft
<1>1. Init => LowBound
  <2>1. SUFFICES ASSUME Init PROVE LowBound
    OBVIOUS
  <2>2. Low(queue) = {}
    BY <2>1 DEF Init, EmptyQueue, Low, LowPriority, reset_entry,
         COMPONENT_NULL, COMPONENT_SIXTOP_RES
  <2>3. Cardinality(Low(queue)) = 0
    BY <2>2, FS_EmptySet
  <2>. QED
    BY <2>3, QueueAssumption DEF LowBound
<1>2. Base /\ FreeIsReset /\ LowBound /\ [Next]_vars => LowBound'
  <2>1. SUFFICES ASSUME Base, FreeIsReset, LowBound, [Next]_vars
                 PROVE  LowBound'
    OBVIOUS
  <2>2. CASE UNCHANGED vars
    BY <2>1, <2>2 DEF vars, LowBound, Low, LowPriority
  <2>. QED
    BY <2>1, <2>2, StepEffect, LowBoundInterrupt, LowBoundTask
<1>3. Base /\ FreeIsReset /\ [Next]_vars => FreeIsReset'
  BY FreeIsResetStep
<1>4. LowBound => SpaceLeft
  BY DEF LowBound, Low, SpaceLeft
<1>. QED
  BY <1>1, <1>2, <1>3, <1>4, FreeIsResetInit, BaseAlways, PTL DEF Spec

-----------------------------------------------------------------------------
(* The life of a buffer.                                                   *)
-----------------------------------------------------------------------------
(* A packet received has no transmissions left, and the packet a task      *)
(* received, until it is sent on, is such a packet.                        *)
RadioLeft ==
  \A r \in Slots : queue[r].creator = COMPONENT_IEEE802154E =>
                     queue[r].retriesLeft = 0

MsgReceived ==
  task \in {"receive", "reply", "replied"} /\ msg # NULL =>
    queue[msg].creator = COMPONENT_IEEE802154E

Lived == RadioLeft /\ MsgReceived

LEMMA LivedInterrupt ==
  ASSUME Base, Lived, Effect, UNCHANGED <<task, msg, out, busy>>
  PROVE  Lived'
<1>. USE NullIsNoSlot DEF COMPONENT_NULL, COMPONENT_IEEE802154E
<1>1. RadioLeft'
  <2>1. CASE Nothing
    BY <2>1 DEF Nothing, OnlyIn, Lived, RadioLeft
  <2>2. ASSUME NEW p \in Slots, Starts(p) \/ Retries(p) \/ Reports(p)
        PROVE  RadioLeft'
    BY <2>2 DEF Starts, Retries, Reports, Sending, Passes, OnlyIn, Lived,
         RadioLeft
  <2>3. ASSUME NEW p \in Slots, Keeps(p) \/ PassesUp(p) PROVE RadioLeft'
    BY <2>3 DEF Keeps, PassesUp, Fills, OnlyIn, Lived, RadioLeft
  <2>4. ASSUME NEW p \in Slots, NEW ack \in Slots \cup {NULL},
               Delivers(p, ack)
        PROVE  RadioLeft'
    BY <2>4, ResetOwner DEF Delivers, Passes, OnlyIn, Lived, RadioLeft
  <2>. QED
    BY <2>1, <2>2, <2>3, <2>4 DEF Effect
<1>2. MsgReceived'
  <2>1. SUFFICES ASSUME msg # NULL PROVE queue'[msg] = queue[msg]
    BY DEF Lived, MsgReceived
  <2>2. msg \in Slots /\ queue[msg].owner \notin InTransit
          /\ msg # mac.dataToSend
    BY <2>1 DEF Base, Typed, TaskType, Custody, CustodyBut, TaskHolds
  <2>3. ~Emptied(msg) /\ ~Moved(msg)
    BY <2>2, InTransitOwners DEF Emptied, Moved
  <2>. QED
    BY <2>2, <2>3, EffectOn DEF Untouched
<1>. QED
  BY <1>1, <1>2 DEF Lived

LEMMA LivedTask ==
  ASSUME Base, Lived, TaskEffect
  PROVE  Lived'
<1>. USE NullIsNoSlot DEF COMPONENT_NULL, COMPONENT_IEEE802154E
<1>1. CASE Begins \/ Misses
  BY <1>1 DEF Begins, Misses, OnlyIn, Lived, RadioLeft, MsgReceived
<1>2. CASE Purges
  <2>1. \A r \in Slots : queue'[r] \in {queue[r], reset_entry}
    BY <1>2 DEF Purges
  <2>2. RadioLeft'
    BY <2>1, ResetOwner DEF Lived, RadioLeft
  <2>3. task' = "none"
    BY <1>2 DEF Purges, MayStart
  <2>. QED
    BY <2>2, <2>3 DEF Lived, MsgReceived
<1>3. ASSUME NEW p \in Slots, OnlyIn({p}), Picks(p) PROVE Lived'
  BY <1>3 DEF Picks, Passes, OnlyIn, Lived, RadioLeft, MsgReceived
<1>4. ASSUME NEW p \in Slots, OnlyIn({p}), Drops(p) PROVE Lived'
  <2>1. RadioLeft'
    BY <1>4, ResetOwner DEF Drops, OnlyIn, Lived, RadioLeft
  <2>2. CASE task' = "none"
    BY <2>1, <2>2 DEF Lived, MsgReceived
  <2>3. CASE task = "reply" /\ task' = "replied"
    <3>1. p # msg /\ msg' \in {msg, NULL} /\ msg \in Slots \cup {NULL}
      BY <1>4, <2>3 DEF Drops, Base, Typed, TaskType, Custody, CustodyBut,
         TaskHolds
    <3>2. msg # NULL => queue'[msg] = queue[msg]
      BY <1>4, <3>1 DEF OnlyIn
    <3>. QED
      BY <2>1, <2>3, <3>1, <3>2 DEF Lived, MsgReceived
  <2>. QED
    BY <1>4, <2>2, <2>3 DEF Drops
<1>5. ASSUME NEW p \in Slots, OnlyIn({p}), Hands(p) PROVE Lived'
  <2>1. queue'[p].creator # COMPONENT_IEEE802154E
    BY <1>5 DEF Hands, Passes, COMPONENT_OPENCOAP, COMPONENT_FORWARDING,
         Base, Custody, CustodyBut, TaskHolds
  <2>2. RadioLeft'
    BY <1>5, <2>1 DEF OnlyIn, Lived, RadioLeft
  <2>3. CASE task' = "none"
    BY <2>2, <2>3 DEF Lived, MsgReceived
  <2>4. CASE p = out /\ task = "reply" /\ task' = "replied" /\ msg' = msg
    <3>1. p # msg /\ msg \in Slots \cup {NULL}
      BY <2>4 DEF Base, Typed, TaskType, Custody, CustodyBut, TaskHolds
    <3>2. msg # NULL => queue'[msg] = queue[msg]
      BY <1>5, <3>1 DEF OnlyIn
    <3>. QED
      BY <2>2, <2>4, <3>1, <3>2 DEF Lived, MsgReceived
  <2>. QED
    BY <1>5, <2>3, <2>4 DEF Hands
<1>6. ASSUME NEW p \in Slots, OnlyIn({p}), Gets(p) PROVE Lived'
  <2>1. RadioLeft'
    BY <1>6 DEF Gets, OnlyIn, Lived, RadioLeft
  <2>2. msg # NULL => msg # p /\ msg \in Slots
    BY <1>6, InTransitOwners DEF Gets, Base, Typed, TaskType, Custody,
       CustodyBut,
         TaskHolds
  <2>3. msg # NULL => queue'[msg] = queue[msg]
    BY <1>6, <2>2 DEF OnlyIn
  <2>4. /\ msg' = msg
        /\ task' \in {"receive", "reply", "replied"} => task = "receive"
    BY <1>6 DEF Gets
  <2>. QED
    BY <2>1, <2>3, <2>4 DEF Lived, MsgReceived
<1>7. ASSUME NEW p \in Slots, OnlyIn({p}), Loses(p) PROVE Lived'
  BY <1>7 DEF Loses, OnlyIn, Lived, RadioLeft, MsgReceived,
       COMPONENT_FORWARDING
<1>. QED
  BY <1>1, <1>2, <1>3, <1>4, <1>5, <1>6, <1>7 DEF TaskEffect

(* Where a buffer is, by its owner.                                        *)
LEMMA StageIs ==
  ASSUME NEW p \in Slots
  PROVE  /\ queue[p].owner = COMPONENT_NULL => Stage(p) = "free"
         /\ queue[p].owner = COMPONENT_SIXTOP_TO_IEEE802154E =>
              Stage(p) = "waiting"
         /\ queue[p].owner = COMPONENT_IEEE802154E_TO_SIXTOP =>
              Stage(p) = "reported"
         /\ queue[p].owner = COMPONENT_IEEE802154E =>
              Stage(p) = IF p = mac.dataToSend THEN "sending" ELSE "radio"
         /\ queue[p].owner \notin InTransit => Stage(p) = "held"
BY DEF Stage, InTransit, COMPONENT_NULL, COMPONENT_IEEE802154E,
     COMPONENT_SIXTOP_TO_IEEE802154E, COMPONENT_IEEE802154E_TO_SIXTOP

LEMMA NextStageIs ==
  ASSUME NEW p \in Slots
  PROVE  /\ queue'[p].owner = COMPONENT_NULL => Stage(p)' = "free"
         /\ queue'[p].owner = COMPONENT_SIXTOP_TO_IEEE802154E =>
              Stage(p)' = "waiting"
         /\ queue'[p].owner = COMPONENT_IEEE802154E_TO_SIXTOP =>
              Stage(p)' = "reported"
         /\ queue'[p].owner = COMPONENT_IEEE802154E =>
              Stage(p)' = IF p = mac'.dataToSend THEN "sending" ELSE "radio"
         /\ queue'[p].owner \notin InTransit => Stage(p)' = "held"
BY DEF Stage, InTransit, COMPONENT_NULL, COMPONENT_IEEE802154E,
     COMPONENT_SIXTOP_TO_IEEE802154E, COMPONENT_IEEE802154E_TO_SIXTOP

SameStage(r) ==
  Stage(r)' = Stage(r) /\ queue'[r].retriesLeft = queue[r].retriesLeft

LEMMA Stutters ==
  ASSUME NEW r \in Slots, SameStage(r)
  PROVE  UNCHANGED Life(r)!lifeVars
BY DEF SameStage, Life!lifeVars

(* A buffer that a step leaves alone stays where it is.                    *)
LEMMA StaysWhere ==
  ASSUME NEW r \in Slots, queue'[r] = queue[r],
         queue[r].owner = COMPONENT_IEEE802154E =>
           ((r = mac'.dataToSend) <=> (r = mac.dataToSend))
  PROVE  SameStage(r)
<1>1. CASE queue[r].owner = COMPONENT_IEEE802154E
  BY <1>1, StageIs, NextStageIs DEF SameStage
<1>2. CASE queue[r].owner \in InTransit \ {COMPONENT_IEEE802154E}
  BY <1>2, StageIs, NextStageIs DEF SameStage, InTransit
<1>3. CASE queue[r].owner \notin InTransit
  BY <1>3, StageIs, NextStageIs DEF SameStage
<1>. QED
  BY <1>1, <1>2, <1>3

(* An interrupt takes a buffer one step on in its life, unless the buffer  *)
(* was purged under the MAC.                                               *)
LEMMA InterruptLives ==
  ASSUME Base, Lived, Effect, NEW r \in Slots, r \notin stray
  PROVE  [Life(r)!Next]_(Life(r)!lifeVars)
<1>. USE NullIsNoSlot
<1>1. ASSUME NEW S, OnlyIn(S), r \notin S,
             queue[r].owner = COMPONENT_IEEE802154E =>
               ((r = mac'.dataToSend) <=> (r = mac.dataToSend))
      PROVE  SameStage(r)
  <2>1. queue'[r] = queue[r]
    BY <1>1 DEF OnlyIn
  <2>. QED
    BY <1>1, <2>1, StaysWhere
<1>2. CASE Nothing
  BY <1>1, <1>2, Stutters DEF Nothing
<1>3. ASSUME NEW p \in Slots, Starts(p)
      PROVE  SameStage(r) \/ Life(r)!Start
  <2>1. CASE r # p
    BY <1>1, <1>3, <2>1 DEF Starts
  <2>2. CASE r = p
    BY <1>3, <2>2, StageIs, NextStageIs DEF Starts, Passes, Life!Start
  <2>. QED
    BY <2>1, <2>2
<1>4. ASSUME NEW p \in Slots, Keeps(p) \/ PassesUp(p)
      PROVE  SameStage(r) \/ Life(r)!Take
  <2>1. mac.dataToSend = NULL /\ mac'.dataToSend = NULL /\ OnlyIn({p})
    BY <1>4 DEF Keeps, PassesUp, Fills, NoPackets
  <2>2. CASE r # p
    BY <1>1, <2>1, <2>2
  <2>3. CASE r = p
    BY <1>4, <2>1, <2>3, StageIs, NextStageIs
       DEF Keeps, PassesUp, Fills, Life!Take
  <2>. QED
    BY <2>2, <2>3
<1>5. ASSUME NEW p \in Slots, Sending(p), r # p PROVE SameStage(r)
  BY <1>1, <1>5 DEF Sending, NoPackets
<1>6. ASSUME NEW p \in Slots, Retries(p)
      PROVE  SameStage(r) \/ Life(r)!Retry
  <2>1. CASE r = p
    BY <1>6, <2>1, StageIs, NextStageIs
       DEF Retries, Sending, Passes, Life!Retry
  <2>. QED
    BY <1>5, <1>6, <2>1 DEF Retries
<1>7. ASSUME NEW p \in Slots, Reports(p)
      PROVE  SameStage(r) \/ Life(r)!Report
  <2>1. CASE r = p
    BY <1>7, <2>1, StageIs, NextStageIs
       DEF Reports, Sending, Passes, Life!Report
  <2>. QED
    BY <1>5, <1>7, <2>1 DEF Reports
<1>8. ASSUME NEW p \in Slots, NEW ack \in Slots \cup {NULL}, Delivers(p, ack)
      PROVE  SameStage(r) \/ Life(r)!Receive
  <2>1. mac.dataToSend = NULL /\ mac'.dataToSend = NULL /\ OnlyIn({p, ack})
    BY <1>8 DEF Delivers, NoPackets
  <2>2. CASE r \notin {p, ack}
    BY <1>1, <2>1, <2>2
  <2>3. CASE r = p
    <3>1. queue'[r].retriesLeft = 0
      BY <1>8, <2>3 DEF Delivers, Lived, RadioLeft
    <3>. QED
      BY <1>8, <2>1, <2>3, <3>1, StageIs, NextStageIs
         DEF Delivers, Passes, Life!Receive
  <2>4. CASE r = ack
    BY <1>8, <2>1, <2>4, ResetOwner, StageIs, NextStageIs
       DEF Delivers, Life!Receive
  <2>. QED
    BY <2>2, <2>3, <2>4
<1>. QED
  BY <1>2, <1>3, <1>4, <1>6, <1>7, <1>8, Stutters
     DEF Effect, Life!Next, Life!EndOfSlot

(* So does a task.                                                         *)
LEMMA TaskLives ==
  ASSUME Base, FreeIsReset, Matched, Lived, TaskEffect,
         UNCHANGED radioVars,
         NEW r \in Slots, r \notin stray \cup stray'
  PROVE  [Life(r)!Next]_(Life(r)!lifeVars)
<1>. USE NullIsNoSlot
<1>1. ASSUME queue'[r] = queue[r] PROVE SameStage(r)
  BY <1>1, StaysWhere DEF radioVars
<1>2. ASSUME queue[r].owner \notin InTransit, queue'[r] = reset_entry
      PROVE  Life(r)!Release
  BY <1>2, ResetOwner, StageIs, NextStageIs DEF Life!Release
<1>3. ASSUME Drops(r) \/ Hands(r) \/ Loses(r)
      PROVE  queue[r].owner \notin InTransit
  <2>1. r \in {msg, out} \ {NULL}
    BY <1>3 DEF Drops, Hands, Loses
  <2>. QED
    BY <2>1 DEF Base, Custody, CustodyBut, TaskHolds
<1>4. CASE Begins \/ Misses
  BY <1>1, <1>4, Stutters DEF Begins, Misses, OnlyIn
<1>5. CASE Purges
  <2>1. PICK c \in {<<COMPONENT_SIXTOP, {"EB", "KA"}>>,
                    <<COMPONENT_ICMPv6RPL, {"DIO", "DAO"}>>} :
          /\ queue'[r] = IF queue[r].creator = c[1] THEN reset_entry
                         ELSE queue[r]
          /\ mac.dataToSend # NULL /\ queue[mac.dataToSend].creator = c[1] =>
               mac.dataToSend \in stray'
    BY <1>5 DEF Purges
  <2>2. rxDone = 0 /\ txDone = 0 /\ task = "none"
    BY <1>5 DEF Purges, MayStart
  <2>3. RxSet = {} /\ TxSet = {}
    <3>1. Cardinality(TxSet) \in Nat
      BY WaitingSets, PoolFinite
    <3>2. Cardinality(RxSet) = 0 /\ Cardinality(TxSet) = 0
      BY <2>2, <3>1 DEF Matched, MatchedBut, PendingRx, PendingTx
    <3>. QED
      BY <3>2, WaitingSets, PoolFinite
  <2>4. queue[r].owner # COMPONENT_IEEE802154E_TO_SIXTOP
    BY <2>3 DEF RxSet, TxSet, IsRx, IsTx
  <2>5. queue[r].owner = COMPONENT_IEEE802154E => queue[r].creator # c[1]
    <3>1. SUFFICES ASSUME queue[r].owner = COMPONENT_IEEE802154E,
                          queue[r].creator = c[1]
                   PROVE  FALSE
      OBVIOUS
    <3>2. c[1] # COMPONENT_IEEE802154E
      BY DEF COMPONENT_SIXTOP, COMPONENT_ICMPv6RPL, COMPONENT_IEEE802154E
    <3>3. r \in Owned(mac)
      BY <3>1 DEF Base, Custody, CustodyBut, MacHolds, MacCanEnd
    <3>4. r = mac.dataToSend
      BY <3>1, <3>2, <3>3 DEF Base, Custody, CustodyBut, MacHolds, Owned
    <3>. QED
      BY <2>1, <3>1, <3>4
  <2>6. CASE queue[r].creator = c[1]
    <3>. USE <2>1, <2>6
    <3>1. CASE queue[r].owner = COMPONENT_SIXTOP_TO_IEEE802154E
      BY <2>6, <3>1, ResetOwner, StageIs, NextStageIs
         DEF Life!Next, Life!Release
    <3>2. CASE queue[r].owner \notin InTransit
      BY <1>2, <2>6, <3>2 DEF Life!Next
    <3>3. CASE queue[r].owner = COMPONENT_NULL
      BY <1>1, <2>6, <3>3, Stutters DEF FreeIsReset
    <3>. QED
      BY <2>4, <2>5, <3>1, <3>2, <3>3 DEF InTransit
  <2>. QED
    BY <1>1, <2>1, <2>6, Stutters
<1>6. ASSUME NEW p \in Slots, OnlyIn({p}), r # p
      PROVE  UNCHANGED Life(r)!lifeVars
  BY <1>1, <1>6, Stutters DEF OnlyIn
<1>7. CASE Picks(r)
  BY <1>7, InTransitOwners, StageIs, NextStageIs
     DEF Picks, Passes, Life!Next, Life!PickUp
<1>8. CASE Drops(r)
  BY <1>2, <1>3, <1>8 DEF Drops, Life!Next
<1>9. CASE Hands(r)
  BY <1>3, <1>9, StageIs, NextStageIs DEF Hands, Life!Next, Life!HandOver
<1>10. CASE Gets(r)
  BY <1>10, StageIs, NextStageIs DEF Gets, Life!Next, Life!Take
<1>11. CASE Loses(r)
  <2>1. queue[r].retriesLeft = 0
    BY <1>11 DEF Loses, Lived, RadioLeft, MsgReceived
  <2>2. SameStage(r)
    BY <1>3, <1>11, <2>1, StageIs, NextStageIs DEF Loses, SameStage
  <2>. QED
    BY <2>2, Stutters
<1>. QED
  BY <1>4, <1>5, <1>6, <1>7, <1>8, <1>9, <1>10, <1>11 DEF TaskEffect

(* Every buffer of the pool leads the life of PacketLifecycle, each step   *)
(* of the mote being one step of it or none, unless it was purged while    *)
(* the MAC was sending it, and until that is over: a packet that is being  *)
(* sent is not withdrawn, is sent no more than TXRETRIES + 1 times, and is *)
(* reported once.                                                          *)
THEOREM LivesAsPromisedAlways == Spec => LivesAsPromised
<1>. USE NullIsNoSlot
<1>1. Init => Lived /\ \A p \in Slots : Life(p)!Init
  <2>1. SUFFICES ASSUME Init
                 PROVE  Lived /\ \A p \in Slots : Life(p)!Init
    OBVIOUS
  <2>2. \A p \in Slots : queue[p] = reset_entry
    BY <2>1 DEF Init, EmptyQueue
  <2>3. Lived
    BY <2>1, <2>2, ResetOwner DEF Init, Lived, RadioLeft, MsgReceived
  <2>4. ASSUME NEW p \in Slots PROVE Life(p)!Init
    BY <2>2, ResetOwner, StageIs DEF Life!Init
  <2>. QED
    BY <2>3, <2>4
<1>2. Base /\ FreeIsReset /\ Matched /\ Lived /\ [Next]_vars =>
        Lived' /\ \A p \in Slots : \/ p \in stray \cup stray'
                                   \/ UNCHANGED Life(p)!lifeVars
                                   \/ Life(p)!Next
  <2>1. SUFFICES ASSUME Base, FreeIsReset, Matched, Lived, [Next]_vars
                 PROVE  /\ Lived'
                        /\ \A p \in Slots :
                             \/ p \in stray \cup stray'
                             \/ UNCHANGED Life(p)!lifeVars
                             \/ Life(p)!Next
    OBVIOUS
  <2>2. CASE UNCHANGED vars
    <3>1. Lived'
      BY <2>1, <2>2 DEF vars, taskVars, Lived, RadioLeft, MsgReceived
    <3>2. ASSUME NEW p \in Slots PROVE UNCHANGED Life(p)!lifeVars
      BY <2>2, StaysWhere, Stutters DEF vars, radioVars
    <3>. QED
      BY <3>1, <3>2
  <2>. QED
    BY <2>1, <2>2, StepEffect, LivedInterrupt, LivedTask, InterruptLives,
       TaskLives
<1>3. Spec => [](Base /\ FreeIsReset /\ Matched)
  BY MatchedAlways, PTL
<1>. QED
  BY <1>1, <1>2, <1>3, PTL DEF Spec, LivesAsPromised
=============================================================================
