----------------------------- MODULE ActiveSlot -----------------------------
(***************************************************************************)
(* Which cell of the schedule a mote uses in which slot.                   *)
(*                                                                         *)
(* The MAC (openstack/02a-MAClow/IEEE802154E.c) counts slots by itself and *)
(* keeps in nextActiveSlotOffset the offset at which it will advance the   *)
(* schedule to its next entry.  It looks at the schedule again only when   *)
(* it gets there, or when it hears an EB.  Between two slots, and during   *)
(* one, tasks of sixtop add and remove cells.                              *)
(*                                                                         *)
(* net is the slot offset of the network, by the clock of its root.  The   *)
(* mote's next slot interrupt comes wake slots after the last one: more    *)
(* than one where the mote skips slots.  A slot is one interrupt at its    *)
(* beginning and, if the mote sends or listens, one at its end.            *)
(***************************************************************************)
EXTENDS Schedule

CONSTANTS
  MINBE, MAXBE,       \* least and largest backoff exponent
  Options,            \* types of the cells that are negotiated
  EBSlots,            \* slot offsets in which neighbors may send EBs
  MayChangeRole       \* the serial port may make the mote root, or not

ASSUME ActiveSlotAssumption ==
  /\ MINBE \in Nat /\ MAXBE \in Nat /\ 1 <= MINBE /\ MINBE <= MAXBE
  /\ Options \subseteq {"TX", "RX", "TXRX"}
  /\ EBSlots \subseteq Slots
  /\ MayChangeRole \in BOOLEAN

VARIABLES
  isDAGroot, slotSkip,   \* of idmanager
  schedule,              \* schedule_vars
  backoff, backoffExponent,
  isSync, state, slotOffset, nextActiveSlotOffset,   \* of the MAC
  wake,        \* slots from the last slot interrupt to the next
  net,         \* slot offset of the network at the last slot interrupt
  hung,        \* in a loop that never ends, with interrupts masked
  \* what no variable of the code holds
  align,       \* how cells and slots agree
  sharedSlot,  \* the cell this slot began with is shared
  skewed       \* the MAC has miscounted slots since it synchronized

roleVars == <<isDAGroot, slotSkip>>
backoffVars == <<backoff, backoffExponent>>
vars == <<roleVars, schedule, backoffVars, isSync, state, slotOffset,
          nextActiveSlotOffset, wake, net, hung, align, sharedSlot, skewed>>

(* TXDATA, TXEB and RX stand for the states of a slot in which the mote    *)
(* sends a frame, sends an EB, or listens.                                 *)
States == {"S_SLEEP", "S_SYNCLISTEN", "TXDATA", "TXEB", "RX"}

(* aligned: the last advance reached the cell of its slot.  changed: cells *)
(* were added or removed since, or the MAC began to count with another     *)
(* entry as the current one.  astray: the last advance, after a change,    *)
(* reached another cell.  lost: a slot went wrong in another way.          *)
Alignments == {"aligned", "changed", "astray", "lost"}

Plus(so, n) == (so + n) % SLOTFRAME_LENGTH

(* The slots from offset so to the next slot with offset target.           *)
SlotsUntil(so, target) ==
  IF target > so THEN target - so ELSE SLOTFRAME_LENGTH + target - so

-----------------------------------------------------------------------------
Init ==
  /\ isDAGroot \in BOOLEAN /\ slotSkip = FALSE
  /\ schedule = scheduleInit(isDAGroot)
  /\ backoff = 0 /\ backoffExponent = MINBE - 1
  /\ isSync = FALSE /\ state = "S_SLEEP"
  /\ slotOffset = 0 /\ nextActiveSlotOffset = 0
  /\ wake = 1 /\ net \in Slots /\ hung = FALSE
  /\ align = "aligned" /\ sharedSlot = FALSE /\ skewed = FALSE

(* schedule_resetBackoff, and what schedule_indicateTx does to the backoff.*)
resetBackoff == backoff' = 0 /\ backoffExponent' = MINBE - 1

(* Mutant: the cell used is looked at, not the cell advanced to.           *)
indicateTxAny(succesfullTx) ==
  IF succesfullTx THEN resetBackoff
  ELSE /\ backoffExponent' = IF backoffExponent < MAXBE
                             THEN backoffExponent + 1 ELSE MAXBE
       /\ backoff' \in 0 .. 2 ^ backoffExponent' - 1

indicateTx(succesfullTx) ==
  CASE ~CurrentEntry(schedule).shared -> UNCHANGED backoffVars
    [] CurrentEntry(schedule).shared /\ succesfullTx -> resetBackoff
    [] OTHER -> /\ backoffExponent' = IF backoffExponent < MAXBE
                                      THEN backoffExponent + 1 ELSE MAXBE
                /\ backoff' \in 0 .. 2 ^ backoffExponent' - 1

(* Mutant: the backoff is counted down in the cells that are not shared.   *)
BackoffAfterDedicated(entry) ==
  IF ~entry.shared /\ backoff > 0 THEN backoff - 1 ELSE backoff

(* schedule_getOkToSend: in a shared cell the backoff is counted down, and *)
(* the mote may send when it gets to 0.                                    *)
BackoffAfter(entry) ==
  IF entry.shared /\ backoff > 0 THEN backoff - 1 ELSE backoff

OkToSend(entry) == entry.shared => BackoffAfter(entry) = 0
-----------------------------------------------------------------------------
(* The slot interrupt of a mote that is not synchronized.  A mote that is  *)
(* made root while it runs may have any entry as the current one.          *)
RootSynchronizes ==
  /\ ~isSync /\ isDAGroot
  /\ isSync' = TRUE /\ slotOffset' = 0 /\ net' = 0 /\ wake' = 1
  /\ nextActiveSlotOffset' = getNextActiveSlotOffset(schedule)
  /\ align' = IF CurrentEntry(schedule).slotOffset = 0
              THEN "aligned" ELSE "changed"
  /\ skewed' = FALSE
  /\ UNCHANGED <<roleVars, schedule, backoffVars, state, hung, sharedSlot>>

ListenForEB ==
  /\ ~isSync /\ ~isDAGroot
  /\ state' = "S_SYNCLISTEN" /\ net' = Plus(net, wake) /\ wake' = 1
  /\ UNCHANGED <<roleVars, schedule, backoffVars, isSync, slotOffset,
                 nextActiveSlotOffset, hung, align, sharedSlot, skewed>>

(* The beginning of activity_ti1ORri1.                                     *)
NextSlot == /\ isSync /\ net' = Plus(net, wake)
            /\ UNCHANGED <<roleVars, hung>>

Desynchronize ==
  /\ NextSlot /\ ~isDAGroot
  /\ isSync' = FALSE /\ resetBackoff
  /\ state' = "S_SLEEP" /\ wake' = 1 /\ slotOffset' = Plus(slotOffset, 1)
  /\ UNCHANGED <<schedule, nextActiveSlotOffset, align, sharedSlot, skewed>>

(* A mote that was made root while it listened for EBs has to end that     *)
(* first, and does not advance if the slot has a cell.                     *)
WrongState ==
  /\ NextSlot /\ state = "S_SYNCLISTEN"
  /\ state' = "S_SLEEP" /\ wake' = 1 /\ slotOffset' = Plus(slotOffset, 1)
  /\ align' = IF slotOffset' \in Offsets(schedule) THEN "changed" ELSE align
  /\ UNCHANGED <<schedule, backoffVars, isSync, nextActiveSlotOffset,
                 sharedSlot, skewed>>

PassiveSlot ==
  /\ NextSlot /\ state = "S_SLEEP"
  /\ slotOffset' = Plus(slotOffset, 1) /\ slotOffset' # nextActiveSlotOffset
  /\ wake' = 1
  /\ align' = IF align = "aligned" /\ slotOffset' \in Offsets(schedule)
              THEN "lost" ELSE align
  /\ UNCHANGED <<schedule, backoffVars, isSync, state, nextActiveSlotOffset,
                 sharedSlot, skewed>>

(* Slots the mote sleeps through after an active slot at offset so, and by *)
(* how many it has counted slotOffset ahead before it sleeps.              *)
Skips == slotSkip /\ ~isDAGroot

(* Mutant: the slot in progress is not counted among those slept through.  *)
SleepLate(entry, so, next) ==
  LET slots == IF Skips THEN SlotsUntil(so, next) ELSE 1
      ahead == Plus(so, IF Skips THEN slots ELSE 0)
      more  == IF Skips THEN SlotsUntil(ahead, next) ELSE 1
  IN IF entry.type = "SERIALRX"
     THEN [slots |-> more, ahead |-> Plus(ahead, more - 1)]
     ELSE [slots |-> slots, ahead |-> ahead]

Sleep(entry, so, next) ==
  LET slots == IF Skips THEN SlotsUntil(so, next) ELSE 1
      ahead == Plus(so, slots - 1)
      more  == IF Skips THEN SlotsUntil(ahead, next) ELSE 1
  IN IF entry.type = "SERIALRX"
     THEN [slots |-> more, ahead |-> Plus(ahead, more - 1)]
     ELSE [slots |-> slots, ahead |-> ahead]

(* What the mote does in an active slot, by the type of the entry it has   *)
(* advanced to.  Whether the queue holds a frame or an EB is open.         *)
Activity(entry) ==
  CASE entry.type = "TX"   -> {"TXDATA", "S_SLEEP"}
    [] entry.type = "TXRX" -> IF OkToSend(entry) THEN {"TXDATA", "TXEB", "RX"}
                              ELSE {"RX"}
    [] entry.type = "RX"   -> {"RX"}
    [] OTHER               -> {"S_SLEEP"}

ActiveCell(advanced, so) ==
  LET entry == CurrentEntry(advanced)
      next  == getNextActiveSlotOffset(advanced)
      sleep == Sleep(entry, so, next)
  IN /\ schedule' = advanced
     /\ nextActiveSlotOffset' = next
     /\ slotOffset' = sleep.ahead /\ wake' = sleep.slots
     /\ state' \in Activity(entry)
     /\ backoff' = IF entry.type \in {"TX", "TXRX"}
                   THEN BackoffAfter(entry) ELSE backoff
     /\ sharedSlot' = entry.shared
     /\ align' = CASE entry.slotOffset = so -> "aligned"
                   [] entry.slotOffset # so /\ align = "changed" -> "astray"
                   [] OTHER -> "lost"
     /\ skewed' = (skewed \/ (/\ Skips /\ entry.type = "SERIALRX"
                              /\ next # Plus(so, 1)))
     /\ UNCHANGED <<isSync, backoffExponent>>

ActiveSlotBegins ==
  /\ NextSlot /\ state = "S_SLEEP"
  /\ Plus(slotOffset, 1) = nextActiveSlotOffset
  /\ ActiveCell(advanceSlot(schedule), nextActiveSlotOffset)

isr_ieee154e_newSlot ==
  \/ RootSynchronizes
  \/ ListenForEB
  \/ Desynchronize
  \/ WrongState
  \/ PassiveSlot
  \/ ActiveSlotBegins

-----------------------------------------------------------------------------
(* The end of a slot in which the mote sent or listened.                   *)
EndSlot ==
  /\ state \in {"TXDATA", "TXEB", "RX"}
  /\ state' = "S_SLEEP"
  /\ IF state = "RX" THEN UNCHANGED backoffVars
     ELSE \E succesfullTx \in BOOLEAN : indicateTx(succesfullTx)
  /\ UNCHANGED <<roleVars, schedule, isSync, slotOffset, wake, net, hung,
                 nextActiveSlotOffset, align, sharedSlot, skewed>>

(* Mutant: the offset of the next cell is not looked up again.             *)
SyncToStale(s) ==
  IF SyncEnds(s, net)
  THEN /\ schedule' = syncSlotOffset(s, net)
       /\ slotOffset' = net
       /\ align' = "aligned"
       /\ state' = "S_SLEEP"
       /\ UNCHANGED <<nextActiveSlotOffset, hung>>
  ELSE /\ hung' = TRUE
       /\ schedule' = s
       /\ UNCHANGED <<slotOffset, nextActiveSlotOffset, align, state>>

(* ieee154e_processIEs: the MAC takes the slot offset of the EB's ASN, and *)
(* looks for its cell.                                                     *)
SyncTo(s) ==
  IF SyncEnds(s, net)
  THEN /\ schedule' = syncSlotOffset(s, net)
       /\ slotOffset' = net
       /\ nextActiveSlotOffset' =
            getNextActiveSlotOffset(syncSlotOffset(s, net))
       /\ align' = "aligned"
       /\ state' = "S_SLEEP"
       /\ UNCHANGED hung
  ELSE /\ hung' = TRUE
       /\ schedule' = s
       /\ UNCHANGED <<slotOffset, nextActiveSlotOffset, align, state>>

EBReceived ==
  /\ isSync /\ state = "RX" /\ net \in EBSlots
  /\ SyncTo(schedule)
  /\ skewed' = IF hung' THEN skewed ELSE wake # 1
  /\ UNCHANGED <<roleVars, backoffVars, isSync, wake, net, sharedSlot>>

(* The first EB also gives the length of the slotframe and the minimal     *)
(* cell; a mote that synchronizes again keeps those it has.                *)
EBSynchronizes ==
  /\ ~isSync /\ state = "S_SYNCLISTEN" /\ net \in EBSlots
  /\ SyncTo(IF schedule.frameLength = 0
            THEN AddMinimalCell(setFrameLength(schedule, SLOTFRAME_LENGTH))
            ELSE schedule)
  /\ isSync' = ~hung'
  /\ skewed' = FALSE
  /\ UNCHANGED <<roleVars, backoffVars, wake, net, sharedSlot>>

-----------------------------------------------------------------------------
(* Tasks.  Cells are negotiated by motes that know the slotframe.          *)
ChangeSchedule(s) ==
  /\ schedule' = s
  /\ align' = IF s.buf = schedule.buf THEN align ELSE "changed"
  /\ UNCHANGED <<backoffVars, isSync, state, slotOffset, wake, net, hung,
                 nextActiveSlotOffset, sharedSlot, skewed>>

CellNeighbor(type, n) == IF type = "TXRX" THEN "anycast" ELSE n

AddCell ==
  \E so \in Slots, type \in Options, n \in Neighbors :
    /\ schedule.frameLength # 0
    /\ ChangeSchedule(addActiveSlot(schedule, so, type, type = "TXRX",
                                    CellNeighbor(type, n)))
    /\ UNCHANGED roleVars

RemoveCell ==
  \E so \in Slots, type \in Options, n \in Neighbors :
    /\ schedule.frameLength # 0
    /\ ChangeSchedule(removeActiveSlot(schedule, so, CellNeighbor(type, n)))
    /\ UNCHANGED roleVars

RemoveAllCells ==
  \E n \in Neighbors :
    /\ schedule.frameLength # 0
    /\ ChangeSchedule(removeAllCells(schedule, n))
    /\ UNCHANGED roleVars

(* idmanager_triggerAboutRoot: a mote made root or not over the serial     *)
(* port skips slots from then on if it is not root.                        *)
SetIsDAGroot ==
  \E newRole \in BOOLEAN :
    /\ MayChangeRole
    /\ isDAGroot' = newRole /\ slotSkip' = ~newRole
    /\ ChangeSchedule(startDAGroot(schedule))

Task == AddCell \/ RemoveCell \/ RemoveAllCells \/ SetIsDAGroot

(* Slots end before the next begins.                                       *)
NewSlot == state \in {"S_SLEEP", "S_SYNCLISTEN"} /\ isr_ieee154e_newSlot

Next == /\ ~hung
        /\ NewSlot \/ EndSlot \/ EBReceived \/ EBSynchronizes \/ Task

Spec == Init /\ [][Next]_vars

(* The timer interrupts at every slot, and ends those that are in progress.*)
Fairness == WF_vars(~hung /\ NewSlot) /\ WF_vars(~hung /\ EndSlot)

FairSpec == Spec /\ Fairness

-----------------------------------------------------------------------------
TypeOK ==
  /\ isDAGroot \in BOOLEAN /\ slotSkip \in BOOLEAN
  /\ schedule \in Schedules
  /\ backoffExponent \in MINBE - 1 .. MAXBE
  /\ backoff \in 0 .. 2 ^ backoffExponent - 1
  /\ isSync \in BOOLEAN /\ state \in States
  /\ slotOffset \in Slots /\ nextActiveSlotOffset \in Slots
  /\ wake \in 1 .. SLOTFRAME_LENGTH /\ net \in Slots
  /\ hung \in BOOLEAN /\ align \in Alignments
  /\ sharedSlot \in BOOLEAN /\ skewed \in BOOLEAN

(* The schedule stays one circle through all cells in use, in the order of *)
(* their slot offsets, no two of them for one slot, with the current entry *)
(* on it, whatever is added, added twice, removed, or removed while it is  *)
(* the current one (schedule_addActiveSlot, schedule_removeActiveSlot).    *)
ListIsSound ==
  /\ Listed(schedule) = {r \in Rows : schedule.buf[r].type # "OFF"}
  /\ Cardinality(Offsets(schedule)) = Cardinality(Listed(schedule))
  /\ \A r \in Listed(schedule) :
       LET so == schedule.buf[r].slotOffset
           after == schedule.buf[schedule.buf[r].next].slotOffset
       IN \A o \in Offsets(schedule) :
            SlotsUntil(so, after) <= SlotsUntil(so, o)

(* A mote takes the cell of the slot it is in, and passes over no slot     *)
(* that has a cell, up to a change of the schedule; after one it takes at  *)
(* most one slot for another's, and is right again from the next one on    *)
(* (activity_ti1ORri1, whose nextActiveSlotOffset is not updated when      *)
(* tasks change the schedule).                                             *)
FindsItsCells == align # "lost"

(* The mote waits forever for the cell of an EB's slot only if it listened *)
(* in a slot that it took for another's, or with a count of slots that had *)
(* gone wrong, or was not synchronized yet: never when cell and slot agree *)
(* (schedule_syncSlotOffset).                                              *)
HangsOnlyAstray == hung => align # "aligned" \/ skewed \/ ~isSync

(* When the next slot begins, the MAC's slot offset will be that of the    *)
(* network, however many slots it sleeps through.  The exceptions are a    *)
(* serial slot followed by slots to skip, which activity_ti1ORri1 counts   *)
(* twice, and an EB heard in a slot after which some are skipped.          *)
CountsSlots ==
  isSync /\ ~skewed /\ ~hung => Plus(slotOffset, 1) = Plus(net, wake)

(* A mote backs off further only because a frame sent in a shared cell was *)
(* lost, or the schedule was changed while it sent (schedule_indicateTx    *)
(* charges whatever entry is current when the slot ends).                  *)
BacksOffForShared ==
  [][backoffExponent' > backoffExponent => sharedSlot \/ align = "changed"]_vars

(* The backoff gets to 0 again and again, so that the mote may send in a   *)
(* shared cell, if it stays synchronized and has such a cell, and cells    *)
(* are at last no longer added and removed (schedule_getOkToSend).         *)
GetsItsTurn ==
  /\ <>[](isSync /\ ~hung /\ \E r \in Listed(schedule) : schedule.buf[r].shared)
  /\ <>[][schedule'.buf = schedule.buf]_vars
  => []<>(backoff = 0)
=============================================================================
