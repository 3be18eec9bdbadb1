------------------------------ MODULE Schedule ------------------------------
(***************************************************************************)
(* The slotframe of openstack/02b-MAChigh/schedule.c as operators over its *)
(* value: a buffer of MAXACTIVESLOTS entries, some of which form a         *)
(* circular list in the order of their slot offsets, and the current entry.*)
(*                                                                         *)
(* Every operation runs with interrupts masked, so each is one operator    *)
(* from the old value to the new one; a caller that gets E_FAIL finds the  *)
(* schedule as it was.  Channel offsets, statistics and the frame's handle *)
(* and number are left out.                                                *)
(***************************************************************************)
EXTENDS Integers, FiniteSetsExt

CONSTANTS
  SLOTFRAME_LENGTH,   \* slots in a slotframe
  MAXACTIVESLOTS,     \* entries in scheduleBuf
  Neighbors           \* the neighbors cells are negotiated with

ASSUME ScheduleAssumption ==
  /\ MAXACTIVESLOTS \in Nat /\ MAXACTIVESLOTS >= 2
  /\ SLOTFRAME_LENGTH \in Nat /\ SLOTFRAME_LENGTH > MAXACTIVESLOTS
  /\ {"none", "anycast"} \cap Neighbors = {}

NULL  == -1
Rows  == 0 .. MAXACTIVESLOTS - 1
Slots == 0 .. SLOTFRAME_LENGTH - 1

CellTypes == {"OFF", "TX", "RX", "TXRX", "SERIALRX"}

Entries == [slotOffset : Slots, type : CellTypes, shared : BOOLEAN,
            neighbor : Neighbors \cup {"none", "anycast"},
            next : Rows \cup {NULL}]

(* frameLength is 0 until the mote knows the length of the slotframe.      *)
Schedules == [buf : [Rows -> Entries], current : Rows \cup {NULL},
              frameLength : {0, SLOTFRAME_LENGTH}, maxActiveSlots : Nat]

resetEntry == [slotOffset |-> 0, type |-> "OFF", shared |-> FALSE,
               neighbor |-> "none", next |-> NULL]

(* The entry reached from the current one in k steps of the list.          *)
Walk(s) ==
  LET at[k \in 0 .. MAXACTIVESLOTS] ==
        IF k = 0 THEN s.current ELSE s.buf[at[k - 1]].next
  IN at

(* The entries on the list, and their slot offsets.                        *)
Listed(s) == IF s.current = NULL THEN {}
             ELSE {Walk(s)[k] : k \in Rows}
Offsets(s) == {s.buf[r].slotOffset : r \in Listed(s)}

CurrentEntry(s) == s.buf[s.current]
advanceSlot(s) == [s EXCEPT !.current = s.buf[s.current].next]
getNextActiveSlotOffset(s) == s.buf[s.buf[s.current].next].slotOffset

(* packetfunctions_sameAddress: no address of type ADDR_NONE is the same   *)
(* as another.                                                             *)
sameAddress(a, b) == a = b /\ a # "none"

-----------------------------------------------------------------------------
FreeContainers(s) ==
  {r \in Rows : r < s.maxActiveSlots /\ s.buf[r].type = "OFF"}

(* Slot offset so belongs between entry p of the list and the next one.    *)
Between(s, p, so) ==
  LET before == s.buf[p].slotOffset
      after  == s.buf[s.buf[p].next].slotOffset
  IN \/ before < so /\ so < after
     \/ before < so /\ after <= before
     \/ so < after /\ after <= before

(* The entry at which the search for the place of slot offset so stops.    *)
PlaceFor(s, so) ==
  LET stops == {k \in Rows : LET p == Walk(s)[k] IN
                  Between(s, p, so) \/ s.buf[p].slotOffset = so}
  IN Walk(s)[Min(stops)]

(* Mutant: the container is not given back when the slot is taken.         *)
addDuplicate(s, so, type, shared, neighbor) ==
  IF FreeContainers(s) = {} THEN s
  ELSE LET c == Min(FreeContainers(s))
           p == IF s.current = NULL THEN c ELSE PlaceFor(s, so)
           cell == [slotOffset |-> so, type |-> type, shared |-> shared,
                    neighbor |-> neighbor,
                    next |-> IF s.current = NULL THEN c ELSE s.buf[p].next]
       IN [s EXCEPT !.buf[p].next = c, !.buf[c] = cell,
                    !.current = IF @ = NULL THEN c ELSE @]

(* schedule_addActiveSlot: fails when the buffer is full or the slot taken.*)
addActiveSlot(s, so, type, shared, neighbor) ==
  LET c == Min(FreeContainers(s))
      cell == [slotOffset |-> so, type |-> type, shared |-> shared,
               neighbor |-> neighbor, next |-> c]
      p == PlaceFor(s, so)
  IN CASE FreeContainers(s) = {} -> s
       [] FreeContainers(s) # {} /\ s.current = NULL ->
            [s EXCEPT !.buf[c] = cell, !.current = c]
       [] OTHER ->
            IF Between(s, p, so)
            THEN [s EXCEPT !.buf[p].next = c,
                           !.buf[c] = [cell EXCEPT !.next = s.buf[p].next]]
            ELSE s

(* schedule_removeActiveSlot: fails when there is no such cell.            *)
removeActiveSlot(s, so, neighbor) ==
  LET found == {r \in Rows : /\ r < s.maxActiveSlots
                             /\ s.buf[r].slotOffset = so
                             /\ sameAddress(neighbor, s.buf[r].neighbor)}
      c == Min(found)
      p == CHOOSE q \in Listed(s) : s.buf[q].next = c
  IN CASE found = {} -> s
       [] found # {} /\ s.buf[c].next = c ->
            [s EXCEPT !.buf[c] = resetEntry, !.current = NULL]
       [] OTHER ->
            [s EXCEPT !.buf[p].next = s.buf[c].next,
                      !.buf[c] = resetEntry,
                      !.current = IF @ = c THEN s.buf[c].next ELSE @]

(* schedule_removeAllCells: the buffer is gone through row by row.         *)
removeAllCells(s, neighbor) ==
  LET upTo[r \in -1 .. MAXACTIVESLOTS - 1] ==
        IF r = -1 THEN s
        ELSE LET e == upTo[r - 1].buf[r] IN
             IF sameAddress(e.neighbor, neighbor)
             THEN removeActiveSlot(upTo[r - 1], e.slotOffset, neighbor)
             ELSE upTo[r - 1]
  IN upTo[MAXACTIVESLOTS - 1]

-----------------------------------------------------------------------------
setFrameLength(s, length) ==
  [s EXCEPT !.frameLength = length,
            !.maxActiveSlots = IF length <= MAXACTIVESLOTS THEN length ELSE @]

(* The shared cell of the minimal configuration.                           *)
AddMinimalCell(s) == addActiveSlot(s, 0, "TXRX", TRUE, "anycast")

startDAGroot(s) ==
  AddMinimalCell(IF s.frameLength = 0
                 THEN setFrameLength(s, SLOTFRAME_LENGTH) ELSE s)

(* schedule_init, with the one serial slot behind the minimal cell.        *)
scheduleInit(isDAGroot) ==
  LET empty == [buf |-> [r \in Rows |-> resetEntry], current |-> NULL,
                frameLength |-> 0, maxActiveSlots |-> MAXACTIVESLOTS]
  IN addActiveSlot(IF isDAGroot THEN startDAGroot(empty) ELSE empty,
                   1, "SERIALRX", FALSE, "none")

isSlotOffsetAvailable(s, so) == so < s.frameLength /\ so \notin Offsets(s)
getNumberOfFreeEntries(s) ==
  Cardinality({r \in Rows : s.buf[r].type = "OFF"})

(* schedule_syncSlotOffset advances until it finds the slot offset, with   *)
(* interrupts masked: without such a cell it never ends.                   *)
SyncEnds(s, so) == so \in Offsets(s)
syncSlotOffset(s, so) ==
  [s EXCEPT !.current = CHOOSE r \in Listed(s) : s.buf[r].slotOffset = so]
=============================================================================
