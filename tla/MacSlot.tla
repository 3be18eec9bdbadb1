------------------------------ MODULE MacSlot ------------------------------
(***************************************************************************)
(* One mote's path from the radio to the upper layers: the TSCH slot state *)
(* machine (02a-MAClow/IEEE802154E.c), the packet pool it shares with the  *)
(* rest of the stack (OpenQueue) and the tasks of sixtop, RPL, forwarding  *)
(* and the applications that fill and empty the pool.                      *)
(*                                                                         *)
(* The state machine runs in interrupts: the slot timer and the FSM timer  *)
(* (one opentimers id with two callbacks), start and end of frame.  Each   *)
(* handler runs to its end and is one action, so the *PREPARE, *PROC and   *)
(* ACKRECEIVED phases it passes through are never visible.  The upper      *)
(* layers run in tasks, one at a time, which interrupts preempt: a task is *)
(* cut into steps, one for each access it makes to a packet's owner field. *)
(***************************************************************************)
EXTENDS OpenQueue

CONSTANTS
  IsDAGroot,     \* idmanager_getIsDAGroot()
  CryptoFails,   \* IEEE802154_security_outgoingFrameSecurity may fail
  RelayModes,    \* how relayed packets are routed
  CoapReplies,   \* OpenCoAP answers requests
  AppCreators,   \* components that originate packets of their own
  TXRETRIES,     \* retransmissions of a unicast packet (3)
  UINT8_MAX,     \* largest value of the counter l2_retriesLeft (255)
  MaxStray       \* bound on the packets purged under the MAC at a time

ASSUME MacAssumption ==
  /\ {IsDAGroot, CryptoFails, CoapReplies} \subseteq BOOLEAN
  /\ RelayModes \subseteq {"routingTable", "sourceRoute"}
  /\ AppCreators \subseteq
       {COMPONENT_SIXTOP_RES, COMPONENT_OPENBRIDGE, COMPONENT_UINJECT}
  /\ TXRETRIES \in Nat
  /\ UINT8_MAX \in Nat \ {0}
  /\ TXRETRIES < UINT8_MAX
  /\ MaxStray \in Nat

VARIABLES
  queue,      \* openqueue_vars.queue
  isSync,     \* ieee154e_vars.isSync
  state,      \* ieee154e_vars.state
  timer,      \* the callback ieee154e_vars.timerId is armed with
  mac,        \* the packet pointers of ieee154e_vars
  rxDone,     \* pending task_sixtopNotifReceive
  txDone,     \* pending task_sixtopNotifSendDone
  task,       \* where the running task is
  msg,        \* the packet the running task received or was told is sent
  out,        \* the packet the running task is making
  busy,       \* the busySending flags that are set
  critical,   \* critical errors logged by the last step
  stray       \* history: buffers purged while the MAC was sending them

radioVars == <<isSync, state, timer, mac>>
taskVars  == <<task, msg, out, busy>>
vars      == <<queue, radioVars, rxDone, txDone, taskVars, critical, stray>>

TxStates == {"S_TXDATAOFFSET", "S_TXDATAREADY", "S_TXDATADELAY", "S_TXDATA",
             "S_RXACKOFFSET", "S_RXACKREADY", "S_RXACKLISTEN", "S_RXACK"}
RxListenStates == {"S_RXDATAOFFSET", "S_RXDATAREADY", "S_RXDATALISTEN",
                   "S_RXDATA"}
AckStates == {"S_TXACKOFFSET", "S_TXACKREADY", "S_TXACKDELAY", "S_TXACK"}
ActiveStates == TxStates \cup RxListenStates \cup AckStates
States == {"S_SYNCLISTEN", "S_SYNCRX", "S_SLEEP"} \cup ActiveStates

(* ackReceived is not kept: its buffer is freed by the handler that takes  *)
(* it.                                                                     *)
NoPackets == [dataToSend |-> NULL, dataReceived |-> NULL, ackToSend |-> NULL]

Init ==
  /\ queue = EmptyQueue
  /\ isSync = FALSE /\ state = "S_SLEEP" /\ timer = "newSlot"
  /\ mac = NoPackets
  /\ rxDone = 0 /\ txDone = 0
  /\ task = "none" /\ msg = NULL /\ out = NULL
  /\ busy = {} /\ critical = {} /\ stray = {}

-----------------------------------------------------------------------------
(* Interrupts: the slot state machine.                                     *)
-----------------------------------------------------------------------------
Alloc(q) == getFreePacketBuffer(q, COMPONENT_IEEE802154E, isSync)

Received(q, p, hop) ==
  Allocate(q, p, COMPONENT_IEEE802154E, COMPONENT_IEEE802154E, hop)

Notify(q, p) == SetOwner(q, p, COMPONENT_IEEE802154E_TO_SIXTOP)

(* Mutant: a counter of a wider, signed type.                              *)
DecrementSigned(r) == r - 1

(* l2_retriesLeft-- on a uint8_t                                           *)
Decrement(r) == IF r = 0 THEN UINT8_MAX ELSE r - 1

(* Mutant: the transmissions are not counted.                              *)
FailedUncounted(q, p) == SetOwner(q, p, COMPONENT_SIXTOP_TO_IEEE802154E)

(* A transmission failed: the packet goes back for another try, or up.     *)
Failed(q, p) ==
  LET left == Decrement(q[p].retriesLeft)
  IN [q EXCEPT ![p].retriesLeft = left,
               ![p].owner = IF left = 0 THEN COMPONENT_IEEE802154E_TO_SIXTOP
                            ELSE COMPONENT_SIXTOP_TO_IEEE802154E]

GivesUp(q, p) == p # NULL /\ Decrement(q[p].retriesLeft) = 0

(* No critical error is logged.                                            *)
Silent == critical' = {}

(* endSlot on the pool q and the pointers m, after tx notifications of a   *)
(* packet sent and rx of a packet received in the same handler.            *)
endSlot(q, m, tx, rx) ==
  LET sent == IF m.dataToSend = NULL THEN q ELSE Failed(q, m.dataToSend)
      rcvd == IF m.dataReceived = NULL THEN sent
              ELSE Notify(sent, m.dataReceived)
      acked == IF m.ackToSend = NULL THEN rcvd
               ELSE freePacketBuffer(rcvd, m.ackToSend)
  IN /\ queue' = acked
     /\ txDone' = txDone + tx + (IF GivesUp(q, m.dataToSend) THEN 1 ELSE 0)
     /\ rxDone' = rxDone + rx + (IF m.dataReceived # NULL THEN 1 ELSE 0)
     /\ critical' =
          IF m.ackToSend # NULL /\ rcvd[m.ackToSend].owner = COMPONENT_NULL
          THEN {"FREEING_UNUSED"} ELSE {}
     /\ mac' = NoPackets
     /\ state' = "S_SLEEP"
     /\ timer' = "newSlot"

AbortSlot == endSlot(queue, mac, 0, 0) /\ UNCHANGED isSync

(* Mutant: the timer is set to the next slot, and not to the ACK phase.    *)
ArmForgotten(next) ==
  /\ state' = next
  /\ timer' = IF next \in {"S_RXACKOFFSET", "S_TXACKOFFSET"}
              THEN "newSlot" ELSE "fsm"
  /\ Silent /\ UNCHANGED <<isSync, rxDone, txDone>>

(* The state machine moves on and arms the timer for the next phase.       *)
Arm(next) ==
  /\ state' = next
  /\ timer' = "fsm"
  /\ Silent /\ UNCHANGED <<isSync, rxDone, txDone>>

Advance(from, next) ==
  state \in from /\ Arm(next) /\ UNCHANGED <<queue, mac>>

(* activity_synchronize_newSlot                                            *)
ListenForEB ==
  /\ ~isSync /\ ~IsDAGroot
  /\ state' = IF state = "S_SYNCRX" THEN state ELSE "S_SYNCLISTEN"
  /\ Silent /\ UNCHANGED <<queue, isSync, timer, mac, rxDone, txDone>>

RootSynchronizes ==
  /\ ~isSync /\ IsDAGroot
  /\ isSync' = TRUE
  /\ Silent /\ UNCHANGED <<queue, state, timer, mac, rxDone, txDone>>

Desynchronize ==
  /\ isSync /\ ~IsDAGroot
  /\ isSync' = FALSE
  /\ endSlot(queue, mac, 0, 0)

(* The previous slot took too long, or the slot is not one to use the      *)
(* radio in.                                                               *)
InactiveSlot == isSync /\ AbortSlot

(* What is sent in a cell: cells of type TX are for a neighbor, those of   *)
(* type TXRX are shared and for anyone, backoff permitting (okToSend).     *)
CellPacket(cellType, neighbor, okToSend) ==
  IF ~okToSend THEN NULL
  ELSE LET data == macGetDataPacket(queue, neighbor)
       IN IF data = NULL /\ cellType = "TXRX"
          THEN macGetEBPacket(queue) ELSE data

Transmit(p) ==
  /\ p # NULL
  /\ queue' = SetOwner(queue, p, COMPONENT_IEEE802154E)
  /\ mac' = [mac EXCEPT !.dataToSend = p]
  /\ Arm("S_TXDATAOFFSET")

Listen ==
  mac' = [mac EXCEPT !.dataToSend = NULL] /\ UNCHANGED queue
    /\ Arm("S_RXDATAOFFSET")

TxCell ==
  /\ isSync /\ state = "S_SLEEP"
  /\ \E n \in Neighbors :
       LET p == CellPacket("TX", n, TRUE)
       IN \/ Transmit(p)
          \/ p = NULL /\ AbortSlot

TxRxCell ==
  /\ isSync /\ state = "S_SLEEP"
  /\ \E okToSend \in BOOLEAN :
       LET p == CellPacket("TXRX", "anycast", okToSend)
       IN \/ Transmit(p)
          \/ p = NULL /\ Listen

RxCell == isSync /\ Advance({"S_SLEEP"}, "S_RXDATAOFFSET")

isr_ieee154e_newSlot ==
  /\ timer = "newSlot"
  /\ \/ ListenForEB \/ RootSynchronizes \/ Desynchronize
     \/ InactiveSlot \/ TxCell \/ TxRxCell \/ RxCell
  /\ UNCHANGED taskVars

(* activity_ti2: the frame may not be secured, and is kept for a retry.    *)
activity_ti2 ==
  \/ Advance({"S_TXDATAOFFSET"}, "S_TXDATAREADY")
  \/ state = "S_TXDATAOFFSET" /\ CryptoFails /\ AbortSlot

activity_ti3 == Advance({"S_TXDATAREADY"}, "S_TXDATADELAY")
activity_ti6 == Advance({"S_RXACKOFFSET"}, "S_RXACKREADY")
activity_ti7 == Advance({"S_RXACKREADY"}, "S_RXACKLISTEN")
activity_ri2 == Advance({"S_RXDATAOFFSET"}, "S_RXDATAREADY")
activity_ri3 == Advance({"S_RXDATAREADY"}, "S_RXDATALISTEN")
activity_ri7 == Advance({"S_TXACKREADY"}, "S_TXACKDELAY")

(* Mutant: the buffer is not compared to NULL.                             *)
ri6_unchecked ==
  /\ state = "S_TXACKOFFSET"
  /\ LET a == Alloc(queue)
     IN /\ queue' = IF a = NULL THEN queue ELSE Received(queue, a, "none")
        /\ mac' = [mac EXCEPT !.ackToSend = a]
        /\ Arm("S_TXACKREADY")

(* activity_ri6: make the ACK.  If there is no buffer the frame goes up    *)
(* unacknowledged; if it cannot be secured its buffer is freed, and the    *)
(* pointer still set when endSlot frees what the slot left behind.         *)
activity_ri6 ==
  /\ state = "S_TXACKOFFSET"
  /\ LET a == Alloc(queue)
     IN \/ /\ a = NULL
           /\ endSlot(Notify(queue, mac.dataReceived),
                      [mac EXCEPT !.dataReceived = NULL], 0, 1)
           /\ UNCHANGED isSync
        \/ /\ a # NULL
           /\ queue' = Received(queue, a, "none")
           /\ mac' = [mac EXCEPT !.ackToSend = a]
           /\ Arm("S_TXACKREADY")
        \/ /\ a # NULL /\ CryptoFails
           /\ endSlot(freePacketBuffer(queue, a),
                      [mac EXCEPT !.ackToSend = a], 0, 0)
           /\ UNCHANGED isSync

(* Mutant: tie5, a missing ACK, only stops listening.                      *)
TimeoutStops ==
  \/ /\ state \in {"S_TXDATADELAY", "S_TXDATA", "S_RXACK",
                   "S_RXDATALISTEN", "S_RXDATA", "S_TXACKDELAY", "S_TXACK"}
     /\ AbortSlot
  \/ state = "S_RXACKLISTEN" /\ Silent
       /\ UNCHANGED <<queue, radioVars, rxDone, txDone>>

(* activity_tie2, tie3, tie5, tie6, rie2, rie3, rie5 and rie6: a phase     *)
(* took too long.  tie5, a missing ACK, does itself what endSlot does with *)
(* a packet that was not sent.                                             *)
Timeout ==
  /\ state \in {"S_TXDATADELAY", "S_TXDATA", "S_RXACKLISTEN", "S_RXACK",
                "S_RXDATALISTEN", "S_RXDATA", "S_TXACKDELAY", "S_TXACK"}
  /\ AbortSlot

isr_ieee154e_timer ==
  /\ timer = "fsm"
  /\ \/ activity_ti2 \/ activity_ti3 \/ activity_ti6 \/ activity_ti7
     \/ activity_ri2 \/ activity_ri3 \/ activity_ri6 \/ activity_ri7
     \/ Timeout
  /\ UNCHANGED taskVars

activity_synchronize_startOfFrame ==
  /\ ~isSync /\ state = "S_SYNCLISTEN"
  /\ state' = "S_SYNCRX"
  /\ Silent /\ UNCHANGED <<queue, isSync, timer, mac, rxDone, txDone>>

activity_ti4 == Advance({"S_TXDATADELAY"}, "S_TXDATA")
activity_ti8 == Advance({"S_RXACKREADY", "S_RXACKLISTEN"}, "S_RXACK")
activity_ri4 == Advance({"S_RXDATAREADY", "S_RXDATALISTEN"}, "S_RXDATA")
activity_ri8 == Advance({"S_TXACKDELAY"}, "S_TXACK")

UnexpectedStart ==
  /\ state \notin {"S_TXDATADELAY", "S_RXACKREADY", "S_RXACKLISTEN",
                   "S_RXDATAREADY", "S_RXDATALISTEN", "S_TXACKDELAY"}
  /\ AbortSlot

ieee154e_startOfFrame ==
  /\ \/ activity_synchronize_startOfFrame
     \/ /\ isSync
        /\ \/ activity_ti4 \/ activity_ti8 \/ activity_ri4 \/ activity_ri8
           \/ UnexpectedStart
  /\ UNCHANGED taskVars

(* A frame while not synchronized is an EB to synchronize to, or is        *)
(* dropped.  In a state other than S_SYNCRX the slot is ended, but the     *)
(* frame is looked at all the same.                                        *)
activity_synchronize_endOfFrame ==
  /\ ~isSync
  /\ LET p == Alloc(queue)
         clear == [mac EXCEPT !.dataReceived = NULL]
     IN \/ p = NULL /\ endSlot(queue, clear, 0, 0) /\ UNCHANGED isSync
        \/ /\ p # NULL
           /\ isSync' = TRUE
           /\ \E n \in Neighbors :
                endSlot(Notify(Received(queue, p, n), p), clear, 0, 1)
        \/ /\ p # NULL
           /\ state' = "S_SYNCLISTEN"
           /\ mac' = clear
           /\ Silent /\ UNCHANGED <<queue, isSync, timer, rxDone, txDone>>

(* activity_ti5: sent.  A broadcast is done, a unicast waits for its ACK.  *)
activity_ti5 ==
  /\ state = "S_TXDATA"
  /\ LET d == mac.dataToSend
     IN IF queue[d].hop = "broadcast"
        THEN /\ endSlot(Notify(queue, d), [mac EXCEPT !.dataToSend = NULL],
                        1, 0)
             /\ UNCHANGED isSync
        ELSE Arm("S_RXACKOFFSET") /\ UNCHANGED <<queue, mac>>

(* activity_ti9: a frame came where the ACK was due.                       *)
activity_ti9 ==
  /\ state = "S_RXACK"
  /\ \/ /\ Alloc(queue) # NULL
        /\ endSlot(Notify(queue, mac.dataToSend),
                   [mac EXCEPT !.dataToSend = NULL], 1, 0)
        /\ UNCHANGED isSync
     \/ AbortSlot

(* activity_ri5: a frame came.  It is invalid or finds no buffer, wants an *)
(* ACK, or goes up.                                                        *)
activity_ri5 ==
  /\ state = "S_RXDATA"
  /\ \/ AbortSlot
     \/ \E n \in Neighbors :
          LET p == Alloc(queue)
          IN /\ p # NULL
             /\ \/ /\ queue' = Received(queue, p, n)
                   /\ mac' = [mac EXCEPT !.dataReceived = p]
                   /\ Arm("S_TXACKOFFSET")
                \/ /\ endSlot(Notify(Received(queue, p, n), p), mac, 0, 1)
                   /\ UNCHANGED isSync

(* activity_ri9: the ACK is sent.                                          *)
activity_ri9 ==
  /\ state = "S_TXACK"
  /\ endSlot(Notify(freePacketBuffer(queue, mac.ackToSend), mac.dataReceived),
             NoPackets, 0, 1)
  /\ UNCHANGED isSync

UnexpectedEnd ==
  /\ state \notin {"S_TXDATA", "S_RXACK", "S_RXDATA", "S_TXACK"}
  /\ AbortSlot

ieee154e_endOfFrame ==
  /\ \/ activity_synchronize_endOfFrame
     \/ /\ isSync
        /\ \/ activity_ti5 \/ activity_ti9 \/ activity_ri5 \/ activity_ri9
           \/ UnexpectedEnd
  /\ UNCHANGED taskVars

Interrupt ==
  \/ isr_ieee154e_newSlot \/ isr_ieee154e_timer
  \/ ieee154e_startOfFrame \/ ieee154e_endOfFrame

-----------------------------------------------------------------------------
(* Tasks.  The scheduler runs a task when none is running; those of other  *)
(* priorities than the two notifications may be posted at any time.        *)
-----------------------------------------------------------------------------
EndTask == task' = "none" /\ msg' = NULL /\ out' = NULL

StartNotifReceive ==
  /\ task = "none" /\ rxDone > 0
  /\ task' = "rx" /\ rxDone' = rxDone - 1
  /\ Silent /\ UNCHANGED <<queue, txDone, msg, out, busy>>

StartNotifSendDone ==
  /\ task = "none" /\ rxDone = 0 /\ txDone > 0
  /\ task' = "txdone" /\ txDone' = txDone - 1
  /\ Silent /\ UNCHANGED <<queue, rxDone, msg, out, busy>>

Take(p, next, error) ==
  /\ IF p = NULL
     THEN critical' = {error} /\ EndTask /\ UNCHANGED queue
     ELSE /\ queue' = SetOwner(queue, p, COMPONENT_SIXTOP)
          /\ msg' = p /\ task' = next
          /\ Silent /\ UNCHANGED out
  /\ UNCHANGED <<rxDone, txDone, busy>>

(* task_sixtopNotifReceive                                                 *)
TakeReceived ==
  task = "rx" /\ Take(sixtopGetReceivedPacket(queue), "receive",
                      "NO_RECEIVED_PACKET")

(* The packet is for this mote, or is dropped.                             *)
Consume ==
  /\ task \in {"receive", "replied"}
  /\ queue' = freePacketBuffer(queue, msg)
  /\ EndTask
  /\ Silent /\ UNCHANGED <<rxDone, txDone, busy>>

(* sixtop_send and sixtop_send_internal                                    *)
sixtop_send(q, p) ==
  [q EXCEPT ![p].retriesLeft = IF q[p].hop = "broadcast" THEN 1
                               ELSE TXRETRIES + 1,
            ![p].owner = COMPONENT_SIXTOP_TO_IEEE802154E]

(* A packet changes hands within the task and is sent, or dropped.         *)
Resend(creator) ==
  /\ queue' \in {freePacketBuffer(queue, msg)} \cup
       {sixtop_send(Allocate(queue, msg, creator, creator, n), msg) :
          n \in Neighbors}
  /\ EndTask
  /\ Silent /\ UNCHANGED <<rxDone, txDone, busy>>

(* opencoap_receive makes its answer in the buffer of the request.         *)
CoapRespond ==
  task = "receive" /\ CoapReplies /\ Resend(COMPONENT_OPENCOAP)

(* forwarding_receive: the packet is for another mote.  Without a buffer   *)
(* to spare for packets of high priority it is dropped; a packet with a    *)
(* source route that cannot be sent is not freed.                          *)
Relay(mode) ==
  /\ task = "receive" /\ ~IsDAGroot
  /\ LET relayed == Allocate(queue, msg, COMPONENT_FORWARDING,
                             COMPONENT_FORWARDING, "none")
     IN IF isHighPriorityEntryEnough(relayed)
        THEN \/ Resend(COMPONENT_FORWARDING)
             \/ /\ mode = "sourceRoute"
                /\ queue' = relayed
                /\ EndTask
                /\ Silent /\ UNCHANGED <<rxDone, txDone, busy>>
        ELSE Consume

(* task_sixtopNotifSendDone                                                *)
TakeSent ==
  task = "txdone" /\ Take(sixtopGetSentPacket(queue), "sendDone",
                          "NO_SENT_PACKET")

(* The flag of the packet p while it is sent, if it has one.               *)
Flag(q, p) ==
  IF q[p].creator = COMPONENT_SIXTOP
  THEN {IF q[p].hop = "broadcast" THEN "EB" ELSE "KA"}
  ELSE IF q[p].creator = COMPONENT_ICMPv6RPL
  THEN {IF q[p].hop = "broadcast" THEN "DIO" ELSE "DAO"}
  ELSE {}

(* Mutant: the flag stays set.                                             *)
SendDoneBusy ==
  /\ task = "sendDone"
  /\ queue' = freePacketBuffer(queue, msg)
  /\ EndTask
  /\ Silent /\ UNCHANGED <<rxDone, txDone, busy>>

SendDone ==
  /\ task = "sendDone"
  /\ busy' = busy \ Flag(queue, msg)
  /\ queue' = freePacketBuffer(queue, msg)
  /\ EndTask
  /\ Silent /\ UNCHANGED <<rxDone, txDone>>

(* A task gets a buffer for a packet of its own, if there is one.          *)
NewPacket(creator, hop, next) ==
  LET p == getFreePacketBuffer(queue, creator, isSync)
  IN /\ p # NULL
     /\ queue' = Allocate(queue, p, creator, creator, hop)
     /\ out' = p /\ task' = next
     /\ Silent /\ UNCHANGED <<rxDone, txDone, msg, busy>>

MayStart == task = "none" /\ rxDone = 0 /\ txDone = 0

(* A component found that it cannot send: what it has queued is removed.   *)
Purge(creator, flags) ==
  /\ MayStart
  /\ queue' = removeAllCreatedBy(queue, creator)
  /\ busy' = busy \ flags
  /\ Silent /\ UNCHANGED <<rxDone, txDone, task, msg, out>>

sixtop_sendEB ==
  \/ ~isSync /\ Purge(COMPONENT_SIXTOP, {"EB", "KA"})
  \/ /\ MayStart /\ isSync /\ "EB" \notin busy
     /\ NewPacket(COMPONENT_SIXTOP, "broadcast", "send")

(* sixtop_sendEB of a mote that is synchronized, but is joining, or has no *)
(* rank, or has sent no DAO: it purges all the same, and the MAC may be    *)
(* sending what is purged.                                                 *)
sendEB_purges ==
  /\ isSync /\ Cardinality(stray) < MaxStray
  /\ Purge(COMPONENT_SIXTOP, {"EB", "KA"})
  /\ UNCHANGED radioVars

sixtop_sendKA ==
  \/ ~isSync /\ Purge(COMPONENT_SIXTOP, {"EB", "KA"})
  \/ /\ MayStart /\ isSync /\ "KA" \notin busy /\ ~IsDAGroot
     /\ \E n \in Neighbors : NewPacket(COMPONENT_SIXTOP, n, "send")

sendDIO ==
  \/ ~isSync /\ Purge(COMPONENT_ICMPv6RPL, {"DIO", "DAO"})
  \/ /\ MayStart /\ isSync /\ "DIO" \notin busy
     /\ NewPacket(COMPONENT_ICMPv6RPL, "broadcast", "send")

sendDAO ==
  \/ ~isSync /\ Purge(COMPONENT_ICMPv6RPL, {"DIO", "DAO"})
  \/ /\ MayStart /\ isSync /\ "DAO" \notin busy /\ ~IsDAGroot
     /\ \E n \in Neighbors : NewPacket(COMPONENT_ICMPv6RPL, n, "send")

(* An application, a 6P request, or a packet from the serial port.         *)
Originate ==
  /\ MayStart
  /\ \E c \in AppCreators, n \in Neighbors : NewPacket(c, n, "send")

(* An answer in a buffer of its own: a 6P response, an echo reply.         *)
Answer ==
  /\ task = "receive"
  /\ \E c \in AppCreators, n \in Neighbors : NewPacket(c, n, "reply")

AfterSend == IF task = "reply" THEN task' = "replied" /\ UNCHANGED msg
             ELSE task' = "none" /\ msg' = NULL

(* Mutant: a packet that cannot be sent is not freed.                      *)
SendLeaks ==
  /\ task \in {"send", "reply"}
  /\ \/ /\ queue' = sixtop_send(queue, out)
        /\ busy' = busy \cup Flag(queue, out)
     \/ queue[out].creator # COMPONENT_SIXTOP /\ UNCHANGED <<queue, busy>>
  /\ AfterSend /\ out' = NULL
  /\ Silent /\ UNCHANGED <<rxDone, txDone>>

(* The packet is handed to sixtop and the flag of its kind set, or there   *)
(* is no way to send it.                                                   *)
Send ==
  /\ task \in {"send", "reply"}
  /\ \/ /\ queue' = sixtop_send(queue, out)
        /\ busy' = busy \cup Flag(queue, out)
     \/ /\ queue[out].creator # COMPONENT_SIXTOP
        /\ queue' = freePacketBuffer(queue, out)
        /\ UNCHANGED busy
  /\ AfterSend /\ out' = NULL
  /\ Silent /\ UNCHANGED <<rxDone, txDone>>

(* A task that is running goes on, a notified one starts.                  *)
Notified ==
  \/ StartNotifReceive \/ TakeReceived \/ Consume \/ CoapRespond
  \/ (\E mode \in RelayModes : Relay(mode)) \/ Answer
  \/ StartNotifSendDone \/ TakeSent \/ SendDone
  \/ Send

Posted == sixtop_sendEB \/ sixtop_sendKA \/ sendDIO \/ sendDAO \/ Originate

Tasks == (Notified \/ Posted) /\ UNCHANGED radioVars

(* The buffers the MAC works on.                                           *)
InMac == {mac.dataToSend, mac.dataReceived, mac.ackToSend} \ {NULL}

(* A history of what sendEB_purges takes from the MAC.  The MAC goes on    *)
(* with a buffer that is free, or another packet's by now, and sends it,   *)
(* gives it back or reports it; the buffer is stray until it is free,      *)
(* nothing leads to it, and no notification that may be its is pending.    *)
Strays(purged) ==
  stray' = {p \in stray \cup purged :
              \/ p \in InMac' \cup {msg', out'}
              \/ queue'[p].owner # COMPONENT_NULL
              \/ txDone' > 0 \/ "txdone" \in {task, task'}}

PurgedUnderMac == {p \in InMac : queue[p].creator = COMPONENT_SIXTOP}

Next ==
  \/ (Interrupt \/ Tasks) /\ Strays({})
  \/ sendEB_purges /\ Strays(PurgedUnderMac)

Spec == Init /\ [][Next]_vars

(* A transmission in the shared cell.                                      *)
SharedCell ==
  /\ timer = "newSlot" /\ isSync /\ state = "S_SLEEP"
  /\ Transmit(CellPacket("TXRX", "anycast", TRUE))
  /\ UNCHANGED taskVars /\ Strays({})

(* Timers fire and tasks that are posted run.  Every slotframe has a       *)
(* shared cell, and a backoff counter reaches 0: a mote that is            *)
(* synchronized again and again with something to send comes to send it.   *)
FairSpec ==
  /\ Spec
  /\ WF_vars(isr_ieee154e_newSlot /\ Strays({}))
  /\ WF_vars(isr_ieee154e_timer /\ Strays({}))
  /\ WF_vars(Notified /\ UNCHANGED radioVars /\ Strays({}))
  /\ WF_vars(sixtop_sendEB /\ ~isSync /\ UNCHANGED radioVars /\ Strays({}))
  /\ WF_vars(sendDIO /\ ~isSync /\ UNCHANGED radioVars /\ Strays({}))
  /\ SF_vars(SharedCell)

-----------------------------------------------------------------------------
(* The properties.                                                         *)
-----------------------------------------------------------------------------
Entries == [creator : Components, owner : Components, hop : Hops,
            retriesLeft : 0..UINT8_MAX]

Pointers == [dataToSend : Slots \cup {NULL}, dataReceived : Slots \cup {NULL},
             ackToSend : Slots \cup {NULL}]

(* The types of the variables.                                             *)
TypeOK ==
  /\ queue \in [Slots -> Entries]
  /\ isSync \in BOOLEAN
  /\ state \in States
  /\ timer \in {"newSlot", "fsm"}
  /\ mac \in Pointers
  /\ rxDone \in Nat /\ txDone \in Nat
  /\ task \in {"none", "rx", "receive", "reply", "replied", "txdone",
               "sendDone", "send"}
  /\ msg \in Slots \cup {NULL} /\ out \in Slots \cup {NULL}
  /\ busy \subseteq {"EB", "KA", "DIO", "DAO"}
  /\ critical \subseteq {"FREEING_UNUSED", "NO_RECEIVED_PACKET",
                         "NO_SENT_PACKET"}
  /\ stray \subseteq Slots

(* endSlot leaves nothing behind, and a phase has exactly the packets it   *)
(* works on: no slot starts with a packet of an earlier one, whatever      *)
(* interrupt ended that one.                                               *)
SlotPackets ==
  /\ (mac.dataToSend # NULL) <=> (state \in TxStates)
  /\ (mac.dataReceived # NULL) <=> (state \in AckStates)
  /\ (mac.ackToSend # NULL) <=> (state \in AckStates \ {"S_TXACKOFFSET"})

(* A slot in progress has its time-out armed, and the timer fires for the  *)
(* next slot otherwise: a lost radio interrupt cannot hang the mote.       *)
TimeoutArmed == (timer = "fsm") <=> (state \in ActiveStates)

(* The buffers of the MAC are those its pointers lead to, each by one      *)
(* pointer, and it may send a packet once more: no task frees, purges or   *)
(* reuses a buffer under the state machine, except sixtop_sendEB of a mote *)
(* that is synchronized.  What that does reaches no further than the       *)
(* packet it purged: the MAC never owns a buffer its pointers do not lead  *)
(* to, and a frame it received or an ACK it made is never touched.         *)
MacCustody ==
  /\ OwnedBy(queue, COMPONENT_IEEE802154E) \subseteq InMac
  /\ InMac \ stray \subseteq OwnedBy(queue, COMPONENT_IEEE802154E)
  /\ mac.dataToSend \notin {mac.dataReceived, mac.ackToSend} \ {NULL}
  /\ mac.ackToSend # NULL => mac.ackToSend # mac.dataReceived
  /\ mac.dataToSend # NULL =>
       /\ queue[mac.dataToSend].creator # COMPONENT_IEEE802154E
       /\ mac.dataToSend \notin stray => queue[mac.dataToSend].retriesLeft > 0
  /\ \A p \in {mac.dataReceived, mac.ackToSend} \ {NULL} :
       /\ queue[p].creator = COMPONENT_IEEE802154E
       /\ queue[p].owner = COMPONENT_IEEE802154E

ToSixtop(fromRadio) ==
  {p \in OwnedBy(queue, COMPONENT_IEEE802154E_TO_SIXTOP) :
     (queue[p].creator = COMPONENT_IEEE802154E) = fromRadio}

(* For each packet given to sixtop a notification is pending: none is      *)
(* handled twice or forgotten in the pool.  And for each notification      *)
(* there is one packet, so that its task finds it (ERR_NO_RECEIVED_PACKET, *)
(* ERR_NO_SENT_PACKET): always of those received, and of those sent unless *)
(* one was purged while the MAC was sending it.                            *)
NotifiedOnce ==
  /\ Cardinality(ToSixtop(TRUE)) = rxDone + (IF task = "rx" THEN 1 ELSE 0)
  /\ Cardinality(ToSixtop(FALSE)) <=
       txDone + (IF task = "txdone" THEN 1 ELSE 0)
  /\ stray = {} => Cardinality(ToSixtop(FALSE)) =
                     txDone + (IF task = "txdone" THEN 1 ELSE 0)
  /\ "NO_RECEIVED_PACKET" \notin critical
  /\ "NO_SENT_PACKET" \in critical => stray # {}

(* A buffer in use is queued for the MAC, in its hands, waits for sixtop,  *)
(* or is held by the running task: none is leaked, and the pool never      *)
(* shrinks, but for the relayed packets with a source route that           *)
(* forwarding_send_internal_SourceRouting could not send and did not free. *)
NoLeak ==
  \A p \in Slots \ FreeSlots(queue) :
    \/ queue[p].owner \in {COMPONENT_SIXTOP_TO_IEEE802154E,
                           COMPONENT_IEEE802154E_TO_SIXTOP}
    \/ p \in InMac \cup {msg, out}
    \/ queue[p].owner = COMPONENT_FORWARDING /\ "sourceRoute" \in RelayModes

(* A busy flag is set exactly while one packet of its kind is between      *)
(* sixtop_send and its sendDone: the flag is neither lost, which would     *)
(* queue a second one, nor left set, which would silence the mote, whether *)
(* packets are purged under the MAC or not.                                *)
Underway == {p \in Slots \ {out} : Flag(queue, p) # {}}

FlagsTrue ==
  /\ busy = UNION {Flag(queue, p) : p \in Underway}
  /\ \A p, r \in Underway : Flag(queue, p) = Flag(queue, r) => p = r

(* A buffer of the pool goes through the life PacketLifecycle describes:   *)
(* a packet the MAC is sending is not withdrawn, is sent TXRETRIES + 1     *)
(* times at most, and reported once.  Only a buffer that was purged while  *)
(* the MAC was sending it leaves that life, and it is back in it as soon   *)
(* as the MAC, the tasks and the notifications are done with it.           *)
Stage(p) ==
  CASE queue[p].owner = COMPONENT_NULL -> "free"
    [] queue[p].owner = COMPONENT_SIXTOP_TO_IEEE802154E -> "waiting"
    [] queue[p].owner = COMPONENT_IEEE802154E_TO_SIXTOP -> "reported"
    [] queue[p].owner = COMPONENT_IEEE802154E ->
         IF p = mac.dataToSend THEN "sending" ELSE "radio"
    [] OTHER -> "held"

Life(p) == INSTANCE PacketLifecycle WITH
             Allowance <- TXRETRIES + 1,
             stage <- Stage(p), left <- queue[p].retriesLeft

LivesAsPromised ==
  /\ \A p \in Slots : Life(p)!Init
  /\ [][\A p \in Slots :
           \/ p \in stray \cup stray'
           \/ UNCHANGED Life(p)!lifeVars
           \/ Life(p)!Next]_<<queue, mac>>

(* The fairness PacketLifecycle promises: no interrupt, and none that      *)
(* fails to come, leaves a buffer with the MAC for ever.                   *)
MacReturnsBuffers == \A p \in Slots : Life(p)!MacIsFair

(* A full pool gets a free buffer again: packets that cannot be delivered  *)
(* do not block the mote for ever, neither while it is synchronized nor,   *)
(* as an EB needs a buffer too, when it has lost the network.              *)
PoolRecovers == (FreeSlots(queue) = {}) ~> (FreeSlots(queue) # {})

(* Packets of low priority take at most one buffer more than the pool      *)
(* leaves to them, answers of OpenCoAP apart: those come to be in buffers  *)
(* that were taken for frames received, and no one checks.                 *)
SpaceLeft ==
  Cardinality({p \in LowPriority(queue) :
                 queue[p].creator # COMPONENT_OPENCOAP})
    <= QUEUELENGTH - HIGH_PRIORITY_QUEUE_ENTRY + 1

(* What openqueue.c says of the buffers kept for packets of high priority: *)
(* "if there is no space left for high priority queue, don't reserve".     *)
ReserveKept ==
  Cardinality(LowPriority(queue)) <= QUEUELENGTH - HIGH_PRIORITY_QUEUE_ENTRY

(* Freeing a buffer that is free is an error the pool reports.             *)
NoDoubleFree == "FREEING_UNUSED" \notin critical
=============================================================================
