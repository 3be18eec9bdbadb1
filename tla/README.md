# A TLA+ development for OpenWSN

This directory holds TLA+ specifications of the OpenWSN firmware in
`src/openwsn-fw`, the TLC configurations that check them on small instances and
the theorems about them that TLAPS proves. It says what is modelled, what the
checks and the proofs show, and what is left out.

The repository holds a fork of the OpenWSN mote firmware (C), the `coap` Python
library, the OpenVisualizer host software (Python), and scripts and data of a
measurement campaign. The logic that is hard to get right is in the firmware: a
mote is a small concurrent program in which interrupts, cut to a time-slotted
radio schedule, share one pool of packet buffers with tasks that they preempt.
That is where this development starts.

## 1. The system

### 1.1 The parts of the firmware

| Component | State | Operations | Talks to |
|---|---|---|---|
| Task scheduler `kernel/openos/scheduler.c` | 10 task containers, a linked list sorted by priority | `scheduler_push_task` (interrupts off), the main loop `scheduler_start` | everything: interrupts post tasks |
| Packet pool `openqueue.c` | 10 entries: creator, owner, next hop, retries left | get, free, remove all created by, look up for sixtop or for the MAC; each with interrupts off | every layer |
| TSCH slot state machine `IEEE802154E.c` | `isSync`, `state`, ASN, `dataToSend`, `dataReceived`, `ackToSend`, `ackReceived`, one timer | slot timer, FSM timer, start and end of frame, all in interrupts | pool, schedule, neighbors, sixtop (by two notification tasks) |
| sixtop `sixtop.c` | busy flags for EB and KA, 6P transaction state, maintenance timers | send, `sendEB`, `sendKA`, notification tasks, 6P request, response, time-out | pool, MAC, schedule, neighbors, SF0 |
| schedule `schedule.c` | circular list of active slots, backoff, per-cell statistics | add, remove, advance, `getOkToSend`, indicate tx and rx | MAC, sixtop |
| neighbors `neighbors.c` | per neighbor: stable flag, ETX counters, rank, 6P generation and sequence number | indications of tx and rx, rank update, next KA | MAC, sixtop, RPL |
| RPL `icmpv6rpl.c` | rank, preferred parent, busy flags for DIO and DAO | send and receive DIO and DAO, parent selection | neighbors, forwarding |
| forwarding `forwarding.c`, 6LoWPAN `iphc.c`, `openbridge.c` | none beyond the packets | relay, deliver, source routing | pool, sixtop, UDP and ICMPv6 |
| CoAP `opencoap.c`, OSCOAP `openoscoap.c` | resources, message ids, replay windows | receive, respond, send, time-out | UDP |
| opentimers `opentimers.c` | up to 10 virtual timers over one compare register of 16 or 32 bits (`sctimer.c` of the board) | create, schedule, cancel, interrupt | MAC, sixtop, RPL, applications |
| openserial `openserial.c` | input and output ring, mode, counters of the frame being sent | `openserial_printf`; start and stop of input and output by the slots of the MAC; tx and rx interrupts; commands | host (`serial_comm_mote.py`), all components that print |
| SF0 `sf0.c` | none of its own; reserves sixtop | compare required and scheduled cells, choose candidates | sixtop, schedule |
| idmanager, applications | small; the role of root, slot skipping | send, receive, become root | schedule, RPL, sixtop, UDP |

The board packages, boot loaders, FreeRTOS port and build files are vendor code
or hardware access. On the host, OpenVisualizer has an event bus, serial
connectors, RPL topology and source routes; the `coap` library has a
transmitter state machine with retransmissions.

### 1.2 How they interact

* **Interrupts and tasks.** The MAC runs in interrupts only; each handler runs
  to its end. All else runs in tasks, one at a time, preempted by interrupts
  but never by another task. The two meet in the packet pool and in the list
  of tasks.
* **Ownership instead of locks.** A pool entry carries its creator and its owner.
  The owner decides who may touch it: a component, the queue to the MAC
  (`COMPONENT_SIXTOP_TO_IEEE802154E`), the MAC, or the queue back
  (`COMPONENT_IEEE802154E_TO_SIXTOP`). Handing over is a store to that field.
* **Notifications carry no pointer.** The MAC changes the owner and posts
  `task_sixtopNotifSendDone` or `task_sixtopNotifReceive`; the task then searches
  the pool. Entries and pending tasks must match in number and in kind.
* **One timer for two purposes.** `ieee154e_vars.timerId` is armed either for the
  next slot or for the next phase of this one; the radio's interrupts race it.
* **Virtual timers share one compare register.** The MAC's timer has priority over
  the others and is re-armed from the timer interrupt and from the radio's; tasks
  schedule and cancel theirs with interrupts enabled.
* **Two views of the slotframe.** The MAC counts slots by itself and keeps the offset of
  its next cell; tasks of sixtop change the list of cells under it. Only an EB, or
  reaching that offset, brings the two together again.
* **Two motes, one agreement.** In a 6P transaction the child changes its schedule
  when it hears the response, the parent when its response is acknowledged. Each
  counts its changes, and the next request compares the counts.
* **Rank and parent.** `neighbors.c` keeps the rows, RPL an index into them. Whoever
  removes a row, or changes a rank or a counter, has to see to the index and the
  mote's own rank.
* **A serial port between slots.** The MAC starts and stops input and output of the serial port, in its own interrupts;
  tasks print into the ring that the UART's interrupt sends from. A command is executed by `openserial_stop`, in the MAC's interrupt.
* **Busy flags.** EB, KA, DIO and DAO have a flag each, set when the packet is
  sent and cleared by its `sendDone`, or when all packets of the sender are purged.

### 1.3 What is hard here, and what correctness means

| Hazard | Property |
|---|---|
| An interrupt posts a task while the main loop gives a container back in three assignments | `ListSound`, `AtMostOnce`, `NoJobLost`, `NoContainerLost` |
| A task posted between the test for an empty list and going to sleep | `EveryJobRuns` |
| A slot is cut short in any phase by a time-out, an unexpected interrupt, loss of synchronization | `SlotPackets`, `TimeoutArmed` |
| A task purges, frees or reuses a buffer the MAC is working on | `MacCustody`, `LivesAsPromised` |
| A packet is handed up without a notification, or twice | `NotifiedOnce` |
| A step fails in the middle of relaying, answering or acknowledging | `NoLeak` |
| A flag and the packet it stands for drift apart | `FlagsTrue` |
| The 8-bit retry counter is decremented below zero | `TypeOK`, `LivesAsPromised`, `PoolRecovers` |
| The pool fills and nothing can leave | `SpaceLeft`, `PoolRecovers`, `MacReturnsBuffers` |
| The counter wraps; a duration is longer than half of it | `NoneOverdue`, `NotEarly`, `MacOnTime` |
| A task is interrupted while it schedules a timer, or cancels or arms one already marked as expired | `MacOnTime`, `NotEarly` |
| A compare value is passed while it is written; the interrupt is pending while its timer is re-armed | `NoneOverdue`, `NotEarly` |
| The MAC's timer and another expire at about the same time | `SlotReference`, `NoneOverdue` |
| Cells are added to a circular list, and removed, while the MAC walks it | `ListIsSound`, `FindsItsCells` |
| An EB's slot has no cell, and the search for it has no end | `HangsOnlyAstray` |
| The MAC sleeps through slots, and must know how many | `CountsSlots` |
| A loss is charged to a cell that is no longer the one used; a backoff must end | `BacksOffForShared`, `GetsItsTurn` |
| A 6P response or its ACK is lost, late, or meets another transaction | `Agree`, `GenerationsTell`, `TransactionsEnd` |
| A counter that is to overflow is halved, its companion too | `LinksCostAHop`, `RankAboveParent` |
| The parent's row is removed, its rank changes, the mote becomes root | `RankAboveParent`, `RankNeedsParent`, `KeepsParent`, `ParentIsNeighbor`, `OneRowEach` |
| Parents change back and forth, or a better one is passed over | `ChangesForGain`, `TakesTheBest` |
| DIOs are late or lost, and parents form a circle | `LoopsAreStale`, `Converges` |
| Frames are printed while others are sent, and the port is stopped at any time | `FramesIntact`, `NoFrameWaits` |
| Bytes of a command are lost, and meet those of an earlier one | `CommandsIntact` |

`PROJECT.json` lists the hazards with their lines, with those that have no
property yet and the reason.

## 2. The modules

| Module | Role |
|---|---|
| `Scheduler` | the task list and the main loop, statement by statement |
| `SchedulerProofs` | the theorems about `Scheduler` |
| `OpenQueue` | the pool as operators over its value; no variables |
| `MacSlot` | one mote: slot state machine, pool, and the tasks above it; EXTENDS `OpenQueue` |
| `PacketLifecycle` | the abstract life of one buffer, which `MacSlot` refines |
| `MacSlotProofs` | the theorems about `MacSlot`: its slots, the MAC's packets, the pool, and the refinement of `PacketLifecycle` |
| `OpenTimers` | virtual timers, their interrupt, the compare register |
| `Schedule` | the slotframe as operators over its value; no variables |
| `ActiveSlot` | which cell the MAC of one mote uses in which slot; EXTENDS `Schedule` |
| `ActiveSlotProofs` | the theorems about `ActiveSlot`, and what the operators of `Schedule` do to a sound list |
| `SixP` | the 6P transactions of a child with its parent |
| `SixPProofs` | the theorems about `SixP` |
| `RplParent` | neighbor table, rank and parent of one mote as operators over its state; no variables |
| `RplMote` | one mote among neighbors that do anything; EXTENDS `RplParent` |
| `RplDodag` | the motes of a network and their DIOs; EXTENDS `RplParent` |
| `RplParentProofs` | what the operators of `RplParent` keep of a mote's state: lemmas for the next two |
| `RplMoteProofs` | the theorems about `RplMote` |
| `RplDodagProofs` | the theorems about `RplDodag` |
| `OpenSerial` | the serial driver as operators over its value; no variables |
| `SerialLink` | a mote and its host over a serial line; EXTENDS `OpenSerial` |
| `SerialLinkProofs` | the theorems about `SerialLink`, and what the functions of `OpenSerial` do to the frames in the ring |
| `MCMacSlot`, `MCRplMote`, `MCRplDodag`, `MCSerialLink` | values of constants for TLC, and the symmetry of neighbors |

Definitions named `...Lifo`, `...Forgotten` and the like, marked "Mutant:" in
their comment, are faulty variants of the definition that follows them. They are
used by no specification; putting one in the place of its original violates a
property, which shows that the property looks at that code.

### 2.1 Scheduler

`task_list` is the linked list as a sequence of containers, `taskBuf` the
containers with callback and priority. A job is one call of
`scheduler_push_task`, numbered, so that two invocations of one callback can be
told apart. `pc` is the place in the main loop:

| `pc` | Next statement | Action |
|---|---|---|
| `test` | `while(task_list!=NULL)`, and pop with interrupts off | `PopTask`, `FindNoTask` |
| `run` | the callback | `RunTask` |
| `free_cb`, `free_prio`, `free_next` | `cb = NULL`, `prio = TASKPRIO_NONE`, `next = NULL` | `FreeCb`, `FreePrio`, `FreeNext` |
| `doze`, `sleep` | `board_sleep` | `GoToSleep`, `Wakeup` |

`Post` is a call of `scheduler_push_task`, which an interrupt can make at any `pc`. Clearing
`next` of a container that is linked again cuts the list behind it (`CutAfter`).
When no container is free the board resets (`board_reset`). The resets drop every
job: `EveryJobRuns` allows for it. The history variable `reused` records that a task was
posted into the container the main loop was giving back; the properties that this
breaks are stated for behaviours without it, which shows that nothing else breaks them.

### 2.2 OpenQueue

An entry keeps the four fields that decide what happens to it: `creator`, `owner`,
`hop` (the layer-2 destination) and `retriesLeft`. Component identifiers are those of
`opendefs.h`, since the code compares them by order: whatever is above
`COMPONENT_SIXTOP_RES` is of low priority. The scans for the first matching entry
are kept (`First`), as an entry's index decides which of several packets is sent
or handed up first.

### 2.3 MacSlot

State of the MAC: `isSync`, `state`, `timer` (the callback the one timer is armed
with) and `mac` (its packet pointers). States that are entered and left within one
handler, such as `S_TXDATAPREPARE`, are never visible to another actor and have
no value. `ackReceived` never outlives its handler.

Each handler is one action: its guard is the test of the state, and its effect
includes the `endSlot` or `abortSlot` the code ends it with. `endSlot` is the
operator that gives back what the slot still holds: the packet to send goes back
for a retry or, its retries used up, to sixtop; the packet received to sixtop; the
ACK to the pool.

| Code | Actions |
|---|---|
| `isr_ieee154e_newSlot`, `activity_synchronize_newSlot`, `activity_ti1ORri1` | `ListenForEB`, `RootSynchronizes`, `Desynchronize`, `InactiveSlot`, `TxCell`, `TxRxCell`, `RxCell` |
| `isr_ieee154e_timer` | `activity_ti2` ... `activity_ri7`, `Timeout` (all `tie` and `rie` handlers) |
| `ieee154e_startOfFrame`, `ieee154e_endOfFrame` | `activity_...`, `UnexpectedStart`, `UnexpectedEnd` |
| `task_sixtopNotifReceive`, `task_sixtopNotifSendDone` | `StartNotif...`, `TakeReceived`, `TakeSent`, then what the upper layers do |
| `sixtop_sendEB`, `sixtop_sendKA`, `sendDIO`, `sendDAO`, applications | the actions of these names, `sendEB_purges` and `Originate`, each followed by `Send` |
| `forwarding_receive`, `opencoap_receive`, echo and 6P answers | `Relay`, `CoapRespond`, `Answer` |

Tasks are cut where an interrupt may come between two accesses to an owner field:
a task has taken its notification (`rx`), holds the packet (`receive`), holds an answer
as well (`reply`), and so on. `msg` and `out` are the two buffers a task can hold.

Time, channel hopping, time correction, ASN and join priority are data that no
property here tells apart. The schedule is abstracted by letting each slot be of
any type; backoff by letting the shared cell be usable or not. The radio may give
its interrupts at any time, in any order, or never. Securing a frame may fail
where `CryptoFails` holds, parsing one may always fail.

The constants select what a mote does: root or not, how it relays, whether CoAP answers, which
applications send.

A mote that is not synchronized, or is joining, has no rank or has sent no DAO, does not send EBs:
`sixtop_sendEB` removes what sixtop has queued instead. While the mote is synchronized
(`sendEB_purges`) the MAC may be sending one of these packets, and goes on with a buffer that is free or
another packet's by then. The history variable `stray` has these buffers, from the purge on until
the buffer is free, no pointer leads to it and no notification is pending that may be its own. The properties this breaks
except a stray buffer, and only it, which shows that the damage stays with it; `MaxStray` bounds how many there are at a
time (`MaxStray = 0` is a mote that keeps its rank and keys).

### 2.4 PacketLifecycle, and how MacSlot implements it

PacketLifecycle is what the layers together promise about one buffer: it is taken,
handed to the MAC with an allowance, sent at most that often, reported exactly
once, and given back; it may be withdrawn while it waits and never while it is
being sent. `MacSlot` maps an entry to it with `Stage(p)` (the owner field, and
which pointer of the MAC leads to it) and `left <- queue[p].retriesLeft`, for
every `p`. `LivesAsPromised` is the safety part of this refinement, for buffers that are not stray,
`MacReturnsBuffers` its fairness, for all.

### 2.5 OpenTimers

| Variable | In the code |
|---|---|
| `counter`, `alarm` | the hardware's counter and compare register |
| `pending`, `waiting` | the timer interrupt is pending, and for how many ticks |
| `timersBuf` | the fields of `opentimers_t` that decide when a timer fires |
| `currentTimeout`, `lastTimeout` | the fields of `opentimers_vars` |
| `task` | the point a task has reached in `opentimers_scheduleIn` |
| `due` | what no variable of the code holds: the ticks left of what each caller asked for |
| `races` | history: what has happened that the code does not guard against |

| Code | Action |
|---|---|
| `opentimers_timer_callback`, with the callbacks it makes | the action of this name: mark (`Expiring`), call (`Called`, `Fired`, `NextLap`), choose the next (`idToSchedule`), `sctimer_setCompare` |
| `opentimers_scheduleAbsolute` from a radio interrupt | the action of this name |
| `opentimers_scheduleIn` from a task | `scheduleIn_update`, `scheduleIn_find`, `scheduleIn_assign`, `scheduleIn_setCompare` |
| `opentimers_cancel` | the action of this name |
| the hardware | `Tick` |

Counter values are numbers modulo `CLOCK`, and `Gap` is the unsigned subtraction of
the code, so a wrap does in the model what it does in C. `idToSchedule` is the scan the code
makes in three places, with its first candidate timer 0, whether that runs or not. The
timer interrupt and a radio interrupt do not preempt each other, so each is one
action; a task can be interrupted before each access to `opentimers_vars` that
others use. `CallPreempted = FALSE` is the program as it would be if
`opentimers_scheduleIn` masked interrupts, which shows what depends on that. Two races are recorded in `races`: an interrupt has `crossed` a call
that had made its choice and not yet written the compare register, whose old choice then overwrites what the interrupt scheduled; and a task has armed
a timer that was `remarked`, that is, still marked as expired. `MacOnTime` holds up to the first crossing, `NotEarly` up to
the first of either. `RadioWindow` bounds the ticks after a time-out in which radio interrupts
arm the MAC's timer, as a slot ends.
`ClearsPending` distinguishes boards: writing `TBCCTL2` (MSP430) clears a pending
interrupt, `IntEnable` (CC2538) does not.

Left out: `opentimers_create`, `opentimers_destroy` and `opentimers_setPriority`, which the
firmware calls while it initializes, and periodic timers, which are timers whose
callback asks for the same duration again.

### 2.6 Schedule and ActiveSlot

`schedule` holds `scheduleBuf` (entries with slot offset, type, shared flag, neighbor and
`next`), the current entry and the frame length. Each function of `schedule.c` masks
interrupts, so each is one operator. `PlaceFor` is the loop that looks for the entry
behind which a new one belongs (`Between` its condition, with the wrap at the end of
the slotframe).

| Code | Action |
|---|---|
| `isr_ieee154e_newSlot`, not synchronized | `RootSynchronizes`, `ListenForEB` |
| `activity_ti1ORri1` | `Desynchronize`, `WrongState`, `PassiveSlot`, `ActiveSlotBegins` (with `Sleep` for the slots it skips) |
| `endSlot`, with `schedule_indicateTx` | `EndSlot` |
| `ieee154e_processIEs` | `EBReceived`, `EBSynchronizes` |
| `sixtop_addCells`, `sixtop_removeCells`, `schedule_removeAllCells` | `AddCell`, `RemoveCell`, `RemoveAllCells` |
| `idmanager_triggerAboutRoot` | `SetIsDAGroot` |

`net` is the offset of the network by its root's clock: what an EB says, and what the
mote's `slotOffset` should be. Four history variables say what no variable of the code
holds: `align` compares the cell advanced to with the slot it was taken for, `skewed`
notes a miscount, `sharedSlot` whether this slot began with a shared cell, and `hung`
that `schedule_syncSlotOffset` goes round without end. `MacSlot` has the inside of a slot;
here a slot is its beginning and its end.

### 2.7 SixP

The child's part of `sixtop_vars` (`six2six_state`, `handler`, `celllist_toDelete`, the
time-out timer), the cells each side has with the other, the two generations, and the
packets that are in the queues of the two. `SendRequest` and `SendResponse` are one
transmission each with its outcome: received and acknowledged, received with the ACK
lost, or lost; with it go the tasks the frame causes on both sides
(`notifyRequest`, `requestSendDone`; `notifyResponse`, `responseSendDone`). The time-out is two steps,
the timer's callback `sixtop_timeout_timer_cb`, which posts a task, and the task `timer_sixtop_six2six_timeout_fired`; a response may be handled, and the next request made, between them.
A response taken for an `ADD` or `RELOCATE` adds whatever cells it carries (`Payload`), also those of another command. Nothing filters
the copies of a frame whose ACK was lost, so a request may be answered twice. Packets of a
queue leave in any order, as `openqueue_macGetDataPacket` takes them by index. `AddCells` adds the cells of
a list in its order until the schedule is full, as `sixtop_addCells` ignores
that `schedule_addActiveSlot` failed.

`trouble` is history: it names how the two sides have come to differ (see the comment at
`Troubles`). `Agree` says that there is no way but those.

Two motes of this fork do not start a transaction by themselves: `sf0_notifyNewSlotframe` has
no caller, and `c6t_init` is commented out in `openapps.c`. A mote does answer requests, and SF0 and
`c6t` are compiled; the module shows what happens when they are used.

### 2.8 RplParent, RplMote, RplDodag

A mote's state is one record: `table`, `isDAGroot`, `haveParent`, `ParentIndex`, `myDAGrank`.
The operators of `RplParent` carry the names of the functions and take the record to its next
value. Two loops of `neighbors_removeOld` are given in closed form (`removeAged`, `removeOthers`):
the code removes rows one by one and selects a parent again when it comes to the
parent's, and the comments there say why the outcome is that of one selection.
`LinkMetric` leaves out the ten bits by which the code scales numerator and denominator.

`RplMote` is one mote and the callers of these operators: `FrameReceived`, `DIOReceived`,
`FrameSent`, `Maintenance` (any neighbors may have become old) and `triggerAboutRoot`.
`RplDodag` is a network: `sendDIO` puts the mote's rank into a DIO, `DIOSent` lets any of those
in reach hear it, later, and `FrameSent` changes what a link costs. A mote has heard EBs before the first DIO is sent:
`FirstHeard` says of whom and in which order, as neighbors take the rows in that order (`Joined`), and
which parent is selected may depend on it.

### 2.9 OpenSerial, SerialLink

The driver is one record: the rings `tx` and `rx` with `head`, `tail` and `fill_level`, the `mode`, the counters of the frame or
request that is being sent, and the bytes the UART has still to send. Bytes are numbers, as the code decides by them where a frame
ends, and a frame's data may contain `START_FLAG`. Where the code reads a ring without regard to its end (`buffer[tail+1]`, the
checksum), the byte is any of `Beyond`. `openserial_printf` pushes a frame byte after byte, which `circular_buffer_pushes` says at once.

| Code | Action |
|---|---|
| `activity_ti1ORri1`, by the kind of slot | `InactiveSlot`, `ActiveSlot`, `SerialRxSlot` |
| `activity_synchronize_newSlot` | `SerialRxSlot`, `OutputSlot` |
| `activity_synchronize_startOfFrame` | `StartOfFrame` |
| `openserial_printf`, called by tasks | `Printf` |
| `isr_openserial_tx`, `isr_openserial_rx` | `uart_tx_isr`, with the host that reads the byte (`Read`), and `uart_rx_isr` |
| the user interface of `serial_comm_mote.py` | `Type` |

The fields `frames`, `garbled`, `astray`, `commands` and `forged` are history: what the host is to read, whether it read something
else, what broke the framing first (`overflow`, `cut`, `length` or `beyond`, each named where it is set), and which commands were executed that nobody sent.
Of a command's effects only the response is kept, one byte long; the number in the report of a wrong checksum and the ticks in that of
a packet's delay are zero. Not modelled: a byte left in the UART's data register by an input that was stopped, and
the test `buffer_level > SERIAL_INPUT_BUFFER_SIZE-1`, which cannot be true of a byte and only reports. Interrupts cleared with a byte pending (`uart_clearRxInterrupts`) lose that byte, as `LoseByte` does.

## 3. The runs

| Run | Instance | What it shows |
|---|---|---|
| `main_loop` | scheduler, tasks posted anywhere | the list stays sound, no job twice; unless a container is reused while it is given back, no job or container is lost, the most urgent runs first, FIFO within a priority, and every job runs |
| `job_lost` | the same | finding: jobs are lost |
| `rank_lost` | mote that loses synchronization, rank and keys, relays by source routes and may fail to secure a frame | custody, notification, leaks, flags, refinement of a buffer's life, and the state machine itself, with a packet purged under the MAC and packets leaked |
| `mote` | the same mote with its own traffic of EBs, KAs, DIOs, DAOs and packets received, one purged under the MAC; nothing of the radio is fair | the MAC gives every buffer back; a full pool recovers |
| `root` | root with serial bridge and CoAP answers, frames may fail to be secured | the reserve keeps one buffer free, CoAP answers apart; a full pool recovers, although ACKs and answers cannot be secured |
| `first_lap` | three timers up to the wrap of the counter, one of them a task's; the task's calls are not interrupted | no timer is lost or late beyond the latency and the threshold; slots start from the MAC's own time-out |
| `mac` | the MAC's timer and one that a task arms and cancels, with short and long durations, its calls interrupted anywhere, radio interrupts, over all wraps | the MAC's timer is on time, and no timer is called early, until an interrupt crosses a call (or, for `NotEarly`, a marked timer is armed) |
| `cells` | slotframe of 5 with 4 entries (the values of `schedule.h`), one neighbor, EBs in every slot, roles that change, slots skipped | the list of cells is sound; slot and cell agree again after at most one slot; when the MAC can hang or miscount; backoff is charged rightly and ends |
| `sixp` | two transactions of any commands, one retransmission, loss of frames and ACKs, generations that wrap | the sides agree or a named trouble happened; the generations tell, unless the child's is 0; every transaction ends |
| `table` | four rows and neighbors, two ranks, all roles | rank and parent follow the table, parents change for a gain of two hops only |
| `dodag` | a root and two motes that all hear each other, links whose cost changes | circles of parents are stale; parents at last lead to the root |
| `serial` | rings of 14 and 9 bytes, two frames or commands, a radio frame or a byte lost | whole frames in their order, no commands but those sent, no frame waits, with the exceptions named |

Each module has a type invariant `TypeOK`. `rank_lost` checks that of `MacSlot`; those of the other modules hold in
their runs as well (add `INVARIANT TypeOK` to the `.cfg`). The other properties of
`MacSlot` hold in `root` too, as do `RankNeedsParent`, `LinksCostAHop` and `OneRowEach` in `table`; a property is checked
once, in the instance where it is most at risk, or proved.

**Bounds.** Scheduler: 3 containers, 2 priorities, 5 jobs. Three containers give a
list with a front, a middle and an end behind the container being returned; the
fourth job finds no container. Two priorities tell insertion in front from
insertion behind; the code compares priorities and does nothing else with them.
MacSlot: 3 buffers, of which the reserve keeps 2 (and admits one packet of low priority more than that leaves). A slot that
acknowledges holds two buffers (the frame and the ACK), a task that answers holds
two as well; with three, every pair of actors competes for the last one, and the
pool is full in many states. One neighbor: cells and packets differ by whether
they are for a neighbor, broadcast or anycast, and all three occur; a second
neighbor only adds packets that a given cell passes over, which one neighbor
has with `okToSend` and with EBs. One retransmission (`TXRETRIES = 1`) distinguishes
first, last and no try; `UINT8_MAX = 3` (2 in `mote`) keeps the wrap-around of the counter within
reach. `MaxStray = 1`: one packet purged under the MAC at a time, as a second would do to another
buffer what the first does to its own; the theorems hold for any number. The numbers of pending notifications need no bound: they are bounded by
the pool. `MaxJobs` is the only artificial bound in a guard there.
OpenTimers: a clock of 24 ticks, with the constants of the boards scaled down to it
in their order: advance and threshold (2) are at most the time-outs of the MAC (2, 6, 7), and the lateness that is
recognized is a quarter of the clock (6). In `mac` the task asks for 5 ticks, and for 14, which is more than half a clock and so takes two laps.
Every position of the compare values around the wheel occurs. Two timers suffice
for all that concerns the MAC's timer and one other; with the third a timer can be forgotten that expires
between two others. An interrupt
waits `MaxLatency = 1` tick at most, as the MAC needs its interrupts within the guard times of
a slot; `MaxOverdue` is where `due` stops counting, beyond every limit a property
states. `WrapAround = FALSE` ends a behaviour at the wrap: `first_lap` states what holds until
then, and 32 bits at 32768 Hz last a day and a half, 16 bits two seconds.
`CONSTRAINT Uncrossed` in `mac` checks every state that an interrupt crossing a call leads to, and follows none further, as both
properties say nothing from then on. `RadioWindow = 4` there: four ticks after a time-out radio interrupts may still arm
the MAC's timer, so that it is armed again and again without reaching its time-out, but not for a whole lap; in `first_lap` nothing bounds them.

ActiveSlot: the slotframe and the number of entries are those of `schedule.h` (5 and 4), so that the
list has a front, a middle and an end besides the minimal and the serial cell. One neighbor
suffices, as cells are told apart by slot and neighbor; `MINBE = MAXBE = 2` gives backoffs of 0 to 3, and
an exponent that is at its least, before its first use, and at its most.
SixP: two transactions, so that a late response can meet the next one; two retries of each packet;
generations of 7 and 8, from which one or two changes wrap; two slots, one of which may be taken by the
parent's other neighbors, and one entry fewer than would be wanted. `MaxRequests` bounds the sequence number.
RplMote: four rows are the least with which `neighbors_removeOld` removes neighbors for their rank;
ranks and costs are scaled down with their order kept (`MINHOPRANKINCREASE = 1`, `DEFAULTDAGRANK = 7`), and `numTx`
overflows at 2. `MaxOld = 1`: neighbors grow old one after another. The four neighbors are symmetric; only
action and state properties are checked with that symmetry. All links are stable there, to keep the instance small:
with three rows, three neighbors and `OfferedRssi = {"good", "bad"}` the run has 118,047 states and passes as well, and
the theorems hold for every link.
SerialLink: the output ring is shorter than three frames, so that its end is passed in the middle of frames and at each of their bytes, and it
overflows; the input ring holds one command and a half. One frame of data with `START_FLAG` and two commands of one length, of which the first has `START_FLAG` for a
checksum; responses, reports of delays and of wrong checksums come on top. `MaxFrames` bounds frames and commands together, `MaxFaults` lost bytes and
radio frames. `Beyond` holds a byte that is smaller and one that is larger than what a ring may hold in frames. `Timely` says that a frame or a request is out before the next slot
begins, which 115200 baud and `MaxPerSlot` are for; section 5 has what happens if it is not.
That a frame is sent in the end is the safety property `NoFrameWaits` and the fairness of slots and of the UART; checking it as a liveness property
is beyond TLC's speed on this instance.
RplDodag: the smallest network with a circle of parents; `DEFAULTDAGRANK = 10` leaves room for the ranks to
grow round it before they reach the largest. Each mote has heard the root first (`RootFirst` in `MCRplDodag`).

`CHECK_DEADLOCK` is on, as a mote always has a timer to wait for, except in `first_lap`, where the behaviour ends with the counter; in `cells`, where a
mote that hangs does nothing more; in `sixp`, where the requests come to an end; and in `dodag`, which may end
with the DIOs that have been sent.

**Fairness** is stated in the specifications.
`Scheduler`: the main loop goes on (`WF` of `scheduler_start`); the slot timer always
interrupts again (`WF` of `Wakeup`); a board that resets restarts. Nothing forces an
interrupt to post a task. `MacSlot`: both callbacks of the timer are hardware compare
interrupts that are always armed (`TimeoutArmed` is the invariant behind that);
the scheduler runs posted tasks (`WF` of `Notified`), where a task that is under way
counts too; sixtop's and RPL's periodic timers fire, which matters only while the mote is not
synchronized (`WF` of the purging variants). `SF` of `SharedCell`: each slotframe of the
minimal schedule has a shared cell, and backoff reaches zero after finitely
many of them, so a mote that has a packet in shared cells again and again transmits
it. The radio gets no fairness at all: `MacReturnsBuffers` and `PoolRecovers` hold if
no frame ever starts or ends. `OpenTimers` states no fairness: that a timer is called is
the safety property `NoneOverdue`, since time is counted. Beyond the first lap no such
promise holds for a timer of low priority, so no liveness is claimed for it; that `MacSlot` takes
the timer interrupts of the MAC for fair rests on `MacOnTime`, and leaves out the race it excepts. `ActiveSlot`: slots begin and end (`WF` of the slot
timer's interrupt and of `EndSlot`); that the mote stays synchronized and has a shared cell is a premise of
`GetsItsTurn`, not assumed. `SixP`: the child's packets are sent until acknowledged or given up (`WF` of `SendRequest`, by
`PoolRecovers` and the retry counter) and its timer expires and the task it posts is run; nothing is asked of the parent or of the link.
`RplDodag`: the DIO timer goes on (`WF` of `sendDIO`), and of the DIOs a mote sends again and again, each mote in its
reach hears one again and again. The latter (`HeardBy`) is strong fairness of hearing written out as the formula it stands for,
with "a DIO is queued" for the enabling condition, which TLC evaluates much faster. It is an assumption about the radio; without it a mote may
simply never learn of its neighbors.

## 4. The proofs

`MacSlotProofs` proves for every pool size, reserve, set of neighbors, allowance and
counter width (assumptions `QueueAssumption` and `MacAssumption`):

| Theorem | Statement |
|---|---|
| `SlotPacketsAlways` | `Spec => []SlotPackets` |
| `TimeoutArmedAlways` | `Spec => []TimeoutArmed` |
| `TypeCorrect` | `Spec => []TypeOK` |
| `MacCustodyAlways` | `Spec => []MacCustody` |

None of the four properties is inductive. The strengthening has three layers, and
each was first checked by TLC as an invariant.

1. `Control == ControlType /\ SlotPackets /\ TimeoutArmed /\ UnsyncedIdle` speaks of the MAC's
   own variables only, and is inductive by itself whatever the tasks do: tasks leave
   `radioVars` alone. `UnsyncedIdle` (no synchronization, no slot in progress) is
   needed because the timer handler and the synchronization handlers do not
   test each other's conditions.
2. `Typed == queue \in Pools /\ CountersType /\ TaskType`, with `Control`. `TaskType` says
   which of `msg` and `out` a phase of a task has; without it a task could free
   entry `NULL`. The retry counter stays in range because `Decrement` wraps.
3. `Custody == CustodyBut(stray)`, that is `MacHolds(queue, mac, S) /\ WaitingReady(queue) /\ TaskHolds(S)` for the stray buffers `S`, with `Typed`, `Control` and `StrayType`.
   `MacHolds` is MacCustody; `WaitingReady` says that packets queued for the MAC
   have tries left and were not created by it; `TaskHolds` that the buffers of the running task
   are distinct and owned by a component that is neither the MAC nor a queue. Then
   an interrupt cannot take a task's buffer nor a task the MAC's: the owners
   differ. Of a stray buffer less is claimed: the MAC's pointer leads to it although it is free, or another component's, but it
   waits for no task of sixtop's and holds nothing the radio received. While the mote is not
   synchronized the MAC holds no packet to send (`UnsyncedIdle`), so that those purges make none stray. A step is
   proved for a fixed `S`, and then for what `Strays` makes of it.

The lemmas about the pool (`FirstFound`, `AllocFound`, `FailedIs`, `Sent`, ...) say
what each operator of `OpenQueue` returns or leaves; the lemmas about handlers follow the
disjuncts of `Next`. `FirstFound` uses that `<` on the naturals is well-founded.

The second part of the module, from "The effects of an interrupt" on, goes from custody to the whole pool, with the same assumptions on the constants and no others:

| Theorem | Statement | Excepted in the property |
|---|---|---|
| `NoLeakAlways` | `Spec => []NoLeak` | source-routed packets that could not be relayed |
| `FlagsTrueAlways` | `Spec => []FlagsTrue` | |
| `NotifiedOnceAlways` | `Spec => []NotifiedOnce` | a missing packet that was sent, while a buffer is stray |
| `SpaceLeftAlways` | `Spec => []SpaceLeft` | CoAP answers |
| `LivesAsPromisedAlways` | `Spec => LivesAsPromised`, the refinement | steps of a stray buffer |

Each exception is what section 5 shows to happen. `SpaceLeft` speaks of one buffer more than the comment in `openqueue.c` does, so that it says nothing of a reserve of
one buffer.

The argument does not go through the handlers again. `InterruptEffect` shows that an
interrupt has one of seven effects on the pool, whatever state it comes in: nothing; the transmission of a waiting packet starts (`Starts`); it ends with a
retry (`Retries`) or a report (`Reports`); the radio fills a buffer it keeps (`Keeps`) or passes up at once (`PassesUp`); or what it received is
passed up, and the ACK's buffer freed (`Delivers`). `TasksEffect` does the same for the tasks (`Begins`, `Misses`, `Picks`, `Drops`, `Hands`, `Gets`, `Loses`, `Purges`). Each theorem
is then a case for each effect, from an invariant of its own next to `Base` (what the first part proved):

* `FreeIsReset`: a free buffer is reset. `Accounted`: every buffer that is neither free nor with the MAC nor between the two is `msg` or `out`.
* `FlagsKept`: a flag is set exactly if a packet under way carries it, and one at most does; the packet a task is making has a flag that is not set, and one it received has none. A purge keeps this since it removes all packets of a sender and clears both of its flags, and the MAC puts none back: what it reports or retries is what the buffer holds by then.
* `Matched`: the buffers that wait for sixtop are as many as the notifications pending, received and sent counted apart; of those sent, not more, and exactly as many while none is stray. It
  implies that no task misses its packet then, and that a purge, which runs only when nothing is pending, finds none reported.
* `LowBound`: at most one packet of low priority more than the reserve admits. Taking a buffer tests the reserve before, relaying after.
* `Lived`: a packet received has no transmissions left, and the one a task received is such a packet until it is sent on.
  With it, each effect is one step of `PacketLifecycle` for the buffers it touches, and none for the others.

`RplMoteProofs` proves for every table size, every set of neighbors, ranks, roles and every choice of old
neighbors (assumptions `RplAssumption`, `RplMoteAssumption`), with the lemmas of `RplParentProofs`:

| Theorem | Statement |
|---|---|
| `TypeCorrect` | `Spec => []TypeOK` |
| `LinkCosts` | `Spec => []LinksCostAHop` |
| `RanksGrow` | `Spec => []RankAboveParent` |
| `RanksAreEarned` | `Spec => []RankNeedsParent` |
| `RowsAreUnique` | `Spec => []OneRowEach` |
| `BestIsTaken` | `Spec => TakesTheBest`, an action property |
| `LeavesForGain` | `Spec => ChangesForGain`, an action property |
| `ParentKept` | `Spec => KeepsParent`, an action property |

The invariant is `Good(mote) /\ Tidy(mote)`. `Good` is `Fair` (types, `Counted`: no more acknowledgments than
transmissions in a row, `Earned`: a rank without a parent only from the role of root) and `Sound`, which is
`RankAboveParent` of a state. `Fair` is kept apart because operators call each other in states that are
not sound: after a row's rank or counters have changed and before the parent is selected again. The one lemma everything rests on
says that `updateMyDAGrankAndParentSelection` takes a fair state to a good one; it needs that a link
costs at least a hop, which is `Counted` and the arithmetic of `LinkMetric` (`QuotientAtLeast`).
`Tidy` (unused rows are as `removeNeighbor` leaves them, and no two rows have one address) is kept by a second
set of lemmas. `BestIsTaken` uses `Selects`: a step that changes a rank ends with a
selection, and after a selection no candidate is left, as the best candidate is two hops better than the old rank and all others are
at most as good as the best.

The last two follow the parent through an action rather than an invariant through a state. A selection leaves the parent as it is or takes one that is better by two hops
(`UpdateParent`: `SameParent` or `BetterParent`); the other actions leave rows that are in use where they are, so that an index keeps its meaning. Maintenance is the
hard case, since its two loops remove rows and select in between: `AgedFine` and `OthersFine` say what each of them leaves of the parent's row, and `FewerAhead` that
the three lowest ranks stay the three lowest when others go.

`RplDodagProofs` proves for every set of motes, whoever hears whom and sends frames to whom, and whatever order the
neighbors were first heard in (assumptions `RplAssumption`, `RplDodagAssumption`):

| Theorem | Statement |
|---|---|
| `DodagTyped` | `Spec => []TypeOK` |
| `CirclesAreStale` | `Spec => []LoopsAreStale` |

The invariant `DodagInv` says that every mote is `Good` and none of them root, and that DIOs hold ranks. It follows from what `RplParentProofs` says
of a single mote, as an action takes each mote through `indicateRx`, `indicateRxDIO` or `indicateTx`. That circles are stale follows
from the invariant alone, for circles of any length and without an induction along them: let `m` be on a circle on which every mote knows its
parent's rank. By `Sound`, ranks fall from each mote to its parent. The motes on the circle whose rank is at most that of `m`'s
parent have, with each mote, its parent, and `m`'s parent is one of them, so they are all of the circle (`Upwards` is the least such set). But `m` is on the circle too, and its
rank is greater.

`SchedulerProofs` proves for every number of containers, priorities and jobs (assumption of `Scheduler`):

| Theorem | Statement |
|---|---|
| `TypeCorrect` | `Spec => []TypeOK` |
| `ListStaysSound` | `Spec => []ListSound` |
| `OnceAtMost` | `Spec => []AtMostOnce` |
| `JobsAreKept` | `Spec => []NoJobLost` |
| `ContainersReturn` | `Spec => []NoContainerLost` |
| `MostUrgentFirst` | `Spec => PopsMostUrgent`, an action property |

The invariant has two halves, since the defect of section 5 breaks one of them. `Sound` holds whatever happens: types, `ListSound`, what the main loop holds in each `pc` (`Holding`),
and that the jobs in containers differ from each other and from those executed (`JobsDiffer`, `JobsOver`). `Kept` holds as long as `reused` is false: the container being
given back is not linked (`Unlinked`), the list is sorted by priority and age (`Sorted`), every container in use is in the list or held (`NoneAstray`), and every job posted is somewhere (`JobsKept`). `Kept` is
not needed for `Sound`, which is why a job is never run twice even after the list was cut.

`ActiveSlotProofs` proves for every length of the slotframe, every number of entries and every set of neighbors (assumptions
`ScheduleAssumption`, `ActiveSlotAssumption`):

| Theorem | Statement |
|---|---|
| `SlotInvariant` | `Spec => []SlotInv` |
| `ListStaysSound` | `Spec => []ListIsSound` |
| `CellsAreFound` | `Spec => []FindsItsCells` |
| `SlotsAreCounted` | `Spec => []CountsSlots` |
| `HangsOnlyThen` | `Spec => []HangsOnlyAstray` |
| `BacksOffOnlyForShared` | `Spec => BacksOffForShared`, an action property |

The list of cells is a linked list in an array, and what the code needs of it is that walking it reaches every cell. The proof does not speak of walks: `Sound` says of each
two entries in use that they have different slots, and of each entry in use that the one it points at is in use and that no other entry's slot comes between. That
is kept by an insertion (`Insertion`) and a removal (`Removal`), each a change of one `next`. That the walk then reaches all entries (`ListedIsInUse`) follows from how far
ahead of the current entry each entry's slot is: a step of the list goes to the next larger distance (`NextAhead`), so that a walk of as many steps as there are entries misses none. The removal of all cells of a neighbor is a
recursion over the rows; `Iterates` says what such a recursion computes, by an induction that is made over a set of numbers, as the library's induction theorems have an operator for a parameter.

`SlotInv` joins to that what relates the list to the MAC. `CountsSlots`, `FindsItsCells` and `HangsOnlyAstray` are not inductive:

* `Ready`: the list has the serial slot, which no neighbor's removal takes away, so that there is a current entry to advance from.
* `NextIsKnown` and `StaysInGap`: until the schedule changes, the slot that the MAC waits for is that of the entry after the current one, and no cell lies between the mote's slot
  and that one. Hence the slots it sleeps through, and those it takes for passive, have no cell.
* `ListensInCell`: a mote that receives is in the slot of the current entry, so that `schedule_syncSlotOffset` for an EB ends at once.
* `SharedIsKnown`: the cell that a mote sends in is still the current one when the slot ends, unless the schedule was changed. `BacksOffForShared` rests on it.
* `Awake`: a mote that is not synchronized skips no slots.

`SixPProofs` proves for every set of slots, room, length of the lists of cells and of the queues and number of retries, whatever generations the sides begin with, and for any number of transactions, as
`MaxRequests` may be any number (assumption `SixPAssumption`):

| Theorem | Statement |
|---|---|
| `SixInvariant` | `Spec => []SixInv` |
| `SidesAgree` | `Spec => []Agree` |

`Agree` compares the two sides when nothing is under way, and says nothing of the states in between. `Books` does: without trouble, the child differs from the parent by exactly the effect
of the one response it has acted upon and the parent has not been told of (`Pending`); with none of these, the sides are equal. If two are pending, they need not be equal in any sense that is of use,
but then trouble cannot be avoided, and `Books` says no more. `Distinct` tells the responses to copies of one request apart by the copy they answer, and `ActedOnce` says that
the child acts on one response to its last request: it is idle from then on. Both are needed for an acknowledgment or a
loss to settle the response that `Books` speaks of and no other. `Shapes` says which responses name cells.

`SerialLinkProofs` proves for rings of every size the driver's 8-bit indices allow, all data, commands and bytes behind the rings, and any number of prints, radio frames, lost bytes and slots,
also such as begin before the output is out (`Timely` is not assumed; assumptions `OpenSerialAssumption`, `SerialLinkAssumption`):

| Theorem | Statement |
|---|---|
| `SerialInvariant` | `Spec => []Inv` |
| `FramesStayIntact` | `Spec => []FramesIntact` |
| `NoFrameIsStuck` | `Spec => []NoFrameWaits` |

`OpenSerialAssumption` has `START_FLAG > 5`, so that no frame the driver makes by itself (a request, a report, a response) has it for a length; it is 126.

`FramesIntact` says that nothing was misread so far, and nothing of what is still in the ring, or of what the host is about to make of it. `Inv` joins three places, as long as nothing led the framing astray:

* the ring: `Carries(c, F, k, j)` says that the bytes `c` are those of the frames `F` from the `k`-th on without its first `j`, by the place at which each frame begins. This is no recursion over the
  bytes. A byte taken shifts all places by one (`CarriesTail`), a frame printed is one more place (`CarriesAppend`), a request that is read before the frames in the ring renumbers them (`CarriesInsert`, `CarriesRemove`);
* the driver: `Phase` has its counters. The line is silent; or a frame's last byte is out and nothing, the request or the next frame follows it; or byte `p + 1` of the request or of the first frame is being sent;
* the host: `Place(probe)` is that `p`, and from the second byte on it knows the length of the first frame.

`DriverInv(s, p, l)` is what `Inv` says of the driver alone, for a host that has read `p` bytes of a frame of length byte `l`. Each function of the driver keeps it for every `p` and `l`
(`PrintfKeeps`, `StartInputKeeps`, `StartOutputKeeps`, `HandleCommandsKeeps`, `StopKeeps`), as they are called while the host is anywhere. For a byte sent, `ByteSent` says that it was the next of the first frame and that
the driver then fits a host that has read it; `ReadAsPrinted` that the host reads it as such: the length is taken for it where it is, the data may contain `START_FLAG`, and the frame ends at its last byte and not before.
The length is why a frame whose length is `START_FLAG` is excepted (section 5). In `OutputByteSent` lies that `MayFollow`, the comparison the wrong way round, is false whenever the byte it reads is in the
ring (`WholeFrameIsIn`). `NoFrameWaits` is `WholeFrameIsIn` for a ring whose second byte is not sought behind it.

Only model-checked, in the order of what would be needed:

* `OpenTimers`: `SlotReference`, `NoneOverdue`, `MacOnTime` and `NotEarly` speak of times modulo the clock, and hold for relations between the constants that the instances have (Bounds); the theorems would have
  to assume them.
* `CommandsIntact` of `SerialLink`: the run loses one byte. With several lost, what is left of two commands can have the right checksum, which is a sum of 16 bits and no more, so that it
  is no theorem for all commands and any number of faults.
* `GenerationsTell` of `SixP` is no theorem for all constants: a generation wraps after eight changes, so queues that hold as many old responses confuse it (section 5).
* `TypeOK` of `ActiveSlot`, for the number of slots to back off alone: it is less than a power of two, which is no arithmetic the solver knows. `SlotInv` has the types of the other variables.
* The liveness properties `EveryJobRuns`, `PoolRecovers`, `MacReturnsBuffers`, `GetsItsTurn`, `TransactionsEnd` and `Converges`, which are out of this prover's reach.

## 5. Findings

The run `job_lost` ends with a counterexample to what the repository says of itself: `scheduler_start` clears `cb`, then `prio`, then `next`, with interrupts
enabled. A task posted after the first gets this very container, and the third cuts off
everything behind it. The jobs cut off are never run and their containers never free.

Others are seen with a change of one of the configurations: the constants and the property to check.

| Change | Violated | What happens |
|---|---|---|
| `rank_lost`: check `InMac \subseteq OwnedBy(queue, COMPONENT_IEEE802154E)` | | `sixtop_sendEB` removes sixtop's packets when the mote, while synchronized, has no rank, no keys or has sent no DAO (`sixtop.c:710`). One of them may be in the middle of its transmission. `rank_lost` shows how far the damage goes: the slot state machine stays sound, and only the purged entry is reused under the MAC, or its counter wraps to 255 (`IEEE802154E.c:2872`) |
| `rank_lost`: check `"NO_SENT_PACKET" \notin critical`, or `LivesAsPromised` without its exception of stray buffers | | a consequence: the MAC reports a buffer that was purged; it is purged or freed again, and the task of the notification finds no packet. Or a free buffer is queued to be sent again |
| `mote`: `RelayModes <- TableOnly`, `AppCreators <- Injects` | `PoolRecovers` | a consequence: a purged buffer goes back into the MAC's queue without a creator, so that no later purge finds it. If the mote then loses synchronization, with the rest of the pool full of packets of low priority, which no one purges either, no buffer is left to receive an EB with. In the firmware, which keeps five buffers back, it takes four such buffers; here one |
| `rank_lost`: check `NoLeak` without its exception of source routes | | `forwarding_receive` does not free a source-routed packet it cannot send (`forwarding.c:412`) |
| `first_lap`: `NumTimers = 2`, `CLOCK = 32`, `TIMERLOOP_THRESHOLD = 8`, `RadioDelays = {}`, `Delays = {20}`, `TaskTimers = {}`, `CallPreempted = TRUE` | `NoneOverdue` | the last compare value of a duration of half a clock or more is the sum of the whole duration and the last value, cut to the lower half of the counter (`opentimers.c:416`). The timers of sixtop and RPL (872 to 1127 ms) reach half a clock of a 16-bit counter, one second |
| `mac`: without its `CONSTRAINT`, check `due[Mac] >= -MaxLatency` | | the timer interrupt comes between the choice of the next timer in `opentimers_scheduleIn` and the two assignments that follow (`opentimers.c:158`). The MAC's new time-out is overwritten with the old choice and missed |
| `mac`: check `NotEarly` without `races = {}` and `~ChoiceMade` | | the same place: an interrupt that was pending for the earlier choice is taken for the later one, and the timer is called before its time |
| `mac`: check `NotEarly` with `Uncrossed` instead of `races = {}` | | a task arms a timer that has expired with the MAC's and is still marked: `hasExpired` stays set (`opentimers.c:95` to `117`), and the next interrupt calls the timer at once |
| `mac`: `CallPreempted = FALSE`, check `CancelledIsQuiet` | `CancelledIsQuiet` | a timer that expired with the MAC's is marked and waits for the next interrupt; if it is cancelled before (`opentimers.c:275`), its callback, `NULL` by then, is called |
| `cells`: check `align # "astray"` | | after a change of the schedule the MAC takes one slot for another's cell, until it has advanced again (`IEEE802154E.c:865`) |
| `cells`: check `~hung` | | an EB heard in a slot that has no cell makes `schedule_syncSlotOffset` go round the list without end, with interrupts off (`schedule.c:589`). `HangsOnlyAstray` says when |
| `cells`: check `~skewed` | | a serial slot followed by slots to skip counts them twice: `slotOffset` was already advanced by the loop at `IEEE802154E.c:894`, against the comment of line 893. An EB in a slot after which others are skipped sets the count back by those |
| `sixp`: `Slots = {2, 3, 4}`, `CELLLIST_MAX_LEN = 3`, `SF0THRESHOLD = 2`, `OthersSlots = {}`, `Room = 3`, `MaxRequests = 1`, `Generations = {3}`, `Lossy = FALSE` | `SameCellsDeleted` | SF0 offers the parent up to three cells and asks for two (`sf0.c:158`); the child removes all it offered (`sixtop.c:1481`), the parent two, both count one change, and nothing tells them apart |
| the same constants | `ReservationEnds` | SF0 reserves sixtop, finds no candidates and returns (`sf0.c:132`, `154`): the reservation is never released, although "when complete reservation, handler must be set to none" (`sixtop.h:84`), and no 6P transaction is started any more |
| `sixp`: check `GenerationsTell` without `childGeneration = 0` | | the generation wraps from 8 to 0 (`neighbors.c:451`), where CLEAR sets it too: two motes with different cells count the same generation after a single lost ACK or ignored response |
| `cells`: check `[][backoffExponent' > backoffExponent => sharedSlot]_vars` | | a task adds or removes the cell the slot uses, and `schedule_indicateTx` charges the loss to the entry that is current when the slot ends (`schedule.c:826`): the mote backs off for a frame sent in a cell of its own |
| `table`: `OfferedRanks = {1}`, check `ParentIsNeighbor` | `ParentIsNeighbor` | when more than three neighbors have a rank, `neighbors_removeOld` keeps the three lowest. If the parent is not one of them it is killed, a parent is selected while the old one's row is still there, which may be selected again, and then the row is removed (`neighbors.c:643`). The mote has a preferred parent that is no neighbor, against "resolves to a neighbor in use (should always)" (`neighbors.c:87`), and, if the row is given to another neighbor, routes over that one without having chosen it. The next DIO of a known neighbor ends it. `KeepsParent` shows that it has no other cause |
| `table`: check `RootRank` | `RootRank` | a mote with a parent that is made root twice takes the rank of its former parent plus the link (`icmpv6rpl.c:376` tests the rank before the role is acted upon), against "if I'm a DAGroot, my DAGrank is always MINHOPRANKINCREASE" (line 375). A root that is made a mote again keeps that rank without a parent and finds none better (the exception of `RankNeedsParent`) |
| `rank_lost` or `root`: check `NoDoubleFree` | `NoDoubleFree` | an ACK that cannot be secured is freed by `activity_ri6` and again by `endSlot` (`IEEE802154E.c:2008`), as `ackToSend` still points to it; the pool reports a critical error |
| `rank_lost`: check `ReserveKept` | `ReserveKept` | the reserve admits one packet of low priority more than the comment says (`openqueue.c:79` and `264`) |
| `root`: check `SpaceLeft` of all `LowPriority(queue)`, or that they are fewer than `QUEUELENGTH` | | a CoAP answer is made in the buffer of its request, which passes by the reserve: all buffers can be of low priority (`opencoap.c:466`) |
| `mac`: `MacDelays = {7}`, `Delays = {9}`, `TaskTimers = {}`, check `NoneOverdue` | `NoneOverdue` | the timer interrupt takes for `lastTimeout` the smallest of the compare values that expired, as numbers (`opentimers.c:365`); if two lie on both sides of the wrap the later one is taken, and a timer between them appears to be a whole clock away |
| `mac`: `ClearsPending = FALSE`, `TaskTimers = {}` | `NotEarly` | the timer interrupt is pending when a radio interrupt re-arms the MAC's timer, for instance `activity_ti5`, which cancels `tt4`; on the CC2538 it is then taken for the new time-out, which is far away (`openmote-cc2538/sctimer.c:50`) |
| `serial`: check `serial.astray = "cut" => ~serial.garbled` | | the start of a radio frame, while the mote is not synchronized, stops the output in the middle of a frame (`IEEE802154E.c:605`); what is left of it in the ring is taken for a frame |
| `serial`: `Timely = FALSE`, `MaxFaults = 0`, the same check | | a slot that begins before the frame is out starts the next one (`openserial_startOutput` without `openserial_stop`, `IEEE802154E.c:907`) |
| `serial`: `MaxFaults = 0`, check `serial.astray = "beyond" => ~serial.garbled` | | after a frame the length of the next is read at `tail+1` whether or not that is in the ring (`openserial.c:541`). The comparison with the level is the wrong way round, "this means enough bytes are present in the buffer" (line 540), so that only a byte from behind the ring can make it true; corrected alone it would bring out that `tx_pkt_len` is set to the type of the frame (line 549), as the mutant of `FramesIntact` shows |
| `serial`: `MaxFaults = 0`, check `NoFrameWaits` without its last premise | | a frame whose `START_FLAG` is in the last byte of the ring is not sent if the byte behind the ring is not smaller than the level (`openserial.c:176`), nor is any frame after it |
| `serial`: `START_FLAG = 6`, a payload of four bytes, `MaxFaults = 0`, check `serial.astray = "length" => ~serial.garbled` | | the host takes the byte after `START_FLAG` for the length, and so also the byte after a length that equals `START_FLAG` (`serial_comm_mote.py:118`): a packet of 124 bytes that `openbridge_receive` or `openudp_receive` prints (`openbridge.c:104`) is misread. The proof of `FramesIntact` brought it out, and that `openserial_printf` refuses no such length |
| `serial`: check `serial.forged = {}` | | a lone zero byte is a command of length 0: its checksum is compared with bytes before the ring, and what was left in the ring by an earlier command is executed (`openserial.c:217`, `240`) |
| `serial`: check `probe.received <= probe.framelength` | | a frame that was cut short before its length makes the host take another byte for it; two `START_FLAG` in a row, or a length already passed, and it waits for ever for `len(inputBuf) == framelength` (`serial_comm_mote.py:126`) |

## 6. What is not modelled

* Time in `MacSlot`: slot lengths, time correction, drift, guard times. The races between timers
  and the radio are kept, as any order of the interrupts. `OpenTimers` counts time, and has no slots.
* Boards whose C promotes 16-bit counter values to a wider `int` before it compares them
  (`samr21_xpro`); `OpenTimers` has the arithmetic of the MSP430 and of the 32-bit counters.
* Contents of packets: headers, options, compression, encryption. Failure of parsing
  or securing is a choice.
* Statistics and logging.
* Boards, boot loaders, FreeRTOS, build files: vendor code and hardware access.
* What two motes say with requests in both directions at once, and `COUNT` and `LIST`, which change no schedule, in `SixP`. A response's sequence number,
  sender and command are left unchecked by the code and by the model.
* Generation and sequence number of a neighbor outlive its row: `removeNeighbor` and `registerNewNeighbor` do not reset them,
  so that a new neighbor inherits those of another. `SixP` has one neighbor.
* A link between two MACs. `isValidAck` does not compare sequence numbers, but a mote waits for an ACK only right after its own frame,
  in a slot its neighbor answers in, so no late ACK arrives.
* OpenHDLC, which openserial no longer calls; OpenCoAP's transactions, the OSCOAP replay window, OpenVisualizer and the Python CoAP library.
* Measurement scripts and their data, but for the thread of `serial_comm_mote.py` that talks to the mote: straight-line programs. That thread ends by itself after ten debug messages.
* `adaptive_sync` is compiled out and `topology` is a static filter used in tests.

## 7. Plan

Done, in order of importance: `Scheduler`; `OpenQueue`, `MacSlot`, `PacketLifecycle` and `MacSlotProofs`;
`OpenTimers`; `Schedule`, `ActiveSlot` and `ActiveSlotProofs`; `SixP` and `SixPProofs`; `RplParent`, `RplMote`, `RplDodag` and their
proofs; `SchedulerProofs`; `OpenSerial`, `SerialLink` and `SerialLinkProofs`.

Next:

1. `CoapTransmitter` (Python), with its retransmissions, and the OSCOAP replay window
   checked against a set of sequence numbers received.
2. `EventBus` and source routes in OpenVisualizer.

Theorems to add: `TypeOK` and `MacOnTime` for `OpenTimers`, for every clock whose constants keep the
order given under Bounds, and the windows in which `NoneOverdue` holds.
