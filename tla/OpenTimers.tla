----------------------------- MODULE OpenTimers -----------------------------
(***************************************************************************)
(* The virtual timers of drivers/common/opentimers.c over the one compare  *)
(* register of a board's sctimer.c.                                        *)
(*                                                                         *)
(* Timer 0 is the MAC's: ieee154e_init creates it first and gives it       *)
(* priority 0; its callbacks always arm it again.  The other timers keep   *)
(* priority 0xff and belong to sixtop, RPL and the applications.  All      *)
(* arithmetic on counter values is modulo CLOCK = 2^PORT_TIMER_WIDTH.      *)
(*                                                                         *)
(* The timer interrupt is one action.  A call from a task is not: nothing  *)
(* masks interrupts in opentimers_scheduleIn, so it is four steps, and the *)
(* timer interrupt, the radio interrupts that re-arm the MAC's timer, and  *)
(* time go on between them.  due[i] is what the caller was promised: the   *)
(* ticks left until timer i expires, negative when it is overdue.          *)
(*                                                                         *)
(* Creating and destroying timers is left out, and a periodic timer is one *)
(* whose callback asks for the same duration again, which is what the      *)
(* interrupt does for it.                                                  *)
(***************************************************************************)
EXTENDS Integers, FiniteSetsExt

CONSTANTS
  NumTimers,                    \* timers created, MAX_NUM_TIMERS at most
  CLOCK,                        \* 2^PORT_TIMER_WIDTH
  TIMERTHRESHOLD,
  TIMERLOOP_THRESHOLD,          \* of sctimer_setCompare: what counts as late
  MINIMUM_COMPAREVALE_ADVANCE,  \* of sctimer_setCompare: what is too soon
  MacDelays,                    \* durations the MAC asks for
  RadioDelays,                  \* those it asks for in radio interrupts
  RadioWindow,                  \* ticks after a time-out in which they come
  Delays,                       \* durations the others ask for
  TaskTimers,                   \* the timers that tasks schedule and cancel
  CallPreempted,                \* FALSE: as if scheduleIn masked interrupts
  ClearsPending,                \* sctimer_setCompare clears the interrupt
  MaxLatency,                   \* ticks an interrupt may have to wait
  MaxOverdue,                   \* bound of due: ticks overdue counted
  WrapAround                    \* FALSE: follow the counter up to its wrap

Timers == 0 .. NumTimers - 1
Mac    == 0
MAX_TICKS_IN_SINGLE_CLOCK == (CLOCK \div 2) - 1

ASSUME OpenTimersAssumption ==
  /\ NumTimers \in Nat \ {0}
  /\ CLOCK \in Nat /\ CLOCK >= 4 /\ CLOCK % 2 = 0
  /\ TIMERTHRESHOLD \in Nat /\ TIMERLOOP_THRESHOLD \in 1 .. CLOCK \div 2
  /\ MINIMUM_COMPAREVALE_ADVANCE \in Nat /\ MaxLatency \in Nat
  /\ MaxOverdue \in Nat /\ MaxOverdue > 2 * MaxLatency + TIMERTHRESHOLD
  /\ MacDelays \subseteq Nat \ {0} /\ MacDelays # {}
  /\ RadioDelays \subseteq Nat \ {0} /\ RadioWindow \in Nat
  /\ Delays \subseteq Nat \ {0}
  /\ TaskTimers \subseteq Timers \ {Mac}
  /\ WrapAround \in BOOLEAN /\ ClearsPending \in BOOLEAN
  /\ CallPreempted \in BOOLEAN

VARIABLES
  counter,         \* the hardware counter
  alarm,           \* the hardware compare register
  pending,         \* the timer interrupt is pending
  waiting,         \* ticks for which it has been
  timersBuf,       \* of each timer what timersBuf[] holds of it
  currentTimeout,  \* what the next interrupt is taken to be for
  lastTimeout,     \* what the last one was for: the origin of all gaps
  task,            \* the call of opentimers_scheduleIn a task is in
  due,             \* Timers -> the ticks left of what was asked for
  races            \* those of Races that have happened

vars == <<counter, alarm, pending, waiting, timersBuf, currentTimeout,
          lastTimeout, task, due, races>>

NoCall == [at |-> "none", arg |-> 0]

(* b - a on the wheel of counter values: the unsigned subtraction of C.    *)
Gap(a, b) == (b - a) % CLOCK

(* The ticks until the counter reaches v, negative if it did so recently.  *)
Until(v) ==
  LET g == Gap(counter, v) IN IF g < CLOCK \div 2 THEN g ELSE g - CLOCK

(* Mutant: larger numbers are taken to be more urgent.                     *)
LargerIsMoreUrgent(i) == IF i = Mac THEN 255 ELSE 0

priority(i) == IF i = Mac THEN 0 ELSE 255

Running(buf) == {i \in Timers : buf[i].isrunning}

-----------------------------------------------------------------------------
(* The parts of opentimers.c and sctimer.c.                                *)

(* Step 2 of opentimers_scheduleIn and opentimers_scheduleAbsolute: the    *)
(* first compare value, a whole number of half clocks before the duration. *)
Armed(timer, duration, reference) ==
  LET wraps == duration \div MAX_TICKS_IN_SINGLE_CLOCK IN
  [timer EXCEPT
     !.total = duration,
     !.wraps = wraps,
     !.compare = (reference + (IF wraps = 0 THEN duration
                               ELSE MAX_TICKS_IN_SINGLE_CLOCK)) % CLOCK,
     !.isrunning = TRUE]

(* Step 3, the next timer to fire: timer 0 is the first candidate, running *)
(* or not, and baseGap what the caller takes its gap to be.                *)
idToSchedule(buf, last, baseGap) ==
  LET gap(i) == IF i = Mac THEN baseGap ELSE Gap(last, buf[i].compare)
      Replaces(i, c) ==
        /\ buf[i].isrunning
        /\ IF gap(i) < gap(c)
           THEN \/ priority(i) <= priority(c)
                \/ gap(c) - gap(i) > TIMERTHRESHOLD
           ELSE /\ priority(i) < priority(c)
                /\ gap(i) - gap(c) < TIMERTHRESHOLD
      candidate[i \in Timers] ==
        IF i = 0 THEN 0
        ELSE IF Replaces(i, candidate[i - 1]) THEN i ELSE candidate[i - 1]
  IN candidate[NumTimers - 1]

(* Mutant: a value that is already past is not recognized.                 *)
TooSoonOnly(val) == Gap(counter, val) < MINIMUM_COMPAREVALE_ADVANCE

(* Mutant: the operands of the subtraction swapped.                        *)
TooLateSwapped(val) == Gap(counter, val) < TIMERLOOP_THRESHOLD

(* sctimer_setCompare: an interrupt right now, or the compare register.    *)
(* Writing TBCCTL2 on the MSP430 boards clears an interrupt that is        *)
(* pending, IntEnable on the CC2538 does not.                              *)
TooLateOrTooSoon(val) ==
  \/ Gap(val, counter) < TIMERLOOP_THRESHOLD
  \/ Gap(counter, val) < MINIMUM_COMPAREVALE_ADVANCE

sctimer_setCompare(val) ==
  /\ pending' = (TooLateOrTooSoon(val) \/ (pending /\ ~ClearsPending))
  /\ waiting' = IF pending /\ pending' THEN waiting ELSE 0
  /\ alarm' = IF TooLateOrTooSoon(val) THEN alarm ELSE val

(* The steps outside the interrupt: choose a timer, set the compare.       *)
Choice(buf) ==
  idToSchedule(buf, lastTimeout, Gap(lastTimeout, buf[Mac].compare))

Schedule(id, buf) ==
  /\ currentTimeout' = buf[id].compare
  /\ sctimer_setCompare(buf[id].compare)

-----------------------------------------------------------------------------
Idle == [isrunning |-> FALSE, hasExpired |-> FALSE, compare |-> 0,
         total |-> 0, wraps |-> 0]

(* opentimers_init; then ieee154e_init creates and arms timer 0, and sixtop*)
(* and RPL theirs, before the first interrupt.                             *)
Init ==
  /\ counter = 0 /\ pending = FALSE /\ waiting = 0
  /\ lastTimeout = 0
  /\ \E first \in [Timers -> MacDelays \cup Delays \cup {0}] :
       /\ \A i \in Timers :
            first[i] \in IF i = Mac THEN MacDelays
                        ELSE IF i \in TaskTimers THEN {0} ELSE Delays
       /\ due = first
       /\ timersBuf =
            [i \in Timers |->
               IF first[i] = 0 THEN Idle ELSE Armed(Idle, first[i], 0)]
  /\ currentTimeout = timersBuf[Choice(timersBuf)].compare
  /\ alarm = currentTimeout
  /\ task = NoCall
  /\ races = {}

(* A pending interrupt is taken before the next step of a task.            *)
InterruptsTaken == CallPreempted \/ task = NoCall
TaskRuns        == ~pending

(* Two things the code does not guard against.  "crossed": an interrupt    *)
(* came after a task had chosen the next timer in opentimers_scheduleIn,   *)
(* and before it had set the compare register.  "remarked": a task armed a *)
(* timer that was marked as expired; the mark stays.                       *)
Races      == {"crossed", "remarked"}
ChoiceMade == task.at \in {"assign", "setCompare"}
Crossed    == IF ChoiceMade THEN races \cup {"crossed"} ELSE races
Uncrossed  == "crossed" \notin races

(* One tick of the counter.  An interrupt waits MaxLatency ticks at most.  *)
Tick ==
  /\ pending => waiting < MaxLatency
  /\ InterruptsTaken
  /\ WrapAround \/ counter < CLOCK - 1
  /\ counter' = (counter + 1) % CLOCK
  /\ pending' = (pending \/ counter' = alarm)
  /\ waiting' = IF pending THEN waiting + 1 ELSE 0
  /\ due' = [i \in Timers |->
               IF timersBuf[i].isrunning
               THEN Max({due[i] - 1, -MaxOverdue}) ELSE 0]
  /\ UNCHANGED <<alarm, timersBuf, currentTimeout, lastTimeout, task, races>>

-----------------------------------------------------------------------------
(* The timer interrupt, opentimers_timer_callback.                         *)

(* 1. the timers that expire with the current time-out                     *)
Expiring ==
  {i \in Running(timersBuf) :
     Gap(timersBuf[i].compare, currentTimeout) <= TIMERTHRESHOLD}

(* the earliest of them: a comparison of numbers, not of times             *)
tempLastTimeout ==
  Min({currentTimeout} \cup {timersBuf[i].compare : i \in Expiring})

(* 2. those of the best priority among all that are marked as expired      *)
Called ==
  LET expired == Expiring \cup {i \in Timers : timersBuf[i].hasExpired} IN
  {i \in expired : \A j \in expired : priority(i) <= priority(j)}

Fired == {i \in Called : timersBuf[i].wraps = 0}

(* a timer that has laps left gets the compare value of its next lap       *)
NextLap(timer) ==
  LET wraps == timer.wraps - 1 IN
  [timer EXCEPT
     !.wraps = wraps,
     !.hasExpired = FALSE,
     !.compare = IF wraps = 0
                 THEN (timer.total + timer.compare) % (CLOCK \div 2)
                 ELSE (timer.compare + MAX_TICKS_IN_SINGLE_CLOCK) % CLOCK]

(* a callback arms its timer again for a duration, or does not (0); the    *)
(* MAC does, from the time-out it was called for                           *)
Callback(timer, i, d) ==
  LET off == [timer EXCEPT !.isrunning = FALSE, !.hasExpired = FALSE] IN
  IF d = 0 THEN off
  ELSE Armed(off, d, IF i = Mac THEN currentTimeout ELSE counter)

Again(i) == IF i = Mac THEN MacDelays ELSE Delays \cup {0}

opentimers_timer_callback ==
  /\ pending /\ InterruptsTaken
  /\ \E again \in [Called -> MacDelays \cup Delays \cup {0}] :
       LET buf  == [i \in Timers |->
                      IF i \in Fired THEN Callback(timersBuf[i], i, again[i])
                      ELSE IF i \in Called THEN NextLap(timersBuf[i])
                      ELSE [timersBuf[i] EXCEPT
                              !.hasExpired = @ \/ i \in Expiring]]
           next == idToSchedule(buf, tempLastTimeout,
                     Gap(tempLastTimeout, buf[Mac].compare
                           + buf[Mac].wraps * MAX_TICKS_IN_SINGLE_CLOCK))
       IN /\ \A i \in Called :
               again[i] \in IF i \in Fired THEN Again(i) ELSE {0}
          /\ timersBuf' = buf
          /\ lastTimeout' = tempLastTimeout
          /\ currentTimeout' = buf[next].compare
          /\ pending' = TooLateOrTooSoon(buf[next].compare)
          /\ alarm' = IF pending' THEN alarm ELSE buf[next].compare
          /\ due' = [i \in Timers |->
                       IF i \notin Fired THEN due[i]
                       ELSE IF i = Mac
                       THEN again[i] + Until(currentTimeout)
                       ELSE again[i]]
  /\ waiting' = 0
  /\ races' = Crossed
  /\ UNCHANGED <<counter, task>>

-----------------------------------------------------------------------------
(* The calls from outside the timer interrupt.                             *)

(* A radio interrupt re-arms the MAC's timer; no interrupt preempts it. A  *)
(* slot has a few of them, and ends: RadioWindow bounds when they come.    *)
opentimers_scheduleAbsolute ==
  /\ InterruptsTaken /\ Gap(lastTimeout, counter) <= RadioWindow
  /\ \E d \in RadioDelays :
       LET buf == [timersBuf EXCEPT ![Mac] = Armed(@, d, counter)] IN
       /\ timersBuf' = buf
       /\ Schedule(Choice(buf), buf)
       /\ due' = [due EXCEPT ![Mac] = d]
  /\ races' = Crossed
  /\ UNCHANGED <<counter, lastTimeout, task>>

(* A task calls opentimers_scheduleIn: it fills in the timer, finds the    *)
(* next one to fire, sets currentTimeout, and sets the compare register.   *)
scheduleIn_update(i) ==
  /\ TaskRuns /\ task = NoCall
  /\ \E d \in Delays :
       /\ timersBuf' = [timersBuf EXCEPT ![i] = Armed(@, d, counter)]
       /\ due' = [due EXCEPT ![i] = d]
  /\ task' = [at |-> "find", arg |-> i]
  /\ races' = IF timersBuf[i].hasExpired THEN races \cup {"remarked"} ELSE races
  /\ UNCHANGED <<counter, alarm, pending, waiting, currentTimeout, lastTimeout>>

scheduleIn_find ==
  /\ task.at = "find" /\ TaskRuns
  /\ task' = [at |-> "assign", arg |-> Choice(timersBuf)]
  /\ UNCHANGED <<counter, alarm, pending, waiting, timersBuf,
                 currentTimeout, lastTimeout, due, races>>

scheduleIn_assign ==
  /\ task.at = "assign" /\ TaskRuns
  /\ currentTimeout' = timersBuf[task.arg].compare
  /\ task' = [at |-> "setCompare", arg |-> currentTimeout']
  /\ UNCHANGED <<counter, alarm, pending, waiting, timersBuf, lastTimeout, due,
                 races>>

scheduleIn_setCompare ==
  /\ task.at = "setCompare" /\ TaskRuns
  /\ sctimer_setCompare(task.arg)
  /\ task' = NoCall
  /\ UNCHANGED <<counter, timersBuf, currentTimeout, lastTimeout, due, races>>

(* A task cancels a timer: neither the mark hasExpired nor the compare     *)
(* register is touched.  The callback becomes NULL.                        *)
opentimers_cancel(i) ==
  /\ TaskRuns /\ task = NoCall
  /\ timersBuf' = [timersBuf EXCEPT ![i].isrunning = FALSE]
  /\ due' = [due EXCEPT ![i] = 0]
  /\ UNCHANGED <<counter, alarm, pending, waiting, currentTimeout,
                 lastTimeout, task, races>>

Next ==
  \/ Tick
  \/ opentimers_timer_callback
  \/ opentimers_scheduleAbsolute
  \/ \E i \in TaskTimers : scheduleIn_update(i) \/ opentimers_cancel(i)
  \/ scheduleIn_find
  \/ scheduleIn_assign
  \/ scheduleIn_setCompare

Spec == Init /\ [][Next]_vars

-----------------------------------------------------------------------------
(* Properties.                                                             *)

CounterValues == 0 .. CLOCK - 1

TypeOK ==
  /\ {counter, alarm, currentTimeout, lastTimeout} \subseteq CounterValues
  /\ pending \in BOOLEAN /\ waiting \in 0 .. MaxLatency
  /\ timersBuf \in [Timers -> [isrunning: BOOLEAN, hasExpired: BOOLEAN,
                               compare: CounterValues, total: Nat, wraps: Nat]]
  /\ races \subseteq Races
  /\ task.at \in {"none", "find", "assign", "setCompare"}
  /\ task.arg \in CounterValues \cup Timers
  /\ due \in [Timers -> Int]

(* The MAC's timer is late by the latency of one interrupt at most: slots  *)
(* and their time-outs wait for no other timer.  The one exception is an   *)
(* interrupt that crosses a call of opentimers_scheduleIn: the call then   *)
(* writes its old choice over what the interrupt scheduled.  That a timer  *)
(* is cancelled or armed again while it is marked does the MAC no harm.    *)
MacOnTime == Uncrossed => due[Mac] >= -MaxLatency

(* Any other timer may be late by more: it may be put behind a MAC timer   *)
(* up to TIMERTHRESHOLD later than itself, and then needs an interrupt of  *)
(* its own.  Holds until the counter wraps, for durations below half a     *)
(* clock, and as long as no call of scheduleIn is interrupted.             *)
NoneOverdue ==
  \A i \in Timers : due[i] >= -(2 * MaxLatency + TIMERTHRESHOLD)

(* The timers the coming interrupt would call back have expired, or would  *)
(* within the advance that the hardware asks for, and a tick for each half *)
(* clock of their duration, which is counted as CLOCK/2 - 1.  The two races*)
(* are the exceptions: an interrupt that crosses a call of scheduleIn is   *)
(* taken for a time-out that is yet to come, and a timer that is armed     *)
(* while it is marked as expired is called by the next interrupt.          *)
InterruptDue == pending /\ InterruptsTaken

NotEarly ==
  InterruptDue /\ races = {} /\ ~ChoiceMade =>
    \A i \in Fired :
      due[i] < Max({MINIMUM_COMPAREVALE_ADVANCE, 1})
                 + timersBuf[i].total \div MAX_TICKS_IN_SINGLE_CLOCK

(* isr_ieee154e_newSlot takes opentimers_getCurrentTimeout() for the start *)
(* of its slot: when the MAC's timer is called, the current time-out is    *)
(* its own, not that of another timer that expires at about the same time. *)
(* Otherwise slots would drift.                                            *)
SlotReference ==
  InterruptDue /\ Mac \in Fired => currentTimeout = timersBuf[Mac].compare

(* A cancelled timer, whose callback is NULL, is not called back.          *)
CancelledIsQuiet ==
  InterruptDue => \A i \in Fired : timersBuf[i].isrunning

=============================================================================
