----------------------------- MODULE Scheduler -----------------------------
(***************************************************************************)
(* The OpenOS task scheduler, kernel/openos/scheduler.c.                   *)
(*                                                                         *)
(* Interrupt handlers (and tasks) post tasks with scheduler_push_task,     *)
(* which runs with interrupts disabled and is therefore one action.  The   *)
(* main loop scheduler_start pops the head of the list with interrupts     *)
(* disabled, runs the callback, and then gives the container back with     *)
(* three separate assignments, interrupts enabled.  Every point of the     *)
(* main loop at which an interrupt can be taken is a value of pc.  The     *)
(* statistics of scheduler_dbg, which nothing reads, are left out.         *)
(*                                                                         *)
(* A "job" is one call of scheduler_push_task; jobs are numbered in the    *)
(* order of the calls, so that an invocation can be told from a later one  *)
(* of the same callback.                                                   *)
(***************************************************************************)
EXTENDS Naturals, Sequences, FiniteSets

CONSTANTS
  TASK_LIST_DEPTH,  \* number of task containers (10 in scheduler.h)
  Prios,            \* the priorities used; TASKPRIO_NONE = 0 is not one
  MaxJobs           \* bound on the calls of scheduler_push_task explored

ProgramPoints ==
  {"test", "run", "free_cb", "free_prio", "free_next", "doze", "sleep"}

ASSUME SchedulerAssumption ==
  /\ TASK_LIST_DEPTH \in Nat \ {0}
  /\ Prios \subseteq Nat \ {0}
  /\ MaxJobs \in Nat

VARIABLES
  taskBuf,      \* container -> [cb, prio]; cb = 0 stands for a NULL cb
  task_list,    \* the linked list as the sequence of its containers
  pThisTask,    \* the container popped last by the main loop, 0 at first
  pc,           \* where the main loop is
  pushed,       \* how many jobs were posted so far
  done,         \* the jobs executed, in the order of their execution
  jobPrio,      \* job -> the priority it was posted with, 0 if not posted
  overflown,    \* no container was free: board_reset() was called
  reused        \* history: a container was reused while it was given back

vars == <<taskBuf, task_list, pThisTask, pc, pushed, done, jobPrio,
          overflown, reused>>

Containers == 1..TASK_LIST_DEPTH
Jobs       == 1..MaxJobs
NoTask     == [cb |-> 0, prio |-> 0]

Init ==
  /\ taskBuf = [c \in Containers |-> NoTask]
  /\ task_list = <<>>
  /\ pThisTask = 0
  /\ pc = "test"
  /\ pushed = 0
  /\ done = <<>>
  /\ jobPrio = [j \in Jobs |-> 0]
  /\ overflown = FALSE
  /\ reused = FALSE

-----------------------------------------------------------------------------
FreeContainers == {c \in Containers : taskBuf[c].cb = 0}

(* Mutant: of equal priorities the newest goes first.                      *)
InsertionPointLifo(p) ==
  Cardinality({i \in DOMAIN task_list :
                 \A k \in 1..i : taskBuf[task_list[k]].prio < p})

(* The walk over the list stops at the first task of a larger priority     *)
(* value, or at the end.                                                   *)
InsertionPoint(p) ==
  Cardinality({i \in DOMAIN task_list :
                 \A k \in 1..i : taskBuf[task_list[k]].prio <= p})

(* Mutant: the next pointer of the new task is not set.                    *)
InsertCut(s, n, c) == SubSeq(s, 1, n) \o <<c>>

InsertAfter(s, n, c) == SubSeq(s, 1, n) \o <<c>> \o SubSeq(s, n + 1, Len(s))

(* The main loop has marked a container free and is not done with it.      *)
Releasing == pc \in {"free_prio", "free_next"}

(* The container is the first free one, the job goes behind all jobs of    *)
(* the same or of a smaller priority value.                                *)
scheduler_push_task(p) ==
  /\ pushed < MaxJobs
  /\ ~overflown
  /\ IF FreeContainers = {}
     THEN /\ overflown' = TRUE
          /\ UNCHANGED <<taskBuf, task_list, pushed, jobPrio, reused>>
     ELSE LET c == CHOOSE f \in FreeContainers :
                     \A g \in FreeContainers : f <= g
          IN /\ taskBuf' = [taskBuf EXCEPT ![c] =
                              [cb |-> pushed + 1, prio |-> p]]
             /\ task_list' = InsertAfter(task_list, InsertionPoint(p), c)
             /\ pushed' = pushed + 1
             /\ jobPrio' = [jobPrio EXCEPT ![pushed + 1] = p]
             /\ reused' = (reused \/ (c = pThisTask /\ Releasing))
             /\ UNCHANGED overflown
  /\ UNCHANGED <<pThisTask, done>>

(* An interrupt posts a task between two statements of the main loop, or   *)
(* the running callback does.  An interrupt ends board_sleep.              *)
Post ==
  \E p \in Prios :
    /\ scheduler_push_task(p)
    /\ pc' = IF pc = "sleep" THEN "test" ELSE pc

(* Mutant: only an interrupt that posts a task ends the sleep.             *)
WakeupNever ==
  /\ pc = "sleep" /\ ~overflown
  /\ UNCHANGED vars

(* Any other interrupt, such as the next slot timer, also ends the sleep.  *)
Wakeup ==
  /\ pc = "sleep" /\ ~overflown
  /\ pc' = "test"
  /\ UNCHANGED <<taskBuf, task_list, pThisTask, pushed, done,
                 jobPrio, overflown, reused>>

(* while(task_list!=NULL): the test is made with interrupts enabled, so a  *)
(* task posted between the test and board_sleep() does not keep the board  *)
(* awake.                                                                  *)
FindNoTask ==
  /\ pc = "test" /\ task_list = <<>> /\ ~overflown
  /\ pc' = "doze"
  /\ UNCHANGED <<taskBuf, task_list, pThisTask, pushed, done,
                 jobPrio, overflown, reused>>

GoToSleep ==
  /\ pc = "doze" /\ ~overflown
  /\ pc' = "sleep"
  /\ UNCHANGED <<taskBuf, task_list, pThisTask, pushed, done,
                 jobPrio, overflown, reused>>

(* Mutant: the task stays at the head of the list.                         *)
PopTaskLinked ==
  /\ pc = "test" /\ task_list # <<>> /\ ~overflown
  /\ pThisTask' = Head(task_list)
  /\ pc' = "run"
  /\ UNCHANGED <<taskBuf, task_list, pushed, done, jobPrio, overflown, reused>>

PopTask ==
  /\ pc = "test" /\ task_list # <<>> /\ ~overflown
  /\ pThisTask' = Head(task_list)
  /\ task_list' = Tail(task_list)
  /\ pc' = "run"
  /\ UNCHANGED <<taskBuf, pushed, done, jobPrio, overflown, reused>>

(* The callback returns.                                                   *)
RunTask ==
  /\ pc = "run" /\ ~overflown
  /\ done' = Append(done, taskBuf[pThisTask].cb)
  /\ pc' = "free_cb"
  /\ UNCHANGED <<taskBuf, task_list, pThisTask, pushed, jobPrio,
                 overflown, reused>>

(* Mutant: the container is not marked free.                               *)
FreeCbForgotten ==
  /\ pc = "free_cb" /\ ~overflown
  /\ pc' = "free_prio"
  /\ UNCHANGED <<taskBuf, task_list, pThisTask, pushed, done, jobPrio,
                 overflown, reused>>

FreeCb ==
  /\ pc = "free_cb" /\ ~overflown
  /\ taskBuf' = [taskBuf EXCEPT ![pThisTask].cb = 0]
  /\ pc' = "free_prio"
  /\ UNCHANGED <<task_list, pThisTask, pushed, done, jobPrio,
                 overflown, reused>>

FreePrio ==
  /\ pc = "free_prio" /\ ~overflown
  /\ taskBuf' = [taskBuf EXCEPT ![pThisTask].prio = 0]
  /\ pc' = "free_next"
  /\ UNCHANGED <<task_list, pThisTask, pushed, done, jobPrio,
                 overflown, reused>>

(* next = NULL: if the container is in the list again, the list now ends   *)
(* with it.                                                                *)
CutAfter(s, c) ==
  IF \E i \in DOMAIN s : s[i] = c
  THEN SubSeq(s, 1, CHOOSE i \in DOMAIN s : s[i] = c)
  ELSE s

FreeNext ==
  /\ pc = "free_next" /\ ~overflown
  /\ task_list' = CutAfter(task_list, pThisTask)
  /\ pc' = "test"
  /\ UNCHANGED <<taskBuf, pThisTask, pushed, done, jobPrio,
                 overflown, reused>>

(* board_reset(): the firmware starts again.  The jobs that were lost are  *)
(* forgotten with everything else.                                         *)
board_reset ==
  /\ overflown
  /\ taskBuf' = [c \in Containers |-> NoTask]
  /\ task_list' = <<>>
  /\ pThisTask' = 0
  /\ pc' = "test"
  /\ pushed' = 0
  /\ done' = <<>>
  /\ jobPrio' = [j \in Jobs |-> 0]
  /\ overflown' = FALSE
  /\ reused' = FALSE

scheduler_start ==
  \/ FindNoTask \/ GoToSleep \/ PopTask \/ RunTask
  \/ FreeCb \/ FreePrio \/ FreeNext

Next == scheduler_start \/ Post \/ Wakeup \/ board_reset

Spec == Init /\ [][Next]_vars

(* The main loop always goes on, the slot timer always interrupts again,   *)
(* and a reset board restarts.  Nothing forces a task to be posted.        *)
FairSpec ==
  Spec /\ WF_vars(scheduler_start) /\ WF_vars(Wakeup) /\ WF_vars(board_reset)

-----------------------------------------------------------------------------
(* The properties.                                                         *)
-----------------------------------------------------------------------------
Listed == {task_list[i] : i \in DOMAIN task_list}

(* The types of the variables.                                             *)
TypeOK ==
  /\ taskBuf \in [Containers -> [cb : Jobs \cup {0}, prio : Prios \cup {0}]]
  /\ task_list \in Seq(Containers)
  /\ pThisTask \in Containers \cup {0}
  /\ pc \in ProgramPoints
  /\ pushed \in 0..MaxJobs
  /\ done \in Seq(Jobs)
  /\ jobPrio \in [Jobs -> Prios \cup {0}]
  /\ {overflown, reused} \subseteq BOOLEAN

(* scheduler_push_task links a container it found free, and the main loop  *)
(* unlinks before it frees: whatever the interrupts do, no container is    *)
(* linked twice, every linked one has a callback, and the running one is   *)
(* not linked.                                                             *)
ListSound ==
  /\ \A i, k \in DOMAIN task_list : i # k => task_list[i] # task_list[k]
  /\ \A c \in Listed : taskBuf[c].cb # 0
  /\ pc \in {"run", "free_cb"} =>
       /\ taskBuf[pThisTask].cb # 0
       /\ pThisTask \notin Listed

(* A posted job is executed at most once: the containers never hold the    *)
(* same job twice, and no container still to be run holds an executed one. *)
AtMostOnce ==
  /\ \A i, k \in DOMAIN done : i # k => done[i] # done[k]
  /\ \A c \in Listed, i \in DOMAIN done : taskBuf[c].cb # done[i]
  /\ \A c, d \in Listed : c # d => taskBuf[c].cb # taskBuf[d].cb

Executed == {done[i] : i \in DOMAIN done}
Running  == IF pc = "run" THEN {taskBuf[pThisTask].cb} ELSE {}
Waiting  == {taskBuf[c].cb : c \in Listed}

(* Every job posted was executed, is running or is linked in the list:     *)
(* giving a container back does not unlink the jobs behind it.             *)
JobsKept == 1..pushed = Executed \cup Running \cup Waiting

(* A job is only ever lost by the reuse of a container that is being given *)
(* back; whatever else interrupts do between the statements of the main    *)
(* loop, also posting tasks during the release, loses none.                *)
NoJobLost == ~reused => JobsKept

(* Every container is free, linked, or the one the main loop works on: a   *)
(* container is not lost for scheduler_push_task when its task is over.    *)
(* Only the jobs that a reuse cuts off take their containers with them.    *)
NoContainerLost ==
  \A c \in Containers :
    \/ taskBuf[c].cb = 0 \/ c \in Listed \/ reused
    \/ c = pThisTask /\ pc \in {"run", "free_cb"}

(* The main loop runs the most urgent job: of the jobs waiting when a task *)
(* is popped, none has a smaller priority value, and none of the same      *)
(* priority was posted earlier (the list is FIFO within a priority).  The  *)
(* reuse of a container can also wipe out the priority of a job.           *)
PopsMostUrgent ==
  [][PopTask /\ ~reused =>
       LET j == taskBuf[pThisTask'].cb
       IN \A k \in Waiting \ {j} :
            \/ jobPrio[j] < jobPrio[k]
            \/ jobPrio[j] = jobPrio[k] /\ j < k]_vars

(* A job that was posted is executed in the end, also if it was posted     *)
(* between the test for an empty list and board_sleep, unless the board    *)
(* resets or a container is reused while it is given back.                 *)
EveryJobRuns ==
  \A j \in Jobs : (pushed >= j) ~> (j \in Executed \/ overflown \/ reused)
=============================================================================
