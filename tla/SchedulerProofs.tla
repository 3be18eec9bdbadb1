-------------------------- MODULE SchedulerProofs --------------------------
(***************************************************************************)
(* Proofs about Scheduler, for every number of containers, every set of    *)
(* priorities and every number of jobs: what interrupts that post tasks    *)
(* between the statements of the main loop can and cannot break.           *)
(*                                                                         *)
(* The inductive invariant has two halves.  Sound holds whatever happens.  *)
(* Kept holds as long as no container is reused while it is given back.    *)
(***************************************************************************)
EXTENDS Scheduler, FiniteSetTheorems, SequenceTheorems, WellFoundedInduction,
        TLAPS

(* The main loop has a container in its hands.                             *)
Holding == pc \in {"run", "free_cb", "free_prio", "free_next"} =>
             pThisTask \in Containers

(* The jobs in the containers are different ones, all posted before.       *)
JobsDiffer ==
  /\ \A c \in Containers : taskBuf[c].cb <= pushed
  /\ \A c, d \in Containers :
       taskBuf[c].cb # 0 /\ taskBuf[c].cb = taskBuf[d].cb => c = d

(* Each job executed was posted, and is in no container any more, except   *)
(* for the one the main loop is about to mark free.                        *)
JobsOver ==
  /\ \A i, k \in DOMAIN done : i # k => done[i] # done[k]
  /\ \A i \in DOMAIN done : done[i] <= pushed
  /\ \A i \in DOMAIN done : \A c \in Containers :
       taskBuf[c].cb = done[i] => c = pThisTask /\ pc = "free_cb"

Sound == TypeOK /\ ListSound /\ Holding /\ JobsDiffer /\ JobsOver

(* The container being given back is not in the list.                      *)
Unlinked == Releasing => pThisTask \notin Listed

(* The list is sorted by priority, and by age within a priority.           *)
Before(buf, b, c) ==
  \/ buf[b].prio < buf[c].prio
  \/ buf[b].prio = buf[c].prio /\ buf[b].cb < buf[c].cb

Sorted ==
  /\ \A c \in Listed : taskBuf[c].prio = jobPrio[taskBuf[c].cb]
  /\ \A i, k \in DOMAIN task_list : i < k =>
       Before(taskBuf, task_list[i], task_list[k])

(* Every container is free, linked, or in the hands of the main loop.      *)
NoneAstray ==
  \A c \in Containers :
    \/ taskBuf[c].cb = 0 \/ c \in Listed
    \/ c = pThisTask /\ pc \in {"run", "free_cb"}

Kept == ~reused => Unlinked /\ Sorted /\ NoneAstray /\ JobsKept

IInv == Sound /\ Kept

-----------------------------------------------------------------------------
(* The list.                                                               *)
-----------------------------------------------------------------------------

(* A set of naturals that is not empty has a least element.                *)
LEMMA LeastFound ==
  ASSUME NEW S, S \subseteq Nat, S # {}
  PROVE  \E m \in S : \A r \in S : m <= r
<1>1. PICK p \in S : \A r \in S : <<r, p>> \notin OpToRel(<, Nat)
  BY WFMin, NatLessThanWellFounded
<1>2. \A r \in S : ~(r < p)
  BY <1>1 DEF OpToRel
<1>. QED
  BY <1>2

(* Jobs and priorities are numbers; those executed are not 0.              *)
LEMMA Numbers ==
  ASSUME TypeOK
  PROVE  /\ \A c \in Containers : taskBuf[c].cb \in Nat /\ taskBuf[c].prio \in Nat
         /\ \A i \in DOMAIN done : done[i] \in Nat \ {0}
         /\ \A p \in Prios : p \in Nat \ {0}
<1>1. \A j \in Jobs : j \in Nat \ {0}
  BY SchedulerAssumption DEF Jobs
<1>2. \A p \in Prios : p \in Nat \ {0}
  BY SchedulerAssumption
<1>3. \A c \in Containers : taskBuf[c] \in [cb : Jobs \cup {0}, prio : Prios \cup {0}]
  BY DEF TypeOK
<1>4. \A c \in Containers : taskBuf[c].cb \in Jobs \cup {0}
                           /\ taskBuf[c].prio \in Prios \cup {0}
  BY <1>3
<1>5. \A i \in DOMAIN done : done[i] \in Jobs
  BY DEF TypeOK
<1>. QED
  BY <1>1, <1>2, <1>4, <1>5

(* The walk over the list stops behind the last of the containers it       *)
(* passed over, all of which have at most the priority of the new task;    *)
(* the container it stops at has a larger one.                             *)
LEMMA WalkStops ==
  ASSUME TypeOK, NEW p \in Prios
  PROVE  LET n == InsertionPoint(p) IN
           /\ n \in 0..Len(task_list)
           /\ \A k \in 1..n : taskBuf[task_list[k]].prio <= p
           /\ n < Len(task_list) => taskBuf[task_list[n + 1]].prio > p
<1>. DEFINE L == Len(task_list)
            small(k) == taskBuf[task_list[k]].prio <= p
            passed == {i \in DOMAIN task_list : \A k \in 1..i : small(k)}
            stops == {i \in 1..(L + 1) : i = L + 1 \/ ~small(i)}
<1>1. L \in Nat /\ DOMAIN task_list = 1..L
  BY DEF TypeOK
<1>2. \A k \in 1..L : taskBuf[task_list[k]].prio \in Nat
  <2>1. \A k \in 1..L : task_list[k] \in Containers
    BY <1>1 DEF TypeOK
  <2>. QED
    BY <2>1, Numbers
<1>3. stops \subseteq Nat /\ L + 1 \in stops
  BY <1>1
<1>4. PICK m \in stops : \A r \in stops : m <= r
  BY <1>3, LeastFound
<1>5. m \in 1..(L + 1) /\ m - 1 \in 0..L
  BY <1>1, <1>4
<1>6. \A k \in 1..(m - 1) : small(k)
  <2>1. ASSUME NEW k \in 1..(m - 1) PROVE small(k)
    <3>1. k \notin stops
      BY <1>1, <1>4, <1>5
    <3>. QED
      BY <1>1, <1>5, <3>1
  <2>. QED
    BY <2>1
<1>7. m - 1 < L => ~small(m)
  BY <1>1, <1>4, <1>5
<1>8. passed = 1..(m - 1)
  <2>1. ASSUME NEW i \in passed PROVE i \in 1..(m - 1)
    <3>1. i \in 1..L /\ \A k \in 1..i : small(k)
      BY <1>1
    <3>2. CASE m <= i
      BY <1>1, <1>5, <1>7, <3>1, <3>2
    <3>. QED
      BY <1>1, <1>5, <3>1, <3>2
  <2>2. ASSUME NEW i \in 1..(m - 1) PROVE i \in passed
    <3>1. i \in DOMAIN task_list
      BY <1>1, <1>5
    <3>2. \A k \in 1..i : k \in 1..(m - 1)
      BY <1>1, <1>5
    <3>. QED
      BY <1>6, <3>1, <3>2
  <2>. QED
    BY <2>1, <2>2
<1>9. Cardinality(1..(m - 1)) = m - 1
  <2>1. 1 \in Int /\ m - 1 \in Int
    BY <1>5
  <2>. QED
    BY <1>5, <2>1, FS_Interval
<1>10. InsertionPoint(p) = m - 1
  BY <1>8, <1>9 DEF InsertionPoint
<1>11. \A k \in 1..(m - 1) : taskBuf[task_list[k]].prio <= p
  BY <1>6
<1>12. m - 1 < L => taskBuf[task_list[m]].prio > p
  <2>1. CASE m - 1 < L
    <3>1. m \in 1..L /\ taskBuf[task_list[m]].prio \in Nat
      BY <1>1, <1>2, <1>5, <2>1
    <3>2. ~(taskBuf[task_list[m]].prio <= p)
      BY <1>7, <2>1
    <3>3. p \in Nat
      BY SchedulerAssumption
    <3>. QED
      BY <3>1, <3>2, <3>3
  <2>. QED
    BY <2>1
<1>. QED
  BY <1>1, <1>5, <1>10, <1>11, <1>12

(* Linking a container in: those in front stay, those behind move by one.  *)
LEMMA Linked ==
  ASSUME NEW s \in Seq(Containers), NEW n \in 0..Len(s), NEW c \in Containers
  PROVE  /\ InsertAfter(s, n, c) \in Seq(Containers)
         /\ DOMAIN InsertAfter(s, n, c) = 1..(Len(s) + 1)
         /\ \A i \in 1..n : InsertAfter(s, n, c)[i] = s[i]
         /\ InsertAfter(s, n, c)[n + 1] = c
         /\ \A i \in (n + 2)..(Len(s) + 1) : InsertAfter(s, n, c)[i] = s[i - 1]
<1>. DEFINE front == SubSeq(s, 1, n)
            back == SubSeq(s, n + 1, Len(s))
<1>1. front \in Seq(Containers) /\ Len(front) = n
      /\ \A i \in 1..n : front[i] = s[i]
  BY SubSeqProperties
<1>2. back \in Seq(Containers) /\ Len(back) = Len(s) - n
      /\ \A i \in 1..(Len(s) - n) : back[i] = s[n + i]
  BY SubSeqProperties
<1>3. InsertAfter(s, n, c) = (front \o <<c>>) \o back
  BY DEF InsertAfter
<1>. HIDE DEF front, back
<1>. DEFINE upto == front \o <<c>>
<1>4. upto \in Seq(Containers) /\ Len(upto) = n + 1
      /\ (\A i \in 1..n : upto[i] = s[i]) /\ upto[n + 1] = c
  <2>1. upto = Append(front, c)
    BY <1>1, AppendIsConcat
  <2>. QED
    BY <1>1, <2>1, AppendProperties
<1>5. InsertAfter(s, n, c) = upto \o back
  BY <1>3
<1>. HIDE DEF upto
<1>. DEFINE t == upto \o back
<1>6. /\ t \in Seq(Containers)
      /\ Len(t) = Len(upto) + Len(back)
      /\ \A i \in 1..(Len(upto) + Len(back)) :
           t[i] = IF i <= Len(upto) THEN upto[i] ELSE back[i - Len(upto)]
  BY <1>2, <1>4, ConcatProperties
<1>. HIDE DEF t
<1>7. n \in Nat /\ Len(s) \in Nat /\ n <= Len(s)
  OBVIOUS
<1>8. DOMAIN t = 1..(Len(s) + 1)
  <2>1. Len(t) = Len(s) + 1
    BY <1>2, <1>4, <1>6, <1>7
  <2>. QED
    BY <1>6, <2>1
<1>9. ASSUME NEW i \in (n + 2)..(Len(s) + 1) PROVE t[i] = s[i - 1]
  <2>1. t[i] = back[i - (n + 1)]
    BY <1>2, <1>4, <1>6, <1>7
  <2>2. i - (n + 1) \in 1..(Len(s) - n) /\ n + (i - (n + 1)) = i - 1
    BY <1>7
  <2>. QED
    BY <1>2, <2>1, <2>2
<1>10. ASSUME NEW i \in 1..(n + 1) PROVE t[i] = upto[i]
  <2>1. i \in 1..(Len(upto) + Len(back)) /\ i <= Len(upto)
    BY <1>2, <1>4, <1>7
  <2>. QED
    BY <1>6, <2>1
<1>11. t[n + 1] = c /\ \A i \in 1..n : t[i] = s[i]
  BY <1>4, <1>7, <1>10
<1>. QED
  BY <1>5, <1>6, <1>8, <1>9, <1>11 DEF t

(* The task list with another container linked in.                         *)
LEMMA ListGrows ==
  ASSUME TypeOK, NEW n \in 0..Len(task_list), NEW c \in Containers,
         task_list' = InsertAfter(task_list, n, c)
  PROVE  /\ task_list' \in Seq(Containers)
         /\ DOMAIN task_list' = 1..(Len(task_list) + 1)
         /\ \A i \in 1..n : task_list'[i] = task_list[i]
         /\ task_list'[n + 1] = c
         /\ \A i \in (n + 2)..(Len(task_list) + 1) : task_list'[i] = task_list[i - 1]
         /\ Listed' = Listed \cup {c}
<1>. DEFINE t == InsertAfter(task_list, n, c)
<1>0. task_list \in Seq(Containers)
  BY DEF TypeOK
<1>1. /\ t \in Seq(Containers)
      /\ DOMAIN t = 1..(Len(task_list) + 1)
      /\ \A i \in 1..n : t[i] = task_list[i]
      /\ t[n + 1] = c
      /\ \A i \in (n + 2)..(Len(task_list) + 1) : t[i] = task_list[i - 1]
  BY <1>0, Linked
<1>2. DOMAIN task_list = 1..Len(task_list) /\ Len(task_list) \in Nat
      /\ n \in Nat /\ n <= Len(task_list)
  BY <1>0
<1>3. task_list' = t
  OBVIOUS
<1>. HIDE DEF t
<1>4. ASSUME NEW i \in DOMAIN t PROVE t[i] \in Listed \cup {c}
  <2>1. CASE i <= n
    BY <1>1, <1>2, <2>1 DEF Listed
  <2>2. CASE i = n + 1
    BY <1>1, <2>2
  <2>3. CASE i > n + 1
    <3>1. i - 1 \in DOMAIN task_list /\ t[i] = task_list[i - 1]
      BY <1>1, <1>2, <2>3
    <3>. QED
      BY <3>1 DEF Listed
  <2>. QED
    BY <1>1, <1>2, <2>1, <2>2, <2>3
<1>5. ASSUME NEW k \in DOMAIN task_list PROVE \E i \in DOMAIN t : t[i] = task_list[k]
  <2>1. CASE k <= n
    BY <1>1, <1>2, <2>1
  <2>2. CASE k > n
    <3>1. k + 1 \in DOMAIN t /\ t[k + 1] = task_list[(k + 1) - 1] /\ (k + 1) - 1 = k
      BY <1>1, <1>2, <2>2
    <3>. QED
      BY <3>1
  <2>. QED
    BY <1>2, <2>1, <2>2
<1>6. \E i \in DOMAIN t : t[i] = c
  BY <1>1, <1>2
<1>7. Listed' = Listed \cup {c}
  BY <1>3, <1>4, <1>5, <1>6 DEF Listed
<1>. QED
  BY <1>1, <1>3, <1>7

(* A cut leaves the front of the list.                                     *)
LEMMA Cut ==
  ASSUME NEW s \in Seq(Containers), NEW c \in Containers
  PROVE  LET t == CutAfter(s, c) IN
           /\ t \in Seq(Containers)
           /\ DOMAIN t \subseteq DOMAIN s
           /\ \A i \in DOMAIN t : t[i] = s[i]
           /\ (\A i \in DOMAIN s : s[i] # c) => t = s
<1>1. CASE \E i \in DOMAIN s : s[i] = c
  <2>. DEFINE n == CHOOSE i \in DOMAIN s : s[i] = c
  <2>1. n \in 1..Len(s)
    BY <1>1
  <2>2. CutAfter(s, c) = SubSeq(s, 1, n)
    BY <1>1 DEF CutAfter
  <2>. HIDE DEF n
  <2>. QED
    BY <1>1, <2>1, <2>2, SubSeqProperties
<1>2. CASE ~ \E i \in DOMAIN s : s[i] = c
  BY <1>2 DEF CutAfter
<1>. QED
  BY <1>1, <1>2

-----------------------------------------------------------------------------
(* Posting a task.                                                         *)
-----------------------------------------------------------------------------

(* The board is about to reset, or the task is in a container that was     *)
(* free, at its place in the list.                                         *)
LEMMA Posted ==
  ASSUME TypeOK, NEW p \in Prios, scheduler_push_task(p)
  PROVE  \/ overflown' = TRUE /\ UNCHANGED <<taskBuf, task_list, pushed, jobPrio, reused>>
         \/ \E c \in FreeContainers, n \in 0..Len(task_list) :
              /\ \A k \in 1..n : taskBuf[task_list[k]].prio <= p
              /\ n < Len(task_list) => taskBuf[task_list[n + 1]].prio > p
              /\ taskBuf' = [taskBuf EXCEPT ![c] = [cb |-> pushed + 1, prio |-> p]]
              /\ task_list' = InsertAfter(task_list, n, c)
              /\ pushed' = pushed + 1
              /\ pushed' \in Jobs
              /\ jobPrio' = [jobPrio EXCEPT ![pushed + 1] = p]
              /\ reused' = (reused \/ (c = pThisTask /\ Releasing))
              /\ UNCHANGED overflown
<1>1. CASE FreeContainers = {}
  BY <1>1 DEF scheduler_push_task
<1>2. CASE FreeContainers # {}
  <2>. DEFINE c == CHOOSE f \in FreeContainers : \A g \in FreeContainers : f <= g
  <2>1. FreeContainers \subseteq Nat
    BY SchedulerAssumption DEF FreeContainers, Containers
  <2>2. \E f \in FreeContainers : \A g \in FreeContainers : f <= g
    BY <1>2, <2>1, LeastFound
  <2>3. c \in FreeContainers
    BY <2>2
  <2>4. pushed < MaxJobs /\ pushed \in Nat /\ MaxJobs \in Nat
    BY SchedulerAssumption DEF scheduler_push_task, TypeOK
  <2>5. pushed + 1 \in Jobs
    BY <2>4 DEF Jobs
  <2>. HIDE DEF c
  <2>6. /\ taskBuf' = [taskBuf EXCEPT ![c] = [cb |-> pushed + 1, prio |-> p]]
        /\ task_list' = InsertAfter(task_list, InsertionPoint(p), c)
        /\ pushed' = pushed + 1
        /\ jobPrio' = [jobPrio EXCEPT ![pushed + 1] = p]
        /\ reused' = (reused \/ (c = pThisTask /\ Releasing))
        /\ UNCHANGED overflown
    BY <1>2 DEF scheduler_push_task, c
  <2>. DEFINE n == InsertionPoint(p)
  <2>7. /\ n \in 0..Len(task_list)
        /\ \A k \in 1..n : taskBuf[task_list[k]].prio <= p
        /\ n < Len(task_list) => taskBuf[task_list[n + 1]].prio > p
    BY WalkStops
  <2>8. task_list' = InsertAfter(task_list, n, c)
    BY <2>6
  <2>. HIDE DEF n
  <2>. QED
    BY <2>3, <2>5, <2>6, <2>7, <2>8
<1>. QED
  BY <1>1, <1>2

(* What posting does to the list, in the terms of the invariant.           *)
LEMMA PostSound ==
  ASSUME Sound, Post
  PROVE  Sound'
<1>1. PICK p \in Prios :
        /\ scheduler_push_task(p)
        /\ pc' = IF pc = "sleep" THEN "test" ELSE pc
  BY DEF Post
<1>2. UNCHANGED <<pThisTask, done>> /\ pc' \in ProgramPoints
      /\ (pc' \in {"run", "free_cb", "free_prio", "free_next"} => pc' = pc)
      /\ (pc = "free_cb" => pc' = pc)
  BY <1>1 DEF scheduler_push_task, Sound, TypeOK, ProgramPoints
<1>3. CASE overflown' = TRUE /\ UNCHANGED <<taskBuf, task_list, pushed, jobPrio, reused>>
  <2>1. TypeOK'
    BY <1>2, <1>3 DEF Sound, TypeOK
  <2>2. ListSound' /\ Holding' /\ JobsDiffer' /\ JobsOver'
    BY <1>2, <1>3 DEF Sound, ListSound, Listed, Holding, JobsDiffer, JobsOver
  <2>. QED
    BY <2>1, <2>2 DEF Sound
<1>4. ASSUME NEW c \in FreeContainers, NEW n \in 0..Len(task_list),
             \A k \in 1..n : taskBuf[task_list[k]].prio <= p,
             n < Len(task_list) => taskBuf[task_list[n + 1]].prio > p,
             taskBuf' = [taskBuf EXCEPT ![c] = [cb |-> pushed + 1, prio |-> p]],
             task_list' = InsertAfter(task_list, n, c),
             pushed' = pushed + 1, pushed' \in Jobs,
             jobPrio' = [jobPrio EXCEPT ![pushed + 1] = p],
             reused' = (reused \/ (c = pThisTask /\ Releasing)),
             UNCHANGED overflown
      PROVE  Sound'
  <2>0. n \in Nat /\ Len(task_list) \in Nat /\ n <= Len(task_list)
    BY DEF Sound, TypeOK
  <2>1. task_list \in Seq(Containers) /\ c \in Containers /\ taskBuf[c].cb = 0
    BY DEF Sound, TypeOK, FreeContainers
  <2>2. /\ task_list' \in Seq(Containers)
        /\ DOMAIN task_list' = 1..(Len(task_list) + 1)
        /\ \A i \in 1..n : task_list'[i] = task_list[i]
        /\ task_list'[n + 1] = c
        /\ \A i \in (n + 2)..(Len(task_list) + 1) : task_list'[i] = task_list[i - 1]
    BY <1>4, <2>1, ListGrows DEF IInv, Sound
  <2>3. Listed' = Listed \cup {c}
    BY <1>4, <2>1, ListGrows DEF IInv, Sound
  <2>4. c \notin Listed
    BY <2>1 DEF Sound, ListSound
  <2>5. taskBuf'[c] = [cb |-> pushed + 1, prio |-> p]
        /\ \A d \in Containers \ {c} : taskBuf'[d] = taskBuf[d]
    BY <1>4, <2>1 DEF Sound, TypeOK
  <2>6. pushed \in Nat /\ Listed \subseteq Containers
    BY <2>1, SchedulerAssumption DEF Sound, TypeOK, Listed
  <2>7. TypeOK'
    <3>1. taskBuf' \in [Containers -> [cb : Jobs \cup {0}, prio : Prios \cup {0}]]
      BY <1>4, <2>1 DEF Sound, TypeOK
    <3>2. jobPrio' \in [Jobs -> Prios \cup {0}]
      BY <1>4 DEF Sound, TypeOK
    <3>3. pushed' \in 0..MaxJobs
      BY <1>4 DEF Jobs
    <3>4. {overflown', reused'} \subseteq BOOLEAN
      BY <1>4 DEF Sound, TypeOK
    <3>. QED
      BY <1>2, <2>2, <3>1, <3>2, <3>3, <3>4 DEF Sound, TypeOK
  <2>8. ListSound'
    <3>1. ASSUME NEW i \in DOMAIN task_list', NEW k \in DOMAIN task_list', i # k
          PROVE  task_list'[i] # task_list'[k]
      <4>. DEFINE old(x) == IF x <= n THEN x ELSE x - 1
      <4>1. \A x \in DOMAIN task_list' : x # n + 1 =>
              /\ old(x) \in DOMAIN task_list
              /\ task_list'[x] = task_list[old(x)]
        BY <2>0, <2>1, <2>2
      <4>2. \A x \in DOMAIN task_list : task_list[x] # c
        BY <2>4 DEF Listed
      <4>3. CASE i = n + 1 \/ k = n + 1
        BY <2>2, <3>1, <4>1, <4>2, <4>3
      <4>4. CASE i # n + 1 /\ k # n + 1
        <5>1. old(i) # old(k)
          BY <2>0, <2>1, <2>2, <3>1, <4>4
        <5>. HIDE DEF old
        <5>. QED
          BY <4>1, <4>4, <5>1 DEF Sound, ListSound
      <4>. QED
        BY <4>3, <4>4
    <3>2. ASSUME NEW d \in Listed' PROVE taskBuf'[d].cb # 0
      BY <2>3, <2>5, <2>6 DEF Sound, ListSound
    <3>3. ASSUME pc' \in {"run", "free_cb"}
          PROVE  taskBuf'[pThisTask'].cb # 0 /\ pThisTask' \notin Listed'
      <4>1. taskBuf[pThisTask].cb # 0 /\ pThisTask \notin Listed /\ pThisTask \in Containers
        BY <1>2, <3>3 DEF Sound, ListSound, Holding
      <4>2. pThisTask # c
        BY <2>1, <4>1
      <4>. QED
        BY <1>2, <2>3, <2>5, <4>1, <4>2
    <3>. QED
      BY <3>1, <3>2, <3>3 DEF ListSound
  <2>9. Holding'
    BY <1>2 DEF Sound, Holding
  <2>10. JobsDiffer'
    <3>1. \A d \in Containers : taskBuf[d].cb \in Nat /\ taskBuf[d].cb <= pushed
      BY SchedulerAssumption DEF Sound, JobsDiffer, TypeOK, Jobs
    <3>2. \A d \in Containers : taskBuf'[d].cb <= pushed'
      BY <1>4, <2>5, <2>6, <3>1
    <3>3. ASSUME NEW d \in Containers, NEW e \in Containers,
                 taskBuf'[d].cb # 0, taskBuf'[d].cb = taskBuf'[e].cb
          PROVE  d = e
      BY <2>5, <2>6, <3>1, <3>3 DEF Sound, JobsDiffer
    <3>. QED
      BY <3>2, <3>3 DEF JobsDiffer
  <2>11. JobsOver'
    <3>1. \A i \in DOMAIN done : done[i] \in Nat /\ done[i] <= pushed
      BY SchedulerAssumption DEF Sound, JobsOver, TypeOK, Jobs
    <3>2. \A i \in DOMAIN done' : done'[i] <= pushed'
      BY <1>2, <1>4, <2>6, <3>1
    <3>3. ASSUME NEW i \in DOMAIN done', NEW d \in Containers,
                 taskBuf'[d].cb = done'[i]
          PROVE  d = pThisTask' /\ pc' = "free_cb"
      <4>1. d # c
        BY <1>2, <2>5, <2>6, <3>1, <3>3
      <4>. QED
        BY <1>2, <2>5, <3>3, <4>1 DEF Sound, JobsOver
    <3>. QED
      BY <1>2, <3>2, <3>3 DEF Sound, JobsOver
  <2>. QED
    BY <2>7, <2>8, <2>9, <2>10, <2>11 DEF Sound
<1>. QED
  BY <1>1, <1>3, <1>4, Posted DEF Sound

(* Unless it reuses the container being given back, posting a task keeps   *)
(* every job and every container, and the order of the list.               *)
LEMMA PostKept ==
  ASSUME IInv, Post
  PROVE  Kept'
<1>. SUFFICES ASSUME ~reused'
              PROVE  Unlinked' /\ Sorted' /\ NoneAstray' /\ JobsKept'
  BY DEF Kept
<1>1. PICK p \in Prios :
        /\ scheduler_push_task(p)
        /\ pc' = IF pc = "sleep" THEN "test" ELSE pc
  BY DEF Post
<1>2. UNCHANGED <<pThisTask, done>>
      /\ (pc \in {"run", "free_cb", "free_prio", "free_next"}
            \/ pc' \in {"run", "free_cb", "free_prio", "free_next"} => pc' = pc)
  BY <1>1 DEF scheduler_push_task
<1>3. CASE overflown' = TRUE /\ UNCHANGED <<taskBuf, task_list, pushed, jobPrio, reused>>
  BY <1>2, <1>3 DEF IInv, Kept, Unlinked, Releasing, Listed, Sorted, Before,
       NoneAstray, JobsKept, Executed, Running, Waiting
<1>4. ASSUME NEW c \in FreeContainers, NEW n \in 0..Len(task_list),
             \A k \in 1..n : taskBuf[task_list[k]].prio <= p,
             n < Len(task_list) => taskBuf[task_list[n + 1]].prio > p,
             taskBuf' = [taskBuf EXCEPT ![c] = [cb |-> pushed + 1, prio |-> p]],
             task_list' = InsertAfter(task_list, n, c),
             pushed' = pushed + 1, pushed' \in Jobs,
             jobPrio' = [jobPrio EXCEPT ![pushed + 1] = p],
             reused' = (reused \/ (c = pThisTask /\ Releasing)),
             UNCHANGED overflown
      PROVE  Unlinked' /\ Sorted' /\ NoneAstray' /\ JobsKept'
  <2>0. /\ n \in Nat /\ Len(task_list) \in Nat /\ n <= Len(task_list)
        /\ \A k \in 1..n : taskBuf[task_list[k]].prio <= p
        /\ n < Len(task_list) => taskBuf[task_list[n + 1]].prio > p
    BY <1>4 DEF IInv, Sound, TypeOK
  <2>1. task_list \in Seq(Containers) /\ c \in Containers /\ taskBuf[c].cb = 0
    BY DEF IInv, Sound, TypeOK, FreeContainers
  <2>2. /\ DOMAIN task_list' = 1..(Len(task_list) + 1)
        /\ \A i \in 1..n : task_list'[i] = task_list[i]
        /\ task_list'[n + 1] = c
        /\ \A i \in (n + 2)..(Len(task_list) + 1) : task_list'[i] = task_list[i - 1]
    BY <1>4, <2>1, ListGrows DEF IInv, Sound
  <2>3. Listed' = Listed \cup {c}
    BY <1>4, <2>1, ListGrows DEF IInv, Sound
  <2>4. c \notin Listed
    BY <2>1 DEF IInv, Sound, ListSound
  <2>5. taskBuf'[c] = [cb |-> pushed + 1, prio |-> p]
        /\ \A d \in Containers \ {c} : taskBuf'[d] = taskBuf[d]
    BY <1>4, <2>1 DEF IInv, Sound, TypeOK
  <2>6. pushed \in Nat /\ Listed \subseteq Containers
    BY <2>1, SchedulerAssumption DEF IInv, Sound, TypeOK, Listed
  <2>7. ~reused /\ ~(c = pThisTask /\ Releasing)
    BY <1>4
  <2>8. Unlinked /\ Sorted /\ NoneAstray /\ JobsKept
    BY <2>7 DEF IInv, Kept
  <2>9. Unlinked'
    BY <1>2, <2>3, <2>7, <2>8 DEF Unlinked, Releasing
  <2>10. NoneAstray'
    BY <1>2, <2>3, <2>5, <2>8 DEF NoneAstray
  <2>11. JobsKept'
    <3>1. Executed' = Executed
      BY <1>2 DEF Executed
    <3>2. Running' = Running
      <4>1. pc = "run" => pThisTask \in Containers /\ pThisTask # c
        BY <2>1 DEF IInv, Sound, Holding, ListSound
      <4>. QED
        BY <1>2, <2>5, <4>1 DEF Running
    <3>3. Waiting' = Waiting \cup {pushed + 1}
      <4>1. \A d \in Listed : taskBuf'[d].cb = taskBuf[d].cb
        BY <2>4, <2>5, <2>6
      <4>2. taskBuf'[c].cb = pushed + 1
        BY <2>5
      <4>. QED
        BY <2>3, <4>1, <4>2 DEF Waiting
    <3>4. 1..pushed' = (1..pushed) \cup {pushed + 1}
      BY <1>4, <2>6
    <3>. QED
      BY <2>8, <3>1, <3>2, <3>3, <3>4 DEF JobsKept
  <2>12. Sorted'
    <3>1. ASSUME NEW d \in Listed'
          PROVE  taskBuf'[d].prio = jobPrio'[taskBuf'[d].cb]
      <4>1. CASE d = c
        BY <1>4, <2>5, <4>1 DEF IInv, Sound, TypeOK
      <4>2. CASE d # c
        <5>1. d \in Listed /\ d \in Containers /\ taskBuf'[d] = taskBuf[d]
          BY <2>3, <2>5, <2>6, <4>2
        <5>2. taskBuf[d].cb <= pushed /\ taskBuf[d].cb \in Jobs
          BY <5>1 DEF IInv, Sound, ListSound, JobsDiffer, TypeOK
        <5>3. taskBuf[d].cb # pushed + 1
          BY <2>6, <5>2 DEF Jobs
        <5>4. jobPrio'[taskBuf[d].cb] = jobPrio[taskBuf[d].cb]
          BY <1>4, <5>2, <5>3 DEF IInv, Sound, TypeOK
        <5>. QED
          BY <2>8, <5>1, <5>4 DEF Sorted
      <4>. QED
        BY <4>1, <4>2
    <3>2. \A x \in DOMAIN task_list : /\ task_list[x] \in Containers \ {c}
                                      /\ task_list[x] \in Listed
      BY <2>1, <2>4 DEF Listed
    <3>3. p \in Nat /\ \A d \in Containers : /\ taskBuf[d].prio \in Nat
                                             /\ taskBuf[d].cb \in Nat
                                             /\ taskBuf[d].cb <= pushed
      BY Numbers DEF IInv, Sound, JobsDiffer
    <3>4. \A x, y \in DOMAIN task_list : x < y =>
            Before(taskBuf, task_list[x], task_list[y])
      BY <2>8 DEF Sorted
    <3>5. \A b, d \in Containers \ {c} : 
            Before(taskBuf', b, d) = Before(taskBuf, b, d)
      BY <2>5 DEF Before
    <3>6. \A x \in 1..n : Before(taskBuf', task_list[x], c)
      <4>1. ASSUME NEW x \in 1..n PROVE Before(taskBuf', task_list[x], c)
        <5>1. x \in DOMAIN task_list /\ taskBuf[task_list[x]].prio <= p
          BY <2>0, <2>1
        <5>2. task_list[x] \in Containers \ {c}
          BY <3>2, <5>1
        <5>. DEFINE b == task_list[x]
        <5>3. taskBuf'[b] = taskBuf[b] /\ taskBuf[b].prio <= p /\ taskBuf[b].cb < pushed + 1
              /\ taskBuf[b].prio \in Nat
          BY <2>5, <2>6, <3>3, <5>1, <5>2
        <5>. HIDE DEF b
        <5>4. \/ taskBuf'[b].prio < taskBuf'[c].prio
              \/ /\ taskBuf'[b].prio = taskBuf'[c].prio
                 /\ taskBuf'[b].cb < taskBuf'[c].cb
          BY <2>5, <3>3, <5>3
        <5>. QED
          BY <5>4 DEF Before, b
      <4>. QED
        BY <4>1
    <3>7. \A y \in (n + 1)..Len(task_list) : Before(taskBuf', c, task_list[y])
      <4>1. ASSUME NEW y \in (n + 1)..Len(task_list) PROVE Before(taskBuf', c, task_list[y])
        <5>1. n + 1 \in DOMAIN task_list /\ y \in DOMAIN task_list /\ n + 1 <= y
              /\ n \in Nat /\ y \in Nat
          BY <2>0, <2>1
        <5>2. taskBuf[task_list[n + 1]].prio > p
          BY <2>0, <2>1, <5>1
        <5>3. taskBuf[task_list[n + 1]].prio <= taskBuf[task_list[y]].prio
          <6>1. CASE n + 1 = y
            BY <3>2, <3>3, <5>1, <6>1
          <6>2. CASE n + 1 # y
            <7>1. n + 1 < y
              BY <5>1, <6>2
            <7>2. Before(taskBuf, task_list[n + 1], task_list[y])
              BY <3>4, <5>1, <7>1
            <7>. QED
              BY <3>2, <3>3, <5>1, <7>2 DEF Before
          <6>. QED
            BY <6>1, <6>2
        <5>4. p < taskBuf[task_list[y]].prio
          BY <3>2, <3>3, <5>1, <5>2, <5>3
        <5>5. taskBuf'[task_list[y]] = taskBuf[task_list[y]]
          BY <2>5, <3>2, <5>1
        <5>. QED
          BY <2>5, <5>4, <5>5 DEF Before
      <4>. QED
        BY <4>1
    <3>8. ASSUME NEW i \in DOMAIN task_list', NEW k \in DOMAIN task_list', i < k
          PROVE  Before(taskBuf', task_list'[i], task_list'[k])
      <4>0. n \in Nat /\ Len(task_list) \in Nat /\ n <= Len(task_list)
            /\ DOMAIN task_list = 1..Len(task_list) /\ i \in Nat /\ k \in Nat
        BY <2>0, <2>1, <2>2
      <4>1. CASE k <= n
        <5>1. task_list'[i] = task_list[i] /\ task_list'[k] = task_list[k]
              /\ i \in DOMAIN task_list /\ k \in DOMAIN task_list
          BY <2>2, <3>8, <4>0, <4>1
        <5>. QED
          BY <3>2, <3>4, <3>5, <3>8, <5>1
      <4>2. CASE k = n + 1
        <5>1. i \in 1..n
          BY <2>2, <3>8, <4>0, <4>2
        <5>. QED
          BY <2>2, <3>6, <4>2, <5>1
      <4>3. CASE k > n + 1 /\ i = n + 1
        <5>1. task_list'[k] = task_list[k - 1] /\ k - 1 \in (n + 1)..Len(task_list)
          BY <2>2, <4>0, <4>3
        <5>. QED
          BY <2>2, <3>7, <4>3, <5>1
      <4>4. CASE k > n + 1 /\ i <= n
        <5>1. task_list'[i] = task_list[i] /\ task_list'[k] = task_list[k - 1]
              /\ i \in DOMAIN task_list /\ k - 1 \in DOMAIN task_list /\ i < k - 1
          BY <2>2, <4>0, <4>4
        <5>. QED
          BY <3>2, <3>4, <3>5, <5>1
      <4>5. CASE i > n + 1
        <5>1. task_list'[i] = task_list[i - 1] /\ task_list'[k] = task_list[k - 1]
              /\ i - 1 \in DOMAIN task_list /\ k - 1 \in DOMAIN task_list /\ i - 1 < k - 1
          BY <2>2, <3>8, <4>0, <4>5
        <5>. QED
          BY <3>2, <3>4, <3>5, <5>1
      <4>. QED
        BY <3>8, <4>0, <4>1, <4>2, <4>3, <4>4, <4>5
    <3>. QED
      BY <3>1, <3>8 DEF Sorted
  <2>. QED
    BY <2>9, <2>10, <2>11, <2>12
<1>. QED
  BY <1>1, <1>3, <1>4, Posted DEF IInv, Sound

-----------------------------------------------------------------------------
(* The main loop.                                                          *)
-----------------------------------------------------------------------------

(* At first, and after a reset, there is nothing to lose.                  *)
LEMMA Start == Init => IInv
<1>. SUFFICES ASSUME Init PROVE IInv
  OBVIOUS
<1>1. DOMAIN task_list = {} /\ DOMAIN done = {} /\ task_list = <<>> /\ done = <<>>
  BY DEF Init
<1>2. TypeOK
  <2>1. task_list \in Seq(Containers) /\ done \in Seq(Jobs)
    BY <1>1
  <2>2. pushed \in 0..MaxJobs
    BY SchedulerAssumption DEF Init
  <2>. QED
    BY <2>1, <2>2 DEF Init, TypeOK, NoTask, ProgramPoints
<1>3. ListSound /\ Holding /\ JobsDiffer /\ JobsOver
  BY <1>1 DEF Init, ListSound, Listed, Holding, JobsDiffer, JobsOver, NoTask
<1>4. Unlinked /\ Sorted /\ NoneAstray
  BY <1>1 DEF Init, Unlinked, Releasing, Sorted, Listed, NoneAstray, NoTask
<1>5. JobsKept
  <2>1. Executed = {} /\ Waiting = {} /\ Running = {} /\ 1..pushed = {}
    BY <1>1 DEF Init, Executed, Waiting, Listed, Running
  <2>. QED
    BY <2>1 DEF JobsKept
<1>. QED
  BY <1>2, <1>3, <1>4, <1>5 DEF IInv, Sound, Kept

(* The order of the list is written in the containers that are in it.      *)
LEMMA SortedStays ==
  ASSUME Sorted, UNCHANGED <<task_list, jobPrio>>,
         \A c \in Listed : taskBuf'[c] = taskBuf[c]
  PROVE  Sorted'
<1>1. Listed' = Listed
  BY DEF Listed
<1>2. \A c \in Listed' : taskBuf'[c].prio = jobPrio'[taskBuf'[c].cb]
  BY <1>1 DEF Sorted
<1>3. ASSUME NEW i \in DOMAIN task_list', NEW k \in DOMAIN task_list', i < k
      PROVE  Before(taskBuf', task_list'[i], task_list'[k])
  <2>1. taskBuf'[task_list[i]] = taskBuf[task_list[i]]
        /\ taskBuf'[task_list[k]] = taskBuf[task_list[k]]
    BY DEF Listed
  <2>2. Before(taskBuf, task_list[i], task_list[k])
    BY <1>3 DEF Sorted
  <2>. QED
    BY <2>1, <2>2 DEF Before
<1>. QED
  BY <1>2, <1>3 DEF Sorted

(* Steps that only move the main loop from one statement to the next.      *)
LEMMA MovesOn ==
  ASSUME IInv, UNCHANGED <<taskBuf, task_list, pThisTask, pushed, done, jobPrio,
                           overflown, reused>>,
         pc' \in {"test", "doze", "sleep"}, pc \in {"test", "doze", "sleep"}
  PROVE  IInv'
<1>1. TypeOK' /\ ListSound' /\ Holding' /\ JobsDiffer' /\ JobsOver'
  BY DEF IInv, Sound, TypeOK, ProgramPoints, ListSound, Listed, Holding, JobsDiffer,
         JobsOver
<1>2. Kept'
  BY DEF IInv, Kept, Unlinked, Releasing, Listed, Sorted, Before, NoneAstray,
         JobsKept, Executed, Running, Waiting
<1>. QED
  BY <1>1, <1>2 DEF IInv, Sound

(* The container popped is the one in front; the others stay.              *)
LEMMA PopKeeps ==
  ASSUME IInv, PopTask
  PROVE  IInv'
<1>1. /\ pc = "test" /\ task_list # <<>> /\ task_list \in Seq(Containers)
      /\ pThisTask' = Head(task_list) /\ task_list' = Tail(task_list) /\ pc' = "run"
      /\ UNCHANGED <<taskBuf, pushed, done, jobPrio, overflown, reused>>
  BY DEF PopTask, IInv, Sound, TypeOK
<1>2. /\ task_list' \in Seq(Containers) /\ Len(task_list) \in Nat \ {0}
      /\ DOMAIN task_list = 1..Len(task_list)
      /\ DOMAIN task_list' = 1..(Len(task_list) - 1)
      /\ \A i \in DOMAIN task_list' : task_list'[i] = task_list[i + 1]
      /\ pThisTask' = task_list[1] /\ task_list[1] \in Containers
  BY <1>1, HeadTailProperties
<1>3. \A i \in DOMAIN task_list' : i + 1 \in DOMAIN task_list /\ i + 1 # 1
  BY <1>2
<1>4. \A i \in DOMAIN task_list' : task_list'[i] # task_list[1]
  BY <1>2, <1>3 DEF IInv, Sound, ListSound
<1>5. Listed = Listed' \cup {pThisTask'}
  <2>1. \A i \in DOMAIN task_list : i # 1 =>
          i - 1 \in DOMAIN task_list' /\ task_list'[i - 1] = task_list[(i - 1) + 1]
            /\ (i - 1) + 1 = i
    BY <1>2
  <2>2. \A i \in DOMAIN task_list : i # 1 =>
          \E k \in DOMAIN task_list' : task_list'[k] = task_list[i]
    BY <2>1
  <2>. QED
    BY <1>2, <1>3, <2>2 DEF Listed
<1>6. pThisTask' \notin Listed'
  BY <1>2, <1>4 DEF Listed
<1>7. TypeOK'
  BY <1>1, <1>2 DEF IInv, Sound, TypeOK, ProgramPoints
<1>8. ListSound'
  <2>1. ASSUME NEW i \in DOMAIN task_list', NEW k \in DOMAIN task_list', i # k
        PROVE  task_list'[i] # task_list'[k]
    <3>1. i + 1 # k + 1
      BY <1>2, <2>1
    <3>. QED
      BY <1>2, <1>3, <3>1 DEF IInv, Sound, ListSound
  <2>2. \A c \in Listed : taskBuf[c].cb # 0
    BY DEF IInv, Sound, ListSound
  <2>. QED
    BY <1>1, <1>5, <1>6, <2>1, <2>2 DEF ListSound
<1>9. Holding' /\ JobsDiffer'
  BY <1>1, <1>2 DEF IInv, Sound, Holding, JobsDiffer
<1>10. JobsOver'
  BY <1>1 DEF IInv, Sound, JobsOver
<1>11. Kept'
  <2>. SUFFICES ASSUME ~reused
                PROVE  Unlinked' /\ Sorted' /\ NoneAstray' /\ JobsKept'
    BY <1>1 DEF Kept
  <2>1. Sorted /\ NoneAstray /\ JobsKept
    BY DEF IInv, Kept
  <2>2. Unlinked'
    BY <1>1 DEF Unlinked, Releasing
  <2>3. Sorted'
    <3>1. \A c \in Listed' : taskBuf'[c].prio = jobPrio'[taskBuf'[c].cb]
      BY <1>1, <1>5, <2>1 DEF Sorted
    <3>2. ASSUME NEW i \in DOMAIN task_list', NEW k \in DOMAIN task_list', i < k
          PROVE  Before(taskBuf', task_list'[i], task_list'[k])
      <4>1. i + 1 < k + 1
        BY <1>2, <3>2
      <4>. QED
        BY <1>1, <1>2, <1>3, <2>1, <4>1 DEF Sorted
    <3>. QED
      BY <3>1, <3>2 DEF Sorted
  <2>4. NoneAstray'
    BY <1>1, <1>5, <2>1 DEF NoneAstray
  <2>5. JobsKept'
    <3>1. Executed' = Executed /\ Running = {} /\ Running' = {taskBuf[pThisTask'].cb}
      BY <1>1 DEF Executed, Running
    <3>2. Waiting = Waiting' \cup {taskBuf[pThisTask'].cb}
      BY <1>1, <1>5 DEF Waiting
    <3>. QED
      BY <1>1, <2>1, <3>1, <3>2 DEF JobsKept
  <2>. QED
    BY <2>2, <2>3, <2>4, <2>5
<1>. QED
  BY <1>7, <1>8, <1>9, <1>10, <1>11 DEF IInv, Sound

(* The job that runs was not executed before, and becomes one executed.    *)
LEMMA RunKeeps ==
  ASSUME IInv, RunTask
  PROVE  IInv'
<1>. DEFINE j == taskBuf[pThisTask].cb
<1>1. /\ pc = "run" /\ pc' = "free_cb" /\ done' = Append(done, j)
      /\ UNCHANGED <<taskBuf, task_list, pThisTask, pushed, jobPrio, overflown, reused>>
  BY DEF RunTask
<1>2. pThisTask \in Containers /\ j # 0 /\ pThisTask \notin Listed
  BY <1>1 DEF IInv, Sound, Holding, ListSound
<1>3. j \in Jobs /\ j <= pushed
  BY <1>2 DEF IInv, Sound, TypeOK, JobsDiffer
<1>4. \A i \in DOMAIN done : done[i] # j
  BY <1>1, <1>2 DEF IInv, Sound, JobsOver
<1>5. done \in Seq(Jobs)
  BY DEF IInv, Sound, TypeOK
<1>. HIDE DEF j
<1>6. /\ done' \in Seq(Jobs) /\ DOMAIN done' = DOMAIN done \cup {Len(done) + 1}
      /\ \A i \in DOMAIN done : done'[i] = done[i] /\ i # Len(done) + 1
      /\ done'[Len(done) + 1] = j
  BY <1>1, <1>3, <1>5
<1>7. TypeOK'
  BY <1>1, <1>6 DEF IInv, Sound, TypeOK, ProgramPoints
<1>8. ListSound' /\ Holding' /\ JobsDiffer'
  BY <1>1 DEF IInv, Sound, ListSound, Listed, Holding, JobsDiffer
<1>9. JobsOver'
  <2>1. \A i, k \in DOMAIN done' : i # k => done'[i] # done'[k]
    BY <1>4, <1>6 DEF IInv, Sound, JobsOver
  <2>2. \A i \in DOMAIN done' : done'[i] <= pushed'
    BY <1>1, <1>3, <1>6 DEF IInv, Sound, JobsOver
  <2>3. ASSUME NEW i \in DOMAIN done', NEW c \in Containers, taskBuf'[c].cb = done'[i]
        PROVE  c = pThisTask' /\ pc' = "free_cb"
    <3>1. CASE i \in DOMAIN done
      BY <1>1, <1>6, <2>3, <3>1 DEF IInv, Sound, JobsOver
    <3>2. CASE i = Len(done) + 1
      <4>1. taskBuf[c].cb = taskBuf[pThisTask].cb /\ taskBuf[c].cb # 0
        BY <1>1, <1>2, <1>6, <2>3, <3>2 DEF j
      <4>. QED
        BY <1>1, <1>2, <4>1 DEF IInv, Sound, JobsDiffer
    <3>. QED
      BY <1>6, <3>1, <3>2
  <2>. QED
    BY <2>1, <2>2, <2>3 DEF JobsOver
<1>10. Kept'
  <2>. SUFFICES ASSUME ~reused
                PROVE  Unlinked' /\ Sorted' /\ NoneAstray' /\ JobsKept'
    BY <1>1 DEF Kept
  <2>1. Sorted /\ NoneAstray /\ JobsKept
    BY DEF IInv, Kept
  <2>2. Unlinked' /\ NoneAstray'
    BY <1>1, <2>1 DEF Unlinked, Releasing, NoneAstray, Listed
  <2>3. Sorted'
    BY <1>1, <2>1 DEF Sorted, Listed, Before
  <2>4. Executed' = Executed \cup {j}
    BY <1>6 DEF Executed
  <2>5. Running = {j} /\ Running' = {} /\ Waiting' = Waiting
    BY <1>1 DEF Running, Waiting, Listed, j
  <2>6. JobsKept'
    BY <1>1, <2>1, <2>4, <2>5 DEF JobsKept
  <2>. QED
    BY <2>2, <2>3, <2>6
<1>. QED
  BY <1>7, <1>8, <1>9, <1>10 DEF IInv, Sound

(* cb = NULL: the container is free, and not in the list.                  *)
LEMMA FreeCbKeeps ==
  ASSUME IInv, FreeCb
  PROVE  IInv'
<1>1. /\ pc = "free_cb" /\ pc' = "free_prio"
      /\ taskBuf' = [taskBuf EXCEPT ![pThisTask].cb = 0]
      /\ UNCHANGED <<task_list, pThisTask, pushed, done, jobPrio, overflown, reused>>
  BY DEF FreeCb
<1>2. pThisTask \in Containers /\ pThisTask \notin Listed
  BY <1>1 DEF IInv, Sound, Holding, ListSound
<1>3. taskBuf \in [Containers -> [cb : Jobs \cup {0}, prio : Prios \cup {0}]]
  BY DEF IInv, Sound, TypeOK
<1>4. /\ taskBuf'[pThisTask].cb = 0
      /\ \A c \in Containers \ {pThisTask} : taskBuf'[c] = taskBuf[c]
      /\ taskBuf' \in [Containers -> [cb : Jobs \cup {0}, prio : Prios \cup {0}]]
  BY <1>1, <1>2, <1>3
<1>5. Listed' = Listed /\ Listed \subseteq Containers
  BY <1>1 DEF Listed, IInv, Sound, TypeOK
<1>6. TypeOK'
  BY <1>1, <1>4 DEF IInv, Sound, TypeOK, ProgramPoints
<1>7. ListSound' /\ Holding'
  BY <1>1, <1>2, <1>4, <1>5 DEF IInv, Sound, ListSound, Holding
<1>8. JobsDiffer'
  <2>1. pushed \in Nat
    BY SchedulerAssumption DEF IInv, Sound, TypeOK
  <2>. QED
    BY <1>1, <1>4, <2>1 DEF IInv, Sound, JobsDiffer
<1>9. JobsOver'
  <2>1. \A i \in DOMAIN done : done[i] # 0
    BY Numbers DEF IInv, Sound
  <2>. QED
    BY <1>1, <1>4, <2>1 DEF IInv, Sound, JobsOver
<1>10. Kept'
  <2>. SUFFICES ASSUME ~reused
                PROVE  Unlinked' /\ Sorted' /\ NoneAstray' /\ JobsKept'
    BY <1>1 DEF Kept
  <2>1. Sorted /\ NoneAstray /\ JobsKept
    BY DEF IInv, Kept
  <2>2. Unlinked' /\ NoneAstray'
    BY <1>1, <1>2, <1>4, <1>5, <2>1 DEF Unlinked, NoneAstray
  <2>3. \A c \in Listed : taskBuf'[c] = taskBuf[c]
    BY <1>2, <1>4, <1>5
  <2>4. Sorted'
    BY <1>1, <2>1, <2>3, SortedStays
  <2>5. Executed' = Executed /\ Running = {} /\ Running' = {}
    BY <1>1 DEF Executed, Running
  <2>6. Waiting' = Waiting
    BY <1>5, <2>3 DEF Waiting
  <2>. QED
    BY <1>1, <2>1, <2>2, <2>4, <2>5, <2>6 DEF JobsKept
<1>. QED
  BY <1>6, <1>7, <1>8, <1>9, <1>10 DEF IInv, Sound

(* prio = TASKPRIO_NONE: of a container that is free, or was reused.       *)
LEMMA FreePrioKeeps ==
  ASSUME IInv, FreePrio
  PROVE  IInv'
<1>1. /\ pc = "free_prio" /\ pc' = "free_next"
      /\ taskBuf' = [taskBuf EXCEPT ![pThisTask].prio = 0]
      /\ UNCHANGED <<task_list, pThisTask, pushed, done, jobPrio, overflown, reused>>
  BY DEF FreePrio
<1>2. pThisTask \in Containers
  BY <1>1 DEF IInv, Sound, Holding
<1>3. taskBuf \in [Containers -> [cb : Jobs \cup {0}, prio : Prios \cup {0}]]
  BY DEF IInv, Sound, TypeOK
<1>4. /\ \A c \in Containers : taskBuf'[c].cb = taskBuf[c].cb
      /\ \A c \in Containers \ {pThisTask} : taskBuf'[c] = taskBuf[c]
      /\ taskBuf' \in [Containers -> [cb : Jobs \cup {0}, prio : Prios \cup {0}]]
  BY <1>1, <1>2, <1>3
<1>5. Listed' = Listed /\ Listed \subseteq Containers
  BY <1>1 DEF Listed, IInv, Sound, TypeOK
<1>6. TypeOK'
  BY <1>1, <1>4 DEF IInv, Sound, TypeOK, ProgramPoints
<1>7. ListSound' /\ Holding' /\ JobsDiffer' /\ JobsOver'
  BY <1>1, <1>2, <1>4, <1>5 DEF IInv, Sound, ListSound, Holding, JobsDiffer, JobsOver
<1>8. Kept'
  <2>. SUFFICES ASSUME ~reused
                PROVE  Unlinked' /\ Sorted' /\ NoneAstray' /\ JobsKept'
    BY <1>1 DEF Kept
  <2>1. Unlinked /\ Sorted /\ NoneAstray /\ JobsKept
    BY DEF IInv, Kept
  <2>2. pThisTask \notin Listed
    BY <1>1, <2>1 DEF Unlinked, Releasing
  <2>3. Unlinked' /\ NoneAstray'
    BY <1>1, <1>4, <1>5, <2>1, <2>2 DEF Unlinked, NoneAstray
  <2>4. \A c \in Listed : taskBuf'[c] = taskBuf[c]
    BY <1>4, <1>5, <2>2
  <2>5. Sorted'
    BY <1>1, <2>1, <2>4, SortedStays
  <2>6. Executed' = Executed /\ Running = {} /\ Running' = {}
    BY <1>1 DEF Executed, Running
  <2>7. Waiting' = Waiting
    BY <1>5, <2>4 DEF Waiting
  <2>. QED
    BY <1>1, <2>1, <2>3, <2>5, <2>6, <2>7 DEF JobsKept
<1>. QED
  BY <1>6, <1>7, <1>8 DEF IInv, Sound

(* next = NULL: cuts the list only if the container was reused.            *)
LEMMA FreeNextKeeps ==
  ASSUME IInv, FreeNext
  PROVE  IInv'
<1>1. /\ pc = "free_next" /\ pc' = "test"
      /\ task_list' = CutAfter(task_list, pThisTask)
      /\ UNCHANGED <<taskBuf, pThisTask, pushed, done, jobPrio, overflown, reused>>
  BY DEF FreeNext
<1>2. pThisTask \in Containers /\ task_list \in Seq(Containers)
  BY <1>1 DEF IInv, Sound, Holding, TypeOK
<1>3. /\ task_list' \in Seq(Containers)
      /\ DOMAIN task_list' \subseteq DOMAIN task_list
      /\ \A i \in DOMAIN task_list' : task_list'[i] = task_list[i]
      /\ (\A i \in DOMAIN task_list : task_list[i] # pThisTask) => task_list' = task_list
  BY <1>1, <1>2, Cut
<1>4. Listed' \subseteq Listed
  BY <1>3 DEF Listed
<1>5. TypeOK'
  BY <1>1, <1>3 DEF IInv, Sound, TypeOK, ProgramPoints
<1>6. ListSound' /\ Holding' /\ JobsDiffer' /\ JobsOver'
  BY <1>1, <1>3, <1>4 DEF IInv, Sound, ListSound, Holding, JobsDiffer, JobsOver
<1>7. Kept'
  <2>. SUFFICES ASSUME ~reused
                PROVE  Unlinked' /\ Sorted' /\ NoneAstray' /\ JobsKept'
    BY <1>1 DEF Kept
  <2>1. Unlinked /\ Sorted /\ NoneAstray /\ JobsKept
    BY DEF IInv, Kept
  <2>2. task_list' = task_list
    BY <1>1, <1>3, <2>1 DEF Unlinked, Releasing, Listed
  <2>3. Unlinked' /\ NoneAstray'
    BY <1>1, <2>1, <2>2 DEF Unlinked, Releasing, NoneAstray, Listed
  <2>4. Sorted'
    BY <1>1, <2>1, <2>2 DEF Sorted, Before, Listed
  <2>5. JobsKept'
    BY <1>1, <2>1, <2>2 DEF JobsKept, Executed, Running, Waiting, Listed
  <2>. QED
    BY <2>3, <2>4, <2>5
<1>. QED
  BY <1>5, <1>6, <1>7 DEF IInv, Sound

-----------------------------------------------------------------------------
(* The theorems.                                                           *)
-----------------------------------------------------------------------------

(* Every step of an interrupt, of the main loop or of a reset keeps the      *)
(* invariant.                                                              *)
LEMMA Step ==
  ASSUME IInv, [Next]_vars
  PROVE  IInv'
<1>1. CASE FindNoTask \/ GoToSleep \/ Wakeup
  BY <1>1, MovesOn DEF FindNoTask, GoToSleep, Wakeup
<1>2. CASE PopTask
  BY <1>2, PopKeeps
<1>3. CASE RunTask
  BY <1>3, RunKeeps
<1>4. CASE FreeCb
  BY <1>4, FreeCbKeeps
<1>5. CASE FreePrio
  BY <1>5, FreePrioKeeps
<1>6. CASE FreeNext
  BY <1>6, FreeNextKeeps
<1>7. CASE Post
  BY <1>7, PostSound, PostKept DEF IInv
<1>8. CASE board_reset
  <2>1. Init'
    BY <1>8 DEF board_reset, Init
  <2>. QED
    BY <2>1, Start, PTL
<1>9. CASE UNCHANGED vars
  <2>1. Sound'
    BY <1>9 DEF vars, IInv, Sound, TypeOK, ListSound, Listed, Holding, JobsDiffer, JobsOver
  <2>2. Kept'
    BY <1>9 DEF vars, IInv, Kept, Unlinked, Releasing, Listed, Sorted, Before,
       NoneAstray, JobsKept, Executed, Running, Waiting
  <2>. QED
    BY <2>1, <2>2 DEF IInv
<1>. QED
  BY <1>1, <1>2, <1>3, <1>4, <1>5, <1>6, <1>7, <1>8, <1>9 DEF Next, scheduler_start

(* The invariant holds in every state.                                      *)
LEMMA Inductive == Spec => []IInv
<1>1. IInv /\ [Next]_vars => IInv'
  BY Step
<1>. QED
  BY <1>1, Start, PTL DEF Spec

(* The variables of the scheduler keep their types, wherever in the main   *)
(* loop the interrupts come.                                               *)
THEOREM TypeCorrect == Spec => []TypeOK
<1>1. IInv => TypeOK
  BY DEF IInv, Sound
<1>. QED
  BY <1>1, Inductive, PTL

(* The task list stays sound: scheduler_push_task never links a container  *)
(* twice, nor the main loop one that it works on.                          *)
THEOREM ListStaysSound == Spec => []ListSound
<1>1. IInv => ListSound
  BY DEF IInv, Sound
<1>. QED
  BY <1>1, Inductive, PTL

(* No job is executed twice, also if containers are reused while they are  *)
(* given back.                                                             *)
THEOREM OnceAtMost == Spec => []AtMostOnce
<1>1. IInv => AtMostOnce
  <2>. SUFFICES ASSUME IInv PROVE AtMostOnce
    OBVIOUS
  <2>1. Listed \subseteq Containers
    BY DEF Listed, IInv, Sound, TypeOK
  <2>2. \A c \in Listed : taskBuf[c].cb # 0 /\ (pc = "free_cb" => c # pThisTask)
    BY DEF IInv, Sound, ListSound
  <2>3. \A c \in Listed, i \in DOMAIN done : taskBuf[c].cb # done[i]
    BY <2>1, <2>2 DEF IInv, Sound, JobsOver
  <2>4. \A c, d \in Listed : c # d => taskBuf[c].cb # taskBuf[d].cb
    BY <2>1, <2>2 DEF IInv, Sound, JobsDiffer
  <2>. QED
    BY <2>3, <2>4 DEF AtMostOnce, IInv, Sound, JobsOver
<1>. QED
  BY <1>1, Inductive, PTL

(* Reusing a container while scheduler_start gives it back is the only way *)
(* to lose a job.                                                          *)
THEOREM JobsAreKept == Spec => []NoJobLost
<1>1. IInv => NoJobLost
  BY DEF IInv, Kept, NoJobLost
<1>. QED
  BY <1>1, Inductive, PTL

(* Nor is there another way to lose a container.                           *)
THEOREM ContainersReturn == Spec => []NoContainerLost
<1>1. IInv => NoContainerLost
  BY DEF IInv, Kept, NoneAstray, NoContainerLost
<1>. QED
  BY <1>1, Inductive, PTL

(* Of the jobs that wait the main loop runs the most urgent, and of these  *)
(* the oldest.                                                             *)
THEOREM MostUrgentFirst == Spec => PopsMostUrgent
<1>. DEFINE j == taskBuf[pThisTask'].cb
            Urgent == \A k \in Waiting \ {j} :
                        \/ jobPrio[j] < jobPrio[k]
                        \/ jobPrio[j] = jobPrio[k] /\ j < k
<1>1. ASSUME IInv, PopTask, ~reused PROVE Urgent
  <2>1. /\ task_list # <<>> /\ task_list \in Seq(Containers)
        /\ pThisTask' = Head(task_list)
    BY <1>1 DEF PopTask, IInv, Sound, TypeOK
  <2>2. pThisTask' = task_list[1] /\ 1 \in DOMAIN task_list
        /\ DOMAIN task_list \subseteq Nat \ {0}
    BY <2>1
  <2>3. Sorted
    BY <1>1 DEF IInv, Kept
  <2>4. ASSUME NEW k \in Waiting \ {j}
        PROVE  \/ jobPrio[j] < jobPrio[k]
               \/ jobPrio[j] = jobPrio[k] /\ j < k
    <3>1. PICK i \in DOMAIN task_list : k = taskBuf[task_list[i]].cb
      BY DEF Waiting, Listed
    <3>2. i # 1
      BY <2>2, <2>4, <3>1
    <3>3. Before(taskBuf, task_list[1], task_list[i])
      BY <2>2, <2>3, <3>2 DEF Sorted
    <3>4. /\ taskBuf[task_list[1]].prio = jobPrio[j]
          /\ taskBuf[task_list[i]].prio = jobPrio[k]
      BY <2>2, <2>3, <3>1 DEF Sorted, Listed
    <3>5. \/ jobPrio[j] < jobPrio[k]
          \/ jobPrio[j] = jobPrio[k] /\ j < k
      BY <2>2, <3>1, <3>3, <3>4 DEF Before
    <3>. QED
      BY <3>5
  <2>. QED
    BY <2>4
<1>2. IInv /\ [Next]_vars => [PopTask /\ ~reused => Urgent]_vars
  BY <1>1
<1>. QED
  BY <1>2, Inductive, PTL DEF Spec, PopsMostUrgent
=============================================================================
