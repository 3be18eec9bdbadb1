----------------------------- MODULE SixPProofs -----------------------------
(***************************************************************************)
(* Proofs about SixP, for every set of slots, room, number of retries and  *)
(* length of the queues, and any number of transactions.                   *)
(***************************************************************************)
EXTENDS SixP, TLAPS

-----------------------------------------------------------------------------
(* The inductive invariant.                                                *)
-----------------------------------------------------------------------------

RequestShape(req) ==
  /\ req = [command |-> req.command, numCells |-> req.numCells,
            list |-> req.list, generation |-> req.generation,
            seqNum |-> req.seqNum, retriesLeft |-> req.retriesLeft]
  /\ req.command \in AllCommands
  /\ req.seqNum \in Nat /\ req.retriesLeft \in Int

(* Only a response that says SUCCESS names cells, those that its command   *)
(* removes and adds; a command that removes cells names at least one.      *)
ResponseShape(r) ==
  /\ r = [command |-> r.command, seqNum |-> r.seqNum,
          returnCode |-> r.returnCode, remove |-> r.remove, add |-> r.add,
          retriesLeft |-> r.retriesLeft, copy |-> r.copy, acted |-> r.acted]
  /\ r.command \in AllCommands
  /\ r.seqNum \in Nat /\ r.copy \in Int
  /\ r.acted \in BOOLEAN
  /\ r.remove # <<>> => r.command \in {"DELETE", "RELOCATE"}
  /\ r.add # <<>> => r.command \in {"ADD", "RELOCATE"}
  /\ r.returnCode = "SUCCESS" /\ r.command \in {"DELETE", "RELOCATE"} =>
       r.remove # <<>>
  /\ r.returnCode # "SUCCESS" => r.remove = <<>> /\ r.add = <<>>

Shapes ==
  /\ sequenceNumber \in Nat
  /\ \A req \in requests : RequestShape(req) /\ req.seqNum < sequenceNumber
  /\ \A r \in responses : ResponseShape(r) /\ r.seqNum < sequenceNumber

(* One request has a sequence number; its responses are told apart by the  *)
(* copy of it that they answer, and none answers a copy yet to be sent.    *)
Distinct ==
  /\ \A q, req \in requests : q.seqNum = req.seqNum => q = req
  /\ \A q, r \in responses : q.seqNum = r.seqNum /\ q.copy = r.copy => q = r
  /\ \A req \in requests, r \in responses :
       req.seqNum = r.seqNum => r.copy > req.retriesLeft

(* The child acts on one response to its last request: it is idle then,    *)
(* until the next request.                                                 *)
ActedOnce ==
  \A r \in responses : r.acted =>
    /\ r.returnCode = "SUCCESS"
    /\ r.seqNum = sequenceNumber - 1 =>
         /\ six2six_state = IDLE
         /\ r.command = "CLEAR" => childCells = {} /\ childGeneration = 0

(* The responses by which the child has changed its schedule, but the      *)
(* parent has not yet changed its own.                                     *)
Pending == {r \in responses : r.acted /\ Changes(r)}

(* What a response makes of the cells and of the generation.               *)
Effect(r, cells) ==
  IF r.command = "CLEAR" THEN {}
  ELSE (cells \ CellsOf(r.remove)) \cup CellsOf(r.add)
EffectOnGeneration(r, generation) ==
  IF r.command = "CLEAR" THEN 0 ELSE NextGeneration(generation)

(* Without trouble, the child is at most one such response ahead; two at a *)
(* time cannot end without trouble.                                        *)
Books ==
  trouble = {} =>
    /\ Pending = {} => /\ childCells = parentCells
                       /\ childGeneration = parentGeneration
    /\ \A r \in Pending : Pending = {r} =>
         /\ childCells = Effect(r, parentCells)
         /\ childGeneration = EffectOnGeneration(r, parentGeneration)

SixInv == Shapes /\ Distinct /\ ActedOnce /\ Books

-----------------------------------------------------------------------------
(* What responses do to the schedules.                                     *)
-----------------------------------------------------------------------------

LEMMA NoCells == CellsOf(<<>>) = {}
BY DEF CellsOf, ToSet

(* Adding cells keeps those there are and adds at most those of the list.  *)
LEMMA CellsAdded ==
  ASSUME NEW cells, NEW list, NEW room
  PROVE  /\ cells \subseteq AddCells(cells, list, room)
         /\ AddCells(cells, list, room) \subseteq cells \cup CellsOf(list)
BY DEF AddCells, CellsOf, ToSet

(* Where there is room for all of them, all of them are added.             *)
LEMMA AllCellsAdded ==
  ASSUME NEW cells, NEW list, NEW room,
         CellsOf(list) \subseteq AddCells(cells, list, room)
  PROVE  AddCells(cells, list, room) = cells \cup CellsOf(list)
<1>1. /\ cells \subseteq AddCells(cells, list, room)
      /\ AddCells(cells, list, room) \subseteq cells \cup CellsOf(list)
  BY CellsAdded
<1>. DEFINE after == AddCells(cells, list, room)
            new   == CellsOf(list)
<1>2. cells \subseteq after /\ after \subseteq cells \cup new /\ new \subseteq after
  BY <1>1
<1>. HIDE DEF after, new
<1>3. after = cells \cup new
  BY <1>2
<1>. QED
  BY <1>3 DEF after, new

(* A response that changes nothing leaves the parent's schedule alone, and *)
(* one whose cells all found room has its effect.                          *)
LEMMA ParentEffect ==
  ASSUME NEW r, ResponseShape(r), r.returnCode = "SUCCESS"
  PROVE  /\ ~Changes(r) => ParentAfter(r) = parentCells
         /\ Changes(r) /\ CellsOf(r.add) \subseteq ParentAfter(r) =>
              ParentAfter(r) = Effect(r, parentCells)
<1>1. CellsOf(r.add) \subseteq ParentAfter(r) /\ r.command = "ADD" =>
        ParentAfter(r) = parentCells \cup CellsOf(r.add)
  <2>1. r.command = "ADD" => ParentAfter(r) = AddCells(parentCells, r.add, Room)
    BY DEF ParentAfter
  <2>. QED
    BY <2>1, AllCellsAdded
<1>2. CellsOf(r.add) \subseteq ParentAfter(r) /\ r.command = "RELOCATE" =>
        ParentAfter(r) = (parentCells \ CellsOf(r.remove)) \cup CellsOf(r.add)
  <2>1. r.command = "RELOCATE" =>
          ParentAfter(r) = AddCells(parentCells \ CellsOf(r.remove), r.add, Room)
    BY DEF ParentAfter, Relocate
  <2>. QED
    BY <2>1, AllCellsAdded
<1>3. r.command = "DELETE" => ParentAfter(r) = parentCells \ CellsOf(r.remove)
  BY DEF ParentAfter
<1>4. r.command = "CLEAR" => ParentAfter(r) = {}
  BY DEF ParentAfter
<1>5. ~Changes(r) => r.command = "ADD" /\ r.add = <<>>
  BY DEF Changes, ResponseShape, AllCommands
<1>6. r.command = "ADD" /\ r.add = <<>> => ParentAfter(r) = parentCells
  <2>1. r.command = "ADD" => ParentAfter(r) = AddCells(parentCells, r.add, Room)
    BY DEF ParentAfter
  <2>2. r.add = <<>> => CellsOf(r.add) = {}
    BY NoCells
  <2>3. ASSUME r.add = <<>>
        PROVE  AddCells(parentCells, r.add, Room) = parentCells
    <3>1. CellsOf(r.add) \subseteq AddCells(parentCells, r.add, Room)
      BY <2>2, <2>3
    <3>2. AddCells(parentCells, r.add, Room) = parentCells \cup CellsOf(r.add)
      BY <3>1, AllCellsAdded
    <3>. QED
      BY <2>2, <2>3, <3>2
  <2>. QED
    BY <2>1, <2>3
<1>7. ASSUME Changes(r), CellsOf(r.add) \subseteq ParentAfter(r)
      PROVE  ParentAfter(r) = Effect(r, parentCells)
  <2>1. CASE r.command = "ADD"
    BY <1>1, <1>7, <2>1, NoCells DEF Effect, ResponseShape
  <2>2. CASE r.command = "RELOCATE"
    BY <1>2, <1>7, <2>2 DEF Effect
  <2>3. CASE r.command = "DELETE"
    BY <1>3, <2>3, NoCells DEF Effect, ResponseShape
  <2>4. CASE r.command = "CLEAR"
    BY <1>4, <2>4 DEF Effect
  <2>. QED
    BY <2>1, <2>2, <2>3, <2>4 DEF ResponseShape, AllCommands
<1>. QED
  BY <1>5, <1>6, <1>7

(* The same of the child, when the response is the one it waits for and    *)
(* tells it to remove the cells it meant to remove.                        *)
LEMMA ChildEffect ==
  ASSUME NEW r, ResponseShape(r), Acts(r), ItsOwn(r), notifyResponse(r),
         Awaited \in {"DELETE", "RELOCATE"} =>
           CellsOf(celllist_toDelete) = CellsOf(r.remove)
  PROVE  /\ Changes(r) =>
              /\ childCells' = Effect(r, childCells)
              /\ childGeneration' = EffectOnGeneration(r, childGeneration)
         /\ ~Changes(r) => childCells' = childCells /\ childGeneration' = childGeneration
<1>1. /\ Awaited = r.command /\ r.returnCode = "SUCCESS"
      /\ r.command \in {"ADD", "DELETE", "RELOCATE", "CLEAR"}
  BY DEF Acts, ItsOwn, ResponseShape, AllCommands
<1>2. /\ childCells' = ChildAfter(r)
      /\ childGeneration' = IF r.command = "CLEAR" THEN 0
                            ELSE IF ChildChanges(r) THEN NextGeneration(childGeneration)
                                 ELSE childGeneration
  BY <1>1 DEF notifyResponse
<1>3. CASE r.command = "ADD"
  <2>1. /\ ChildAfter(r) = childCells \cup CellsOf(r.add)
        /\ ChildChanges(r) <=> r.add # <<>>
    BY <1>1, <1>3 DEF ChildAfter, ChildChanges, Payload
  <2>2. r.remove = <<>> /\ (Changes(r) <=> r.add # <<>>)
    BY <1>3 DEF ResponseShape, Changes
  <2>. QED
    BY <1>2, <1>3, <2>1, <2>2, NoCells DEF Effect, EffectOnGeneration
<1>4. CASE r.command = "DELETE"
  <2>1. ChildAfter(r) = childCells \ CellsOf(r.remove) /\ ChildChanges(r)
    BY <1>1, <1>4 DEF ChildAfter, ChildChanges
  <2>2. r.add = <<>> /\ Changes(r)
    BY <1>1, <1>4 DEF ResponseShape, Changes
  <2>. QED
    BY <1>2, <1>4, <2>1, <2>2, NoCells DEF Effect, EffectOnGeneration
<1>5. CASE r.command = "RELOCATE"
  <2>1. /\ ChildAfter(r) = (childCells \ CellsOf(r.remove)) \cup CellsOf(r.add)
        /\ ChildChanges(r)
    BY <1>1, <1>5 DEF ChildAfter, ChildChanges, Payload
  <2>2. Changes(r)
    BY <1>1, <1>5 DEF ResponseShape, Changes
  <2>. QED
    BY <1>2, <1>5, <2>1, <2>2 DEF Effect, EffectOnGeneration
<1>6. CASE r.command = "CLEAR"
  <2>1. ChildAfter(r) = {}
    BY <1>1, <1>6 DEF ChildAfter
  <2>2. Changes(r)
    BY <1>1, <1>6 DEF Changes
  <2>. QED
    BY <1>2, <1>6, <2>1, <2>2 DEF Effect, EffectOnGeneration
<1>. QED
  BY <1>1, <1>3, <1>4, <1>5, <1>6

(* What it means that a response causes no trouble.                        *)
LEMMA NoNewTrouble ==
  ASSUME NEW r, NEW others, NEW received \in BOOLEAN, NEW acted \in BOOLEAN,
         NEW gone \in BOOLEAN, NEW acked \in BOOLEAN,
         NewTrouble(r, others, received, acted, gone, acked) = {}
  PROVE  /\ received /\ Acts(r) => ItsOwn(r)
         /\ received /\ Acts(r) /\ Awaited \in {"DELETE", "RELOCATE"} =>
              CellsOf(celllist_toDelete) = CellsOf(r.remove)
         /\ acked => CellsOf(r.add) \subseteq ParentAfter(r)
         /\ acked /\ Changes(r) => acted /\ \A other \in others : ~other.acted
         /\ gone /\ ~acked /\ Changes(r) => ~acted
<1>. DEFINE N == NewTrouble(r, others, received, acted, gone, acked)
<1>1. "stale" \notin N /\ "deletedMore" \notin N /\ "noRoom" \notin N
      /\ "overtaken" \notin N /\ "ignored" \notin N /\ "ackLost" \notin N
  OBVIOUS
<1>. HIDE DEF N
<1>2. received /\ Acts(r) => ItsOwn(r)
  BY <1>1 DEF N, NewTrouble, Troubles
<1>3. ~(/\ received /\ Acts(r) /\ ItsOwn(r)
        /\ Awaited \in {"DELETE", "RELOCATE"}
        /\ CellsOf(celllist_toDelete) # CellsOf(r.remove))
  BY <1>1 DEF N, NewTrouble, Troubles
<1>4. acked => CellsOf(r.add) \subseteq ParentAfter(r)
  BY <1>1 DEF N, NewTrouble, Troubles
<1>5. ~(acked /\ Changes(r) /\ \E other \in others : other.acted)
  BY <1>1 DEF N, NewTrouble, Troubles
<1>6. ~(acked /\ Changes(r) /\ ~acted)
  BY <1>1 DEF N, NewTrouble, Troubles
<1>7. ~(gone /\ ~acked /\ Changes(r) /\ acted)
  BY <1>1 DEF N, NewTrouble, Troubles
<1>. QED
  BY <1>2, <1>3, <1>4, <1>5, <1>6, <1>7

-----------------------------------------------------------------------------
(* Each step preserves the invariant.                                      *)
-----------------------------------------------------------------------------

LEMMA SixInit == Init => SixInv
BY DEF Init, SixInv, Shapes, Distinct, ActedOnce, Books, Pending

(* A request of the child has a sequence number of its own.                *)
LEMMA RequestStep ==
  ASSUME SixInv, MayRequest, NEW command \in AllCommands, NEW numCells,
         NEW toAdd, NEW toDelete,
         sixtop_request(command, numCells, toAdd, toDelete),
         UNCHANGED <<childCells, childGeneration, parentCells, parentGeneration,
                     responses, trouble>>
  PROVE  SixInv'
<1>1. Shapes /\ Distinct /\ ActedOnce /\ Books
  BY DEF SixInv
<1>2. Books'
  BY <1>1 DEF Books, Pending, Changes
<1>3. CASE UNCHANGED <<requests, sequenceNumber, six2six_state>>
  BY <1>1, <1>2, <1>3 DEF SixInv, Shapes, RequestShape, ResponseShape, Distinct,
     ActedOnce
<1>4. ASSUME NEW new, new = [command |-> command, numCells |-> numCells,
              list |-> Reverse(toDelete) \o Reverse(toAdd),
              generation |-> childGeneration, seqNum |-> sequenceNumber,
              retriesLeft |-> TXRETRIES + 1],
             requests' = requests \cup {new}, sequenceNumber' = sequenceNumber + 1
      PROVE  SixInv'
  <2>1. sequenceNumber \in Nat /\ TXRETRIES \in Nat
    BY <1>1, SixPAssumption DEF Shapes
  <2>2. new.seqNum = sequenceNumber /\ RequestShape(new)
    BY <1>4, <2>1 DEF RequestShape
  <2>3. requests' = requests \cup {new} /\ sequenceNumber' = sequenceNumber + 1
    BY <1>4
  <2>4. \A req \in requests : req.seqNum \in Nat /\ req.seqNum < sequenceNumber
    BY <1>1 DEF Shapes, RequestShape
  <2>5. \A r \in responses : r.seqNum \in Nat /\ r.seqNum < sequenceNumber
    BY <1>1 DEF Shapes, ResponseShape
  <2>6. Shapes'
    <3>1. sequenceNumber' \in Nat /\ sequenceNumber < sequenceNumber'
      BY <2>3, <2>1
    <3>2. \A req \in requests' : RequestShape(req) /\ req.seqNum < sequenceNumber'
      BY <1>1, <2>3, <2>1, <2>2, <2>4, <3>1 DEF Shapes
    <3>3. \A r \in responses' : ResponseShape(r) /\ r.seqNum < sequenceNumber'
      BY <1>1, <2>3, <2>1, <2>5, <3>1 DEF Shapes
    <3>. QED
      BY <3>1, <3>2, <3>3 DEF Shapes, RequestShape, ResponseShape
  <2>7. Distinct'
    BY <1>1, <2>3, <2>1, <2>2, <2>4, <2>5 DEF Distinct
  <2>8. ActedOnce'
    BY <1>1, <2>3, <2>1, <2>5 DEF ActedOnce
  <2>. QED
    BY <1>2, <2>6, <2>7, <2>8 DEF SixInv
<1>. QED
  BY <1>3, <1>4 DEF sixtop_request

LEMMA EstimateStep ==
  ASSUME SixInv, sf0_bandwidthEstimate_task
  PROVE  SixInv'
<1>1. /\ MayRequest
      /\ UNCHANGED <<childCells, childGeneration, parentCells, parentGeneration,
                     responses, trouble>>
  BY DEF sf0_bandwidthEstimate_task, parentVars
<1>2. CASE Reserved
  BY <1>1, <1>2 DEF Reserved, SixInv, Shapes, RequestShape, ResponseShape, Distinct,
     ActedOnce, Books, Pending, Changes
<1>3. ASSUME NEW command \in AllCommands, NEW numCells, NEW toAdd, NEW toDelete,
             sixtop_request(command, numCells, toAdd, toDelete)
      PROVE  SixInv'
  BY <1>1, <1>3, RequestStep
<1>. QED
  BY <1>2, <1>3 DEF sf0_bandwidthEstimate_task, AllCommands

LEMMA ApplicationStep ==
  ASSUME SixInv, ApplicationRequest
  PROVE  SixInv'
<1>1. /\ MayRequest
      /\ UNCHANGED <<childCells, childGeneration, parentCells, parentGeneration,
                     responses, trouble>>
  BY DEF ApplicationRequest, parentVars
<1>2. ASSUME NEW command \in AllCommands, NEW numCells, NEW toAdd, NEW toDelete,
             sixtop_request(command, numCells, toAdd, toDelete)
      PROVE  SixInv'
  BY <1>1, <1>2, RequestStep
<1>. QED
  BY <1>2, SixPAssumption DEF ApplicationRequest, AllCommands

LEMMA TimerStep ==
  ASSUME SixInv, sixtop_timeout_timer_cb
  PROVE  SixInv'
BY DEF sixtop_timeout_timer_cb, parentVars, SixInv, Shapes, RequestShape,
   ResponseShape, Distinct, ActedOnce, Books, Pending, Changes

LEMMA TimeoutStep ==
  ASSUME SixInv, timer_sixtop_six2six_timeout_fired
  PROVE  SixInv'
BY DEF timer_sixtop_six2six_timeout_fired, parentVars, SixInv, Shapes, RequestShape,
   ResponseShape, Distinct, ActedOnce, Books, Pending, Changes

(* The response to a request names cells as its command does.              *)
LEMMA AnswerShape ==
  ASSUME NEW req, RequestShape(req), NEW busy \in BOOLEAN, NEW r,
         LET ok == ~Refused(req, busy) IN
         r = [command |-> req.command, seqNum |-> req.seqNum,
              returnCode |-> IF ok THEN "SUCCESS" ELSE "ERROR",
              remove |-> IF ok THEN ToRemove(req) ELSE <<>>,
              add |-> IF ok THEN ToAdd(req) ELSE <<>>,
              retriesLeft |-> TXRETRIES + 1,
              copy |-> req.retriesLeft, acted |-> FALSE]
  PROVE  /\ ResponseShape(r) /\ ~r.acted
         /\ r.seqNum = req.seqNum /\ r.copy = req.retriesLeft
<1>1. /\ r.command = req.command /\ r.seqNum = req.seqNum /\ r.acted = FALSE
      /\ r.copy = req.retriesLeft
      /\ r = [command |-> r.command, seqNum |-> r.seqNum,
              returnCode |-> r.returnCode, remove |-> r.remove, add |-> r.add,
              retriesLeft |-> r.retriesLeft, copy |-> r.copy, acted |-> r.acted]
  OBVIOUS
<1>2. CASE Refused(req, busy)
  <2>1. r.returnCode = "ERROR" /\ r.remove = <<>> /\ r.add = <<>>
    BY <1>2
  <2>. QED
    BY <1>1, <2>1 DEF RequestShape, ResponseShape
<1>3. CASE ~Refused(req, busy)
  <2>1. r.returnCode = "SUCCESS" /\ r.remove = ToRemove(req) /\ r.add = ToAdd(req)
    BY <1>3
  <2>2. ToRemove(req) # <<>> => req.command \in {"DELETE", "RELOCATE"}
    BY DEF ToRemove
  <2>3. req.command \in {"DELETE", "RELOCATE"} => ToRemove(req) # <<>>
    BY <1>3 DEF ToRemove, Refused
  <2>4. ToAdd(req) # <<>> => req.command \in {"ADD", "RELOCATE"}
    BY DEF ToAdd
  <2>. QED
    BY <1>1, <2>1, <2>2, <2>3, <2>4 DEF RequestShape, ResponseShape
<1>. QED
  BY <1>2, <1>3

(* Each copy of a request is answered by a response of its own, on which   *)
(* the child has not acted.                                                *)
LEMMA SendRequestStep ==
  ASSUME SixInv, SendRequest
  PROVE  SixInv'
<1>1. PICK req \in requests, outcome \in {"acked", "ackLost", "lost"} :
        /\ IF outcome = "lost" THEN UNCHANGED responses ELSE notifyRequest(req)
        /\ IF outcome = "acked" \/ req.retriesLeft = 1
           THEN /\ requests' = requests \ {req}
                /\ requestSendDone(IF outcome = "acked" THEN "E_SUCCESS"
                                   ELSE "E_FAIL")
           ELSE /\ requests' = (requests \ {req}) \cup
                                 {[req EXCEPT !.retriesLeft = @ - 1]}
                /\ UNCHANGED <<six2six_state, handler, timeoutTimer>>
        /\ UNCHANGED <<celllist_toDelete, childCells, childGeneration,
                       sequenceNumber, parentVars, trouble>>
  BY DEF SendRequest
<1>2. Shapes /\ Distinct /\ ActedOnce /\ Books /\ RequestShape(req)
  BY DEF SixInv, Shapes
<1>. DEFINE less == [req EXCEPT !.retriesLeft = @ - 1]
<1>3. /\ less.seqNum = req.seqNum /\ less.retriesLeft = req.retriesLeft - 1
      /\ RequestShape(less)
  BY <1>2 DEF RequestShape
<1>4. requests' = requests \ {req} \/ requests' = (requests \ {req}) \cup {less}
  BY <1>1
<1>. HIDE DEF less
<1>5. responses' = responses \/ \E r : /\ responses' = responses \cup {r}
                                       /\ ResponseShape(r) /\ ~r.acted
                                       /\ r.seqNum = req.seqNum
                                       /\ r.copy = req.retriesLeft
  <2>1. CASE UNCHANGED responses
    BY <2>1
  <2>2. CASE notifyRequest(req)
    BY <1>2, <2>2, AnswerShape DEF notifyRequest
  <2>. QED
    BY <1>1, <2>1, <2>2
<1>6. /\ sequenceNumber' = sequenceNumber /\ trouble' = trouble
      /\ childCells' = childCells /\ childGeneration' = childGeneration
      /\ parentCells' = parentCells /\ parentGeneration' = parentGeneration
  BY <1>1 DEF parentVars
<1>7. six2six_state = IDLE => six2six_state' = IDLE
  BY <1>1 DEF requestSendDone, IDLE
<1>8. Shapes'
  BY <1>2, <1>3, <1>4, <1>5, <1>6 DEF Shapes, RequestShape, ResponseShape
<1>9. Distinct'
  <2>1. req.retriesLeft \in Int
    BY <1>2 DEF RequestShape
  <2>2. \A q \in requests' :
          \E p \in requests : /\ p.seqNum = q.seqNum
                              /\ (q = p /\ q # req) \/ (q = less /\ p = req)
    BY <1>3, <1>4
  <2>3. \A p, q \in requests' : p.seqNum = q.seqNum => p = q
    BY <1>2, <2>2 DEF Distinct
  <2>4. \A p, q \in responses' : p.seqNum = q.seqNum /\ p.copy = q.copy => p = q
    BY <1>2, <1>5, <2>1 DEF Distinct, Shapes, ResponseShape
  <2>5. ASSUME NEW q \in requests', NEW r \in responses', q.seqNum = r.seqNum
        PROVE  r.copy > q.retriesLeft
    <3>1. CASE r \in responses
      <4>1. \A p \in requests : p.seqNum = r.seqNum => r.copy > p.retriesLeft
        BY <1>2, <3>1 DEF Distinct
      <4>2. r.copy \in Int
        BY <1>2, <3>1 DEF Shapes, ResponseShape
      <4>. QED
        BY <1>3, <2>1, <2>2, <2>5, <4>1, <4>2
    <3>2. CASE r \notin responses
      <4>1. r.seqNum = req.seqNum /\ r.copy = req.retriesLeft
        BY <1>5, <3>2
      <4>2. q = less
        BY <1>2, <2>2, <2>5, <4>1 DEF Distinct
      <4>. QED
        BY <1>3, <2>1, <4>1, <4>2
    <3>. QED
      BY <3>1, <3>2
  <2>. QED
    BY <2>3, <2>4, <2>5 DEF Distinct
<1>10. ActedOnce'
  BY <1>2, <1>5, <1>6, <1>7 DEF ActedOnce
<1>11. Pending' = Pending
  BY <1>5 DEF Pending, Changes
<1>12. Books'
  BY <1>2, <1>6, <1>11 DEF Books
<1>. QED
  BY <1>8, <1>9, <1>10, <1>12 DEF SixInv

(* What is left of a response that will be sent again.                     *)
LEMMA KeptResponse ==
  ASSUME NEW command, NEW seqNum, NEW returnCode, NEW remove, NEW add,
         NEW left, NEW copy, NEW acted, NEW less, NEW now
  PROVE  [[command |-> command, seqNum |-> seqNum, returnCode |-> returnCode,
           remove |-> remove, add |-> add, retriesLeft |-> left,
           copy |-> copy, acted |-> acted]
            EXCEPT !.retriesLeft = less, !.acted = now] =
         [command |-> command, seqNum |-> seqNum, returnCode |-> returnCode,
          remove |-> remove, add |-> add, retriesLeft |-> less,
          copy |-> copy, acted |-> now]
<1>. DEFINE whole == [command |-> command, seqNum |-> seqNum,
                      returnCode |-> returnCode, remove |-> remove, add |-> add,
                      retriesLeft |-> left, copy |-> copy, acted |-> acted]
            one == [command |-> command, seqNum |-> seqNum,
                    returnCode |-> returnCode, remove |-> remove, add |-> add,
                    retriesLeft |-> less, copy |-> copy, acted |-> acted]
            both == [command |-> command, seqNum |-> seqNum,
                     returnCode |-> returnCode, remove |-> remove, add |-> add,
                     retriesLeft |-> less, copy |-> copy, acted |-> now]
<1>1. [whole EXCEPT !.retriesLeft = less] = one
  OBVIOUS
<1>2. [one EXCEPT !.acted = now] = both
  OBVIOUS
<1>3. [whole EXCEPT !.retriesLeft = less, !.acted = now] =
      [[whole EXCEPT !.retriesLeft = less] EXCEPT !.acted = now]
  OBVIOUS
<1>. QED
  BY <1>1, <1>2, <1>3

(* The response is received or not, acted upon or not, acknowledged or     *)
(* not, and gone afterwards or not.                                        *)
LEMMA SendResponseStep ==
  ASSUME SixInv, SendResponse
  PROVE  SixInv'
<1>1. PICK r \in responses, outcome \in {"acked", "ackLost", "lost"} :
    LET received == outcome # "lost"
        acked == outcome = "acked"
        gone  == acked \/ r.retriesLeft = 1
        acted == r.acted \/ (received /\ Acts(r) /\ ItsOwn(r))
        others == responses \ {r}
        last  == /\ requests = {} /\ others = {}
                 /\ r.seqNum = sequenceNumber - 1
    IN /\ acked \/ Lossy
       /\ IF received THEN notifyResponse(r) ELSE UNCHANGED childVars
       /\ IF gone
          THEN /\ responses' = others
               /\ responseSendDone(r, IF acked THEN "E_SUCCESS" ELSE "E_FAIL")
          ELSE /\ responses' = others \cup
                    {[r EXCEPT !.retriesLeft = @ - 1, !.acted = acted]}
               /\ UNCHANGED parentVars
       /\ trouble' = IF r.command = "CLEAR" /\ acked /\ acted /\ last THEN {}
                     ELSE trouble \cup NewTrouble(r, others, received, acted,
                                                  gone, acked)
       /\ UNCHANGED <<sequenceNumber, requests>>
  BY DEF SendResponse
<1>. DEFINE received == outcome # "lost"
            acked == outcome = "acked"
            gone  == acked \/ r.retriesLeft = 1
            acted == r.acted \/ (received /\ Acts(r) /\ ItsOwn(r))
            others == responses \ {r}
            last  == requests = {} /\ others = {} /\ r.seqNum = sequenceNumber - 1
            kept  == [r EXCEPT !.retriesLeft = @ - 1, !.acted = acted]
<1>2. /\ Shapes /\ Distinct /\ ActedOnce /\ Books /\ ResponseShape(r)
      /\ r.seqNum < sequenceNumber
  BY DEF SixInv, Shapes
<1>3. /\ received \in BOOLEAN /\ acked \in BOOLEAN /\ gone \in BOOLEAN
      /\ acked => received /\ gone
  OBVIOUS
<1>4. acted \in BOOLEAN
  BY <1>2 DEF ResponseShape
<1>5. acted <=> r.acted \/ (received /\ Acts(r) /\ ItsOwn(r))
  OBVIOUS
<1>6. /\ IF received THEN notifyResponse(r) ELSE UNCHANGED childVars
      /\ gone => /\ responses' = others
                 /\ responseSendDone(r, IF acked THEN "E_SUCCESS" ELSE "E_FAIL")
      /\ ~gone => responses' = others \cup {kept} /\ UNCHANGED parentVars
      /\ trouble' = IF r.command = "CLEAR" /\ acked /\ acted /\ last THEN {}
                    ELSE trouble \cup NewTrouble(r, others, received, acted,
                                                 gone, acked)
      /\ UNCHANGED <<sequenceNumber, requests>>
  BY <1>1
<1>. HIDE DEF received, acked, gone
<1>7. /\ kept.seqNum = r.seqNum /\ kept.copy = r.copy /\ kept.command = r.command
      /\ kept.remove = r.remove /\ kept.add = r.add
      /\ kept.returnCode = r.returnCode /\ kept.acted = acted
      /\ ResponseShape(kept)
  <2>. HIDE DEF acted
  <2>1. kept = [command |-> r.command, seqNum |-> r.seqNum,
                returnCode |-> r.returnCode, remove |-> r.remove, add |-> r.add,
                retriesLeft |-> r.retriesLeft - 1, copy |-> r.copy,
                acted |-> acted]
    <3>. DEFINE full == [command |-> r.command, seqNum |-> r.seqNum,
                returnCode |-> r.returnCode, remove |-> r.remove, add |-> r.add,
                retriesLeft |-> r.retriesLeft, copy |-> r.copy,
                acted |-> r.acted]
    <3>1. r = full
      BY <1>2 DEF ResponseShape
    <3>2. kept = [full EXCEPT !.retriesLeft = r.retriesLeft - 1, !.acted = acted]
      BY <3>1
    <3>. HIDE DEF kept
    <3>. QED
      BY <3>2, KeptResponse
  <2>. HIDE DEF kept
  <2>2. /\ kept.seqNum = r.seqNum /\ kept.copy = r.copy /\ kept.command = r.command
        /\ kept.remove = r.remove /\ kept.add = r.add
        /\ kept.returnCode = r.returnCode /\ kept.acted = acted
        /\ kept.retriesLeft = r.retriesLeft - 1
    BY <2>1
  <2>. QED
    BY <1>2, <1>4, <2>1, <2>2 DEF ResponseShape
<1>. HIDE DEF acted, kept
<1>8. \A q \in responses' : q \in others \/ (~gone /\ q = kept)
  BY <1>6
(* The child.                                                              *)
<1>9. received /\ Acts(r) => notifyResponse(r) /\ six2six_state' = IDLE
  BY <1>6 DEF notifyResponse
<1>10. ~(received /\ Acts(r)) =>
         childCells' = childCells /\ childGeneration' = childGeneration
  BY <1>6 DEF notifyResponse, childVars
<1>11. six2six_state = IDLE => ~Acts(r) /\ six2six_state' = IDLE
  BY <1>6 DEF Acts, Awaited, IDLE, notifyResponse, childVars
<1>12. r.acted => ~(received /\ Acts(r) /\ ItsOwn(r))
  BY <1>2, <1>11 DEF ItsOwn, ActedOnce
(* The parent.                                                             *)
<1>13. acked /\ r.returnCode = "SUCCESS" =>
         /\ parentCells' = ParentAfter(r)
         /\ Changes(r) => parentGeneration' = EffectOnGeneration(r, parentGeneration)
         /\ ~Changes(r) => parentGeneration' = parentGeneration
  BY <1>3, <1>6 DEF responseSendDone, EffectOnGeneration, Changes
<1>14. ~(acked /\ r.returnCode = "SUCCESS") =>
         parentCells' = parentCells /\ parentGeneration' = parentGeneration
  BY <1>6 DEF responseSendDone, parentVars
<1>15. Shapes'
  <2>1. \A q \in responses' : ResponseShape(q) /\ q.seqNum < sequenceNumber'
    BY <1>2, <1>6, <1>7, <1>8 DEF Shapes
  <2>. QED
    BY <1>2, <1>6, <2>1 DEF Shapes, RequestShape, ResponseShape
<1>16. Distinct'
  <2>1. \A q \in responses' :
          \E p \in responses : /\ p.seqNum = q.seqNum /\ p.copy = q.copy
                               /\ (q = p /\ q # r) \/ (q = kept /\ p = r)
    BY <1>7, <1>8
  <2>. QED
    BY <1>2, <1>6, <2>1 DEF Distinct
<1>17. ActedOnce'
  <2>1. SUFFICES ASSUME NEW q \in responses', q.acted
                 PROVE  /\ q.returnCode = "SUCCESS"
                        /\ q.seqNum = sequenceNumber - 1 =>
                             /\ six2six_state' = IDLE
                             /\ q.command = "CLEAR" =>
                                  childCells' = {} /\ childGeneration' = 0
    BY <1>6 DEF ActedOnce
  <2>2. ASSUME NEW p \in responses, p.acted, p.returnCode = q.returnCode,
               p.seqNum = q.seqNum, p.command = q.command
        PROVE  /\ q.returnCode = "SUCCESS"
               /\ q.seqNum = sequenceNumber - 1 =>
                    /\ six2six_state' = IDLE
                    /\ q.command = "CLEAR" =>
                         childCells' = {} /\ childGeneration' = 0
    BY <1>2, <1>10, <1>11, <2>2 DEF ActedOnce
  <2>3. CASE q = kept /\ ~r.acted
    <3>1. received /\ Acts(r) /\ ItsOwn(r)
      BY <1>5, <1>7, <2>1, <2>3
    <3>2. r.command = "CLEAR" => childCells' = {} /\ childGeneration' = 0
      BY <1>9, <3>1 DEF ItsOwn, notifyResponse, ChildAfter
    <3>. QED
      BY <1>7, <1>9, <2>3, <3>1, <3>2 DEF Acts
  <2>4. CASE q = kept /\ r.acted
    BY <1>7, <2>2, <2>4
  <2>. QED
    BY <1>8, <2>1, <2>2, <2>3, <2>4
<1>18. Books'
  <2>1. SUFFICES ASSUME trouble' = {}
                 PROVE  /\ Pending' = {} => /\ childCells' = parentCells'
                                            /\ childGeneration' = parentGeneration'
                        /\ \A q \in Pending' : Pending' = {q} =>
                             /\ childCells' = Effect(q, parentCells')
                             /\ childGeneration' =
                                  EffectOnGeneration(q, parentGeneration')
    BY DEF Books
  <2>2. CASE r.command = "CLEAR" /\ acked /\ acted /\ last
    <3>1. Pending' = {}
      BY <1>3, <1>6, <2>2 DEF Pending
    <3>2. childCells' = {} /\ childGeneration' = 0 /\ r.returnCode = "SUCCESS"
      <4>1. CASE r.acted
        BY <1>2, <1>10, <1>11, <2>2, <4>1 DEF ActedOnce
      <4>2. CASE received /\ Acts(r) /\ ItsOwn(r)
        BY <1>9, <2>2, <4>2 DEF ItsOwn, notifyResponse, ChildAfter, Acts
      <4>. QED
        BY <1>5, <2>2, <4>1, <4>2
    <3>3. parentCells' = {} /\ parentGeneration' = 0
      BY <1>13, <2>2, <3>2 DEF ParentAfter, EffectOnGeneration, Changes
    <3>. QED
      BY <3>1, <3>2, <3>3
  <2>3. CASE ~(r.command = "CLEAR" /\ acked /\ acted /\ last)
    <3>1. trouble = {} /\ NewTrouble(r, others, received, acted, gone, acked) = {}
      BY <1>6, <2>1, <2>3
    <3>2. /\ received /\ Acts(r) => ItsOwn(r)
          /\ received /\ Acts(r) /\ Awaited \in {"DELETE", "RELOCATE"} =>
               CellsOf(celllist_toDelete) = CellsOf(r.remove)
          /\ acked => CellsOf(r.add) \subseteq ParentAfter(r)
          /\ acked /\ Changes(r) => acted /\ \A other \in others : ~other.acted
          /\ gone /\ ~acked /\ Changes(r) => ~acted
      <4>. HIDE DEF others
      <4>. QED
        BY <1>3, <1>4, <3>1, NoNewTrouble
    <3>. DEFINE now == received /\ Acts(r)
    <3>3. now => acted /\ ~r.acted
      BY <1>5, <1>12, <3>2
    <3>4. ~now /\ acted => r.acted
      BY <1>5
    <3>5. now => IF Changes(r)
                 THEN /\ childCells' = Effect(r, childCells)
                      /\ childGeneration' = EffectOnGeneration(r, childGeneration)
                 ELSE childCells' = childCells /\ childGeneration' = childGeneration
      BY <1>2, <1>9, <3>2, ChildEffect
    <3>6. ~now => childCells' = childCells /\ childGeneration' = childGeneration
      BY <1>10
    <3>. HIDE DEF now
    <3>7. acked /\ Changes(r) => /\ parentCells' = Effect(r, parentCells)
                                 /\ parentGeneration' =
                                      EffectOnGeneration(r, parentGeneration)
      <4>1. Changes(r) => r.returnCode = "SUCCESS"
        BY <1>2 DEF Changes, ResponseShape
      <4>. QED
        BY <1>2, <1>13, <3>2, <4>1, ParentEffect
    <3>8. ~(acked /\ Changes(r)) =>
            parentCells' = parentCells /\ parentGeneration' = parentGeneration
      BY <1>2, <1>13, <1>14, ParentEffect
    <3>9. /\ Changes(kept) <=> Changes(r)
          /\ \A cells : Effect(kept, cells) = Effect(r, cells)
          /\ \A n : EffectOnGeneration(kept, n) = EffectOnGeneration(r, n)
      BY <1>7 DEF Changes, Effect, EffectOnGeneration
    <3>10. /\ Pending = {} => /\ childCells = parentCells
                              /\ childGeneration = parentGeneration
           /\ \A q \in Pending : Pending = {q} =>
                /\ childCells = Effect(q, parentCells)
                /\ childGeneration = EffectOnGeneration(q, parentGeneration)
      BY <1>2, <3>1 DEF Books
    <3>11. Pending' = {q \in others : q.acted /\ Changes(q)} \cup
                      (IF ~gone /\ acted /\ Changes(r) THEN {kept} ELSE {})
      BY <1>6, <1>7, <3>9 DEF Pending, Changes
    <3>12. Pending = {q \in others : q.acted /\ Changes(q)} \cup
                     (IF r.acted /\ Changes(r) THEN {r} ELSE {})
      BY DEF Pending
    <3>13. kept \notin others /\ r \notin others
      BY <1>2, <1>7 DEF Distinct
    <3>. DEFINE rest == {q \in others : q.acted /\ Changes(q)}
    <3>14. kept \notin rest /\ r \notin rest
      BY <3>13
    <3>15. acked /\ Changes(r) => rest = {}
      BY <3>2
    <3>16. /\ Pending' = rest \cup (IF ~gone /\ acted /\ Changes(r) THEN {kept} ELSE {})
           /\ Pending = rest \cup (IF r.acted /\ Changes(r) THEN {r} ELSE {})
      BY <3>11, <3>12
    <3>. HIDE DEF rest, others
    <3>17. CASE ~Changes(r)
      <4>1. Pending' = Pending
        BY <3>16, <3>17
      <4>. QED
        BY <3>5, <3>6, <3>8, <3>10, <3>17, <4>1
    <3>18. CASE Changes(r) /\ acked
      <4>1. Pending' = {} /\ acted
        BY <1>3, <3>2, <3>15, <3>16, <3>18
      <4>2. CASE r.acted
        <5>1. Pending = {r}
          BY <3>15, <3>16, <3>18, <4>2
        <5>. QED
          BY <3>3, <3>6, <3>7, <3>10, <3>18, <4>1, <4>2, <5>1
      <4>3. CASE ~r.acted
        <5>1. Pending = {} /\ now
          BY <3>4, <3>15, <3>16, <3>18, <4>1, <4>3
        <5>. QED
          BY <3>5, <3>7, <3>10, <3>18, <4>1, <5>1
      <4>. QED
        BY <4>2, <4>3
    <3>19. CASE Changes(r) /\ ~acked /\ ~acted
      <4>1. Pending' = Pending /\ ~now
        BY <1>5, <3>3, <3>16, <3>19
      <4>. QED
        BY <3>6, <3>8, <3>10, <3>19, <4>1
    <3>20. CASE Changes(r) /\ ~acked /\ acted
      <4>1. ~gone /\ kept \in Pending' /\ rest \subseteq Pending'
        BY <3>2, <3>16, <3>20
      <4>2. \A q \in Pending' : Pending' = {q} => q = kept /\ rest = {}
        BY <3>14, <4>1
      <4>3. CASE r.acted
        <5>1. rest = {} => Pending = {r}
          BY <3>16, <3>20, <4>3
        <5>. QED
          BY <3>3, <3>6, <3>8, <3>9, <3>10, <3>20, <4>1, <4>2, <4>3, <5>1
      <4>4. CASE ~r.acted
        <5>1. now /\ (rest = {} => Pending = {})
          BY <3>4, <3>16, <3>20, <4>4
        <5>. QED
          BY <3>5, <3>8, <3>9, <3>10, <3>20, <4>1, <4>2, <5>1
      <4>. QED
        BY <4>3, <4>4
    <3>. QED
      BY <3>17, <3>18, <3>19, <3>20
  <2>. QED
    BY <2>2, <2>3
<1>. QED
  BY <1>15, <1>16, <1>17, <1>18 DEF SixInv

LEMMA SixStep == SixInv /\ [Next]_vars => SixInv'
<1>. SUFFICES ASSUME SixInv, [Next]_vars PROVE SixInv'
  OBVIOUS
<1>1. CASE UNCHANGED vars
  BY <1>1 DEF vars, childVars, parentVars, SixInv, Shapes, RequestShape,
     ResponseShape, Distinct, ActedOnce, Books, Pending, Changes
<1>2. CASE Next
  BY <1>2, EstimateStep, ApplicationStep, SendRequestStep, SendResponseStep,
     TimerStep, TimeoutStep DEF Next
<1>. QED
  BY <1>1, <1>2

(* The invariant the next theorem is read off.                             *)
THEOREM SixInvariant == Spec => []SixInv
BY SixInit, SixStep, PTL DEF Spec

(* However many transactions there are, and whatever is lost, sent again   *)
(* or refused in them, the two sides have the same cells and generation    *)
(* when no transaction is under way, up to one of the troubles             *)
(* (sixtop_six2six_notifyReceive, sixtop_six2six_sendDone).                *)
THEOREM SidesAgree == Spec => []Agree
<1>1. SixInv => Agree
  BY DEF SixInv, Books, Agree, Quiet, Pending
<1>. QED
  BY <1>1, SixInvariant, PTL
=============================================================================
