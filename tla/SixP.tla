-------------------------------- MODULE SixP --------------------------------
(***************************************************************************)
(* Negotiation of cells: the 6P transactions of                            *)
(* openstack/02b-MAChigh/sixtop.c, between a mote (the child) and its      *)
(* preferred parent.                                                       *)
(*                                                                         *)
(* The child sends a request, and changes its schedule when the response   *)
(* comes.  The parent answers a request with what it is going to do, and   *)
(* changes its schedule when its response was acknowledged.  Each side     *)
(* counts the changes of its schedule (the generation); a request carries  *)
(* the child's count and is refused if it is not the parent's.             *)
(*                                                                         *)
(* A frame is sent up to TXRETRIES + 1 times: it or its ACK may be lost,   *)
(* and nothing filters the copies of a frame whose ACK was lost.  Packets  *)
(* in a queue may go out in any order.  The tasks for a frame run before   *)
(* the next frame between the two motes is sent; the task that the timer of*)
(* a transaction posts may run later.  COUNT and LIST, which change no     *)
(* schedule, are left out.                                                 *)
(***************************************************************************)
EXTENDS Integers, Sequences, SequencesExt, FiniteSetsExt

CONSTANTS
  Slots,              \* slot offsets left to negotiate
  CELLLIST_MAX_LEN,   \* cells in a request
  SF0THRESHOLD,       \* cells that SF0 removes at a time
  Generations,        \* those the two may have got to when this begins
  Demands,            \* cells that SF0 may find required
  Commands,           \* commands of applications, besides those of SF0
  OthersSlots,        \* slots in which the parent may have other cells
  Room,               \* entries left in the parent's schedule
  TXRETRIES,
  QueueLength,        \* packets of 6P in the queue of a mote
  MaxRequests,        \* bound on the requests sent
  Lossy               \* frames and ACKs may be lost

ASSUME SixPAssumption ==
  /\ Slots \subseteq Nat /\ OthersSlots \subseteq Slots
  /\ Generations \subseteq 0 .. 8
  /\ {CELLLIST_MAX_LEN, SF0THRESHOLD, QueueLength} \subseteq Nat \ {0}
  /\ {Room, TXRETRIES, MaxRequests} \subseteq Nat /\ Demands \subseteq Nat
  /\ Commands \subseteq {"RELOCATE", "CLEAR"}
  /\ Lossy \in BOOLEAN

VARIABLES
  \* of the child: sixtop_vars, its cells to the parent, and what
  \* neighbors.c keeps of the parent
  six2six_state, handler, celllist_toDelete, timeoutTimer, timeoutPosted,
  childCells, childGeneration, sequenceNumber,
  \* of the parent; the slots in which it has cells with others
  parentCells, parentGeneration, parentTaken,
  \* packets to be sent, by the child and by the parent
  requests, responses,
  \* how the two have come to differ, which no variable of the code holds
  trouble

childVars == <<six2six_state, handler, celllist_toDelete, timeoutTimer,
               timeoutPosted, childCells, childGeneration>>
parentVars == <<parentCells, parentGeneration, parentTaken>>
vars == <<childVars, sequenceNumber, parentVars, requests, responses, trouble>>

AllCommands == {"ADD", "DELETE", "RELOCATE", "CLEAR"}
IDLE == <<"IDLE", "none">>
States == {IDLE} \cup
          {<<wait, cmd>> : wait \in {"SENDDONE", "RESPONSE"},
                           cmd \in AllCommands}

(* ERROR stands for the refusals, which the child does not tell apart.  EOL*)
(* is a success that only LIST has.                                        *)
ReturnCodes == {"SUCCESS", "ERROR"}

(* The cells a list of cells names.                                        *)
CellsOf(list) == ToSet(list)
ListsUpTo(max) == UNION {[1 .. n -> Slots] : n \in 0 .. max}
Lists == ListsUpTo(CELLLIST_MAX_LEN)

-----------------------------------------------------------------------------
(* The two agree, after any number of transactions.                        *)
Init ==
  /\ six2six_state = IDLE /\ handler = "NONE"
  /\ celllist_toDelete = <<>> /\ timeoutTimer = "off"
  /\ timeoutPosted = FALSE
  /\ parentCells \in SUBSET Slots /\ Cardinality(parentCells) <= Room
  /\ parentTaken \in SUBSET (OthersSlots \ parentCells)
  /\ childCells = parentCells
  /\ parentGeneration \in Generations /\ childGeneration = parentGeneration
  /\ sequenceNumber = 0
  /\ requests = {} /\ responses = {}
  /\ trouble = {}

(* Mutant: only whether the generation is even is kept.                    *)
NextGenerationOfTwo(generation) == (generation + 1) % 2

NextGeneration(generation) == (generation + 1) % 9

(* sixtop_addCells into a schedule that holds cells and has room for more: *)
(* those of the list go in, in its order, until there is no room left.     *)
AddCells(cells, list, room) ==
  LET fits(n) == Cardinality(cells \cup {list[i] : i \in 1 .. n}) <= room
  IN cells \cup {list[n] : n \in {m \in DOMAIN list : fits(m)}}

Relocate(cells, remove, add, room) == AddCells(cells \ remove, add, room)

-----------------------------------------------------------------------------
(* Requests of the child.                                                  *)

(* sixtop_request; the caller has reserved sixtop for SF0.  A list is      *)
(* written from the end of the packet, and read from its beginning.        *)
sixtop_request(command, numCells, toAdd, toDelete) ==
  IF Cardinality(requests) = QueueLength
  THEN /\ handler' = "NONE"
       /\ UNCHANGED <<six2six_state, celllist_toDelete, requests,
                      sequenceNumber>>
  ELSE /\ requests' = requests \cup
            {[command |-> command, numCells |-> numCells,
              list |-> Reverse(toDelete) \o Reverse(toAdd),
              generation |-> childGeneration, seqNum |-> sequenceNumber,
              retriesLeft |-> TXRETRIES + 1]}
       /\ sequenceNumber' = sequenceNumber + 1
       /\ celllist_toDelete' =
            IF command \in {"DELETE", "RELOCATE"} THEN toDelete
            ELSE celllist_toDelete
       /\ six2six_state' = <<"SENDDONE", command>>
       /\ handler' = "SF0"

(* The slots drawn at random that are free; a slot may be drawn twice.     *)
AddCandidates == {list \in Lists : CellsOf(list) \cap childCells = {}}

(* The first of the cells to the parent, in the order of their slots.      *)
RemoveCandidates ==
  LET inOrder == SetToSortSeq(childCells, <)
  IN SubSeq(inOrder, 1, Min({Len(inOrder), CELLLIST_MAX_LEN}))

MayRequest == /\ six2six_state = IDLE /\ handler = "NONE"
              /\ sequenceNumber < MaxRequests

(* sf0_bandwidthEstimate_task.  When it finds no candidates it leaves      *)
(* sixtop reserved.                                                        *)
Reserved == handler' = "SF0"
            /\ UNCHANGED <<six2six_state, celllist_toDelete, requests,
                           sequenceNumber>>

sf0_bandwidthEstimate_task ==
  /\ MayRequest
  /\ \E required \in Demands :
       LET outgoing == Cardinality(childCells)
           missing  == required - outgoing + 1
       IN \/ /\ outgoing <= required
             /\ \E list \in AddCandidates :
                  IF Len(list) < missing THEN Reserved
                  ELSE sixtop_request("ADD", missing, list, <<>>)
          \/ /\ outgoing - SF0THRESHOLD > required
             /\ IF Len(RemoveCandidates) < SF0THRESHOLD THEN Reserved
                ELSE sixtop_request("DELETE", SF0THRESHOLD, <<>>,
                                    RemoveCandidates)
  /\ UNCHANGED <<timeoutTimer, timeoutPosted, childCells, childGeneration,
                 parentVars, responses, trouble>>

(* An application uses one of the other commands; it relocates one cell.   *)
ApplicationRequest ==
  /\ MayRequest
  /\ \/ \E command \in Commands \ {"RELOCATE"} :
          sixtop_request(command, 0, <<>>, <<>>)
     \/ /\ "RELOCATE" \in Commands
        /\ \E so \in childCells, list \in AddCandidates \ {<<>>} :
             sixtop_request("RELOCATE", 1, list, <<so>>)
  /\ UNCHANGED <<timeoutTimer, timeoutPosted, childCells, childGeneration,
                 parentVars, responses, trouble>>

(* Mutant: the timer is started only by the default branch of the switch.  *)
requestSendDoneUntimed(error) ==
  IF error = "E_FAIL"
  THEN /\ six2six_state' = IDLE /\ handler' = "NONE"
       /\ UNCHANGED timeoutTimer
  ELSE /\ IF six2six_state[1] = "SENDDONE"
          THEN /\ six2six_state' = <<"RESPONSE", six2six_state[2]>>
               /\ UNCHANGED timeoutTimer
          ELSE timeoutTimer' = "running" /\ UNCHANGED six2six_state
       /\ UNCHANGED handler

(* sixtop_six2six_sendDone of a request.                                   *)
requestSendDone(error) ==
  IF error = "E_FAIL"
  THEN /\ six2six_state' = IDLE /\ handler' = "NONE"
       /\ UNCHANGED timeoutTimer
  ELSE /\ six2six_state' =
            IF six2six_state[1] = "SENDDONE"
            THEN <<"RESPONSE", six2six_state[2]>> ELSE six2six_state
       /\ timeoutTimer' = "running"
       /\ UNCHANGED handler

(* The timer posts a task, which may run after the transaction has ended:  *)
(* to cancel the timer takes back no task.  It has run when the timer of a *)
(* later request expires.                                                  *)
sixtop_timeout_timer_cb ==
  /\ timeoutTimer = "running" /\ ~timeoutPosted
  /\ timeoutTimer' = "off" /\ timeoutPosted' = TRUE
  /\ UNCHANGED <<six2six_state, handler, celllist_toDelete, childCells,
                 childGeneration, sequenceNumber, parentVars, requests,
                 responses, trouble>>

timer_sixtop_six2six_timeout_fired ==
  /\ timeoutPosted
  /\ timeoutPosted' = FALSE
  /\ six2six_state' = IDLE /\ handler' = "NONE" /\ timeoutTimer' = "off"
  /\ UNCHANGED <<celllist_toDelete, childCells, childGeneration,
                 sequenceNumber, parentVars, requests, responses, trouble>>

-----------------------------------------------------------------------------
(* A request at the parent: sixtop_six2six_notifyReceive.                  *)

(* sixtop_areAvailableCellsToBeScheduled: the first free ones, as many as  *)
(* are wanted.                                                             *)
AvailableCells(list, numCells) ==
  LET free == SelectSeq(list, LAMBDA so :
                                so \notin parentCells \cup parentTaken)
  IN SubSeq(free, 1, Min({Len(free), numCells}))

(* sixtop_areAvailableCellsToBeRemoved: those before the first that is not *)
(* a cell with the child, as many as are wanted.                           *)
RemovableCells(list, numCells) ==
  LET ok == {n \in 0 .. Min({Len(list), numCells}) :
               \A i \in 1 .. n : list[i] \in parentCells}
  IN SubSeq(list, 1, Max(ok))

(* The request is refused for its generation, because the parent is in a   *)
(* transaction of its own, because it has too few entries left, or because *)
(* it has no such cells.                                                   *)
Refused(req, busy) ==
  \/ req.generation # parentGeneration /\ req.command # "CLEAR"
  \/ busy
  \/ req.command = "ADD" /\ Room - Cardinality(parentCells) < req.numCells
  \/ /\ req.command \in {"DELETE", "RELOCATE"}
     /\ RemovableCells(req.list, req.numCells) = <<>>

(* The cells the parent will remove, and those it will add.                *)
ToRemove(req) == IF req.command \in {"DELETE", "RELOCATE"}
                 THEN RemovableCells(req.list, req.numCells) ELSE <<>>
ToAdd(req) ==
  LET n == req.numCells IN
  CASE req.command = "ADD" -> AvailableCells(req.list, n)
    [] req.command = "RELOCATE" ->
         AvailableCells(SubSeq(req.list, n + 1, Len(req.list)), n)
    [] OTHER -> <<>>

(* copy tells the responses to the copies of a request apart; acted is set *)
(* when the child has done what the response says.                         *)
notifyRequest(req) ==
  IF Cardinality(responses) = QueueLength THEN UNCHANGED responses
  ELSE \E busy \in BOOLEAN :
         LET ok == ~Refused(req, busy) IN
         responses' = responses \cup
           {[command |-> req.command, seqNum |-> req.seqNum,
             returnCode |-> IF ok THEN "SUCCESS" ELSE "ERROR",
             remove |-> IF ok THEN ToRemove(req) ELSE <<>>,
             add |-> IF ok THEN ToAdd(req) ELSE <<>>,
             retriesLeft |-> TXRETRIES + 1,
             copy |-> req.retriesLeft, acted |-> FALSE]}

(* A request is sent.  It is kept for a retry while its ACK does not come. *)
SendRequest ==
  \E req \in requests, outcome \in {"acked", "ackLost", "lost"} :
    /\ outcome = "acked" \/ Lossy
    /\ IF outcome = "lost" THEN UNCHANGED responses ELSE notifyRequest(req)
    /\ IF outcome = "acked" \/ req.retriesLeft = 1
       THEN /\ requests' = requests \ {req}
            /\ requestSendDone(IF outcome = "acked" THEN "E_SUCCESS"
                               ELSE "E_FAIL")
       ELSE /\ requests' = (requests \ {req}) \cup
                             {[req EXCEPT !.retriesLeft = @ - 1]}
            /\ UNCHANGED <<six2six_state, handler, timeoutTimer>>
    /\ UNCHANGED <<celllist_toDelete, timeoutPosted, childCells,
                   childGeneration, sequenceNumber, parentVars, trouble>>

-----------------------------------------------------------------------------
(* A response at the child.  Neither its sequence number nor its command   *)
(* is looked at.                                                           *)
Awaited == IF six2six_state[1] = "RESPONSE" THEN six2six_state[2] ELSE "none"

Acts(r) == r.returnCode = "SUCCESS" /\ Awaited # "none"
ItsOwn(r) == Awaited = r.command /\ r.seqNum = sequenceNumber - 1

(* The cells a response carries, whatever it answers.                      *)
Payload(r) == IF r.command = "DELETE" THEN r.remove ELSE r.add

(* What it holds then; the child's own schedule has room for all cells.    *)
ChildAfter(r) ==
  LET remove == CellsOf(celllist_toDelete)
  IN CASE Awaited = "ADD" -> childCells \cup CellsOf(Payload(r))
       [] Awaited = "DELETE" -> childCells \ remove
       [] Awaited = "RELOCATE" ->
            (childCells \ remove) \cup CellsOf(Payload(r))
       [] Awaited = "CLEAR" -> {}

(* Mutant: an empty list counts as a change.                               *)
ChildChangesAlways(r) == TRUE

ChildChanges(r) == CASE Awaited = "ADD" -> Payload(r) # <<>>
                     [] OTHER -> TRUE

notifyResponse(r) ==
  /\ IF Acts(r)
     THEN /\ childCells' = ChildAfter(r)
          /\ childGeneration' = IF Awaited = "CLEAR" THEN 0
                                ELSE IF ChildChanges(r)
                                     THEN NextGeneration(childGeneration)
                                     ELSE childGeneration
     ELSE UNCHANGED <<childCells, childGeneration>>
  /\ six2six_state' = IDLE /\ handler' = "NONE" /\ timeoutTimer' = "off"
  /\ UNCHANGED <<celllist_toDelete, timeoutPosted>>

(* sixtop_six2six_sendDone of a response, at the parent.                   *)
ParentAfter(r) ==
  CASE r.command = "ADD" -> AddCells(parentCells, r.add, Room)
    [] r.command = "DELETE" -> parentCells \ CellsOf(r.remove)
    [] r.command = "RELOCATE" ->
         Relocate(parentCells, CellsOf(r.remove), r.add, Room)
    [] r.command = "CLEAR" -> {}

responseSendDone(r, error) ==
  IF error = "E_SUCCESS" /\ r.returnCode = "SUCCESS"
  THEN /\ parentCells' = ParentAfter(r)
       /\ parentGeneration' = IF r.command = "CLEAR" THEN 0
                              ELSE IF r.remove # <<>> \/ r.add # <<>>
                                   THEN NextGeneration(parentGeneration)
                                   ELSE parentGeneration
       /\ UNCHANGED parentTaken
  ELSE UNCHANGED parentVars

Changes(r) == \/ r.returnCode = "SUCCESS" /\ r.command = "CLEAR"
              \/ r.remove # <<>> \/ r.add # <<>>

(* What may make the two differ.  stale: the child took the response to    *)
(* another request for that to its own.  deletedMore: the child removed    *)
(* other cells than it was told.  noRoom: the parent had no entry for a    *)
(* cell by the time its response was acknowledged.  overtaken: the parent  *)
(* changed its schedule in another order than the child.  ignored: the     *)
(* parent changed it and the child did not.  ackLost: the child did and    *)
(* the parent did not.  A last CLEAR that both have done ends it all.      *)
Troubles == {"stale", "deletedMore", "noRoom", "overtaken", "ignored",
             "ackLost"}

NewTrouble(r, others, received, acted, gone, acked) ==
  {what \in Troubles :
     CASE what = "stale" -> received /\ Acts(r) /\ ~ItsOwn(r)
       [] what = "deletedMore" ->
            /\ received /\ Acts(r) /\ ItsOwn(r)
            /\ Awaited \in {"DELETE", "RELOCATE"}
            /\ CellsOf(celllist_toDelete) # CellsOf(r.remove)
       [] what = "noRoom" ->
            acked /\ ~(CellsOf(r.add) \subseteq ParentAfter(r))
       [] what = "overtaken" ->
            acked /\ Changes(r) /\ \E other \in others : other.acted
       [] what = "ignored" -> acked /\ Changes(r) /\ ~acted
       [] what = "ackLost" -> gone /\ ~acked /\ Changes(r) /\ acted}

SendResponse ==
  \E r \in responses, outcome \in {"acked", "ackLost", "lost"} :
    LET received == outcome # "lost"
        acked == outcome = "acked"
        gone  == acked \/ r.retriesLeft = 1
        acted == r.acted \/ (received /\ Acts(r) /\ ItsOwn(r))
        others == responses \ {r}
        last  == /\ requests = {} /\ others = {}
                 /\ r.seqNum = sequenceNumber - 1
    IN /\ acked \/ Lossy
       /\ IF received THEN notifyResponse(r) ELSE UNCHANGED childVars
       /\ IF gone
          THEN /\ responses' = others
               /\ responseSendDone(r, IF acked THEN "E_SUCCESS" ELSE "E_FAIL")
          ELSE /\ responses' = others \cup
                    {[r EXCEPT !.retriesLeft = @ - 1, !.acted = acted]}
               /\ UNCHANGED parentVars
       /\ trouble' = IF r.command = "CLEAR" /\ acked /\ acted /\ last THEN {}
                     ELSE trouble \cup NewTrouble(r, others, received, acted,
                                                  gone, acked)
       /\ UNCHANGED <<sequenceNumber, requests>>

-----------------------------------------------------------------------------
Next ==
  \/ sf0_bandwidthEstimate_task
  \/ ApplicationRequest
  \/ SendRequest
  \/ SendResponse
  \/ sixtop_timeout_timer_cb
  \/ timer_sixtop_six2six_timeout_fired

Spec == Init /\ [][Next]_vars

(* The child's requests are sent until they are acknowledged or given up,  *)
(* its timer expires, and its tasks run.  Nothing is asked of the parent.  *)
Fairness == /\ WF_vars(SendRequest)
            /\ WF_vars(sixtop_timeout_timer_cb)
            /\ WF_vars(timer_sixtop_six2six_timeout_fired)

FairSpec == Spec /\ Fairness

-----------------------------------------------------------------------------
Retries == 1 .. TXRETRIES + 1

Requests ==
  [command : AllCommands, numCells : 0 .. Max(Demands) + SF0THRESHOLD + 1,
   list : ListsUpTo(2 * CELLLIST_MAX_LEN), generation : 0 .. 8,
   seqNum : 0 .. MaxRequests - 1, retriesLeft : Retries]

Responses ==
  [command : AllCommands, returnCode : ReturnCodes, remove : Lists,
   add : Lists, seqNum : 0 .. MaxRequests - 1, retriesLeft : Retries,
   copy : Retries, acted : BOOLEAN]

TypeOK ==
  /\ six2six_state \in States /\ handler \in {"NONE", "SF0"}
  /\ celllist_toDelete \in Lists
  /\ timeoutTimer \in {"off", "running"} /\ timeoutPosted \in BOOLEAN
  /\ childCells \subseteq Slots /\ parentCells \subseteq Slots
  /\ Cardinality(parentCells) <= Room
  /\ parentTaken \subseteq OthersSlots \ parentCells
  /\ childGeneration \in 0 .. 8 /\ parentGeneration \in 0 .. 8
  /\ sequenceNumber \in 0 .. MaxRequests
  /\ Cardinality(requests) <= QueueLength
  /\ Cardinality(responses) <= QueueLength
  /\ requests \subseteq Requests /\ responses \subseteq Responses
  /\ trouble \subseteq Troubles
  /\ six2six_state # IDLE => handler = "SF0"

(* No transaction is in progress, and no packet of one under way.          *)
Quiet == six2six_state = IDLE /\ requests = {} /\ responses = {}

(* Child and parent have the same cells and count the same generation      *)
(* after every transaction, whatever was lost and sent again, refused or   *)
(* timed out, up to one of the troubles (sixtop_six2six_notifyReceive,     *)
(* sixtop_six2six_sendDone).                                               *)
Agree == Quiet /\ trouble = {} =>
           childCells = parentCells /\ childGeneration = parentGeneration

(* Responses that the child ignored may leave the two with different       *)
(* cells, and so may ACKs that were lost; the generations then tell, and   *)
(* the next request is refused with GEN_ERR.  One trouble hides the        *)
(* difference only behind generation 0, which is both the generation after *)
(* 8 and that after a CLEAR (neighbors_updateGeneration,                   *)
(* neighbors_resetGeneration); any other equality takes both troubles.     *)
GenerationsTell ==
  Quiet /\ childCells # parentCells /\ trouble \in {{"ignored"}, {"ackLost"}}
    => childGeneration # parentGeneration \/ childGeneration = 0

(* Every transaction ends, and sixtop is free for the next one, whatever   *)
(* is lost (timer_sixtop_six2six_timeout_fired).                           *)
TransactionsEnd ==
  six2six_state # IDLE ~> (six2six_state = IDLE /\ handler = "NONE")

(* What is reserved is released (sixtop.h, at SIX_HANDLER_NONE).           *)
ReservationEnds == handler = "SF0" ~> handler = "NONE"

(* Where nothing is lost, the cells the child gives up are those the       *)
(* parent gives up with it, and no more than the request says.             *)
SameCellsDeleted == "deletedMore" \notin trouble
=============================================================================
