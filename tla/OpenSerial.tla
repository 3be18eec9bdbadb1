----------------------------- MODULE OpenSerial -----------------------------
(***************************************************************************)
(* The serial driver of a mote, drivers/common/openserial.c, as operators  *)
(* over its value: two rings, the mode and the counters of the frame being *)
(* sent, and the bytes its UART has still to send.  Printing masks         *)
(* interrupts, and the MAC's and the UART's interrupts do not preempt each *)
(* other, so each function is one operator from the old value to the new.  *)
(*                                                                         *)
(* A frame is START_FLAG, its length, its type and its data; the length    *)
(* counts itself, the type and the data.  Nothing else marks where a frame *)
(* begins, and START_FLAG may occur in the data.                           *)
(*                                                                         *)
(* The last fields are history: the frames the host has yet to read, until *)
(* it reads something else, and what broke their framing first; and the    *)
(* commands that were sent and not executed, and the lengths of those that *)
(* were executed and not among them.                                       *)
(***************************************************************************)
EXTENDS Integers, SequencesExt

CONSTANTS
  SERIAL_OUTPUT_BUFFER_SIZE,
  SERIAL_INPUT_BUFFER_SIZE,
  MaxPerSlot,          \* 120: bytes sent in a slot to begin another frame
  START_FLAG,          \* 0x7E, and the characters S, C, P, D, R and E:
  REQUEST_FRAME, CONTROL_COMMAND,
  SERIAL_MSG_PKT, SERIAL_MSG_DEB, SERIAL_MSG_RSP, SERIAL_MSG_ERR

UINT8         == 0 .. 255
DATA_COMMAND  == SERIAL_MSG_DEB   \* 'D' both

(* The second bytes of CONTROL_COMMAND that do something, SET_DAG_ROOT to  *)
(* RESET_BOARD, and those of them that ask something.                      *)
control_commands == 0 .. 6 \cup {8}
Queries          == 1 .. 4

ASSUME OpenSerialAssumption ==
  /\ SERIAL_OUTPUT_BUFFER_SIZE \in 3 .. 256
  /\ SERIAL_INPUT_BUFFER_SIZE \in 4 .. 256
  /\ MaxPerSlot \in Nat
  /\ START_FLAG > 5       \* the longest frame of the driver's own
  /\ {START_FLAG, REQUEST_FRAME, CONTROL_COMMAND, SERIAL_MSG_PKT,
      SERIAL_MSG_DEB, SERIAL_MSG_RSP, SERIAL_MSG_ERR} \subseteq UINT8

(* The two rings.  A push into a full one and a pop from an empty one      *)
(* leave it alone.                                                         *)
CIRCBUF_DEF(size) ==
  [buffer |-> [i \in 0 .. size - 1 |-> 0],
   head |-> 0, tail |-> 0, fill_level |-> 0]

maxLen(ring) == Cardinality(DOMAIN ring.buffer)

circular_buffer_push(ring, dataValue) ==
  LET next == (ring.head + 1) % maxLen(ring)
  IN IF next = ring.tail
     THEN ring
     ELSE [ring EXCEPT !.buffer[ring.head] = dataValue, !.head = next,
                       !.fill_level = (@ + 1) % 256]

(* Byte after byte; those that do not fit are cut off.                     *)
circular_buffer_pushes(ring, bytes) ==
  LET size == maxLen(ring)
      fit == Min({Len(bytes), size - 1 - ring.fill_level})
      Behind(i) == (i - ring.head) % size
  IN [ring EXCEPT
        !.buffer = [i \in DOMAIN @ |->
                      IF Behind(i) < fit THEN bytes[Behind(i) + 1] ELSE @[i]],
        !.head = (@ + fit) % size,
        !.fill_level = @ + fit]

circular_buffer_pop(ring) ==
  IF ring.head = ring.tail
  THEN ring
  ELSE [ring EXCEPT !.tail = (@ + 1) % maxLen(ring),
                    !.fill_level = (@ - 1) % 256]

(* The byte popped, 0 if there is none.                                    *)
Popped(ring) ==
  IF ring.head = ring.tail THEN 0 ELSE ring.buffer[ring.tail]

(* buffer[i], which is not reduced modulo the size: off either end it is a *)
(* byte of another variable.                                               *)
At(ring, i, beyond) ==
  IF i \in DOMAIN ring.buffer THEN ring.buffer[i] ELSE beyond

Frame(type, data) == <<START_FLAG, Len(data) + 2, type>> \o data
reqFrame          == Frame(REQUEST_FRAME, <<>>)

openserial_init ==
  [tx |-> CIRCBUF_DEF(SERIAL_OUTPUT_BUFFER_SIZE),
   rx |-> CIRCBUF_DEF(SERIAL_INPUT_BUFFER_SIZE),
   mode |-> "OFF", reqFrameIdx |-> 0, bytes_transmitted |-> 0,
   tx_pkt_len |-> 0, total_bytes_transmitted |-> 0, isPacket |-> FALSE,
   uart |-> <<>>,
   frames |-> <<>>, garbled |-> FALSE, astray |-> "no",
   commands |-> <<>>, forged |-> {}]

uart_writeByte(s, byte) == [s EXCEPT !.uart = Append(@, byte)]

Astray(s, cause, condition) ==
  IF condition /\ s.astray = "no"
  THEN [s EXCEPT !.astray = cause]
  ELSE s

(* The host is to read these frames.                                       *)
Due(s, frames) ==
  IF s.garbled THEN s ELSE [s EXCEPT !.frames = frames]

(* openserial_printf.  The host takes the byte after START_FLAG for the    *)
(* length, and so the byte after a length that equals START_FLAG.          *)
openserial_printf(s, type, data) ==
  LET frame == Frame(type, data)
      fitting == Astray(Due(s, Append(s.frames, frame)), "overflow",
                        Len(frame) >= maxLen(s.tx) - s.tx.fill_level)
      printed == Astray(fitting, "length", frame[2] = START_FLAG)
  IN [printed EXCEPT !.tx = circular_buffer_pushes(@, frame),
                     !.isPacket = @ \/ type = SERIAL_MSG_PKT]

(* Output or a request is under way and its last byte not yet written.     *)
Midway(s) ==
  \/ s.mode = "OUTPUT" /\ s.bytes_transmitted # s.tx_pkt_len + 1
  \/ s.mode = "INPUT" /\ s.reqFrameIdx + 1 < Len(reqFrame)

(* The host is asked for a command: the request is read next, or after the *)
(* frame whose last byte is being sent.                                    *)
RequestedIn(s) ==
  IF s.uart = <<>> \/ s.frames = <<>>
  THEN <<reqFrame>> \o s.frames
  ELSE <<Head(s.frames), reqFrame>> \o Tail(s.frames)

openserial_startInput(s) ==
  uart_writeByte(
    [Due(s, RequestedIn(s)) EXCEPT
       !.mode = "INPUT", !.reqFrameIdx = 0,
       !.bytes_transmitted = 0, !.tx_pkt_len = 0],
    reqFrame[1])

(* Mutant: the START_FLAG counts twice.                                    *)
WholeFrameButOne(ring, beyond) ==
  /\ At(ring, ring.tail + 1, beyond) + 1 < ring.fill_level
  /\ ring.fill_level > 0

(* A whole frame is in the ring.                                           *)
WholeFrame(ring, beyond) ==
  /\ At(ring, ring.tail + 1, beyond) < ring.fill_level
  /\ ring.fill_level > 0

(* If so the mode becomes MODE_OUTPUT, and START_FLAG is sent.  A packet's *)
(* delay is reported by a frame of its own.                                *)
openserial_startOutput(s, beyond) ==
  IF ~WholeFrame(s.tx, beyond)
  THEN s
  ELSE LET ring == circular_buffer_pop(s.tx)
           begun == [Astray(s, "cut", Midway(s)) EXCEPT
                       !.mode = "OUTPUT", !.tx = ring,
                       !.bytes_transmitted = 1,
                       !.total_bytes_transmitted = 1,
                       !.tx_pkt_len = ring.buffer[ring.tail]]
           reported == IF s.isPacket
                       THEN openserial_printf(
                              [begun EXCEPT !.isPacket = FALSE],
                              SERIAL_MSG_DEB, <<0, 0>>)
                       ELSE begun
       IN uart_writeByte(reported, Popped(s.tx))

(* The sum of the bytes of the frame against its last two.                 *)
verify_checksum(ring, beyond) ==
  LET length == ring.buffer[ring.tail]
      covered == {0} \cup 1 .. length - 3
      Add(sum, i) == sum + At(ring, ring.tail + i, beyond)
  IN FoldSet(LAMBDA i, sum : Add(sum, i), 0, covered) % 65536 =
       At(ring, length - 1, beyond) + 256 * At(ring, length, beyond)

(* openserial_handleCommands.  Of what a command does only the response is *)
(* kept, which is one byte long.                                           *)
openserial_handleCommands(s, beyond) ==
  LET Rx(i) == At(s.rx, s.rx.tail + i, beyond)
      length == Rx(0)
      command == [i \in 1 .. Max({2, length - 3}) |-> Rx(i)]
      control == command[1] = CONTROL_COMMAND
      sent == {i \in DOMAIN s.commands : s.commands[i] = command}
      taken == IF sent = {}
               THEN [s EXCEPT !.forged = @ \cup {length}]
               ELSE [s EXCEPT !.commands = SubSeq(@, Min(sent) + 1, Len(@))]
  IN CASE control /\ command[2] \in Queries ->
            openserial_printf(taken, SERIAL_MSG_RSP,
                              <<command[1], command[2], 0>>)
       [] \/ control /\ command[2] \in control_commands \ Queries
          \/ command[1] = DATA_COMMAND /\ command[2] = 0 -> taken
       [] OTHER -> s

(* Mutant: whatever came in is taken for a command.                        *)
AnythingIn(level, ring) == level > 0

(* All bytes of a command are in, the START_FLAG before it included.       *)
Complete(level, ring) == level > ring.buffer[ring.tail]

(* A command that was received is executed, in the interrupt, unless its   *)
(* checksum is wrong, which is reported; and the input starts afresh.      *)
openserial_stop(s, beyond) ==
  LET stopped == [Astray(s, "cut", Midway(s)) EXCEPT
                    !.mode = "OFF",
                    !.rx = IF @.buffer[@.tail] = START_FLAG
                           THEN circular_buffer_pop(@) ELSE @]
      received == Complete(s.rx.fill_level, stopped.rx)
      handled == CASE ~received -> stopped
                   [] received /\ verify_checksum(stopped.rx, beyond) ->
                        openserial_handleCommands(stopped, beyond)
                   [] received /\ ~verify_checksum(stopped.rx, beyond) ->
                        openserial_printf(stopped, SERIAL_MSG_ERR, <<0, 0>>)
  IN [handled EXCEPT !.rx.head = 0, !.rx.tail = 0, !.rx.fill_level = 0]

(* Mutant: only the comparison is corrected, not where tx_pkt_len is read. *)
PresentAfter(s, length) ==
  /\ length < s.tx.fill_level /\ s.tx.fill_level > 0
  /\ s.total_bytes_transmitted + length < MaxPerSlot

(* The next frame may begin in this slot: its length exceeds what is in    *)
(* the ring, where a comment says that enough bytes are present.           *)
MayFollow(s, length) ==
  /\ length > s.tx.fill_level /\ s.tx.fill_level > 0
  /\ s.total_bytes_transmitted + length < MaxPerSlot

(* A byte is out: the next of the request, or of the frame.  At the end of *)
(* a frame the output ends, or the next begins.                            *)
isr_openserial_tx(s, beyond) ==
  LET ring == circular_buffer_pop(s.tx)
      next == At(s.tx, s.tx.tail + 1, beyond)
      popped == uart_writeByte([s EXCEPT !.tx = ring], Popped(s.tx))
  IN CASE s.mode = "INPUT" ->
            IF s.reqFrameIdx + 1 < Len(reqFrame)
            THEN uart_writeByte([s EXCEPT !.reqFrameIdx = @ + 1],
                                reqFrame[s.reqFrameIdx + 2])
            ELSE [s EXCEPT !.reqFrameIdx = Len(reqFrame)]
       [] s.mode = "OUTPUT" /\ Midway(s) ->
            [popped EXCEPT !.bytes_transmitted = (@ + 1) % 256,
                           !.total_bytes_transmitted = @ + 1]
       [] s.mode = "OUTPUT" /\ ~Midway(s) ->
            IF MayFollow(s, next)
            THEN [Astray(popped, "beyond",
                         s.tx.tail + 1 \notin DOMAIN s.tx.buffer)
                  EXCEPT !.bytes_transmitted = 1,
                         !.tx_pkt_len = At(ring, ring.tail + 1, beyond)]
            ELSE [s EXCEPT !.mode = "OFF", !.bytes_transmitted = 0,
                           !.total_bytes_transmitted = 0]
       [] s.mode = "OFF" -> s

(* A byte came in.                                                         *)
isr_openserial_rx(s, data) ==
  IF s.mode = "INPUT"
  THEN [s EXCEPT !.rx = circular_buffer_push(@, data)]
  ELSE s
=============================================================================
