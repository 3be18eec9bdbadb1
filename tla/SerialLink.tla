----------------------------- MODULE SerialLink -----------------------------
(***************************************************************************)
(* A mote and its host over a serial line: the driver of OpenSerial, the   *)
(* slots of the MAC that start and stop it, tasks that print, the UART,    *)
(* and the thread moteProbe of python_code/serial_comm_mote.py, which      *)
(* reads the frames and sends a command when it is asked for one.          *)
(*                                                                         *)
(* The thread does nothing but read, so a byte and what it makes of it are *)
(* one action; how long that takes is the time its answer is on the line.  *)
(* The line may lose bytes, which a mote whose interrupts are masked for   *)
(* too long does.                                                          *)
(***************************************************************************)
EXTENDS OpenSerial

CONSTANTS
  Payloads,      \* data of the frames that tasks print
  Commands,      \* commands the user types, one after the other
  Beyond,        \* what may lie in memory before and after the rings
  Timely,        \* output and request end within the slot they begin in
  MaxPrints,     \* bound: frames printed by tasks
  MaxFrames,     \* bound: frames printed and commands typed
  MaxFaults      \* bound: radio frames that end serial activity, and
                 \* bytes lost on the line to the mote

ASSUME SerialLinkAssumption ==
  /\ Payloads \subseteq Seq(UINT8)
  /\ Commands \in Seq(Seq(UINT8))
  /\ \A i \in DOMAIN Commands : Len(Commands[i]) >= 2
  /\ Beyond \subseteq UINT8 /\ Beyond # {}
  /\ Timely \in BOOLEAN
  /\ {MaxPrints, MaxFrames, MaxFaults} \subseteq Nat

VARIABLES
  serial,        \* the driver of the mote
  probe,         \* the thread's busyReceiving, prevByte, ...
  outputBuf,     \* commands that wait for a request
  toMote,        \* bytes on the line to the mote
  prints, typed, faults   \* how often so far

vars == <<serial, probe, outputBuf, toMote, prints, typed, faults>>

Init ==
  /\ serial = openserial_init
  /\ probe = [busyReceiving |-> FALSE, prevByte |-> 0, framelength |-> 0,
              received |-> 0, type |-> 0]
  /\ outputBuf = <<>> /\ toMote = <<>>
  /\ prints = 0 /\ typed = 0 /\ faults = 0

hostVars == <<probe, outputBuf, toMote>>
counts   == <<prints, typed, faults>>

(* A slot begins: if Timely, the line to the host is silent by then.       *)
Slot(s) ==
  /\ Timely => serial.uart = <<>> /\ serial.mode # "OUTPUT"
  /\ serial' = s
  /\ UNCHANGED <<hostVars, counts>>

(* activity_ti1ORri1 in a slot that is not active: openserial_stop is not  *)
(* called, so that an input goes on until there is output.                 *)
InactiveSlot ==
  \E b \in Beyond : Slot(openserial_startOutput(serial, b))

(* In an active slot,                                                      *)
ActiveSlot ==
  \E b \in Beyond : Slot(openserial_stop(serial, b))

(* and in one of type CELLTYPE_SERIALRX.  While it is not synchronized the *)
(* mote does this every 16 slots,                                          *)
SerialRxSlot ==
  \E b \in Beyond : Slot(openserial_startInput(openserial_stop(serial, b)))

(* and this 8 slots later; see activity_synchronize_newSlot.               *)
OutputSlot ==
  \E b \in Beyond :
    Slot(openserial_startOutput(openserial_stop(serial, b), b))

(* activity_synchronize_startOfFrame stops the serial port at any time.    *)
StartOfFrame ==
  /\ faults < MaxFaults
  /\ faults' = faults + 1
  /\ \E b \in Beyond : serial' = openserial_stop(serial, b)
  /\ UNCHANGED <<hostVars, prints, typed>>

(* openbridge_receive and openudp print packets, openstack_init an address.*)
Printf ==
  /\ prints < MaxPrints /\ prints + typed < MaxFrames
  /\ prints' = prints + 1
  /\ \E data \in Payloads, type \in {SERIAL_MSG_PKT, SERIAL_MSG_DEB} :
       serial' = openserial_printf(serial, type, data)
  /\ UNCHANGED <<hostVars, typed, faults>>

(* A command as the user interface of the script makes it, with its length *)
(* and checksum.                                                           *)
Packed(command) ==
  LET body == <<Len(command) + 3>> \o command
      sum == FoldLeft(+, 0, body)
  IN <<START_FLAG>> \o body \o <<sum % 256, sum \div 256>>

Type ==
  /\ typed < Len(Commands) /\ prints + typed < MaxFrames
  /\ typed' = typed + 1
  /\ outputBuf' = Append(outputBuf, Commands[typed + 1])
  /\ UNCHANGED <<serial, probe, toMote, prints, faults>>

(* moteProbe.run and _process_inputbuf, for a byte the UART has sent.  Of  *)
(* inputBuf only the type of the frame and its length are kept, and of one *)
(* past framelength only that it is, for they are compared for equality.   *)
(* A frame ends there and never at its second byte.  A request             *)
(* is answered unless the user interface holds outputBufLock.              *)
Read(byte, s) ==
  LET n == probe.received
      begins == ~probe.busyReceiving /\ byte = START_FLAG
      lengthNext == probe.busyReceiving /\ probe.prevByte = START_FLAG
      ends == /\ probe.busyReceiving /\ ~lengthNext
              /\ n + 1 = probe.framelength
      type == IF n = 1 THEN byte ELSE probe.type
      frame == IF s.frames = <<>> THEN <<>> ELSE Head(s.frames)
      at == IF probe.busyReceiving THEN n + 2 ELSE 1
      asPrinted == /\ at <= Len(frame) /\ byte = frame[at]
                   /\ ends <=> at = Len(frame)
      read == IF ~asPrinted
              THEN [s EXCEPT !.garbled = TRUE, !.frames = <<>>]
              ELSE IF ends THEN [s EXCEPT !.frames = Tail(@)] ELSE s
      Received(length) == Min({n + 1, length + 1})
  IN /\ probe' =
          CASE begins -> [probe EXCEPT !.busyReceiving = TRUE,
                                       !.prevByte = byte]
            [] lengthNext -> [probe EXCEPT !.framelength = byte,
                                !.prevByte = byte, !.type = type,
                                !.received = Received(byte)]
            [] ends -> [probe EXCEPT !.busyReceiving = FALSE,
                                     !.received = 0, !.type = 0]
            [] probe.busyReceiving /\ ~lengthNext /\ ~ends ->
                 [probe EXCEPT !.received = Received(probe.framelength),
                               !.type = type]
            [] ~probe.busyReceiving /\ ~begins -> probe
     /\ \/ /\ serial' = read
           /\ UNCHANGED <<outputBuf, toMote>>
        \/ /\ ends /\ type = REQUEST_FRAME /\ outputBuf # <<>>
           /\ serial' = [read EXCEPT
                           !.commands = Append(@, Head(outputBuf))]
           /\ toMote' = toMote \o Packed(Head(outputBuf))
           /\ outputBuf' = Tail(outputBuf)

(* The UART has sent a byte, and interrupts when it has no other.          *)
uart_tx_isr ==
  /\ serial.uart # <<>>
  /\ \E b \in Beyond :
       LET sent == [serial EXCEPT !.uart = Tail(@)]
       IN Read(Head(serial.uart),
               IF sent.uart = <<>> THEN isr_openserial_tx(sent, b) ELSE sent)
  /\ UNCHANGED counts

uart_rx_isr ==
  /\ toMote # <<>>
  /\ serial' = isr_openserial_rx(serial, Head(toMote))
  /\ toMote' = Tail(toMote)
  /\ UNCHANGED <<probe, outputBuf, counts>>

LoseByte ==
  /\ faults < MaxFaults /\ toMote # <<>>
  /\ faults' = faults + 1
  /\ toMote' = Tail(toMote)
  /\ UNCHANGED <<serial, probe, outputBuf, prints, typed>>

Next ==
  \/ InactiveSlot \/ ActiveSlot \/ SerialRxSlot \/ OutputSlot
  \/ StartOfFrame \/ Printf \/ Type
  \/ uart_tx_isr \/ uart_rx_isr \/ LoseByte

Spec == Init /\ [][Next]_vars

-----------------------------------------------------------------------------
IsRing(ring, size) ==
  /\ ring.buffer \in [0 .. size - 1 -> UINT8]
  /\ {ring.head, ring.tail} \subseteq 0 .. size - 1
  /\ ring.fill_level = (ring.head - ring.tail) % size

TypeOK ==
  /\ IsRing(serial.tx, SERIAL_OUTPUT_BUFFER_SIZE)
  /\ IsRing(serial.rx, SERIAL_INPUT_BUFFER_SIZE)
  /\ serial.mode \in {"OFF", "INPUT", "OUTPUT"}
  /\ serial.reqFrameIdx \in 0 .. Len(reqFrame)
  /\ {serial.bytes_transmitted, serial.tx_pkt_len} \subseteq UINT8
  /\ probe.busyReceiving \in BOOLEAN
  /\ {probe.prevByte, probe.framelength, probe.type} \subseteq UINT8
  /\ probe.received \in 0 .. 256
  /\ toMote \in Seq(UINT8)

(* The host reads the frames that were printed and the requests, whole and *)
(* in their order, whatever is printed while others are sent, unless one   *)
(* did not fit into the ring, a slot or the start of a radio frame cut one *)
(* short, its length equals START_FLAG, or the length of the next was read *)
(* from behind the ring.                                                   *)
FramesIntact == serial.garbled => serial.astray # "no"

(* Every command of five bytes or more, the least that a length, a command *)
(* and a checksum take, that the mote executes is one the host sent, each  *)
(* once and in their order, whatever byte the line loses and wherever an   *)
(* input is stopped and started again.  Shorter ones are made of stale     *)
(* bytes: of length 0 after a lone zero byte.                              *)
CommandsIntact == serial.forged \subseteq 0 .. 4

(* When the line is silent and frames wait, the next one is sent in the    *)
(* first slot that is not active.  The exception is one whose first byte   *)
(* is the last of the ring: its length is sought behind the ring, and it   *)
(* may wait for ever, as may all frames after it.                          *)
NoFrameWaits ==
  /\ serial.astray = "no" /\ serial.uart = <<>>
  /\ serial.mode # "OUTPUT" /\ serial.frames # <<>>
  /\ serial.tx.tail + 1 \in DOMAIN serial.tx.buffer
  => \A b \in Beyond :
       openserial_startOutput(serial, b).mode = "OUTPUT"

=============================================================================
