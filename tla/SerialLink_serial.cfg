SPECIFICATION Spec
CONSTANTS
  SERIAL_OUTPUT_BUFFER_SIZE = 14
  SERIAL_INPUT_BUFFER_SIZE = 9
  MaxPerSlot = 20
  START_FLAG = 18
  REQUEST_FRAME = 11
  CONTROL_COMMAND = 12
  SERIAL_MSG_PKT = 13
  SERIAL_MSG_DEB = 14
  SERIAL_MSG_RSP = 15
  SERIAL_MSG_ERR = 16
  Payloads <- Payloads_
  Commands <- Commands_
  Beyond = {0, 9}
  Timely = TRUE
  MaxFaults = 1
  MaxPrints = 2
  MaxFrames = 2
INVARIANTS
  FramesIntact
  CommandsIntact
  NoFrameWaits
