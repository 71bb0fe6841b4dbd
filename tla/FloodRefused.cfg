CONSTANTS
  Buffers = {b1, b2, b3}
  Devices = {0, 1, 2}
  TX_QUEUE_SIZE = 1
  FLOOD_FRAME = flood
  Answers = {0, 1, 2, flood}
  VIGOR_ALLOW_DROPS = TRUE
SPECIFICATION Spec
INVARIANT RefsExact
