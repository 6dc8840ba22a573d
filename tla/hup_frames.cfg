SPECIFICATION Spec
CONSTANTS
  Radix = 4
  HUP_TAG_HR = 2
  HUP_TAG_HS = 1
  HUP_TAG_L = 3
  Fed = {0, 1, 2, 3}
  DATA_BUF_SIZE = 3
INVARIANTS TypeOK FramesReported
CHECK_DEADLOCK FALSE
