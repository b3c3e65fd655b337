SPECIFICATION FairSpec
CONSTANTS
  Readers = {r1}
  NUM_READERS = 1
  SIZE = 9
  Sizes = {1, 2}
  SETTLED = TRUE
  MAX_SENT = 5
  MAX_DEATHS = 1
INVARIANTS
  MsgqTypeOK
  DeliveredIntact
  DeliveredInOrder
PROPERTY
  CatchesUp
