\* Two messages in one call.
SPECIFICATION Spec
CONSTANTS
  TUNNEL_DATA_MAX_PAYLOAD_SIZE = 1003
  I2NP_MAX_MESSAGE_SIZE = 32768
  MsgIDs = {1, 2}
  Lengths = {300, 800}
  DeliveryTypes = {"Local"}
  Inbound = {FALSE}
  MaxBatch = 2
  MaxDuplicates = 0
INVARIANTS FirstFragmentHasFollowOn
\* When every message ID is used the gateway has nothing more to send.
CHECK_DEADLOCK FALSE
