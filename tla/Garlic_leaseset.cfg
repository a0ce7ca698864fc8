\* A new LeaseSet and a late confirmation of the one before.
SPECIFICATION Spec
CONSTANTS
  Sessions = {s1}
  NoSession = NoSession
  NoTag = NoTag
  attachLeaseSet = TRUE
  m_NumTags = 2
  OUTGOING_TAGS_EXPIRATION_TIMEOUT = 1
  INCOMING_TAGS_EXPIRATION_TIMEOUT = 1
  LEASET_CONFIRMATION_TIMEOUT = 0
  MaxMsgID = 3
  MaxTime = 4
  MaxLeaseSet = 2
  MaxDuplicates = 1
INVARIANTS UpToDateHasLeaseSet
CHECK_DEADLOCK FALSE
