\* Tags and confirmations of two sessions with one peer.
SPECIFICATION Spec
CONSTANTS
  Sessions = {s1, s2}
  NoSession = NoSession
  NoTag = NoTag
  attachLeaseSet = TRUE
  m_NumTags = 2
  OUTGOING_TAGS_EXPIRATION_TIMEOUT = 1
  INCOMING_TAGS_EXPIRATION_TIMEOUT = 1
  LEASET_CONFIRMATION_TIMEOUT = 0
  MaxMsgID = 3
  MaxTime = 4
  MaxLeaseSet = 2
  MaxDuplicates = 1
SYMMETRY SessionSymmetry
INVARIANTS TypeOK TagsAreKnown TagUsedOnce UnconfirmedAreFound
CHECK_DEADLOCK FALSE
