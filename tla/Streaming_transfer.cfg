\* One-way transfer with loss, reordering and resends.
SPECIFICATION Spec
CONSTANTS
  a = a
  b1 = b1
  NoStream = NoStream
  Outgoing = {a}
  Incoming = {b1}
  MIN_WINDOW_SIZE = 1
  WINDOW_SIZE = 2
  MAX_WINDOW_SIZE = 2
  MAX_NUM_RESEND_ATTEMPTS = 1
  MaxNacks = 8
  SeqnRange = 64
  STREAMING_MTU = 1
  SYN_MTU = 1
  SendSizes = {3}
  Writers = {a}
  AsyncWriters = {}
  Readers = {}
  Closers = {}
  Stoppable = {}
  MaxWritten = 3
  MaxCloses = 1
  MaxPending = 1
INVARIANTS TypeOK SavedBeyondGap UnackedWillBeResent DeliveredInOrder AckedWasReceived NacksFit
\* An idle stream that has no timer running is the end of a behaviour.
CHECK_DEADLOCK FALSE
