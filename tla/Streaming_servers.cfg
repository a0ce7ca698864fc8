\* Asynchronous sends and reads of a stream whose server closes or stops, and a
\* second stream made by a resent SYN.
SPECIFICATION ServersSpec
CONSTANTS
  a = a
  b1 = b1
  b2 = b2
  b3 = b3
  NoStream = NoStream
  Outgoing = {a}
  Incoming = {b1, b2, b3}
  MIN_WINDOW_SIZE = 1
  WINDOW_SIZE = 2
  MAX_WINDOW_SIZE = 2
  MAX_NUM_RESEND_ATTEMPTS = 1
  MaxNacks = 8
  SeqnRange = 64
  STREAMING_MTU = 1
  SYN_MTU = 1
  SendSizes = {1}
  Writers = {}
  AsyncWriters = {a}
  Readers = {b1}
  Closers = {b1}
  Stoppable = {b1, b2, b3}
  MaxWritten = 1
  MaxCloses = 1
  MaxPending = 1
SYMMETRY IncomingSymmetry
INVARIANTS NoLostWakeup SendHandlerNotStranded
\* An idle stream that has no timer running is the end of a behaviour.
CHECK_DEADLOCK FALSE
