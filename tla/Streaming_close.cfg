\* The client writes, closes and writes again; a lost packet resets the stream.
SPECIFICATION Spec
CONSTANTS
  a = a
  b1 = b1
  NoStream = NoStream
  Outgoing = {a}
  Incoming = {b1}
  MIN_WINDOW_SIZE = 1
  WINDOW_SIZE = 1
  MAX_WINDOW_SIZE = 1
  MAX_NUM_RESEND_ATTEMPTS = 1
  MaxNacks = 8
  SeqnRange = 64
  STREAMING_MTU = 1
  SYN_MTU = 2
  SendSizes = {1}
  Writers = {a}
  AsyncWriters = {}
  Readers = {}
  Closers = {a}
  Stoppable = {}
  MaxWritten = 2
  MaxCloses = 1
  MaxPending = 1
INVARIANTS SequenceNumberNamesOnePacket
PROPERTIES ImplementsByteStream
\* An idle stream that has no timer running is the end of a behaviour.
CHECK_DEADLOCK FALSE
