\* Senders and closers of a stream, requests of the network database and of a
\* destination, and messages on an SSU session come to an end.
SPECIFICATION LiveSpec
CONSTANTS
  a = a
  b1 = b1
  NoStream = NoStream
  Outgoing = {a}
  Incoming = {b1}
  MIN_WINDOW_SIZE = 1
  WINDOW_SIZE = 2
  MAX_WINDOW_SIZE = 2
  MAX_NUM_RESEND_ATTEMPTS = 1
  MaxNacks = 8
  SeqnRange = 64
  STREAMING_MTU = 1
  SYN_MTU = 1
  SendSizes = {1}
  Writers = {a}
  AsyncWriters = {}
  Readers = {}
  Closers = {a}
  Stoppable = {a}
  MaxWritten = 1
  MaxCloses = 1
  MaxPending = 1
  NDRouters = {1, 2, 3}
  NDRandom = {9}
  NDPublished <- Published
  NDIntroduced = {3}
  NDMetric <- Metric
  NDRequesters = {"s", "t"}
  NDMaxAsked = 2
  NDMaxOrphans = 1
  NDCases <- Networks
  DDests = {"x"}
  DFloodfills = {1, 2, 3, 4}
  DCallers = {"s", "t"}
  DNobody = "nobody"
  MAX_NUM_FLOODFILLS_PER_REQUEST = 7
  DCases <- Clients
  SSUEnds = {"a", "b"}
  SSULoads <- Loads
  SSUMessages <- LoadedMessages
  RESEND_INTERVAL = 1
  MAX_NUM_RESENDS = 1
  MAX_NUM_RECEIVED_MESSAGES = 0
  INCOMPLETE_MESSAGES_CLEANUP_TIMEOUT = 1
  MaxFragmentAck = 64
  AckBits = 2
PROPERTIES AckedOrReset CloseTerminates DeletedComesToRest
  RequesterIsTold LeaseSetRequestEnds SentIsSettled
\* A stream that has come to rest, and the end of what an instance asks for.
CHECK_DEADLOCK FALSE
