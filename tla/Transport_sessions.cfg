\* SSU data, SSU sessions, NTCP sessions, the peers of Transports, peer tests.
SPECIFICATION TransportSpec
CONSTANTS
  SSUEnds = {"a", "b"}
  SSULoads <- Loads
  SSUMessages <- LoadedMessages
  RESEND_INTERVAL = 1
  MAX_NUM_RESENDS = 1
  MAX_NUM_RECEIVED_MESSAGES = 0
  INCOMPLETE_MESSAGES_CLEANUP_TIMEOUT = 1
  MaxFragmentAck = 64
  AckBits = 2
  SSURouters = {"a", "b", "c"}
  Scenarios <- SessionScenarios
  IntroducerOf <- IntroducedBy2
  NTCPConns = {1, 2}
  NTCPCases <- Links
  NTCP_MAX_MESSAGE_SIZE = 30
  TransportSelf = "self"
  MaxJobs = 2
  MaxPeerTests = 5
  TransportCases <- Traffics
  PTRouters = {"a", "b", "c"}
  PTCases <- Tests
INVARIANTS
  SSUDataSafe SentWillBeResent SSUSessionSafe PeerTestSafe NTCPSafe TransportsSafe
PROPERTIES EstablishedSharesKey
\* What is sent, the sessions and the faults of an instance run out.
CHECK_DEADLOCK FALSE
