\* Batches and puts of blocks at the boundaries, with loss, reordering and a
\* duplicate; tunnel builds; batches of tunnel messages; a destination; a proxy;
\* an I2P tunnel.
SPECIFICATION TrafficSpec
CONSTANTS
  TUNNEL_DATA_MAX_PAYLOAD_SIZE = 1003
  I2NP_MAX_MESSAGE_SIZE = 32768
  MsgIDs = {1, 2}
  Lengths = {1, 480, 964, 1000, 1001, 2600}
  DeliveryTypes = {"Local", "Tunnel", "Router"}
  Inbound = {TRUE, FALSE}
  MaxBatch = 2
  MaxDuplicates = 1
  TBSelf = "me"
  TBRouters = {"me", "r1", "r2", "r3", "r4"}
  STANDARD_NUM_RECORDS = 3
  TBCases <- BuildCases
  TDSessions = {"s", "q"}
  TDTunnels = {"t", "u"}
  TDNone = "none"
  TDCases <- DispatchCases
  DDests = {"x", "y"}
  DFloodfills = {1, 2, 3, 4}
  DCallers = {"s", "t", "u"}
  DNobody = "nobody"
  MAX_NUM_FLOODFILLS_PER_REQUEST = 2
  DCases <- Clients
  MAX_SOCKS_HOSTNAME_SIZE = 16
  ProxyCases <- Requests
  I2PTunnelCases <- Sides
INVARIANTS
  TunnelDataSafe TunnelBuildSafe TunnelDispatchSafe DestinationSafe ProxySafe I2PTunnelSafe
\* The messages, the requests and the octets of an instance run out.
CHECK_DEADLOCK FALSE
