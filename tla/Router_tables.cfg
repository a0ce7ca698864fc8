\* Tunnels of one destination and of the router itself, with the owner of the
\* destination stopping its pool at any moment; the network database; the
\* router's own address and capabilities.
SPECIFICATION RouterSpec
CONSTANTS
  NoPool = NoPool
  Inbound = {i1, i2}
  Outbound = {o1}
  Pools = {e, d}
  Exploratory = e
  m_NumInboundTunnels = 1
  m_NumOutboundTunnels = 1
  MinTunnels = 1
  TUNNEL_CREATION_TIMEOUT = 0
  TUNNEL_EXPIRATION_TIMEOUT = 3
  TUNNEL_EXPIRATION_THRESHOLD = 1
  TUNNEL_RECREATION_THRESHOLD = 2
  NDRouters = {1, 2, 3}
  NDRandom = {8, 9}
  NDPublished <- Published
  NDIntroduced = {3}
  NDMetric <- Metric
  NDRequesters = {"s", "t"}
  NDMaxAsked = 2
  NDMaxOrphans = 1
  NDCases <- Networks
  RCHosts = {"h1", "h2"}
  RCEndpoints = {"e1", "e2"}
  RCConfigs <- Configs
  SSU_MAX_NUM_INTRODUCERS = 2
  RCMaxTags = 2
  RCMaxRestarts = 1
  RCMaxAddresses = 5
INVARIANTS
  TunnelsSafe PoolTunnelsAreLive NetDbSafe CalledBackOnce RouterContextSafe
\* The stores, the requests and the restarts of an instance run out.
CHECK_DEADLOCK FALSE
