\* Pending tunnels and stopped pools come to an end, without the exploratory pool.
SPECIFICATION FairSpec
CONSTANTS
  NoPool = NoPool
  Inbound = {i1, i2}
  Outbound = {o1}
  Pools = {d}
  Exploratory = NoPool
  m_NumInboundTunnels = 1
  m_NumOutboundTunnels = 1
  MinTunnels = 1
  TUNNEL_CREATION_TIMEOUT = 0
  TUNNEL_EXPIRATION_TIMEOUT = 2
  TUNNEL_EXPIRATION_THRESHOLD = 1
  TUNNEL_RECREATION_THRESHOLD = 1
PROPERTIES PendingEnds StoppedPoolIsReleased
