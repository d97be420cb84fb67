SPECIFICATION Spec
CONSTANTS
  l1 = l1
  l2 = l2
  l3 = l3
  Locals = {l1, l2, l3}
  Remotes = {"host", "resolver"}
  DnsServers = {"resolver"}
  max_connections = 2
  BSYSTEM_MAX_RESULTS = 2
  Mtu = 2
  HeaderLen = 1
  CONNECTION_UDP_BUFFER_SIZE = 1
  Payloads = {0, 2}
  MaxPackets = 3
INVARIANT DnsToGateway
