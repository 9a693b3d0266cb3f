SPECIFICATION CalmSpec
CONSTANTS
  Uuid = {u1, u2}
  NoUuid = NoUuid
  NoDevice = NoDevice
  Object = {o1, o2, o3}
  IntMax = 7
  MsPerSec = 2
  SearchTimeout = 1
  Datagrams <- ShortLeases
SYMMETRY Addresses
PROPERTIES LeaseHonoured DiscoveredIsPresent
