SPECIFICATION HistorySpec
CONSTANTS
  Uuid = {u1}
  NoUuid = NoUuid
  NoDevice = NoDevice
  Object = {o1, o2}
  IntMax = 7
  MsPerSec = 2
  SearchTimeout = 1
  Datagrams <- ShortLeases
SYMMETRY Addresses
PROPERTIES DiscoveredIsPresent
