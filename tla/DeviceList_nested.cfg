SPECIFICATION ListSpec
CONSTANTS
  u1 = u1
  u2 = u2
  Uuid = {u1, u2}
  NoUuid = NoUuid
  NoDevice = NoDevice
  Object = {o1, o2}
  IntMax = 7
  MsPerSec = 1
  SearchTimeout = 1
  Datagrams <- SomeLeases
  Udn = {"root1", "embedded1", "root2"}
  DescribedBy <- RootAndEmbedded
  ShutDownTimeout = 2
  CountedQueries = {"allDevices", "devicesByParent"}
SYMMETRY Addresses
INVARIANTS ReportedIsListed
