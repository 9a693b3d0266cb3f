SPECIFICATION Spec
CONSTANTS
  Udn = {"a", "b", "c", "d"}
  NoUdn = ""
  DeviceTypes = {"server", "renderer"}
  Device <- AllShapes
  Height <- Heights
  NoDevice = NoDevice
  MaxRootDevices = 2
  MaxDepth = 2
INVARIANTS AllDevicesComplete TypesPartition DetailsOfListed ParentIsRoot
PROPERTIES SentExplainsChange
