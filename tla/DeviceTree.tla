----------------------------- MODULE DeviceTree -----------------------------
(***************************************************************************)
(* What the queries of DeviceList compute (src/daemon/devicelist.cpp): the *)
(* device of a RootDevice is the root of a tree of embedded devices, and   *)
(* the queries walk the trees of all root devices in the cache.            *)
(*                                                                         *)
(* DeviceList and SSDPWatcher model when a root device comes and goes;     *)
(* here it just does, and the order of the cache, a QHash, is arbitrary.   *)
(***************************************************************************)
EXTENDS Integers, SequencesExt

CONSTANTS
  Udn,              \* names of devices
  NoUdn,            \* the empty name
  DeviceTypes,
  Device,           \* the devices there may be, each with those embedded in it
  Height,           \* how deep devices are embedded in a device
  NoDevice,         \* Device(), or the null pointer
  MaxRootDevices,   \* bound on the number of root devices
  MaxDepth          \* bound on the depth of a description

ASSUME DeviceAssumption ==
  /\ MaxDepth \in Nat /\ Height \in [Device -> 0 .. MaxDepth]
  /\ NoDevice \notin Device
  /\ \A device \in Device :
       /\ device.udn \in Udn /\ device.type \in DeviceTypes /\ device.devices \in Seq(Device)
       /\ \A i \in DOMAIN device.devices : Height[device.devices[i]] < Height[device]

VARIABLES
  rootDevices,    \* SSDPWatcher::devices(), each with its description
  sent            \* the last signal: its name and its DeviceTypeMap

vars == <<rootDevices, sent>>

-----------------------------------------------------------------------------
(***************************************************************************)
(* A DeviceTypeMap is a function from names to types.                      *)
(***************************************************************************)
EmptyMap == [udn \in {} |-> NoUdn]

Entry(device) == [udn \in {device.udn} |-> device.type]

\* QHash::insert() of the entries of maps, one map after the other: of a name
\* that several of them have, the value inserted last stays.
Inserted(maps) ==
  [udn \in UNION {DOMAIN maps[i] : i \in DOMAIN maps} |->
     maps[SelectLastInSeq(maps, LAMBDA map : udn \in DOMAIN map)][udn]]

MapOf(devices) == Inserted([i \in DOMAIN devices |-> Entry(devices[i])])

-----------------------------------------------------------------------------
(***************************************************************************)
(* The walks over one tree.  FillMap, FillMapByType and Find are what they *)
(* do at one device, after what they did at the devices embedded in it.    *)
(***************************************************************************)

\* Faulty variant: only one level of embedded devices is looked at.
FillMapFlat(device, maps) == Inserted(<<Entry(device), MapOf(device.devices)>>)

FillMap(device, maps) == Inserted(<<Entry(device)>> \o maps)

fillMap[device \in Device] ==
  FillMap(device, [i \in DOMAIN device.devices |-> fillMap[device.devices[i]]])

\* Faulty variant: the devices embedded in a match are left out.
FillMapByTypeStop(device, type, maps) ==
  IF device.type = type THEN Entry(device) ELSE Inserted(maps)

FillMapByType(device, type, maps) ==
  IF device.type = type THEN Inserted(<<Entry(device)>> \o maps) ELSE Inserted(maps)

fillMapByType[device \in Device] ==
  [type \in DeviceTypes |->
     FillMapByType(device, type,
                   [i \in DOMAIN device.devices |-> fillMapByType[device.devices[i]][type]])]

\* Of the results of a search, one device after the other: it ends with a match.
FirstFound(results) ==
  LET i == SelectInSeq(results, LAMBDA result : result # NoDevice)
  IN  IF i = 0 THEN NoDevice ELSE results[i]

\* Faulty variant: the search is not ended by a match.
FindLast(device, udn, results) ==
  IF device.udn = udn THEN device
  ELSE IF results = <<>> THEN NoDevice
  ELSE Last(results)

Find(device, udn, results) == IF device.udn = udn THEN device ELSE FirstFound(results)

find[device \in Device] ==
  [udn \in Udn |->
     Find(device, udn, [i \in DOMAIN device.devices |-> find[device.devices[i]][udn]])]

-----------------------------------------------------------------------------
(***************************************************************************)
(* The queries.                                                            *)
(***************************************************************************)

allDevices == Inserted([i \in DOMAIN rootDevices |-> fillMap[rootDevices[i]]])

\* The first root device that has the name in its description.
FirstMatch(udn) == SelectInSeq(rootDevices, LAMBDA device : find[device][udn] # NoDevice)

\* Faulty variant: the embedded devices of every root device with a match.
devicesByParentOfAll(udn) ==
  IF udn = NoUdn THEN MapOf(rootDevices)
  ELSE MapOf(FlattenSeq([i \in DOMAIN rootDevices |-> rootDevices[i].devices]))

\* The code adds the embedded devices of the root device, not of the match.
devicesByParent(udn) ==
  IF udn = NoUdn THEN MapOf(rootDevices)
  ELSE IF FirstMatch(udn) = 0 THEN EmptyMap
  ELSE MapOf(rootDevices[FirstMatch(udn)].devices)

devicesByType(type) == Inserted([i \in DOMAIN rootDevices |-> fillMapByType[rootDevices[i]][type]])

deviceDetails(udn) == FirstFound([i \in DOMAIN rootDevices |-> find[rootDevices[i]][udn]])

-----------------------------------------------------------------------------
(***************************************************************************)
(* The cache changes, and onDeviceDiscovered() and onDeviceRemoved() send  *)
(* the map of the one description.                                         *)
(***************************************************************************)
Init == rootDevices = <<>> /\ sent = [signal |-> "none", devices |-> EmptyMap]

\* Faulty variant: the signal only names the root device.
DeviceDiscoveredRootOnly(device) ==
  /\ Len(rootDevices) < MaxRootDevices
  /\ \E i \in 1 .. Len(rootDevices) + 1 : rootDevices' = InsertAt(rootDevices, i, device)
  /\ sent' = [signal |-> "devicesAdded", devices |-> Entry(device)]

DeviceDiscovered(device) ==
  /\ Len(rootDevices) < MaxRootDevices
  /\ \E i \in 1 .. Len(rootDevices) + 1 : rootDevices' = InsertAt(rootDevices, i, device)
  /\ sent' = [signal |-> "devicesAdded", devices |-> fillMap[device]]

DeviceRemoved(i) ==
  /\ rootDevices' = RemoveAt(rootDevices, i)
  /\ sent' = [signal |-> "devicesRemoved", devices |-> fillMap[rootDevices[i]]]

Next ==
  \/ \E device \in Device : DeviceDiscovered(device)
  \/ \E i \in DOMAIN rootDevices : DeviceRemoved(i)

Spec == Init /\ [][Next]_vars

-----------------------------------------------------------------------------
(***************************************************************************)
(* The reference: the devices of all trees as a set, level by level.       *)
(***************************************************************************)
Embedded(devices) == UNION {ToSet(device.devices) : device \in devices}

Level[n \in 0 .. MaxDepth] ==
  IF n = 0 THEN ToSet(rootDevices) ELSE Embedded(Level[n - 1])

Devices == UNION {Level[n] : n \in 0 .. MaxDepth}

\* The map names these devices, each with the type of one that has the name.
Describes(map, devices) ==
  /\ DOMAIN map = {d.udn : d \in devices}
  /\ \A udn \in DOMAIN map : \E d \in devices : d.udn = udn /\ d.type = map[udn]

-----------------------------------------------------------------------------
(***************************************************************************)
(* Properties.                                                             *)
(***************************************************************************)

\* allDevices() lists every device of every description, however deep.
AllDevicesComplete == Describes(allDevices, Devices)

\* The answers to devicesByType() divide what allDevices() lists: no device is
\* missing from the answer for its type, nor in that for another one.
TypesPartition ==
  \A type \in DeviceTypes :
    Describes(devicesByType(type), {d \in Devices : d.type = type})

\* deviceDetails() has an answer for a name exactly if allDevices() lists it,
\* and it is about that device.
DetailsOfListed ==
  \A udn \in Udn :
    IF udn \in DOMAIN allDevices
    THEN deviceDetails(udn) # NoDevice /\ deviceDetails(udn) \in {d \in Devices : d.udn = udn}
    ELSE deviceDetails(udn) = NoDevice

\* devicesByParent() is right about root devices: the empty name gives all of
\* them, the name of one, unless another description uses it too, gives the
\* devices embedded in it.
ParentIsRoot ==
  LET roots == ToSet(rootDevices) IN
    /\ Describes(devicesByParent(NoUdn), roots)
    /\ \A root \in roots :
         root.udn # NoUdn /\ {r \in roots : find[r][root.udn] # NoDevice} = {root} =>
           Describes(devicesByParent(root.udn), ToSet(root.devices))

\* What a signal says agrees with the queries before and after it: a device
\* that enters or leaves allDevices() is in the map of the signal, and all that
\* devicesAdded() names can be queried.
SentExplainsChange ==
  [][LET before == DOMAIN allDevices
         after == DOMAIN allDevices'
         named == DOMAIN sent'.devices
     IN  IF sent'.signal = "devicesAdded"
         THEN after = before \cup named
         ELSE before \ named \subseteq after /\ after \subseteq before]_vars

\* devicesByParent() returns the devices embedded in the device of that name.
ParentHasChildren ==
  \A device \in Devices :
    {d \in Devices : d.udn = device.udn} = {device} =>
      Describes(devicesByParent(device.udn), ToSet(device.devices))
=============================================================================
