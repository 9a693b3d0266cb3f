----------------------------- MODULE DeviceData -----------------------------
(***************************************************************************)
(* What a description says (src/daemon: device, service, icon and their    *)
(* _p files) and what D-Bus clients get to see of it (dbuscodec.cpp).      *)
(*                                                                         *)
(* Device, Service and Icon are explicitly shared pointers to their        *)
(* Private objects: to copy one is to share it.  Devices are therefore     *)
(* numbers, addresses on a heap of DevicePrivate records that the operators*)
(* take as their first argument, and 0 is the null pointer.  A service or  *)
(* an icon is in one list only and never changes in it: it is a record.    *)
(***************************************************************************)
EXTENDS Integers, SequencesExt

CONSTANTS
  Pieces,      \* pieces of texts, as the reader passes them on, and names of elements
  Numerals,    \* text -> number, for the texts that QString::toInt() accepts
  Location     \* [host, port] of the URL the description came from

NoText == <<>>    \* a text is the sequence of the pieces the reader passes it in

ASSUME NumeralsAssumption ==
  NoText \notin DOMAIN Numerals /\ \A text \in DOMAIN Numerals : Numerals[text] \in Int

DeviceKeys ==
  {"deviceType", "friendlyName", "manufacturer", "modelDescription", "modelName",
   "modelNumber", "serialNumber", "UDN", "presentationURL"}
ServiceKeys == {"serviceType", "controlURL", "eventSubURL", "SCPDURL", "serviceId"}
IconKeys    == {"mimetype", "width", "height", "depth", "url"}
IconSizes   == {"width", "height", "depth"}

(***************************************************************************)
(* A record for each of the Private classes.  parent and device are raw    *)
(* pointers; inRootDevice says that mRootDevice points to the RootDevice   *)
(* whose description this is.                                              *)
(***************************************************************************)
ServicePrivate == [properties : [ServiceKeys -> Seq(Pieces)], device : Nat]

IconPrivate ==
  [mimetype : Seq(Pieces), url : Seq(Pieces), width : Int, height : Int, depth : Int]

DevicePrivate ==
  [properties : [DeviceKeys -> Seq(Pieces)], icons : Seq(IconPrivate),
   services : Seq(ServicePrivate), devices : Seq(Nat), parent : Nat, inRootDevice : BOOLEAN]

NewDevice ==
  [properties |-> [k \in DeviceKeys |-> NoText], icons |-> <<>>, services |-> <<>>,
   devices |-> <<>>, parent |-> 0, inRootDevice |-> FALSE]

NewService == [properties |-> [k \in ServiceKeys |-> NoText], device |-> 0]

NewIcon == [k \in IconKeys |-> IF k \in IconSizes THEN 0 ELSE NoText]

-----------------------------------------------------------------------------
\* setProperty(): a name that is no property is ignored.
SetProperty(properties, key, value) ==
  IF key \in DOMAIN properties THEN [properties EXCEPT ![key] = value] ELSE properties

\* QString::toInt(): a text that is no number gives 0.
ToInt(text) == IF text \in DOMAIN Numerals THEN Numerals[text] ELSE 0

SetIconProperty(icon, key, value) ==
  SetProperty(icon, key, IF key \in IconSizes THEN ToInt(value) ELSE value)

AddIcon(heap, d, icon) == [heap EXCEPT ![d].icons = Append(@, icon)]

AddService(heap, d, service) ==
  [heap EXCEPT ![d].services = Append(@, [service EXCEPT !.device = d])]

\* Faulty variant: the device is not told of its parent.
AddDeviceUnparented(heap, d, c) == [heap EXCEPT ![d].devices = Append(@, c)]

\* addDevice() of d: the parent pointer of c counts no reference.
AddDevice(heap, d, c) == [heap EXCEPT ![c].parent = d, ![d].devices = Append(@, c)]

SetRootDevice(heap, d) == [heap EXCEPT ![d].inRootDevice = TRUE]

-----------------------------------------------------------------------------
(***************************************************************************)
(* The device that operator<< marshals for deviceDetails().  It asks the   *)
(* RootDevice for the location, and a device without one is taken for not  *)
(* valid.                                                                  *)
(***************************************************************************)
OwnDetails(device) ==
  [k \in DeviceKeys \cup {"ipAddress", "ipPortNumber"} |->
     CASE k = "ipAddress" -> Location.host
       [] k = "ipPortNumber" -> Location.port
       [] OTHER -> device.properties[k]]

Details(heap, d) ==
  IF ~ heap[d].inRootDevice THEN <<>>
  ELSE IF heap[d].parent = 0 THEN OwnDetails(heap[d])
  ELSE LET own == OwnDetails(heap[d]) IN
         [k \in DOMAIN own \cup {"parentDeviceUDN"} |->
            IF k = "parentDeviceUDN" THEN heap[heap[d].parent].properties["UDN"] ELSE own[k]]
=============================================================================
