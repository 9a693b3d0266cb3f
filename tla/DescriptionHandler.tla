------------------------- MODULE DescriptionHandler -------------------------
(***************************************************************************)
(* DeviceDescriptionXMLHandler (src/daemon/devicedescriptionxmlhandler.cpp)*)
(* is called by a SAX reader for every tag of a description document and   *)
(* builds the tree of Device objects, with a stack of the open elements    *)
(* and one of the devices that are not complete yet.                       *)
(*                                                                         *)
(* The reader (external: QXmlSimpleReader) only passes well-formed XML on, *)
(* so tags are balanced; but any element may be in any other, and nothing  *)
(* here depends on what a document is.  A document may also break off.     *)
(***************************************************************************)
EXTENDS DeviceData

CONSTANTS
  Documents,    \* the documents that may be read
  Calls         \* document -> the calls that the reader makes for it

VARIABLES
  document,           \* the document that is read
  tags,               \* the calls the reader still has to make
  mStatusStack,       \* kinds of the open elements
  mDeviceStack,       \* devices around the current one
  mCurrentDevice,
  mCurrentService,
  mCurrentIcon,
  mCharacterData,
  device,             \* the heap of DevicePrivate objects
  rootDevice,         \* RootDevice::mDevice, 0 as long as it is Device()
  mBaseUrl,           \* RootDevice::mBaseUrl
  outcome             \* "reading", "done", "rejected", "malformed", "undefined"

vars == <<document, tags, mStatusStack, mDeviceStack, mCurrentDevice,
          mCurrentService, mCurrentIcon, mCharacterData, device, rootDevice,
          mBaseUrl, outcome>>

\* What the handler has in hand besides the stacks.
current == <<mDeviceStack, mCurrentDevice, mCurrentService, mCurrentIcon, rootDevice>>

\* How many elements are open after the first n calls.
Depth(calls, n) ==
  Cardinality({i \in 1 .. n : calls[i].call = "startElement"})
    - Cardinality({i \in 1 .. n : calls[i].call = "endElement"})

\* A document is one element, with everything else in it.
Balanced(calls) ==
  /\ calls # <<>> /\ Depth(calls, Len(calls)) = 0
  /\ \A n \in 1 .. Len(calls) - 1 : Depth(calls, n) > 0

ASSUME CallsAssumption ==
  /\ Calls \in [Documents -> Seq([call : {"startElement", "endElement", "characters"},
                                  text : Pieces])]
  /\ \A d \in Documents : Balanced(Calls[d])

Statuses ==
  {"TopLevel", "RootElement", "UrlBaseElement", "DeviceElement", "DataElement",
   "IconListElement", "IconElement", "ServiceListElement", "ServiceElement",
   "DeviceListElement", "UnknownElement"}

top == Last(mStatusStack)
pop == Front(mStatusStack)

\* startDocument()
Init ==
  /\ document \in Documents
  /\ tags = Calls[document]
  /\ mStatusStack = <<"TopLevel">>
  /\ mDeviceStack = <<>>
  /\ mCurrentDevice = 1
  /\ mCurrentService = NewService
  /\ mCurrentIcon = NewIcon
  /\ mCharacterData = NoText
  /\ device = <<NewDevice>>
  /\ rootDevice = 0
  /\ mBaseUrl = NoText
  /\ outcome = "reading"

-----------------------------------------------------------------------------
(***************************************************************************)
(* startElement().  What an element is depends on where it is.             *)
(***************************************************************************)
Child(status, name) ==
  CASE status = "RootElement" /\ name = "device"           -> "DeviceElement"
    [] status = "RootElement" /\ name = "URLBase"          -> "UrlBaseElement"
    [] status = "DeviceElement" /\ name \in DeviceKeys     -> "DataElement"
    [] status = "DeviceElement" /\ name = "iconList"       -> "IconListElement"
    [] status = "DeviceElement" /\ name = "serviceList"    -> "ServiceListElement"
    [] status = "DeviceElement" /\ name = "deviceList"     -> "DeviceListElement"
    [] status = "IconListElement" /\ name = "icon"         -> "IconElement"
    [] status = "IconElement" /\ name \in IconKeys         -> "DataElement"
    [] status = "ServiceListElement" /\ name = "service"   -> "ServiceElement"
    [] status = "ServiceElement" /\ name \in ServiceKeys   -> "DataElement"
    [] status = "DeviceListElement" /\ name = "device"     -> "DeviceElement"
    [] OTHER                                               -> "UnknownElement"

\* Faulty variant: unknown elements are taken for such that hold text.
HoldsAnything(status) == status \in {"DataElement", "UrlBaseElement", "UnknownElement"}

\* These elements hold text: an element inside of them is not noted.
HoldsText(status) == status \in {"DataElement", "UrlBaseElement"}

OpenElement(name) ==
  /\ mStatusStack' = IF HoldsText(top) THEN mStatusStack
                     ELSE IF top = "TopLevel" THEN Append(mStatusStack, "RootElement")
                     ELSE Append(mStatusStack, Child(top, name))
  /\ IF top = "DeviceListElement" /\ name = "device"
     THEN /\ mDeviceStack' = Append(mDeviceStack, mCurrentDevice)
          /\ device' = Append(device, NewDevice)
          /\ mCurrentDevice' = Len(device) + 1
     ELSE UNCHANGED <<mDeviceStack, device, mCurrentDevice>>

\* The name of the outermost element is checked, no other one.
StartElement ==
  /\ Head(tags).call = "startElement"
  /\ mStatusStack # <<>>
  /\ mCharacterData' = NoText
  /\ IF top = "TopLevel" /\ Head(tags).text # "root"
     THEN /\ outcome' = "rejected"
          /\ UNCHANGED <<mStatusStack, mDeviceStack, device, mCurrentDevice>>
     ELSE OpenElement(Head(tags).text) /\ UNCHANGED outcome
  /\ UNCHANGED <<mCurrentService, mCurrentIcon, rootDevice, mBaseUrl>>

-----------------------------------------------------------------------------
(***************************************************************************)
(* endElement().  What is closed is what the stack says, whatever the tag. *)
(***************************************************************************)
CloseDeviceData(name) ==
  /\ Last(pop) = "DeviceElement"
  /\ device' = [device EXCEPT ![mCurrentDevice].properties =
                                SetProperty(@, name, mCharacterData)]
  /\ UNCHANGED current

CloseIconData(name) ==
  /\ Last(pop) = "IconElement"
  /\ mCurrentIcon' = SetIconProperty(mCurrentIcon, name, mCharacterData)
  /\ UNCHANGED <<mDeviceStack, mCurrentDevice, mCurrentService, rootDevice, device>>

CloseServiceData(name) ==
  /\ Last(pop) = "ServiceElement"
  /\ mCurrentService' =
       [mCurrentService EXCEPT !.properties = SetProperty(@, name, mCharacterData)]
  /\ UNCHANGED <<mDeviceStack, mCurrentDevice, mCurrentIcon, rootDevice, device>>

CloseIcon ==
  /\ device' = AddIcon(device, mCurrentDevice, mCurrentIcon)
  /\ mCurrentIcon' = NewIcon
  /\ UNCHANGED <<mDeviceStack, mCurrentDevice, mCurrentService, rootDevice>>

CloseService ==
  /\ device' = AddService(device, mCurrentDevice, mCurrentService)
  /\ mCurrentService' = NewService
  /\ UNCHANGED <<mDeviceStack, mCurrentDevice, mCurrentIcon, rootDevice>>

\* Faulty variant: the current device is let go when the RootDevice has got it,
\* although more may follow in the root element.
CloseRootDeviceLetGo ==
  /\ Last(pop) = "RootElement"
  /\ device' = SetRootDevice(device, mCurrentDevice)
  /\ rootDevice' = mCurrentDevice
  /\ mCurrentDevice' = 0
  /\ UNCHANGED <<mDeviceStack, mCurrentService, mCurrentIcon>>

CloseRootDevice ==
  /\ Last(pop) = "RootElement"
  /\ device' = SetRootDevice(device, mCurrentDevice)
  /\ rootDevice' = mCurrentDevice
  /\ UNCHANGED <<mDeviceStack, mCurrentDevice, mCurrentService, mCurrentIcon>>

\* Faulty variant: only the root device is told of its RootDevice.
ResumeDeviceUnset(parent) ==
  /\ Last(pop) # "RootElement"
  /\ device' = AddDevice(device, parent, mCurrentDevice)
  /\ mCurrentDevice' = parent
  /\ UNCHANGED <<mCurrentService, mCurrentIcon, rootDevice>>

\* What follows the end of a device inside of another: it is complete, and the
\* one around it, parent, is the current one again.
ResumeDevice(parent) ==
  /\ Last(pop) # "RootElement"
  /\ device' = AddDevice(SetRootDevice(device, mCurrentDevice), parent, mCurrentDevice)
  /\ mCurrentDevice' = parent
  /\ UNCHANGED <<mCurrentService, mCurrentIcon, rootDevice>>

\* Faulty variant: the device around it stays on the stack.
CloseEmbeddedDeviceKeep ==
  /\ ResumeDevice(Last(mDeviceStack))
  /\ UNCHANGED mDeviceStack

\* Faulty variant: the embedded device remains the current one.
CloseEmbeddedDeviceStay ==
  /\ Last(pop) # "RootElement"
  /\ mDeviceStack' = Front(mDeviceStack)
  /\ device' = AddDevice(SetRootDevice(device, mCurrentDevice), Last(mDeviceStack), mCurrentDevice)
  /\ UNCHANGED <<mCurrentDevice, mCurrentService, mCurrentIcon, rootDevice>>

CloseEmbeddedDevice ==
  /\ ResumeDevice(Last(mDeviceStack))
  /\ mDeviceStack' = Front(mDeviceStack)

EndElement ==
  /\ Head(tags).call = "endElement"
  /\ mStatusStack # <<>>
  /\ mStatusStack' = pop
  /\ mCharacterData' = NoText
  /\ LET name == Head(tags).text IN
     CASE top = "DataElement" -> CloseDeviceData(name) \/ CloseServiceData(name)
                                 \/ CloseIconData(name)
       [] top = "IconElement" -> CloseIcon
       [] top = "ServiceElement" -> CloseService
       [] top = "DeviceElement" -> CloseRootDevice \/ CloseEmbeddedDevice
       [] OTHER -> UNCHANGED <<current, device>>
  /\ mBaseUrl' = IF top = "UrlBaseElement" THEN mCharacterData ELSE mBaseUrl
  /\ UNCHANGED outcome

\* Faulty variant: a piece of text takes the place of the one before.
CharactersReplaced ==
  /\ Head(tags).call = "characters"
  /\ mCharacterData' = <<Head(tags).text>>
  /\ UNCHANGED <<mStatusStack, current, device, mBaseUrl, outcome>>

\* characters(): the reader may pass a text on in pieces.
Characters ==
  /\ Head(tags).call = "characters"
  /\ mCharacterData' = Append(mCharacterData, Head(tags).text)
  /\ UNCHANGED <<mStatusStack, current, device, mBaseUrl, outcome>>

-----------------------------------------------------------------------------
\* parseDeviceDescription(): the reader makes one call after the other, a
\* callback for a tag.
Call ==
  /\ outcome = "reading"
  /\ tags # <<>>
  /\ tags' = Tail(tags)
  /\ StartElement \/ EndElement \/ Characters
  /\ UNCHANGED document

EndDocument ==
  /\ outcome = "reading"
  /\ tags = <<>>
  /\ mStatusStack # <<>>
  /\ mStatusStack' = pop
  /\ outcome' = "done"
  /\ UNCHANGED <<document, tags, current, mCharacterData, device, mBaseUrl>>

\* The reader gives up, at whatever is not well-formed: the download is done
\* without success, with what the RootDevice has been given so far.
ParseError ==
  /\ outcome = "reading"
  /\ tags # <<>>
  /\ outcome' = "malformed"
  /\ UNCHANGED <<document, tags, mStatusStack, current, mCharacterData, device, mBaseUrl>>

\* top() or pop() of a stack that is empty: anything may happen.
Underflow ==
  /\ outcome = "reading"
  /\ mStatusStack = <<>>
  /\ tags # <<>> => Head(tags).call # "characters"
  /\ outcome' = "undefined"
  /\ UNCHANGED <<document, tags, mStatusStack, current, mCharacterData, device, mBaseUrl>>

Next == Call \/ EndDocument \/ ParseError \/ Underflow

Spec == Init /\ [][Next]_vars

-----------------------------------------------------------------------------
(***************************************************************************)
(* Properties.                                                             *)
(***************************************************************************)

\* The devices that can be reached from d by the lists of embedded devices.
Below(d) ==
  {e \in DOMAIN device :
     \A S \in SUBSET DOMAIN device :
       (d \in S /\ \A p \in S : ToSet(device[p].devices) \subseteq S) => e \in S}

\* The devices that are referenced and so not deleted, during the parsing also
\* by the handler.
LiveDevices ==
  LET holders == (IF rootDevice # 0 THEN {rootDevice} ELSE {})
                   \cup (IF outcome = "reading" THEN {mCurrentDevice} \cup ToSet(mDeviceStack)
                                                ELSE {})
  IN  UNION {Below(d) : d \in holders}

\* The types: no address is dangling, and the sizes of an icon are numbers
\* although all texts are read alike.
HandlerTypeOK ==
  /\ tags \in Seq([call : {"startElement", "endElement", "characters"}, text : Pieces])
  /\ mStatusStack \in Seq(Statuses)
  /\ device \in Seq(DevicePrivate)
  /\ mCurrentDevice \in DOMAIN device /\ mDeviceStack \in Seq(DOMAIN device)
  /\ rootDevice \in DOMAIN device \cup {0}
  /\ mCurrentService \in ServicePrivate /\ mCurrentIcon \in IconPrivate
  /\ mCharacterData \in Seq(Pieces) /\ mBaseUrl \in Seq(Pieces)
  /\ outcome \in {"reading", "done", "rejected", "malformed", "undefined"}

\* The two stacks go together: every embedded device that is open has the
\* device around it on the other stack, also while the elements on the stack
\* are not those that are open, after an element inside of a text.
StacksAgree ==
  outcome = "reading" =>
    Len(mDeviceStack) =
      Cardinality({i \in 2 .. Len(mStatusStack) :
                     mStatusStack[i] = "DeviceElement" /\ mStatusStack[i - 1] = "DeviceListElement"})

\* A device that is embedded has the device that lists it as its parent, and is
\* listed once: parentDeviceUDN of deviceDetails() tells where it is found.
ParentsAgree ==
  \A d \in DOMAIN device :
    LET lists == {p \in DOMAIN device : d \in ToSet(device[p].devices)}
    IN  lists = IF device[d].parent = 0 THEN {} ELSE {device[d].parent}

\* The raw pointers from a device to its parent and from a service to its
\* device never dangle: what they point to is referenced by something else as
\* long as they exist, wherever the parsing ends.
BackPointersLive ==
  outcome # "undefined" =>
    LET live == LiveDevices IN
      \A d \in live :
        /\ device[d].parent \in live \cup {0}
        /\ \A s \in ToSet(device[d].services) : s.device \in live

\* deviceDetails() of every device in the tree has all the keys that the D-Bus
\* interface names, parentDeviceUDN exactly for the embedded devices; and that
\* is the UDN by which deviceDetails() finds the device that lists it.
DetailsComplete ==
  (outcome = "done" /\ rootDevice # 0) =>
    /\ \A d \in Below(rootDevice) :
         DOMAIN Details(device, d) =
           DeviceKeys \cup {"ipAddress", "ipPortNumber"}
             \cup (IF d = rootDevice THEN {} ELSE {"parentDeviceUDN"})
    /\ \A d \in Below(rootDevice) : \A c \in ToSet(device[d].devices) :
         Details(device, c)["parentDeviceUDN"] = Details(device, d)["UDN"]

\* The names of elements that hold text.
TextNames == DeviceKeys \cup ServiceKeys \cup IconKeys \cup {"URLBase"}

\* No element is inside of one that holds text: between the start of such an
\* element and that of another one an element ends.
Plain(calls) ==
  \A i \in DOMAIN calls :
    calls[i].call = "startElement" /\ calls[i].text \in TextNames
    => \A j \in i + 1 .. Len(calls) :
         calls[j].call = "startElement" => \E k \in i + 1 .. j - 1 : calls[k].call = "endElement"

\* A document in which texts are plain is read to its end, if it is well-formed
\* up to there, whatever elements it has where: the handler does not reject it,
\* and its stacks do not run empty.
PlainIsRead ==
  outcome \in {"rejected", "undefined"} =>
    \A calls \in {Calls[document]} :   \* a bound variable, for TLC to evaluate it once
      ~ (calls[1].text = "root" /\ Plain(calls))
=============================================================================
